---------------------------- MODULE MCExprParser ----------------------------
(***************************************************************************)
(* An instance of ExprParser for TLC.                                      *)
(***************************************************************************)
EXTENDS ExprParser, TLC

\* "70" does not fit a long of this instance, "90" does not fit a float.
MCLitValue == ("4" :> 40) @@ ("2.5" :> 25) @@ ("70" :> 700) @@ ("90" :> 900)

-----------------------------------------------------------------------------
(***************************************************************************)
(* Every text of up to MaxLexemes lexemes, or one less with blanks between *)
(* them, well-formed or not.                                               *)
(***************************************************************************)
MaxLexemes == 5

MCLexemes == {"A", "4", "+", "-", "*", "(", ")", "nop"}

MCSequences ==
  UNION {[1..n -> MCLexemes] : n \in 0..MaxLexemes}
    \cup UNION {[1..n -> MCLexemes \cup {" "}] : n \in 1..(MaxLexemes - 1)}

MCAnyText ==
  {s \in MCSequences : \A i \in 1..(Len(s) - 1) : ~ (s[i] = "4" /\ s[i + 1] = "4")}
    \cup {<< "70" >>, << "-", "70" >>, << "90" >>}
=============================================================================

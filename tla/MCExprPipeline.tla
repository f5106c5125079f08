--------------------------- MODULE MCExprPipeline ---------------------------
(***************************************************************************)
(* Instances of ExprPipeline for TLC.                                      *)
(***************************************************************************)
EXTENDS ExprPipeline, InfixTexts

MCLitValue == ("4" :> 40) @@ ("2.5" :> 25)

\* Bytes with a wrap of the int32_t, a zero divisor (A - B) and a remainder.
MCFrames ==
  {[k \in 0..3 |-> << 7, 2, 5, 3 >>[k + 1]],
   [k \in 0..3 |-> << 2, 2, 0, 1 >>[k + 1]]}

\* The well-formed texts of up to four operands: every operator and every way
\* to put brackets, with signs, fractions and blanks.
MCTexts ==
  {<< "nop" >>, << "(", "(", "A", ")", ")" >>, << "(", "A", "+", "B", ")" >>}
    \cup UNION {WellFormedTexts(n, [x1 : {<< "A" >>, << "-", "4" >>, << " ", "4" >>},
                                    x2 : {<< "B" >>, << "2.5" >>, << "-", "2.5" >>},
                                    x3 : {<< "C" >>, << "2.5", " " >>}, x4 : {<< "D" >>}]) :
                n \in 1..3}
    \cup WellFormedTexts(4, [x1 : {<< "A" >>}, x2 : {<< "-", "2.5" >>, << "B" >>},
                             x3 : {<< "C" >>}, x4 : {<< "A" >>}])

\* Texts scripts/formatchecker/infix.py accepts: a '-' in one is always an
\* operator, with or without a blank behind it.  It evaluates a text with 0
\* for every letter, so a letter is no divisor of them.
MCValidated ==
  {<< "A", " ", op, " ", "4" >> : op \in Operators}
    \cup {<< "A", " ", op, "4" >> : op \in Operators}
    \cup {<< "A", op, "B" >> : op \in Operators \ {"/"}}

\* Four bytes of two bits each, put together to one number: with INT32_SPAN
\* = 256 it has the width of the type.
MCWord ==
  {<< "(", "(", "A", "*", "4", "+", "B", ")", "*", "4", "+", "C", ")", "*", "4", "+", "D" >>}

MCWordFrames == {[k \in 0..3 |-> << 0, 3, 2, 1 >>[k + 1]], [k \in 0..3 |-> << 3, 2, 1, 0 >>[k + 1]]}
=============================================================================

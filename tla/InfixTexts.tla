---------------------------- MODULE InfixTexts ----------------------------
(***************************************************************************)
(* Well-formed infix texts for the MC modules: every choice of operators   *)
(* and every way to put brackets around a part of the text.                *)
(***************************************************************************)
EXTENDS SequencesExt

\* A blank keeps a '-' from being read as the sign of a number.
LOCAL Operations == {<< "+" >>, << "-", " " >>, << "*" >>, << "/" >>}

LOCAL Brackets == [x \in {"(", ")"} |-> << x >>]

LOCAL Operand  == << "x1", "x2", "x3", "x4" >>
LOCAL Operator == << "o1", "o2", "o3" >>

\* The ways to put brackets around parts of the operands first..last.
RECURSIVE Shapes(_, _)
Factors(first, last) ==
  IF first = last THEN {<< Operand[first] >>}
                  ELSE {<< "(" >> \o t \o << ")" >> : t \in Shapes(first, last)}
Shapes(first, last) ==
  IF first = last THEN {<< Operand[first] >>}
  ELSE UNION {{t \o << Operator[k] >> \o f : t \in Shapes(first, k) \cup Factors(first, k),
                                             f \in Factors(k + 1, last)} :
              k \in first..(last - 1)}

LOCAL Fill(shape, ops, leaves) ==
  FlattenSeq([i \in DOMAIN shape |-> (Brackets @@ ops @@ leaves)[shape[i]]])

\* The texts with n operands; leaves is a set of choices for x1 to x4.
WellFormedTexts(n, leaves) ==
  {Fill(shape, ops, leaf) : shape \in Shapes(1, n),
                            ops   \in [o1 : Operations, o2 : Operations, o3 : Operations],
                            leaf  \in leaves}
=============================================================================

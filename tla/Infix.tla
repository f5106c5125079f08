------------------------------- MODULE Infix -------------------------------
(***************************************************************************)
(* What an infix expression means, independently of the way the compiler   *)
(* works: '*' and '/' bind more tightly than '+' and '-', all of them      *)
(* associate to the left, so the root of the syntax tree is the rightmost  *)
(* operator outside brackets among those that bind least.                  *)
(*                                                                         *)
(* The meaning is a fold over that tree: an instance says what a number, a *)
(* letter and an inner node stand for.  env is passed on to all three.     *)
(* Recursive definitions, evaluated by TLC only.                           *)
(***************************************************************************)
EXTENDS Integers, Sequences, FiniteSets

CONSTANTS
  LitValue,         \* the value of each number lexeme, in tenths
  Number(_, _),     \* of env, the number in tenths
  Letter(_, _),     \* of env, the letter
  Node(_, _, _, _)  \* of env, the operator, the meanings of both operands

LOCAL Weak   == {"+", "-"}
LOCAL Strong == {"*", "/"}

\* Operators outside brackets, among those in ops, that have an operand on
\* their left: a '-' without one is a sign.
LOCAL RootsAmong(s, ops) ==
  {i \in 2..Len(s) :
     /\ s[i] \in ops
     /\ s[i - 1] \notin Weak \cup Strong \cup {"("}
     /\   Cardinality({j \in 1..i : s[j] = "("})
        = Cardinality({j \in 1..i : s[j] = ")"})}

LOCAL Rightmost(S) == CHOOSE i \in S : \A j \in S : j <= i

LOCAL Roots(s) ==
  IF RootsAmong(s, Weak) # {} THEN RootsAmong(s, Weak) ELSE RootsAmong(s, Strong)

\* The meaning of a well-formed text without blanks.
RECURSIVE MeaningOf(_, _)
MeaningOf(env, s) ==
  CASE Roots(s) # {} ->
         LET root == Rightmost(Roots(s))
         IN  Node(env, s[root], MeaningOf(env, SubSeq(s, 1, root - 1)),
                                MeaningOf(env, SubSeq(s, root + 1, Len(s))))
    [] Roots(s) = {} /\ s[1] = "(" -> MeaningOf(env, SubSeq(s, 2, Len(s) - 1))
    [] Roots(s) = {} /\ s[1] = "-" -> Number(env, -LitValue[s[2]])
    [] Roots(s) = {} /\ Len(s) = 1 ->
         IF s[1] \in DOMAIN LitValue THEN Number(env, LitValue[s[1]])
                                     ELSE Letter(env, s[1])

LOCAL NoBlanks(s) == SelectSeq(s, LAMBDA lexeme : lexeme # " ")

Meaning(env, s) == MeaningOf(env, NoBlanks(s))
=============================================================================

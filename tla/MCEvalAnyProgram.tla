-------------------------- MODULE MCEvalAnyProgram --------------------------
(***************************************************************************)
(* An instance of EvalAnyProgram for TLC: every program of up to MaxTokens *)
(* tokens over a letter, both kinds of constant and two operators.         *)
(***************************************************************************)
EXTENDS EvalAnyProgram

MaxTokens == 5

MCTokens ==
  {[type |-> "EXPR_A"], [type |-> "EXPR_B"],
   [type |-> "EXPR_INT32", num |-> 3], [type |-> "EXPR_FLOAT", num |-> 25],
   [type |-> "EXPR_OP", as_op |-> "-"], [type |-> "EXPR_OP", as_op |-> "/"]}

MCPrograms == UNION {[1..n -> MCTokens] : n \in 1..MaxTokens}

\* The second frame makes A a zero divisor.
MCFrames == {[k \in 0..3 |-> k + 3], [k \in 0..3 |-> 0]}
=============================================================================

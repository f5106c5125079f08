--------------------------- MODULE EvalAnyProgram ---------------------------
(***************************************************************************)
(* stack_eval() on its own, over token sequences that a compiler may or    *)
(* may not have made: what eval.c itself guarantees about them.            *)
(***************************************************************************)
EXTENDS ExprEval

CONSTANTS Programs, Types

Tokens ==
       [type : Letters]
  \cup [type : {"EXPR_OP"}, as_op : {"+", "-", "*", "/"}]
  \cup [type : {"EXPR_INT32", "EXPR_FLOAT"}, num : Int]

ASSUME ProgramsAssumption == Programs \subseteq Seq(Tokens)

Init ==
  /\ expr \in {[type |-> "EXPR_STACK", size |-> Len(p), data |-> p] : p \in Programs}
  /\ type \in Types
  /\ EvalInit

Next == EvalNext \/ (pc = "xassert" /\ UNCHANGED vars)

Spec == Init /\ [][Next]_vars /\ WF_vars(EvalStep)

-----------------------------------------------------------------------------
\* No token is a constant of the other numeric type.
OneNumericType ==
  \A n \in 1..expr.size :
    expr.data[n].type \notin {"EXPR_INT32", "EXPR_FLOAT"} \ {enum_type}

\* Values left on the stack by the first n tokens.
Height(n) ==
    Cardinality({k \in 1..n : expr.data[k].type # "EXPR_OP"})
  - Cardinality({k \in 1..n : expr.data[k].type = "EXPR_OP"})

\* What no frame can change: the program is a postfix expression.
IsPostfix ==
  /\ OneNumericType
  /\ \A n \in 1..expr.size : Height(n) >= 1
  /\ Height(expr.size) = 1

\* The stack never holds more entries than tokens were read: the array of
\* expr->size slots that stack_eval() reserves suffices, and push never
\* asserts, for any program.
EvalStackFits == i <= expr.size /\ Len(stack) <= i

\* Whether a program is evaluated at all does not depend on the frame, zero
\* divisors apart: a program that is no postfix expression stops the process
\* at its first frame, one that is only ever stops it at a zero divisor.
OutcomeIsStatic ==
  /\ pc = "done" => IsPostfix
  /\ pc = "xassert" =>
       \/ ~IsPostfix
       \/ Token.as_op = "/" /\ IsZero(enum_type, tok1.num)

\* Every evaluation that has begun returns a number or stops the process.
EvaluationEnds == (pc = "eval") ~> (pc # "eval")
=============================================================================

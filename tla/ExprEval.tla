------------------------------ MODULE ExprEval ------------------------------
(***************************************************************************)
(* stack_eval() of src/eval.c and the two functions that its macro         *)
(* DEFINE_EVAL_FUNC makes, eval_expr_int32_t() and eval_expr_float(): a    *)
(* compiled expression is evaluated over the data bytes of a CAN frame, on *)
(* a stack with as many slots as the expression has tokens.  The same      *)
(* expression is evaluated for every frame of its PID, one at a time.      *)
(* A failing XASSERT stops the process: pc = "xassert".                    *)
(***************************************************************************)
EXTENDS Arith, FiniteSets, Stack

CONSTANT Frames  \* the data bytes of the frames that may arrive

ASSUME FramesAssumption == Frames \subseteq [0..3 -> Nat]

VARIABLES
  expr,   \* struct expr, as the expression compiler left it
  type,   \* the PID type
  data,   \* the data bytes of the frame
  i,      \* index of the next token, from 0
  stack,  \* the evaluation stack
  val,    \* the number returned
  pc      \* where the evaluation is

code == << expr, type >>
vars == << expr, type, data, i, stack, val, pc >>

NoVal == [ok |-> FALSE]

Val(x) == [ok |-> TRUE, num |-> x]

\* The function stack_eval() calls: its type tag.
enum_type == IF type = "float" THEN "EXPR_FLOAT" ELSE "EXPR_INT32"

Letters == {"EXPR_A", "EXPR_B", "EXPR_C", "EXPR_D"}

ByteOf(letter) ==
  CASE letter = "EXPR_A" -> 0
    [] letter = "EXPR_B" -> 1
    [] letter = "EXPR_C" -> 2
    [] letter = "EXPR_D" -> 3

Entry(x) == [type |-> enum_type, num |-> x]

Token == expr.data[i + 1]

Running == pc = "eval" /\ i < expr.size

\* Mutant: the loop does not go on to the next token.
PushAndStay(below, entry) ==
  \/ HasRoom(below, expr.size) /\ stack' = Push(below, entry) /\ UNCHANGED << i, pc >>
  \/ ~HasRoom(below, expr.size) /\ pc' = "xassert" /\ UNCHANGED << i, stack >>

PushEntry(below, entry) ==
  \/ HasRoom(below, expr.size) /\ stack' = Push(below, entry) /\ i' = i + 1 /\ UNCHANGED pc
  \/ ~HasRoom(below, expr.size) /\ pc' = "xassert" /\ UNCHANGED << i, stack >>

-----------------------------------------------------------------------------
\* No frame yet; expr and type are the compiler's.
EvalInit ==
  /\ data \in Frames
  /\ i = 0
  /\ stack = Empty
  /\ val = NoVal
  /\ pc = "idle"

\* A frame arrives: stack_eval() sets its stack up.
Start ==
  /\ pc \in {"idle", "done"}
  /\ data' \in Frames
  /\ i' = 0
  /\ stack' = Empty
  /\ val' = NoVal
  /\ pc' = "eval"
  /\ UNCHANGED code

EvalByte ==
  /\ Running
  /\ Token.type \in Letters
  /\ PushEntry(stack, Entry(FromByte(enum_type, data[ByteOf(Token.type)])))
  /\ UNCHANGED << code, data, val >>

EvalConstant ==
  /\ Running
  /\ Token.type = enum_type
  /\ PushEntry(stack, Entry(FromToken(Token)))
  /\ UNCHANGED << code, data, val >>

\* Mutant: the left operand is taken for the right one.
LeftOperand == Peek(Pop(stack))

\* The right operand is popped first.
tok1 == Peek(stack)
tok2 == Peek(Pop(stack))

\* What case EXPR_OP asserts before it computes.
OperandsOK ==
  /\ Len(stack) >= 2
  /\ tok1.type = enum_type /\ tok2.type = enum_type
  /\ Token.as_op = "/" => ~IsZero(enum_type, tok1.num)

EvalOp ==
  /\ Running
  /\ Token.type = "EXPR_OP"
  /\ OperandsOK
  /\ PushEntry(Pop(Pop(stack)),
               Entry(Apply(enum_type, Token.as_op, tok2.num, tok1.num)))
  /\ UNCHANGED << code, data, val >>

\* Mutant: an operator without its operands is retried.
EvalOpRetries ==
  /\ Running /\ Token.type = "EXPR_OP" /\ ~OperandsOK
  /\ UNCHANGED vars

EvalOpFails ==
  /\ Running
  /\ Token.type = "EXPR_OP"
  /\ ~OperandsOK
  /\ pc' = "xassert"
  /\ UNCHANGED << code, data, i, stack, val >>

\* A constant of the other numeric type.
EvalWrongType ==
  /\ Running
  /\ Token.type \in {"EXPR_INT32", "EXPR_FLOAT"} \ {enum_type}
  /\ pc' = "xassert"
  /\ UNCHANGED << code, data, i, stack, val >>

\* Mutant: the top entry is returned, whatever lies below it.
ReturnTop ==
  /\ pc = "eval"
  /\ i >= expr.size
  /\ NonEmpty(stack)
  /\ val' = Val(Narrow(enum_type, Peek(stack).num))
  /\ stack' = Pop(stack)
  /\ pc' = "done"
  /\ UNCHANGED << code, data, i >>

Return ==
  /\ pc = "eval"
  /\ i >= expr.size
  /\ \/ /\ Len(stack) = 1
        /\ val' = Val(Narrow(enum_type, Peek(stack).num))
        /\ stack' = Pop(stack)
        /\ pc' = "done"
     \/ /\ Len(stack) # 1
        /\ pc' = "xassert"
        /\ UNCHANGED << stack, val >>
  /\ UNCHANGED << code, data, i >>

\* The evaluation steps: once begun, they run to the end.
EvalStep ==
  EvalByte \/ EvalConstant \/ EvalOp \/ EvalOpFails \/ EvalWrongType \/ Return

EvalNext == Start \/ EvalStep
=============================================================================

---------------------------- MODULE ExprPipeline ----------------------------
(***************************************************************************)
(* The life of one PID's expression: parse_expr_val() compiles it when the *)
(* schema is loaded, stack_eval() evaluates the result for every frame of  *)
(* the PID that arrives later.  The two parts share struct expr and the    *)
(* PID type, and nothing else.                                             *)
(***************************************************************************)
EXTENDS ExprParserRefinement

CONSTANTS Frames, INT32_SPAN

VARIABLES data, i, stack, val, eval_pc

Eval == INSTANCE ExprEval WITH pc <- eval_pc

eval_vars     == << data, i, stack, val, eval_pc >>
pipeline_vars == << vars, eval_vars >>

PipelineInit == Init /\ Eval!EvalInit

Compile == Next /\ UNCHANGED eval_vars

\* A compiled formula meets a frame; "nop" is not evaluated on a stack.
Evaluate ==
  /\ pc = "done"
  /\ expr.type = "EXPR_STACK"
  /\ Eval!EvalNext
  /\ UNCHANGED << str, pos, tok, op_stack, out_stack, errno, pc >>

PipelineNext == Compile \/ Evaluate

\* Both are plain sequential code: a step that is due is taken.  Frames need
\* not arrive.
PipelineSpec ==
  /\ PipelineInit /\ [][PipelineNext]_pipeline_vars
  /\ WF_pipeline_vars(Compile)
  /\ WF_pipeline_vars(Evaluate /\ Eval!EvalStep)

-----------------------------------------------------------------------------
(***************************************************************************)
(* The value an expression should have, computed on its syntax tree; env   *)
(* is the pair of the numeric type and the frame's bytes.                  *)
(***************************************************************************)
Undefined == [ok |-> FALSE]

ValueOf(x) == [ok |-> TRUE, num |-> x]

TreeNumber(env, tenths) ==
  ValueOf(IF env[1] = "EXPR_FLOAT" THEN << tenths, 10 >> ELSE Whole(tenths))

TreeLetter(env, letter) ==
  ValueOf(Eval!FromByte(env[1], env[2][CASE letter = "A" -> 0 [] letter = "B" -> 1
                                         [] letter = "C" -> 2 [] letter = "D" -> 3]))

TreeNode(env, op, left, right) ==
  IF ~left.ok \/ ~right.ok \/ (op = "/" /\ Eval!IsZero(env[1], right.num))
    THEN Undefined
    ELSE ValueOf(Eval!Apply(env[1], op, left.num, right.num))

Tree == INSTANCE Infix WITH
  Number <- TreeNumber, Letter <- TreeLetter, Node <- TreeNode

TreeValue == Tree!Meaning(<< Eval!enum_type, data >>, str)

-----------------------------------------------------------------------------
\* The number an application gets for a frame is the value of the infix text
\* over the frame's bytes, and it gets one unless a divisor is zero: whatever
\* was evaluated before.
ValueIsInfix ==
  /\ eval_pc = "done" =>
       /\ TreeValue.ok
       /\ Eval!SameValue(Eval!enum_type, val.num, Eval!Narrow(Eval!enum_type, TreeValue.num))
  /\ eval_pc = "xassert" => ~TreeValue.ok

\* What README.md says of the interpreter: it can safely assume that the
\* schemas it sees are valid.  So on a text the validator has accepted no
\* assertion of the evaluation fails but the one about a zero divisor.
ValidatedIsSafe ==
  eval_pc = "xassert" =>
    /\ i < expr.size
    /\ Eval!Token.type = "EXPR_OP" /\ Eval!Token.as_op = "/"
    /\ Len(stack) >= 2 /\ Eval!IsZero(Eval!enum_type, Eval!tok1.num)

\* parser.c allows a PID type of four bytes for four data bytes, as a cast
\* that does not narrow.  So an unsigned value that the type can hold is the
\* value the application gets.
UnsignedIsKept ==
  eval_pc = "done" /\ type \in {"uint8", "uint16", "uint32"} /\ TreeValue.ok =>
    (TreeValue.num \in 0..(INT32_SPAN - 1) => val.num = TreeValue.num)
=============================================================================

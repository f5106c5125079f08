----------------------------- MODULE ExprParser -----------------------------
(***************************************************************************)
(* parse_expr_val() of src/expr.c: an infix expression of a PID schema is  *)
(* compiled to postfix with Dijkstra's shunting yard, on two stacks of     *)
(* fixed size.                                                             *)
(*                                                                         *)
(* The source text is a sequence of lexemes: a letter, an operator, a      *)
(* bracket, a blank, or an unsigned number (its digits are one lexeme).    *)
(* The tokenizer's only choice above that level, whether a '-' is read     *)
(* together with the digits behind it, is modelled as the code makes it.   *)
(* A failing XASSERT stops the process: pc = "xassert".                    *)
(***************************************************************************)
EXTENDS Integers, FiniteSets, Stack

CONSTANTS
  Exprs,          \* the source texts that are compiled
  Types,          \* the PID types they are compiled for
  LitValue,       \* the value of each unsigned number lexeme, in tenths
  LONG_MAX,       \* the largest number strtol() reads without ERANGE
  FLT_MAX,        \* the same for strtof()
  OP_STACK_SIZE,  \* slots of the operator stack
  OUT_STACK_SIZE  \* slots of the output stack

PidTypes ==
  {"float", "int8", "uint8", "int16", "uint16", "int32", "uint32"}

Literals  == DOMAIN LitValue
Letters   == {"A", "B", "C", "D"}
Operators == {"+", "-", "*", "/"}
Symbols   == Letters \cup Operators \cup {"(", ")", " ", "nop"}

ASSUME ParserAssumption ==
  /\ Exprs \subseteq Seq(Symbols \cup Literals)
  /\ Types \subseteq PidTypes
  /\ LitValue \in [Literals -> Nat]
  /\ Literals \cap Symbols = {}
  /\ LONG_MAX \in Nat /\ FLT_MAX \in Nat
  /\ OP_STACK_SIZE \in Nat \ {0}
  /\ OUT_STACK_SIZE \in Nat \ {0}

\* Two numbers side by side would be one number of the text.
ASSUME LexemeAssumption ==
  \A s \in Exprs : \A i \in 1..(Len(s) - 1) :
    ~ (s[i] \in Literals /\ s[i + 1] \in Literals)

VARIABLES
  str,        \* the source text
  type,       \* the PID type, pid_data_type
  pos,        \* index of the next lexeme to read
  tok,        \* the operator handle_op() is working on
  op_stack,   \* operators and open brackets
  out_stack,  \* the postfix expression so far
  expr,       \* struct expr, the result
  errno,      \* errno, which any earlier call may have left set
  pc          \* where the compiler is

input == << str, type >>
vars  == << str, type, pos, tok, op_stack, out_stack, expr, errno, pc >>

-----------------------------------------------------------------------------
(***************************************************************************)
(* Expression tokens, struct expr_token.                                   *)
(***************************************************************************)

LetterTypes == {"EXPR_A", "EXPR_B", "EXPR_C", "EXPR_D"}

LetterToken(letter) ==
  [type |-> CASE letter = "A" -> "EXPR_A"
              [] letter = "B" -> "EXPR_B"
              [] letter = "C" -> "EXPR_C"
              [] letter = "D" -> "EXPR_D"]

op_to_expr(op) == [type |-> "EXPR_OP", as_op |-> op]

\* strtol() reads the digits before the point; strtof() reads them all.
strtol(tenths) == IF tenths >= 0 THEN tenths \div 10 ELSE -((-tenths) \div 10)

NumToken(pid_type, tenths) ==
  IF pid_type = "float" THEN [type |-> "EXPR_FLOAT", num |-> tenths]
                        ELSE [type |-> "EXPR_INT32", num |-> strtol(tenths)]

\* What strtol() and strtof() read without setting errno.
InRange(pid_type, tenths) ==
  LET largest == 10 * (IF pid_type = "float" THEN FLT_MAX ELSE LONG_MAX)
  IN  tenths < largest + 10 /\ -tenths < largest + 10

ExprTokens ==
       [type : LetterTypes]
  \cup [type : {"EXPR_OP"}, as_op : Operators]
  \cup [type : {"EXPR_INT32", "EXPR_FLOAT"}, num : Int]

\* Mutant: all operators bind alike.
FlatPrecedence(op) == 0

precedence(op) == IF op \in {"+", "-"} THEN 0 ELSE 1

\* An expression not (or not yet) made; also data = NULL after a failed malloc.
NoData  == << >>
NoExpr  == [type |-> "none", size |-> 0, data |-> NoData]

-----------------------------------------------------------------------------
(***************************************************************************)
(* next_token(): what starts at str[pos].                                  *)
(***************************************************************************)

\* A '-' directly before a digit is read as the sign of the number.
IsSign(s, i) == s[i] = "-" /\ i < Len(s) /\ s[i + 1] \in Literals

AtEnd  == pos > Len(str)
AtSign == ~AtEnd /\ IsSign(str, pos)
AtNum  == ~AtEnd /\ str[pos] \in Literals
AtOne(lexemes) == ~AtEnd /\ ~AtSign /\ str[pos] \in lexemes

\* XASSERT failed: the process stops where it is.
Abort == pc' = "xassert" /\ UNCHANGED << op_stack, out_stack >>

\* Mutant: push does not assert that a slot is free.
PushOutUnchecked(item) ==
  out_stack' = Push(out_stack, item) /\ UNCHANGED << op_stack, pc >>

PushOut(item) ==
  \/ /\ HasRoom(out_stack, OUT_STACK_SIZE)
     /\ out_stack' = Push(out_stack, item)
     /\ UNCHANGED << op_stack, pc >>
  \/ ~HasRoom(out_stack, OUT_STACK_SIZE) /\ Abort

PushOp(item) ==
  \/ /\ HasRoom(op_stack, OP_STACK_SIZE)
     /\ op_stack' = Push(op_stack, item)
     /\ pc' = "next_token"
     /\ UNCHANGED out_stack
  \/ ~HasRoom(op_stack, OP_STACK_SIZE) /\ Abort

\* Mutant: op_to_expr() takes any item.
MoveAnything ==
  \/ /\ HasRoom(out_stack, OUT_STACK_SIZE)
     /\ op_stack' = Pop(op_stack)
     /\ out_stack' = Push(out_stack, op_to_expr(Peek(op_stack)))
     /\ UNCHANGED pc
  \/ ~HasRoom(out_stack, OUT_STACK_SIZE) /\ Abort

\* Move the top operator to the output; an open bracket is no operator.
MoveOp ==
  \/ /\ Peek(op_stack) \in Operators
     /\ HasRoom(out_stack, OUT_STACK_SIZE)
     /\ op_stack' = Pop(op_stack)
     /\ out_stack' = Push(out_stack, op_to_expr(Peek(op_stack)))
     /\ UNCHANGED pc
  \/ /\ \/ Peek(op_stack) \notin Operators
        \/ ~HasRoom(out_stack, OUT_STACK_SIZE)
     /\ Abort

-----------------------------------------------------------------------------
Init ==
  /\ str \in Exprs
  /\ type \in Types
  /\ pos = 1
  /\ tok = " "
  /\ op_stack = Empty
  /\ out_stack = Empty
  /\ expr = NoExpr
  /\ errno \in {"0", "ERANGE"}
  /\ pc = "start"

\* "nop": the frame's bytes are passed through, nothing is compiled.
ParseNop ==
  /\ pc = "start"
  /\ str = << "nop" >>
  /\ expr' = [type |-> "EXPR_NOP", size |-> 0, data |-> NoData]
  /\ pc' = "done"
  /\ UNCHANGED << input, errno, pos, tok, op_stack, out_stack >>

InitStacks ==
  /\ pc = "start"
  /\ str # << "nop" >>
  /\ op_stack' = Empty
  /\ out_stack' = Empty
  /\ pc' = "next_token"
  /\ UNCHANGED << input, errno, pos, tok, expr >>

SkipBlank ==
  /\ pc = "next_token"
  /\ AtOne({" "})
  /\ pos' = pos + 1
  /\ UNCHANGED << input, errno, tok, op_stack, out_stack, expr, pc >>

\* Mutant: errno is not reset before the conversion.
errno_kept(tenths) == IF InRange(type, tenths) THEN errno ELSE "ERANGE"

\* errno is set to 0, and by strtol() or strtof() if they have to.
errno_after(tenths) == IF InRange(type, tenths) THEN "0" ELSE "ERANGE"

PushNumber(tenths) ==
  /\ errno' = errno_after(tenths)
  /\ \/ errno' = "0" /\ PushOut(NumToken(type, tenths))
     \/ errno' # "0" /\ Abort

TakeNumber ==
  /\ pc = "next_token"
  /\ \/ AtNum /\ PushNumber(LitValue[str[pos]]) /\ pos' = pos + 1
     \/ AtSign /\ PushNumber(-LitValue[str[pos + 1]]) /\ pos' = pos + 2
  /\ UNCHANGED << input, tok, expr >>

TakeLetter ==
  /\ pc = "next_token"
  /\ AtOne(Letters)
  /\ pos' = pos + 1
  /\ PushOut(LetterToken(str[pos]))
  /\ UNCHANGED << input, errno, tok, expr >>

TakeOperator ==
  /\ pc = "next_token"
  /\ AtOne(Operators)
  /\ pos' = pos + 1
  /\ tok' = str[pos]
  /\ pc' = "handle_op"
  /\ UNCHANGED << input, errno, op_stack, out_stack, expr >>

TakeLparen ==
  /\ pc = "next_token"
  /\ AtOne({"("})
  /\ pos' = pos + 1
  /\ PushOp("(")
  /\ UNCHANGED << input, errno, tok, expr >>

TakeRparen ==
  /\ pc = "next_token"
  /\ AtOne({")"})
  /\ pos' = pos + 1
  /\ pc' = "rparen"
  /\ UNCHANGED << input, errno, tok, op_stack, out_stack, expr >>

\* Mutant: an unknown lexeme is reported and met again.
IgnoreUnknown == pc = "next_token" /\ AtOne({"nop"}) /\ UNCHANGED vars

\* A lexeme the tokenizer does not know.
TakeUnknown ==
  /\ pc = "next_token"
  /\ AtOne({"nop"})
  /\ Abort
  /\ UNCHANGED << input, errno, pos, tok, expr >>

TakeEnd ==
  /\ pc = "next_token"
  /\ AtEnd
  /\ pc' = "flush"
  /\ UNCHANGED << input, errno, pos, tok, op_stack, out_stack, expr >>

\* Mutant: an operator of the same precedence is not popped.
YieldsOnlyTighter(op) == op # "(" /\ precedence(op) > precedence(tok)

\* handle_op(): the operators on top that bind at least as tightly as tok.
Yields(op) == op # "(" /\ precedence(op) >= precedence(tok)

HandleOpPop ==
  /\ pc = "handle_op"
  /\ NonEmpty(op_stack)
  /\ Yields(Peek(op_stack))
  /\ MoveOp
  /\ UNCHANGED << input, errno, pos, tok, expr >>

HandleOpPush ==
  /\ pc = "handle_op"
  /\ ~(NonEmpty(op_stack) /\ Yields(Peek(op_stack)))
  /\ PushOp(tok)
  /\ UNCHANGED << input, errno, pos, tok, expr >>

\* The loop of case TOK_RPAREN; its own assertion (ret != -1) cannot fail,
\* because peek returns a bool: without an open bracket, pop stops it.
RparenPop ==
  /\ pc = "rparen"
  /\ \/ NonEmpty(op_stack) /\ Peek(op_stack) # "(" /\ MoveOp
     \/ ~NonEmpty(op_stack) /\ Abort
  /\ UNCHANGED << input, errno, pos, tok, expr >>

\* Mutant: the left bracket stays on the stack.
RparenKeepsBracket ==
  /\ pc = "rparen"
  /\ NonEmpty(op_stack)
  /\ Peek(op_stack) = "("
  /\ pc' = "next_token"
  /\ UNCHANGED << input, errno, pos, tok, op_stack, out_stack, expr >>

RparenEnd ==
  /\ pc = "rparen"
  /\ NonEmpty(op_stack)
  /\ Peek(op_stack) = "("
  /\ op_stack' = Pop(op_stack)
  /\ pc' = "next_token"
  /\ UNCHANGED << input, errno, pos, tok, out_stack, expr >>

\* The remaining operators; a bracket left open fails in op_to_expr().
Flush ==
  /\ pc = "flush"
  /\ NonEmpty(op_stack)
  /\ MoveOp
  /\ UNCHANGED << input, errno, pos, tok, expr >>

\* Mutant: operators are left on the stack.
FlushEndsEarly ==
  /\ pc = "flush"
  /\ pc' = IF NonEmpty(out_stack) THEN "alloc" ELSE "xassert"
  /\ UNCHANGED << input, errno, pos, tok, op_stack, out_stack, expr >>

FlushEnd ==
  /\ pc = "flush"
  /\ ~NonEmpty(op_stack)
  /\ pc' = IF NonEmpty(out_stack) THEN "alloc" ELSE "xassert"
  /\ UNCHANGED << input, errno, pos, tok, op_stack, out_stack, expr >>

\* malloc() and memcpy(), bottom to top.
AllocExpr ==
  /\ pc = "alloc"
  /\ expr' = [type |-> "EXPR_STACK", size |-> Len(out_stack), data |-> out_stack]
  /\ pc' = "done"
  /\ UNCHANGED << input, errno, pos, tok, op_stack, out_stack >>

AllocFails ==
  /\ pc = "alloc"
  /\ expr' = [type |-> "EXPR_STACK", size |-> Len(out_stack), data |-> NoData]
  /\ errno' = "ENOMEM"
  /\ pc' = "oom"
  /\ UNCHANGED << input, pos, tok, op_stack, out_stack >>

Finished == {"done", "oom", "xassert"}

\* The call has returned, or the process is gone.
Ended == pc \in Finished /\ UNCHANGED vars

Next ==
  \/ ParseNop \/ InitStacks
  \/ SkipBlank \/ TakeNumber \/ TakeLetter \/ TakeOperator
  \/ TakeLparen \/ TakeRparen \/ TakeUnknown \/ TakeEnd
  \/ HandleOpPop \/ HandleOpPush
  \/ RparenPop \/ RparenEnd
  \/ Flush \/ FlushEnd \/ AllocExpr \/ AllocFails
  \/ Ended

Fairness == WF_vars(Next)

Spec == Init /\ [][Next]_vars /\ Fairness

-----------------------------------------------------------------------------
(***************************************************************************)
(* Well-formed texts, as the compiler reads them.                          *)
(***************************************************************************)

Operands == Letters \cup Literals

\* A token starts at i: not a blank, not the digits behind a sign.
TokenStarts(s) == {i \in 1..Len(s) : s[i] # " " /\ ~(i > 1 /\ IsSign(s, i - 1))}

StartsOperand(s, i) == s[i] \in Operands \cup {"("} \/ IsSign(s, i)

\* The last token before i ends an operand.
AfterOperand(s, i) ==
  \E k \in 1..(i - 1) : /\ s[k] \in Operands \cup {")"}
                       /\ \A j \in (k + 1)..(i - 1) : s[j] = " "

\* Operands and operators take turns, and the text ends in an operand.
Alternates(s) ==
  /\ \A i \in TokenStarts(s) :
       s[i] # "nop" /\ (StartsOperand(s, i) <=> ~AfterOperand(s, i))
  /\ AfterOperand(s, Len(s) + 1)

Occurrences(s, lexeme, n) == Cardinality({i \in 1..n : s[i] = lexeme})

\* Every bracket has its partner.
Matched(s) ==
  /\ \A n \in 1..Len(s) : Occurrences(s, ")", n) <= Occurrences(s, "(", n)
  /\ Occurrences(s, ")", Len(s)) = Occurrences(s, "(", Len(s))

NumbersInRange(s) ==
  \A i \in 1..Len(s) : s[i] \in Literals => InRange(type, LitValue[s[i]])

IsOp(token) == token.type = "EXPR_OP"

\* Values left on an evaluation stack by the first n tokens of a postfix.
Balance(postfix, n) ==
    Cardinality({i \in 1..n : ~IsOp(postfix[i])})
  - Cardinality({i \in 1..n : IsOp(postfix[i])})

Compiled == str # << "nop" >> /\ pc \in {"alloc", "done", "oom"}

-----------------------------------------------------------------------------
\* The types of the variables, the bounds of both stacks included (stack.h
\* asserts them on every push).
TypeOK ==
  /\ str \in Seq(Symbols \cup Literals)
  /\ type \in PidTypes
  /\ pos \in 1..(Len(str) + 1)
  /\ tok \in Operators \cup {" "}
  /\ op_stack \in Seq(Operators \cup {"("}) /\ Len(op_stack) <= OP_STACK_SIZE
  /\ out_stack \in Seq(ExprTokens) /\ Len(out_stack) <= OUT_STACK_SIZE
  /\ expr \in [type : {"none", "EXPR_NOP", "EXPR_STACK"},
              size : 0..OUT_STACK_SIZE, data : Seq(ExprTokens)]
  /\ errno \in {"0", "ERANGE", "ENOMEM"}
  /\ pc \in Finished \cup
          {"start", "next_token", "handle_op", "rparen", "flush", "alloc"}

\* Between two brackets of the operator stack the operators bind ever more
\* tightly towards the top: what handle_op() pops is always due.
PrecedenceLadder ==
  \A i \in 1..(Len(op_stack) - 1) :
    {op_stack[i], op_stack[i + 1]} \subseteq Operators
      => precedence(op_stack[i]) < precedence(op_stack[i + 1])

\* So each open bracket costs at most three slots of the operator stack, and
\* OP_STACK_SIZE (20) is enough for six brackets open at once.
OpStackNeed ==
  Len(op_stack) <= 3 * Occurrences(op_stack, "(", Len(op_stack)) + 2

\* A text whose operands and operators take turns compiles to a postfix that
\* no prefix of underflows the evaluation stack and that leaves one value.
Evaluable ==
  Alternates(str) =>
    /\ \A n \in 1..Len(out_stack) : Balance(out_stack, n) >= 1
    /\ Compiled => Balance(out_stack, Len(out_stack)) = 1

\* Only texts with matched brackets are compiled to the end: the brackets are
\* checked by pop on an empty stack and by op_to_expr(), not by the
\* assertion of case TOK_RPAREN.
CompiledIsMatched == Compiled => Matched(str)

\* The process stops only for a malformed text, a number out of range or a
\* full stack.
AssertsOnlyMalformed ==
  pc = "xassert" => \/ ~Alternates(str)
                    \/ ~Matched(str)
                    \/ ~NumbersInRange(str)
                    \/ Len(op_stack) = OP_STACK_SIZE
                    \/ Len(out_stack) = OUT_STACK_SIZE

\* Every text is compiled, refused for lack of memory, or stops the process.
Termination == <>(pc \in Finished)
=============================================================================

----------------------- MODULE EvalAnyProgram_proofs -----------------------
(***************************************************************************)
(* Theorems about EvalAnyProgram: for every program, well-formed or not,   *)
(* every set of frames and every width of int32_t.                         *)
(***************************************************************************)
EXTENDS EvalAnyProgram, StackTheorems

\* The numbers of each type, and the entries of the evaluation stack.
Numbers(tag) == IF tag = "EXPR_FLOAT" THEN Int \X Int ELSE Int

Entries == [type : {"EXPR_FLOAT"}, num : Int \X Int] \cup [type : {"EXPR_INT32"}, num : Int]

LEMMA EntryType ==
  ASSUME NEW x \in Numbers(enum_type)
  PROVE  Entry(x) \in Entries
BY DEF Entry, Entries, Numbers, enum_type

LEMMA QuotientType ==
  ASSUME NEW n \in Int, NEW d \in Int, d # 0
  PROVE  Quotient(n, d) \in Int
<1> DEFINE abs(x) == IF x >= 0 THEN x ELSE -x
<1>1. abs(n) \in Nat /\ abs(d) \in Nat /\ abs(d) > 0
  OBVIOUS
<1> HIDE DEF abs
<1>2. abs(n) \div abs(d) \in Int
  BY <1>1
<1>3. -(abs(n) \div abs(d)) \in Int
  BY <1>2
<1> QED BY <1>2, <1>3 DEF Quotient, abs

LEMMA ApplyType ==
  ASSUME NEW tag, NEW op \in {"+", "-", "*", "/"},
         NEW x \in Numbers(tag), NEW y \in Numbers(tag),
         op = "/" => ~IsZero(tag, y)
  PROVE  Apply(tag, op, x, y) \in Numbers(tag)
<1>1. CASE tag = "EXPR_FLOAT"
  <2>1. /\ x \in Int \X Int /\ y \in Int \X Int
        /\ x[1] \in Int /\ x[2] \in Int /\ y[1] \in Int /\ y[2] \in Int
    BY <1>1 DEF Numbers
  <2>2. ApplyFloat(op, x, y) \in Int \X Int
    BY <2>1 DEF ApplyFloat
  <2> QED BY <1>1, <2>2 DEF Apply, Numbers
<1>2. CASE tag # "EXPR_FLOAT"
  <2>1. x \in Int /\ y \in Int /\ (op = "/" => y # 0)
    BY <1>2 DEF Numbers, IsZero
  <2>2. ApplyInt(op, x, y) \in Int
    BY <2>1, QuotientType DEF ApplyInt
  <2> QED BY <1>2, <2>2 DEF Apply, Numbers
<1> QED BY <1>1, <1>2

-----------------------------------------------------------------------------
(***************************************************************************)
(* The inductive invariant: each token read has left at most one entry.    *)
(***************************************************************************)
IInv ==
  /\ expr.size = Len(expr.data)
  /\ expr.data \in Seq(Tokens)
  /\ data \in Frames
  /\ i \in Nat
  /\ stack \in Seq(Entries)
  /\ EvalStackFits

LEMMA TokenType ==
  ASSUME IInv, Running
  PROVE  Token \in Tokens /\ i < expr.size /\ i + 1 <= expr.size
<1>1. Len(expr.data) \in Nat
  BY LenProperties DEF IInv
<1>2. i + 1 \in 1..Len(expr.data)
  BY <1>1 DEF IInv, Running
<1> QED BY <1>1, <1>2, ElementOfSeq DEF IInv, Running, Token

LEMMA PushEntryFits ==
  ASSUME IInv, Running, UNCHANGED << expr, data >>,
         NEW below \in Seq(Entries), Len(below) <= i,
         NEW entry \in Entries, PushEntry(below, entry)
  PROVE  IInv'
<1>1. CASE HasRoom(below, expr.size) /\ stack' = Push(below, entry) /\ i' = i + 1
  <2>1. stack' \in Seq(Entries) /\ Len(stack') = Len(below) + 1 /\ Len(below) \in Nat
    BY <1>1, PushProperties, LenProperties
  <2>2. i + 1 <= expr.size
    BY TokenType
  <2> QED BY <1>1, <2>1, <2>2 DEF IInv, EvalStackFits
<1>2. CASE UNCHANGED << i, stack >>
  BY <1>2 DEF IInv, EvalStackFits
<1> QED BY <1>1, <1>2 DEF PushEntry

\* The two operands case EXPR_OP pops, and the stack below them.
LEMMA OperandTypes ==
  ASSUME IInv, Len(stack) >= 2, tok1.type = enum_type, tok2.type = enum_type
  PROVE  /\ tok1.num \in Numbers(enum_type) /\ tok2.num \in Numbers(enum_type)
         /\ Pop(Pop(stack)) \in Seq(Entries)
         /\ Len(Pop(Pop(stack))) = Len(stack) - 2
<1>1. stack \in Seq(Entries) /\ NonEmpty(stack) /\ Len(stack) \in Nat
  BY LenProperties DEF IInv, NonEmpty
<1>2. Pop(stack) \in Seq(Entries) /\ Len(Pop(stack)) = Len(stack) - 1
  BY <1>1, PopProperties
<1>3. NonEmpty(Pop(stack))
  BY <1>1, <1>2 DEF NonEmpty
<1>4. tok1 \in Entries /\ tok2 \in Entries
  BY <1>1, <1>2, <1>3, PeekProperties DEF tok1, tok2
<1>5. Pop(Pop(stack)) \in Seq(Entries) /\ Len(Pop(Pop(stack))) = Len(Pop(stack)) - 1
  BY <1>2, <1>3, PopProperties
<1>6. enum_type \in {"EXPR_FLOAT", "EXPR_INT32"}
  BY DEF enum_type
<1>7. tok1.num \in Numbers(enum_type) /\ tok2.num \in Numbers(enum_type)
  BY <1>4, <1>6 DEF Entries, Numbers
<1> QED BY <1>1, <1>2, <1>5, <1>7

LEMMA InitIInv == Init => IInv
<1> SUFFICES ASSUME Init PROVE IInv
  OBVIOUS
<1>1. PICK p \in Programs : expr = [type |-> "EXPR_STACK", size |-> Len(p), data |-> p]
  BY DEF Init
<1>2. p \in Seq(Tokens) /\ expr.size = Len(p) /\ expr.data = p /\ Len(p) \in Nat
  BY <1>1, ProgramsAssumption, LenProperties
<1>3. data \in Frames /\ i = 0 /\ stack = << >>
  BY DEF Init, EvalInit, Empty
<1>4. << >> \in Seq(Entries) /\ Len(<< >>) = 0
  OBVIOUS
<1> QED BY <1>2, <1>3, <1>4 DEF IInv, EvalStackFits

LEMMA NextIInv == IInv /\ [Next]_vars => IInv'
<1> SUFFICES ASSUME IInv, [Next]_vars PROVE IInv'
  OBVIOUS
<1> USE DEF code
<1>0. stack \in Seq(Entries) /\ Len(stack) \in Nat /\ Len(stack) <= i /\ i \in Nat
  BY LenProperties DEF IInv, EvalStackFits
<1>1. CASE Start
  <2>1. << >> \in Seq(Entries) /\ Len(<< >>) = 0
    OBVIOUS
  <2>2. expr.size \in Nat
    BY LenProperties DEF IInv
  <2> QED BY <1>1, <2>1, <2>2 DEF Start, IInv, EvalStackFits, Empty
<1>2. CASE EvalByte
  <2>1. FromByte(enum_type, data[ByteOf(Token.type)]) \in Numbers(enum_type)
    <3>1. ByteOf(Token.type) \in 0..3
      BY <1>2 DEF EvalByte, Letters, ByteOf
    <3>2. data[ByteOf(Token.type)] \in Int
      BY <3>1, FramesAssumption DEF IInv
    <3> QED BY <3>2 DEF FromByte, Numbers
  <2>2. Running /\ UNCHANGED << expr, data >>
    BY <1>2 DEF EvalByte
  <2> QED BY <1>0, <1>2, <2>1, <2>2, EntryType, PushEntryFits DEF EvalByte
<1>3. CASE EvalConstant
  <2>1. Running /\ UNCHANGED << expr, data >> /\ Token.type = enum_type
    BY <1>3 DEF EvalConstant
  <2>2. Token.num \in Int
    <3>1. Token \in Tokens
      BY <2>1, TokenType
    <3>2. Token.type \in {"EXPR_INT32", "EXPR_FLOAT"}
      BY <2>1 DEF enum_type
    <3> QED BY <3>1, <3>2 DEF Tokens, Letters
  <2>3. FromToken(Token) \in Numbers(enum_type)
    BY <2>1, <2>2 DEF FromToken, Numbers
  <2> QED BY <1>0, <1>3, <2>1, <2>3, EntryType, PushEntryFits DEF EvalConstant
<1>4. CASE EvalOp
  <2>1. Running /\ UNCHANGED << expr, data >> /\ OperandsOK /\ Token.type = "EXPR_OP"
    BY <1>4 DEF EvalOp
  <2>2. Token.as_op \in {"+", "-", "*", "/"}
    <3>1. Token \in Tokens
      BY <2>1, TokenType
    <3> QED BY <2>1, <3>1 DEF Tokens, Letters
  <2>3. /\ tok1.num \in Numbers(enum_type) /\ tok2.num \in Numbers(enum_type)
        /\ Pop(Pop(stack)) \in Seq(Entries)
        /\ Len(Pop(Pop(stack))) = Len(stack) - 2
    BY <2>1, OperandTypes DEF OperandsOK
  <2>4. Apply(enum_type, Token.as_op, tok2.num, tok1.num) \in Numbers(enum_type)
    BY <2>1, <2>2, <2>3, ApplyType DEF OperandsOK
  <2>5. Len(Pop(Pop(stack))) <= i
    BY <1>0, <2>3
  <2> QED BY <1>4, <2>1, <2>3, <2>4, <2>5, EntryType, PushEntryFits DEF EvalOp
<1>5. CASE EvalOpFails \/ EvalWrongType
  BY <1>5 DEF EvalOpFails, EvalWrongType, IInv, EvalStackFits
<1>6. CASE Return
  <2>1. CASE stack' = Pop(stack) /\ Len(stack) = 1
    <3>1. stack' \in Seq(Entries) /\ Len(stack') = Len(stack) - 1
      BY <1>0, <2>1, PopProperties DEF NonEmpty
    <3> QED BY <1>0, <1>6, <2>1, <3>1 DEF Return, IInv, EvalStackFits
  <2>2. CASE UNCHANGED stack
    BY <1>6, <2>2 DEF Return, IInv, EvalStackFits
  <2> QED BY <1>6, <2>1, <2>2 DEF Return
<1>7. CASE UNCHANGED vars
  BY <1>7 DEF vars, IInv, EvalStackFits
<1> QED
  BY <1>1, <1>2, <1>3, <1>4, <1>5, <1>6, <1>7 DEF Next, EvalNext, EvalStep

\* The array of expr->size slots that stack_eval() puts on the C stack is big
\* enough for every expression and every frame.
THEOREM EvalStackNeverFull == Spec => []EvalStackFits
<1>1. IInv => EvalStackFits
  BY DEF IInv
<1> QED BY InitIInv, NextIInv, <1>1, PTL DEF Spec

-----------------------------------------------------------------------------
(***************************************************************************)
(* What stack_eval() decides.  While it runs, the stack is as high as the  *)
(* tokens read make it, whatever the frame, and each of them had its       *)
(* operands and the type of the function.                                  *)
(***************************************************************************)

\* The first n tokens begin a postfix expression.
Postfix(n) ==
  \A k \in 1..n :
    /\ expr.data[k].type \notin {"EXPR_INT32", "EXPR_FLOAT"} \ {enum_type}
    /\ Height(k) >= 1

StackTyped == \A k \in 1..Len(stack) : stack[k].type = enum_type

RunningSound == pc = "eval" => Len(stack) = Height(i) /\ Postfix(i)

OInv ==
  /\ IInv
  /\ pc \in {"idle", "eval", "done", "xassert"}
  /\ StackTyped
  /\ RunningSound
  /\ OutcomeIsStatic

\* An operator takes two entries and leaves one; any other token leaves one.
LEMMA HeightStep ==
  ASSUME NEW n \in Nat
  PROVE  /\ Height(n) \in Int
         /\ Height(n + 1) = Height(n) + (IF expr.data[n + 1].type = "EXPR_OP" THEN -1 ELSE 1)
<1> DEFINE Others == {k \in Nat : expr.data[k].type # "EXPR_OP"}
           Ops == {k \in Nat : expr.data[k].type = "EXPR_OP"}
           CountOthers(m) == Cardinality({k \in 1..m : k \in Others})
           CountOps(m) == Cardinality({k \in 1..m : k \in Ops})
<1>1. ASSUME NEW m \in Nat PROVE Height(m) = CountOthers(m) - CountOps(m)
  <2>1. {k \in 1..m : expr.data[k].type # "EXPR_OP"} = {k \in 1..m : k \in Others}
    OBVIOUS
  <2>2. {k \in 1..m : expr.data[k].type = "EXPR_OP"} = {k \in 1..m : k \in Ops}
    OBVIOUS
  <2> QED BY <2>1, <2>2 DEF Height
<1>2. /\ CountOthers(n) \in Nat
      /\ CountOthers(n + 1) = CountOthers(n) + (IF n + 1 \in Others THEN 1 ELSE 0)
  BY CountStep
<1>3. /\ CountOps(n) \in Nat
      /\ CountOps(n + 1) = CountOps(n) + (IF n + 1 \in Ops THEN 1 ELSE 0)
  BY CountStep
<1>4. (n + 1 \in Ops <=> expr.data[n + 1].type = "EXPR_OP") /\ (n + 1 \in Others <=> n + 1 \notin Ops)
  OBVIOUS
<1> HIDE DEF CountOthers, CountOps, Others, Ops
<1> QED BY <1>1, <1>2, <1>3, <1>4

LEMMA HeightZero == Height(0) = 0
<1>1. {k \in 1..0 : expr.data[k].type # "EXPR_OP"} = {}
  OBVIOUS
<1>2. {k \in 1..0 : expr.data[k].type = "EXPR_OP"} = {}
  OBVIOUS
<1> QED BY <1>1, <1>2, FS_EmptySet DEF Height

\* No frame changes the expression, nor what is said of it.
LEMMA CodeUnchanged ==
  ASSUME UNCHANGED code
  PROVE  /\ enum_type' = enum_type
         /\ \A n : Height(n)' = Height(n)
         /\ \A n : Postfix(n)' = Postfix(n)
         /\ IsPostfix' = IsPostfix
<1>1. expr' = expr /\ enum_type' = enum_type
  BY DEF code, enum_type
<1>2. \A n : Height(n)' = Height(n)
  BY <1>1 DEF Height
<1> QED BY <1>1, <1>2 DEF Postfix, IsPostfix, OneNumericType

\* A token that is read and leaves an entry keeps the invariant, when the
\* stack was as high as it has to be.
LEMMA PushEntrySound ==
  ASSUME OInv, Running, UNCHANGED << code, data, val >>,
         NEW below \in Seq(Entries), Len(below) <= i,
         \A k \in 1..Len(below) : below[k].type = enum_type,
         NEW x \in Numbers(enum_type), PushEntry(below, Entry(x)),
         Token.type \notin {"EXPR_INT32", "EXPR_FLOAT"} \ {enum_type},
         Len(below) + 1 = Height(i + 1)
  PROVE  OInv'
<1>1. IInv /\ i \in Nat /\ i < expr.size /\ Len(below) \in Nat /\ pc = "eval"
  BY TokenType, LenProperties DEF OInv, IInv, Running
<1>2. HasRoom(below, expr.size)
  BY <1>1, TokenType DEF HasRoom, IInv
<1>3. stack' = Push(below, Entry(x)) /\ i' = i + 1 /\ UNCHANGED << pc, code >>
  BY <1>2 DEF PushEntry
<1>4. Entry(x) \in Entries /\ Entry(x).type = enum_type
  BY EntryType DEF Entry
<1>5. IInv'
  BY <1>1, <1>4, PushEntryFits DEF code
<1>6. /\ enum_type' = enum_type
      /\ \A n : Height(n)' = Height(n)
      /\ \A n : Postfix(n)' = Postfix(n)
  BY <1>3, CodeUnchanged
<1>7. /\ Len(stack') = Len(below) + 1
      /\ \A k \in 1..Len(below) : stack'[k] = below[k]
      /\ stack'[Len(below) + 1] = Entry(x)
  <2> DEFINE entry == Entry(x)
  <2>1. entry \in Entries /\ stack' = Push(below, entry)
    BY <1>3, <1>4
  <2> HIDE DEF entry
  <2>2. /\ Len(Push(below, entry)) = Len(below) + 1
        /\ \A k \in 1..Len(below) : Push(below, entry)[k] = below[k]
        /\ Push(below, entry)[Len(below) + 1] = entry
    BY <2>1 DEF Push
  <2> QED BY <2>1, <2>2 DEF entry
<1>8. StackTyped'
  BY <1>1, <1>4, <1>6, <1>7 DEF StackTyped
<1>9. RunningSound'
  <2>1. Postfix(i)
    BY <1>1 DEF OInv, RunningSound
  <2>2. Postfix(i + 1)
    BY <1>1, <2>1 DEF Postfix, Token
  <2> QED BY <1>3, <1>6, <1>7, <2>2 DEF RunningSound
<1> QED BY <1>1, <1>3, <1>5, <1>8, <1>9 DEF OInv, OutcomeIsStatic

LEMMA InitOInv == Init => OInv
<1> SUFFICES ASSUME Init PROVE OInv
  OBVIOUS
<1>1. stack = << >> /\ Len(stack) = 0 /\ pc = "idle"
  BY DEF Init, EvalInit, Empty
<1> QED BY <1>1, InitIInv DEF OInv, StackTyped, RunningSound, OutcomeIsStatic

LEMMA NextOInv == OInv /\ [Next]_vars => OInv'
<1> SUFFICES ASSUME OInv, [Next]_vars PROVE OInv'
  OBVIOUS
<1>0. /\ IInv /\ IInv'
      /\ stack \in Seq(Entries) /\ Len(stack) \in Nat /\ Len(stack) <= i /\ i \in Nat
      /\ expr.size \in Nat
  BY NextIInv, LenProperties DEF OInv, IInv, EvalStackFits
<1>1. CASE Start
  <2>1. stack' = << >> /\ Len(stack') = 0 /\ i' = 0 /\ pc' = "eval" /\ UNCHANGED code
    BY <1>1 DEF Start, Empty
  <2>2. Height(0)' = 0 /\ Postfix(0)'
    BY <2>1, HeightZero, CodeUnchanged DEF Postfix
  <2> QED BY <1>0, <2>1, <2>2 DEF OInv, StackTyped, RunningSound, OutcomeIsStatic
<1>2. CASE EvalByte
  <2>1. Running /\ Token.type \in Letters /\ UNCHANGED << code, data, val >>
    BY <1>2 DEF EvalByte
  <2>2. FromByte(enum_type, data[ByteOf(Token.type)]) \in Numbers(enum_type)
    <3>1. ByteOf(Token.type) \in 0..3
      BY <2>1 DEF Letters, ByteOf
    <3>2. data[ByteOf(Token.type)] \in Int
      BY <1>0, <3>1, FramesAssumption DEF IInv
    <3> QED BY <3>2 DEF FromByte, Numbers
  <2>3. Len(stack) + 1 = Height(i + 1)
    BY <1>0, <2>1, HeightStep DEF OInv, RunningSound, Running, Token, Letters
  <2>4. Token.type \notin {"EXPR_INT32", "EXPR_FLOAT"}
    BY <2>1 DEF Letters
  <2> QED
    BY <1>0, <1>2, <2>1, <2>2, <2>3, <2>4, PushEntrySound DEF EvalByte, OInv, StackTyped
<1>3. CASE EvalConstant
  <2>1. Running /\ UNCHANGED << code, data, val >> /\ Token.type = enum_type
    BY <1>3 DEF EvalConstant
  <2>2. Token.num \in Int /\ Token.type \in {"EXPR_INT32", "EXPR_FLOAT"}
    <3>1. Token \in Tokens
      BY <1>0, <2>1, TokenType
    <3>2. Token.type \in {"EXPR_INT32", "EXPR_FLOAT"}
      BY <2>1 DEF enum_type
    <3> QED BY <3>1, <3>2 DEF Tokens, Letters
  <2>3. FromToken(Token) \in Numbers(enum_type)
    BY <2>1, <2>2 DEF FromToken, Numbers
  <2>4. Len(stack) + 1 = Height(i + 1)
    BY <1>0, <2>1, <2>2, HeightStep DEF OInv, RunningSound, Running, Token
  <2> QED
    BY <1>0, <1>3, <2>1, <2>3, <2>4, PushEntrySound DEF EvalConstant, OInv, StackTyped
<1>4. CASE EvalOp
  <2>1. /\ Running /\ UNCHANGED << code, data, val >> /\ OperandsOK
        /\ Token.type = "EXPR_OP"
    BY <1>4 DEF EvalOp
  <2>2. Token.as_op \in {"+", "-", "*", "/"}
    <3>1. Token \in Tokens
      BY <1>0, <2>1, TokenType
    <3> QED BY <2>1, <3>1 DEF Tokens, Letters
  <2>3. /\ tok1.num \in Numbers(enum_type) /\ tok2.num \in Numbers(enum_type)
        /\ Pop(Pop(stack)) \in Seq(Entries)
        /\ Len(Pop(Pop(stack))) = Len(stack) - 2
    BY <1>0, <2>1, OperandTypes DEF OperandsOK
  <2>4. Apply(enum_type, Token.as_op, tok2.num, tok1.num) \in Numbers(enum_type)
    BY <2>1, <2>2, <2>3, ApplyType DEF OperandsOK
  <2>5. \A k \in 1..Len(Pop(Pop(stack))) : Pop(Pop(stack))[k].type = enum_type
    <3>1. Len(stack) >= 2
      BY <2>1 DEF OperandsOK
    <3>2. /\ Pop(stack) \in Seq(Entries) /\ Len(Pop(stack)) = Len(stack) - 1
          /\ \A k \in 1..(Len(stack) - 1) : Pop(stack)[k] = stack[k]
      BY <1>0, <3>1, PopProperties DEF NonEmpty
    <3>3. \A k \in 1..(Len(Pop(stack)) - 1) : Pop(Pop(stack))[k] = Pop(stack)[k]
      BY <1>0, <3>1, <3>2, PopProperties DEF NonEmpty
    <3>4. ASSUME NEW k \in 1..Len(Pop(Pop(stack)))
          PROVE  Pop(Pop(stack))[k].type = enum_type
      <4>1. k \in 1..Len(stack) /\ k \in 1..(Len(stack) - 1) /\ k \in 1..(Len(Pop(stack)) - 1)
        BY <1>0, <2>3, <3>1, <3>2
      <4>2. Pop(Pop(stack))[k] = stack[k]
        BY <3>2, <3>3, <4>1
      <4>3. stack[k].type = enum_type
        BY <4>1 DEF OInv, StackTyped
      <4> QED BY <4>2, <4>3
    <3> QED BY <3>4
  <2>6. Len(Pop(Pop(stack))) + 1 = Height(i + 1)
    <3>1. Len(stack) = Height(i) /\ expr.data[i + 1].type = "EXPR_OP"
      BY <2>1 DEF OInv, RunningSound, Running, Token
    <3>2. Height(i + 1) = Height(i) - 1
      BY <1>0, <3>1, HeightStep
    <3> QED BY <1>0, <2>3, <3>1, <3>2
  <2>7. Len(Pop(Pop(stack))) <= i
    BY <1>0, <2>3
  <2>8. Token.type \notin {"EXPR_INT32", "EXPR_FLOAT"}
    BY <2>1
  <2> QED
    BY <1>0, <1>4, <2>1, <2>3, <2>4, <2>5, <2>6, <2>7, <2>8, PushEntrySound DEF EvalOp
<1>5. CASE EvalOpFails
  <2>1. /\ Running /\ ~OperandsOK /\ Token.type = "EXPR_OP"
        /\ pc' = "xassert" /\ UNCHANGED << code, data, i, stack, val >>
    BY <1>5 DEF EvalOpFails
  <2>2. i + 1 \in 1..expr.size /\ pc = "eval"
    BY <1>0, <2>1, TokenType DEF Running
  <2>3. CASE Len(stack) < 2
    <3>1. Height(i + 1) < 1
      <4>1. Len(stack) = Height(i) /\ expr.data[i + 1].type = "EXPR_OP"
        BY <2>1, <2>2 DEF OInv, RunningSound, Token
      <4>2. Height(i + 1) = Height(i) - 1
        BY <1>0, <4>1, HeightStep
      <4> QED BY <1>0, <2>3, <4>1, <4>2
    <3>2. ~IsPostfix
      <4>1. Height(i + 1) \in Int /\ ~(Height(i + 1) >= 1)
        BY <1>0, <3>1, HeightStep
      <4> QED BY <2>2, <4>1 DEF IsPostfix
    <3> QED
      BY <1>0, <2>1, <3>2, CodeUnchanged
         DEF OInv, StackTyped, RunningSound, OutcomeIsStatic
  <2>4. CASE Len(stack) >= 2
    <3>1. Pop(stack)[Len(stack) - 1] = stack[Len(stack) - 1] /\ Len(Pop(stack)) = Len(stack) - 1
      BY <1>0, <2>4, PopProperties DEF NonEmpty
    <3>2. tok1.type = enum_type /\ tok2.type = enum_type
      BY <1>0, <2>4, <3>1 DEF OInv, StackTyped, tok1, tok2, Peek
    <3>3. Token.as_op = "/" /\ IsZero(enum_type, tok1.num)
      BY <2>1, <2>4, <3>2 DEF OperandsOK
    <3>4. Token' = Token /\ tok1' = tok1 /\ enum_type' = enum_type
      BY <2>1 DEF code, Token, tok1, enum_type
    <3> QED
      BY <1>0, <2>1, <3>3, <3>4, CodeUnchanged
         DEF OInv, StackTyped, RunningSound, OutcomeIsStatic
  <2> QED BY <1>0, <2>3, <2>4
<1>6. CASE EvalWrongType
  <2>1. /\ Running /\ Token.type \in {"EXPR_INT32", "EXPR_FLOAT"} \ {enum_type}
        /\ pc' = "xassert" /\ UNCHANGED << code, data, i, stack, val >>
    BY <1>6 DEF EvalWrongType
  <2>2. i + 1 \in 1..expr.size
    BY <1>0, <2>1, TokenType
  <2>3. ~IsPostfix
    BY <2>1, <2>2 DEF IsPostfix, OneNumericType, Token
  <2> QED
    BY <1>0, <2>1, <2>3, CodeUnchanged
       DEF OInv, StackTyped, RunningSound, OutcomeIsStatic
<1>7. CASE Return
  <2>1. pc = "eval" /\ i = expr.size /\ UNCHANGED code
    BY <1>0, <1>7 DEF Return, IInv, EvalStackFits
  <2>2. Len(stack) = Height(expr.size) /\ Postfix(expr.size)
    BY <2>1 DEF OInv, RunningSound
  <2>3. CASE Len(stack) = 1
    <3>1. stack' = Pop(stack) /\ pc' = "done"
      BY <1>7, <2>3 DEF Return
    <3>2. Len(stack') = 0
      BY <1>0, <2>3, <3>1, PopProperties DEF NonEmpty
    <3>3. IsPostfix
      BY <2>2, <2>3 DEF IsPostfix, Postfix, OneNumericType
    <3> QED
      BY <1>0, <2>1, <3>1, <3>2, <3>3, CodeUnchanged
         DEF OInv, StackTyped, RunningSound, OutcomeIsStatic
  <2>4. CASE Len(stack) # 1
    <3>1. UNCHANGED stack /\ pc' = "xassert"
      BY <1>7, <2>4 DEF Return
    <3>2. ~IsPostfix
      BY <2>2, <2>4 DEF IsPostfix
    <3> QED
      BY <1>0, <2>1, <3>1, <3>2, CodeUnchanged
         DEF OInv, StackTyped, RunningSound, OutcomeIsStatic
  <2> QED BY <2>3, <2>4
<1>8. CASE UNCHANGED vars
  <2>1. UNCHANGED << expr, code, i, stack, pc >> /\ Token' = Token /\ tok1' = tok1
    BY <1>8 DEF vars, code, Token, tok1
  <2> QED
    BY <1>0, <2>1, CodeUnchanged DEF OInv, StackTyped, RunningSound, OutcomeIsStatic
<1> QED
  BY <1>1, <1>2, <1>3, <1>4, <1>5, <1>6, <1>7, <1>8 DEF Next, EvalNext, EvalStep

\* Whether a compiled expression is evaluated or stops the process does not
\* depend on the frame, zero divisors apart: for every expression, every
\* frame and every width of int32_t.
THEOREM EvalOutcomeIsStatic == Spec => []OutcomeIsStatic
<1>1. OInv => OutcomeIsStatic
  BY DEF OInv
<1> QED BY InitOInv, NextOInv, <1>1, PTL DEF Spec
=============================================================================

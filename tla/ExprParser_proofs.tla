------------------------- MODULE ExprParser_proofs -------------------------
(***************************************************************************)
(* Theorems about ExprParser, for every set of texts, every value of the   *)
(* number lexemes and every size of the two stacks.                        *)
(***************************************************************************)
EXTENDS ExprParser, StackTheorems, FiniteSetTheorems

(***************************************************************************)
(* The inductive invariant: TypeOK in parts that the actions disturb       *)
(* separately, and that handle_op() always has an operator to work on.     *)
(***************************************************************************)

ReadOK ==
  /\ str \in Seq(Symbols \cup Literals)
  /\ type \in PidTypes
  /\ pos \in 1..(Len(str) + 1)

StacksOK ==
  /\ op_stack \in Seq(Operators \cup {"("}) /\ Len(op_stack) <= OP_STACK_SIZE
  /\ out_stack \in Seq(ExprTokens) /\ Len(out_stack) <= OUT_STACK_SIZE

ExprOK == expr \in [type : {"none", "EXPR_NOP", "EXPR_STACK"},
                    size : 0..OUT_STACK_SIZE, data : Seq(ExprTokens)]

ControlOK ==
  /\ tok \in Operators \cup {" "}
  /\ pc \in Finished \cup
          {"start", "next_token", "handle_op", "rparen", "flush", "alloc"}
  /\ pc = "handle_op" => tok \in Operators

IInv == ReadOK /\ StacksOK /\ ExprOK /\ ControlOK

LEMMA TokenTypes ==
  /\ \A letter \in Letters : LetterToken(letter) \in ExprTokens
  /\ \A op \in Operators : op_to_expr(op) \in ExprTokens
  /\ \A pid_type \in PidTypes, tenths \in Int : NumToken(pid_type, tenths) \in ExprTokens
<1>1. \A letter \in Letters : LetterToken(letter) \in ExprTokens
  BY DEF LetterToken, ExprTokens, LetterTypes, Letters
<1>2. \A op \in Operators : op_to_expr(op) \in ExprTokens
  BY DEF op_to_expr, ExprTokens
<1>3. \A pid_type \in PidTypes, tenths \in Int : NumToken(pid_type, tenths) \in ExprTokens
  BY DEF NumToken, ExprTokens, strtol
<1> QED BY <1>1, <1>2, <1>3

-----------------------------------------------------------------------------
(***************************************************************************)
(* What the three ways to use the stacks do to their types.                *)
(***************************************************************************)

LEMMA AbortType ==
  ASSUME StacksOK, Abort
  PROVE  StacksOK' /\ pc' = "xassert"
BY DEF StacksOK, Abort

LEMMA PushOutType ==
  ASSUME StacksOK, NEW item \in ExprTokens, PushOut(item)
  PROVE  StacksOK' /\ pc' \in {pc, "xassert"}
<1>1. CASE Abort BY <1>1, AbortType
<1>2. CASE /\ HasRoom(out_stack, OUT_STACK_SIZE)
           /\ out_stack' = Push(out_stack, item)
           /\ UNCHANGED << op_stack, pc >>
  <2>1. /\ out_stack' \in Seq(ExprTokens) /\ Len(out_stack') = Len(out_stack) + 1
    BY <1>2, PushProperties DEF StacksOK
  <2> QED BY <1>2, <2>1, ParserAssumption DEF StacksOK, HasRoom
<1> QED BY <1>1, <1>2 DEF PushOut

LEMMA PushOpType ==
  ASSUME StacksOK, NEW item \in Operators \cup {"("}, PushOp(item)
  PROVE  StacksOK' /\ pc' \in {"next_token", "xassert"}
<1>1. CASE Abort BY <1>1, AbortType
<1>2. CASE /\ HasRoom(op_stack, OP_STACK_SIZE)
           /\ op_stack' = Push(op_stack, item)
           /\ pc' = "next_token"
           /\ UNCHANGED out_stack
  <2>1. /\ op_stack' \in Seq(Operators \cup {"("}) /\ Len(op_stack') = Len(op_stack) + 1
    BY <1>2, PushProperties DEF StacksOK
  <2> QED BY <1>2, <2>1, ParserAssumption DEF StacksOK, HasRoom
<1> QED BY <1>1, <1>2 DEF PushOp

LEMMA MoveOpType ==
  ASSUME StacksOK, NonEmpty(op_stack), MoveOp
  PROVE  StacksOK' /\ pc' \in {pc, "xassert"}
<1>1. CASE Abort BY <1>1, AbortType
<1>2. CASE /\ Peek(op_stack) \in Operators
           /\ HasRoom(out_stack, OUT_STACK_SIZE)
           /\ op_stack' = Pop(op_stack)
           /\ out_stack' = Push(out_stack, op_to_expr(Peek(op_stack)))
           /\ UNCHANGED pc
  <2>1. /\ op_stack' \in Seq(Operators \cup {"("}) /\ Len(op_stack') = Len(op_stack) - 1
    BY <1>2, PopProperties DEF StacksOK
  <2>2. op_to_expr(Peek(op_stack)) \in ExprTokens
    BY <1>2, TokenTypes
  <2>3. /\ out_stack' \in Seq(ExprTokens) /\ Len(out_stack') = Len(out_stack) + 1
    BY <1>2, <2>2, PushProperties DEF StacksOK
  <2> QED BY <1>2, <2>1, <2>3, ParserAssumption DEF StacksOK, HasRoom
<1> QED BY <1>1, <1>2 DEF MoveOp

-----------------------------------------------------------------------------
LEMMA ReadAhead ==
  ASSUME ReadOK, ~AtEnd
  PROVE  /\ pos \in 1..Len(str) /\ pos + 1 \in 1..(Len(str) + 1)
         /\ str[pos] \in Symbols \cup Literals
<1>1. Len(str) \in Nat
  BY LenProperties DEF ReadOK
<1>2. pos \in 1..Len(str) /\ pos + 1 \in 1..(Len(str) + 1)
  BY <1>1 DEF ReadOK, AtEnd
<1> QED BY <1>2, ElementOfSeq DEF ReadOK

LEMMA InitIInv == Init => IInv
<1> SUFFICES ASSUME Init PROVE IInv
  OBVIOUS
<1>1. ReadOK
  <2>1. str \in Seq(Symbols \cup Literals) /\ type \in PidTypes /\ pos = 1
    BY ParserAssumption DEF Init
  <2>2. Len(str) \in Nat
    BY <2>1, LenProperties
  <2>3. 1 \in 1..(Len(str) + 1)
    BY <2>2
  <2> QED BY <2>1, <2>3 DEF ReadOK
<1>2. \A S : << >> \in Seq(S) /\ Len(<< >>) = 0
  OBVIOUS
<1>3. OP_STACK_SIZE \in Nat /\ OUT_STACK_SIZE \in Nat
  BY ParserAssumption
<1>4. StacksOK
  <2>1. op_stack = << >> /\ out_stack = << >>
    BY DEF Init, Empty
  <2> QED BY <1>2, <1>3, <2>1 DEF StacksOK
<1>5. ExprOK
  <2>1. expr = [type |-> "none", size |-> 0, data |-> << >>]
    BY DEF Init, NoExpr, NoData
  <2>2. 0 \in 0..OUT_STACK_SIZE
    BY <1>3
  <2> QED BY <1>2, <2>1, <2>2 DEF ExprOK
<1>6. ControlOK
  BY DEF Init, ControlOK
<1> QED BY <1>1, <1>4, <1>5, <1>6 DEF IInv

LEMMA NextIInv == IInv /\ [Next]_vars => IInv'
<1> SUFFICES ASSUME ReadOK, StacksOK, ExprOK, ControlOK, [Next]_vars
             PROVE  ReadOK' /\ StacksOK' /\ ExprOK' /\ ControlOK'
  BY DEF IInv
<1> USE DEF input
<1>a. UNCHANGED << str, type, pos >> => ReadOK'
  BY DEF ReadOK
<1>b. UNCHANGED << op_stack, out_stack >> => StacksOK'
  BY DEF StacksOK
<1>c. UNCHANGED expr => ExprOK'
  BY DEF ExprOK
<1>d. ASSUME UNCHANGED tok, pc' \in {pc, "xassert", "next_token"} PROVE ControlOK'
  BY <1>d DEF ControlOK, Finished
<1>e. ASSUME UNCHANGED << str, type >>, ~AtEnd, pos' = pos + 1 PROVE ReadOK'
  BY <1>e, ReadAhead DEF ReadOK
<1>f. Len(out_stack) \in 0..OUT_STACK_SIZE
  BY LenProperties, ParserAssumption DEF StacksOK
<1>1. CASE ParseNop
  <2>1. ExprOK'
    BY <1>1, EmptySeq, ParserAssumption DEF ParseNop, ExprOK, NoData
  <2>2. ControlOK'
    BY <1>1 DEF ParseNop, ControlOK, Finished
  <2> QED BY <1>1, <1>a, <1>b, <2>1, <2>2 DEF ParseNop
<1>2. CASE InitStacks
  <2>1. StacksOK'
    BY <1>2, EmptySeq, ParserAssumption DEF InitStacks, StacksOK, Empty
  <2> QED BY <1>2, <1>a, <1>c, <1>d, <2>1 DEF InitStacks
<1>3. CASE SkipBlank
  BY <1>3, <1>b, <1>c, <1>d, <1>e DEF SkipBlank, AtOne
<1>4. CASE TakeNumber
  <2>1. ASSUME NEW tenths \in Int, PushNumber(tenths)
        PROVE  StacksOK' /\ pc' \in {pc, "xassert"}
    <3>1. type \in PidTypes
      BY DEF ReadOK
    <3> QED BY <2>1, <3>1, TokenTypes, PushOutType, AbortType DEF PushNumber
  <2>2. CASE AtNum /\ PushNumber(LitValue[str[pos]]) /\ pos' = pos + 1
    <3>1. LitValue[str[pos]] \in Int
      BY <2>2, ParserAssumption DEF AtNum
    <3>2. StacksOK' /\ pc' \in {pc, "xassert"}
      BY <2>1, <2>2, <3>1
    <3> QED BY <1>4, <1>c, <1>d, <1>e, <2>2, <3>2 DEF TakeNumber, AtNum
  <2>3. CASE AtSign /\ PushNumber(-LitValue[str[pos + 1]]) /\ pos' = pos + 2
    <3>1. -LitValue[str[pos + 1]] \in Int
      BY <2>3, ParserAssumption DEF AtSign, IsSign
    <3>2. StacksOK' /\ pc' \in {pc, "xassert"}
      BY <2>1, <2>3, <3>1
    <3>3. ReadOK'
      <4>1. Len(str) \in Nat
        BY LenProperties DEF ReadOK
      <4> QED BY <1>4, <2>3, <4>1 DEF TakeNumber, ReadOK, AtSign, IsSign
    <3> QED BY <1>4, <1>c, <1>d, <3>2, <3>3 DEF TakeNumber
  <2> QED BY <1>4, <2>2, <2>3 DEF TakeNumber
<1>5. CASE TakeLetter
  <2>1. LetterToken(str[pos]) \in ExprTokens
    BY <1>5, TokenTypes DEF TakeLetter, AtOne
  <2>2. StacksOK' /\ pc' \in {pc, "xassert"}
    BY <1>5, <2>1, PushOutType DEF TakeLetter
  <2> QED BY <1>5, <1>c, <1>d, <1>e, <2>2 DEF TakeLetter, AtOne
<1>6. CASE TakeOperator
  <2>1. ControlOK'
    BY <1>6 DEF TakeOperator, AtOne, ControlOK, Finished
  <2> QED BY <1>6, <1>b, <1>c, <1>e, <2>1 DEF TakeOperator, AtOne
<1>7. CASE TakeLparen
  <2>1. StacksOK' /\ pc' \in {"next_token", "xassert"}
    BY <1>7, PushOpType DEF TakeLparen
  <2> QED BY <1>7, <1>c, <1>d, <1>e, <2>1 DEF TakeLparen, AtOne
<1>8. CASE TakeRparen
  <2>1. ControlOK'
    BY <1>8 DEF TakeRparen, ControlOK, Finished
  <2> QED BY <1>8, <1>b, <1>c, <1>e, <2>1 DEF TakeRparen, AtOne
<1>9. CASE TakeUnknown
  BY <1>9, <1>a, <1>b, <1>c, <1>d DEF TakeUnknown, Abort
<1>10. CASE TakeEnd
  <2>1. ControlOK'
    BY <1>10 DEF TakeEnd, ControlOK, Finished
  <2> QED BY <1>10, <1>a, <1>b, <1>c, <2>1 DEF TakeEnd
<1>11. CASE HandleOpPop
  <2>1. StacksOK' /\ pc' \in {pc, "xassert"}
    BY <1>11, MoveOpType DEF HandleOpPop
  <2> QED BY <1>11, <1>a, <1>c, <1>d, <2>1 DEF HandleOpPop
<1>12. CASE HandleOpPush
  <2>1. StacksOK' /\ pc' \in {"next_token", "xassert"}
    BY <1>12, PushOpType DEF HandleOpPush, ControlOK
  <2> QED BY <1>12, <1>a, <1>c, <1>d, <2>1 DEF HandleOpPush
<1>13. CASE RparenPop
  <2>1. StacksOK' /\ pc' \in {pc, "xassert"}
    BY <1>13, MoveOpType, AbortType DEF RparenPop
  <2> QED BY <1>13, <1>a, <1>c, <1>d, <2>1 DEF RparenPop
<1>14. CASE RparenEnd
  <2>1. StacksOK'
    <3>1. /\ op_stack' \in Seq(Operators \cup {"("}) /\ Len(op_stack') = Len(op_stack) - 1
      BY <1>14, PopProperties DEF RparenEnd, StacksOK
    <3>2. Len(op_stack) \in Nat
      BY LenProperties DEF StacksOK
    <3> QED BY <1>14, <3>1, <3>2, ParserAssumption DEF RparenEnd, StacksOK
  <2> QED BY <1>14, <1>a, <1>c, <1>d, <2>1 DEF RparenEnd
<1>15. CASE Flush
  <2>1. StacksOK' /\ pc' \in {pc, "xassert"}
    BY <1>15, MoveOpType DEF Flush
  <2> QED BY <1>15, <1>a, <1>c, <1>d, <2>1 DEF Flush
<1>16. CASE FlushEnd
  <2>1. ControlOK'
    BY <1>16 DEF FlushEnd, ControlOK, Finished
  <2> QED BY <1>16, <1>a, <1>b, <1>c, <2>1 DEF FlushEnd
<1>17. CASE AllocExpr
  <2>1. ExprOK'
    BY <1>17, <1>f DEF AllocExpr, ExprOK, StacksOK
  <2>2. ControlOK'
    BY <1>17 DEF AllocExpr, ControlOK, Finished
  <2> QED BY <1>17, <1>a, <1>b, <2>1, <2>2 DEF AllocExpr
<1>18. CASE AllocFails
  <2>1. ExprOK'
    BY <1>18, <1>f, EmptySeq DEF AllocFails, ExprOK, NoData
  <2>2. ControlOK'
    BY <1>18 DEF AllocFails, ControlOK, Finished
  <2> QED BY <1>18, <1>a, <1>b, <2>1, <2>2 DEF AllocFails
<1>19. CASE Ended \/ UNCHANGED vars
  BY <1>19, <1>a, <1>b, <1>c, <1>d DEF Ended, vars
<1> QED
  BY <1>1, <1>2, <1>3, <1>4, <1>5, <1>6, <1>7, <1>8, <1>9, <1>10, <1>11, <1>12,
     <1>13, <1>14, <1>15, <1>16, <1>17, <1>18, <1>19 DEF Next

\* errno is set by a conversion and by a failed malloc().
ErrnoOK == errno \in {"0", "ERANGE", "ENOMEM"}

LEMMA ErrnoType == ErrnoOK /\ [Next]_vars => ErrnoOK'
<1> SUFFICES ASSUME ErrnoOK, [Next]_vars
             PROVE  ErrnoOK'
  OBVIOUS
<1>1. UNCHANGED errno => ErrnoOK'
  BY DEF ErrnoOK
<1>2. CASE TakeNumber
  <2>1. ASSUME NEW tenths, PushNumber(tenths) PROVE ErrnoOK'
    BY <2>1 DEF PushNumber, errno_after, ErrnoOK
  <2> QED BY <1>2, <2>1 DEF TakeNumber
<1>3. CASE AllocFails
  BY <1>3 DEF AllocFails, ErrnoOK
<1>4. CASE ParseNop \/ InitStacks \/ SkipBlank \/ TakeLetter \/ TakeOperator \/ TakeLparen
  BY <1>1, <1>4 DEF ParseNop, InitStacks, SkipBlank, TakeLetter, TakeOperator, TakeLparen
<1>5. CASE TakeRparen \/ TakeUnknown \/ TakeEnd \/ HandleOpPop \/ HandleOpPush \/ RparenPop
  BY <1>1, <1>5 DEF TakeRparen, TakeUnknown, TakeEnd, HandleOpPop, HandleOpPush, RparenPop
<1>6. CASE RparenEnd \/ Flush \/ FlushEnd \/ AllocExpr \/ Ended \/ UNCHANGED vars
  BY <1>1, <1>6 DEF RparenEnd, Flush, FlushEnd, AllocExpr, Ended, vars
<1> QED
  BY <1>2, <1>3, <1>4, <1>5, <1>6 DEF Next

\* The compiler's variables keep their types: no stack holds more items than
\* it has slots, and nothing is read behind the end of the text.
THEOREM TypeCorrect == Spec => []TypeOK
<1>1. IInv /\ ErrnoOK => TypeOK
  BY DEF IInv, ReadOK, StacksOK, ExprOK, ControlOK, TypeOK, ErrnoOK
<1>2. Init => ErrnoOK
  BY DEF Init, ErrnoOK
<1> QED BY InitIInv, NextIInv, ErrnoType, <1>1, <1>2, PTL DEF Spec
-----------------------------------------------------------------------------
(***************************************************************************)
(* The operator stack: every step leaves it alone, or pops its top, or     *)
(* pushes a bracket, or pushes an operator that binds more tightly than    *)
(* the operator it lands on.                                               *)
(***************************************************************************)

PopsOp    == NonEmpty(op_stack) /\ op_stack' = Pop(op_stack)
PushesPar == op_stack' = Push(op_stack, "(")
PushesOp  ==
  /\ tok \in Operators
  /\ op_stack' = Push(op_stack, tok)
  /\ ~(NonEmpty(op_stack) /\ Yields(Peek(op_stack)))

LEMMA OpStackSteps ==
  ASSUME IInv, [Next]_vars
  PROVE  UNCHANGED op_stack \/ op_stack' = << >> \/ PopsOp \/ PushesPar \/ PushesOp
<1> USE DEF Abort
<1>1. CASE InitStacks
  BY <1>1 DEF InitStacks, Empty
<1>2. CASE TakeLparen
  BY <1>2 DEF TakeLparen, PushOp, PushesPar
<1>3. CASE HandleOpPop
  BY <1>3 DEF HandleOpPop, MoveOp, PopsOp
<1>4. CASE HandleOpPush
  BY <1>4 DEF HandleOpPush, PushOp, PushesOp, IInv, ControlOK
<1>5. CASE RparenPop
  BY <1>5 DEF RparenPop, MoveOp, PopsOp
<1>6. CASE RparenEnd
  BY <1>6 DEF RparenEnd, PopsOp
<1>7. CASE Flush
  BY <1>7 DEF Flush, MoveOp, PopsOp
<1>8. CASE TakeNumber \/ TakeLetter
  BY <1>8 DEF TakeNumber, PushNumber, TakeLetter, PushOut
<1>9. CASE \/ ParseNop \/ SkipBlank \/ TakeOperator \/ TakeRparen \/ TakeUnknown
           \/ TakeEnd \/ FlushEnd \/ AllocExpr \/ AllocFails \/ Ended \/ UNCHANGED vars
  BY <1>9 DEF ParseNop, SkipBlank, TakeOperator, TakeRparen, TakeUnknown, TakeEnd,
              FlushEnd, AllocExpr, AllocFails, Ended, vars
<1> QED
  BY <1>1, <1>2, <1>3, <1>4, <1>5, <1>6, <1>7, <1>8, <1>9 DEF Next

LEMMA NextLadder == IInv /\ PrecedenceLadder /\ [Next]_vars => PrecedenceLadder'
<1> SUFFICES ASSUME IInv, PrecedenceLadder, [Next]_vars,
                    NEW k \in 1..(Len(op_stack') - 1),
                    {op_stack'[k], op_stack'[k + 1]} \subseteq Operators
             PROVE  precedence(op_stack'[k]) < precedence(op_stack'[k + 1])
  BY DEF PrecedenceLadder, precedence
<1>1. op_stack \in Seq(Operators \cup {"("}) /\ Len(op_stack) \in Nat
  BY LenProperties DEF IInv, StacksOK
<1>2. CASE UNCHANGED op_stack
  BY <1>1, <1>2 DEF PrecedenceLadder
<1>3. CASE op_stack' = << >>
  BY <1>3
<1>4. CASE PopsOp
  <2>1. /\ Len(op_stack') = Len(op_stack) - 1
        /\ \A j \in 1..(Len(op_stack) - 1) : op_stack'[j] = op_stack[j]
    BY <1>1, <1>4, PopProperties DEF PopsOp
  <2> QED BY <1>1, <2>1 DEF PrecedenceLadder
<1>5. ASSUME NEW item \in Operators \cup {"("}, op_stack' = Push(op_stack, item)
      PROVE  /\ k < Len(op_stack) =>
                   op_stack'[k] = op_stack[k] /\ op_stack'[k + 1] = op_stack[k + 1]
             /\ k >= Len(op_stack) =>
                   /\ k = Len(op_stack) /\ NonEmpty(op_stack)
                   /\ op_stack'[k] = Peek(op_stack) /\ op_stack'[k + 1] = item
  <2>1. /\ Len(op_stack') = Len(op_stack) + 1
        /\ \A j \in 1..Len(op_stack) : op_stack'[j] = op_stack[j]
        /\ op_stack'[Len(op_stack) + 1] = item
    <3>1. /\ Len(Push(op_stack, item)) = Len(op_stack) + 1
          /\ \A j \in 1..Len(op_stack) : Push(op_stack, item)[j] = op_stack[j]
          /\ Push(op_stack, item)[Len(op_stack) + 1] = item
      BY <1>1 DEF Push
    <3> QED BY <1>5, <3>1
  <2> QED BY <1>1, <2>1 DEF Peek, NonEmpty
<1>6. CASE PushesPar
  <2>1. k < Len(op_stack)
    BY <1>1, <1>5, <1>6 DEF PushesPar, Operators
  <2> QED BY <1>1, <1>5, <1>6, <2>1 DEF PrecedenceLadder, PushesPar
<1>7. CASE PushesOp
  <2>1. CASE k < Len(op_stack)
    BY <1>1, <1>5, <1>7, <2>1 DEF PrecedenceLadder, PushesOp
  <2>2. CASE k >= Len(op_stack)
    <3>1. /\ NonEmpty(op_stack)
          /\ op_stack'[k] = Peek(op_stack) /\ op_stack'[k + 1] = tok
      BY <1>5, <1>7, <2>2 DEF PushesOp
    <3>2. Peek(op_stack) # "("
      BY <3>1 DEF Operators
    <3>3. ~(precedence(Peek(op_stack)) >= precedence(tok))
      BY <1>7, <3>1, <3>2 DEF PushesOp, Yields
    <3> QED BY <3>1, <3>3 DEF precedence
  <2> QED BY <1>1, <2>1, <2>2
<1> QED BY <1>2, <1>3, <1>4, <1>6, <1>7, OpStackSteps

\* Whatever the text, well-formed or not, the operators between two brackets
\* of the operator stack bind ever more tightly towards the top.
THEOREM LadderHolds == Spec => []PrecedenceLadder
<1>1. Init => PrecedenceLadder
  <2>1. Len(<< >>) = 0
    OBVIOUS
  <2>2. ASSUME op_stack = << >> PROVE PrecedenceLadder
    BY <2>1, <2>2 DEF PrecedenceLadder
  <2> QED BY <2>2 DEF Init, Empty
<1> QED BY InitIInv, NextIInv, NextLadder, <1>1, PTL DEF Spec
-----------------------------------------------------------------------------
(***************************************************************************)
(* Counting: Occurrences(s, lexeme, n) over the first n places of s.       *)
(***************************************************************************)

LEMMA OccurrencesType ==
  ASSUME NEW s, NEW lexeme, NEW n \in Nat
  PROVE  /\ IsFiniteSet({i \in 1..n : s[i] = lexeme})
         /\ Occurrences(s, lexeme, n) \in Nat
<1>1. IsFiniteSet(1..n)
  BY FS_Interval
<1>2. IsFiniteSet({i \in 1..n : s[i] = lexeme})
  BY <1>1, FS_Subset
<1> QED BY <1>2, FS_CardinalityType DEF Occurrences

LEMMA OccurrencesZero ==
  ASSUME NEW s, NEW lexeme
  PROVE  Occurrences(s, lexeme, 0) = 0
<1>1. {i \in 1..0 : s[i] = lexeme} = {}
  OBVIOUS
<1> QED BY <1>1, FS_EmptySet DEF Occurrences

LEMMA OccurrencesStep ==
  ASSUME NEW s, NEW lexeme, NEW n \in Nat
  PROVE  Occurrences(s, lexeme, n + 1) =
           Occurrences(s, lexeme, n) + (IF s[n + 1] = lexeme THEN 1 ELSE 0)
<1> DEFINE S == {i \in 1..n : s[i] = lexeme}
<1>1. IsFiniteSet(S) /\ Cardinality(S) \in Nat /\ n + 1 \notin S
  <2>1. IsFiniteSet(S)
    BY OccurrencesType
  <2>2. n + 1 \notin S
    OBVIOUS
  <2> QED BY <2>1, <2>2, FS_CardinalityType
<1>2. CASE s[n + 1] = lexeme
  <2>1. {i \in 1..(n + 1) : s[i] = lexeme} = S \cup {n + 1}
    BY <1>2
  <2>2. Cardinality(S \cup {n + 1}) = Cardinality(S) + 1
    BY <1>1, FS_AddElement
  <2> QED BY <1>2, <2>1, <2>2 DEF Occurrences
<1>3. CASE s[n + 1] # lexeme
  <2>1. {i \in 1..(n + 1) : s[i] = lexeme} = S
    BY <1>3
  <2> QED BY <1>1, <1>3, <2>1 DEF Occurrences
<1> QED BY <1>2, <1>3

LEMMA OccurrencesSame ==
  ASSUME NEW s, NEW t, NEW lexeme, NEW n \in Nat, \A i \in 1..n : s[i] = t[i]
  PROVE  Occurrences(s, lexeme, n) = Occurrences(t, lexeme, n)
<1>1. {i \in 1..n : s[i] = lexeme} = {i \in 1..n : t[i] = lexeme}
  OBVIOUS
<1> QED BY <1>1 DEF Occurrences

-----------------------------------------------------------------------------
(***************************************************************************)
(* The room an operator stack needs.  Above its last bracket it holds at   *)
(* most one operator of each precedence, the weak one below: so says       *)
(* PrecedenceLadder of neighbours, StackNeed of every prefix of the stack. *)
(***************************************************************************)

\* How many operators a place of the stack may be above the last bracket.
Above(op) == IF op = "(" THEN 0 ELSE IF precedence(op) = 0 THEN 1 ELSE 2

StackNeed ==
  \A n \in 1..Len(op_stack) :
    n <= 3 * Occurrences(op_stack, "(", n) + Above(op_stack[n])

LEMMA PushNeed ==
  ASSUME IInv, StackNeed, NEW item \in Operators \cup {"("},
         op_stack' = Push(op_stack, item),
         item # "(" => ~(NonEmpty(op_stack) /\ Peek(op_stack) # "("
                           /\ precedence(Peek(op_stack)) >= precedence(item))
  PROVE  StackNeed'
<1> DEFINE len == Len(op_stack)
           P(n) == Occurrences(op_stack, "(", n)
           Q(n) == Occurrences(op_stack', "(", n)
<1>1. op_stack \in Seq(Operators \cup {"("}) /\ len \in Nat
  BY LenProperties DEF IInv, StacksOK
<1>2. /\ Len(op_stack') = len + 1
      /\ \A j \in 1..len : op_stack'[j] = op_stack[j]
      /\ op_stack'[len + 1] = item
  BY <1>1 DEF Push
<1>3. ASSUME NEW n \in 0..len PROVE Q(n) = P(n)
  <2>1. n \in Nat /\ \A j \in 1..n : op_stack'[j] = op_stack[j]
    BY <1>1, <1>2
  <2> QED BY <2>1, OccurrencesSame
<1>4. Q(len + 1) = P(len) + (IF item = "(" THEN 1 ELSE 0) /\ P(len) \in Nat
  <2>1. Q(len + 1) = Q(len) + (IF op_stack'[len + 1] = "(" THEN 1 ELSE 0)
    BY <1>1, OccurrencesStep
  <2>2. Q(len) = P(len)
    BY <1>1, <1>3
  <2> QED BY <1>1, <1>2, <2>1, <2>2, OccurrencesType
<1>5. ASSUME NEW n \in 1..len PROVE n <= 3 * Q(n) + Above(op_stack'[n])
  BY <1>1, <1>2, <1>3, <1>5 DEF StackNeed
<1>6. len + 1 <= 3 * Q(len + 1) + Above(item)
  <2> HIDE DEF Q, P
  <2>1. CASE len = 0
    BY <1>4, <2>1 DEF Above
  <2>2. CASE len > 0
    <3>1. len <= 3 * P(len) + Above(op_stack[len])
      BY <1>1, <2>2 DEF StackNeed, P
    <3>2. CASE item = "("
      BY <1>1, <1>4, <3>1, <3>2 DEF Above
    <3>3. CASE item # "(" /\ op_stack[len] = "("
      BY <1>1, <1>4, <3>1, <3>3 DEF Above
    <3>4. CASE item # "(" /\ op_stack[len] # "("
      <4>1. ~(precedence(op_stack[len]) >= precedence(item))
        BY <2>2, <3>4 DEF NonEmpty, Peek
      <4>2. precedence(op_stack[len]) = 0 /\ precedence(item) = 1
        BY <4>1 DEF precedence
      <4> QED BY <1>1, <1>4, <3>1, <3>4, <4>2 DEF Above
    <3> QED BY <3>2, <3>3, <3>4
  <2> QED BY <1>1, <2>1, <2>2
<1> QED
  <2>1. ASSUME NEW n \in 1..Len(op_stack') PROVE n \in 1..len \/ n = len + 1
    BY <1>1, <1>2
  <2> QED BY <1>2, <1>5, <1>6, <2>1 DEF StackNeed

LEMMA NextNeed == IInv /\ StackNeed /\ [Next]_vars => StackNeed'
<1> SUFFICES ASSUME IInv, StackNeed, [Next]_vars PROVE StackNeed'
  OBVIOUS
<1>1. CASE UNCHANGED op_stack
  BY <1>1 DEF StackNeed
<1>2. CASE op_stack' = << >>
  <2>1. Len(<< >>) = 0
    OBVIOUS
  <2> QED BY <1>2, <2>1 DEF StackNeed
<1>3. CASE PopsOp
  <2>1. /\ Len(op_stack) \in Nat
        /\ Len(op_stack') = Len(op_stack) - 1
        /\ \A j \in 1..(Len(op_stack) - 1) : op_stack'[j] = op_stack[j]
    BY <1>3, PopProperties, LenProperties DEF PopsOp, IInv, StacksOK
  <2> SUFFICES ASSUME NEW n \in 1..Len(op_stack')
               PROVE  n <= 3 * Occurrences(op_stack', "(", n) + Above(op_stack'[n])
    BY DEF StackNeed
  <2>2. n \in 1..Len(op_stack) /\ n \in Nat /\ op_stack'[n] = op_stack[n]
    BY <2>1
  <2>3. Occurrences(op_stack', "(", n) = Occurrences(op_stack, "(", n)
    <3>1. \A j \in 1..n : op_stack'[j] = op_stack[j]
      BY <2>1, <2>2
    <3> QED BY <2>2, <3>1, OccurrencesSame
  <2> QED BY <2>2, <2>3 DEF StackNeed
<1>4. CASE PushesPar
  BY <1>4, PushNeed DEF PushesPar
<1>5. CASE PushesOp
  BY <1>5, PushNeed DEF PushesOp, Yields, Operators
<1> QED BY <1>1, <1>2, <1>3, <1>4, <1>5, OpStackSteps

\* The operator stack holds at most three items for each open bracket and two
\* more, whatever the length of the text: with 20 slots, push can only assert
\* on a text that has more than six brackets open at once.
THEOREM OpStackBounded == Spec => []OpStackNeed
<1>1. Init => StackNeed
  <2>1. Len(<< >>) = 0
    OBVIOUS
  <2>2. ASSUME op_stack = << >> PROVE StackNeed
    BY <2>1, <2>2 DEF StackNeed
  <2> QED BY <2>2 DEF Init, Empty
<1>2. IInv /\ StackNeed => OpStackNeed
  <2> SUFFICES ASSUME IInv, StackNeed PROVE OpStackNeed
    OBVIOUS
  <2> DEFINE len == Len(op_stack)
  <2>1. len \in Nat
    BY LenProperties DEF IInv, StacksOK
  <2>2. Occurrences(op_stack, "(", len) \in Nat
    BY <2>1, OccurrencesType
  <2>3. CASE len = 0
    BY <2>2, <2>3 DEF OpStackNeed
  <2>4. CASE len > 0
    <3>1. len <= 3 * Occurrences(op_stack, "(", len) + Above(op_stack[len])
      BY <2>1, <2>4 DEF StackNeed
    <3>2. Above(op_stack[len]) \in {0, 1, 2}
      BY DEF Above
    <3> QED BY <2>1, <2>2, <3>1, <3>2 DEF OpStackNeed
  <2> QED BY <2>1, <2>3, <2>4
<1> QED BY InitIInv, NextIInv, NextNeed, <1>1, <1>2, PTL DEF Spec
-----------------------------------------------------------------------------
(***************************************************************************)
(* Brackets: the brackets still open in the text that was read are the     *)
(* ones on the operator stack.  A ')' is counted before its partner is     *)
(* taken off the stack, while pc = "rparen".                               *)
(***************************************************************************)

Depth(n) == Occurrences(str, "(", n) - Occurrences(str, ")", n)
Open     == Occurrences(op_stack, "(", Len(op_stack))

Reading == {"next_token", "handle_op", "rparen", "flush"}

BracketInv ==
  /\ pc = "start" => pos = 1
  /\ pc \in Reading =>
       /\ Open = Depth(pos - 1) + (IF pc = "rparen" THEN 1 ELSE 0)
       /\ \A n \in 1..(pos - 1) : n < pos - 1 \/ pc # "rparen" => Depth(n) >= 0
  /\ pc = "flush" => pos = Len(str) + 1
  /\ CompiledIsMatched

LEMMA CountTypes ==
  ASSUME IInv
  PROVE  /\ Open \in Nat
         /\ \A n \in Nat : Depth(n) \in Int
         /\ pos \in Nat /\ pos >= 1 /\ Len(str) \in Nat
<1>1. Len(op_stack) \in Nat /\ Len(str) \in Nat
  BY LenProperties DEF IInv, StacksOK, ReadOK
<1>2. Open \in Nat
  BY <1>1, OccurrencesType DEF Open
<1>3. ASSUME NEW n \in Nat PROVE Depth(n) \in Int
  <2>1. Occurrences(str, "(", n) \in Nat /\ Occurrences(str, ")", n) \in Nat
    BY OccurrencesType
  <2> QED BY <2>1 DEF Depth
<1> QED BY <1>1, <1>2, <1>3 DEF IInv, ReadOK

\* What one more lexeme does to the depth.
LEMMA DepthStep ==
  ASSUME IInv, NEW n \in Nat
  PROVE  Depth(n + 1) = Depth(n) + (IF str[n + 1] = "(" THEN 1 ELSE 0)
                                 - (IF str[n + 1] = ")" THEN 1 ELSE 0)
<1>1. /\ Occurrences(str, "(", n) \in Nat /\ Occurrences(str, ")", n) \in Nat
  BY OccurrencesType
<1>2. /\ Occurrences(str, "(", n + 1) =
           Occurrences(str, "(", n) + (IF str[n + 1] = "(" THEN 1 ELSE 0)
      /\ Occurrences(str, ")", n + 1) =
           Occurrences(str, ")", n) + (IF str[n + 1] = ")" THEN 1 ELSE 0)
  BY OccurrencesStep
<1> HIDE DEF Occurrences
<1> QED BY <1>1, <1>2 DEF Depth

LEMMA OpenPush ==
  ASSUME IInv, NEW item \in Operators \cup {"("}, op_stack' = Push(op_stack, item)
  PROVE  Open' = Open + (IF item = "(" THEN 1 ELSE 0)
<1> DEFINE len == Len(op_stack)
<1>1. op_stack \in Seq(Operators \cup {"("}) /\ len \in Nat
  BY LenProperties DEF IInv, StacksOK
<1>2. /\ Len(op_stack') = len + 1
      /\ \A j \in 1..len : op_stack'[j] = op_stack[j]
      /\ op_stack'[len + 1] = item
  BY <1>1 DEF Push
<1>3. Occurrences(op_stack', "(", len) = Occurrences(op_stack, "(", len)
  BY <1>1, <1>2, OccurrencesSame
<1>4. Occurrences(op_stack', "(", len + 1) =
        Occurrences(op_stack', "(", len) + (IF op_stack'[len + 1] = "(" THEN 1 ELSE 0)
  BY <1>1, OccurrencesStep
<1> QED BY <1>2, <1>3, <1>4 DEF Open

LEMMA OpenPop ==
  ASSUME IInv, NonEmpty(op_stack), op_stack' = Pop(op_stack)
  PROVE  Open' = Open - (IF Peek(op_stack) = "(" THEN 1 ELSE 0)
<1> DEFINE n == Len(op_stack) - 1
<1>1. op_stack \in Seq(Operators \cup {"("}) /\ n \in Nat /\ n + 1 = Len(op_stack)
  BY LenProperties DEF IInv, StacksOK, NonEmpty
<1>2. Len(op_stack') = n /\ \A j \in 1..n : op_stack'[j] = op_stack[j]
  BY <1>1, PopProperties
<1> HIDE DEF n
<1>3. Occurrences(op_stack', "(", n) = Occurrences(op_stack, "(", n)
  BY <1>1, <1>2, OccurrencesSame
<1>4. Occurrences(op_stack, "(", n + 1) =
        Occurrences(op_stack, "(", n) + (IF op_stack[n + 1] = "(" THEN 1 ELSE 0)
  BY <1>1, OccurrencesStep
<1>5. Occurrences(op_stack, "(", n) \in Nat
  BY <1>1, OccurrencesType
<1> QED BY <1>1, <1>2, <1>3, <1>4, <1>5 DEF Open, Peek

\* A step that reads one lexeme and accounts for it on the stack.
LEMMA Advance ==
  ASSUME IInv, BracketInv, pc = "next_token", ~AtEnd,
         UNCHANGED str, pos' = pos + 1,
         \/ str[pos] = "(" /\ Open' = Open + 1 /\ pc' = "next_token"
         \/ str[pos] = ")" /\ Open' = Open /\ pc' = "rparen"
         \/ /\ str[pos] \notin {"(", ")"} /\ Open' = Open
            /\ pc' \in {"next_token", "handle_op"}
  PROVE  BracketInv'
<1>1. /\ Open \in Nat /\ pos \in Nat /\ pos >= 1
      /\ \A n \in Nat : Depth(n) \in Int
      /\ \A n : Depth(n)' = Depth(n)
  BY CountTypes DEF Depth, Occurrences
<1>2. Depth(pos) = Depth(pos - 1) + (IF str[pos] = "(" THEN 1 ELSE 0)
                                  - (IF str[pos] = ")" THEN 1 ELSE 0)
  <2>1. pos - 1 \in Nat /\ (pos - 1) + 1 = pos
    BY <1>1
  <2> QED BY <2>1, DepthStep
<1>3. Open = Depth(pos - 1) /\ \A n \in 1..(pos - 1) : Depth(n) >= 0
  BY <1>1 DEF BracketInv, Reading
<1>4. Open' = Depth(pos) + (IF pc' = "rparen" THEN 1 ELSE 0)
  BY <1>1, <1>2, <1>3
<1>5. ASSUME NEW n \in 1..pos, n < pos \/ pc' # "rparen" PROVE Depth(n) >= 0
  <2>1. CASE n < pos
    BY <1>1, <1>3, <2>1
  <2>2. CASE n = pos
    BY <1>1, <1>2, <1>3, <1>5, <2>2
  <2> QED BY <1>1, <2>1, <2>2
<1>6. pos' - 1 = pos
  BY <1>1
<1> QED BY <1>1, <1>4, <1>5, <1>6 DEF BracketInv, Reading, CompiledIsMatched, Compiled

\* A step that reads nothing.
LEMMA Stay ==
  ASSUME IInv, BracketInv, pc \in Reading, UNCHANGED << str, pos, pc >>, Open' = Open
  PROVE  BracketInv'
<1>1. \A n : Depth(n)' = Depth(n)
  BY DEF Depth, Occurrences
<1> QED BY <1>1 DEF BracketInv, Reading, CompiledIsMatched, Compiled

LEMMA Stopped == pc' = "xassert" => BracketInv'
BY DEF BracketInv, Reading, CompiledIsMatched, Compiled

LEMMA NextBracket == IInv /\ BracketInv /\ [Next]_vars => BracketInv'
<1> SUFFICES ASSUME IInv, BracketInv, [Next]_vars PROVE BracketInv'
  OBVIOUS
<1> USE DEF input
<1>a. UNCHANGED op_stack => Open' = Open
  BY DEF Open, Occurrences
<1>b. ASSUME UNCHANGED str PROVE Matched(str)' = Matched(str)
  BY <1>b DEF Matched, Occurrences
<1>c. Open \in Nat
  BY CountTypes
<1>1. CASE ParseNop
  BY <1>1 DEF ParseNop, BracketInv, Reading, CompiledIsMatched, Compiled
<1>2. CASE InitStacks
  <2>1. Len(op_stack') = 0 /\ Open' = 0
    <3>1. op_stack' = << >> /\ Len(<< >>) = 0
      BY <1>2 DEF InitStacks, Empty
    <3> QED BY <3>1, OccurrencesZero DEF Open
  <2>2. Depth(0)' = 0
    BY OccurrencesZero DEF Depth
  <2>3. pos' = 1 /\ pc' = "next_token"
    BY <1>2 DEF InitStacks, BracketInv
  <2> QED BY <2>1, <2>2, <2>3 DEF BracketInv, Reading, CompiledIsMatched, Compiled
<1>3. CASE SkipBlank
  BY <1>3, <1>a, Advance DEF SkipBlank, AtOne
<1>4. CASE TakeNumber
  <2>1. CASE pc' = "xassert"
    BY <2>1, Stopped
  <2>2. CASE pc' # "xassert" /\ AtNum /\ pos' = pos + 1
    <3>1. UNCHANGED << op_stack, pc >>
      BY <1>4, <2>2 DEF TakeNumber, PushNumber, PushOut, Abort
    <3>2. str[pos] \notin {"(", ")"}
      BY <2>2, ParserAssumption DEF AtNum, Symbols
    <3> QED BY <1>4, <2>2, <3>1, <3>2, <1>a, Advance DEF TakeNumber, AtNum
  <2>3. CASE pc' # "xassert" /\ AtSign /\ pos' = pos + 2
    <3>1. UNCHANGED << str, op_stack, pc >> /\ pc = "next_token"
      BY <1>4, <2>3 DEF TakeNumber, PushNumber, PushOut, Abort
    <3>2. /\ pos \in Nat /\ pos >= 1
          /\ \A n \in Nat : Depth(n) \in Int
      BY CountTypes
    <3>3. str[pos] = "-" /\ str[pos + 1] \notin {"(", ")"}
      BY <2>3, ParserAssumption DEF AtSign, IsSign, Symbols
    <3>4. Depth(pos) = Depth(pos - 1)
      <4>1. pos - 1 \in Nat /\ (pos - 1) + 1 = pos
        BY <3>2
      <4> QED BY <3>2, <3>3, <4>1, DepthStep
    <3>5. Depth(pos + 1) = Depth(pos)
      BY <3>2, <3>3, DepthStep
    <3>6. Open = Depth(pos - 1) /\ \A n \in 1..(pos - 1) : Depth(n) >= 0
      BY <3>1, <3>2 DEF BracketInv, Reading
    <3>7. ASSUME NEW n \in 1..(pos + 1) PROVE Depth(n) >= 0
      <4>1. n \in 1..(pos - 1) \/ n = pos \/ n = pos + 1
        BY <3>2
      <4> QED BY <1>c, <3>4, <3>5, <3>6, <4>1
    <3>8. pos' - 1 = pos + 1 /\ \A n : Depth(n)' = Depth(n)
      BY <2>3, <3>1, <3>2 DEF Depth, Occurrences
    <3>9. Open' = Depth(pos + 1)
      BY <1>a, <3>1, <3>4, <3>5, <3>6
    <3> QED
      BY <3>1, <3>2, <3>7, <3>8, <3>9 DEF BracketInv, Reading, CompiledIsMatched, Compiled
  <2> QED BY <1>4, <2>1, <2>2, <2>3 DEF TakeNumber
<1>5. CASE TakeLetter
  <2>1. CASE pc' = "xassert"
    BY <2>1, Stopped
  <2>2. CASE pc' # "xassert"
    <3>1. UNCHANGED << op_stack, pc >>
      BY <1>5, <2>2 DEF TakeLetter, PushOut, Abort
    <3> QED BY <1>5, <3>1, <1>a, Advance DEF TakeLetter, AtOne, Letters
  <2> QED BY <2>1, <2>2
<1>6. CASE TakeOperator
  BY <1>6, <1>a, Advance DEF TakeOperator, AtOne, Operators
<1>7. CASE TakeLparen
  <2>1. CASE pc' = "xassert"
    BY <2>1, Stopped
  <2>2. CASE pc' # "xassert"
    <3>1. op_stack' = Push(op_stack, "(") /\ pc' = "next_token"
      BY <1>7, <2>2 DEF TakeLparen, PushOp, Abort
    <3>2. Open' = Open + 1
      BY <3>1, OpenPush
    <3> QED BY <1>7, <3>1, <3>2, Advance DEF TakeLparen, AtOne
  <2> QED BY <2>1, <2>2
<1>8. CASE TakeRparen
  BY <1>8, <1>a, Advance DEF TakeRparen, AtOne
<1>9. CASE TakeUnknown
  BY <1>9, Stopped DEF TakeUnknown, Abort
<1>10. CASE TakeEnd
  <2>1. pos = Len(str) + 1
    BY <1>10, CountTypes DEF TakeEnd, AtEnd, IInv, ReadOK
  <2>2. \A n : Depth(n)' = Depth(n)
    BY <1>10 DEF TakeEnd, Depth, Occurrences
  <2> QED BY <1>10, <1>a, <2>1, <2>2
          DEF TakeEnd, BracketInv, Reading, CompiledIsMatched, Compiled
<1>11. CASE HandleOpPop \/ (RparenPop /\ NonEmpty(op_stack)) \/ Flush
  <2>1. CASE pc' = "xassert"
    BY <2>1, Stopped
  <2>2. CASE pc' # "xassert"
    <3>1. /\ NonEmpty(op_stack) /\ op_stack' = Pop(op_stack)
          /\ Peek(op_stack) \in Operators
          /\ UNCHANGED << str, pos, pc >> /\ pc \in Reading
      BY <1>11, <2>2 DEF HandleOpPop, RparenPop, Flush, MoveOp, Abort, Reading
    <3>2. Open' = Open
      BY <1>c, <3>1, OpenPop DEF Operators
    <3> QED BY <3>1, <3>2, Stay
  <2> QED BY <2>1, <2>2
<1>12. CASE HandleOpPush
  <2>1. CASE pc' = "xassert"
    BY <2>1, Stopped
  <2>2. CASE pc' # "xassert"
    <3>1. op_stack' = Push(op_stack, tok) /\ tok \in Operators /\ pc' = "next_token"
      BY <1>12, <2>2 DEF HandleOpPush, PushOp, Abort, IInv, ControlOK
    <3>2. Open' = Open
      BY <1>c, <3>1, OpenPush DEF Operators
    <3>3. \A n : Depth(n)' = Depth(n)
      BY <1>12 DEF HandleOpPush, Depth, Occurrences
    <3> QED BY <1>12, <3>1, <3>2, <3>3
            DEF HandleOpPush, BracketInv, Reading, CompiledIsMatched, Compiled
  <2> QED BY <2>1, <2>2
<1>13. CASE RparenPop /\ ~NonEmpty(op_stack)
  BY <1>13, Stopped DEF RparenPop, Abort
<1>14. CASE RparenEnd
  <2>1. Open' = Open - 1
    BY <1>14, OpenPop DEF RparenEnd
  <2>2. \A n : Depth(n)' = Depth(n)
    BY <1>14 DEF RparenEnd, Depth, Occurrences
  <2>3. /\ Open = Depth(pos - 1) + 1
        /\ \A n \in 1..(pos - 1) : n < pos - 1 => Depth(n) >= 0
    BY <1>14 DEF RparenEnd, BracketInv, Reading
  <2>4. /\ pos \in Nat /\ pos >= 1 /\ \A n \in Nat : Depth(n) \in Int
    BY CountTypes
  <2>5. Open' = Depth(pos - 1) /\ Open' >= 0
    <3>1. Open' \in Nat
      BY NextIInv, CountTypes, OccurrencesType, LenProperties DEF Open, IInv, StacksOK
    <3> QED BY <1>c, <2>1, <2>3, <2>4, <3>1
  <2>6. ASSUME NEW n \in 1..(pos - 1) PROVE Depth(n) >= 0
    BY <2>3, <2>4, <2>5
  <2>7. UNCHANGED << str, pos >> /\ pc' = "next_token"
    BY <1>14 DEF RparenEnd
  <2>8. pos' - 1 = pos - 1 /\ Depth(pos - 1) \in Int
    BY <2>4, <2>7
  <2>9. Open' = Depth(pos - 1) + (IF pc' = "rparen" THEN 1 ELSE 0)
    BY <2>5, <2>7, <2>8
  <2> QED BY <2>2, <2>6, <2>7, <2>8, <2>9
          DEF BracketInv, Reading, CompiledIsMatched, Compiled
<1>15. CASE FlushEnd
  <2>1. CASE pc' = "xassert"
    BY <2>1, Stopped
  <2>2. CASE pc' # "xassert"
    <3>1. pc = "flush" /\ pos = Len(str) + 1 /\ Len(str) \in Nat
      BY <1>15, CountTypes DEF FlushEnd, BracketInv
    <3>2. Open = 0
      <4>1. Len(op_stack) = 0
        BY <1>15, LenProperties DEF FlushEnd, NonEmpty, IInv, StacksOK
      <4> QED BY <4>1, OccurrencesZero DEF Open
    <3>3. Depth(Len(str)) = 0 /\ \A n \in 1..Len(str) : Depth(n) >= 0
      BY <3>1, <3>2, CountTypes DEF BracketInv, Reading
    <3>4. Matched(str)
      <4>1. \A n \in Nat : /\ Occurrences(str, "(", n) \in Nat
                           /\ Occurrences(str, ")", n) \in Nat
        BY OccurrencesType
      <4> HIDE DEF Occurrences
      <4>2. ASSUME NEW n \in 1..Len(str)
            PROVE  Occurrences(str, ")", n) <= Occurrences(str, "(", n)
        BY <3>1, <3>3, <4>1 DEF Depth
      <4>3. Occurrences(str, ")", Len(str)) = Occurrences(str, "(", Len(str))
        BY <3>1, <3>3, <4>1 DEF Depth
      <4> QED BY <4>2, <4>3 DEF Matched
    <3>5. pc' = "alloc" /\ UNCHANGED str
      BY <1>15, <2>2 DEF FlushEnd
    <3> QED BY <1>b, <3>4, <3>5 DEF BracketInv, Reading, CompiledIsMatched
  <2> QED BY <2>1, <2>2
<1>16. CASE AllocExpr \/ AllocFails
  <2>1. /\ pc = "alloc" /\ pc' \in {"done", "oom"} /\ UNCHANGED str
    BY <1>16 DEF AllocExpr, AllocFails
  <2> QED BY <1>b, <2>1 DEF BracketInv, Reading, CompiledIsMatched, Compiled
<1>17. CASE Ended \/ UNCHANGED vars
  <2>1. UNCHANGED vars
    BY <1>17 DEF Ended
  <2>2. \A n : Depth(n)' = Depth(n)
    BY <2>1 DEF vars, Depth, Occurrences
  <2> QED BY <1>a, <1>b, <2>1, <2>2
          DEF vars, BracketInv, Reading, CompiledIsMatched, Compiled
<1> QED
  BY <1>1, <1>2, <1>3, <1>4, <1>5, <1>6, <1>7, <1>8, <1>9, <1>10, <1>11, <1>12,
     <1>13, <1>14, <1>15, <1>16, <1>17 DEF Next

\* Every text that is compiled to the end has matched brackets, although the
\* assertion that should see to it in case TOK_RPAREN cannot fail: pop and
\* op_to_expr() stop the others.
THEOREM OnlyMatchedCompile == Spec => []CompiledIsMatched
<1>1. Init => BracketInv
  BY DEF Init, BracketInv, Reading, CompiledIsMatched, Compiled
<1>2. BracketInv => CompiledIsMatched
  BY DEF BracketInv
<1> QED BY InitIInv, NextIInv, NextBracket, <1>1, <1>2, PTL DEF Spec
-----------------------------------------------------------------------------
(***************************************************************************)
(* Operands and operators: while the text takes turns, the values that the *)
(* output leaves are one more than the operators waiting on the operator   *)
(* stack behind an operand, and as many before one.                        *)
(***************************************************************************)

Left    == Balance(out_stack, Len(out_stack))
Pending == Len(op_stack) - Open

Expected == IF pc = "handle_op" \/ AfterOperand(str, pos) THEN 1 ELSE 0

\* The next lexeme is not the digits of a number whose sign was read alone.
NotBehindSign == pc \in Reading => ~(pos > 1 /\ IsSign(str, pos - 1))

PrefixesYield == \A n \in 1..Len(out_stack) : Balance(out_stack, n) >= 1

\* What was read last, while it is worked on.
BehindToken ==
  /\ pc = "rparen" => AfterOperand(str, pos)
  /\ pc = "handle_op" => ~AfterOperand(str, pos)

TurnsInv ==
  /\ NotBehindSign
  /\ BehindToken
  /\ AssertsOnlyMalformed
  /\ Alternates(str) =>
       /\ PrefixesYield
       /\ pc \in Reading => Left = Pending + Expected
       /\ Compiled => Left = 1

LEMMA BalanceZero ==
  ASSUME NEW p
  PROVE  Balance(p, 0) = 0
<1>1. {k \in 1..0 : ~IsOp(p[k])} = {}
  OBVIOUS
<1>2. {k \in 1..0 : IsOp(p[k])} = {}
  OBVIOUS
<1> QED BY <1>1, <1>2, FS_EmptySet DEF Balance

LEMMA BalanceStep ==
  ASSUME NEW p, NEW n \in Nat
  PROVE  /\ Balance(p, n) \in Int
         /\ Balance(p, n + 1) = Balance(p, n) + (IF IsOp(p[n + 1]) THEN -1 ELSE 1)
<1> DEFINE Ops == {k \in Nat : IsOp(p[k])}
           Others == {k \in Nat : ~IsOp(p[k])}
           CountOps(m) == Cardinality({k \in 1..m : k \in Ops})
           CountOthers(m) == Cardinality({k \in 1..m : k \in Others})
<1>1. ASSUME NEW m \in Nat PROVE Balance(p, m) = CountOthers(m) - CountOps(m)
  <2>1. {k \in 1..m : ~IsOp(p[k])} = {k \in 1..m : k \in Others}
    OBVIOUS
  <2>2. {k \in 1..m : IsOp(p[k])} = {k \in 1..m : k \in Ops}
    OBVIOUS
  <2> QED BY <2>1, <2>2 DEF Balance
<1>2. /\ CountOthers(n) \in Nat
      /\ CountOthers(n + 1) = CountOthers(n) + (IF n + 1 \in Others THEN 1 ELSE 0)
  BY CountStep
<1>3. /\ CountOps(n) \in Nat
      /\ CountOps(n + 1) = CountOps(n) + (IF n + 1 \in Ops THEN 1 ELSE 0)
  BY CountStep
<1>4. (n + 1 \in Ops <=> IsOp(p[n + 1])) /\ (n + 1 \in Others <=> n + 1 \notin Ops)
  OBVIOUS
<1> HIDE DEF CountOthers, CountOps, Others, Ops
<1> QED BY <1>1, <1>2, <1>3, <1>4

LEMMA BalanceSame ==
  ASSUME NEW p, NEW q, NEW n \in Nat, \A k \in 1..n : p[k] = q[k]
  PROVE  Balance(p, n) = Balance(q, n)
<1>1. {k \in 1..n : IsOp(p[k])} = {k \in 1..n : IsOp(q[k])}
  OBVIOUS
<1>2. {k \in 1..n : ~IsOp(p[k])} = {k \in 1..n : ~IsOp(q[k])}
  OBVIOUS
<1> QED BY <1>1, <1>2 DEF Balance

\* What one more token does to the values left.
LEMMA OutPush ==
  ASSUME IInv, NEW item \in ExprTokens, out_stack' = Push(out_stack, item)
  PROVE  /\ Left \in Int
         /\ Left' = Left + (IF IsOp(item) THEN -1 ELSE 1)
         /\ PrefixesYield /\ Left' >= 1 => PrefixesYield'
<1> DEFINE len == Len(out_stack)
<1>1. out_stack \in Seq(ExprTokens) /\ len \in Nat
  BY LenProperties DEF IInv, StacksOK
<1>2. /\ Len(out_stack') = len + 1
      /\ \A j \in 1..len : out_stack'[j] = out_stack[j]
      /\ out_stack'[len + 1] = item
  BY <1>1 DEF Push
<1>3. ASSUME NEW n \in 0..len PROVE Balance(out_stack', n) = Balance(out_stack, n)
  <2>1. n \in Nat /\ \A j \in 1..n : out_stack'[j] = out_stack[j]
    BY <1>1, <1>2
  <2> QED BY <2>1, BalanceSame
<1>4. /\ Balance(out_stack', len) \in Int
      /\ Balance(out_stack', len + 1) =
           Balance(out_stack', len) + (IF IsOp(item) THEN -1 ELSE 1)
  BY <1>1, <1>2, BalanceStep
<1>5. Balance(out_stack', len) = Left
  BY <1>1, <1>3 DEF Left
<1>6. Left' = Balance(out_stack', len + 1)
  BY <1>2 DEF Left
<1>7. ASSUME PrefixesYield, Left' >= 1, NEW n \in 1..Len(out_stack')
      PROVE  Balance(out_stack', n) >= 1
  <2>1. n \in 1..len \/ n = len + 1
    BY <1>1, <1>2
  <2> QED BY <1>1, <1>3, <1>6, <1>7, <2>1 DEF PrefixesYield
<1> QED BY <1>4, <1>5, <1>6, <1>7 DEF PrefixesYield

\* Brackets are items of the stack: there are no more of them than items, and
\* fewer when the top is an operator.
LEMMA PendingBound ==
  ASSUME IInv
  PROVE  /\ Pending \in Nat /\ Len(op_stack) \in Nat
         /\ NonEmpty(op_stack) /\ Peek(op_stack) # "(" => Pending >= 1
         /\ NonEmpty(op_stack) /\ Peek(op_stack) = "(" => Open >= 1
<1> DEFINE len == Len(op_stack)
<1>1. len \in Nat
  BY LenProperties DEF IInv, StacksOK
<1>2. ASSUME NEW n \in Nat
      PROVE  Occurrences(op_stack, "(", n) \in Nat /\ Occurrences(op_stack, "(", n) <= n
  <2>1. IsFiniteSet(1..n) /\ Cardinality(1..n) = n
    BY FS_Interval
  <2>2. Cardinality({k \in 1..n : op_stack[k] = "("}) <= Cardinality(1..n)
    BY <2>1, FS_Subset
  <2> QED BY <2>1, <2>2, OccurrencesType DEF Occurrences
<1>3. Pending \in Nat
  BY <1>1, <1>2 DEF Pending, Open
<1>4. ASSUME NonEmpty(op_stack)
      PROVE  /\ len - 1 \in Nat
             /\ Open = Occurrences(op_stack, "(", len - 1)
                         + (IF Peek(op_stack) = "(" THEN 1 ELSE 0)
  <2>1. len - 1 \in Nat /\ (len - 1) + 1 = len
    BY <1>1, <1>4 DEF NonEmpty
  <2> QED BY <2>1, OccurrencesStep DEF Open, Peek
<1> QED BY <1>1, <1>2, <1>3, <1>4 DEF Pending

\* Whether an operand ends before the next place, from what is at this one.
LEMMA AfterOperandStep ==
  ASSUME NEW s, NEW n \in Nat, n >= 1
  PROVE  AfterOperand(s, n + 1) <=>
           \/ s[n] \in Operands \cup {")"}
           \/ s[n] = " " /\ AfterOperand(s, n)
<1> DEFINE Ends(k) == s[k] \in Operands \cup {")"}
           Blank(k, m) == \A j \in (k + 1)..m : s[j] = " "
<1> HIDE DEF Ends, Blank
<1>1. /\ AfterOperand(s, n + 1) <=> \E k \in 1..n : Ends(k) /\ Blank(k, n)
      /\ AfterOperand(s, n) <=> \E k \in 1..(n - 1) : Ends(k) /\ Blank(k, n - 1)
  <2>1. (n + 1) - 1 = n
    OBVIOUS
  <2> QED BY <2>1 DEF AfterOperand, Ends, Blank
<1>2. Blank(n, n)
  <2>1. (n + 1)..n = {}
    OBVIOUS
  <2> QED BY <2>1 DEF Blank
<1>3. ASSUME NEW k \in 1..(n - 1) PROVE Blank(k, n) <=> Blank(k, n - 1) /\ s[n] = " "
  <2>1. (k + 1)..n = ((k + 1)..(n - 1)) \cup {n}
    BY <1>3
  <2> QED BY <2>1 DEF Blank
<1>4. 1..n = (1..(n - 1)) \cup {n}
  OBVIOUS
<1>5. (\E k \in 1..n : Ends(k) /\ Blank(k, n)) <=>
        Ends(n) \/ (s[n] = " " /\ \E k \in 1..(n - 1) : Ends(k) /\ Blank(k, n - 1))
  BY <1>2, <1>3, <1>4
<1> QED BY <1>1, <1>5 DEF Ends

LEMMA LexemesDiffer ==
  /\ \A x \in Literals : x \notin Symbols
  /\ \A x \in Operators : x \notin Operands \cup {"(", ")", " "}
  /\ {"(", ")", " ", "nop"} \cap (Operands \cup Operators) = {}
<1>1. \A x \in Literals : x \notin Symbols
  BY ParserAssumption
<1> QED BY <1>1 DEF Operators, Operands, Letters, Symbols

\* What Alternates says of the token that is read next.
LEMMA TokenTurn ==
  ASSUME IInv, TurnsInv, pc = "next_token", ~AtEnd, str[pos] # " ", Alternates(str)
  PROVE  /\ str[pos] # "nop"
         /\ StartsOperand(str, pos) <=> ~AfterOperand(str, pos)
<1>1. pos \in 1..Len(str)
  BY ReadAhead DEF IInv
<1>2. pos \in TokenStarts(str)
  BY <1>1 DEF TokenStarts, TurnsInv, NotBehindSign, Reading
<1> QED BY <1>2 DEF Alternates
-----------------------------------------------------------------------------
\* A step that stops the process, for one of the reasons allowed.
LEMMA StopsInTurn ==
  ASSUME TurnsInv, pc' = "xassert", UNCHANGED << str, out_stack >>, AssertsOnlyMalformed'
  PROVE  TurnsInv'
BY DEF TurnsInv, NotBehindSign, BehindToken, Reading, PrefixesYield, Compiled

\* A full stack is reported by Abort, which leaves it full.
LEMMA FullStops ==
  ASSUME IInv, Abort, \/ ~HasRoom(op_stack, OP_STACK_SIZE)
                      \/ ~HasRoom(out_stack, OUT_STACK_SIZE)
  PROVE  AssertsOnlyMalformed'
<1>1. /\ Len(op_stack) \in Nat /\ Len(op_stack) <= OP_STACK_SIZE
      /\ Len(out_stack) \in Nat /\ Len(out_stack) <= OUT_STACK_SIZE
      /\ OP_STACK_SIZE \in Nat /\ OUT_STACK_SIZE \in Nat
  BY LenProperties, ParserAssumption DEF IInv, StacksOK
<1> QED BY <1>1 DEF AssertsOnlyMalformed, Abort, HasRoom

\* A step that leaves the two counts in balance.
LEMMA RunsInTurn ==
  ASSUME TurnsInv, pc \in Reading, pc' \in Reading, UNCHANGED str,
         NotBehindSign', BehindToken',
         Alternates(str) => PrefixesYield' /\ Left' = Pending' + Expected'
  PROVE  TurnsInv'
BY DEF TurnsInv, AssertsOnlyMalformed, Compiled, Reading

\* An operand is read: it is the turn of one.
LEMMA OperandInTurn ==
  ASSUME IInv, TurnsInv, pc = "next_token", UNCHANGED << str, type >>,
         NEW item \in ExprTokens, ~IsOp(item), PushOut(item),
         Alternates(str) => ~AfterOperand(str, pos),
         NotBehindSign', AfterOperand(str, pos')
  PROVE  TurnsInv'
<1>1. CASE ~HasRoom(out_stack, OUT_STACK_SIZE) /\ Abort
  <2>1. AssertsOnlyMalformed'
    BY <1>1, FullStops
  <2> QED BY <1>1, <2>1, StopsInTurn DEF Abort
<1>2. CASE out_stack' = Push(out_stack, item) /\ UNCHANGED << op_stack, pc >>
  <2>1. /\ Left \in Int /\ Left' = Left + 1
        /\ PrefixesYield /\ Left' >= 1 => PrefixesYield'
    BY <1>2, OutPush
  <2>2. Pending' = Pending /\ Pending \in Nat
    BY <1>2, PendingBound DEF Pending, Open, Occurrences
  <2>3. BehindToken'
    BY <1>2 DEF BehindToken
  <2>4. ASSUME Alternates(str) PROVE PrefixesYield' /\ Left' = Pending' + Expected'
    <3>1. Expected = 0 /\ Expected' = 1
      BY <1>2, <2>4 DEF Expected
    <3>2. Left = Pending + Expected /\ PrefixesYield
      BY <2>4 DEF TurnsInv, Reading
    <3> QED BY <2>1, <2>2, <3>1, <3>2
  <2> QED BY <1>2, <2>3, <2>4, RunsInTurn DEF Reading
<1> QED BY <1>1, <1>2 DEF PushOut

\* An operator moves to the output, where an operand was read last.
LEMMA MoveInTurn ==
  ASSUME IInv, BracketInv, TurnsInv, pc \in {"handle_op", "rparen", "flush"},
         UNCHANGED << str, type, pos >>, NonEmpty(op_stack), MoveOp,
         pc # "flush" => Peek(op_stack) # "("
  PROVE  TurnsInv'
<1>1. CASE /\ Peek(op_stack) \in Operators
           /\ op_stack' = Pop(op_stack)
           /\ out_stack' = Push(out_stack, op_to_expr(Peek(op_stack)))
           /\ UNCHANGED pc
  <2>1. /\ op_to_expr(Peek(op_stack)) \in ExprTokens
        /\ IsOp(op_to_expr(Peek(op_stack)))
    BY <1>1, TokenTypes DEF op_to_expr, IsOp
  <2>2. /\ Left \in Int /\ Left' = Left - 1
        /\ PrefixesYield /\ Left' >= 1 => PrefixesYield'
    BY <1>1, <2>1, OutPush
  <2>3. /\ Pending' = Pending - 1 /\ Pending \in Nat /\ Pending >= 1
    <3>1. Peek(op_stack) # "("
      BY <1>1, LexemesDiffer
    <3>2. Open' = Open /\ Open \in Nat
      BY <1>1, <3>1, OpenPop, CountTypes
    <3>3. Len(op_stack') = Len(op_stack) - 1
      BY <1>1, PopProperties DEF IInv, StacksOK
    <3> QED BY <3>1, <3>2, <3>3, PendingBound DEF Pending
  <2>4. NotBehindSign' /\ BehindToken'
    BY <1>1 DEF TurnsInv, NotBehindSign, BehindToken
  <2>5. ASSUME Alternates(str) PROVE PrefixesYield' /\ Left' = Pending' + Expected'
    <3>1. Expected = 1 /\ Expected' = 1
      <4>1. pc = "flush" => AfterOperand(str, pos)
        BY <2>5 DEF BracketInv, Alternates
      <4> QED BY <1>1, <4>1 DEF Expected, TurnsInv, BehindToken
    <3>2. Left = Pending + Expected /\ PrefixesYield
      BY <2>5 DEF TurnsInv, Reading
    <3> QED BY <2>2, <2>3, <3>1, <3>2
  <2> QED BY <1>1, <2>4, <2>5, RunsInTurn DEF Reading
<1>2. CASE Peek(op_stack) \in Operators /\ ~HasRoom(out_stack, OUT_STACK_SIZE) /\ Abort
  BY <1>2, FullStops, StopsInTurn DEF Abort
<1>3. CASE Peek(op_stack) \notin Operators /\ Abort
  <2>1. Peek(op_stack) = "("
    BY <1>3, PeekProperties DEF IInv, StacksOK
  <2>2. CASE pc = "flush"
    <3>1. Open >= 1 /\ Open = Depth(Len(str)) /\ Len(str) \in Nat
      BY <2>1, <2>2, PendingBound, CountTypes DEF BracketInv, Reading
    <3>2. ~Matched(str)
      <4>1. /\ Occurrences(str, "(", Len(str)) \in Nat
            /\ Occurrences(str, ")", Len(str)) \in Nat
        BY <3>1, OccurrencesType
      <4> HIDE DEF Occurrences
      <4> QED BY <3>1, <4>1 DEF Depth, Matched
    <3> QED BY <1>3, <3>2, StopsInTurn DEF Abort, AssertsOnlyMalformed
  <2>3. CASE pc # "flush"
    BY <1>3, <2>1, <2>3
  <2> QED BY <2>2, <2>3
<1> QED BY <1>1, <1>2, <1>3 DEF MoveOp
LEMMA NextTurns == IInv /\ BracketInv /\ TurnsInv /\ [Next]_vars => TurnsInv'
<1> SUFFICES ASSUME IInv, BracketInv, TurnsInv, [Next]_vars PROVE TurnsInv'
  OBVIOUS
<1> USE DEF input
<1>a. UNCHANGED << op_stack, out_stack >> => Pending' = Pending /\ Left' = Left
  BY DEF Pending, Open, Occurrences, Left, Balance, IsOp
<1>b. UNCHANGED out_stack => PrefixesYield' = PrefixesYield
  BY DEF PrefixesYield
<1>c. pos \in Nat /\ pos >= 1 /\ (pos + 1) - 1 = pos /\ (pos + 2) - 1 = pos + 1
  BY CountTypes
<1>d. AfterOperand(str, pos + 1) <=>
        \/ str[pos] \in Operands \cup {")"}
        \/ str[pos] = " " /\ AfterOperand(str, pos)
  BY <1>c, AfterOperandStep
<1>e. ASSUME UNCHANGED str, pos' = pos + 1, ~AtSign, ~AtEnd PROVE NotBehindSign'
  <2>1. ~IsSign(str, pos)
    BY <1>e DEF AtSign
  <2>2. pos' - 1 = pos /\ str' = str
    BY <1>c, <1>e
  <2>3. ~IsSign(str', pos' - 1)
    BY <2>1, <2>2
  <2> QED BY <2>3 DEF NotBehindSign
<1>f. pc = "next_token" /\ Alternates(str) =>
        PrefixesYield /\ Left = Pending + (IF AfterOperand(str, pos) THEN 1 ELSE 0)
  BY DEF TurnsInv, Reading, Expected
<1>1. CASE ParseNop
  BY <1>1, <1>b DEF ParseNop, TurnsInv, NotBehindSign, BehindToken, Reading,
                    AssertsOnlyMalformed, Compiled
<1>2. CASE InitStacks
  <2>1. /\ op_stack' = << >> /\ out_stack' = << >> /\ Len(<< >>) = 0
        /\ pos' = 1 /\ pos = 1 /\ pc' = "next_token" /\ UNCHANGED str
    BY <1>2 DEF InitStacks, Empty, BracketInv
  <2>2. Pending' = 0 /\ Left' = 0 /\ PrefixesYield'
    BY <2>1, OccurrencesZero, BalanceZero DEF Pending, Open, Left, PrefixesYield
  <2>3. Expected' = 0
    BY <2>1 DEF Expected, AfterOperand
  <2> QED BY <2>1, <2>2, <2>3 DEF TurnsInv, NotBehindSign, BehindToken, Reading,
                                  AssertsOnlyMalformed, Compiled
<1>3. CASE SkipBlank
  <2>1. /\ pc = "next_token" /\ pc' = "next_token" /\ str[pos] = " " /\ pos' = pos + 1
        /\ UNCHANGED << str, op_stack, out_stack >> /\ ~AtSign /\ ~AtEnd
    BY <1>3 DEF SkipBlank, AtOne
  <2>2. AfterOperand(str, pos') <=> AfterOperand(str, pos)
    BY <1>d, <2>1, LexemesDiffer
  <2>3. NotBehindSign' /\ BehindToken'
    BY <1>e, <2>1 DEF BehindToken
  <2>4. Expected' = IF AfterOperand(str, pos) THEN 1 ELSE 0
    BY <2>1, <2>2 DEF Expected
  <2>5. ASSUME Alternates(str) PROVE PrefixesYield' /\ Left' = Pending' + Expected'
    <3>1. PrefixesYield /\ Left = Pending + Expected'
      BY <1>f, <2>1, <2>4, <2>5
    <3>2. Pending' = Pending /\ Left' = Left /\ PrefixesYield' = PrefixesYield
      BY <1>a, <1>b, <2>1
    <3> QED BY <3>1, <3>2
  <2> QED BY <2>1, <2>3, <2>5, RunsInTurn DEF Reading
<1>4. CASE TakeNumber
  <2>1. pc = "next_token" /\ UNCHANGED << str, type >> /\ type \in PidTypes
    BY <1>4 DEF TakeNumber, IInv, ReadOK
  <2>2. ASSUME NEW tenths \in Int
        PROVE  NumToken(type, tenths) \in ExprTokens /\ ~IsOp(NumToken(type, tenths))
    BY <2>1, TokenTypes DEF NumToken, IsOp
  <2>3. ASSUME NEW tenths \in Int, PushNumber(tenths),
               NEW k \in 1..Len(str), str[k] \in Literals,
               InRange(type, LitValue[str[k]]) => InRange(type, tenths),
               Alternates(str) => ~AfterOperand(str, pos),
               NotBehindSign', AfterOperand(str, pos')
        PROVE  TurnsInv'
    <3>1. CASE PushOut(NumToken(type, tenths))
      BY <2>1, <2>2, <2>3, <3>1, OperandInTurn
    <3>2. CASE ~InRange(type, tenths) /\ Abort
      <4>1. ~NumbersInRange(str)
        BY <2>3, <3>2 DEF NumbersInRange
      <4>2. AssertsOnlyMalformed'
        BY <2>1, <3>2, <4>1 DEF AssertsOnlyMalformed, NumbersInRange, InRange
      <4> QED BY <2>1, <3>2, <4>2, StopsInTurn DEF Abort
    <3> QED BY <2>3, <3>1, <3>2 DEF PushNumber, errno_after
  <2>4. CASE AtNum /\ PushNumber(LitValue[str[pos]]) /\ pos' = pos + 1
    <3>1. pos \in 1..Len(str) /\ str[pos] \in Literals /\ LitValue[str[pos]] \in Int
      BY <2>4, ReadAhead, ParserAssumption DEF AtNum, IInv
    <3>2. str[pos] \in Operands /\ str[pos] \notin Symbols
      BY <3>1, LexemesDiffer DEF Operands
    <3>3. ~AtSign /\ ~AtEnd /\ str[pos] # " "
      BY <2>4, <3>2 DEF AtNum, AtSign, IsSign, Symbols, Operators
    <3>4. Alternates(str) => ~AfterOperand(str, pos)
      BY <2>1, <3>2, <3>3, TokenTurn DEF StartsOperand
    <3>5. AfterOperand(str, pos')
      BY <1>d, <2>4, <3>2
    <3>6. NotBehindSign'
      BY <1>e, <2>1, <2>4, <3>3
    <3> QED BY <2>3, <2>4, <3>1, <3>4, <3>5, <3>6
  <2>5. CASE AtSign /\ PushNumber(-LitValue[str[pos + 1]]) /\ pos' = pos + 2
    <3>1. /\ ~AtEnd /\ IsSign(str, pos) /\ str[pos] = "-" /\ Len(str) \in Nat
          /\ pos + 1 \in 1..Len(str) /\ str[pos + 1] \in Literals
          /\ LitValue[str[pos + 1]] \in Nat
      BY <1>c, <2>5, CountTypes, ParserAssumption DEF AtSign, IsSign
    <3>2. str[pos] # " "
      BY <3>1
    <3>3. Alternates(str) => ~AfterOperand(str, pos)
      BY <2>1, <3>1, <3>2, TokenTurn DEF StartsOperand
    <3>4. str[pos + 1] \in Operands /\ str[pos + 1] # "-"
      BY <3>1, LexemesDiffer DEF Operands, Symbols, Operators
    <3>5. AfterOperand(str, pos')
      <4>1. pos + 1 \in Nat /\ pos + 1 >= 1 /\ pos' = (pos + 1) + 1
        BY <1>c, <2>5
      <4> QED BY <3>4, <4>1, AfterOperandStep
    <3>6. NotBehindSign'
      <4>1. ~IsSign(str, pos + 1) /\ pos' - 1 = pos + 1
        BY <1>c, <2>5, <3>4 DEF IsSign
      <4> QED BY <2>1, <4>1 DEF NotBehindSign
    <3>7. InRange(type, LitValue[str[pos + 1]]) => InRange(type, -LitValue[str[pos + 1]])
      <4>1. \A x \in Nat : -(-x) = x /\ -x \in Int
        OBVIOUS
      <4> QED BY <3>1, <4>1 DEF InRange
    <3>8. -LitValue[str[pos + 1]] \in Int
      BY <3>1
    <3> QED BY <2>3, <2>5, <3>1, <3>3, <3>5, <3>6, <3>7, <3>8
  <2> QED BY <1>4, <2>4, <2>5 DEF TakeNumber
<1>5. CASE TakeLetter
  <2>1. /\ pc = "next_token" /\ str[pos] \in Letters /\ pos' = pos + 1 /\ ~AtSign /\ ~AtEnd
        /\ UNCHANGED << str, type >> /\ PushOut(LetterToken(str[pos]))
    BY <1>5 DEF TakeLetter, AtOne
  <2>2. LetterToken(str[pos]) \in ExprTokens /\ ~IsOp(LetterToken(str[pos]))
    BY <2>1, TokenTypes DEF LetterToken, IsOp, Letters
  <2>3. str[pos] \in Operands /\ str[pos] # " "
    BY <2>1 DEF Operands, Letters
  <2>4. Alternates(str) => ~AfterOperand(str, pos)
    BY <2>1, <2>3, TokenTurn DEF StartsOperand
  <2>5. AfterOperand(str, pos') /\ NotBehindSign'
    BY <1>d, <1>e, <2>1, <2>3
  <2> QED BY <2>1, <2>2, <2>4, <2>5, OperandInTurn
<1>6. CASE TakeOperator
  <2>1. /\ pc = "next_token" /\ str[pos] \in Operators /\ pos' = pos + 1
        /\ ~AtSign /\ ~AtEnd /\ pc' = "handle_op"
        /\ UNCHANGED << str, op_stack, out_stack >>
    BY <1>6 DEF TakeOperator, AtOne
  <2>2. str[pos] \notin Operands \cup {"(", ")", " "} /\ ~IsSign(str, pos)
    BY <2>1, LexemesDiffer DEF AtSign
  <2>3. ~AfterOperand(str, pos')
    BY <1>d, <2>1, <2>2
  <2>4. Alternates(str) => AfterOperand(str, pos)
    BY <2>1, <2>2, TokenTurn DEF StartsOperand
  <2>5. NotBehindSign' /\ BehindToken' /\ Expected' = 1
    BY <1>e, <2>1, <2>3 DEF BehindToken, Expected
  <2> QED BY <1>a, <1>b, <1>f, <2>1, <2>4, <2>5, RunsInTurn DEF Reading
<1>7. CASE TakeLparen
  <2>1. /\ pc = "next_token" /\ str[pos] = "(" /\ pos' = pos + 1 /\ ~AtSign /\ ~AtEnd
        /\ UNCHANGED << str, type >> /\ PushOp("(")
    BY <1>7 DEF TakeLparen, AtOne
  <2>2. CASE ~HasRoom(op_stack, OP_STACK_SIZE) /\ Abort
    BY <2>1, <2>2, FullStops, StopsInTurn DEF Abort
  <2>3. CASE op_stack' = Push(op_stack, "(") /\ pc' = "next_token" /\ UNCHANGED out_stack
    <3>1. Pending' = Pending
      <4>1. Open' = Open + 1 /\ Open \in Nat
        BY <2>3, OpenPush, CountTypes
      <4>2. Len(op_stack') = Len(op_stack) + 1 /\ Len(op_stack) \in Nat
        BY <2>3, PushProperties, PendingBound DEF IInv, StacksOK
      <4> QED BY <4>1, <4>2 DEF Pending
    <3>2. Left' = Left /\ PrefixesYield' = PrefixesYield
      BY <1>b, <2>3 DEF Left
    <3>3. ~AfterOperand(str, pos') /\ str[pos] # " "
      BY <1>d, <2>1, LexemesDiffer
    <3>4. Alternates(str) => ~AfterOperand(str, pos)
      BY <2>1, <3>3, TokenTurn DEF StartsOperand
    <3>5. NotBehindSign' /\ BehindToken' /\ Expected' = 0
      BY <1>e, <2>1, <2>3, <3>3 DEF BehindToken, Expected
    <3> QED BY <1>f, <2>1, <2>3, <3>1, <3>2, <3>4, <3>5, RunsInTurn DEF Reading
  <2> QED BY <2>1, <2>2, <2>3 DEF PushOp
<1>8. CASE TakeRparen
  <2>1. /\ pc = "next_token" /\ str[pos] = ")" /\ pos' = pos + 1 /\ ~AtSign /\ ~AtEnd
        /\ pc' = "rparen" /\ UNCHANGED << str, op_stack, out_stack >>
    BY <1>8 DEF TakeRparen, AtOne
  <2>2. AfterOperand(str, pos') /\ str[pos] # " "
    BY <1>d, <2>1
  <2>3. Alternates(str) => AfterOperand(str, pos)
    <3>1. ~StartsOperand(str, pos)
      BY <2>1, LexemesDiffer DEF StartsOperand, IsSign
    <3> QED BY <2>1, <2>2, <3>1, TokenTurn
  <2>4. NotBehindSign' /\ BehindToken' /\ Expected' = 1
    BY <1>e, <2>1, <2>2 DEF BehindToken, Expected
  <2> QED BY <1>a, <1>b, <1>f, <2>1, <2>3, <2>4, RunsInTurn DEF Reading
<1>9. CASE TakeUnknown
  <2>1. pc = "next_token" /\ ~AtEnd /\ str[pos] = "nop" /\ Abort /\ UNCHANGED << str, type >>
    BY <1>9 DEF TakeUnknown, AtOne
  <2>2. ~Alternates(str)
    BY <2>1, TokenTurn
  <2> QED BY <2>1, <2>2, StopsInTurn DEF Abort, AssertsOnlyMalformed
<1>10. CASE TakeEnd
  <2>1. pc = "next_token" /\ pc' = "flush" /\ UNCHANGED << str, pos, op_stack, out_stack >>
    BY <1>10 DEF TakeEnd
  <2>2. /\ NotBehindSign' /\ BehindToken'
        /\ Expected' = IF AfterOperand(str, pos) THEN 1 ELSE 0
    BY <2>1 DEF TurnsInv, NotBehindSign, BehindToken, Expected, Reading
  <2> QED BY <1>a, <1>b, <1>f, <2>1, <2>2, RunsInTurn DEF Reading
<1>11. CASE HandleOpPop
  BY <1>11, MoveInTurn DEF HandleOpPop, Yields
<1>12. CASE HandleOpPush
  <2>1. pc = "handle_op" /\ UNCHANGED << str, type, pos >> /\ tok \in Operators /\ PushOp(tok)
    BY <1>12 DEF HandleOpPush, IInv, ControlOK
  <2>2. CASE ~HasRoom(op_stack, OP_STACK_SIZE) /\ Abort
    BY <2>1, <2>2, FullStops, StopsInTurn DEF Abort
  <2>3. CASE op_stack' = Push(op_stack, tok) /\ pc' = "next_token" /\ UNCHANGED out_stack
    <3>1. Pending' = Pending + 1 /\ Pending \in Nat
      <4>1. Open' = Open /\ Open \in Nat
        <5>1. tok # "(" /\ tok \in Operators \cup {"("}
          BY <2>1, LexemesDiffer
        <5>2. Open' = Open + 0
          BY <2>3, <5>1, OpenPush
        <5> QED BY <5>2, CountTypes
      <4>2. Len(op_stack') = Len(op_stack) + 1 /\ Len(op_stack) \in Nat
        BY <2>1, <2>3, PushProperties, PendingBound DEF IInv, StacksOK
      <4> QED BY <4>1, <4>2, PendingBound DEF Pending
    <3>2. Left' = Left /\ PrefixesYield' = PrefixesYield
      BY <1>b, <2>3 DEF Left
    <3>3. ~AfterOperand(str, pos) /\ NotBehindSign'
      BY <2>1, <2>3 DEF TurnsInv, BehindToken, NotBehindSign, Reading
    <3>4. BehindToken' /\ Expected = 1 /\ Expected' = 0
      BY <2>1, <2>3, <3>3 DEF BehindToken, Expected
    <3>5. Alternates(str) => PrefixesYield /\ Left = Pending + 1
      BY <2>1, <3>4 DEF TurnsInv, Reading
    <3> QED BY <2>1, <2>3, <3>1, <3>2, <3>3, <3>4, <3>5, RunsInTurn DEF Reading
  <2> QED BY <2>1, <2>2, <2>3 DEF PushOp
<1>13. CASE RparenPop
  <2>1. CASE NonEmpty(op_stack) /\ Peek(op_stack) # "(" /\ MoveOp
    BY <1>13, <2>1, MoveInTurn DEF RparenPop
  <2>2. CASE ~NonEmpty(op_stack) /\ Abort
    <3>1. Open = 0 /\ Depth(pos - 1) = -1
      <4>1. Len(op_stack) = 0
        BY <2>2, PendingBound DEF NonEmpty
      <4>2. Open = 0
        BY <4>1, OccurrencesZero DEF Open
      <4>3. pos - 1 \in Nat /\ Depth(pos - 1) \in Int
        BY <1>c, CountTypes
      <4> QED BY <1>13, <4>2, <4>3 DEF RparenPop, BracketInv, Reading
    <3>2. pos - 1 \in 1..Len(str)
      <4>1. Depth(0) = 0
        BY OccurrencesZero DEF Depth
      <4>2. pos - 1 # 0
        BY <3>1, <4>1
      <4> QED BY <1>c, <4>2, CountTypes DEF IInv, ReadOK
    <3>3. ~Matched(str)
      <4>1. /\ Occurrences(str, "(", pos - 1) \in Nat
            /\ Occurrences(str, ")", pos - 1) \in Nat
        <5>1. pos - 1 \in Nat
          BY <1>c
        <5> QED BY <5>1, OccurrencesType
      <4> HIDE DEF Occurrences
      <4> QED BY <3>1, <3>2, <4>1 DEF Depth, Matched
    <3> QED BY <1>13, <2>2, <3>3, StopsInTurn DEF RparenPop, Abort, AssertsOnlyMalformed
  <2> QED BY <1>13, <2>1, <2>2 DEF RparenPop
<1>14. CASE RparenEnd
  <2>1. /\ pc = "rparen" /\ pc' = "next_token" /\ UNCHANGED << str, pos, out_stack >>
        /\ NonEmpty(op_stack) /\ Peek(op_stack) = "(" /\ op_stack' = Pop(op_stack)
    BY <1>14 DEF RparenEnd
  <2>2. Pending' = Pending
    <3>1. Open' = Open - 1 /\ Open \in Nat
      BY <2>1, OpenPop, CountTypes
    <3>2. Len(op_stack') = Len(op_stack) - 1 /\ Len(op_stack) \in Nat
      BY <2>1, PopProperties, PendingBound DEF IInv, StacksOK
    <3> QED BY <3>1, <3>2 DEF Pending
  <2>3. Left' = Left /\ PrefixesYield' = PrefixesYield
    BY <1>b, <2>1 DEF Left
  <2>4. AfterOperand(str, pos) /\ NotBehindSign' /\ BehindToken'
    BY <2>1 DEF TurnsInv, BehindToken, NotBehindSign, Reading
  <2>5. Expected = 1 /\ Expected' = 1
    BY <2>1, <2>4 DEF Expected
  <2>6. Alternates(str) => PrefixesYield /\ Left = Pending + 1
    BY <2>1, <2>5 DEF TurnsInv, Reading
  <2> QED BY <2>1, <2>2, <2>3, <2>4, <2>5, <2>6, RunsInTurn DEF Reading
<1>15. CASE Flush
  BY <1>15, MoveInTurn DEF Flush
<1>16. CASE FlushEnd
  <2>1. /\ pc = "flush" /\ ~NonEmpty(op_stack) /\ UNCHANGED << str, type, out_stack >>
        /\ pc' = IF NonEmpty(out_stack) THEN "alloc" ELSE "xassert"
    BY <1>16 DEF FlushEnd
  <2>2. Alternates(str) => Left = 1 /\ PrefixesYield
    <3>1. Len(op_stack) = 0
      BY <2>1, PendingBound DEF NonEmpty
    <3>2. Pending = 0
      BY <3>1, OccurrencesZero DEF Pending, Open
    <3>3. Alternates(str) => AfterOperand(str, pos)
      BY <2>1 DEF BracketInv, Alternates
    <3> QED BY <2>1, <3>2, <3>3 DEF TurnsInv, Reading, Expected
  <2>3. CASE pc' = "alloc"
    <3>1. Left' = Left /\ PrefixesYield' = PrefixesYield
      BY <1>b, <2>1 DEF Left
    <3> QED BY <2>1, <2>2, <2>3, <3>1
            DEF TurnsInv, NotBehindSign, BehindToken, Reading, AssertsOnlyMalformed
  <2>4. CASE pc' = "xassert"
    <3>1. Len(out_stack) = 0
      BY <2>1, <2>4, LenProperties DEF NonEmpty, IInv, StacksOK
    <3>2. Left = 0
      BY <3>1, BalanceZero DEF Left
    <3> QED BY <2>1, <2>2, <2>4, <3>2, StopsInTurn DEF AssertsOnlyMalformed
  <2> QED BY <2>1, <2>3, <2>4
<1>17. CASE AllocExpr \/ AllocFails
  <2>1. pc = "alloc" /\ pc' \in {"done", "oom"} /\ UNCHANGED << str, out_stack >>
    BY <1>17 DEF AllocExpr, AllocFails
  <2>2. Left' = Left /\ PrefixesYield' = PrefixesYield
    BY <1>b, <2>1 DEF Left
  <2> QED BY <2>1, <2>2 DEF TurnsInv, NotBehindSign, BehindToken, Reading,
                            AssertsOnlyMalformed, Compiled
<1>18. CASE Ended \/ UNCHANGED vars
  <2>1. UNCHANGED vars
    BY <1>18 DEF Ended
  <2>2. UNCHANGED << str, type, pos, op_stack, out_stack, pc >> /\ Expected' = Expected
    BY <2>1 DEF vars, Expected
  <2> QED BY <1>a, <1>b, <2>2
          DEF TurnsInv, NotBehindSign, BehindToken, AssertsOnlyMalformed, Compiled,
              NumbersInRange, InRange
<1> QED
  BY <1>1, <1>2, <1>3, <1>4, <1>5, <1>6, <1>7, <1>8, <1>9, <1>10, <1>11, <1>12,
     <1>13, <1>14, <1>15, <1>16, <1>17, <1>18 DEF Next

LEMMA InitTurns == Init => BracketInv /\ TurnsInv
<1> SUFFICES ASSUME Init PROVE BracketInv /\ TurnsInv
  OBVIOUS
<1>1. out_stack = << >> /\ Len(<< >>) = 0 /\ pc = "start" /\ pos = 1
  BY DEF Init, Empty
<1> QED
  BY <1>1 DEF BracketInv, TurnsInv, NotBehindSign, BehindToken, Reading, PrefixesYield,
              AssertsOnlyMalformed, CompiledIsMatched, Compiled

\* A text whose operands and operators take turns compiles to a postfix that
\* no prefix of underflows the evaluation stack and that leaves one value.
THEOREM CompilesToPostfix == Spec => []Evaluable
<1>1. TurnsInv => Evaluable
  BY DEF TurnsInv, Evaluable, PrefixesYield, Left
<1> QED BY InitIInv, InitTurns, NextIInv, NextBracket, NextTurns, <1>1, PTL DEF Spec

\* The compiler stops the process only on a text it should refuse, or on a
\* full stack: for every text and every size of the stacks.
THEOREM StopsOnlyOnMalformed == Spec => []AssertsOnlyMalformed
<1>1. TurnsInv => AssertsOnlyMalformed
  BY DEF TurnsInv
<1> QED BY InitIInv, InitTurns, NextIInv, NextBracket, NextTurns, <1>1, PTL DEF Spec
=============================================================================

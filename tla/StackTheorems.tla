--------------------------- MODULE StackTheorems ---------------------------
(***************************************************************************)
(* What the operators of Stack return, for stacks over any set, and how    *)
(* many places of a prefix are in a set, which the proofs about stacks     *)
(* count with.                                                             *)
(***************************************************************************)
EXTENDS Stack, Integers, SequenceTheorems, FiniteSetTheorems, TLAPS

\* push adds one item above the others, which stay where they are.
LEMMA PushProperties ==
  ASSUME NEW S, NEW stack \in Seq(S), NEW item \in S
  PROVE  /\ Push(stack, item) \in Seq(S)
         /\ Len(Push(stack, item)) = Len(stack) + 1
         /\ \A k \in 1..Len(stack) : Push(stack, item)[k] = stack[k]
         /\ Push(stack, item)[Len(stack) + 1] = item
BY DEF Push

\* pop removes the top item and moves no other.
LEMMA PopProperties ==
  ASSUME NEW S, NEW stack \in Seq(S), NonEmpty(stack)
  PROVE  /\ Pop(stack) \in Seq(S)
         /\ Len(Pop(stack)) = Len(stack) - 1
         /\ \A k \in 1..(Len(stack) - 1) : Pop(stack)[k] = stack[k]
<1> DEFINE n == Len(stack) - 1
<1>1. n \in Nat
  BY LenProperties DEF NonEmpty
<1>2. \A k \in 1..n : stack[k] \in S
  BY <1>1, ElementOfSeq
<1> HIDE DEF n
<1>3. /\ SubSeq(stack, 1, n) \in Seq(S)
      /\ Len(SubSeq(stack, 1, n)) = IF 1 <= n THEN n - 1 + 1 ELSE 0
      /\ \A k \in 1..(n - 1 + 1) : SubSeq(stack, 1, n)[k] = stack[1 + k - 1]
  BY <1>1, <1>2, SubSeqProperties
<1>4. /\ SubSeq(stack, 1, n) \in Seq(S)
      /\ Len(SubSeq(stack, 1, n)) = n
      /\ \A k \in 1..n : SubSeq(stack, 1, n)[k] = stack[k]
  BY <1>1, <1>3
<1> QED BY <1>4 DEF Pop, n

\* The item peek returns is one of the stack's.
LEMMA PeekProperties ==
  ASSUME NEW S, NEW stack \in Seq(S), NonEmpty(stack)
  PROVE  Peek(stack) \in S
BY DEF Peek, NonEmpty
-----------------------------------------------------------------------------
\* The members of a set among the first n places are counted place by place.
LEMMA CountStep ==
  ASSUME NEW Places, NEW n \in Nat
  PROVE  /\ Cardinality({k \in 1..n : k \in Places}) \in Nat
         /\ Cardinality({k \in 1..(n + 1) : k \in Places}) =
              Cardinality({k \in 1..n : k \in Places})
                + (IF n + 1 \in Places THEN 1 ELSE 0)
<1> DEFINE S == {k \in 1..n : k \in Places}
<1>1. IsFiniteSet(S) /\ Cardinality(S) \in Nat /\ n + 1 \notin S
  <2>1. IsFiniteSet(1..n)
    BY FS_Interval
  <2>2. IsFiniteSet(S)
    BY <2>1, FS_Subset
  <2> QED BY <2>2, FS_CardinalityType
<1>2. CASE n + 1 \in Places
  <2>1. {k \in 1..(n + 1) : k \in Places} = S \cup {n + 1}
    BY <1>2
  <2>2. Cardinality(S \cup {n + 1}) = Cardinality(S) + 1
    BY <1>1, FS_AddElement
  <2> QED BY <1>1, <1>2, <2>1, <2>2
<1>3. CASE n + 1 \notin Places
  <2>1. {k \in 1..(n + 1) : k \in Places} = S
    BY <1>3
  <2> QED BY <1>1, <1>3, <2>1
<1> QED BY <1>2, <1>3

\* No place is counted before the first.
LEMMA CountZero ==
  ASSUME NEW Places
  PROVE  Cardinality({k \in 1..0 : k \in Places}) = 0
<1>1. {k \in 1..0 : k \in Places} = {}
  OBVIOUS
<1> QED BY <1>1, FS_EmptySet
=============================================================================

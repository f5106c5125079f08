------------------------------- MODULE Stack -------------------------------
(***************************************************************************)
(* The generic stack of include/yobd-private/stack.h.  A stack is the      *)
(* sequence of the items between bottom and top; the array behind it has a *)
(* fixed number of slots.  push asserts that a slot is free and pop that   *)
(* an item is there: the callers' actions carry those two conditions, with *)
(* a disjunct of their own for the assertion that fails.                   *)
(***************************************************************************)
EXTENDS Naturals, Sequences

\* INIT_STACK: top = bottom.
Empty == << >>

\* The condition push asserts: size < max_size.
HasRoom(stack, max_size) == Len(stack) < max_size

Push(stack, item) == Append(stack, item)

\* The condition pop asserts, and the value peek returns.
NonEmpty(stack) == Len(stack) > 0

Peek(stack) == stack[Len(stack)]

Pop(stack) == SubSeq(stack, 1, Len(stack) - 1)
=============================================================================

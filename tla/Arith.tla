------------------------------- MODULE Arith -------------------------------
(***************************************************************************)
(* The arithmetic of the two evaluation functions of src/eval.c.  A float  *)
(* is a fraction << n, d >> with d > 0 (rounding is not modelled), an      *)
(* integer token an int_fast32_t, which never overflows at the bounds of   *)
(* the models; int32_t is the width of the value that is returned.         *)
(***************************************************************************)
EXTENDS Integers

CONSTANT INT32_SPAN  \* the number of values of an int32_t

ASSUME ArithAssumption ==
  INT32_SPAN \in Nat \ {0} /\ INT32_SPAN % 2 = 0

\* Integer division of C: towards zero.
Quotient(n, d) ==
  LET abs(x) == IF x >= 0 THEN x ELSE -x
      q      == abs(n) \div abs(d)
  IN  IF (n >= 0) = (d > 0) THEN q ELSE -q

\* The stack entry for a constant token, and for a byte of the frame.
FromToken(token) ==
  IF token.type = "EXPR_FLOAT" THEN << token.num, 10 >> ELSE token.num

FromByte(enum_type, byte) ==
  IF enum_type = "EXPR_FLOAT" THEN << byte, 1 >> ELSE byte

IsZero(enum_type, x) == IF enum_type = "EXPR_FLOAT" THEN x[1] = 0 ELSE x = 0

ApplyInt(op, x, y) ==
  CASE op = "+" -> x + y
    [] op = "-" -> x - y
    [] op = "*" -> x * y
    [] op = "/" -> Quotient(x, y)

ApplyFloat(op, x, y) ==
  CASE op = "+" -> << x[1] * y[2] + y[1] * x[2], x[2] * y[2] >>
    [] op = "-" -> << x[1] * y[2] - y[1] * x[2], x[2] * y[2] >>
    [] op = "*" -> << x[1] * y[1], x[2] * y[2] >>
    [] op = "/" -> IF y[1] > 0 THEN << x[1] * y[2], x[2] * y[1] >>
                               ELSE << -(x[1] * y[2]), x[2] * (-y[1]) >>

\* left op right, with a right operand that is not zero where op divides.
Apply(enum_type, op, left, right) ==
  IF enum_type = "EXPR_FLOAT" THEN ApplyFloat(op, left, right)
                              ELSE ApplyInt(op, left, right)

\* stack_type val: the int_fast32_t is narrowed to an int32_t.
Narrow(enum_type, x) ==
  IF enum_type = "EXPR_FLOAT" THEN x
  ELSE ((x + INT32_SPAN \div 2) % INT32_SPAN) - INT32_SPAN \div 2

SameValue(enum_type, x, y) ==
  IF enum_type = "EXPR_FLOAT" THEN x[1] * y[2] = y[1] * x[2] ELSE x = y
=============================================================================

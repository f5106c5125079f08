------------------------ MODULE ExprParserRefinement ------------------------
(***************************************************************************)
(* The shunting yard implements ExprSpec: for the well-formed texts of the *)
(* schema language it yields exactly the postfix form of the syntax tree,  *)
(* or YOBD_OOM, and it always returns.                                     *)
(***************************************************************************)
EXTENDS ExprParser

\* A number of an integer PID, in tenths, without its fraction: the whole
\* number next to it, towards zero.
Whole(tenths) ==
  CHOOSE n \in -LONG_MAX..LONG_MAX :
    IF tenths >= 0 THEN 10 * n <= tenths /\ tenths < 10 * n + 10
                   ELSE 10 * n >= tenths /\ tenths > 10 * n - 10

NumberFor(pid_type, tenths) ==
  IF pid_type = "float" THEN [type |-> "EXPR_FLOAT", num |-> tenths]
                        ELSE [type |-> "EXPR_INT32", num |-> Whole(tenths)]

\* The postfix form of a syntax tree, for a PID type.
PostfixNumber(pid_type, tenths)       == << NumberFor(pid_type, tenths) >>
PostfixLetter(pid_type, letter)       == << LetterToken(letter) >>
PostfixNode(pid_type, op, left, right) == left \o right \o << op_to_expr(op) >>

Postfix == INSTANCE Infix WITH
  Number <- PostfixNumber, Letter <- PostfixLetter, Node <- PostfixNode

Pending == [err |-> "pending"]

\* text is a pair: the expression and the PID type.
Meaning(text) ==
  LET postfix == Postfix!Meaning(text[2], text[1])
  IN  IF text[1] = << "nop" >>
        THEN [type |-> "EXPR_NOP", size |-> 0, data |-> NoData]
        ELSE [type |-> "EXPR_STACK", size |-> Len(postfix), data |-> postfix]

Result ==
  CASE pc = "done"    -> [err |-> "YOBD_OK", expr |-> expr]
    [] pc = "oom"     -> [err |-> "YOBD_OOM"]
    [] pc = "xassert" -> [err |-> "abort"]
    [] OTHER          -> Pending

Abstract == INSTANCE ExprSpec WITH text <- input, result <- Result

\* parse_expr_val() compiles every well-formed expression to the postfix form
\* of its syntax tree (precedence, left associativity, brackets, signs and the
\* conversion of the numbers), or returns YOBD_OOM; it never aborts on one.
CompilesTheSyntaxTree == Abstract!Spec
=============================================================================

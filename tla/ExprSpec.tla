------------------------------ MODULE ExprSpec ------------------------------
(***************************************************************************)
(* What parse_expr_val() promises to the schema parser: for a well-formed  *)
(* expression it returns, in one step, either the postfix form of the      *)
(* expression, every number converted to the PID's type, or YOBD_OOM.      *)
(* text is the pair of the expression and the type.                        *)
(***************************************************************************)
CONSTANTS Meaning(_), Pending

VARIABLES text, result

Init == result = Pending

Return ==
  /\ result = Pending
  /\ result' \in {[err |-> "YOBD_OK", expr |-> Meaning(text)],
                  [err |-> "YOBD_OOM"]}
  /\ UNCHANGED text

\* Every call returns.
Returns == <>(result # Pending)

Spec == Init /\ [][Return]_<< text, result >> /\ Returns
=============================================================================

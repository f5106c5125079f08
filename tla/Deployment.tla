----------------------------- MODULE Deployment -----------------------------
(***************************************************************************)
(* What the build and the library make of a schema together: documents     *)
(* that scripts/schema-check has accepted are loaded by src/parser.c.      *)
(***************************************************************************)
EXTENDS SchemaLoadRefinement, Validator

\* The loader asserts as many bytes as the type has for formulas as well.
NarrowFormula(desc) == FormulaIn(desc) # "nop" /\ ~WidthFits(desc)

\* Python's arithmetic is richer than that of src/expr.c.
ForeignFormula(desc) == FormulaIn(desc) \in Malformed

UnknownType(desc) == TypeIn(desc) \notin PidTypes

\* The failures that stop the loader: yaml_parser_load() is asserted to
\* succeed, and after a failed xh_init() yobd_free_ctx() asserts a map.
Asserted == {"yaml_parser_load", "xh_init"}

\* The validator accepts what the loader can load, with three exceptions: an
\* accepted document that says nothing twice stops the loader only if it has a
\* type of 64 bits, an integer formula over more bytes than its type has, or a
\* formula that only Python understands.
StopsOnlyAtGaps ==
  pc = "xassert" /\ failed \cap Asserted = {} /\ Accepts(document) /\ NothingTwice(document) =>
    \E place \in Places(document) :
      LET desc == DescAt(document, place)
      IN  UnknownType(desc) \/ ForeignFormula(desc) \/ NarrowFormula(desc)
=============================================================================

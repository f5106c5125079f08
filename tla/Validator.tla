------------------------------ MODULE Validator ------------------------------
(***************************************************************************)
(* The schema validator, scripts/schema-check: which documents it accepts  *)
(* by schema/meta/schema.yaml and the format checkers infix.py and         *)
(* nop_bytes.py.  It reads a document into Python dictionaries, so of a    *)
(* repeated key it sees the last value only.                               *)
(***************************************************************************)
EXTENDS SchemaDoc

CONSTANT NotInfix  \* the formulas that infix.py refuses

\* The enumerations of schema.yaml.
RawUnitEnum ==
  {"celsius", "degree", "g/s", "K", "kg/s", "km", "km/h", "kPa", "lat", "lng", "m",
   "m/s", "m/s^2", "nm", "ns", "Pa", "percent", "rad/s", "rpm", "s"}
SiUnitEnum ==
  {"degree", "K", "kg/s", "lat", "lng", "m", "m/s", "ns", "Pa", "percent", "rad", "rad/s"}
TypeEnum ==
  {"float", "int16", "int32", "int64", "int8", "uint16", "uint32", "uint64", "uint8"}

\* "0x" and up to four digits.
two_byte_hex == 0..65535

\* An object that has the keys, all of them, and no others.
HasKeys(node, keys) == Keys(node) = keys

\* Mutant: a float may be passed through from any bytes.
NopBytesAny(type) ==
  CASE type \in {"int8", "uint8"}   -> {1}
    [] type \in {"int16", "uint16"} -> 1..2
    [] OTHER                       -> 1..4

\* nop_bytes.py: the byte counts of a passed-through number.  It knows no
\* restriction for the 64-bit types.
NopBytes(type) ==
  CASE type = "float"              -> {4}
    [] type \in {"int8", "uint8"}   -> {1}
    [] type \in {"int16", "uint16"} -> 1..2
    [] OTHER                       -> 1..4

nop_bytes_check(desc) ==
  FormulaIn(desc) = "nop" => Scalar(desc, "bytes") \in NopBytes(TypeIn(desc))

infix_check(formula) == formula = "nop" \/ formula \notin NotInfix

pid(desc) ==
  /\ HasKeys(desc, FieldKeys)
  /\ HasKeys(Scalar(desc, "expr"), ExprKeys)
  /\ Scalar(desc, "bytes") \in 1..4
  /\ Scalar(desc, "raw-unit") \in RawUnitEnum
  /\ Scalar(desc, "si-unit") \in SiUnitEnum
  /\ TypeIn(desc) \in TypeEnum
  /\ infix_check(FormulaIn(desc))
  /\ nop_bytes_check(desc)

\* schema.yaml has a rule of its own for the mode 0x1, but YAML reads that key
\* of it as a number, and the modes of a document are strings: the rule is
\* never applied.
pidmap(pids) ==
  /\ Keys(pids) # {} /\ Keys(pids) \subseteq two_byte_hex
  /\ \A p \in Keys(pids) : pid(Scalar(pids, p))

modepid(modes) ==
  /\ Keys(modes) # {} /\ Keys(modes) \subseteq two_byte_hex
  /\ \A m \in Keys(modes) : pidmap(Scalar(modes, m))

Accepts(doc) ==
  /\ HasKeys(doc, TopKeys)
  /\ Scalar(doc, "endian") \in {"big", "little"}
  /\ modepid(Scalar(doc, "modepid"))
=============================================================================

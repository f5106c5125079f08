------------------------------ MODULE Library ------------------------------
(***************************************************************************)
(* The two halves of the library together: src/parser.c loads a document   *)
(* into a context, and src/eval.c makes and reads CAN frames by it.  They  *)
(* share struct yobd_ctx: the byte order, and the map with its keys.       *)
(***************************************************************************)
EXTENDS SchemaLoadRefinement, CanCodec

CONSTANT Payloads  \* the data bytes a vehicle may have for a PID

\* As many as the meta schema allows a PID to have.
ASSUME PayloadsAssumption == Payloads \subseteq {p \in Seq(Byte) : Len(p) \in 1..4}

\* The data of an expression, as the reader meets it: the block's content.
Program(expr) == [type |-> expr.type,
                  data |-> IF expr.data = NULL THEN NoProgram ELSE << expr.data[3] >>]

\* What src/eval.c reads of an entry.
reader_ctx ==
  [big_endian  |-> ctx.big_endian,
   modepid_map |-> [key \in DOMAIN entries |->
                      [can_bytes |-> entries[key].can_bytes,
                       pid_type  |-> entries[key].pid_type,
                       expr      |-> Program(entries[key].expr),
                       convert   |-> entries[key].convert_func]]]

answer(p, payload) ==
  make_can_response_noctx(ctx.big_endian, ToMode(p[1]), p[2], payload, ZeroFrame)

-----------------------------------------------------------------------------
(***************************************************************************)
(* What an answer means, from the document alone.                          *)
(***************************************************************************)
\* The highest bit of a number as wide as its signed type says that the number
\* is negative.
Negative(desc, payload) ==
  /\ TypeIn(desc) \in {"int8", "int16", "int32"}
  /\ Len(payload) = WidthOf[TypeIn(desc)]
  /\ payload[IF SaysBigEndian(document) THEN 1 ELSE Len(payload)] > 127

ValueIn(desc, payload) ==
  LET number == Weighed(SaysBigEndian(document), payload)
  IN  IF FormulaIn(desc) # "nop"
        THEN [formula |-> FormulaIn(desc), type |-> TypeIn(desc), over |-> Padded(payload)]
      ELSE IF TypeIn(desc) = "float" THEN [bits |-> number]
      ELSE [num |-> IF Negative(desc, payload) THEN number - 256 * Power[Len(payload)] ELSE number]

\* One of a raw unit is so much of the SI unit, and 0 of it is Zero.
Turn == times(<< 2, 1 >>, PI_FRACTION)

SiFactor ==
  [unit \in RawUnits |->
     CASE unit \in {"km", "kPa"} -> << 1000, 1 >>
       [] unit = "km/h"          -> << 1000, 3600 >>
       [] unit = "rpm"           -> times(Turn, << 1, 60 >>)
       [] unit = "degree"        -> times(Turn, << 1, 360 >>)
       [] unit = "g/s"           -> << 1, 1000 >>
       [] unit = "s"             -> << 1000000000, 1 >>
       [] unit = "nm"            -> << 1, 1000000000 >>
       [] OTHER                  -> << 1, 1 >>]

Zero(unit) == IF unit = "celsius" THEN << 27315, 100 >> ELSE << 0, 1 >>

\* The same whole part, and the same rest.
SameNumber(x, y) ==
  /\ x[1] \div x[2] = y[1] \div y[2]
  /\ (x[1] % x[2]) * y[2] = (y[1] % y[2]) * x[2]

IsSi(func, unit) ==
  /\ SameNumber(conversion(func)[1], SiFactor[unit])
  /\ SameNumber(convert(func, << 0, 1 >>), Zero(unit))

\* Modes whose response mode, 0x40 more, is a byte above 0x40.
Answerable(m) == m \in 1..191

-----------------------------------------------------------------------------
(***************************************************************************)
(* Where the code does not do what the document says, each a case of its   *)
(* own.                                                                    *)
(***************************************************************************)
\* Two things the codec does not get across (see CanSession): a PID of more
\* than a byte, and a passed-through number of three bytes, the lowest first.
Garbled(p, desc) ==
  \/ p[2] > 255
  \/ Scalar(desc, "bytes") = 3 /\ FormulaIn(desc) = "nop" /\ ~SaysBigEndian(document)

\* A negative number that is passed through is read as an unsigned one.
ReadUnsigned(desc, payload) == FormulaIn(desc) = "nop" /\ Negative(desc, payload)

Unsigned(payload) == [num |-> Weighed(SaysBigEndian(document), payload)]

\* nm_to_m() has the factor upside down.
Misconverted(desc) == Scalar(desc, "raw-unit") = "nm"

\* The error of a failed allocation is dropped: the PID has lost its formula.
MayBeLost(desc) == FormulaIn(desc) # "nop" /\ "malloc expr" \in failed

\* An assertion of the evaluator fails over these bytes.
Unevaluable(desc, payload) ==
  FormulaIn(desc) # "nop" /\ ~Evaluates(FormulaIn(desc), TypeIn(desc), Padded(payload))

-----------------------------------------------------------------------------
\* What becomes of an answer of the right length.
ReadsAs(read, desc, payload) ==
  \/ /\ read.err = "YOBD_OK" /\ ~Unevaluable(desc, payload)
     /\ read.val = IF ReadUnsigned(desc, payload) THEN Unsigned(payload)
                                                  ELSE ValueIn(desc, payload)
     /\ IsSi(read.convert, Scalar(desc, "raw-unit")) \/ Misconverted(desc)
  \/ read.err = "xassert" /\ Unevaluable(desc, payload)
  \/ read.err = "undefined" /\ MayBeLost(desc)

\* An answer to a PID of the document, with as many bytes as that says, is
\* read as what the document says of that PID, in its byte order, by its
\* formula and with its unit: whatever the order and the repetitions in the
\* document.  It stops the reader only at a formula that cannot be evaluated,
\* and is undefined only after a failed allocation.  An answer in a mode that
\* is not answerable is made, and refused by the reader.
AnswersMeanTheDocument ==
  pc = "loaded" =>
    \A p \in Pids(document), payload \in Payloads :
      LET desc == DescAt(document, LastPlace(document, p))
          sent == answer(p, payload)
          read == parse_can_response(reader_ctx, sent.frame)
      IN  \/ Garbled(p, desc)
          \/ /\ ~Answerable(p[1])
             /\ sent.err = "YOBD_OK" /\ read.err = "YOBD_INVALID_MODE"
          \/ /\ Answerable(p[1]) /\ Len(payload) # Scalar(desc, "bytes")
             /\ read.err = "YOBD_INVALID_DATA_BYTES"
          \/ /\ Answerable(p[1]) /\ Len(payload) = Scalar(desc, "bytes")
             /\ ReadsAs(read, desc, payload)

\* yobd.h: what is read is a value in SI units.  The conversion of every PID
\* in a loaded context is the one of its raw unit.
ValuesAreSi ==
  pc = "loaded" =>
    \A p \in Pids(document) :
      \A entry \in get_pid_ctx(ToMode(p[1]), p[2]) :
        IsSi(entry.convert_func, Scalar(DescAt(document, LastPlace(document, p)), "raw-unit"))
=============================================================================

------------------------ MODULE SchemaLoadRefinement ------------------------
(***************************************************************************)
(* SchemaLoad implements SchemaSpec.  The abstract context is what an      *)
(* application finds by the calls of the API; what a document means is     *)
(* defined on the document as a whole, without a walk and without keys.    *)
(***************************************************************************)
EXTENDS SchemaLoad

Description(doc, p) ==
  LET desc    == DescAt(doc, LastPlace(doc, p))
      said(k) == Scalar(desc, k)
  IN  [name    |-> said("name"),
       bytes   |-> said("bytes"),
       unit    |-> said("si-unit"),
       convert |-> find_convert_func[said("raw-unit")],
       type    |-> TypeIn(desc),
       formula |-> FormulaIn(desc)]

FieldFits(key, val) ==
  \/ key \in {"name", "bytes"}
  \/ key = "raw-unit" /\ val \in RawUnits
  \/ key = "si-unit" /\ val \in SiUnits
  \/ key = "expr" /\ ExprIsSound(val)

WidthOf == [float |-> 4, int8 |-> 1, uint8 |-> 1, int16 |-> 2, uint16 |-> 2,
            int32 |-> 4, uint32 |-> 4]

\* As many bytes as the type has, or fewer for an integer; a float that is
\* computed may be computed from any number.
WidthFits(desc) ==
  \/ TypeIn(desc) = "float" /\ FormulaIn(desc) # "nop"
  \/ TypeIn(desc) = "float" /\ Scalar(desc, "bytes") = WidthOf["float"]
  \/ TypeIn(desc) # "float" /\ Scalar(desc, "bytes") \in 1..WidthOf[TypeIn(desc)]

TopFits(key, val) == key = "modepid" \/ (key = "endian" /\ val \in {"big", "little"})

DescriptionFits(desc) == AllFit(desc, FieldFits) /\ WidthFits(desc)

Sound(doc) ==
  AllFit(doc, TopFits) /\ \A place \in Places(doc) : DescriptionFits(DescAt(doc, place))

-----------------------------------------------------------------------------
\* What the API says of an entry; a name and a formula are read through their
\* pointers.
Seen(entry) ==
  [name    |-> entry.name[3],
   bytes   |-> entry.can_bytes,
   unit    |-> entry.unit,
   convert |-> entry.convert_func,
   type    |-> entry.pid_type,
   formula |-> IF entry.expr.type = "EXPR_NOP" THEN "nop"
               ELSE IF entry.expr.data = NULL THEN "lost" ELSE entry.expr.data[3]]

\* The PIDs the walk over the map finds; each is looked up by its mode and PID.
SeenPids ==
  [p \in {<< visit.mode, visit.pid >> : visit \in yobd_pid_foreach} |->
     Seen(CHOOSE entry \in get_pid_ctx(p[1], p[2]) : TRUE)]

context ==
  IF pc = "loaded" THEN [big_endian |-> ctx.big_endian, pids |-> SeenPids, loaded |-> TRUE]
                   ELSE [big_endian |-> FALSE, pids |-> << >>, loaded |-> FALSE]

reply ==
  IF pc \in {"idle", "loaded"} THEN err
  ELSE IF pc \in {"xassert", "undefined"} THEN "stopped" ELSE "pending"

Abstract == INSTANCE SchemaSpec WITH
  BigEndian <- SaysBigEndian, file <- document, trouble <- (failed # {})

\* yobd_parse_schema(), the calls that read a context and yobd_free_ctx() keep
\* the promise of SchemaSpec, whatever the order of fields, repeated PIDs,
\* moves of the map's array and failures of the system on the way.
LoadsTheDocument == Abstract!Spec

-----------------------------------------------------------------------------
\* What the meta schema asks of a document, as far as the promise rests on it:
\* a byte order, and byte counts, modes and PIDs that fit the code's fields.
\* The theorems are about such documents; about others the code promises less.
DocumentsFit ==
  \A doc \in Documents :
    /\ "endian" \in Keys(doc)
    /\ FitsTheKeys(doc)
    /\ \A place \in Places(doc) : Scalar(DescAt(doc, place), "bytes") \in 0..255
=============================================================================

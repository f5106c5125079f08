----------------------------- MODULE MCLibrary -----------------------------
(***************************************************************************)
(* An instance of Library and Deployment: documents with one or two        *)
(* descriptions, sound and unsound, in several orders and with             *)
(* repetitions; all documents of a kind that the validator accepts; and    *)
(* documents with every length and type that can be answered.              *)
(***************************************************************************)
EXTENDS Library, Deployment, SequencesExt

\* The two fields of an expression, and the five of a description.
expr(type, val) == << << "type", type >>, << "val", val >> >>

desc(name, bytes, raw, si, e) ==
  << << "name", name >>, << "bytes", bytes >>, << "raw-unit", raw >>,
     << "si-unit", si >>, << "expr", e >> >>

computed == desc("temp", 5, "celsius", "K", expr("float", "A-40"))
odd_unit == desc("gear", 1, "furlong", "K", expr("uint8", "nop"))
computed4 == desc("temp", 4, "celsius", "K", expr("float", "A-40"))
passed   == desc("gear", 1, "K", "K", expr("uint8", "nop"))
float4   == desc("flow", 4, "g/s", "kg/s", Reverse(expr("float", "nop")))
wide     == desc("speed", 1, "km/h", "m/s", Reverse(expr("uint16", "A")))

Sounds == {computed, passed, float4, wide, Reverse(wide)}

\* Some field is said twice.
Twice ==
  {computed \o << << "name", "heat" >> >>,
   wide \o << << "bytes", 2 >>, << "expr", expr("int32", "B") >> >>,
   << << "expr", expr("int8", "nop") >> >> \o computed}

Unsounds ==
  {odd_unit,
   desc("flow", 2, "g/s", "kg/s", expr("float", "nop")),
   desc("gear", 0, "K", "K", expr("uint32", "nop")),
   desc("gear", 3, "K", "K", expr("int16", "A")),
   desc("gear", 8, "K", "K", expr("int64", "nop")),
   desc("temp", 1, "celsius", "celsius", expr("float", "A")),
   desc("temp", 1, "celsius", "K", expr("float", "A)")),
   desc("temp", 1, "celsius", "K", << << "val", "A" >> >>),
   desc("temp", 1, "celsius", "K", << << "type", "float" >> >>),
   desc("temp", 1, "celsius", "K", expr("float", "A") \o << << "note", "A" >> >>),
   computed \o << << "note", "A" >> >>}

Little == << "endian", "little" >>
Big    == << "endian", "big" >>

modepid_of(modes) == << "modepid", modes >>
one(m, p, d) == << << m, << << p, d >> >> >> >>
two(d1, d2) == << << 1, << << 12, d1 >>, << 13, d2 >> >> >> >>

\* The same PID twice: in one mode, in a mode that is named twice, in two maps.
again(d1, d2) == << << 1, << << 12, d1 >>, << 12, d2 >> >> >> >>
modes(m1, m2, d1, d2) == << << m1, << << 12, d1 >> >> >>, << m2, << << 12, d2 >> >> >> >>

OneDescription == {<< Little, modepid_of(one(1, 12, d)) >> : d \in Sounds \cup Twice \cup Unsounds}

SchemaDocuments ==
  OneDescription
    \cup {<< modepid_of(two(d1, d2)), Big >> : d1 \in Sounds, d2 \in Sounds \cup Twice}
    \cup {<< Big, modepid_of(again(d1, d2)) >> : d1 \in Sounds, d2 \in Sounds}
    \cup {<< Big, modepid_of(modes(1, m2, d, Reverse(computed))) >> : m2 \in {1, 34}, d \in Sounds}
    \cup {<< Little, modepid_of(one(1, 65535, d)), modepid_of(one(255, 12, wide)), Big,
             modepid_of(one(1, 65535, computed)) >> : d \in Sounds}
    \cup {<< Little, << "version", "1" >> >>, << << "endian", "middle" >> >>,
          << Little, modepid_of(<< >>) >>, << Little, modepid_of(<< << 1, << >> >> >>) >>}

-----------------------------------------------------------------------------
(***************************************************************************)
(* Every type with every byte count and formula and some units, documents  *)
(* with a key too many, too few or twice: those that are accepted.         *)
(***************************************************************************)
\* infix.py evaluates with 0 for every name, so that a division by a name
\* raises; and it cannot parse a bracket that was not opened.  src/expr.c stops
\* at such a bracket, and at a name it does not know.
MCNotInfix  == {"A/B", "A)"}
MCMalformed == {"int(A)", "A)"}

SomeUnits ==
  {<< "km/h", "m/s" >>, << "m/s^2", "m/s^2" >>, << "nm", "m" >>, << "rad", "rad" >>,
   << "rpm", "rad/s" >>, << "degree", "rad" >>, << "celsius", "K" >>, << "kPa", "Pa" >>,
   << "s", "ns" >>, << "g/s", "kg/s" >>}

Candidates ==
  {<< Little, modepid_of(one(1, 12, desc("x", bytes, "km", "m", expr(type, formula)))) >> :
      bytes \in 0..5, type \in TypeEnum \cup {"double"}, formula \in {"nop", "A"}}
    \cup {<< Little, modepid_of(one(1, 12, desc("x", 1, "km", "m", expr("uint8", formula)))) >> :
            formula \in {"A/B", "int(A)", "A)"}}
    \cup {<< Big, modepid_of(one(34, 12, desc("x", 1, u[1], u[2], expr("uint8", "nop")))) >> :
            u \in SomeUnits}
    \cup {<< Big, modepid_of(one(mode_, pid_, passed)) >> :
            mode_ \in {1, 34, 70000}, pid_ \in {12, 65535, 65536}}
    \cup {<< Big, modepid_of(two(passed, d)) >> : d \in Sounds \cup Unsounds}
    \cup {<< << "endian", "middle" >>, modepid_of(two(passed, wide)) >>,
          << modepid_of(two(passed, wide)) >>, << Big >>, << Big, modepid_of(<< >>) >>,
          << Big, modepid_of(<< << 1, << >> >> >>) >>,
          << Big, << "version", 1 >>, modepid_of(two(passed, wide)) >>}

DeployedDocuments == {doc \in Candidates : Accepts(doc)}

-----------------------------------------------------------------------------
LibraryPayloads == {<< 77 >>, << 130, 77 >>, << 9, 0 >>, << 1, 2, 3 >>, << 1, 2, 3, 4 >>}

\* "A-40" is two operands without an operator, "A / B" stops at a zero byte B.
MCEvaluates(formula, type, bytes) ==
  formula # "A-40" /\ (formula = "A / B" => bytes[2] # 0)

three == desc("rate", 3, "km", "m", expr("uint32", "nop"))
four  == desc("total", 4, "s", "ns", expr("uint32", "nop"))
shifted == desc("temp", 2, "celsius", "K", expr("float", "A - 40"))
ratio == desc("share", 2, "percent", "percent", expr("uint16", "A / B"))
two_  == desc("level", 2, "percent", "percent", expr("int16", "nop"))

\* Every length and type, one PID in two modes, PIDs that are repeated, the
\* byte order before or after them.
AnsweredDocuments ==
  {<< Little, modepid_of(two(d1, d2)) >> : d1 \in {passed, four, wide}, d2 \in {float4, two_, computed4}}
    \cup {<< modepid_of(two(d1, d2)), Big >> : d1 \in {passed, three, four}, d2 \in {float4, two_, computed4}}
    \cup {<< e, modepid_of(two(d1, d2)) >> : e \in {Little, Big}, d1 \in {shifted, ratio}, d2 \in {ratio, computed4}}
    \cup {<< Big, modepid_of(again(d1, d2)) >> : d1 \in {wide, float4}, d2 \in {two_, three}}
    \cup {<< e, modepid_of(modes(1, 34, d1, d2)) >> : e \in {Little, Big}, d1 \in {wide, float4}, d2 \in {two_, passed}}
    \cup {<< Little, modepid_of(one(10, 255, computed4)), Big >>,
          << Big, modepid_of(one(191, 255, two_)), Little >>,
          << Big, modepid_of(one(192, 12, passed)) >>}

MCDocuments == SchemaDocuments \cup DeployedDocuments \cup AnsweredDocuments

MCMayFail == Operations

\* A document for each raw unit, for a run in which nothing else goes wrong.
UnitDocuments ==
  {<< Big, modepid_of(one(1, 12, desc("x", 1, unit, "m", expr("uint8", "nop")))) >> : unit \in RawUnits}

\* The documents that the theorems are about.
ASSUME DocumentsAreFit == DocumentsFit
=============================================================================

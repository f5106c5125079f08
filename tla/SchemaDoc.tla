------------------------------ MODULE SchemaDoc ------------------------------
(***************************************************************************)
(* A schema document as the YAML libraries hand it to the loader and to    *)
(* the validator.  A mapping is the sequence of its pairs << key, value >> *)
(* in the order and with the repetitions of the file; a mode or a PID is   *)
(* written as its number.                                                  *)
(***************************************************************************)
EXTENDS Integers, Sequences

Key(pair) == pair[1]
Val(pair) == pair[2]

Keys(node) == {Key(node[n]) : n \in 1..Len(node)}

\* The value that counts if a key is repeated: the last one.
Scalar(node, key) ==
  Val(node[CHOOSE n \in 1..Len(node) :
             Key(node[n]) = key /\ \A m \in (n + 1)..Len(node) : Key(node[m]) # key])

TopKeys   == {"endian", "modepid"}
FieldKeys == {"name", "bytes", "raw-unit", "si-unit", "expr"}
ExprKeys  == {"type", "val"}

-----------------------------------------------------------------------------
(***************************************************************************)
(* What a document says, as a whole.                                       *)
(***************************************************************************)
\* The places of a document where something is said of a PID.
Places(doc) ==
  UNION {UNION {{<< n, m, p >> : p \in 1..Len(Val(Val(doc[n])[m]))} : m \in 1..Len(Val(doc[n]))} :
         n \in {n \in 1..Len(doc) : Key(doc[n]) = "modepid"}}

ModeAt(doc, place) == Key(Val(doc[place[1]])[place[2]])
PidAt(doc, place)  == Key(Val(Val(doc[place[1]])[place[2]])[place[3]])
DescAt(doc, place) == Val(Val(Val(doc[place[1]])[place[2]])[place[3]])

NameAt(doc, place) == << ModeAt(doc, place), PidAt(doc, place) >>

Pids(doc) == {NameAt(doc, place) : place \in Places(doc)}

Before(x, y) == \E n \in 1..3 : x[n] < y[n] /\ \A m \in 1..(n - 1) : x[m] = y[m]

\* The last thing a document says of a PID is what counts.
LastPlace(doc, p) ==
  LET places == {place \in Places(doc) : NameAt(doc, place) = p}
  IN  CHOOSE place \in places : \A other \in places \ {place} : Before(other, place)

TypeIn(desc)    == Scalar(Scalar(desc, "expr"), "type")
FormulaIn(desc) == Scalar(Scalar(desc, "expr"), "val")

SaysBigEndian(doc) == Scalar(doc, "endian") = "big"

\* Every value of a mapping is fit for its key.
AllFit(node, Fits(_, _)) == \A n \in 1..Len(node) : Fits(Key(node[n]), Val(node[n]))

SaysOnce(node) == \A n, m \in 1..Len(node) : Key(node[n]) = Key(node[m]) => n = m

\* No mode, PID or field is named twice in its mapping.
NothingTwice(doc) ==
  /\ SaysOnce(doc)
  /\ \A n \in 1..Len(doc) : Key(doc[n]) = "modepid" =>
       /\ SaysOnce(Val(doc[n]))
       /\ \A m \in 1..Len(Val(doc[n])) :
            LET pids == Val(Val(doc[n])[m])
            IN  SaysOnce(pids) /\ \A p \in 1..Len(pids) : SaysOnce(Val(pids[p]))
=============================================================================

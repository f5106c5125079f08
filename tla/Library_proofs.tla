---------------------------- MODULE Library_proofs ----------------------------
(***************************************************************************)
(* Proofs about Library and Deployment, for every set of documents and     *)
(* whatever operations of the system fail: a context says what the         *)
(* document says, an answer means what the document says it means, and     *)
(* what the validator accepts the loader stops at only where the two are   *)
(* known to differ.                                                        *)
(***************************************************************************)
EXTENDS Library, Deployment, SchemaLoad_proofs, CanCodec_proofs

-----------------------------------------------------------------------------
(***************************************************************************)
(* The inductive invariant: what of the document has been read is in the   *)
(* context, and nothing was passed that an assertion should have stopped.  *)
(***************************************************************************)
\* The last pair with a key, as far as a loop has come.
LastUpTo(node, key, n, top) ==
  /\ n \in 1..Len(node) /\ n <= top /\ Key(node[n]) = key
  /\ \A k \in 1..Len(node) : n < k /\ k <= top => Key(node[k]) # key

\* An entry has the value of a field; a formula may be lost if its allocation
\* has failed.
Reads(entry, key, val, lossy) ==
  /\ key = "name" => entry.name[3] = val
  /\ key = "bytes" => entry.can_bytes = val % 256
  /\ key = "raw-unit" => entry.convert_func = find_convert_func[val]
  /\ key = "si-unit" => entry.unit = val
  /\ key = "expr" =>
       /\ entry.pid_type = Scalar(val, "type")
       /\ IF Scalar(val, "val") = "nop" THEN entry.expr.type = "EXPR_NOP"
          ELSE /\ entry.expr.type = "EXPR_STACK"
               /\ IF entry.expr.data = NULL THEN lossy
                                            ELSE entry.expr.data[3] = Scalar(val, "val")

\* The allocation of a formula has failed in this load.
Lossy == "malloc expr" \in failed

\* Of a field that was said twice so far, the later one counts.
ReadSound ==
  pc = "parse_desc" =>
    \A key \in FieldKeys :
      \/ NotYet(key)
      \/ \E n \in Nat : /\ LastUpTo(fields_node, key, n, at.fields - 1)
                        /\ Reads(Entry, key, Val(fields_node[n]), Lossy)

\* An entry has what a description says.
Holds(entry, desc, lossy) == \A key \in FieldKeys : Reads(entry, key, Scalar(desc, key), lossy)

\* The key under which a description is filed.
KeySound ==
  /\ pc \in {"parse_mode", "parse_desc"} => mode = ToMode(Key(modes_node[at.modes]))
  /\ pc = "parse_desc" => pid_ctx.key = get_modepid(mode, Key(pids_node[at.pids]))

\* The walk, and the states that a walk without an error leads to.
OnTheWalk == pc \in Walks \cup {"xh_trim", "loaded"} \/ (pc = "parse_end" /\ err = "YOBD_OK")

\* The places the walk has come past.
Passed(place) ==
  \/ place[1] < at.doc
  \/ place[1] = at.doc /\ place[2] < at.modes /\ pc \in Walks \ {"parse_doc"}
  \/ /\ place[1] = at.doc /\ place[2] = at.modes /\ place[3] < at.pids
     /\ pc \in {"parse_mode", "parse_desc"}

KeyOf(place) == get_modepid(ToMode(ModeAt(document, place)), PidAt(document, place))

LastPassed(key, place) ==
  /\ Passed(place) /\ KeyOf(place) = key
  /\ \A other \in Places(document) \ {place} :
       Passed(other) /\ KeyOf(other) = key => Before(other, place)

\* The entry parse_desc() is at work on.
Filling(key) == pc = "parse_desc" /\ key = pid_ctx.key

\* Of the descriptions of one key that were passed, the entry has the last.
ContentSound ==
  OnTheWalk =>
    /\ \A key \in DOMAIN entries : ~Filling(key) =>
         \E place \in Places(document) :
           LastPassed(key, place) /\ Holds(entries[key], DescAt(document, place), Lossy)
    /\ \A place \in Places(document) : Passed(place) => KeyOf(place) \in DOMAIN entries

\* What was said beside the descriptions.
TopSound ==
  OnTheWalk =>
    /\ pc \notin Walks => at.doc > Len(document)
    /\ \A n \in 1..Len(document) : n < at.doc => TopFits(Key(document[n]), Val(document[n]))
    /\ \/ \A n \in 1..Len(document) : n < at.doc => Key(document[n]) # "endian"
       \/ \E n \in Nat : /\ LastUpTo(document, "endian", n, at.doc - 1)
                         /\ ctx.big_endian = (Val(document[n]) = "big")

FitSound ==
  OnTheWalk =>
    /\ \A place \in Places(document) :
         Passed(place) =>
           /\ DescriptionFits(DescAt(document, place))
           /\ Scalar(DescAt(document, place), "raw-unit") \in RawUnits
    /\ pc = "parse_desc" =>
         \A n \in 1..Len(fields_node) :
           n < at.fields => FieldFits(Key(fields_node[n]), Val(fields_node[n]))

ErrSound ==
  /\ pc = "idle" => err \in {"YOBD_OK", "YOBD_OOM", "YOBD_INVALID_PARAMETER", "YOBD_CANNOT_OPEN_FILE"}
  /\ pc \in {"xh_trim", "loaded"} => err = "YOBD_OK"
  /\ pc \in {"error", "error_ctx"} => err = "YOBD_OOM"
  /\ pc = "parse_end" => err \in {"YOBD_OK", "YOBD_OOM"}

RInv == ReadSound /\ KeySound /\ ContentSound /\ TopSound /\ FitSound /\ ErrSound

-----------------------------------------------------------------------------
(***************************************************************************)
(* Mappings and places.                                                    *)
(***************************************************************************)
\* At the end of a loop the last pair with a key is the one that counts.
LEMMA ScalarIsLast ==
  ASSUME NEW node, Len(node) \in Nat, NEW key, NEW n, NEW top \in Int, top >= Len(node),
         LastUpTo(node, key, n, top)
  PROVE  Scalar(node, key) = Val(node[n])
<1>. DEFINE Last(k) == Key(node[k]) = key /\ \A m \in (k + 1)..Len(node) : Key(node[m]) # key
<1>1. n \in 1..Len(node) /\ n \in Nat /\ Key(node[n]) = key
  BY DEF LastUpTo
<1>2. \A k \in 1..Len(node) : n < k => Key(node[k]) # key
  BY DEF LastUpTo
<1>3. Last(n)
  BY <1>1, <1>2
<1>4. ASSUME NEW k \in 1..Len(node), Last(k) PROVE k = n
  <2>1. ~(k < n)
    BY <1>1, <1>4
  <2>2. ~(n < k)
    BY <1>2, <1>4
  <2>. QED
    BY <1>1, <2>1, <2>2
<1>. HIDE DEF Last
<1>5. (CHOOSE k \in 1..Len(node) : Last(k)) = n
  BY <1>1, <1>3, <1>4
<1>6. Scalar(node, key) = Val(node[CHOOSE k \in 1..Len(node) : Last(k)])
  BY Zenon DEF Scalar, Last
<1>. QED
  BY <1>5, <1>6

\* Of a mapping that says nothing twice, what counts is what is said.
LEMMA OnceIsScalar ==
  ASSUME NEW node, Len(node) \in Nat, SaysOnce(node), NEW n \in 1..Len(node)
  PROVE  Scalar(node, Key(node[n])) = Val(node[n])
<1>1. LastUpTo(node, Key(node[n]), n, Len(node))
  BY DEF SaysOnce, LastUpTo
<1>. QED
  BY <1>1, ScalarIsLast

\* A loop moves on.
LEMMA LastMoves ==
  ASSUME NEW node, Len(node) \in Nat, NEW key, NEW top \in Nat
  PROVE  /\ top + 1 \in 1..Len(node) /\ Key(node[top + 1]) = key =>
              LastUpTo(node, key, top + 1, top + 1)
         /\ \A n : LastUpTo(node, key, n, top) /\ (top + 1 <= Len(node) => Key(node[top + 1]) # key) =>
              LastUpTo(node, key, n, top + 1)
BY DEF LastUpTo

\* The nodes of the loops.
LEMMA NodesOfTheWalk ==
  ASSUME IInv, pc \in Walks
  PROVE  /\ document \in Documents /\ Len(document) \in Nat /\ at.doc \in Nat \ {0}
         /\ pc # "parse_doc" =>
              /\ at.doc \in 1..Len(document) /\ Key(document[at.doc]) = "modepid"
              /\ Len(modes_node) \in Nat /\ at.modes \in Nat \ {0}
         /\ pc \in {"parse_mode", "parse_desc"} =>
              /\ at.modes \in 1..Len(modes_node)
              /\ Len(pids_node) \in Nat /\ at.pids \in Nat \ {0}
         /\ pc = "parse_desc" =>
              /\ at.pids \in 1..Len(pids_node)
              /\ DescriptionIsWhole(fields_node) /\ at.fields \in Nat \ {0}
<1>1. document \in Documents /\ Len(document) \in Nat /\ at.doc \in Nat \ {0}
  BY DocumentsAssumption DEF IInv, AtSound, Walks
<1>2. at.modes \in Nat /\ at.pids \in Nat /\ at.fields \in Nat
  BY DEF IInv, AtSound
<1>3. ASSUME pc # "parse_doc"
      PROVE  /\ at.doc \in 1..Len(document) /\ Key(document[at.doc]) = "modepid"
             /\ Len(modes_node) \in Nat /\ at.modes \in Nat \ {0}
  <2>1. at.doc \in 1..Len(document) /\ Key(document[at.doc]) = "modepid" /\ at.modes >= 1
    BY <1>3 DEF IInv, AtSound
  <2>. QED
    BY <1>1, <1>2, <2>1, DocumentsAssumption DEF modes_node
<1>4. ASSUME pc \in {"parse_mode", "parse_desc"}
      PROVE  /\ at.modes \in 1..Len(modes_node)
             /\ Len(pids_node) \in Nat /\ at.pids \in Nat \ {0}
  <2>1. at.modes <= Len(modes_node) /\ at.pids >= 1
    BY <1>4 DEF IInv, AtSound
  <2>2. at.modes \in 1..Len(modes_node)
    BY <1>3, <1>4, <2>1
  <2>. QED
    BY <1>1, <1>2, <1>3, <1>4, <2>1, <2>2, DocumentsAssumption DEF modes_node, pids_node
<1>5. ASSUME pc = "parse_desc"
      PROVE  /\ at.pids \in 1..Len(pids_node)
             /\ DescriptionIsWhole(fields_node) /\ at.fields \in Nat \ {0}
  <2>1. at.pids <= Len(pids_node) /\ at.fields >= 1
    BY <1>5 DEF IInv, AtSound
  <2>2. at.pids \in 1..Len(pids_node)
    BY <1>4, <1>5, <2>1
  <2>3. DescriptionIsWhole(fields_node)
    <3>1. /\ at.doc \in 1..Len(document) /\ Key(document[at.doc]) = "modepid"
          /\ at.modes \in 1..Len(modes_node)
      BY <1>3, <1>4, <1>5
    <3>. QED
      BY <1>1, <2>2, <3>1, DocumentsAssumption DEF modes_node, pids_node, fields_node
  <2>. QED
    BY <1>2, <2>1, <2>2, <2>3
<1>. QED
  BY <1>1, <1>3, <1>4, <1>5

\* The places of a document.
LEMMA PlaceOf ==
  ASSUME NEW doc, NEW n \in 1..Len(doc), Key(doc[n]) = "modepid",
         NEW m \in 1..Len(Val(doc[n])), NEW p \in 1..Len(Val(Val(doc[n])[m]))
  PROVE  << n, m, p >> \in Places(doc)
BY DEF Places

LEMMA PlaceIs ==
  ASSUME NEW doc \in Documents, NEW place \in Places(doc)
  PROVE  /\ place = << place[1], place[2], place[3] >>
         /\ place[1] \in 1..Len(doc) /\ Key(doc[place[1]]) = "modepid"
         /\ place[2] \in 1..Len(Val(doc[place[1]]))
         /\ place[3] \in 1..Len(Val(Val(doc[place[1]])[place[2]]))
         /\ place[1] \in Nat /\ place[2] \in Nat /\ place[3] \in Nat
         /\ DescriptionIsWhole(DescAt(doc, place))
<1>1. PICK n, m, p :
        /\ n \in 1..Len(doc) /\ Key(doc[n]) = "modepid"
        /\ m \in 1..Len(Val(doc[n])) /\ p \in 1..Len(Val(Val(doc[n])[m]))
        /\ place = << n, m, p >>
  BY DEF Places
<1>2. place[1] = n /\ place[2] = m /\ place[3] = p
  BY <1>1
<1>3. n \in Nat /\ Len(Val(doc[n])) \in Nat
  BY <1>1, DocumentsAssumption
<1>4. m \in Nat /\ Len(Val(Val(doc[n])[m])) \in Nat
  BY <1>1, <1>3, DocumentsAssumption
<1>5. DescriptionIsWhole(Val(Val(Val(doc[n])[m])[p]))
  BY <1>1, DocumentsAssumption
<1>. QED
  BY <1>1, <1>2, <1>3, <1>4, <1>5 DEF DescAt

\* The order of places.
LEMMA BeforeCases ==
  ASSUME NEW x, NEW y
  PROVE  Before(x, y) <=> \/ x[1] < y[1]
                          \/ x[1] = y[1] /\ x[2] < y[2]
                          \/ x[1] = y[1] /\ x[2] = y[2] /\ x[3] < y[3]
<1>. DEFINE Upto(n) == x[n] < y[n] /\ \A m \in 1..(n - 1) : x[m] = y[m]
<1>1. Before(x, y) <=> Upto(1) \/ Upto(2) \/ Upto(3)
  <2>1. Before(x, y) <=> \E n \in 1..3 : Upto(n)
    BY DEF Before
  <2>2. \A n : n \in 1..3 <=> n = 1 \/ n = 2 \/ n = 3
    OBVIOUS
  <2>. HIDE DEF Upto
  <2>. QED
    BY <2>1, <2>2
<1>2. Upto(1) <=> x[1] < y[1]
  OBVIOUS
<1>3. Upto(2) <=> x[1] = y[1] /\ x[2] < y[2]
  OBVIOUS
<1>4. Upto(3) <=> x[1] = y[1] /\ x[2] = y[2] /\ x[3] < y[3]
  <2>1. \A m : m \in 1..(3 - 1) <=> m = 1 \/ m = 2
    OBVIOUS
  <2>. QED
    BY <2>1
<1>. HIDE DEF Upto
<1>. QED
  BY <1>1, <1>2, <1>3, <1>4

-----------------------------------------------------------------------------
(***************************************************************************)
(* What parse_desc() has read is in the entry.                             *)
(***************************************************************************)
\* A field is read into the entry, and leaves alone what others have set.
LEMMA FieldIsRead ==
  ASSUME NEW entry, IInv, ReadSound, InDesc, NextField, SetEntry(entry), NEW lost,
         failed' = failed \cup lost,
         Reads(entry, Key(fields_node[at.fields]), field, Lossy'),
         \A key, val : key # Key(fields_node[at.fields]) /\ Reads(Entry, key, val, Lossy)
                         => Reads(entry, key, val, Lossy')
  PROVE  ReadSound'
<1>1. pc = "parse_desc" /\ pid_ctx.key \in DOMAIN entries /\ at.fields <= Len(fields_node)
  BY DEF InDesc, IInv, MapSound
<1>2. UNCHANGED << pc, document, mode, pid_ctx >> /\ at' = [at EXCEPT !.fields = @ + 1]
  BY DEF NextField
<1>3. Entry' = entry
  BY <1>1, <1>2 DEF SetEntry, IInv, EntriesSound, entries, Entry
<1>4. /\ at'.fields = at.fields + 1 /\ at.fields \in Nat \ {0}
      /\ at'.doc = at.doc /\ at'.modes = at.modes /\ at'.pids = at.pids
  BY <1>1, <1>2 DEF IInv, AtSound
<1>5. fields_node' = fields_node
  BY <1>2, <1>4 DEF fields_node, pids_node, modes_node
<1>6. Len(fields_node) \in Nat
  BY <1>1, NodesOfTheWalk DEF Walks, DescriptionIsWhole
<1>. DEFINE top == at.fields - 1
<1>7. top \in Nat /\ top + 1 = at.fields /\ at.fields \in 1..Len(fields_node)
  BY <1>1, <1>4, <1>6
<1>. HIDE DEF top
<1>8. ASSUME NEW key \in FieldKeys, ~NotYet(key)'
      PROVE  \E n \in Nat : /\ LastUpTo(fields_node, key, n, at.fields)
                            /\ Reads(entry, key, Val(fields_node[n]), Lossy')
  <2>1. CASE Key(fields_node[at.fields]) = key
    <3>1. LastUpTo(fields_node, key, at.fields, at.fields)
      BY <1>6, <1>7, <2>1, LastMoves
    <3>. QED
      BY <1>4, <2>1, <3>1 DEF field
  <2>2. CASE Key(fields_node[at.fields]) # key
    <3>1. ~NotYet(key)
      BY <1>4, <1>5, <1>8, <2>2 DEF NotYet
    <3>2. PICK n \in Nat : /\ LastUpTo(fields_node, key, n, top)
                           /\ Reads(Entry, key, Val(fields_node[n]), Lossy)
      BY <1>1, <3>1 DEF ReadSound, top
    <3>3. LastUpTo(fields_node, key, n, at.fields)
      BY <1>6, <1>7, <2>2, <3>2, LastMoves
    <3>. QED
      BY <2>2, <3>2, <3>3
  <2>. QED
    BY <2>1, <2>2
<1>9. at'.fields - 1 = at.fields
  BY <1>4
<1>. QED
  BY <1>3, <1>5, <1>8, <1>9 DEF ReadSound

\* An entry with one field set, in full.
LEMMA EntryWithField ==
  ASSUME NEW entry, NEW val, IsEntry(entry)
  PROVE  /\ [entry EXCEPT !.name = val] =
              [name |-> val, can_bytes |-> entry.can_bytes, unit |-> entry.unit,
               convert_func |-> entry.convert_func, pid_type |-> entry.pid_type,
               expr |-> entry.expr]
         /\ [entry EXCEPT !.can_bytes = val] =
              [name |-> entry.name, can_bytes |-> val, unit |-> entry.unit,
               convert_func |-> entry.convert_func, pid_type |-> entry.pid_type,
               expr |-> entry.expr]
         /\ [entry EXCEPT !.unit = val] =
              [name |-> entry.name, can_bytes |-> entry.can_bytes, unit |-> val,
               convert_func |-> entry.convert_func, pid_type |-> entry.pid_type,
               expr |-> entry.expr]
         /\ [entry EXCEPT !.convert_func = val] =
              [name |-> entry.name, can_bytes |-> entry.can_bytes, unit |-> entry.unit,
               convert_func |-> val, pid_type |-> entry.pid_type,
               expr |-> entry.expr]
BY DEF IsEntry

LEMMA ParseScalarReads == IInv /\ ReadSound /\ ParseScalar => ReadSound'
<1>. SUFFICES ASSUME IInv, ReadSound, ParseScalar PROVE ReadSound'
  OBVIOUS
<1>1. InDesc /\ NextField /\ failed' = failed
  BY DEF ParseScalar, AtField
<1>2. IsEntry(Entry)
  BY <1>1, EntryOfIInv DEF InDesc
<1>3. ASSUME NEW entry, SetEntry(entry), Reads(entry, Key(fields_node[at.fields]), field, Lossy),
             \A key, val : key # Key(fields_node[at.fields]) /\ Reads(Entry, key, val, Lossy)
                             => Reads(entry, key, val, Lossy)
      PROVE  ReadSound'
  <2>1. Lossy' = Lossy /\ failed' = failed \cup {}
    BY <1>1 DEF Lossy
  <2>. QED
    BY <1>1, <1>3, <2>1, FieldIsRead
<1>4. ASSUME AtField("bytes"), SetEntry([Entry EXCEPT !.can_bytes = field % 256])
      PROVE  ReadSound'
  <2>1. PICK val : val = field % 256
    OBVIOUS
  <2>2. PICK entry : entry = [Entry EXCEPT !.can_bytes = val]
    OBVIOUS
  <2>3. entry = [name |-> Entry.name, can_bytes |-> val, unit |-> Entry.unit,
                 convert_func |-> Entry.convert_func, pid_type |-> Entry.pid_type,
                 expr |-> Entry.expr]
    BY <1>2, <2>2, EntryWithField
  <2>4. Key(fields_node[at.fields]) = "bytes" /\ SetEntry(entry)
    BY <1>4, <2>1, <2>2 DEF AtField
  <2>. QED
    BY <1>3, <2>1, <2>3, <2>4 DEF Reads
<1>5. ASSUME AtField("raw-unit"), SetEntry([Entry EXCEPT !.convert_func = find_convert_func[field]])
      PROVE  ReadSound'
  <2>1. PICK val : val = find_convert_func[field]
    OBVIOUS
  <2>2. PICK entry : entry = [Entry EXCEPT !.convert_func = val]
    OBVIOUS
  <2>3. entry = [name |-> Entry.name, can_bytes |-> Entry.can_bytes, unit |-> Entry.unit,
                 convert_func |-> val, pid_type |-> Entry.pid_type,
                 expr |-> Entry.expr]
    BY <1>2, <2>2, EntryWithField
  <2>4. Key(fields_node[at.fields]) = "raw-unit" /\ SetEntry(entry)
    BY <1>5, <2>1, <2>2 DEF AtField
  <2>. QED
    BY <1>3, <2>1, <2>3, <2>4 DEF Reads
<1>6. ASSUME AtField("si-unit"), SetEntry([Entry EXCEPT !.unit = field])
      PROVE  ReadSound'
  <2>1. PICK entry : entry = [Entry EXCEPT !.unit = field]
    OBVIOUS
  <2>2. entry = [name |-> Entry.name, can_bytes |-> Entry.can_bytes, unit |-> field,
                 convert_func |-> Entry.convert_func, pid_type |-> Entry.pid_type,
                 expr |-> Entry.expr]
    BY <1>2, <2>1, EntryWithField
  <2>3. Key(fields_node[at.fields]) = "si-unit" /\ SetEntry(entry)
    BY <1>6, <2>1 DEF AtField
  <2>. QED
    BY <1>3, <2>2, <2>3 DEF Reads
<1>. QED
  BY <1>4, <1>5, <1>6, Zenon DEF ParseScalar

LEMMA ParseNameReads == IInv /\ ReadSound /\ ParseName => ReadSound'
<1>. SUFFICES ASSUME IInv, ReadSound, ParseName PROVE ReadSound'
  OBVIOUS
<1>1. pc = "parse_desc" /\ InDesc /\ Key(fields_node[at.fields]) = "name"
  BY DEF ParseName, AtField, InDesc
<1>2. CASE pc' = "parse_end"
  BY <1>2 DEF ReadSound
<1>3. ASSUME NEW name, name = Fresh("name", field), NextField, failed' = failed,
             SetEntry([Entry EXCEPT !.name = name])
      PROVE  ReadSound'
  <2>1. PICK entry : entry = [Entry EXCEPT !.name = name]
    OBVIOUS
  <2>2. entry = [name |-> name, can_bytes |-> Entry.can_bytes, unit |-> Entry.unit,
                 convert_func |-> Entry.convert_func, pid_type |-> Entry.pid_type,
                 expr |-> Entry.expr]
    BY <1>1, <2>1, EntryWithField, EntryOfIInv
  <2>3. name[3] = field
    BY <1>3 DEF Fresh
  <2>4. Lossy' = Lossy /\ failed' = failed \cup {}
    BY <1>3 DEF Lossy
  <2>5. Reads(entry, "name", field, Lossy')
    BY <2>2, <2>3 DEF Reads
  <2>6. \A key, val : key # "name" /\ Reads(Entry, key, val, Lossy) => Reads(entry, key, val, Lossy')
    BY <2>2, <2>4 DEF Reads
  <2>. QED
    BY <1>1, <1>3, <2>1, <2>4, <2>5, <2>6, FieldIsRead
<1>4. \/ pc' = "parse_end"
      \/ NextField /\ failed' = failed /\ SetEntry([Entry EXCEPT !.name = Fresh("name", field)])
  BY Zenon DEF ParseName, Unwind
<1>. QED
  BY <1>2, <1>3, <1>4, Zenon

LEMMA ParseExprReads == IInv /\ ReadSound /\ ParseExpr => ReadSound'
<1>. SUFFICES ASSUME IInv, ReadSound, ParseExpr PROVE ReadSound'
  OBVIOUS
<1>. DEFINE text == Scalar(field, "val")
            set(type, data) ==
              SetEntry([Entry EXCEPT !.pid_type = Scalar(field, "type"), !.expr = Expr(type, data)])
<1>1. pc = "parse_desc" /\ InDesc /\ Key(fields_node[at.fields]) = "expr" /\ NextField
  BY DEF ParseExpr, AtField, InDesc
<1>2. ASSUME NEW type, NEW data, set(type, data), NEW lost, failed' = failed \cup lost,
             IF text = "nop" THEN type = "EXPR_NOP"
             ELSE /\ type = "EXPR_STACK"
                  /\ IF data = NULL THEN "malloc expr" \in lost ELSE data[3] = text
      PROVE  ReadSound'
  <2>1. PICK entry :
          entry = [Entry EXCEPT !.pid_type = Scalar(field, "type"), !.expr = Expr(type, data)]
    OBVIOUS
  <2>2. /\ entry = [name |-> Entry.name, can_bytes |-> Entry.can_bytes, unit |-> Entry.unit,
                    convert_func |-> Entry.convert_func, pid_type |-> Scalar(field, "type"),
                    expr |-> Expr(type, data)]
        /\ Expr(type, data).type = type /\ Expr(type, data).data = data
    BY <1>1, <2>1, EntryOfIInv, EntryWithFormula DEF Expr
  <2>3. (Lossy => Lossy') /\ ("malloc expr" \in lost => Lossy')
    BY <1>2 DEF Lossy
  <2>. HIDE DEF text
  <2>4. Reads(entry, "expr", field, Lossy')
    BY <1>2, <2>2, <2>3 DEF Reads, text
  <2>5. \A key, val : key # "expr" /\ Reads(Entry, key, val, Lossy) => Reads(entry, key, val, Lossy')
    BY <2>2 DEF Reads
  <2>6. SetEntry(entry)
    BY <1>2, <2>1
  <2>. QED
    BY <1>1, <1>2, <2>4, <2>5, <2>6, FieldIsRead
<1>3. \/ text = "nop" /\ set("EXPR_NOP", NULL) /\ failed' = failed \cup {}
      \/ text # "nop" /\ set("EXPR_STACK", Fresh("expr", text)) /\ failed' = failed \cup {}
      \/ text # "nop" /\ set("EXPR_STACK", NULL) /\ failed' = failed \cup {"malloc expr"}
  BY DEF ParseExpr, Fails
<1>4. Fresh("expr", text) # NULL /\ Fresh("expr", text)[3] = text
  <2>1. Fresh("expr", text)[1] = "expr" /\ NULL[1] = "NULL" /\ Fresh("expr", text)[3] = text
    BY DEF Fresh, NULL
  <2>. QED
    BY <2>1
<1>5. "malloc expr" \in {"malloc expr"}
  OBVIOUS
<1>. HIDE DEF set, text
<1>6. CASE text = "nop" /\ set("EXPR_NOP", NULL) /\ failed' = failed \cup {}
  BY <1>2, <1>6, Zenon
<1>7. CASE text # "nop" /\ set("EXPR_STACK", Fresh("expr", text)) /\ failed' = failed \cup {}
  BY <1>2, <1>4, <1>7, Zenon
<1>8. CASE text # "nop" /\ set("EXPR_STACK", NULL) /\ failed' = failed \cup {"malloc expr"}
  BY <1>2, <1>5, <1>8, Zenon
<1>. QED
  BY <1>3, <1>6, <1>7, <1>8

LEMMA PutModePidReads == IInv /\ PutModePid => ReadSound'
<1>. SUFFICES ASSUME IInv, PutModePid PROVE ReadSound'
  OBVIOUS
<1>1. pc' = "parse_end" \/ (pc' = "parse_desc" /\ at' = [at EXCEPT !.fields = 1])
  BY DEF PutModePid, Unwind
<1>2. at' = [at EXCEPT !.fields = 1] => at'.fields = 1
  BY DEF IInv, AtSound
<1>3. pc' = "parse_desc" => at'.fields = 1
  BY <1>1, <1>2
<1>. QED
  BY <1>3 DEF ReadSound, NotYet

LEMMA NextReads == IInv /\ ReadSound /\ [Next]_vars => ReadSound'
<1>. SUFFICES ASSUME IInv, ReadSound, [Next]_vars PROVE ReadSound'
  OBVIOUS
<1>1. CASE ParseName \/ ParseScalar \/ ParseExpr \/ PutModePid
  BY <1>1, ParseNameReads, ParseScalarReads, ParseExprReads, PutModePidReads
<1>2. CASE Refuse \/ Open \/ Setup
  BY <1>2 DEF Refuse, Open, Setup, MallocCtx, XhInit, InitParser, LoadDocument, ReadSound
<1>3. CASE ParseEndian \/ EnterModepid \/ EnterMode \/ LeaveModepid \/ LeaveMode \/ LeaveDesc
  BY <1>3 DEF ParseEndian, AtTop, EnterModepid, EnterMode, LeaveModepid, LeaveMode, LeaveDesc, ReadSound
<1>4. CASE StopAtDocument \/ LeaveDoc \/ ParseEnd \/ XhTrim \/ DestroyMap \/ FreeCtx
  <2>1. pc' # "parse_desc"
    BY <1>4 DEF StopAtDocument, Stop, LeaveDoc, Unwind, ParseEnd, XhTrim, DestroyMap, FreeCtx
  <2>. QED
    BY <2>1 DEF ReadSound
<1>5. CASE Gone \/ UNCHANGED vars
  <2>1. UNCHANGED << pc, document, at, pid_ctx, xhash, failed >>
    BY <1>5 DEF Gone, vars, walk
  <2>2. UNCHANGED << fields_node, Entry, Lossy >>
    BY <2>1 DEF modes_node, pids_node, fields_node, entries, Entry, Lossy
  <2>3. \A key : NotYet(key)' <=> NotYet(key)
    BY <2>1, <2>2 DEF NotYet
  <2>. QED
    BY <2>1, <2>2, <2>3 DEF ReadSound
<1>. QED
  BY <1>1, <1>2, <1>3, <1>4, <1>5 DEF Next, Load, Setup, Walk

-----------------------------------------------------------------------------
(***************************************************************************)
(* What keeps the entries those of the places that were passed.            *)
(***************************************************************************)
\* A formula that is lost stays lost.
LEMMA StaysHeld ==
  ASSUME NEW entry, NEW desc, NEW lossy, NEW later, lossy => later, Holds(entry, desc, lossy)
  PROVE  Holds(entry, desc, later)
BY DEF Holds, Reads

\* The places stay as they are as long as the document does.
LEMMA KeyStays ==
  ASSUME UNCHANGED document, NEW place
  PROVE  KeyOf(place)' = KeyOf(place)
BY DEF KeyOf, ModeAt, PidAt

\* As long as no place is passed, and only the entry that is being filled
\* changes, the entries stay as said.
LEMMA ContentStays ==
  ASSUME ContentSound, OnTheWalk, UNCHANGED document,
         \A place \in Places(document) : Passed(place)' <=> Passed(place),
         DOMAIN entries \subseteq DOMAIN entries',
         \A key \in DOMAIN entries' : ~Filling(key)' =>
           key \in DOMAIN entries /\ ~Filling(key) /\ entries'[key] = entries[key],
         Lossy => Lossy'
  PROVE  ContentSound'
<1>1. \A place \in Places(document) : KeyOf(place)' = KeyOf(place)
  BY KeyStays
<1>2. ASSUME NEW key, NEW place \in Places(document), LastPassed(key, place)
      PROVE  LastPassed(key, place)'
  BY <1>1, <1>2 DEF LastPassed
<1>3. ASSUME NEW key \in DOMAIN entries', ~Filling(key)'
      PROVE  \E place \in Places(document) :
               LastPassed(key, place)' /\ Holds(entries'[key], DescAt(document, place), Lossy')
  <2>1. key \in DOMAIN entries /\ ~Filling(key) /\ entries'[key] = entries[key]
    BY <1>3
  <2>2. PICK place \in Places(document) :
          LastPassed(key, place) /\ Holds(entries[key], DescAt(document, place), Lossy)
    BY <2>1 DEF ContentSound
  <2>3. Holds(entries[key], DescAt(document, place), Lossy')
    BY <2>2, StaysHeld
  <2>. QED
    BY <1>2, <2>1, <2>2, <2>3
<1>4. \A place \in Places(document) : Passed(place)' => KeyOf(place)' \in DOMAIN entries'
  BY <1>1 DEF ContentSound
<1>. QED
  BY <1>3, <1>4 DEF ContentSound

\* A loop that enters or leaves a mapping passes no place.
LEMMA MovePasses ==
  ASSUME IInv, ParseEndian \/ EnterModepid \/ EnterMode \/ LeaveModepid \/ LeaveMode,
         NEW place \in Places(document)
  PROVE  Passed(place)' <=> Passed(place)
<1>0. pc \in Walks \ {"parse_desc"} /\ document' = document
  BY DEF ParseEndian, AtTop, EnterModepid, EnterMode, LeaveModepid, LeaveMode, Walks
<1>1. /\ document \in Documents
      /\ at.doc \in Nat /\ at.modes \in Nat /\ at.pids \in Nat
      /\ pc \in {"parse_modepid", "parse_mode"} => Len(modes_node) \in Nat
      /\ pc = "parse_mode" => Len(pids_node) \in Nat
  BY <1>0, NodesOfTheWalk DEF IInv, AtSound, Walks
<1>2. /\ place[1] \in 1..Len(document) /\ Key(document[place[1]]) = "modepid"
      /\ place[1] \in Nat /\ place[2] \in Nat \ {0} /\ place[3] \in Nat \ {0}
      /\ place[1] = at.doc => place[2] \in 1..Len(modes_node)
      /\ place[1] = at.doc /\ place[2] = at.modes => place[3] \in 1..Len(pids_node)
  BY <1>1, PlaceIs DEF modes_node, pids_node
<1>3. CASE ParseEndian
  <2>1. /\ pc = "parse_doc" /\ pc' = "parse_doc" /\ at'.doc = at.doc + 1
        /\ Key(document[at.doc]) = "endian"
    BY <1>3 DEF ParseEndian, AtTop, IInv, AtSound
  <2>. QED
    BY <1>1, <1>2, <2>1 DEF Passed
<1>4. CASE EnterModepid
  <2>1. pc = "parse_doc" /\ pc' = "parse_modepid" /\ at'.doc = at.doc /\ at'.modes = 1
    BY <1>4 DEF EnterModepid, AtTop, IInv, AtSound
  <2>. QED
    BY <1>1, <1>2, <2>1 DEF Passed
<1>5. CASE EnterMode
  <2>1. /\ pc = "parse_modepid" /\ pc' = "parse_mode"
        /\ at'.doc = at.doc /\ at'.modes = at.modes /\ at'.pids = 1
    BY <1>5 DEF EnterMode, IInv, AtSound
  <2>. QED
    BY <1>1, <1>2, <2>1 DEF Passed, Walks
<1>6. CASE LeaveModepid
  <2>1. /\ pc = "parse_modepid" /\ pc' = "parse_doc" /\ at'.doc = at.doc + 1
        /\ at.modes > Len(modes_node)
    BY <1>6 DEF LeaveModepid, IInv, AtSound
  <2>2. place[1] = at.doc => place[2] < at.modes
    BY <1>1, <1>2, <2>1
  <2>. QED
    BY <1>1, <1>2, <2>1, <2>2 DEF Passed, Walks
<1>7. CASE LeaveMode
  <2>1. /\ pc = "parse_mode" /\ pc' = "parse_modepid"
        /\ at'.doc = at.doc /\ at'.modes = at.modes + 1
        /\ at.pids > Len(pids_node)
    BY <1>7 DEF LeaveMode, IInv, AtSound
  <2>2. place[1] = at.doc /\ place[2] = at.modes => place[3] < at.pids
    BY <1>1, <1>2, <2>1
  <2>. QED
    BY <1>1, <1>2, <2>1, <2>2 DEF Passed, Walks
<1>. QED
  BY <1>3, <1>4, <1>5, <1>6, <1>7

LEMMA MoveContent ==
  IInv /\ ContentSound /\ (ParseEndian \/ EnterModepid \/ EnterMode \/ LeaveModepid \/ LeaveMode)
    => ContentSound'
<1>. SUFFICES ASSUME IInv, ContentSound,
                     ParseEndian \/ EnterModepid \/ EnterMode \/ LeaveModepid \/ LeaveMode
              PROVE  ContentSound'
  OBVIOUS
<1>1. /\ pc \in Walks \ {"parse_desc"} /\ pc' \in Walks \ {"parse_desc"}
      /\ UNCHANGED << document, xhash, failed >>
  BY DEF ParseEndian, AtTop, EnterModepid, EnterMode, LeaveModepid, LeaveMode, Walks
<1>2. UNCHANGED << entries, Lossy >>
  BY <1>1 DEF entries, Lossy
<1>3. \A place \in Places(document) : Passed(place)' <=> Passed(place)
  BY MovePasses
<1>4. OnTheWalk /\ \A key : ~Filling(key) /\ ~Filling(key)'
  BY <1>1 DEF OnTheWalk, Filling
<1>. QED
  BY <1>1, <1>2, <1>3, <1>4, ContentStays

\* The steps of parse_desc() change no entry but that which it fills.
LEMMA FieldContent ==
  IInv /\ ContentSound /\ (ParseName \/ ParseScalar \/ ParseExpr) => ContentSound'
<1>. SUFFICES ASSUME IInv, ContentSound, ParseName \/ ParseScalar \/ ParseExpr PROVE ContentSound'
  OBVIOUS
<1>1. pc = "parse_desc" /\ \E entry : SetEntry(entry)
  BY DEF ParseName, ParseScalar, ParseExpr, AtField, InDesc
<1>2. \/ NextField /\ failed \subseteq failed'
      \/ pc' = "parse_end" /\ err' = "YOBD_OOM"
  BY DEF ParseName, ParseScalar, ParseExpr, Unwind, Fails
<1>3. /\ DOMAIN entries' = DOMAIN entries
      /\ \A key \in DOMAIN entries : key # pid_ctx.key => entries'[key] = entries[key]
  BY <1>1 DEF SetEntry, IInv, EntriesSound, entries
<1>4. CASE NextField /\ failed \subseteq failed'
  <2>1. /\ UNCHANGED << pc, document, pid_ctx >>
        /\ at'.doc = at.doc /\ at'.modes = at.modes /\ at'.pids = at.pids
    BY <1>4 DEF NextField, IInv, AtSound
  <2>2. \A place \in Places(document) : Passed(place)' <=> Passed(place)
    BY <2>1 DEF Passed
  <2>3. \A key : Filling(key)' <=> Filling(key)
    BY <2>1 DEF Filling
  <2>4. \A key : ~Filling(key) => key # pid_ctx.key
    BY <1>1 DEF Filling
  <2>5. (Lossy => Lossy') /\ OnTheWalk
    BY <1>1, <1>4 DEF Lossy, OnTheWalk, Walks
  <2>. QED
    BY <1>3, <2>1, <2>2, <2>3, <2>4, <2>5, ContentStays
<1>5. CASE pc' = "parse_end" /\ err' = "YOBD_OOM"
  BY <1>5 DEF ContentSound, OnTheWalk, Walks
<1>. QED
  BY <1>2, <1>4, <1>5

\* An entry that is put is to be filled.
LEMMA PutContent == IInv /\ ContentSound /\ PutModePid => ContentSound'
<1>. SUFFICES ASSUME IInv, ContentSound, PutModePid PROVE ContentSound'
  OBVIOUS
<1>1. pc = "parse_mode" /\ document' = document
  BY DEF PutModePid
<1>. DEFINE put(array, key) ==
       /\ pid_ctx' = [array |-> array, key |-> key]
       /\ xhash' = [vals |-> array,
                    entries |-> [k \in DOMAIN entries \cup {key} |->
                                   IF k \in DOMAIN entries THEN entries[k] ELSE JunkEntry]]
       /\ at' = [at EXCEPT !.fields = 1]
       /\ pc' = "parse_desc" /\ failed' = failed
<1>2. ASSUME NEW array, NEW key, put(array, key) PROVE ContentSound'
  <2>1. /\ DOMAIN entries' = DOMAIN entries \cup {key}
        /\ \A k \in DOMAIN entries : entries'[k] = entries[k]
    BY <1>2 DEF entries
  <2>2. /\ at'.doc = at.doc /\ at'.modes = at.modes /\ at'.pids = at.pids
        /\ pc' = "parse_desc" /\ pid_ctx'.key = key /\ failed' = failed
    BY <1>2 DEF IInv, AtSound
  <2>3. \A place \in Places(document) : Passed(place)' <=> Passed(place)
    BY <1>1, <2>2 DEF Passed, Walks
  <2>4. \A k : (Filling(k)' <=> k = key) /\ ~Filling(k)
    BY <1>1, <2>2 DEF Filling
  <2>5. Lossy' = Lossy /\ OnTheWalk
    BY <1>1, <2>2 DEF Lossy, OnTheWalk, Walks
  <2>. QED
    BY <1>1, <2>1, <2>3, <2>4, <2>5, ContentStays
<1>3. CASE pc' = "parse_end" /\ err' = "YOBD_OOM"
  BY <1>3 DEF ContentSound, OnTheWalk, Walks
<1>4. \/ pc' = "parse_end" /\ err' = "YOBD_OOM"
      \/ put(xhash.vals, get_modepid(mode, Key(pids_node[at.pids])))
      \/ put(Fresh("vals", ""), get_modepid(mode, Key(pids_node[at.pids])))
  BY Zenon DEF PutModePid, Unwind
<1>. HIDE DEF put
<1>. QED
  BY <1>2, <1>3, <1>4, Zenon

\* Where parse_desc() is.
LEMMA HereIs ==
  ASSUME IInv, pc = "parse_desc", NEW here, here = << at.doc, at.modes, at.pids >>
  PROVE  /\ here \in Places(document) /\ DescAt(document, here) = fields_node
         /\ ModeAt(document, here) = Key(modes_node[at.modes])
         /\ PidAt(document, here) = Key(pids_node[at.pids])
<1>1. /\ at.doc \in 1..Len(document) /\ Key(document[at.doc]) = "modepid"
      /\ at.modes \in 1..Len(modes_node) /\ at.pids \in 1..Len(pids_node)
  BY NodesOfTheWalk DEF Walks
<1>2. here \in Places(document)
  BY <1>1, PlaceOf DEF modes_node, pids_node
<1>. QED
  BY <1>2 DEF DescAt, ModeAt, PidAt, fields_node, pids_node, modes_node

\* It passes that place, behind all that were passed before.
LEMMA DescPasses ==
  ASSUME IInv, LeaveDesc, NEW here, here = << at.doc, at.modes, at.pids >>,
         NEW place \in Places(document)
  PROVE  /\ Passed(place)' <=> Passed(place) \/ place = here
         /\ Passed(place) => Before(place, here)
         /\ ~Passed(here)
<1>1. /\ pc = "parse_desc" /\ pc' = "parse_mode"
      /\ at'.doc = at.doc /\ at'.modes = at.modes /\ at'.pids = at.pids + 1
      /\ at.doc \in Nat /\ at.modes \in Nat /\ at.pids \in Nat
      /\ document \in Documents
  BY DEF LeaveDesc, IInv, AtSound
<1>2. /\ place = << place[1], place[2], place[3] >>
      /\ place[1] \in Nat /\ place[2] \in Nat /\ place[3] \in Nat
  BY <1>1, PlaceIs
<1>3. here[1] = at.doc /\ here[2] = at.modes /\ here[3] = at.pids
  OBVIOUS
<1>4. place = here <=> place[1] = at.doc /\ place[2] = at.modes /\ place[3] = at.pids
  BY <1>2
<1>5. Passed(place)' <=> Passed(place) \/ place = here
  BY <1>1, <1>2, <1>4 DEF Passed, Walks
<1>6. Passed(place) => Before(place, here)
  BY <1>1, <1>2, <1>3, BeforeCases DEF Passed, Walks
<1>7. ~Passed(here)
  BY <1>1, <1>3 DEF Passed
<1>. QED
  BY <1>5, <1>6, <1>7

\* At the end of a description all of it has been read.
LEMMA DescIsRead ==
  ASSUME IInv, ReadSound, pc = "parse_desc", at.fields > Len(fields_node)
  PROVE  /\ Holds(Entry, fields_node, Lossy)
         /\ \A key \in FieldKeys :
              \E n \in 1..Len(fields_node) :
                Key(fields_node[n]) = key /\ Val(fields_node[n]) = Scalar(fields_node, key)
<1>1. DescriptionIsWhole(fields_node) /\ at.fields \in Nat \ {0}
  BY NodesOfTheWalk DEF Walks
<1>2. Len(fields_node) \in Nat
  BY <1>1 DEF DescriptionIsWhole
<1>3. ASSUME NEW key \in FieldKeys
      PROVE  /\ Reads(Entry, key, Scalar(fields_node, key), Lossy)
             /\ \E n \in 1..Len(fields_node) :
                  Key(fields_node[n]) = key /\ Val(fields_node[n]) = Scalar(fields_node, key)
  <2>1. ~NotYet(key)
    BY <1>1, <1>2 DEF DescriptionIsWhole, NotYet, Keys
  <2>2. PICK n \in Nat : /\ LastUpTo(fields_node, key, n, at.fields - 1)
                         /\ Reads(Entry, key, Val(fields_node[n]), Lossy)
    BY <2>1 DEF ReadSound
  <2>3. at.fields - 1 \in Int /\ at.fields - 1 >= Len(fields_node)
    BY <1>1, <1>2
  <2>4. Scalar(fields_node, key) = Val(fields_node[n])
    BY <1>2, <2>2, <2>3, ScalarIsLast
  <2>. QED
    BY <2>2, <2>4 DEF LastUpTo
<1>. QED
  BY <1>3 DEF Holds

\* An entry that is filled has the description of the last place with its key.
LEMMA DescContent ==
  ASSUME IInv, ReadSound, KeySound, ContentSound, LeaveDesc
  PROVE  ContentSound'
<1>1. PICK here, own : here = << at.doc, at.modes, at.pids >> /\ own = pid_ctx.key
  OBVIOUS
<1>2. /\ pc = "parse_desc" /\ pc' = "parse_mode" /\ at.fields > Len(fields_node)
      /\ UNCHANGED << document, xhash, failed >>
  BY DEF LeaveDesc
<1>3. here \in Places(document) /\ DescAt(document, here) = fields_node /\ KeyOf(here) = own
  BY <1>1, <1>2, HereIs DEF KeySound, KeyOf
<1>4. Holds(Entry, fields_node, Lossy)
  BY <1>2, DescIsRead
<1>5. own \in DOMAIN entries /\ entries[own] = Entry
  BY <1>1, <1>2 DEF IInv, MapSound, Entry
<1>6. \A place \in Places(document) :
        /\ Passed(place)' <=> Passed(place) \/ place = here
        /\ Passed(place) => Before(place, here)
        /\ ~Passed(here)
  BY <1>1, DescPasses
<1>7. \A place : KeyOf(place)' = KeyOf(place)
  BY <1>2, KeyStays
<1>8. UNCHANGED << entries, Lossy >> /\ OnTheWalk /\ \A key : ~Filling(key)'
  BY <1>2 DEF entries, Lossy, OnTheWalk, Walks, Filling
<1>9. \A key : ~Filling(key) <=> key # own
  BY <1>1, <1>2 DEF Filling
<1>10. LastPassed(own, here)'
  BY <1>2, <1>3, <1>6, <1>7 DEF LastPassed
<1>11. ASSUME NEW key, key # own, NEW place \in Places(document), LastPassed(key, place)
       PROVE  LastPassed(key, place)'
  BY <1>2, <1>3, <1>6, <1>7, <1>11 DEF LastPassed
<1>12. ASSUME NEW key \in DOMAIN entries
       PROVE  \E place \in Places(document) :
                LastPassed(key, place)' /\ Holds(entries[key], DescAt(document, place), Lossy)
  <2>1. CASE key = own
    BY <1>3, <1>4, <1>5, <1>10, <2>1
  <2>2. CASE key # own
    BY <1>8, <1>9, <1>11, <2>2 DEF ContentSound
  <2>. QED
    BY <2>1, <2>2
<1>13. \A place \in Places(document) : Passed(place)' => KeyOf(place) \in DOMAIN entries
  BY <1>3, <1>5, <1>6, <1>8 DEF ContentSound
<1>. QED
  BY <1>2, <1>7, <1>8, <1>12, <1>13 DEF ContentSound

\* Before the walk no place was passed, and there is nothing in the map; after
\* it nothing is put.
LEMMA NothingPassed ==
  ASSUME IInv, LoadDocument, pc' = "parse_doc", NEW place \in Places(document)
  PROVE  document' = document /\ at'.doc = 1 /\ ~Passed(place)'
<1>1. document' = document /\ at'.doc = 1 /\ document \in Documents
  BY DEF LoadDocument, Start, IInv, AtSound
<1>2. place[1] \in 1..Len(document) /\ place[1] \in Nat
  BY <1>1, PlaceIs
<1>. QED
  BY <1>1, <1>2, DocumentsAssumption DEF Passed

LEMMA LoadContent == IInv /\ LoadDocument => ContentSound'
<1>. SUFFICES ASSUME IInv, LoadDocument PROVE ContentSound'
  OBVIOUS
<1>1. CASE pc' = "parse_doc"
  <2>1. xhash' = NoMap /\ document' = document
    BY DEF LoadDocument, IInv, MapSound
  <2>2. DOMAIN entries' = {}
    BY <2>1, NoEntriesNext
  <2>3. \A place \in Places(document) : ~Passed(place)'
    BY <1>1, NothingPassed
  <2>. QED
    BY <2>1, <2>2, <2>3 DEF ContentSound
<1>2. CASE pc' = "xassert"
  BY <1>2 DEF ContentSound, OnTheWalk, Walks
<1>. QED
  BY <1>1, <1>2 DEF LoadDocument

LEMMA EndContent ==
  IInv /\ ContentSound /\ (LeaveDoc \/ ParseEnd \/ XhTrim) => ContentSound'
<1>. SUFFICES ASSUME IInv, ContentSound, LeaveDoc \/ ParseEnd \/ XhTrim PROVE ContentSound'
  OBVIOUS
<1>1. CASE pc' = "error"
  BY <1>1 DEF ContentSound, OnTheWalk, Walks
<1>2. CASE pc' # "error"
  <2>1. /\ UNCHANGED << document, at, failed >>
        /\ \/ pc = "parse_doc" \/ pc = "xh_trim" \/ (pc = "parse_end" /\ err = "YOBD_OK")
        /\ pc' \in {"parse_end", "xh_trim", "loaded"}
    BY <1>2 DEF LeaveDoc, ParseEnd, XhTrim, walk, Unwind
  <2>2. entries' = entries
    BY DEF LeaveDoc, ParseEnd, XhTrim, IInv, EntriesSound, entries
  <2>3. \A place : Passed(place)' <=> Passed(place)
    BY <2>1 DEF Passed, Walks
  <2>4. /\ Lossy' = Lossy /\ OnTheWalk
        /\ \A key : ~Filling(key) /\ ~Filling(key)'
    BY <2>1 DEF Lossy, OnTheWalk, Walks, Filling
  <2>. QED
    BY <2>1, <2>2, <2>3, <2>4, ContentStays
<1>. QED
  BY <1>1, <1>2

\* Off the walk.
OffTheWalk == Refuse \/ Open \/ MallocCtx \/ XhInit \/ InitParser \/ StopAtDocument
                \/ DestroyMap \/ FreeCtx

LEMMA OffIsOff == OffTheWalk => pc' \notin Walks \cup {"parse_end", "xh_trim", "loaded"}
<1>1. Refuse \/ Open \/ MallocCtx \/ XhInit \/ InitParser =>
        pc' \in {"idle", "malloc", "xh_init", "yaml_parser_initialize", "yaml_parser_load",
                 "xassert", "error"}
  BY DEF Refuse, Open, MallocCtx, XhInit, InitParser
<1>2. StopAtDocument \/ DestroyMap \/ FreeCtx => pc' \in {"xassert", "error_ctx", "idle", "undefined"}
  BY DEF StopAtDocument, Stop, DestroyMap, FreeCtx
<1>. QED
  BY <1>1, <1>2 DEF OffTheWalk, Walks

LEMMA NextContent ==
  IInv /\ ReadSound /\ KeySound /\ ContentSound /\ [Next]_vars => ContentSound'
<1>. SUFFICES ASSUME IInv, ReadSound, KeySound, ContentSound, [Next]_vars PROVE ContentSound'
  OBVIOUS
<1>1. CASE ParseEndian \/ EnterModepid \/ EnterMode \/ LeaveModepid \/ LeaveMode
  BY <1>1, MoveContent
<1>2. CASE ParseName \/ ParseScalar \/ ParseExpr
  BY <1>2, FieldContent
<1>3. CASE PutModePid \/ LeaveDesc \/ LoadDocument
  BY <1>3, PutContent, DescContent, LoadContent
<1>4. CASE LeaveDoc \/ ParseEnd \/ XhTrim
  BY <1>4, EndContent
<1>5. CASE OffTheWalk
  BY <1>5, OffIsOff DEF ContentSound, OnTheWalk
<1>6. CASE Gone \/ UNCHANGED vars
  <2>1. UNCHANGED << pc, document, at, pid_ctx, xhash, failed, err >>
    BY <1>6 DEF Gone, vars, walk
  <2>2. UNCHANGED << entries, Lossy, OnTheWalk >>
    BY <2>1 DEF entries, Lossy, OnTheWalk
  <2>3. \A place : Passed(place)' <=> Passed(place)
    BY <2>1 DEF Passed
  <2>4. \A key : Filling(key)' <=> Filling(key)
    BY <2>1 DEF Filling
  <2>. QED
    BY <2>1, <2>2, <2>3, <2>4, ContentStays DEF ContentSound
<1>. QED
  BY <1>1, <1>2, <1>3, <1>4, <1>5, <1>6 DEF Next, Load, Setup, Walk, OffTheWalk

-----------------------------------------------------------------------------
(***************************************************************************)
(* What the walk has passed is fit for the code.                           *)
(***************************************************************************)
\* The steps that stay at one pair of the document.
StaysAtTop == EnterModepid \/ EnterMode \/ LeaveMode \/ PutModePid \/ ParseName \/ ParseScalar
                \/ ParseExpr \/ LeaveDesc \/ LeaveDoc \/ ParseEnd \/ XhTrim

LEMMA TopStays ==
  ASSUME IInv, StaysAtTop
  PROVE  /\ document' = document /\ at'.doc = at.doc /\ ctx' = ctx
         /\ OnTheWalk' => OnTheWalk
         /\ OnTheWalk' /\ pc \in Walks /\ pc' \notin Walks => at.doc > Len(document)
<1>1. CASE EnterModepid \/ EnterMode \/ LeaveMode \/ LeaveDesc
  <2>1. pc \in Walks /\ pc' \in Walks
    BY <1>1 DEF EnterModepid, AtTop, EnterMode, LeaveMode, LeaveDesc, Walks
  <2>2. UNCHANGED << document, ctx >> /\ at'.doc = at.doc
    BY <1>1 DEF EnterModepid, EnterMode, LeaveMode, LeaveDesc, IInv, AtSound
  <2>. QED
    BY <2>1, <2>2 DEF OnTheWalk
<1>2. CASE PutModePid
  <2>1. pc \in Walks /\ (pc' \in Walks \/ (pc' = "parse_end" /\ err' = "YOBD_OOM"))
    BY <1>2 DEF PutModePid, Unwind, Walks
  <2>2. UNCHANGED << document, ctx >> /\ (at' = at \/ at' = [at EXCEPT !.fields = 1])
    BY <1>2 DEF PutModePid
  <2>3. at'.doc = at.doc
    BY <2>2 DEF IInv, AtSound
  <2>. QED
    BY <2>1, <2>2, <2>3 DEF OnTheWalk, Walks
<1>3. CASE ParseName \/ ParseScalar \/ ParseExpr
  <2>1. pc \in Walks /\ ctx' = ctx /\ document' = document
    BY <1>3 DEF ParseName, ParseScalar, ParseExpr, AtField, InDesc, Walks, NextField, walk
  <2>2. \/ pc' = pc /\ at' = [at EXCEPT !.fields = @ + 1]
        \/ pc' = "parse_end" /\ err' = "YOBD_OOM" /\ at' = at
    BY <1>3 DEF ParseName, ParseScalar, ParseExpr, NextField, Unwind, walk
  <2>3. at'.doc = at.doc
    BY <2>2 DEF IInv, AtSound
  <2>. QED
    BY <2>1, <2>2, <2>3 DEF OnTheWalk, Walks
<1>4. CASE LeaveDoc
  BY <1>4 DEF LeaveDoc, walk, OnTheWalk, Walks
<1>5. CASE ParseEnd \/ XhTrim
  BY <1>5 DEF ParseEnd, XhTrim, walk, OnTheWalk, Walks
<1>. QED
  BY <1>1, <1>2, <1>3, <1>4, <1>5 DEF StaysAtTop

\* The loop of parse_doc() moves on.
LEMMA TopMoves ==
  ASSUME IInv, TopSound, ParseEndian \/ LeaveModepid
  PROVE  TopSound'
<1>1. PICK n : n = at.doc
  OBVIOUS
<1>2. /\ n \in 1..Len(document) /\ n \in Nat \ {0} /\ Len(document) \in Nat
      /\ pc \in Walks /\ pc' \in Walks /\ document' = document /\ at'.doc = n + 1
  <2>1. CASE ParseEndian
    <3>1. pc = "parse_doc" /\ pc' = pc /\ n <= Len(document)
      BY <1>1, <2>1 DEF ParseEndian, AtTop
    <3>2. document' = document /\ at'.doc = n + 1
      BY <1>1, <2>1 DEF ParseEndian, IInv, AtSound
    <3>. QED
      BY <1>1, <3>1, <3>2, NodesOfTheWalk DEF Walks
  <2>2. CASE LeaveModepid
    <3>1. pc = "parse_modepid" /\ pc' = "parse_doc" /\ document' = document /\ at'.doc = n + 1
      BY <1>1, <2>2 DEF LeaveModepid, IInv, AtSound
    <3>. QED
      BY <1>1, <3>1, NodesOfTheWalk DEF Walks
  <2>. QED
    BY <2>1, <2>2
<1>3. TopFits(Key(document[n]), Val(document[n]))
  BY <1>1, <1>2, NodesOfTheWalk DEF ParseEndian, AtTop, LeaveModepid, TopFits, Walks
<1>4. \A k \in 1..Len(document) : k < n + 1 => k < n \/ k = n
  BY <1>2
<1>5. PICK top : top \in Nat /\ top + 1 = n /\ top = n - 1
  BY <1>2
<1>6. CASE ParseEndian
  <2>1. Key(document[n]) = "endian" /\ ctx' = [ctx EXCEPT !.big_endian = (Val(document[n]) = "big")]
    BY <1>1, <1>6 DEF ParseEndian, AtTop
  <2>2. ctx'.big_endian = (Val(document[n]) = "big")
    BY <2>1 DEF IInv, MapSound
  <2>3. LastUpTo(document, "endian", n, n)
    BY <1>2, <1>5, <2>1, LastMoves
  <2>4. (n + 1) - 1 = n
    BY <1>2
  <2>. QED
    BY <1>1, <1>2, <1>3, <1>4, <2>2, <2>3, <2>4 DEF TopSound, OnTheWalk
<1>7. CASE LeaveModepid
  <2>1. Key(document[n]) = "modepid" /\ ctx' = ctx
    BY <1>1, <1>7, NodesOfTheWalk DEF LeaveModepid, Walks
  <2>2. \A k : LastUpTo(document, "endian", k, top) => LastUpTo(document, "endian", k, n)
    BY <1>2, <1>5, <2>1, LastMoves
  <2>3. (n + 1) - 1 = n
    BY <1>2
  <2>. QED
    BY <1>1, <1>2, <1>3, <1>4, <1>5, <2>1, <2>2, <2>3 DEF TopSound, OnTheWalk
<1>. QED
  BY <1>6, <1>7

LEMMA NextTop == IInv /\ TopSound /\ [Next]_vars => TopSound'
<1>. SUFFICES ASSUME IInv, TopSound, [Next]_vars PROVE TopSound'
  OBVIOUS
<1>1. CASE ParseEndian \/ LeaveModepid
  BY <1>1, TopMoves
<1>2. CASE StaysAtTop
  BY <1>2, TopStays DEF TopSound
<1>3. CASE LoadDocument
  <2>1. pc' = "parse_doc" \/ pc' = "xassert"
    BY <1>3 DEF LoadDocument
  <2>2. CASE pc' = "parse_doc"
    <3>1. document' = document /\ at'.doc = 1 /\ Len(document) \in Nat
      BY <1>3, <2>2, DocumentsAssumption DEF LoadDocument, Start, IInv, AtSound
    <3>. QED
      BY <2>2, <3>1 DEF TopSound, Walks
  <2>3. CASE pc' = "xassert"
    BY <2>3 DEF TopSound, OnTheWalk, Walks
  <2>. QED
    BY <2>1, <2>2, <2>3
<1>4. CASE OffTheWalk
  BY <1>4, OffIsOff DEF TopSound, OnTheWalk
<1>5. CASE Gone \/ UNCHANGED vars
  <2>1. UNCHANGED << pc, document, at, ctx, err >>
    BY <1>5 DEF Gone, vars, walk
  <2>. QED
    BY <2>1 DEF TopSound, OnTheWalk
<1>. QED
  BY <1>1, <1>2, <1>3, <1>4, <1>5 DEF Next, Load, Setup, Walk, OffTheWalk, StaysAtTop

\* The key of a description.
LEMMA NextKey == IInv /\ KeySound /\ [Next]_vars => KeySound'
<1>. SUFFICES ASSUME IInv, KeySound, [Next]_vars PROVE KeySound'
  OBVIOUS
<1>1. CASE EnterMode
  <2>1. /\ pc' = "parse_mode" /\ mode' = ToMode(Key(modes_node[at.modes])) /\ document' = document
        /\ at'.doc = at.doc /\ at'.modes = at.modes
    BY <1>1 DEF EnterMode, IInv, AtSound
  <2>2. modes_node' = modes_node
    BY <2>1 DEF modes_node
  <2>. QED
    BY <2>1, <2>2 DEF KeySound
<1>2. CASE PutModePid
  <2>1. PICK key : key = get_modepid(mode, Key(pids_node[at.pids]))
    OBVIOUS
  <2>2. /\ pc = "parse_mode" /\ UNCHANGED << document, mode >>
        /\ \/ pc' = "parse_end"
           \/ \E array : pid_ctx' = [array |-> array, key |-> key] /\ at' = [at EXCEPT !.fields = 1]
    BY <1>2, <2>1 DEF PutModePid, Unwind
  <2>3. CASE pc' # "parse_end"
    <3>1. /\ at'.doc = at.doc /\ at'.modes = at.modes /\ at'.pids = at.pids
          /\ pid_ctx'.key = key
      BY <2>2, <2>3 DEF IInv, AtSound
    <3>2. UNCHANGED << modes_node, pids_node >>
      BY <2>2, <3>1 DEF modes_node, pids_node
    <3>. QED
      BY <2>1, <2>2, <3>1, <3>2 DEF KeySound
  <2>4. CASE pc' = "parse_end"
    BY <2>4 DEF KeySound
  <2>. QED
    BY <2>3, <2>4
<1>3. CASE ParseName \/ ParseScalar \/ ParseExpr \/ LeaveDesc
  <2>1. pc = "parse_desc"
    BY <1>3 DEF ParseName, ParseScalar, ParseExpr, AtField, InDesc, LeaveDesc
  <2>2. \/ pc' = "parse_end"
        \/ NextField
        \/ /\ at' = [at EXCEPT !.pids = @ + 1] /\ pc' = "parse_mode"
           /\ UNCHANGED << document, mode, pid_ctx >>
    BY <1>3 DEF ParseName, ParseScalar, ParseExpr, Unwind, LeaveDesc
  <2>3. CASE NextField
    <3>1. /\ UNCHANGED << pc, document, mode, pid_ctx >>
          /\ at'.doc = at.doc /\ at'.modes = at.modes /\ at'.pids = at.pids
      BY <2>3 DEF NextField, IInv, AtSound
    <3>. QED
      BY <3>1 DEF KeySound, modes_node, pids_node
  <2>4. CASE /\ at' = [at EXCEPT !.pids = @ + 1] /\ pc' = "parse_mode"
             /\ UNCHANGED << document, mode, pid_ctx >>
    <3>1. at'.doc = at.doc /\ at'.modes = at.modes
      BY <2>4 DEF IInv, AtSound
    <3>. QED
      BY <2>1, <2>4, <3>1 DEF KeySound, modes_node
  <2>5. CASE pc' = "parse_end"
    BY <2>5 DEF KeySound
  <2>. QED
    BY <2>2, <2>3, <2>4, <2>5
<1>4. CASE ParseEndian \/ EnterModepid \/ LeaveModepid \/ LeaveMode \/ LoadDocument
  <2>1. pc' \notin {"parse_mode", "parse_desc"}
    BY <1>4 DEF ParseEndian, AtTop, EnterModepid, LeaveModepid, LeaveMode, LoadDocument
  <2>. QED
    BY <2>1 DEF KeySound
<1>5. CASE OffTheWalk \/ LeaveDoc \/ ParseEnd \/ XhTrim
  <2>1. pc' \notin {"parse_mode", "parse_desc"}
    BY <1>5, OffIsOff DEF LeaveDoc, Unwind, ParseEnd, XhTrim, Walks
  <2>. QED
    BY <2>1 DEF KeySound
<1>6. CASE Gone \/ UNCHANGED vars
  <2>1. UNCHANGED << pc, document, at, mode, pid_ctx >>
    BY <1>6 DEF Gone, vars, walk
  <2>. QED
    BY <2>1 DEF KeySound, modes_node, pids_node
<1>. QED
  BY <1>1, <1>2, <1>3, <1>4, <1>5, <1>6 DEF Next, Load, Setup, Walk, OffTheWalk

\* The byte count that parse_desc() asserts is that which the type allows.
LEMMA WidthIsFit ==
  ASSUME NEW entry, NEW desc, NEW lossy, Holds(entry, desc, lossy),
         TypeIn(desc) \in PidTypes, Scalar(desc, "bytes") \in 0..255
  PROVE  WidthFits(desc) <=> BytesFitType(entry)
<1>1. PICK type, bytes, nop :
        /\ type = TypeIn(desc) /\ bytes = Scalar(desc, "bytes") /\ bytes \in 0..255
        /\ nop \in BOOLEAN /\ nop = (FormulaIn(desc) = "nop")
  OBVIOUS
<1>2. Reads(entry, "bytes", bytes, lossy) /\ Reads(entry, "expr", Scalar(desc, "expr"), lossy)
  BY <1>1 DEF Holds, FieldKeys
<1>3. entry.can_bytes = bytes
  BY <1>1, <1>2 DEF Reads
<1>4. entry.pid_type = type /\ (entry.expr.type = "EXPR_NOP" <=> nop)
  BY <1>1, <1>2 DEF Reads, TypeIn, FormulaIn
<1>5. WidthFits(desc) <=> \/ type = "float" /\ (~nop \/ bytes = WidthOf["float"])
                          \/ type # "float" /\ bytes \in 1..WidthOf[type]
  BY <1>1 DEF WidthFits
<1>6. /\ WidthOf["int8"] = 1 /\ WidthOf["uint8"] = 1 /\ WidthOf["int16"] = 2
      /\ WidthOf["uint16"] = 2 /\ WidthOf["int32"] = 4 /\ WidthOf["uint32"] = 4
      /\ WidthOf["float"] = 4
  BY DEF WidthOf
<1>7. CASE type = "float"
  BY <1>3, <1>4, <1>5, <1>6, <1>7 DEF BytesFitType
<1>8. CASE type \in {"int8", "uint8"}
  <2>1. bytes \in 1..1 <=> bytes = 1
    BY <1>1
  <2>. QED
    BY <1>3, <1>4, <1>5, <1>6, <1>8, <2>1 DEF BytesFitType
<1>9. CASE type \in {"int16", "uint16"}
  BY <1>3, <1>4, <1>5, <1>6, <1>9 DEF BytesFitType
<1>10. CASE type \in {"int32", "uint32"}
  BY <1>3, <1>4, <1>5, <1>6, <1>10 DEF BytesFitType
<1>. QED
  BY <1>1, <1>7, <1>8, <1>9, <1>10 DEF PidTypes

\* The byte count of the description that parse_desc() is at.
LEMMA BytesOfTheWalk ==
  ASSUME IInv, DocumentsFit, pc = "parse_desc"
  PROVE  Scalar(fields_node, "bytes") \in 0..255
<1>1. PICK here : here = << at.doc, at.modes, at.pids >>
  OBVIOUS
<1>2. here \in Places(document) /\ DescAt(document, here) = fields_node
  BY <1>1, HereIs
<1>3. document \in Documents
  BY DEF IInv, AtSound
<1>. QED
  BY <1>2, <1>3 DEF DocumentsFit

\* What parse_desc() has let pass is fit.
LEMMA DescFits ==
  ASSUME IInv, ReadSound, FitSound, LeaveDesc, DocumentsFit
  PROVE  DescriptionFits(fields_node) /\ Scalar(fields_node, "raw-unit") \in RawUnits
<1>1. /\ pc = "parse_desc" /\ at.fields > Len(fields_node) /\ BytesFitType(Entry) /\ OnTheWalk
      /\ Len(fields_node) \in Nat /\ at.fields \in Nat
  BY NodesOfTheWalk DEF LeaveDesc, DescriptionIsWhole, OnTheWalk, Walks
<1>2. /\ Holds(Entry, fields_node, Lossy)
      /\ \A key \in FieldKeys :
           \E n \in 1..Len(fields_node) :
             Key(fields_node[n]) = key /\ Val(fields_node[n]) = Scalar(fields_node, key)
  BY <1>1, DescIsRead
<1>3. \A n \in 1..Len(fields_node) : FieldFits(Key(fields_node[n]), Val(fields_node[n]))
  BY <1>1 DEF FitSound
<1>4. \A key \in FieldKeys : FieldFits(key, Scalar(fields_node, key))
  BY <1>2, <1>3
<1>5. TypeIn(fields_node) \in PidTypes /\ Scalar(fields_node, "raw-unit") \in RawUnits
  BY <1>4 DEF FieldKeys, FieldFits, ExprIsSound, TypeIn
<1>6. Scalar(fields_node, "bytes") \in 0..255
  BY <1>1, BytesOfTheWalk
<1>7. WidthFits(fields_node)
  BY <1>1, <1>2, <1>5, <1>6, WidthIsFit
<1>. QED
  BY <1>3, <1>5, <1>7 DEF DescriptionFits, AllFit

\* As long as no place is passed, and none is being read.
LEMMA FitStays ==
  ASSUME FitSound, OnTheWalk, UNCHANGED document,
         \A place \in Places(document) : Passed(place)' => Passed(place),
         pc' = "parse_desc" =>
           \A n \in 1..Len(fields_node') :
             n < at'.fields => FieldFits(Key(fields_node'[n]), Val(fields_node'[n]))
  PROVE  FitSound'
BY DEF FitSound

LEMMA FieldFit ==
  ASSUME IInv, FitSound, ParseName \/ ParseScalar \/ ParseExpr
  PROVE  FitSound'
<1>1. /\ pc = "parse_desc" /\ at.fields \in 1..Len(fields_node) /\ at.fields \in Nat
      /\ OnTheWalk /\ Len(fields_node) \in Nat
  <2>1. pc = "parse_desc" /\ at.fields <= Len(fields_node)
    BY DEF ParseName, ParseScalar, ParseExpr, AtField, InDesc
  <2>. QED
    BY <2>1, NodesOfTheWalk DEF DescriptionIsWhole, OnTheWalk, Walks
<1>2. FieldFits(Key(fields_node[at.fields]), Val(fields_node[at.fields]))
  BY DEF ParseName, ParseScalar, ParseExpr, AtField, FieldFits, field
<1>3. NextField \/ (pc' = "parse_end" /\ err' = "YOBD_OOM")
  BY DEF ParseName, ParseScalar, ParseExpr, Unwind
<1>4. CASE NextField
  <2>1. /\ UNCHANGED << pc, document >> /\ at'.fields = at.fields + 1
        /\ at'.doc = at.doc /\ at'.modes = at.modes /\ at'.pids = at.pids
    BY <1>4 DEF NextField, IInv, AtSound
  <2>2. fields_node' = fields_node
    BY <2>1 DEF fields_node, pids_node, modes_node
  <2>3. \A place \in Places(document) : Passed(place)' => Passed(place)
    BY <2>1 DEF Passed
  <2>4. \A n \in 1..Len(fields_node) : n < at.fields + 1 => n < at.fields \/ n = at.fields
    BY <1>1
  <2>. QED
    BY <1>1, <1>2, <2>1, <2>2, <2>3, <2>4, FitStays DEF FitSound
<1>5. CASE pc' = "parse_end" /\ err' = "YOBD_OOM"
  BY <1>5 DEF FitSound, OnTheWalk, Walks
<1>. QED
  BY <1>3, <1>4, <1>5

LEMMA NextFit == IInv /\ ReadSound /\ FitSound /\ DocumentsFit /\ [Next]_vars => FitSound'
<1>. SUFFICES ASSUME IInv, ReadSound, FitSound, DocumentsFit, [Next]_vars PROVE FitSound'
  OBVIOUS
<1>1. CASE ParseEndian \/ EnterModepid \/ EnterMode \/ LeaveModepid \/ LeaveMode
  <2>1. /\ pc \in Walks /\ pc' # "parse_desc" /\ document' = document
    BY <1>1 DEF ParseEndian, AtTop, EnterModepid, EnterMode, LeaveModepid, LeaveMode, Walks
  <2>2. \A place \in Places(document) : Passed(place)' <=> Passed(place)
    BY <1>1, MovePasses
  <2>. QED
    BY <2>1, <2>2, FitStays DEF OnTheWalk
<1>2. CASE ParseName \/ ParseScalar \/ ParseExpr
  BY <1>2, FieldFit
<1>3. CASE PutModePid
  <2>1. /\ pc = "parse_mode" /\ document' = document
        /\ \/ pc' = "parse_end" /\ err' = "YOBD_OOM"
           \/ pc' = "parse_desc" /\ at' = [at EXCEPT !.fields = 1]
    BY <1>3 DEF PutModePid, Unwind
  <2>2. CASE pc' = "parse_desc" /\ at' = [at EXCEPT !.fields = 1]
    <3>1. /\ at'.doc = at.doc /\ at'.modes = at.modes /\ at'.pids = at.pids /\ at'.fields = 1
      BY <2>2 DEF IInv, AtSound
    <3>2. \A place \in Places(document) : Passed(place)' => Passed(place)
      BY <2>1, <2>2, <3>1 DEF Passed, Walks
    <3>3. \A n \in 1..Len(fields_node') : ~(n < at'.fields)
      BY <3>1
    <3>. QED
      BY <2>1, <3>2, <3>3, FitStays DEF OnTheWalk, Walks
  <2>3. CASE pc' = "parse_end" /\ err' = "YOBD_OOM"
    BY <2>3 DEF FitSound, OnTheWalk, Walks
  <2>. QED
    BY <2>1, <2>2, <2>3
<1>4. CASE LeaveDesc
  <2>1. pc = "parse_desc" /\ pc' = "parse_mode" /\ document' = document /\ OnTheWalk
    BY <1>4 DEF LeaveDesc, OnTheWalk, Walks
  <2>2. PICK here : here = << at.doc, at.modes, at.pids >>
    OBVIOUS
  <2>3. /\ DescriptionFits(DescAt(document, here))
        /\ Scalar(DescAt(document, here), "raw-unit") \in RawUnits
    BY <1>4, <2>1, <2>2, HereIs, DescFits
  <2>4. \A place \in Places(document) : Passed(place)' => Passed(place) \/ place = here
    BY <1>4, <2>2, DescPasses
  <2>. QED
    BY <2>1, <2>3, <2>4 DEF FitSound
<1>5. CASE LeaveDoc \/ ParseEnd \/ XhTrim
  <2>1. /\ UNCHANGED << document, at >> /\ pc \in {"parse_doc", "parse_end", "xh_trim"}
        /\ pc' \in {"parse_end", "xh_trim", "loaded", "error"}
        /\ pc' # "error" /\ pc = "parse_end" => err = "YOBD_OK"
    BY <1>5 DEF LeaveDoc, ParseEnd, XhTrim, walk, Unwind
  <2>2. CASE pc' # "error"
    <3>1. OnTheWalk
      BY <2>1, <2>2 DEF OnTheWalk, Walks
    <3>2. \A place \in Places(document) : Passed(place)' => Passed(place)
      BY <2>1 DEF Passed, Walks
    <3>. QED
      BY <2>1, <3>1, <3>2, FitStays
  <2>3. CASE pc' = "error"
    BY <2>3 DEF FitSound, OnTheWalk, Walks
  <2>. QED
    BY <2>2, <2>3
<1>6. CASE LoadDocument
  <2>1. CASE pc' = "parse_doc"
    <3>1. \A place \in Places(document) : ~Passed(place)'
      BY <1>6, <2>1, NothingPassed
    <3>2. document' = document
      BY <1>6 DEF LoadDocument
    <3>. QED
      BY <2>1, <3>1, <3>2 DEF FitSound
  <2>2. CASE pc' = "xassert"
    BY <2>2 DEF FitSound, OnTheWalk, Walks
  <2>. QED
    BY <1>6, <2>1, <2>2 DEF LoadDocument
<1>7. CASE OffTheWalk
  BY <1>7, OffIsOff DEF FitSound, OnTheWalk
<1>8. CASE Gone \/ UNCHANGED vars
  <2>1. UNCHANGED << pc, document, at, err >>
    BY <1>8 DEF Gone, vars, walk
  <2>. QED
    BY <2>1 DEF FitSound, OnTheWalk, Passed, fields_node, pids_node, modes_node
<1>. QED
  BY <1>1, <1>2, <1>3, <1>4, <1>5, <1>6, <1>7, <1>8 DEF Next, Load, Setup, Walk, OffTheWalk

-----------------------------------------------------------------------------
(***************************************************************************)
(* The invariant.                                                          *)
(***************************************************************************)
LEMMA NextErr == ErrSound /\ [Next]_vars => ErrSound'
<1>. SUFFICES ASSUME ErrSound, [Next]_vars PROVE ErrSound'
  OBVIOUS
<1>1. CASE Refuse \/ Open \/ Setup
  BY <1>1 DEF Refuse, Open, Setup, MallocCtx, XhInit, InitParser, LoadDocument, ErrSound
<1>2. CASE ParseEndian \/ EnterModepid \/ EnterMode \/ LeaveModepid \/ LeaveMode \/ LeaveDesc
  BY <1>2 DEF ParseEndian, AtTop, EnterModepid, EnterMode, LeaveModepid, LeaveMode, LeaveDesc, ErrSound
<1>3. CASE PutModePid \/ ParseName \/ ParseScalar \/ ParseExpr
  <2>1. \/ pc' \in {"parse_mode", "parse_desc"}
        \/ pc' = "parse_end" /\ err' = "YOBD_OOM"
    BY <1>3 DEF PutModePid, ParseName, ParseScalar, ParseExpr, AtField, InDesc, NextField, Unwind
  <2>. QED
    BY <2>1 DEF ErrSound
<1>4. CASE StopAtDocument \/ LeaveDoc \/ ParseEnd
  BY <1>4 DEF StopAtDocument, Stop, LeaveDoc, Unwind, ParseEnd, ErrSound
<1>5. CASE XhTrim \/ DestroyMap \/ FreeCtx
  BY <1>5 DEF XhTrim, DestroyMap, FreeCtx, ErrSound
<1>6. CASE Gone \/ UNCHANGED vars
  BY <1>6 DEF Gone, vars, ErrSound
<1>. QED
  BY <1>1, <1>2, <1>3, <1>4, <1>5, <1>6 DEF Next, Load, Setup, Walk

LEMMA InitRInv == Init => RInv
BY DEF Init, RInv, ReadSound, KeySound, ContentSound, TopSound, FitSound, ErrSound, OnTheWalk, Walks

LEMMA NextRInv == IInv /\ RInv /\ DocumentsFit /\ [Next]_vars => RInv'
BY NextReads, NextKey, NextContent, NextTop, NextFit, NextErr DEF RInv

-----------------------------------------------------------------------------
(***************************************************************************)
(* What is loaded is what the document says.                               *)
(***************************************************************************)
\* A key gets its mode and its PID across.
LEMMA PlaceHasName ==
  ASSUME DocumentsFit, NEW doc \in Documents, NEW place \in Places(doc),
         NEW p, p = NameAt(doc, place)
  PROVE  /\ p \in Pids(doc) /\ p = << p[1], p[2] >>
         /\ p[1] = ModeAt(doc, place) /\ p[2] = PidAt(doc, place)
         /\ p[1] \in 0..255 /\ p[2] \in 0..(HALF - 1)
         /\ ToMode(p[1]) = p[1] /\ get_modepid(p[1], p[2]) = p
<1>1. p \in Pids(doc)
  BY DEF Pids
<1>2. p = << p[1], p[2] >> /\ p[1] = ModeAt(doc, place) /\ p[2] = PidAt(doc, place)
  BY DEF NameAt
<1>3. p[1] \in 0..255 /\ p[2] \in 0..(HALF - 1)
  BY <1>1 DEF DocumentsFit, FitsTheKeys
<1>4. ToMode(p[1]) = p[1]
  BY <1>3 DEF ToMode
<1>5. get_modepid(p[1], p[2]) = p
  BY <1>2, <1>3, KeyIsPair
<1>. QED
  BY <1>1, <1>2, <1>3, <1>4, <1>5

\* There is one last place.
LEMMA LastPlaceIs ==
  ASSUME NEW doc \in Documents, NEW place \in Places(doc), NEW p, NameAt(doc, place) = p,
         \A other \in Places(doc) \ {place} : NameAt(doc, other) = p => Before(other, place)
  PROVE  LastPlace(doc, p) = place
<1>. DEFINE places  == {x \in Places(doc) : NameAt(doc, x) = p}
            Last(x) == \A other \in places \ {x} : Before(other, x)
<1>1. place \in places /\ Last(place)
  OBVIOUS
<1>2. ASSUME NEW x \in places, Last(x), x # place PROVE FALSE
  <2>1. Before(place, x) /\ Before(x, place)
    BY <1>1, <1>2
  <2>2. /\ x[1] \in Nat /\ x[2] \in Nat /\ x[3] \in Nat
        /\ place[1] \in Nat /\ place[2] \in Nat /\ place[3] \in Nat
    BY <1>2, PlaceIs
  <2>. QED
    BY <2>1, <2>2, BeforeCases
<1>3. LastPlace(doc, p) = CHOOSE x \in places : Last(x)
  BY Zenon DEF LastPlace
<1>. HIDE DEF places, Last
<1>. QED
  BY <1>1, <1>2, <1>3

LEMMA LoadedIs ==
  ASSUME IInv, RInv, DocumentsFit, pc \in {"xh_trim", "loaded"}
  PROVE  /\ DOMAIN entries = Pids(document)
         /\ ctx.big_endian = SaysBigEndian(document)
         /\ \A p \in Pids(document) :
              /\ LastPlace(document, p) \in Places(document)
              /\ NameAt(document, LastPlace(document, p)) = p
              /\ Holds(entries[p], DescAt(document, LastPlace(document, p)), Lossy)
<1>1. /\ document \in Documents /\ Len(document) \in Nat /\ OnTheWalk /\ pc \notin Walks
      /\ at.doc > Len(document) /\ at.doc \in Nat
  <2>1. document \in Documents /\ OnTheWalk /\ pc \notin Walks /\ at.doc \in Nat
    BY DEF IInv, AtSound, OnTheWalk, Walks
  <2>2. at.doc > Len(document)
    BY <2>1 DEF RInv, TopSound
  <2>. QED
    BY <2>1, <2>2, DocumentsAssumption
<1>2. ASSUME NEW place \in Places(document)
      PROVE  Passed(place) /\ KeyOf(place) = NameAt(document, place)
  <2>1. Passed(place)
    <3>1. place[1] \in 1..Len(document)
      BY <1>1, PlaceIs
    <3>. QED
      BY <1>1, <3>1 DEF Passed
  <2>2. PICK p : p = NameAt(document, place)
    OBVIOUS
  <2>3. /\ p[1] = ModeAt(document, place) /\ p[2] = PidAt(document, place)
        /\ ToMode(p[1]) = p[1] /\ get_modepid(p[1], p[2]) = p
    BY <1>1, <2>2, PlaceHasName
  <2>. QED
    BY <2>1, <2>2, <2>3 DEF KeyOf
<1>3. ASSUME NEW key \in DOMAIN entries
      PROVE  /\ key \in Pids(document)
             /\ LastPlace(document, key) \in Places(document)
             /\ NameAt(document, LastPlace(document, key)) = key
             /\ Holds(entries[key], DescAt(document, LastPlace(document, key)), Lossy)
  <2>1. ~Filling(key)
    BY DEF Filling
  <2>2. PICK place \in Places(document) :
          LastPassed(key, place) /\ Holds(entries[key], DescAt(document, place), Lossy)
    BY <1>1, <2>1 DEF RInv, ContentSound
  <2>3. NameAt(document, place) = key
    BY <1>2, <2>2 DEF LastPassed
  <2>4. \A other \in Places(document) \ {place} :
          NameAt(document, other) = key => Before(other, place)
    BY <1>2, <2>2 DEF LastPassed
  <2>5. LastPlace(document, key) = place
    BY <1>1, <2>3, <2>4, LastPlaceIs
  <2>. QED
    BY <2>2, <2>3, <2>5 DEF Pids
<1>4. Pids(document) \subseteq DOMAIN entries
  BY <1>1, <1>2 DEF RInv, ContentSound, Pids
<1>5. ctx.big_endian = SaysBigEndian(document)
  <2>1. PICK n \in 1..Len(document) : Key(document[n]) = "endian"
    BY <1>1 DEF DocumentsFit, Keys
  <2>2. PICK k \in Nat : /\ LastUpTo(document, "endian", k, at.doc - 1)
                         /\ ctx.big_endian = (Val(document[k]) = "big")
    BY <1>1, <2>1 DEF RInv, TopSound
  <2>3. at.doc - 1 \in Int /\ at.doc - 1 >= Len(document)
    BY <1>1
  <2>4. Scalar(document, "endian") = Val(document[k])
    BY <1>1, <2>2, <2>3, ScalarIsLast
  <2>. QED
    BY <2>2, <2>4 DEF SaysBigEndian
<1>. QED
  BY <1>3, <1>4, <1>5

\* A document that was walked to its end without an error is sound.
LEMMA LoadedIsSound ==
  ASSUME IInv, RInv, pc \in {"xh_trim", "loaded"}
  PROVE  /\ Sound(document)
         /\ \A place \in Places(document) : Scalar(DescAt(document, place), "raw-unit") \in RawUnits
<1>1. /\ document \in Documents /\ Len(document) \in Nat /\ OnTheWalk /\ pc \notin Walks
      /\ at.doc > Len(document) /\ at.doc \in Nat
  <2>1. document \in Documents /\ OnTheWalk /\ pc \notin Walks /\ at.doc \in Nat
    BY DEF IInv, AtSound, OnTheWalk, Walks
  <2>2. at.doc > Len(document)
    BY <2>1 DEF RInv, TopSound
  <2>. QED
    BY <2>1, <2>2, DocumentsAssumption
<1>2. \A n \in 1..Len(document) : TopFits(Key(document[n]), Val(document[n]))
  BY <1>1 DEF RInv, TopSound
<1>3. \A place \in Places(document) :
        /\ DescriptionFits(DescAt(document, place))
        /\ Scalar(DescAt(document, place), "raw-unit") \in RawUnits
  <2>1. \A place \in Places(document) : Passed(place)
    <3>1. \A place \in Places(document) : place[1] \in 1..Len(document)
      BY <1>1, PlaceIs
    <3>. QED
      BY <1>1, <3>1 DEF Passed
  <2>. QED
    BY <1>1, <2>1 DEF RInv, FitSound
<1>. QED
  BY <1>2, <1>3 DEF Sound, AllFit

\* What the API says of an entry that holds a description.
LEMMA SeenEntry ==
  ASSUME NEW entry, NEW desc, NEW lossy, Holds(entry, desc, lossy),
         Scalar(desc, "bytes") \in 0..255,
         NEW lost, lost = (FormulaIn(desc) # "nop" /\ entry.expr.data = NULL)
  PROVE  /\ Seen(entry) =
              [name    |-> Scalar(desc, "name"),
               bytes   |-> Scalar(desc, "bytes"),
               unit    |-> Scalar(desc, "si-unit"),
               convert |-> find_convert_func[Scalar(desc, "raw-unit")],
               type    |-> TypeIn(desc),
               formula |-> IF lost THEN "lost" ELSE FormulaIn(desc)]
         /\ lost => lossy
<1>1. \A key \in FieldKeys : Reads(entry, key, Scalar(desc, key), lossy)
  BY DEF Holds
<1>2. /\ entry.name[3] = Scalar(desc, "name")
      /\ entry.unit = Scalar(desc, "si-unit")
      /\ entry.convert_func = find_convert_func[Scalar(desc, "raw-unit")]
  BY <1>1 DEF Reads, FieldKeys
<1>3. entry.can_bytes = Scalar(desc, "bytes")
  BY <1>1 DEF Reads, FieldKeys
<1>4. /\ entry.pid_type = TypeIn(desc)
      /\ IF FormulaIn(desc) = "nop" THEN entry.expr.type = "EXPR_NOP"
         ELSE /\ entry.expr.type = "EXPR_STACK"
              /\ IF entry.expr.data = NULL THEN lossy ELSE entry.expr.data[3] = FormulaIn(desc)
  BY <1>1 DEF Reads, FieldKeys, TypeIn, FormulaIn
<1>5. (IF entry.expr.type = "EXPR_NOP" THEN "nop"
       ELSE IF entry.expr.data = NULL THEN "lost" ELSE entry.expr.data[3])
        = (IF lost THEN "lost" ELSE FormulaIn(desc))
  BY <1>4
<1>. QED
  BY <1>2, <1>3, <1>4, <1>5 DEF Seen

\* The walk over the map finds every PID once, and the lookup its entry.
LEMMA SeenPidsAre ==
  ASSUME IInv, RInv, DocumentsFit, pc \in {"xh_trim", "loaded"}
  PROVE  SeenPids = [p \in Pids(document) |-> Seen(entries[p])]
<1>1. document \in Documents /\ DOMAIN entries = Pids(document)
  BY LoadedIs DEF IInv, AtSound
<1>2. ASSUME NEW p \in Pids(document)
      PROVE  /\ p = << p[1], p[2] >> /\ get_mode(p) = p[1] /\ get_pid(p) = p[2]
             /\ get_modepid(p[1], p[2]) = p
  <2>1. PICK place \in Places(document) : p = NameAt(document, place)
    BY DEF Pids
  <2>. QED
    BY <1>1, <2>1, PlaceHasName DEF get_mode, get_pid
<1>3. {<< visit.mode, visit.pid >> : visit \in yobd_pid_foreach} = Pids(document)
  <2>1. ASSUME NEW visit \in yobd_pid_foreach PROVE << visit.mode, visit.pid >> \in Pids(document)
    BY <1>1, <1>2, <2>1 DEF yobd_pid_foreach
  <2>2. ASSUME NEW p \in Pids(document)
        PROVE  \E visit \in yobd_pid_foreach : p = << visit.mode, visit.pid >>
    <3>1. PICK visit : visit = [mode |-> get_mode(p), pid |-> get_pid(p), entry |-> entries[p]]
      OBVIOUS
    <3>2. visit \in yobd_pid_foreach
      BY <1>1, <3>1 DEF yobd_pid_foreach
    <3>3. visit.mode = p[1] /\ visit.pid = p[2]
      BY <1>2, <3>1
    <3>. QED
      BY <1>2, <3>2, <3>3
  <2>. QED
    BY <2>1, <2>2
<1>4. ASSUME NEW p \in Pids(document)
      PROVE  Seen(CHOOSE entry \in get_pid_ctx(p[1], p[2]) : TRUE) = Seen(entries[p])
  <2>1. get_pid_ctx(p[1], p[2]) = {entries[p]}
    BY <1>1, <1>2 DEF get_pid_ctx
  <2>2. (CHOOSE entry \in {entries[p]} : TRUE) = entries[p]
    OBVIOUS
  <2>. QED
    BY <2>1, <2>2
<1>5. SeenPids = [p \in {<< visit.mode, visit.pid >> : visit \in yobd_pid_foreach} |->
                    Seen(CHOOSE entry \in get_pid_ctx(p[1], p[2]) : TRUE)]
  BY Zenon DEF SeenPids
<1>. QED
  BY <1>3, <1>4, <1>5, Zenon

\* Some formulas may be lost, if an allocation has failed.
LEMMA LoadedContext ==
  ASSUME IInv, RInv, DocumentsFit, pc \in {"xh_trim", "loaded"}
  PROVE  \E lost \in SUBSET {p \in Pids(document) : Lossy /\ Description(document, p).formula # "nop"} :
           [big_endian |-> ctx.big_endian, pids |-> SeenPids, loaded |-> TRUE]
             = Abstract!ContextOf(document, lost)
<1>. DEFINE DescOf(p) == DescAt(document, LastPlace(document, p))
            lost == {p \in Pids(document) :
                       FormulaIn(DescOf(p)) # "nop" /\ entries[p].expr.data = NULL}
<1>1. document \in Documents
  BY DEF IInv, AtSound
<1>2. ASSUME NEW p \in Pids(document)
      PROVE  /\ Description(document, p) =
                  [name    |-> Scalar(DescOf(p), "name"),
                   bytes   |-> Scalar(DescOf(p), "bytes"),
                   unit    |-> Scalar(DescOf(p), "si-unit"),
                   convert |-> find_convert_func[Scalar(DescOf(p), "raw-unit")],
                   type    |-> TypeIn(DescOf(p)),
                   formula |-> FormulaIn(DescOf(p))]
             /\ Seen(entries[p]) =
                  IF p \in lost THEN [Description(document, p) EXCEPT !.formula = "lost"]
                                ELSE Description(document, p)
             /\ p \in lost => Lossy /\ Description(document, p).formula # "nop"
  <2>1. PICK desc : desc = DescOf(p)
    OBVIOUS
  <2>2. Holds(entries[p], desc, Lossy) /\ Scalar(desc, "bytes") \in 0..255
    BY <1>1, <2>1, LoadedIs DEF DocumentsFit
  <2>3. PICK gone : gone = (FormulaIn(desc) # "nop" /\ entries[p].expr.data = NULL)
    OBVIOUS
  <2>4. p \in lost <=> gone
    BY <2>1, <2>3
  <2>5. /\ Seen(entries[p]) =
              [name    |-> Scalar(desc, "name"),
               bytes   |-> Scalar(desc, "bytes"),
               unit    |-> Scalar(desc, "si-unit"),
               convert |-> find_convert_func[Scalar(desc, "raw-unit")],
               type    |-> TypeIn(desc),
               formula |-> IF gone THEN "lost" ELSE FormulaIn(desc)]
        /\ gone => Lossy
    BY <2>2, <2>3, SeenEntry
  <2>6. Description(document, p) =
          [name    |-> Scalar(desc, "name"),
           bytes   |-> Scalar(desc, "bytes"),
           unit    |-> Scalar(desc, "si-unit"),
           convert |-> find_convert_func[Scalar(desc, "raw-unit")],
           type    |-> TypeIn(desc),
           formula |-> FormulaIn(desc)]
    BY <2>1 DEF Description
  <2>. HIDE DEF lost, DescOf
  <2>7. [Description(document, p) EXCEPT !.formula = "lost"] =
          [name    |-> Scalar(desc, "name"),
           bytes   |-> Scalar(desc, "bytes"),
           unit    |-> Scalar(desc, "si-unit"),
           convert |-> find_convert_func[Scalar(desc, "raw-unit")],
           type    |-> TypeIn(desc),
           formula |-> "lost"]
    BY <2>6
  <2>8. Description(document, p).formula = FormulaIn(desc)
    BY <2>6
  <2>9. Seen(entries[p]) = IF p \in lost THEN [Description(document, p) EXCEPT !.formula = "lost"]
                                         ELSE Description(document, p)
    <3>1. CASE gone
      BY <2>4, <2>5, <2>7, <3>1
    <3>2. CASE ~gone
      BY <2>4, <2>5, <2>6, <3>2
    <3>. QED
      BY <3>1, <3>2
  <2>10. p \in lost => Lossy /\ Description(document, p).formula # "nop"
    BY <2>3, <2>4, <2>5, <2>8
  <2>. QED
    BY <2>1, <2>6, <2>9, <2>10
<1>3. ctx.big_endian = SaysBigEndian(document)
  BY LoadedIs
<1>. HIDE DEF lost, DescOf
<1>4. SeenPids = [p \in Pids(document) |->
                    IF p \in lost THEN [Description(document, p) EXCEPT !.formula = "lost"]
                                  ELSE Description(document, p)]
  BY <1>2, SeenPidsAre
<1>5. [big_endian |-> ctx.big_endian, pids |-> SeenPids, loaded |-> TRUE]
        = Abstract!ContextOf(document, lost)
  BY <1>3, <1>4 DEF Abstract!ContextOf, Abstract!Lost
<1>6. lost \in SUBSET {p \in Pids(document) : Lossy /\ Description(document, p).formula # "nop"}
  <2>1. lost \subseteq Pids(document)
    BY DEF lost
  <2>. QED
    BY <1>2, <2>1
<1>. QED
  BY <1>5, <1>6

-----------------------------------------------------------------------------
(***************************************************************************)
(* The loader keeps the promise of SchemaSpec: each step maps to a step or *)
(* a stutter.                                                              *)
(***************************************************************************)
NoneYet == [big_endian |-> FALSE, pids |-> << >>, loaded |-> FALSE]

\* What an application sees in each place of the program.
LEMMA SeenAt ==
  /\ pc # "loaded" => context = NoneYet
  /\ pc = "loaded" => /\ context = [big_endian |-> ctx.big_endian, pids |-> SeenPids, loaded |-> TRUE]
                      /\ context # NoneYet
  /\ pc \in {"idle", "loaded"} => reply = err
  /\ pc \in {"xassert", "undefined"} => reply = "stopped"
  /\ pc \notin {"idle", "loaded", "xassert", "undefined"} => reply = "pending"
BY DEF context, reply, NoneYet

LEMMA SeenAtNext ==
  /\ pc' # "loaded" => context' = NoneYet
  /\ pc' = "loaded" => context' = [big_endian |-> ctx'.big_endian, pids |-> SeenPids', loaded |-> TRUE]
  /\ pc' \in {"idle", "loaded"} => reply' = err'
  /\ pc' \in {"xassert", "undefined"} => reply' = "stopped"
  /\ pc' \notin {"idle", "loaded", "xassert", "undefined"} => reply' = "pending"
BY DEF context, reply, NoneYet

\* Where a load is under way.
Loading == pc \notin {"idle", "loaded", "xassert", "undefined"}

\* A step of a load is not seen, unless an operation of the system fails.
LEMMA StepIsHidden ==
  ASSUME Loading, Loading', document' = document, failed' = failed \/ failed' # {}
  PROVE  [Abstract!Next]_<< document, context, reply, failed # {} >>
<1>1. UNCHANGED << document, context, reply >> /\ reply = "pending"
  BY SeenAt, SeenAtNext DEF Loading
<1>2. CASE failed' = failed
  BY <1>1, <1>2
<1>3. CASE failed' # {}
  <2>1. Abstract!Trouble
    BY <1>1, <1>3 DEF Abstract!Trouble, Abstract!Pending
  <2>. QED
    BY <2>1 DEF Abstract!Next
<1>. QED
  BY <1>2, <1>3

\* The process stops in a load.
LEMMA StopIsSeen ==
  ASSUME Loading, pc' \in {"xassert", "undefined"}, document' = document,
         failed' # {} \/ (~Sound(document) /\ failed' = failed)
  PROVE  Abstract!Stop
<1>1. UNCHANGED << document, context >> /\ reply = "pending" /\ reply' = "stopped"
  BY SeenAt, SeenAtNext DEF Loading
<1>. QED
  BY <1>1 DEF Abstract!Stop, Abstract!Pending

\* A load fails.
LEMMA FailIsSeen ==
  ASSUME Loading, pc' = "idle", err' = "YOBD_OOM", document' = document, failed' # {}
  PROVE  Abstract!Fail
<1>1. UNCHANGED << document, context >> /\ reply = "pending" /\ reply' = "YOBD_OOM"
  BY SeenAt, SeenAtNext DEF Loading
<1>. QED
  BY <1>1 DEF Abstract!Fail, Abstract!Pending

\* An assertion of the walk fails only for a document that is not sound.
LEMMA StopIsUnsound ==
  ASSUME IInv, RInv, DocumentsFit, StopAtDocument
  PROVE  ~Sound(document)
<1>. SUFFICES ASSUME Sound(document) PROVE FALSE
  OBVIOUS
<1>1. pc \in Walks
  BY DEF StopAtDocument, AtField, InDesc, Walks
<1>2. CASE pc = "parse_doc"
  <2>1. /\ at.doc <= Len(document)
        /\ \/ Key(document[at.doc]) \notin TopKeys
           \/ Key(document[at.doc]) = "endian" /\ Val(document[at.doc]) \notin {"big", "little"}
    BY <1>2 DEF StopAtDocument, AtTop, AtField, InDesc
  <2>2. at.doc \in 1..Len(document)
    BY <1>1, <2>1, NodesOfTheWalk
  <2>3. TopFits(Key(document[at.doc]), Val(document[at.doc]))
    BY <2>2 DEF Sound, AllFit
  <2>. QED
    BY <2>1, <2>3 DEF TopFits, TopKeys
<1>3. CASE pc # "parse_doc"
  <2>1. pc = "parse_desc"
    BY <1>3 DEF StopAtDocument, AtField, InDesc, AtTop
  <2>2. DescriptionFits(fields_node)
    <3>1. PICK here : here = << at.doc, at.modes, at.pids >>
      OBVIOUS
    <3>2. here \in Places(document) /\ DescAt(document, here) = fields_node
      BY <2>1, <3>1, HereIs
    <3>. QED
      BY <3>2 DEF Sound
  <2>3. Len(fields_node) \in Nat /\ at.fields \in Nat \ {0}
    BY <1>1, <2>1, NodesOfTheWalk DEF DescriptionIsWhole
  <2>4. CASE at.fields <= Len(fields_node)
    <3>1. FieldFits(Key(fields_node[at.fields]), field)
      BY <2>2, <2>3, <2>4 DEF DescriptionFits, AllFit, field
    <3>2. \/ Key(fields_node[at.fields]) \notin FieldKeys
          \/ Key(fields_node[at.fields]) = "raw-unit" /\ field \notin RawUnits
          \/ Key(fields_node[at.fields]) = "si-unit" /\ field \notin SiUnits
          \/ Key(fields_node[at.fields]) = "expr" /\ ~ExprIsSound(field)
      BY <1>3, <2>3, <2>4 DEF StopAtDocument, AtField, InDesc
    <3>. QED
      BY <3>1, <3>2 DEF FieldFits, FieldKeys
  <2>5. CASE at.fields > Len(fields_node)
    <3>1. ~BytesFitType(Entry)
      BY <1>3, <2>3, <2>5 DEF StopAtDocument, AtField, InDesc
    <3>2. /\ Holds(Entry, fields_node, Lossy)
          /\ \E n \in 1..Len(fields_node) :
               Key(fields_node[n]) = "expr" /\ Val(fields_node[n]) = Scalar(fields_node, "expr")
      BY <2>1, <2>5, DescIsRead DEF RInv, FieldKeys
    <3>3. TypeIn(fields_node) \in PidTypes
      BY <2>2, <3>2 DEF DescriptionFits, AllFit, FieldFits, ExprIsSound, TypeIn
    <3>4. Scalar(fields_node, "bytes") \in 0..255
      BY <2>1, BytesOfTheWalk
    <3>. QED
      BY <2>2, <3>1, <3>2, <3>3, <3>4, WidthIsFit DEF DescriptionFits
  <2>. QED
    BY <2>3, <2>4, <2>5
<1>. QED
  BY <1>2, <1>3

\* Before the walk.
LEMMA SetupIsSeen ==
  ASSUME IInv, RInv, Refuse \/ Open \/ Setup
  PROVE  [Abstract!Next]_<< document, context, reply, failed # {} >>
<1>1. CASE Refuse
  <2>1. /\ pc = "idle" /\ pc' = "idle" /\ document' = document /\ failed' # {}
        /\ err' \in {"YOBD_INVALID_PARAMETER", "YOBD_CANNOT_OPEN_FILE"}
        /\ err \notin {"pending", "stopped"}
    BY <1>1 DEF Refuse, walk, RInv, ErrSound
  <2>2. Abstract!Refuse
    BY <2>1, SeenAt, SeenAtNext DEF Abstract!Refuse, Abstract!MayCall, Abstract!NoContext, NoneYet
  <2>. QED
    BY <2>2 DEF Abstract!Next
<1>2. CASE Open
  <2>1. /\ pc = "idle" /\ pc' = "malloc" /\ document' \in Documents /\ failed' = {}
        /\ err \notin {"pending", "stopped"}
    BY <1>2 DEF Open, RInv, ErrSound
  <2>2. Abstract!Call
    BY <2>1, SeenAt, SeenAtNext DEF Abstract!Call, Abstract!MayCall, Abstract!NoContext, NoneYet
  <2>. QED
    BY <2>2 DEF Abstract!Next
<1>3. CASE Setup
  <2>1. /\ pc \in {"malloc", "xh_init", "yaml_parser_initialize", "yaml_parser_load"}
        /\ document' = document
        /\ \/ /\ pc' \in {"xh_init", "yaml_parser_initialize", "yaml_parser_load", "parse_doc", "error"}
              /\ failed' = failed \/ failed' # {}
           \/ pc' = "idle" /\ err' = "YOBD_OOM" /\ failed' # {}
           \/ pc' = "xassert" /\ failed' # {}
    BY <1>3 DEF Setup, MallocCtx, XhInit, InitParser, LoadDocument, walk, Fails
  <2>. QED
    BY <2>1, StepIsHidden, StopIsSeen, FailIsSeen DEF Loading, Abstract!Next
<1>. QED
  BY <1>1, <1>2, <1>3

LEMMA WalkIsSeen ==
  ASSUME IInv, RInv, DocumentsFit, Walk
  PROVE  [Abstract!Next]_<< document, context, reply, failed # {} >>
<1>1. CASE StopAtDocument
  <2>1. /\ pc \in Walks /\ pc' = "xassert" /\ document' = document /\ failed' = failed
    BY <1>1 DEF StopAtDocument, Stop, walk, AtField, InDesc, AtTop, Walks
  <2>2. ~Sound(document)
    BY <1>1, StopIsUnsound
  <2>. QED
    BY <2>1, <2>2, StopIsSeen DEF Loading, Walks, Abstract!Next
<1>2. CASE ParseEndian \/ EnterModepid \/ EnterMode \/ LeaveModepid \/ LeaveMode \/ LeaveDesc
  <2>1. pc \in Walks /\ pc' \in Walks /\ document' = document /\ failed' = failed
    BY <1>2 DEF ParseEndian, AtTop, EnterModepid, EnterMode, LeaveModepid, LeaveMode, LeaveDesc, Walks
  <2>. QED
    BY <2>1, StepIsHidden DEF Loading, Walks
<1>3. CASE PutModePid \/ ParseName \/ ParseScalar \/ ParseExpr \/ LeaveDoc
  <2>1. /\ pc \in Walks /\ pc' \in Walks \cup {"parse_end"} /\ document' = document
    BY <1>3 DEF PutModePid, ParseName, ParseScalar, ParseExpr, LeaveDoc, AtField, InDesc,
                NextField, Unwind, walk, Walks
  <2>2. failed' = failed \/ failed' # {}
    BY <1>3 DEF PutModePid, ParseName, ParseScalar, ParseExpr, LeaveDoc, Fails
  <2>. QED
    BY <2>1, <2>2, StepIsHidden DEF Loading, Walks
<1>. QED
  BY <1>1, <1>2, <1>3 DEF Walk

\* The end of the load.
LEMMA TrimIsSeen ==
  ASSUME IInv, RInv, DocumentsFit, XhTrim
  PROVE  [Abstract!Next]_<< document, context, reply, failed # {} >>
<1>1. pc = "xh_trim" /\ UNCHANGED << document, ctx >> /\ entries' = entries
  BY DEF XhTrim, walk, entries, IInv, EntriesSound
<1>2. CASE pc' = "loaded"
  <2>1. err' = err /\ failed' = failed /\ err = "YOBD_OK"
    BY <1>1, <1>2 DEF XhTrim, RInv, ErrSound
  <2>2. SeenPids' = SeenPids
    BY <1>1 DEF SeenPids, yobd_pid_foreach, get_pid_ctx
  <2>3. Sound(document)
    BY <1>1, LoadedIsSound
  <2>4. /\ context' = [big_endian |-> ctx.big_endian, pids |-> SeenPids, loaded |-> TRUE]
        /\ reply = "pending" /\ reply' = "YOBD_OK"
    BY <1>1, <1>2, <2>1, <2>2, SeenAt, SeenAtNext
  <2>5. \E lost \in SUBSET {p \in Pids(document) : Lossy /\ Description(document, p).formula # "nop"} :
          context' = Abstract!ContextOf(document, lost)
    BY <1>1, <2>4, LoadedContext
  <2>6. Abstract!Return
    BY <1>1, <2>1, <2>3, <2>4, <2>5 DEF Abstract!Return, Abstract!Pending, Lossy
  <2>. QED
    BY <2>6 DEF Abstract!Next
<1>3. CASE pc' # "loaded"
  <2>1. pc' = "error" /\ failed' # {}
    BY <1>3 DEF XhTrim, Fails
  <2>. QED
    BY <1>1, <2>1, StepIsHidden DEF Loading
<1>. QED
  BY <1>2, <1>3

LEMMA FreeIsSeen ==
  ASSUME IInv, RInv, FreeCtx
  PROVE  [Abstract!Next]_<< document, context, reply, failed # {} >>
<1>1. UNCHANGED << document, err, failed >> /\ pc \in {"loaded", "error_ctx"}
  BY DEF FreeCtx, walk
<1>2. CASE pc = "loaded"
  <2>1. pc' = "idle"
    BY <1>2, LoadedIsFreed DEF FreeCtx
  <2>2. context # NoneYet /\ context' = NoneYet /\ reply' = reply
    BY <1>1, <1>2, <2>1, SeenAt, SeenAtNext
  <2>3. Abstract!Free
    BY <1>1, <2>2 DEF Abstract!Free, Abstract!NoContext, NoneYet
  <2>. QED
    BY <2>3 DEF Abstract!Next
<1>3. CASE pc = "error_ctx"
  <2>1. failed # {} /\ err = "YOBD_OOM"
    BY <1>3 DEF IInv, TroubleSound, RInv, ErrSound
  <2>2. pc' = "idle" \/ pc' = "undefined"
    BY DEF FreeCtx
  <2>. QED
    BY <1>1, <1>3, <2>1, <2>2, FailIsSeen, StopIsSeen DEF Loading, Abstract!Next
<1>. QED
  BY <1>1, <1>2, <1>3

LEMMA NextIsSeen ==
  ASSUME IInv, RInv, DocumentsFit, [Next]_vars
  PROVE  [Abstract!Next]_<< document, context, reply, failed # {} >>
<1>1. CASE Refuse \/ Open \/ Setup
  BY <1>1, SetupIsSeen
<1>2. CASE Walk
  BY <1>2, WalkIsSeen
<1>3. CASE ParseEnd \/ DestroyMap
  <2>1. /\ pc \in {"parse_end", "error"} /\ pc' \in {"xh_trim", "error", "error_ctx"}
        /\ document' = document /\ failed' = failed
    BY <1>3 DEF ParseEnd, DestroyMap, walk
  <2>. QED
    BY <2>1, StepIsHidden DEF Loading
<1>4. CASE XhTrim
  BY <1>4, TrimIsSeen
<1>5. CASE FreeCtx
  BY <1>5, FreeIsSeen
<1>6. CASE Gone \/ UNCHANGED vars
  <2>1. UNCHANGED << pc, document, err, ctx, xhash, failed >>
    BY <1>6 DEF Gone, vars, walk
  <2>2. UNCHANGED << document, context, reply, failed # {} >>
    BY <2>1 DEF context, reply, SeenPids, yobd_pid_foreach, get_pid_ctx, entries
  <2>. QED
    BY <2>2
<1>. QED
  BY <1>1, <1>2, <1>3, <1>4, <1>5, <1>6 DEF Next, Load

\* For every set of documents that fit, in whatever order they name their
\* fields, modes and PIDs, however often they repeat them, and whatever
\* operations of the system fail: what a load returns, and what the API then
\* says of a context, is what SchemaSpec promises on the document as a whole.
THEOREM LoaderKeepsItsPromise == ASSUME DocumentsFit PROVE Spec => LoadsTheDocument
<1>1. Init => IInv /\ RInv /\ Abstract!Init
  <2>1. Init => Abstract!Init
    BY SeenAt DEF Init, Abstract!Init, Abstract!NoContext, NoneYet
  <2>. QED
    BY <2>1, InitIInv, InitRInv
<1>2. IInv /\ RInv /\ [Next]_vars => (IInv /\ RInv)'
  BY NextKeeps, NextRInv
<1>3. IInv /\ RInv /\ [Next]_vars => [Abstract!Next]_<< document, context, reply, failed # {} >>
  BY NextIsSeen
<1>. QED
  BY <1>1, <1>2, <1>3, PTL DEF Spec, LoadsTheDocument, Abstract!Spec

-----------------------------------------------------------------------------
(***************************************************************************)
(* What the validator has accepted.                                        *)
(***************************************************************************)
\* The unit tables of the loader have what the enumerations of schema.yaml have.
LEMMA UnitsAreKnown == RawUnitEnum \subseteq RawUnits /\ SiUnitEnum \subseteq SiUnits
BY DEF RawUnitEnum, RawUnits, SiUnitEnum, SiUnits

\* The description the walk is in is one that pid() has passed.
LEMMA DescriptionIsAccepted ==
  ASSUME IInv, pc = "parse_desc", Accepts(document), NothingTwice(document)
  PROVE  /\ pid(fields_node) /\ SaysOnce(fields_node) /\ Len(fields_node) \in Nat
         /\ \E place \in Places(document) : DescAt(document, place) = fields_node
<1>1. /\ at.doc \in 1..Len(document) /\ Key(document[at.doc]) = "modepid"
      /\ at.modes \in 1..Len(modes_node) /\ at.pids \in 1..Len(pids_node)
  BY DEF IInv, AtSound, Walks
<1>2. SaysOnce(document) /\ SaysOnce(modes_node) /\ SaysOnce(pids_node) /\ SaysOnce(fields_node)
  BY <1>1 DEF NothingTwice, modes_node, pids_node, fields_node
<1>3. Len(fields_node) \in Nat
  BY <1>1, DocumentsAssumption
     DEF DescriptionIsWhole, IInv, AtSound, fields_node, pids_node, modes_node
<1>4. modepid(modes_node)
  <2>1. Scalar(document, "modepid") = modes_node
    BY <1>1, <1>2, OnceIsScalar DEF modes_node
  <2>. QED
    BY <2>1 DEF Accepts
<1>5. pidmap(pids_node)
  <2>1. Key(modes_node[at.modes]) \in Keys(modes_node)
    BY <1>1 DEF Keys
  <2>2. Scalar(modes_node, Key(modes_node[at.modes])) = pids_node
    BY <1>1, <1>2, OnceIsScalar DEF pids_node
  <2>. QED
    BY <1>4, <2>1, <2>2 DEF modepid
<1>6. pid(fields_node)
  <2>1. Key(pids_node[at.pids]) \in Keys(pids_node)
    BY <1>1 DEF Keys
  <2>2. Scalar(pids_node, Key(pids_node[at.pids])) = fields_node
    BY <1>1, <1>2, OnceIsScalar DEF fields_node
  <2>. QED
    BY <1>5, <2>1, <2>2 DEF pidmap
<1>7. << at.doc, at.modes, at.pids >> \in Places(document)
  BY <1>1 DEF Places, modes_node, pids_node
<1>8. DescAt(document, << at.doc, at.modes, at.pids >>) = fields_node
  BY DEF DescAt, fields_node, pids_node, modes_node
<1>. QED
  BY <1>2, <1>3, <1>6, <1>7, <1>8

Gap(desc) == UnknownType(desc) \/ ForeignFormula(desc) \/ NarrowFormula(desc)

\* A description that parse_desc() has read to its end: the byte count is
\* refused only at a gap.
LEMMA ReadIsAccepted ==
  ASSUME IInv, ReadSound, pc = "parse_desc", at.fields > Len(fields_node),
         pid(fields_node), ~Gap(fields_node)
  PROVE  BytesFitType(Entry)
<1>1. Holds(Entry, fields_node, Lossy)
  BY DescIsRead
<1>2. PICK type, bytes, nop :
        /\ type = TypeIn(fields_node) /\ bytes = Scalar(fields_node, "bytes")
        /\ nop \in BOOLEAN /\ nop = (FormulaIn(fields_node) = "nop")
  OBVIOUS
<1>3. type \in PidTypes
  BY <1>2 DEF Gap, UnknownType
<1>4. bytes \in 1..4 /\ (nop => bytes \in NopBytes(type))
  BY <1>2 DEF pid, nop_bytes_check
<1>5. ~nop => WidthFits(fields_node)
  BY <1>2 DEF Gap, NarrowFormula
<1>6. nop => WidthFits(fields_node)
  <2>1. SUFFICES ASSUME nop
                 PROVE  \/ type = "float" /\ bytes = WidthOf["float"]
                        \/ type # "float" /\ bytes \in 1..WidthOf[type]
    BY <1>2 DEF WidthFits
  <2>2. /\ WidthOf["int8"] = 1 /\ WidthOf["uint8"] = 1 /\ WidthOf["int16"] = 2
        /\ WidthOf["uint16"] = 2 /\ WidthOf["int32"] = 4 /\ WidthOf["uint32"] = 4
        /\ WidthOf["float"] = 4
    BY DEF WidthOf
  <2>3. CASE type = "float" \/ type \in {"int8", "uint8"}
    BY <1>4, <2>1, <2>2, <2>3 DEF NopBytes
  <2>4. CASE type \in {"int16", "uint16", "int32", "uint32"}
    BY <1>4, <2>1, <2>2, <2>4 DEF NopBytes
  <2>. QED
    BY <1>3, <2>3, <2>4 DEF PidTypes
<1>7. type \in PidTypes /\ bytes \in 0..255
  BY <1>3, <1>4
<1>. QED
  BY <1>1, <1>2, <1>5, <1>6, <1>7, WidthIsFit

\* An assertion of the walk fails only at a gap.
LEMMA StopIsGap ==
  ASSUME IInv, ReadSound, StopAtDocument, Accepts(document), NothingTwice(document)
  PROVE  \E place \in Places(document) : Gap(DescAt(document, place))
<1>1. ASSUME pc = "parse_doc", at.doc <= Len(document)
      PROVE  /\ Key(document[at.doc]) \in TopKeys
             /\ Key(document[at.doc]) = "endian" => Val(document[at.doc]) \in {"big", "little"}
  <2>1. at.doc \in 1..Len(document)
    BY <1>1, DocumentsAssumption DEF IInv, AtSound, Walks
  <2>2. Key(document[at.doc]) \in TopKeys
    BY <2>1 DEF Accepts, HasKeys, Keys
  <2>3. Scalar(document, Key(document[at.doc])) = Val(document[at.doc])
    BY <2>1, OnceIsScalar DEF NothingTwice
  <2>. QED
    BY <2>2, <2>3 DEF Accepts
<1>2. pc = "parse_desc"
  BY <1>1 DEF StopAtDocument, AtTop, AtField, InDesc
<1>3. SUFFICES ASSUME ~Gap(fields_node) PROVE FALSE
  BY <1>2, DescriptionIsAccepted
<1>4. pid(fields_node) /\ SaysOnce(fields_node) /\ Len(fields_node) \in Nat
  BY <1>2, DescriptionIsAccepted
<1>5. ASSUME InDesc
      PROVE  /\ Key(fields_node[at.fields]) \in FieldKeys
             /\ Scalar(fields_node, Key(fields_node[at.fields])) = field
  <2>1. at.fields \in 1..Len(fields_node)
    BY <1>2, <1>4, <1>5 DEF InDesc, IInv, AtSound
  <2>2. Key(fields_node[at.fields]) \in FieldKeys
    BY <1>4, <2>1 DEF pid, HasKeys, Keys
  <2>. QED
    BY <1>4, <2>1, <2>2, OnceIsScalar DEF field
<1>6. AtField("raw-unit") => field \in RawUnits
  BY <1>4, <1>5, UnitsAreKnown DEF AtField, pid
<1>7. AtField("si-unit") => field \in SiUnits
  BY <1>4, <1>5, UnitsAreKnown DEF AtField, pid
<1>8. AtField("expr") => ExprIsSound(field)
  BY <1>3, <1>4, <1>5
     DEF AtField, pid, HasKeys, ExprIsSound, Gap, UnknownType, ForeignFormula, TypeIn, FormulaIn
<1>9. at.fields > Len(fields_node) => BytesFitType(Entry)
  BY <1>2, <1>3, <1>4, ReadIsAccepted
<1>. QED
  BY <1>2, <1>5, <1>6, <1>7, <1>8, <1>9 DEF StopAtDocument, AtTop

-----------------------------------------------------------------------------
(***************************************************************************)
(* The validator and the loader.                                           *)
(***************************************************************************)
LEMMA NextStopsAtGaps == IInv /\ ReadSound /\ StopsOnlyAtGaps /\ [Next]_vars => StopsOnlyAtGaps'
<1>. SUFFICES ASSUME IInv, ReadSound, StopsOnlyAtGaps, [Next]_vars, pc' = "xassert"
              PROVE  StopsOnlyAtGaps'
  BY DEF StopsOnlyAtGaps
<1>1. CASE StopAtDocument
  <2>1. document' = document
    BY <1>1 DEF StopAtDocument, Stop, walk
  <2>2. Accepts(document) /\ NothingTwice(document) =>
          \E place \in Places(document) : Gap(DescAt(document, place))
    BY <1>1, StopIsGap
  <2>. QED
    BY <2>1, <2>2 DEF StopsOnlyAtGaps, Gap
<1>2. CASE XhInit \/ LoadDocument
  <2>1. failed' \cap Asserted # {}
    BY <1>2 DEF XhInit, LoadDocument, Fails, Asserted
  <2>. QED
    BY <2>1 DEF StopsOnlyAtGaps, Asserted
<1>3. CASE Gone \/ UNCHANGED vars
  BY <1>3 DEF Gone, vars, walk, StopsOnlyAtGaps
<1>4. ~(Refuse \/ Open \/ MallocCtx \/ InitParser)
  BY DEF Refuse, Open, MallocCtx, InitParser
<1>5. ~(ParseEndian \/ EnterModepid \/ EnterMode \/ LeaveModepid \/ LeaveMode \/ LeaveDesc)
  BY DEF ParseEndian, AtTop, EnterModepid, EnterMode, LeaveModepid, LeaveMode, LeaveDesc
<1>6. ~(PutModePid \/ ParseName \/ ParseScalar \/ ParseExpr)
  BY DEF PutModePid, ParseName, ParseScalar, ParseExpr, NextField, Unwind, AtField, InDesc
<1>7. ~(LeaveDoc \/ ParseEnd \/ XhTrim \/ DestroyMap \/ FreeCtx)
  BY DEF LeaveDoc, Unwind, ParseEnd, XhTrim, DestroyMap, FreeCtx
<1>. QED
  BY <1>1, <1>2, <1>3, <1>4, <1>5, <1>6, <1>7 DEF Next, Load, Setup, Walk

\* Whatever fails, and whatever the documents: an accepted document that says
\* nothing twice stops the loader only at a type of 64 bits, at an integer
\* formula over more bytes than its type has or at a formula that src/expr.c
\* does not know; other assertions of parser.c are out of its reach.
THEOREM AcceptedIsLoaded == Spec => []StopsOnlyAtGaps
<1>1. IInv /\ ReadSound /\ StopsOnlyAtGaps /\ [Next]_vars => (IInv /\ ReadSound /\ StopsOnlyAtGaps)'
  BY NextKeeps, NextReads, NextStopsAtGaps
<1>2. Init => IInv /\ ReadSound /\ StopsOnlyAtGaps
  BY InitIInv DEF Init, ReadSound, StopsOnlyAtGaps
<1>. QED
  BY <1>1, <1>2, PTL DEF Spec

-----------------------------------------------------------------------------
(***************************************************************************)
(* What an answer is read as.                                              *)
(***************************************************************************)
SiNames == {"K", "kg/s", "lat", "lng", "m", "m/s", "m/s^2", "ns", "Pa", "percent", "rad/s"}

\* A conversion without an offset, by a factor that is the unit's.
LEMMA ScaledIsSi ==
  ASSUME NEW func, NEW unit, NEW n \in Nat, NEW d \in Nat \ {0}, conversion(func) = Scaled(n, d),
         SameNumber(<< n, d >>, SiFactor[unit]), Zero(unit) = << 0, 1 >>
  PROVE  IsSi(func, unit)
<1>1. conversion(func)[1] = << n, d >> /\ conversion(func)[2] = << 0, 1 >>
  BY DEF Scaled
<1>2. convert(func, << 0, 1 >>) = << 0, d >>
  BY <1>1 DEF convert, plus, times
<1>3. SameNumber(<< 0, d >>, << 0, 1 >>)
  BY DEF SameNumber
<1>. QED
  BY <1>1, <1>2, <1>3 DEF IsSi

\* Each raw unit but nm is converted to the SI unit that it is so much of.
LEMMA UnitsAreSi == ASSUME NEW unit \in RawUnits \ {"nm"} PROVE IsSi(find_convert_func[unit], unit)
<1>. DEFINE func == find_convert_func[unit]
<1>1. CASE unit \in SiNames
  <2>1. func = "nop"
    BY <1>1, SMT DEF SiNames, find_convert_func
  <2>2. SiFactor[unit] = << 1, 1 >> /\ Zero(unit) = << 0, 1 >>
    BY <1>1, SMT DEF SiNames, SiFactor, Zero
  <2>3. conversion(func) = Scaled(1, 1)
    BY <2>1 DEF conversion
  <2>4. SameNumber(<< 1, 1 >>, << 1, 1 >>)
    BY DEF SameNumber
  <2>. QED
    BY <2>2, <2>3, <2>4, ScaledIsSi
<1>2. CASE unit = "celsius"
  <2>1. func = "celsius_to_k" /\ conversion(func) = << << 1, 1 >>, << 5463, 20 >> >>
    BY <1>2 DEF find_convert_func, conversion
  <2>2. SiFactor[unit] = << 1, 1 >> /\ Zero(unit) = << 27315, 100 >>
    BY <1>2 DEF SiFactor, Zero
  <2>3. convert(func, << 0, 1 >>) = << 5463, 20 >>
    BY <2>1 DEF convert, plus, times
  <2>4. SameNumber(<< 1, 1 >>, << 1, 1 >>) /\ SameNumber(<< 5463, 20 >>, << 27315, 100 >>)
    BY SMT DEF SameNumber
  <2>. QED
    BY <2>1, <2>2, <2>3, <2>4 DEF IsSi
<1>3. CASE unit = "km"
  <2>1. func = "km_to_m" /\ conversion(func) = Scaled(1000, 1)
    BY <1>3 DEF find_convert_func, conversion
  <2>2. SiFactor[unit] = << 1000, 1 >> /\ Zero(unit) = << 0, 1 >>
    BY <1>3 DEF SiFactor, Zero
  <2>3. SameNumber(<< 1000, 1 >>, << 1000, 1 >>)
    BY SMT DEF SameNumber
  <2>. QED
    BY <2>1, <2>2, <2>3, ScaledIsSi
<1>4. CASE unit = "kPa"
  <2>1. func = "kpa_to_pa" /\ conversion(func) = Scaled(1000, 1)
    BY <1>4 DEF find_convert_func, conversion
  <2>2. SiFactor[unit] = << 1000, 1 >> /\ Zero(unit) = << 0, 1 >>
    BY <1>4 DEF SiFactor, Zero
  <2>3. SameNumber(<< 1000, 1 >>, << 1000, 1 >>)
    BY SMT DEF SameNumber
  <2>. QED
    BY <2>1, <2>2, <2>3, ScaledIsSi
<1>5. CASE unit = "km/h"
  <2>1. func = "kmh_to_ms" /\ conversion(func) = Scaled(1000, 3600)
    BY <1>5 DEF find_convert_func, conversion
  <2>2. SiFactor[unit] = << 1000, 3600 >> /\ Zero(unit) = << 0, 1 >>
    BY <1>5 DEF SiFactor, Zero
  <2>3. SameNumber(<< 1000, 3600 >>, << 1000, 3600 >>)
    BY SMT DEF SameNumber
  <2>. QED
    BY <2>1, <2>2, <2>3, ScaledIsSi
<1>6. CASE unit = "rpm"
  <2>1. func = "rpm_to_rads" /\ conversion(func) = Scaled(355, 113 * 30)
    BY <1>6 DEF find_convert_func, conversion, PI_FRACTION
  <2>2. SiFactor[unit] = << 2 * 355 * 1, 1 * 113 * 60 >> /\ Zero(unit) = << 0, 1 >>
    BY <1>6 DEF SiFactor, Zero, Turn, times, PI_FRACTION
  <2>3. SameNumber(<< 355, 113 * 30 >>, << 2 * 355 * 1, 1 * 113 * 60 >>)
    BY SMT DEF SameNumber
  <2>. QED
    BY <2>1, <2>2, <2>3, ScaledIsSi
<1>7. CASE unit = "degree"
  <2>1. func = "degree_to_rad" /\ conversion(func) = Scaled(355, 113 * 180)
    BY <1>7 DEF find_convert_func, conversion, PI_FRACTION
  <2>2. SiFactor[unit] = << 2 * 355 * 1, 1 * 113 * 360 >> /\ Zero(unit) = << 0, 1 >>
    BY <1>7 DEF SiFactor, Zero, Turn, times, PI_FRACTION
  <2>3. SameNumber(<< 355, 113 * 180 >>, << 2 * 355 * 1, 1 * 113 * 360 >>)
    BY SMT DEF SameNumber
  <2>. QED
    BY <2>1, <2>2, <2>3, ScaledIsSi
<1>8. CASE unit = "g/s"
  <2>1. func = "gs_to_kgs" /\ conversion(func) = Scaled(1, 1000)
    BY <1>8 DEF find_convert_func, conversion
  <2>2. SiFactor[unit] = << 1, 1000 >> /\ Zero(unit) = << 0, 1 >>
    BY <1>8 DEF SiFactor, Zero
  <2>3. SameNumber(<< 1, 1000 >>, << 1, 1000 >>)
    BY SMT DEF SameNumber
  <2>. QED
    BY <2>1, <2>2, <2>3, ScaledIsSi
<1>9. CASE unit = "s"
  <2>1. func = "s_to_ns" /\ conversion(func) = Scaled(1000000000, 1)
    BY <1>9 DEF find_convert_func, conversion
  <2>2. SiFactor[unit] = << 1000000000, 1 >> /\ Zero(unit) = << 0, 1 >>
    BY <1>9 DEF SiFactor, Zero
  <2>3. SameNumber(<< 1000000000, 1 >>, << 1000000000, 1 >>)
    BY SMT DEF SameNumber
  <2>. QED
    BY <2>1, <2>2, <2>3, ScaledIsSi
<1>10. \/ unit \in SiNames
       \/ unit \in {"celsius", "km", "kPa", "km/h", "rpm", "degree", "g/s", "s"}
  BY DEF RawUnits, SiNames
<1>. QED
  BY <1>1, <1>2, <1>3, <1>4, <1>5, <1>6, <1>7, <1>8, <1>9, <1>10, Zenon

\* What the codec reads of an entry that holds a description.
LEMMA ReaderIs ==
  ASSUME IInv, RInv, DocumentsFit, pc = "loaded", NEW p \in Pids(document),
         NEW desc, desc = DescAt(document, LastPlace(document, p)),
         NEW known, known = reader_ctx.modepid_map[p]
  PROVE  /\ p \in DOMAIN reader_ctx.modepid_map
         /\ reader_ctx.big_endian = SaysBigEndian(document)
         /\ known.can_bytes = Scalar(desc, "bytes") /\ known.can_bytes \in 0..255
         /\ known.pid_type = TypeIn(desc)
         /\ IF FormulaIn(desc) = "nop" THEN known.expr.type = "EXPR_NOP"
            ELSE /\ known.expr.type = "EXPR_STACK"
                 /\ \/ known.expr.data = NoProgram /\ Lossy
                    \/ known.expr.data = << FormulaIn(desc) >>
         /\ known.convert = find_convert_func[Scalar(desc, "raw-unit")]
         /\ Scalar(desc, "raw-unit") \in RawUnits
         /\ WidthFits(desc)
<1>1. /\ p \in DOMAIN entries /\ ctx.big_endian = SaysBigEndian(document)
      /\ LastPlace(document, p) \in Places(document)
      /\ Holds(entries[p], desc, Lossy)
  BY LoadedIs
<1>2. /\ reader_ctx.big_endian = ctx.big_endian
      /\ DOMAIN reader_ctx.modepid_map = DOMAIN entries
      /\ known = [can_bytes |-> entries[p].can_bytes,
                  pid_type  |-> entries[p].pid_type,
                  expr      |-> Program(entries[p].expr),
                  convert   |-> entries[p].convert_func]
  <2>1. PICK map : map = [key \in DOMAIN entries |->
                            [can_bytes |-> entries[key].can_bytes,
                             pid_type  |-> entries[key].pid_type,
                             expr      |-> Program(entries[key].expr),
                             convert   |-> entries[key].convert_func]]
    OBVIOUS
  <2>2. reader_ctx = [big_endian |-> ctx.big_endian, modepid_map |-> map]
    BY <2>1, Zenon DEF reader_ctx
  <2>3. reader_ctx.big_endian = ctx.big_endian /\ reader_ctx.modepid_map = map
    BY <2>2
  <2>. QED
    BY <1>1, <2>1, <2>3
<1>3. Scalar(desc, "bytes") \in 0..255
  BY <1>1 DEF DocumentsFit, IInv, AtSound
<1>4. \A key \in FieldKeys : Reads(entries[p], key, Scalar(desc, key), Lossy)
  BY <1>1 DEF Holds
<1>5. entries[p].can_bytes = Scalar(desc, "bytes")
  BY <1>3, <1>4 DEF Reads, FieldKeys
<1>6. /\ entries[p].pid_type = TypeIn(desc)
      /\ entries[p].convert_func = find_convert_func[Scalar(desc, "raw-unit")]
  BY <1>4 DEF Reads, FieldKeys, TypeIn
<1>7. PICK expr : expr = entries[p].expr
  OBVIOUS
<1>8. IF FormulaIn(desc) = "nop" THEN expr.type = "EXPR_NOP"
      ELSE /\ expr.type = "EXPR_STACK"
           /\ IF expr.data = NULL THEN Lossy ELSE expr.data[3] = FormulaIn(desc)
  BY <1>4, <1>7 DEF Reads, FieldKeys, FormulaIn
<1>9. /\ known.expr.type = expr.type
      /\ known.expr.data = IF expr.data = NULL THEN NoProgram ELSE << expr.data[3] >>
  <2>1. known.expr = Program(expr)
    BY <1>2, <1>7
  <2>. QED
    BY <2>1 DEF Program
<1>10. Scalar(desc, "raw-unit") \in RawUnits /\ WidthFits(desc)
  BY <1>1, LoadedIsSound DEF Sound, DescriptionFits
<1>11. known.can_bytes = entries[p].can_bytes /\ known.pid_type = entries[p].pid_type
  BY <1>2
<1>12. known.convert = entries[p].convert_func
  BY <1>2
<1>. HIDE DEF reader_ctx, Lossy
<1>13. IF FormulaIn(desc) = "nop" THEN known.expr.type = "EXPR_NOP"
       ELSE /\ known.expr.type = "EXPR_STACK"
            /\ \/ known.expr.data = NoProgram /\ Lossy
               \/ known.expr.data = << FormulaIn(desc) >>
  BY <1>8, <1>9
<1>. QED
  BY <1>1, <1>2, <1>3, <1>5, <1>6, <1>10, <1>11, <1>12, <1>13

\* The frame of an answer.
LEMMA AnswerIs ==
  ASSUME NEW order, NEW m, NEW id \in 0..255, NEW payload \in Payloads,
         NEW sent, sent = make_can_response_noctx(order, m, id, payload, ZeroFrame)
  PROVE  /\ sent.err = "YOBD_OK"
         /\ sent.frame = [can_id |-> RESPONSE_BASE, can_dlc |-> OBD_II_DLC,
                          data |-> Response(order, m, id, payload)]
<1>1. PICK len : len = Len(payload) /\ len \in 1..4 /\ payload \in Seq(Byte)
  BY PayloadsAssumption
<1>2. PICK offset : offset = mode_data_offset(m) /\ offset \in 2..3
  BY DEF mode_data_offset
<1>3. ~(mode_data_offset(m) + 1 + Len(payload) > 8) /\ Len(payload) \in 1..5
  <2>1. offset \in Int /\ offset <= 3 /\ len \in Int /\ 1 <= len /\ len <= 4
    BY <1>1, <1>2
  <2>2. ~(offset + 1 + len > 8) /\ len \in 1..5
    BY ONLY <2>1
  <2>. QED
    BY <1>1, <1>2, <2>2, Zenon
<1>4. ~PidTooLarge(m, id)
  BY DEF PidTooLarge
<1>5. sent.err = "YOBD_OK"
  BY <1>3, <1>4 DEF make_can_response_noctx
<1>. QED
  BY <1>1, <1>5, ResponseIsWhole

\* What becomes of an answer, of the right length or not.
AnswerEnds(p, desc, payload, sent, read) ==
  \/ /\ ~Answerable(p[1])
     /\ sent.err = "YOBD_OK" /\ read.err = "YOBD_INVALID_MODE"
  \/ /\ Answerable(p[1]) /\ Len(payload) # Scalar(desc, "bytes")
     /\ read.err = "YOBD_INVALID_DATA_BYTES"
  \/ /\ Answerable(p[1]) /\ Len(payload) = Scalar(desc, "bytes")
     /\ ReadsAs(read, desc, payload)

\* The meaning by the map is the meaning by the document, but for the sign.
LEMMA MeaningIsValue ==
  ASSUME NEW desc, NEW payload, NEW known, known.pid_type = TypeIn(desc),
         known.can_bytes = Scalar(desc, "bytes"), WidthFits(desc),
         IF FormulaIn(desc) = "nop" THEN known.expr.type = "EXPR_NOP"
         ELSE known.expr.type = "EXPR_STACK" /\ known.expr.data = << FormulaIn(desc) >>
  PROVE  Meaning(SaysBigEndian(document), known, payload) =
           IF ReadUnsigned(desc, payload) THEN Unsigned(payload) ELSE ValueIn(desc, payload)
<1>. DEFINE number == Weighed(SaysBigEndian(document), payload)
<1>1. CASE FormulaIn(desc) # "nop"
  BY <1>1 DEF Meaning, ValueIn, ReadUnsigned
<1>2. CASE FormulaIn(desc) = "nop" /\ TypeIn(desc) = "float"
  <2>1. known.can_bytes = 4
    BY <1>2 DEF WidthFits, WidthOf
  <2>. QED
    BY <1>2, <2>1 DEF Meaning, ValueIn, ReadUnsigned, Negative
<1>3. CASE FormulaIn(desc) = "nop" /\ TypeIn(desc) # "float"
  <2>1. ~Negative(desc, payload) => ValueIn(desc, payload) = [num |-> number]
    BY <1>3 DEF ValueIn
  <2>2. Meaning(SaysBigEndian(document), known, payload) = [num |-> number]
    BY <1>3 DEF Meaning
  <2>3. Unsigned(payload) = [num |-> number]
    BY DEF Unsigned
  <2>. QED
    BY <1>3, <2>1, <2>2, <2>3 DEF ReadUnsigned
<1>. QED
  BY <1>1, <1>2, <1>3

LEMMA AnswerMeans ==
  ASSUME IInv, RInv, DocumentsFit, pc = "loaded", NEW p \in Pids(document), NEW payload \in Payloads,
         NEW desc, desc = DescAt(document, LastPlace(document, p)), ~Garbled(p, desc),
         NEW sent, sent = answer(p, payload),
         NEW read, read = parse_can_response(reader_ctx, sent.frame)
  PROVE  AnswerEnds(p, desc, payload, sent, read)
<1>1. PICK m, id, order, known :
        /\ m = p[1] /\ id = p[2] /\ order = SaysBigEndian(document)
        /\ known = reader_ctx.modepid_map[p]
  OBVIOUS
<1>2. /\ p = << m, id >> /\ m \in 0..255 /\ id \in 0..(HALF - 1) /\ ToMode(m) = m
  <2>1. PICK place \in Places(document) : p = NameAt(document, place)
    BY DEF Pids
  <2>2. document \in Documents
    BY DEF IInv, AtSound
  <2>. QED
    BY <1>1, <2>1, <2>2, PlaceHasName
<1>3. id \in 0..255
  <2>1. HALF \in Nat
    BY DEF HALF
  <2>2. ~(id > 255)
    BY <1>1 DEF Garbled
  <2>. QED
    BY <1>2, <2>1, <2>2
<1>4. /\ p \in DOMAIN reader_ctx.modepid_map /\ reader_ctx.big_endian = order
      /\ known.can_bytes = Scalar(desc, "bytes") /\ known.can_bytes \in 0..255
      /\ known.pid_type = TypeIn(desc)
      /\ IF FormulaIn(desc) = "nop" THEN known.expr.type = "EXPR_NOP"
         ELSE /\ known.expr.type = "EXPR_STACK"
              /\ \/ known.expr.data = NoProgram /\ Lossy
                 \/ known.expr.data = << FormulaIn(desc) >>
      /\ known.convert = find_convert_func[Scalar(desc, "raw-unit")]
      /\ Scalar(desc, "raw-unit") \in RawUnits /\ WidthFits(desc)
  BY <1>1, ReaderIs
<1>5. order \in BOOLEAN
  BY <1>1 DEF SaysBigEndian
<1>6. sent = make_can_response_noctx(order, m, id, payload, ZeroFrame)
  BY <1>1, <1>2, LoadedIs DEF answer
<1>7. /\ sent.err = "YOBD_OK"
      /\ sent.frame = [can_id |-> RESPONSE_BASE, can_dlc |-> OBD_II_DLC,
                       data |-> Response(order, m, id, payload)]
  BY <1>3, <1>6, AnswerIs
<1>8. payload \in Seq(Byte) /\ Len(payload) >= 1 /\ Len(payload) \in 1..4
  <2>1. PICK len : len = Len(payload) /\ len \in 1..4 /\ payload \in Seq(Byte)
    BY PayloadsAssumption
  <2>2. len >= 1
    BY ONLY <2>1
  <2>. QED
    BY <2>1, <2>2
<1>9. PICK head : IsReadAs(read, head, order, m, id, payload, known)
  <2>1. m \in Modes /\ id \in Byte
    BY <1>2, <1>3 DEF Modes, Byte
  <2>2. known.can_bytes \in Nat
    BY <1>4
  <2>3. << m, id >> \in DOMAIN reader_ctx.modepid_map /\ known = reader_ctx.modepid_map[<< m, id >>]
    BY <1>1, <1>2, <1>4
  <2>4. known.expr.type \in {"EXPR_NOP", "EXPR_STACK"}
    BY <1>4, Zenon
  <2>. QED
    BY <1>4, <1>5, <1>7, <1>8, <2>1, <2>2, <2>3, <2>4, AnswerIsRead
<1>10. Answerable(p[1]) <=> m \in 1..191
  BY <1>1 DEF Answerable
<1>11. CASE m \notin 1..191
  BY <1>7, <1>9, <1>10, <1>11 DEF IsReadAs, AnswerEnds
<1>12. CASE m \in 1..191 /\ Len(payload) # known.can_bytes
  BY <1>4, <1>9, <1>10, <1>12 DEF IsReadAs, AnswerEnds
<1>13. CASE m \in 1..191 /\ Len(payload) = known.can_bytes
  <2>1. read.err = Ending(known, payload)
    BY <1>9, <1>13 DEF IsReadAs
  <2>2. CASE read.err = "YOBD_OK"
    <3>1. ~Stops(known, payload)
      BY <2>1, <2>2 DEF Ending
    <3>2. FormulaIn(desc) # "nop" =>
            /\ known.expr.type = "EXPR_STACK" /\ known.expr.data = << FormulaIn(desc) >>
            /\ Evaluates(FormulaIn(desc), TypeIn(desc), Padded(payload))
      <4>1. SUFFICES ASSUME FormulaIn(desc) # "nop" PROVE
              /\ known.expr.type = "EXPR_STACK" /\ known.expr.data = << FormulaIn(desc) >>
              /\ Evaluates(FormulaIn(desc), TypeIn(desc), Padded(payload))
        OBVIOUS
      <4>2. /\ known.expr.type = "EXPR_STACK" /\ known.expr.data # NoProgram
            /\ Evaluates(known.expr.data[1], known.pid_type, Padded(payload))
        BY <1>4, <3>1, <4>1 DEF Stops
      <4>3. known.expr.data = << FormulaIn(desc) >>
        BY <1>4, <4>1, <4>2
      <4>4. known.expr.data[1] = FormulaIn(desc)
        BY <4>3
      <4>. QED
        BY <1>4, <4>2, <4>3, <4>4
    <3>3. ~Unevaluable(desc, payload)
      BY <3>2 DEF Unevaluable
    <3>4. read.convert = known.convert /\ read.val = Meaning(order, known, payload)
      BY <1>1, <1>4, <1>9, <2>2 DEF IsReadAs, Garbled
    <3>5. read.val = IF ReadUnsigned(desc, payload) THEN Unsigned(payload)
                                                    ELSE ValueIn(desc, payload)
      BY <1>1, <1>4, <3>2, <3>4, MeaningIsValue
    <3>6. IsSi(read.convert, Scalar(desc, "raw-unit")) \/ Misconverted(desc)
      BY <1>4, <3>4, UnitsAreSi DEF Misconverted
    <3>. QED
      BY <1>4, <1>10, <1>13, <2>2, <3>3, <3>5, <3>6 DEF AnswerEnds, ReadsAs
  <2>3. CASE read.err # "YOBD_OK"
    <3>1. /\ Stops(known, payload)
          /\ read.err = IF known.expr.data = NoProgram THEN "undefined" ELSE "xassert"
      BY <2>1, <2>3 DEF Ending
    <3>2. FormulaIn(desc) # "nop"
      BY <1>4, <3>1 DEF Stops
    <3>3. CASE known.expr.data = NoProgram
      <4>1. NoProgram # << FormulaIn(desc) >>
        BY DEF NoProgram
      <4>2. read.err = "undefined" /\ MayBeLost(desc)
        BY <1>4, <3>1, <3>2, <3>3, <4>1 DEF MayBeLost, Lossy
      <4>. QED
        BY <1>4, <1>10, <1>13, <4>2 DEF AnswerEnds, ReadsAs
    <3>4. CASE known.expr.data # NoProgram
      <4>1. known.expr.data[1] = FormulaIn(desc)
        BY <1>4, <3>2, <3>4
      <4>2. read.err = "xassert" /\ Unevaluable(desc, payload)
        BY <1>4, <3>1, <3>2, <3>4, <4>1 DEF Stops, Unevaluable
      <4>. QED
        BY <1>4, <1>10, <1>13, <4>2 DEF AnswerEnds, ReadsAs
    <3>. QED
      BY <3>3, <3>4
  <2>. QED
    BY <2>2, <2>3
<1>. QED
  BY <1>11, <1>12, <1>13

\* For every set of documents that fit and every payload of one to four
\* bytes, in either byte order and whatever has failed: an answer that is made
\* from a loaded context is read by it as what the document says of the PID.
\* What Garbled, ReadUnsigned, Misconverted, MayBeLost and Unevaluable name is
\* all that is excepted, and of a PID that was lost or cannot be evaluated it
\* is said how the reading ends.
THEOREM AnswersMean == ASSUME DocumentsFit PROVE Spec => []AnswersMeanTheDocument
<1>1. Init => IInv /\ RInv
  BY InitIInv, InitRInv
<1>2. IInv /\ RInv /\ [Next]_vars => (IInv /\ RInv)'
  BY NextKeeps, NextRInv
<1>3. IInv /\ RInv => AnswersMeanTheDocument
  <2>. SUFFICES ASSUME IInv, RInv, pc = "loaded", NEW p \in Pids(document), NEW payload \in Payloads,
                       NEW desc, desc = DescAt(document, LastPlace(document, p)), ~Garbled(p, desc),
                       NEW sent, sent = answer(p, payload),
                       NEW read, read = parse_can_response(reader_ctx, sent.frame)
                PROVE  AnswerEnds(p, desc, payload, sent, read)
    BY Zenon DEF AnswersMeanTheDocument, AnswerEnds
  <2>. QED
    BY AnswerMeans
<1>. QED
  BY <1>1, <1>2, <1>3, PTL DEF Spec
=============================================================================

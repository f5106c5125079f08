-------------------------- MODULE SchemaLoad_proofs --------------------------
(***************************************************************************)
(* Proofs about SchemaLoad, for every set of documents and whatever        *)
(* operations of the system fail: no loaded context has a dangling or a    *)
(* shared pointer, what is passed through can be read, a process is only   *)
(* lost to a failure that comes late, and what a load has acquired is      *)
(* freed in the end.                                                       *)
(***************************************************************************)
EXTENDS SchemaLoad, TLAPS

-----------------------------------------------------------------------------
(***************************************************************************)
(* The inductive invariant.                                                *)
(***************************************************************************)
Walks == {"parse_doc", "parse_modepid", "parse_mode", "parse_desc"}
Built == Walks \cup {"parse_end", "xh_trim", "loaded", "error"}

\* A block that has been handed out and not been freed; the heap and the number
\* of blocks are parameters h and s, so that a step's can be compared.
Live(block, kind, h, s) == block \in h /\ block[1] = kind /\ block[2] \in 1..s

\* The loops of the walk are where their nodes are.
AtSound ==
  /\ at \in [doc : Nat, modes : Nat, pids : Nat, fields : Nat]
  /\ pc # "idle" => document \in Documents
  /\ pc \in Walks \ {"parse_doc"} =>
       at.doc \in 1..Len(document) /\ Key(document[at.doc]) = "modepid"
  /\ pc \in Walks => at.doc >= 1
  /\ pc \in Walks \ {"parse_doc"} => at.modes >= 1
  /\ pc \in {"parse_mode", "parse_desc"} => at.modes <= Len(modes_node) /\ at.pids >= 1
  /\ pc = "parse_desc" => at.pids <= Len(pids_node) /\ at.fields >= 1

\* The map is there from its creation to its destruction, with its array.
MapSound ==
  /\ serial \in Nat
  /\ ctx = [big_endian |-> ctx.big_endian, modepid_map |-> ctx.modepid_map]
  /\ pc \in {"idle", "malloc", "xh_init", "yaml_parser_initialize", "yaml_parser_load"} =>
       xhash = NoMap
  /\ pc = "xh_init" => Only("ctx") \in heap
  /\ pc \in {"yaml_parser_initialize", "yaml_parser_load"} \cup Built =>
       /\ ctx.modepid_map = Only("map")
       /\ {Only("map"), Only("ctx")} \subseteq heap
  /\ pc \in Built => \/ xhash.vals = NULL /\ DOMAIN entries = {}
                     \/ Live(xhash.vals, "vals", heap, serial)
  /\ pc = "parse_desc" =>
       pid_ctx.key \in DOMAIN entries /\ pid_ctx.array = xhash.vals /\ Live(xhash.vals, "vals", heap, serial)

\* The fields of an entry, as SetEntry() changes them one by one.
IsEntry(entry) ==
  entry = [name |-> entry.name, can_bytes |-> entry.can_bytes, unit |-> entry.unit,
           convert_func |-> entry.convert_func, pid_type |-> entry.pid_type,
           expr |-> [type |-> entry.expr.type, data |-> entry.expr.data]]

NoBlock == {NULL, Junk}

PointersLive(entry, h, s) ==
  /\ entry.name \in NoBlock \/ Live(entry.name, "name", h, s)
  /\ entry.expr.data \in NoBlock \/ Live(entry.expr.data, "expr", h, s)
  /\ entry.expr.data # Junk => entry.pid_type \in PidTypes

Apart(entry, other) ==
  /\ entry.name = other.name => entry.name \in NoBlock
  /\ entry.expr.data = other.expr.data => entry.expr.data \in NoBlock

\* No two entries share a block.
EntriesSound ==
  /\ xhash = [vals |-> xhash.vals, entries |-> [key \in DOMAIN entries |-> entries[key]]]
  /\ \A key \in DOMAIN entries : IsEntry(entries[key]) /\ PointersLive(entries[key], heap, serial)
  /\ \A key, other \in DOMAIN entries : key # other => Apart(entries[key], entries[other])

PassFits(entry) ==
  entry.expr.type = "EXPR_NOP" =>
    entry.can_bytes \in (IF entry.pid_type = "float" THEN {4} ELSE 1..4)

Done(entry) == entry.name # Junk /\ entry.expr.data # Junk /\ PassFits(entry)

NotYet(name) == \A n \in 1..(at.fields - 1) : Key(fields_node[n]) # name

\* Only the entry that is being filled may have fields that were never set.
FilledSound ==
  /\ pc \in (Walks \ {"parse_desc"}) \cup {"xh_trim", "loaded"}
       \/ (pc = "parse_end" /\ err = "YOBD_OK") =>
         \A key \in DOMAIN entries : Done(entries[key])
  /\ pc = "parse_desc" =>
       /\ \A key \in DOMAIN entries \ {pid_ctx.key} : Done(entries[key])
       /\ Entry.name = Junk => NotYet("name")
       /\ Entry.expr.data = Junk => NotYet("expr")

Late == {"yaml_parser_initialize", "strdup", "xh_put", "xh_trim"}

\* After an error that is cleaned up, some operation has failed late.
TroubleSound ==
  /\ pc \in {"error", "error_ctx", "undefined"} \/ (pc = "parse_end" /\ err # "YOBD_OK") =>
       failed \cap Late # {}
  /\ pc = "error_ctx" => ctx.modepid_map \notin heap

IInv == AtSound /\ MapSound /\ EntriesSound /\ FilledSound /\ TroubleSound

-----------------------------------------------------------------------------
(***************************************************************************)
(* What keeps the entries sound.                                           *)
(***************************************************************************)
\* As long as no name and no expression is freed, the entries stay sound.
LEMMA EntriesKept ==
  ASSUME EntriesSound, serial \in Nat, serial' \in Nat, serial' >= serial,
         entries' = entries,
         xhash' = [vals |-> xhash'.vals, entries |-> entries],
         \A block \in heap : block[1] \in {"name", "expr"} => block \in heap'
  PROVE  EntriesSound'
<1>1. \A entry : PointersLive(entry, heap, serial) => PointersLive(entry, heap', serial')
  <2>1. \A block : Live(block, "name", heap, serial) => Live(block, "name", heap', serial')
    BY DEF Live
  <2>2. \A block : Live(block, "expr", heap, serial) => Live(block, "expr", heap', serial')
    BY DEF Live
  <2>. QED
    BY <2>1, <2>2 DEF PointersLive
<1>. QED
  BY <1>1 DEF EntriesSound, Apart, IsEntry, entries


\* A block that is the old one, or none, or one of this step.
OldOrNew(block, old, kind) ==
  \/ block = old \/ block = NULL
  \/ block \in heap' /\ block[1] = kind /\ block[2] = serial + 1 /\ serial' = serial + 1

\* An entry is filled with blocks that no other entry has.
LEMMA EntryFilled ==
  ASSUME NEW entry,
         EntriesSound, serial \in Nat, serial' \in Nat, serial' >= serial, heap \subseteq heap',
         pid_ctx.key \in DOMAIN entries,
         SetEntry(entry), IsEntry(entry),
         OldOrNew(entry.name, Entry.name, "name"),
         OldOrNew(entry.expr.data, Entry.expr.data, "expr"),
         entry.expr.data # Junk => entry.pid_type \in PidTypes
  PROVE  /\ EntriesSound'
         /\ entries' = [entries EXCEPT ![pid_ctx.key] = entry]
         /\ xhash'.vals = xhash.vals
<1>1. /\ xhash' = [vals |-> xhash.vals, entries |-> [entries EXCEPT ![pid_ctx.key] = entry]]
      /\ entries' = [entries EXCEPT ![pid_ctx.key] = entry]
      /\ DOMAIN entries' = DOMAIN entries
  BY DEF SetEntry, EntriesSound, entries
<1>2. \A block, kind : Live(block, kind, heap, serial) => Live(block, kind, heap', serial')
  BY DEF Live
<1>3. PointersLive(Entry, heap, serial)
  BY DEF EntriesSound, Entry
<1>4. PointersLive(entry, heap', serial')
  BY <1>2, <1>3 DEF PointersLive, OldOrNew, Live, NoBlock
<1>5. \A key \in DOMAIN entries \ {pid_ctx.key} :
        Apart(entry, entries[key]) /\ Apart(entries[key], entry)
  <2>1. TAKE key \in DOMAIN entries \ {pid_ctx.key}
  <2>2. PointersLive(entries[key], heap, serial)
    BY DEF EntriesSound
  <2>3. Apart(Entry, entries[key]) /\ Apart(entries[key], Entry)
    BY DEF EntriesSound, Entry
  <2>4. \A block : Live(block, "name", heap, serial) => block[2] # serial + 1
    BY DEF Live
  <2>5. \A block : Live(block, "expr", heap, serial) => block[2] # serial + 1
    BY DEF Live
  <2>6. entry.name = entries[key].name => entry.name \in NoBlock
    BY <2>2, <2>3, <2>4 DEF PointersLive, Apart, OldOrNew, NoBlock
  <2>7. entry.expr.data = entries[key].expr.data => entry.expr.data \in NoBlock
    BY <2>2, <2>3, <2>5 DEF PointersLive, Apart, OldOrNew, NoBlock
  <2>. QED
    BY <2>6, <2>7 DEF Apart
<1>6. \A key \in DOMAIN entries' : IsEntry(entries'[key]) /\ PointersLive(entries'[key], heap', serial')
  <2>1. \A key \in DOMAIN entries : PointersLive(entries[key], heap', serial')
    BY <1>2 DEF EntriesSound, PointersLive
  <2>. QED
    BY <1>1, <1>4, <2>1 DEF EntriesSound
<1>7. \A key, other \in DOMAIN entries' : key # other => Apart(entries'[key], entries'[other])
  BY <1>1, <1>5 DEF EntriesSound
<1>8. xhash' = [vals |-> xhash'.vals, entries |-> [key \in DOMAIN entries' |-> entries'[key]]]
  BY <1>1 DEF EntriesSound
<1>. QED
  BY <1>1, <1>6, <1>7, <1>8 DEF EntriesSound, entries

\* A key that is put leaves what was there as it was.
LEMMA EntryPut ==
  ASSUME NEW array, NEW key,
         EntriesSound, serial \in Nat, serial' \in Nat, serial' >= serial,
         \A block \in heap : block[1] \in {"name", "expr"} => block \in heap',
         xhash' = [vals |-> array,
                   entries |-> [k \in DOMAIN entries \cup {key} |->
                                  IF k \in DOMAIN entries THEN entries[k] ELSE JunkEntry]]
  PROVE  EntriesSound'
<1>1. /\ entries' = [k \in DOMAIN entries \cup {key} |->
                       IF k \in DOMAIN entries THEN entries[k] ELSE JunkEntry]
      /\ DOMAIN entries' = DOMAIN entries \cup {key}
  BY DEF entries
<1>2. \A entry : PointersLive(entry, heap, serial) => PointersLive(entry, heap', serial')
  <2>1. \A block : Live(block, "name", heap, serial) => Live(block, "name", heap', serial')
    BY DEF Live
  <2>2. \A block : Live(block, "expr", heap, serial) => Live(block, "expr", heap', serial')
    BY DEF Live
  <2>. QED
    BY <2>1, <2>2 DEF PointersLive
<1>3. IsEntry(JunkEntry) /\ PointersLive(JunkEntry, heap', serial')
  BY DEF IsEntry, JunkEntry, JunkExpr, PointersLive, NoBlock
<1>4. \A entry : Apart(entry, JunkEntry) /\ Apart(JunkEntry, entry)
  BY DEF Apart, JunkEntry, JunkExpr, NoBlock
<1>. QED
  BY <1>1, <1>2, <1>3, <1>4 DEF EntriesSound, entries


\* As long as the map stays and no name and no expression is freed, so do they.
LEMMA EntriesUntouched ==
  ASSUME EntriesSound, serial \in Nat, UNCHANGED << xhash, serial >>,
         \A block \in heap : block[1] \in {"name", "expr"} => block \in heap'
  PROVE  EntriesSound'
<1>1. xhash' = [vals |-> xhash'.vals, entries |-> entries]
  BY DEF EntriesSound, entries
<1>2. entries' = entries
  BY DEF entries
<1>. QED
  BY <1>1, <1>2, EntriesKept

\* A map without entries.
LEMMA NoEntries == xhash = NoMap => DOMAIN entries = {} /\ xhash.vals = NULL /\ EntriesSound
<1>. SUFFICES ASSUME xhash = NoMap
              PROVE  DOMAIN entries = {} /\ xhash.vals = NULL /\ EntriesSound
  OBVIOUS
<1>1. entries = << >> /\ DOMAIN entries = {} /\ xhash.vals = NULL
  BY DEF NoMap, entries
<1>2. xhash = [vals |-> xhash.vals, entries |-> [key \in DOMAIN entries |-> entries[key]]]
  BY <1>1 DEF NoMap
<1>. QED
  BY <1>1, <1>2 DEF EntriesSound

LEMMA NoEntriesNext ==
  ASSUME xhash' = NoMap
  PROVE  DOMAIN entries' = {} /\ xhash'.vals = NULL /\ EntriesSound'
<1>1. entries' = << >> /\ DOMAIN entries' = {} /\ xhash'.vals = NULL
  BY DEF NoMap, entries
<1>2. xhash' = [vals |-> xhash'.vals, entries |-> [key \in DOMAIN entries' |-> entries'[key]]]
  BY <1>1 DEF NoMap
<1>. QED
  BY <1>1, <1>2 DEF EntriesSound

LEMMA RefuseKeeps == IInv /\ Refuse => IInv'
<1>. SUFFICES ASSUME IInv, Refuse PROVE IInv'
  OBVIOUS
<1>. USE DEF IInv
<1>1. AtSound'
  BY DEF AtSound, Refuse, walk, Walks, Start, modes_node, pids_node
<1>2. MapSound'
  BY  DEF MapSound, Refuse, walk, Built, Walks, Live, Only, Acquire, Fails, Fresh, NoMap, NoCtx, NULL, entries
<1>3. EntriesSound'
  <2>1. serial \in Nat /\ UNCHANGED << xhash, serial >>
    BY DEF MapSound, Refuse, walk
  <2>2. \A block \in heap : block[1] \in {"name", "expr"} => block \in heap'
    BY DEF Refuse, walk, Only, MapSound, Live
  <2>. QED
    BY <2>1, <2>2, EntriesUntouched
<1>4. FilledSound'
  BY  DEF FilledSound, Refuse, walk, Walks, Entry, entries, NotYet, Start
<1>5. TroubleSound'
  BY DEF TroubleSound, Refuse, walk, Late, Fails, Built, Walks
<1>. QED
  BY <1>1, <1>2, <1>3, <1>4, <1>5

LEMMA OpenKeeps == IInv /\ Open => IInv'
<1>. SUFFICES ASSUME IInv, Open PROVE IInv'
  OBVIOUS
<1>. USE DEF IInv
<1>1. AtSound'
  BY DEF AtSound, Open, walk, Walks, Start, modes_node, pids_node
<1>2. MapSound'
  BY  DEF MapSound, Open, walk, Built, Walks, Live, Only, Acquire, Fails, Fresh, NoMap, NoCtx, NULL, entries
<1>3. EntriesSound'
  <2>1. xhash = NoMap /\ xhash' = NoMap
    BY DEF MapSound, Open
  <2>. QED
    BY <2>1, NoEntriesNext
<1>4. FilledSound'
  BY  DEF FilledSound, Open, walk, Walks, Entry, entries, NotYet, Start
<1>5. TroubleSound'
  BY DEF TroubleSound, Open, walk, Late, Fails, Built, Walks
<1>. QED
  BY <1>1, <1>2, <1>3, <1>4, <1>5

LEMMA MallocCtxKeeps == IInv /\ MallocCtx => IInv'
<1>. SUFFICES ASSUME IInv, MallocCtx PROVE IInv'
  OBVIOUS
<1>. USE DEF IInv
<1>1. AtSound'
  BY DEF AtSound, MallocCtx, walk, Walks, Start, modes_node, pids_node
<1>2. MapSound'
  BY  DEF MapSound, MallocCtx, walk, Built, Walks, Live, Only, Acquire, Fails, Fresh, NoMap, NoCtx, NULL, entries
<1>3. EntriesSound'
  <2>1. xhash = NoMap /\ xhash' = NoMap
    BY DEF MapSound, MallocCtx
  <2>. QED
    BY <2>1, NoEntriesNext
<1>4. FilledSound'
  BY  DEF FilledSound, MallocCtx, walk, Walks, Entry, entries, NotYet, Start
<1>5. TroubleSound'
  BY DEF TroubleSound, MallocCtx, walk, Late, Fails, Built, Walks
<1>. QED
  BY <1>1, <1>2, <1>3, <1>4, <1>5

LEMMA XhInitKeeps == IInv /\ XhInit => IInv'
<1>. SUFFICES ASSUME IInv, XhInit PROVE IInv'
  OBVIOUS
<1>. USE DEF IInv
<1>1. AtSound'
  BY DEF AtSound, XhInit, walk, Walks, Start, modes_node, pids_node
<1>2. MapSound'
  BY  DEF MapSound, XhInit, walk, Built, Walks, Live, Only, Acquire, Fails, Fresh, NoMap, NoCtx, NULL, entries
<1>3. EntriesSound'
  <2>1. xhash = NoMap /\ xhash' = NoMap
    BY DEF MapSound, XhInit
  <2>. QED
    BY <2>1, NoEntriesNext
<1>4. FilledSound'
  BY  DEF FilledSound, XhInit, walk, Walks, Entry, entries, NotYet, Start
<1>5. TroubleSound'
  BY DEF TroubleSound, XhInit, walk, Late, Fails, Built, Walks
<1>. QED
  BY <1>1, <1>2, <1>3, <1>4, <1>5

LEMMA InitParserKeeps == IInv /\ InitParser => IInv'
<1>. SUFFICES ASSUME IInv, InitParser PROVE IInv'
  OBVIOUS
<1>. USE DEF IInv
<1>1. AtSound'
  BY DEF AtSound, InitParser, walk, Walks, Start, modes_node, pids_node
<1>2. MapSound'
  <2>1. xhash = NoMap /\ xhash' = NoMap
    BY DEF MapSound, InitParser
  <2>. QED
    BY <2>1, NoEntriesNext DEF MapSound, InitParser, walk, Built, Walks, Live, Only, Acquire, Fails, Fresh, NoMap, NoCtx, NULL, entries
<1>3. EntriesSound'
  <2>1. xhash = NoMap /\ xhash' = NoMap
    BY DEF MapSound, InitParser
  <2>. QED
    BY <2>1, NoEntriesNext
<1>4. FilledSound'
  BY  DEF FilledSound, InitParser, walk, Walks, Entry, entries, NotYet, Start
<1>5. TroubleSound'
  BY DEF TroubleSound, InitParser, walk, Late, Fails, Built, Walks
<1>. QED
  BY <1>1, <1>2, <1>3, <1>4, <1>5

LEMMA LoadDocumentKeeps == IInv /\ LoadDocument => IInv'
<1>. SUFFICES ASSUME IInv, LoadDocument PROVE IInv'
  OBVIOUS
<1>. USE DEF IInv
<1>1. AtSound'
  BY DEF AtSound, LoadDocument, walk, Walks, Start, modes_node, pids_node
<1>2. MapSound'
  <2>1. xhash = NoMap /\ xhash' = NoMap
    BY DEF MapSound, LoadDocument
  <2>. QED
    BY <2>1, NoEntriesNext DEF MapSound, LoadDocument, walk, Built, Walks, Live, Only, Acquire, Fails, Fresh, NoMap, NoCtx, NULL, entries
<1>3. EntriesSound'
  <2>1. xhash = NoMap /\ xhash' = NoMap
    BY DEF MapSound, LoadDocument
  <2>. QED
    BY <2>1, NoEntriesNext
<1>4. FilledSound'
  <2>1. DOMAIN entries' = {}
    BY NoEntriesNext DEF LoadDocument, MapSound
  <2>. QED
    BY <2>1 DEF FilledSound, LoadDocument, Walks
<1>5. TroubleSound'
  BY DEF TroubleSound, LoadDocument, walk, Late, Fails, Built, Walks
<1>. QED
  BY <1>1, <1>2, <1>3, <1>4, <1>5

LEMMA ParseEndianKeeps == IInv /\ ParseEndian => IInv'
<1>. SUFFICES ASSUME IInv, ParseEndian PROVE IInv'
  OBVIOUS
<1>. USE DEF IInv
<1>1. AtSound'
  BY DEF AtSound, ParseEndian, AtTop, walk, Walks, Start, modes_node, pids_node
<1>2. MapSound'
  BY  DEF MapSound, ParseEndian, AtTop, walk, Built, Walks, Live, Only, Acquire, Fails, Fresh, NoMap, NoCtx, NULL, entries
<1>3. EntriesSound'
  <2>1. serial \in Nat /\ UNCHANGED << xhash, serial >>
    BY DEF MapSound, ParseEndian, AtTop, walk
  <2>2. \A block \in heap : block[1] \in {"name", "expr"} => block \in heap'
    BY DEF ParseEndian, AtTop, walk, Only, MapSound, Live
  <2>. QED
    BY <2>1, <2>2, EntriesUntouched
<1>4. FilledSound'
  BY  DEF FilledSound, ParseEndian, AtTop, walk, Walks, Entry, entries, NotYet, Start
<1>5. TroubleSound'
  BY DEF TroubleSound, ParseEndian, AtTop, walk, Late, Fails, Built, Walks
<1>. QED
  BY <1>1, <1>2, <1>3, <1>4, <1>5

LEMMA EnterModepidKeeps == IInv /\ EnterModepid => IInv'
<1>. SUFFICES ASSUME IInv, EnterModepid PROVE IInv'
  OBVIOUS
<1>. USE DEF IInv
<1>1. AtSound'
  BY DEF AtSound, EnterModepid, AtTop, walk, Walks, Start, modes_node, pids_node
<1>2. MapSound'
  BY  DEF MapSound, EnterModepid, AtTop, walk, Built, Walks, Live, Only, Acquire, Fails, Fresh, NoMap, NoCtx, NULL, entries
<1>3. EntriesSound'
  <2>1. serial \in Nat /\ UNCHANGED << xhash, serial >>
    BY DEF MapSound, EnterModepid, AtTop, walk
  <2>2. \A block \in heap : block[1] \in {"name", "expr"} => block \in heap'
    BY DEF EnterModepid, AtTop, walk, Only, MapSound, Live
  <2>. QED
    BY <2>1, <2>2, EntriesUntouched
<1>4. FilledSound'
  BY  DEF FilledSound, EnterModepid, AtTop, walk, Walks, Entry, entries, NotYet, Start
<1>5. TroubleSound'
  BY DEF TroubleSound, EnterModepid, AtTop, walk, Late, Fails, Built, Walks
<1>. QED
  BY <1>1, <1>2, <1>3, <1>4, <1>5

LEMMA EnterModeKeeps == IInv /\ EnterMode => IInv'
<1>. SUFFICES ASSUME IInv, EnterMode PROVE IInv'
  OBVIOUS
<1>. USE DEF IInv
<1>1. AtSound'
  BY DEF AtSound, EnterMode, walk, Walks, Start, modes_node, pids_node
<1>2. MapSound'
  BY  DEF MapSound, EnterMode, walk, Built, Walks, Live, Only, Acquire, Fails, Fresh, NoMap, NoCtx, NULL, entries
<1>3. EntriesSound'
  <2>1. serial \in Nat /\ UNCHANGED << xhash, serial >>
    BY DEF MapSound, EnterMode, walk
  <2>2. \A block \in heap : block[1] \in {"name", "expr"} => block \in heap'
    BY DEF EnterMode, walk, Only, MapSound, Live
  <2>. QED
    BY <2>1, <2>2, EntriesUntouched
<1>4. FilledSound'
  BY  DEF FilledSound, EnterMode, walk, Walks, Entry, entries, NotYet, Start
<1>5. TroubleSound'
  BY DEF TroubleSound, EnterMode, walk, Late, Fails, Built, Walks
<1>. QED
  BY <1>1, <1>2, <1>3, <1>4, <1>5

LEMMA LeaveModepidKeeps == IInv /\ LeaveModepid => IInv'
<1>. SUFFICES ASSUME IInv, LeaveModepid PROVE IInv'
  OBVIOUS
<1>. USE DEF IInv
<1>1. AtSound'
  BY DEF AtSound, LeaveModepid, walk, Walks, Start, modes_node, pids_node
<1>2. MapSound'
  BY  DEF MapSound, LeaveModepid, walk, Built, Walks, Live, Only, Acquire, Fails, Fresh, NoMap, NoCtx, NULL, entries
<1>3. EntriesSound'
  <2>1. serial \in Nat /\ UNCHANGED << xhash, serial >>
    BY DEF MapSound, LeaveModepid, walk
  <2>2. \A block \in heap : block[1] \in {"name", "expr"} => block \in heap'
    BY DEF LeaveModepid, walk, Only, MapSound, Live
  <2>. QED
    BY <2>1, <2>2, EntriesUntouched
<1>4. FilledSound'
  BY  DEF FilledSound, LeaveModepid, walk, Walks, Entry, entries, NotYet, Start
<1>5. TroubleSound'
  BY DEF TroubleSound, LeaveModepid, walk, Late, Fails, Built, Walks
<1>. QED
  BY <1>1, <1>2, <1>3, <1>4, <1>5

LEMMA LeaveModeKeeps == IInv /\ LeaveMode => IInv'
<1>. SUFFICES ASSUME IInv, LeaveMode PROVE IInv'
  OBVIOUS
<1>. USE DEF IInv
<1>1. AtSound'
  BY DEF AtSound, LeaveMode, walk, Walks, Start, modes_node, pids_node
<1>2. MapSound'
  BY  DEF MapSound, LeaveMode, walk, Built, Walks, Live, Only, Acquire, Fails, Fresh, NoMap, NoCtx, NULL, entries
<1>3. EntriesSound'
  <2>1. serial \in Nat /\ UNCHANGED << xhash, serial >>
    BY DEF MapSound, LeaveMode, walk
  <2>2. \A block \in heap : block[1] \in {"name", "expr"} => block \in heap'
    BY DEF LeaveMode, walk, Only, MapSound, Live
  <2>. QED
    BY <2>1, <2>2, EntriesUntouched
<1>4. FilledSound'
  BY  DEF FilledSound, LeaveMode, walk, Walks, Entry, entries, NotYet, Start
<1>5. TroubleSound'
  BY DEF TroubleSound, LeaveMode, walk, Late, Fails, Built, Walks
<1>. QED
  BY <1>1, <1>2, <1>3, <1>4, <1>5

LEMMA StopAtDocumentKeeps == IInv /\ StopAtDocument => IInv'
<1>. SUFFICES ASSUME IInv, StopAtDocument PROVE IInv'
  OBVIOUS
<1>. USE DEF IInv
<1>1. AtSound'
  BY DEF AtSound, StopAtDocument, Stop, AtTop, InDesc, AtField, walk, Walks, Start, modes_node, pids_node
<1>2. MapSound'
  BY  DEF MapSound, StopAtDocument, Stop, AtTop, InDesc, AtField, walk, Built, Walks, Live, Only, Acquire, Fails, Fresh, NoMap, NoCtx, NULL, entries
<1>3. EntriesSound'
  <2>1. serial \in Nat /\ UNCHANGED << xhash, serial >>
    BY DEF MapSound, StopAtDocument, Stop, AtTop, InDesc, AtField, walk
  <2>2. \A block \in heap : block[1] \in {"name", "expr"} => block \in heap'
    BY DEF StopAtDocument, Stop, AtTop, InDesc, AtField, walk, Only, MapSound, Live
  <2>. QED
    BY <2>1, <2>2, EntriesUntouched
<1>4. FilledSound'
  BY  DEF FilledSound, StopAtDocument, Stop, AtTop, InDesc, AtField, walk, Walks, Entry, entries, NotYet, Start
<1>5. TroubleSound'
  BY DEF TroubleSound, StopAtDocument, Stop, AtTop, InDesc, AtField, walk, Late, Fails, Built, Walks
<1>. QED
  BY <1>1, <1>2, <1>3, <1>4, <1>5

LEMMA LeaveDocKeeps == IInv /\ LeaveDoc => IInv'
<1>. SUFFICES ASSUME IInv, LeaveDoc PROVE IInv'
  OBVIOUS
<1>. USE DEF IInv
<1>1. AtSound'
  BY DEF AtSound, LeaveDoc, Unwind, walk, Walks, Start, modes_node, pids_node
<1>2. MapSound'
  BY  DEF MapSound, LeaveDoc, Unwind, walk, Built, Walks, Live, Only, Acquire, Fails, Fresh, NoMap, NoCtx, NULL, entries
<1>3. EntriesSound'
  <2>1. serial \in Nat /\ UNCHANGED << xhash, serial >>
    BY DEF MapSound, LeaveDoc, Unwind, walk
  <2>2. \A block \in heap : block[1] \in {"name", "expr"} => block \in heap'
    BY DEF LeaveDoc, Unwind, walk, Only, MapSound, Live
  <2>. QED
    BY <2>1, <2>2, EntriesUntouched
<1>4. FilledSound'
  BY  DEF FilledSound, LeaveDoc, Unwind, walk, Walks, Entry, entries, NotYet, Start
<1>5. TroubleSound'
  BY DEF TroubleSound, LeaveDoc, Unwind, walk, Late, Fails, Built, Walks
<1>. QED
  BY <1>1, <1>2, <1>3, <1>4, <1>5

LEMMA ParseEndKeeps == IInv /\ ParseEnd => IInv'
<1>. SUFFICES ASSUME IInv, ParseEnd PROVE IInv'
  OBVIOUS
<1>. USE DEF IInv
<1>1. AtSound'
  BY DEF AtSound, ParseEnd, walk, Walks, Start, modes_node, pids_node
<1>2. /\ Only("map") \in heap' /\ Only("ctx") \in heap'
      /\ \A block \in heap : block[1] \in {"vals", "name", "expr"} => block \in heap'
  <2>1. Only("doc")[1] = "doc" /\ Only("parser")[1] = "parser" /\ Only("file")[1] = "file"
    BY DEF Only
  <2>2. heap \ {Only("doc"), Only("parser"), Only("file")} \subseteq heap'
    BY DEF ParseEnd
  <2>3. Only("map") \in heap /\ Only("ctx") \in heap
    BY DEF ParseEnd, MapSound, Built
  <2>4. Only("map")[1] = "map" /\ Only("ctx")[1] = "ctx"
    BY DEF Only
  <2>. QED
    BY <2>1, <2>2, <2>3, <2>4
<1>3. MapSound'
  BY <1>2 DEF MapSound, ParseEnd, walk, Built, Walks, Live, entries
<1>6. EntriesSound'
  BY <1>2, EntriesUntouched DEF ParseEnd, MapSound
<1>4. FilledSound'
  BY  DEF FilledSound, ParseEnd, walk, Walks, Entry, entries, NotYet, Start
<1>5. TroubleSound'
  BY DEF TroubleSound, ParseEnd, walk, Late, Fails, Built, Walks
<1>. QED
  BY <1>1, <1>3, <1>6, <1>4, <1>5

LEMMA DestroyMapKeeps == IInv /\ DestroyMap => IInv'
<1>. SUFFICES ASSUME IInv, DestroyMap PROVE IInv'
  OBVIOUS
<1>. USE DEF IInv
<1>1. AtSound'
  BY DEF AtSound, DestroyMap, walk, Walks, Start, modes_node, pids_node
<1>2. MapSound'
  BY  DEF MapSound, DestroyMap, walk, Built, Walks, Live, Only, Acquire, Fails, Fresh, NoMap, NoCtx, NULL, entries
<1>3. EntriesSound'
  <2>1. serial \in Nat /\ UNCHANGED << xhash, serial >>
    BY DEF MapSound, DestroyMap, walk
  <2>2. \A block \in heap : block[1] \in {"name", "expr"} => block \in heap'
    <3>1. heap' = heap \ {Only("map"), xhash.vals}
      BY DEF DestroyMap, MapSound, Built
    <3>3. xhash.vals[1] = "vals" \/ xhash.vals[1] = "NULL"
      <4>1. xhash.vals = NULL \/ xhash.vals[1] = "vals"
        BY DEF DestroyMap, MapSound, Built, Live
      <4>2. NULL[1] = "NULL"
        BY DEF NULL
      <4>. QED
        BY <4>1, <4>2
    <3>2. Only("map")[1] = "map"
      BY DEF Only
    <3>. QED
      BY <3>1, <3>2, <3>3
  <2>. QED
    BY <2>1, <2>2, EntriesUntouched
<1>4. FilledSound'
  BY  DEF FilledSound, DestroyMap, walk, Walks, Entry, entries, NotYet, Start
<1>5. TroubleSound'
  BY DEF TroubleSound, DestroyMap, walk, Late, Fails, Built, Walks
<1>. QED
  BY <1>1, <1>2, <1>3, <1>4, <1>5

LEMMA GoneKeeps == IInv /\ Gone => IInv'
<1>. SUFFICES ASSUME IInv, Gone PROVE IInv'
  OBVIOUS
<1>. USE DEF IInv
<1>1. AtSound'
  BY DEF AtSound, Gone, vars, walk, Walks, Start, modes_node, pids_node
<1>2. MapSound'
  BY  DEF MapSound, Gone, vars, walk, Built, Walks, Live, Only, Acquire, Fails, Fresh, NoMap, NoCtx, NULL, entries
<1>3. EntriesSound'
  <2>1. serial \in Nat /\ UNCHANGED << xhash, serial >>
    BY DEF MapSound, Gone, vars, walk
  <2>2. \A block \in heap : block[1] \in {"name", "expr"} => block \in heap'
    BY DEF Gone, vars, walk, Only, MapSound, Live
  <2>. QED
    BY <2>1, <2>2, EntriesUntouched
<1>4. FilledSound'
  BY  DEF FilledSound, Gone, vars, walk, Walks, Entry, entries, NotYet, Start
<1>5. TroubleSound'
  BY DEF TroubleSound, Gone, vars, walk, Late, Fails, Built, Walks
<1>. QED
  BY <1>1, <1>2, <1>3, <1>4, <1>5

\* A failure that is returned through the walk, and leaves the map as it is.
LEMMA FailureKeeps ==
  ASSUME IInv, pc \in Walks, pc' = "parse_end", err' = "YOBD_OOM", failed' \cap Late # {},
         UNCHANGED << walk, xhash, heap, serial, ctx >>
  PROVE  IInv'
<1>. USE DEF IInv
<1>1. AtSound'
  BY DEF AtSound, walk, Walks, modes_node, pids_node
<1>2. MapSound'
  BY DEF MapSound, walk, Built, Walks, Live, entries
<1>3. EntriesSound'
  BY EntriesUntouched DEF MapSound
<1>4. FilledSound' /\ TroubleSound'
  BY DEF FilledSound, TroubleSound, Walks
<1>. QED
  BY <1>1, <1>2, <1>3, <1>4

LEMMA PutModePidKeeps == IInv /\ PutModePid => IInv'
<1>. SUFFICES ASSUME IInv, PutModePid PROVE IInv'
  OBVIOUS
<1>. USE DEF IInv
<1>. DEFINE key == get_modepid(mode, Key(pids_node[at.pids]))
            put(array) ==
              xhash' = [vals |-> array,
                        entries |-> [k \in DOMAIN entries \cup {key} |->
                                       IF k \in DOMAIN entries THEN entries[k] ELSE JunkEntry]]
            step(array) ==
              /\ put(array)
              /\ pid_ctx' = [array |-> array, key |-> key]
              /\ at' = [at EXCEPT !.fields = 1]
              /\ pc' = "parse_desc"
              /\ UNCHANGED << document, mode, ctx, err, failed >>
              /\ serial' \in Nat /\ serial' >= serial
              /\ \A block \in heap :
                   block[1] \in {"map", "ctx", "name", "expr"} => block \in heap'
              /\ Live(array, "vals", heap', serial')
<1>1. pc = "parse_mode" /\ at.pids <= Len(pids_node)
  BY DEF PutModePid
<1>2. ASSUME NEW array, step(array) PROVE IInv'
  <2>. HIDE DEF key
  <2>1. AtSound'
    BY <1>1, <1>2 DEF AtSound, Walks, modes_node, pids_node
  <2>2. EntriesSound'
    BY <1>2, EntryPut DEF MapSound
  <2>3. /\ DOMAIN entries' = DOMAIN entries \cup {key}
        /\ \A k \in DOMAIN entries' :
             entries'[k] = IF k \in DOMAIN entries THEN entries[k] ELSE JunkEntry
        /\ xhash'.vals = array
    BY <1>2 DEF entries
  <2>4. Only("map")[1] = "map" /\ Only("ctx")[1] = "ctx"
    BY DEF Only
  <2>5. MapSound'
    BY <1>1, <1>2, <2>3, <2>4 DEF MapSound, Built, Walks
  <2>6. at' \in [doc : Nat, modes : Nat, pids : Nat, fields : Nat] /\ at'.fields = 1
    BY <1>2 DEF AtSound
  <2>7. FilledSound'
    <3>1. \A k \in DOMAIN entries : Done(entries[k])
      BY <1>1 DEF FilledSound, Walks
    <3>2. 1..(at'.fields - 1) = {}
      BY <2>6
    <3>. QED
      BY <1>2, <2>3, <3>1, <3>2 DEF FilledSound, Walks, NotYet
  <2>8. TroubleSound'
    BY <1>2 DEF TroubleSound
  <2>. QED
    BY <2>1, <2>2, <2>5, <2>7, <2>8
<1>3. ASSUME xhash.vals # NULL, put(xhash.vals), UNCHANGED << heap, serial >>,
             pid_ctx' = [array |-> xhash.vals, key |-> key], at' = [at EXCEPT !.fields = 1],
             pc' = "parse_desc", UNCHANGED << document, mode, ctx, err, failed >>
      PROVE  IInv'
  <2>. HIDE DEF key
  <2>1. Live(xhash.vals, "vals", heap, serial)
    BY <1>1, <1>3 DEF MapSound, Built, Walks
  <2>2. step(xhash.vals)
    BY <1>3, <2>1 DEF MapSound, Live
  <2>. QED
    BY <1>2, <2>2
<1>4. ASSUME NEW array, array = Fresh("vals", ""), put(array), heap' = (heap \ {xhash.vals}) \cup {array},
             serial' = serial + 1,
             pid_ctx' = [array |-> array, key |-> key], at' = [at EXCEPT !.fields = 1],
             pc' = "parse_desc", UNCHANGED << document, mode, ctx, err, failed >>
      PROVE  IInv'
  <2>. HIDE DEF key
  <2>0. serial \in Nat /\ serial' = serial + 1
    <3>1. serial \in Nat
      BY DEF MapSound
    <3>2. serial' = serial + 1
      BY <1>4
    <3>. QED
      BY <3>1, <3>2
  <2>1. Live(array, "vals", heap', serial')
    <3>1. array[1] = "vals" /\ array[2] = serial + 1
      BY <1>4 DEF Fresh
    <3>2. array \in heap'
      BY <1>4
    <3>. QED
      BY <2>0, <3>1, <3>2 DEF Live
  <2>2. \A block \in heap : block[1] \in {"map", "ctx", "name", "expr"} => block \in heap'
    <3>1. xhash.vals = NULL \/ xhash.vals[1] = "vals"
      BY <1>1 DEF MapSound, Built, Walks, Live
    <3>2. NULL[1] = "NULL"
      BY DEF NULL
    <3>. QED
      BY <1>4, <3>1, <3>2
  <2>3. serial' \in Nat /\ serial' >= serial
    BY <2>0
  <2>4. step(array)
    BY <1>4, <2>1, <2>2, <2>3
  <2>. QED
    BY <1>2, <2>4
<1>5. ASSUME Fails("xh_put"), Unwind("YOBD_OOM"),
             UNCHANGED << pid_ctx, xhash, at, heap, serial, document, mode, ctx >>
      PROVE  IInv'
  BY <1>1, <1>5, FailureKeeps DEF Fails, Unwind, Late, Walks, walk
<1>. QED
  BY <1>3, <1>4, <1>5, Zenon DEF PutModePid

\* A field is read into the entry, and the loop moves on.
LEMMA FieldKeeps ==
  ASSUME NEW entry, IInv, InDesc, NextField,
         SetEntry(entry), IsEntry(entry),
         OldOrNew(entry.name, Entry.name, "name"),
         OldOrNew(entry.expr.data, Entry.expr.data, "expr"),
         heap \subseteq heap', serial' \in Nat, serial' >= serial,
         entry.expr.data # Junk => entry.pid_type \in PidTypes,
         entry.name = Junk => Entry.name = Junk /\ Key(fields_node[at.fields]) # "name",
         entry.expr.data = Junk => Entry.expr.data = Junk /\ Key(fields_node[at.fields]) # "expr",
         UNCHANGED << err, ctx >>
  PROVE  IInv'
<1>. USE DEF IInv
<1>1. pc = "parse_desc" /\ serial \in Nat /\ pid_ctx.key \in DOMAIN entries
  BY DEF InDesc, MapSound
<1>2. /\ EntriesSound'
      /\ entries' = [entries EXCEPT ![pid_ctx.key] = entry]
      /\ xhash'.vals = xhash.vals
  BY <1>1, EntryFilled
<1>3. /\ at' = [at EXCEPT !.fields = @ + 1]
      /\ UNCHANGED << pc, document, mode, pid_ctx >>
      /\ UNCHANGED << err, ctx >>
  BY DEF NextField
<1>4. /\ at' \in [doc : Nat, modes : Nat, pids : Nat, fields : Nat]
      /\ at'.fields = at.fields + 1 /\ at.fields \in Nat
      /\ at'.doc = at.doc /\ at'.modes = at.modes /\ at'.pids = at.pids
  BY <1>3 DEF AtSound
<1>5. UNCHANGED << modes_node, pids_node, fields_node >>
  BY <1>3, <1>4 DEF modes_node, pids_node, fields_node
<1>6. AtSound'
  BY <1>1, <1>3, <1>4, <1>5 DEF AtSound, Walks
<1>7. MapSound'
  <2>1. Live(xhash'.vals, "vals", heap', serial')
    BY <1>1, <1>2 DEF MapSound, Live
  <2>2. DOMAIN entries' = DOMAIN entries
    BY <1>2
  <2>. QED
    BY <1>1, <1>2, <1>3, <2>1, <2>2 DEF MapSound, Built, Walks
<1>8. FilledSound'
  <2>1. Entry' = entry /\ \A key \in DOMAIN entries' \ {pid_ctx'.key} : Done(entries'[key])
    BY <1>1, <1>2, <1>3 DEF FilledSound, Entry
  <2>2. \A name : NotYet(name) /\ Key(fields_node[at.fields]) # name =>
          \A n \in 1..(at'.fields - 1) : Key(fields_node'[n]) # name
    BY <1>4, <1>5 DEF NotYet
  <2>3. entry.name = Junk => NotYet("name")'
    BY <1>1, <2>2 DEF FilledSound, NotYet
  <2>4. entry.expr.data = Junk => NotYet("expr")'
    BY <1>1, <2>2 DEF FilledSound, NotYet
  <2>. QED
    BY <1>1, <1>3, <2>1, <2>3, <2>4 DEF FilledSound, Walks
<1>9. TroubleSound'
  BY <1>1, <1>3 DEF TroubleSound
<1>. QED
  BY <1>2, <1>6, <1>7, <1>8, <1>9

\* The fields of the entry that a step leaves alone.
LEMMA EntryOfIInv ==
  ASSUME IInv, pc = "parse_desc"
  PROVE  /\ serial \in Nat /\ pid_ctx.key \in DOMAIN entries /\ IsEntry(Entry)
         /\ Entry.expr.data # Junk => Entry.pid_type \in PidTypes
BY DEF IInv, MapSound, EntriesSound, PointersLive, Entry

LEMMA ParseScalarKeeps == IInv /\ ParseScalar => IInv'
<1>. SUFFICES ASSUME IInv, ParseScalar PROVE IInv'
  OBVIOUS
<1>1. PICK entry :
        /\ SetEntry(entry)
        /\ \/ entry = [Entry EXCEPT !.can_bytes = field % 256]
           \/ entry = [Entry EXCEPT !.convert_func = find_convert_func[field]]
           \/ entry = [Entry EXCEPT !.unit = field]
  BY DEF ParseScalar
<1>2. /\ InDesc /\ NextField /\ UNCHANGED << err, heap, serial, ctx, failed >>
      /\ Key(fields_node[at.fields]) \notin {"name", "expr"}
  BY DEF ParseScalar, AtField
<1>3. pc = "parse_desc"
  BY <1>2 DEF InDesc
<1>4. IsEntry(entry) /\ entry.name = Entry.name /\ entry.expr = Entry.expr
        /\ entry.pid_type = Entry.pid_type
  BY <1>1, <1>3, EntryOfIInv DEF IsEntry
<1>. QED
  BY <1>1, <1>2, <1>3, <1>4, EntryOfIInv, FieldKeeps DEF OldOrNew

LEMMA ParseNameKeeps == IInv /\ ParseName => IInv'
<1>. SUFFICES ASSUME IInv, ParseName PROVE IInv'
  OBVIOUS
<1>1. pc = "parse_desc" /\ InDesc /\ Key(fields_node[at.fields]) = "name" /\ UNCHANGED ctx
  BY DEF ParseName, AtField, InDesc
<1>2. ASSUME NEW name, name = Fresh("name", field), Acquire(name),
             SetEntry([Entry EXCEPT !.name = name]), NextField, UNCHANGED << err, failed >>
      PROVE  IInv'
  <2>. DEFINE entry == [Entry EXCEPT !.name = name]
  <2>1. /\ IsEntry(entry) /\ entry.name = name /\ entry.expr = Entry.expr
        /\ entry.pid_type = Entry.pid_type
    BY <1>1, EntryOfIInv DEF IsEntry
  <2>2. name[1] = "name" /\ name[2] = serial + 1
    BY <1>2 DEF Fresh
  <2>3. name # Junk
    <3>1. Junk[1] = "junk"
      BY DEF Junk
    <3>. QED
      BY <2>2, <3>1
  <2>4. heap' = heap \cup {name} /\ serial' = serial + 1
    BY <1>2 DEF Acquire
  <2>5. serial' \in Nat /\ serial' >= serial /\ heap \subseteq heap'
    BY <1>1, <2>4, EntryOfIInv
  <2>6. OldOrNew(entry.name, Entry.name, "name") /\ OldOrNew(entry.expr.data, Entry.expr.data, "expr")
    BY <2>1, <2>2, <2>4 DEF OldOrNew
  <2>7. SetEntry(entry)
    BY <1>2
  <2>. HIDE DEF entry
  <2>. QED
    BY <1>1, <1>2, <2>1, <2>3, <2>5, <2>6, <2>7, EntryOfIInv, FieldKeeps
<1>3. ASSUME Fails("strdup"), SetEntry([Entry EXCEPT !.name = NULL]), Unwind("YOBD_OOM"),
             UNCHANGED << walk, heap, serial >>
      PROVE  IInv'
  <2>. DEFINE entry == [Entry EXCEPT !.name = NULL]
  <2>1. /\ IsEntry(entry) /\ entry.name = NULL /\ entry.expr = Entry.expr
        /\ entry.pid_type = Entry.pid_type
    BY <1>1, EntryOfIInv DEF IsEntry
  <2>2. OldOrNew(entry.name, Entry.name, "name") /\ OldOrNew(entry.expr.data, Entry.expr.data, "expr")
    BY <2>1 DEF OldOrNew
  <2>3. SetEntry(entry) /\ UNCHANGED << heap, serial >>
    BY <1>3
  <2>. HIDE DEF entry
  <2>4. /\ EntriesSound'
        /\ entries' = [entries EXCEPT ![pid_ctx.key] = entry]
        /\ xhash'.vals = xhash.vals
    BY <1>1, <2>1, <2>2, <2>3, EntryOfIInv, EntryFilled DEF IInv
  <2>5. AtSound'
    BY <1>1, <1>3 DEF IInv, AtSound, Unwind, walk, Walks, modes_node, pids_node
  <2>6. MapSound'
    BY <1>1, <1>3, <2>4 DEF IInv, MapSound, Unwind, Built, Walks, Live
  <2>7. FilledSound' /\ TroubleSound'
    BY <1>1, <1>3 DEF IInv, FilledSound, TroubleSound, Unwind, Fails, Walks, Late
  <2>. QED
    BY <2>4, <2>5, <2>6, <2>7 DEF IInv
<1>. QED
  BY <1>2, <1>3, Zenon DEF ParseName

LEMMA EntryWithFormula ==
  ASSUME NEW entry, NEW type, NEW expr, IsEntry(entry)
  PROVE  [entry EXCEPT !.pid_type = type, !.expr = expr] =
           [name |-> entry.name, can_bytes |-> entry.can_bytes, unit |-> entry.unit,
            convert_func |-> entry.convert_func, pid_type |-> type, expr |-> expr]
<1>. DEFINE typed == [entry EXCEPT !.pid_type = type]
<1>1. typed = [name |-> entry.name, can_bytes |-> entry.can_bytes, unit |-> entry.unit,
               convert_func |-> entry.convert_func, pid_type |-> type, expr |-> entry.expr]
  BY DEF IsEntry
<1>2. [entry EXCEPT !.pid_type = type, !.expr = expr] = [typed EXCEPT !.expr = expr]
  OBVIOUS
<1>. HIDE DEF typed
<1>. QED
  BY <1>1, <1>2

\* The formula is read into the entry.
LEMMA FormulaKeeps ==
  ASSUME NEW type, NEW data, IInv, AtField("expr"), ExprIsSound(field), NextField,
         SetEntry([Entry EXCEPT !.pid_type = Scalar(field, "type"), !.expr = Expr(type, data)]),
         data # Junk, OldOrNew(data, NULL, "expr"),
         heap \subseteq heap', serial' \in Nat, serial' >= serial,
         UNCHANGED << err, ctx >>
  PROVE  IInv'
<1>. DEFINE entry == [Entry EXCEPT !.pid_type = Scalar(field, "type"), !.expr = Expr(type, data)]
<1>1. pc = "parse_desc" /\ InDesc /\ Key(fields_node[at.fields]) = "expr"
  BY DEF AtField, InDesc
<1>2. Expr(type, data) = [type |-> type, data |-> data]
  BY DEF Expr
<1>3. /\ IsEntry(entry) /\ entry.name = Entry.name /\ entry.expr.data = data
      /\ entry.pid_type = Scalar(field, "type")
  <2>1. IsEntry(Entry)
    BY <1>1, EntryOfIInv
  <2>2. entry = [name |-> Entry.name, can_bytes |-> Entry.can_bytes, unit |-> Entry.unit,
                 convert_func |-> Entry.convert_func, pid_type |-> Scalar(field, "type"),
                 expr |-> [type |-> type, data |-> data]]
    <3>1. entry = [name |-> Entry.name, can_bytes |-> Entry.can_bytes, unit |-> Entry.unit,
                   convert_func |-> Entry.convert_func, pid_type |-> Scalar(field, "type"),
                   expr |-> Expr(type, data)]
      BY <2>1, EntryWithFormula
    <3>. QED
      BY <1>2, <3>1
  <2>. HIDE DEF entry
  <2>. QED
    BY <2>2 DEF IsEntry
<1>4. entry.pid_type \in PidTypes
  BY <1>3 DEF ExprIsSound
<1>5. OldOrNew(entry.name, Entry.name, "name") /\ OldOrNew(entry.expr.data, Entry.expr.data, "expr")
  BY <1>3 DEF OldOrNew
<1>6. SetEntry(entry)
  OBVIOUS
<1>. HIDE DEF entry
<1>. QED
  BY <1>1, <1>3, <1>4, <1>5, <1>6, FieldKeeps

LEMMA ParseExprKeeps == IInv /\ ParseExpr => IInv'
<1>. SUFFICES ASSUME IInv, ParseExpr PROVE IInv'
  OBVIOUS
<1>. DEFINE text == Scalar(field, "val")
            set(type, data) ==
              SetEntry([Entry EXCEPT !.pid_type = Scalar(field, "type"), !.expr = Expr(type, data)])
<1>1. /\ AtField("expr") /\ ExprIsSound(field) /\ NextField /\ UNCHANGED << err, ctx >>
      /\ pc = "parse_desc"
  BY DEF ParseExpr, AtField, InDesc
<1>2. serial \in Nat
  BY <1>1, EntryOfIInv
<1>3. NULL # Junk
  <2>1. NULL[1] = "NULL" /\ Junk[1] = "junk"
    BY DEF NULL, Junk
  <2>. QED
    BY <2>1
<1>4. ASSUME NEW type, set(type, NULL), UNCHANGED << heap, serial >>
      PROVE  IInv'
  <2>1. heap \subseteq heap' /\ serial' \in Nat /\ serial' >= serial
    BY <1>2, <1>4
  <2>2. OldOrNew(NULL, NULL, "expr")
    BY DEF OldOrNew
  <2>. QED
    BY <1>1, <1>3, <1>4, <2>1, <2>2, FormulaKeeps
<1>5. ASSUME NEW data, data = Fresh("expr", text), Acquire(data), set("EXPR_STACK", data)
      PROVE  IInv'
  <2>1. data[1] = "expr" /\ data[2] = serial + 1
    BY <1>5 DEF Fresh
  <2>2. heap' = heap \cup {data} /\ serial' = serial + 1
    BY <1>5 DEF Acquire
  <2>3. heap \subseteq heap' /\ serial' \in Nat /\ serial' >= serial
    BY <1>2, <2>2
  <2>4. data # Junk
    <3>1. Junk[1] = "junk"
      BY DEF Junk
    <3>. QED
      BY <2>1, <3>1
  <2>5. OldOrNew(data, NULL, "expr")
    BY <2>1, <2>2 DEF OldOrNew
  <2>. QED
    BY <1>1, <1>5, <2>3, <2>4, <2>5, FormulaKeeps
<1>6. \/ set("EXPR_NOP", NULL) /\ UNCHANGED << heap, serial >>
      \/ set("EXPR_STACK", NULL) /\ UNCHANGED << heap, serial >>
      \/ Acquire(Fresh("expr", text)) /\ set("EXPR_STACK", Fresh("expr", text))
  BY DEF ParseExpr
<1>. HIDE DEF set, text
<1>. QED
  BY <1>4, <1>5, <1>6, Zenon

LEMMA LeaveDescKeeps == IInv /\ LeaveDesc => IInv'
<1>. SUFFICES ASSUME IInv, LeaveDesc PROVE IInv'
  OBVIOUS
<1>. USE DEF IInv
<1>1. /\ pc = "parse_desc" /\ at.fields > Len(fields_node) /\ BytesFitType(Entry)
      /\ at' = [at EXCEPT !.pids = @ + 1] /\ pc' = "parse_mode"
      /\ UNCHANGED << document, mode, pid_ctx, err, heap, serial, ctx, xhash, failed >>
  BY DEF LeaveDesc
<1>2. AtSound'
  BY <1>1 DEF AtSound, Walks, modes_node, pids_node
<1>3. MapSound'
  BY <1>1 DEF MapSound, Built, Walks, entries
<1>4. EntriesSound'
  BY <1>1, EntriesUntouched DEF MapSound
<1>5. DescriptionIsWhole(fields_node)
  BY <1>1, DocumentsAssumption DEF AtSound, Walks, fields_node, pids_node, modes_node
<1>6. Entry.name # Junk /\ Entry.expr.data # Junk
  <2>1. "name" \in Keys(fields_node) /\ "expr" \in Keys(fields_node) /\ Len(fields_node) \in Nat
    BY <1>5 DEF DescriptionIsWhole, FieldKeys
  <2>2. ~NotYet("name") /\ ~NotYet("expr")
    BY <1>1, <2>1 DEF NotYet, Keys, AtSound
  <2>. QED
    BY <1>1, <2>2 DEF FilledSound
<1>7. PassFits(Entry)
  <2>1. Entry.pid_type \in PidTypes
    BY <1>1, <1>6, EntryOfIInv
  <2>. QED
    <3>1. CASE Entry.pid_type = "float"
      BY <1>1, <3>1 DEF BytesFitType, PassFits
    <3>2. CASE Entry.pid_type \in {"int8", "uint8"}
      <4>1. Entry.can_bytes = 1
        BY <1>1, <3>2 DEF BytesFitType
      <4>. QED
        BY <3>2, <4>1 DEF PassFits
    <3>3. CASE Entry.pid_type \in {"int16", "uint16"}
      <4>1. Entry.can_bytes \in 1..2
        BY <1>1, <3>3 DEF BytesFitType
      <4>. QED
        BY <3>3, <4>1 DEF PassFits
    <3>4. CASE Entry.pid_type \in {"int32", "uint32"}
      BY <1>1, <3>4 DEF BytesFitType, PassFits
    <3>. QED
      BY <2>1, <3>1, <3>2, <3>3, <3>4 DEF PidTypes
<1>8. \A key \in DOMAIN entries : Done(entries[key])
  BY <1>1, <1>6, <1>7 DEF FilledSound, Done, Entry
<1>9. FilledSound' /\ TroubleSound'
  BY <1>1, <1>8 DEF FilledSound, TroubleSound, Walks, entries
<1>. QED
  BY <1>2, <1>3, <1>4, <1>9

LEMMA XhTrimKeeps == IInv /\ XhTrim => IInv'
<1>. SUFFICES ASSUME IInv, XhTrim PROVE IInv'
  OBVIOUS
<1>. USE DEF IInv
<1>1. pc = "xh_trim" /\ pc' \in {"loaded", "error"} /\ UNCHANGED << walk, ctx >>
  BY DEF XhTrim
<1>2. AtSound'
  BY <1>1 DEF AtSound, walk, Walks, modes_node, pids_node
<1>3. ASSUME UNCHANGED << heap, serial, xhash >>
      PROVE  MapSound' /\ EntriesSound'
  <2>1. MapSound'
    BY <1>1, <1>3 DEF MapSound, Built, Walks, entries
  <2>2. EntriesSound'
    BY <1>3, EntriesUntouched DEF MapSound
  <2>. QED
    BY <2>1, <2>2
<1>4. ASSUME NEW array, array = Fresh("vals", ""), xhash.vals # NULL,
             heap' = (heap \ {xhash.vals}) \cup {array},
             xhash' = [xhash EXCEPT !.vals = array], serial' = serial + 1
      PROVE  MapSound' /\ EntriesSound'
  <2>1. serial \in Nat
    BY DEF MapSound
  <2>2. serial' \in Nat /\ serial' >= serial /\ serial' = serial + 1
    <3>1. serial' = serial + 1
      BY <1>4
    <3>. QED
      BY <2>1, <3>1
  <2>3. array[1] = "vals" /\ array[2] = serial + 1
    BY <1>4 DEF Fresh
  <2>4. xhash.vals[1] = "vals"
    BY <1>1, <1>4 DEF MapSound, Built, Live
  <2>5. \A block \in heap : block[1] \in {"map", "ctx", "name", "expr"} => block \in heap'
    BY <1>4, <2>4
  <2>6. Only("map")[1] = "map" /\ Only("ctx")[1] = "ctx"
    BY DEF Only
  <2>7. xhash' = [vals |-> array, entries |-> entries] /\ entries' = entries /\ xhash'.vals = array
    BY <1>4 DEF EntriesSound, entries
  <2>8. Live(array, "vals", heap', serial')
    <3>1. array \in heap'
      BY <1>4
    <3>. QED
      BY <2>1, <2>2, <2>3, <3>1 DEF Live
  <2>9. MapSound'
    BY <1>1, <2>2, <2>5, <2>6, <2>7, <2>8 DEF MapSound, Built, Walks
  <2>10. EntriesSound'
    BY <2>1, <2>2, <2>5, <2>7, EntriesKept
  <2>. QED
    BY <2>9, <2>10
<1>5. MapSound' /\ EntriesSound' /\ entries' = entries
  <2>1. \/ UNCHANGED << heap, serial, xhash >>
        \/ /\ xhash.vals # NULL
           /\ heap' = (heap \ {xhash.vals}) \cup {Fresh("vals", "")}
           /\ xhash' = [xhash EXCEPT !.vals = Fresh("vals", "")]
           /\ serial' = serial + 1
    BY DEF XhTrim
  <2>2. xhash' = xhash \/ xhash' = [xhash EXCEPT !.vals = Fresh("vals", "")]
    BY <2>1
  <2>3. entries' = entries
    BY <2>2 DEF EntriesSound, entries
  <2>. QED
    BY <1>3, <1>4, <2>1, <2>3, Zenon
<1>6. FilledSound'
  BY <1>1, <1>5 DEF FilledSound, Walks
<1>7. TroubleSound'
  BY <1>1 DEF XhTrim, Fails, TroubleSound, Late
<1>. QED
  BY <1>2, <1>5, <1>6, <1>7

\* What yobd_free_ctx() finds in a loaded context.
LEMMA LoadedIsFreed == IInv /\ pc = "loaded" => FreeIsDefined
<1>. SUFFICES ASSUME IInv, pc = "loaded" PROVE FreeIsDefined
  OBVIOUS
<1>. USE DEF IInv
<1>1. ctx.modepid_map \in heap
  BY DEF MapSound, Built
<1>2. \A key \in DOMAIN entries : PointersLive(entries[key], heap, serial) /\ Done(entries[key])
  BY DEF EntriesSound, FilledSound
<1>3. \A key \in DOMAIN entries :
        /\ entries[key].name = NULL \/ Live(entries[key].name, "name", heap, serial)
        /\ entries[key].expr.data = NULL \/ Live(entries[key].expr.data, "expr", heap, serial)
  BY <1>2 DEF PointersLive, Done, NoBlock
<1>4. \A key \in DOMAIN entries : Pointers(entries[key]) \subseteq heap
  BY <1>3 DEF Pointers, Live
<1>5. NULL[1] = "NULL"
  BY DEF NULL
<1>6. \A key, other \in DOMAIN entries :
        \/ entries[key].name # entries[other].expr.data
        \/ entries[key].name = NULL
  BY <1>3, <1>5 DEF Live
<1>7. \A key, other \in DOMAIN entries : key # other =>
        /\ entries[key].name = entries[other].name => entries[key].name = NULL
        /\ entries[key].expr.data = entries[other].expr.data => entries[key].expr.data = NULL
  BY <1>2 DEF EntriesSound, Apart, NoBlock, Done
<1>8. \A key, other \in DOMAIN entries : key # other =>
        Pointers(entries[key]) \cap Pointers(entries[other]) = {}
  BY <1>6, <1>7 DEF Pointers
<1>. QED
  BY <1>1, <1>4, <1>6, <1>8 DEF FreeIsDefined

LEMMA FreeCtxKeeps == IInv /\ FreeCtx => IInv'
<1>. SUFFICES ASSUME IInv, FreeCtx PROVE IInv'
  OBVIOUS
<1>. USE DEF IInv
<1>1. CASE FreeIsDefined
  <2>1. pc = "loaded"
    BY <1>1 DEF FreeCtx, FreeIsDefined, TroubleSound
  <2>2. /\ pc' = "idle" /\ at' = Start /\ xhash' = NoMap /\ ctx' = NoCtx
        /\ UNCHANGED << err, serial, failed >>
    BY <1>1 DEF FreeCtx
  <2>3. DOMAIN entries' = {} /\ xhash'.vals = NULL /\ EntriesSound'
    BY <2>2, NoEntriesNext
  <2>4. AtSound' /\ MapSound' /\ FilledSound' /\ TroubleSound'
    BY <2>1, <2>2, <2>3
       DEF AtSound, MapSound, FilledSound, TroubleSound, Start, NoCtx, Walks, Built
  <2>. QED
    BY <2>3, <2>4
<1>2. CASE ~FreeIsDefined
  <2>1. pc = "error_ctx"
    BY <1>2, LoadedIsFreed DEF FreeCtx
  <2>2. pc' = "undefined" /\ UNCHANGED << heap, walk, ctx, xhash, err, serial, failed >>
    BY <1>2 DEF FreeCtx
  <2>3. EntriesSound'
    BY <2>2, EntriesUntouched DEF MapSound
  <2>4. AtSound' /\ MapSound' /\ FilledSound' /\ TroubleSound'
    BY <2>1, <2>2 DEF AtSound, MapSound, FilledSound, TroubleSound, walk, Walks, Built
  <2>. QED
    BY <2>3, <2>4
<1>. QED
  BY <1>1, <1>2

-----------------------------------------------------------------------------
(***************************************************************************)
(* The theorems.                                                           *)
(***************************************************************************)
LEMMA InitIInv == Init => IInv
<1>. SUFFICES ASSUME Init PROVE IInv
  OBVIOUS
<1>1. DOMAIN entries = {} /\ xhash.vals = NULL /\ EntriesSound
  BY NoEntries DEF Init
<1>2. AtSound
  BY DEF Init, AtSound, Start, Walks
<1>3. MapSound
  BY <1>1 DEF Init, MapSound, NoCtx, Built, Walks
<1>4. FilledSound /\ TroubleSound
  BY <1>1 DEF Init, FilledSound, TroubleSound, Walks
<1>. QED
  BY <1>1, <1>2, <1>3, <1>4 DEF IInv

LEMMA StutterKeeps == IInv /\ UNCHANGED vars => IInv'
<1>. SUFFICES ASSUME IInv, UNCHANGED vars PROVE IInv'
  OBVIOUS
<1>. USE DEF IInv, vars, walk
<1>1. AtSound'
  BY DEF AtSound, modes_node, pids_node
<1>2. MapSound'
  BY DEF MapSound, Live, entries
<1>3. EntriesSound'
  BY EntriesUntouched DEF MapSound
<1>4. FilledSound'
  BY DEF FilledSound, Entry, entries, NotYet, fields_node, pids_node, modes_node
<1>5. TroubleSound'
  BY DEF TroubleSound
<1>. QED
  BY <1>1, <1>2, <1>3, <1>4, <1>5

LEMMA NextKeeps == IInv /\ [Next]_vars => IInv'
<1>. SUFFICES ASSUME IInv, [Next]_vars PROVE IInv'
  OBVIOUS
<1>1. CASE Setup
  BY <1>1, MallocCtxKeeps, XhInitKeeps, InitParserKeeps, LoadDocumentKeeps DEF Setup
<1>2. CASE Walk
  BY <1>2, ParseEndianKeeps, EnterModepidKeeps, EnterModeKeeps, LeaveModepidKeeps,
     PutModePidKeeps, LeaveModeKeeps, ParseNameKeeps, ParseScalarKeeps, ParseExprKeeps,
     LeaveDescKeeps, StopAtDocumentKeeps, LeaveDocKeeps DEF Walk
<1>3. CASE ParseEnd \/ XhTrim \/ DestroyMap \/ FreeCtx
  BY <1>3, ParseEndKeeps, XhTrimKeeps, DestroyMapKeeps, FreeCtxKeeps
<1>4. CASE Refuse \/ Open \/ Gone
  BY <1>4, RefuseKeeps, OpenKeeps, GoneKeeps
<1>5. CASE UNCHANGED vars
  BY <1>5, StutterKeeps
<1>. QED
  BY <1>1, <1>2, <1>3, <1>4, <1>5 DEF Next, Load

\* The walk never loses its place, no two entries share a block, and only the
\* entry parse_desc() is at has fields that were never set.
THEOREM LoaderInvariant == Spec => []IInv
<1>. QED
  BY InitIInv, NextKeeps, PTL DEF Spec

\* yobd_free_ctx() frees every block of a loaded context, each of them once.
THEOREM EntriesOwn == Spec => []EntriesOwnTheirBlocks
<1>1. IInv => EntriesOwnTheirBlocks
  <2>. SUFFICES ASSUME IInv, pc = "loaded" PROVE FreeIsDefined /\ Owned \subseteq heap
    BY DEF EntriesOwnTheirBlocks
  <2>1. FreeIsDefined
    BY LoadedIsFreed
  <2>2. Only("ctx") \in heap /\ (xhash.vals = NULL \/ xhash.vals \in heap)
    BY DEF IInv, MapSound, Built, Live
  <2>. QED
    BY <2>1, <2>2 DEF FreeIsDefined, Owned
<1>. QED
  BY <1>1, LoaderInvariant, PTL

-----------------------------------------------------------------------------
(***************************************************************************)
(* The error of a load.  There is none up to the end of the walk, so that  *)
(* an assertion that fails on the way back belongs to xh_init().           *)
(***************************************************************************)
BeforeTheEnd == {"malloc", "xh_init", "yaml_parser_initialize", "yaml_parser_load"} \cup Walks

ErrIsCause ==
  /\ pc \in BeforeTheEnd => err = "none"
  /\ pc = "xassert" /\ err = "YOBD_OOM" => "xh_init" \in failed

LEMMA ErrKeeps == ErrIsCause /\ [Next]_vars => ErrIsCause'
<1>. SUFFICES ASSUME ErrIsCause, [Next]_vars PROVE ErrIsCause'
  OBVIOUS
<1>. USE DEF ErrIsCause, BeforeTheEnd, Walks
<1>1. CASE Refuse \/ Open \/ MallocCtx
  BY <1>1 DEF Refuse, Open, MallocCtx
<1>2. CASE XhInit
  BY <1>2 DEF XhInit, Fails
<1>3. CASE InitParser \/ LoadDocument
  BY <1>3 DEF InitParser, LoadDocument
<1>4. CASE ParseEndian \/ EnterModepid \/ EnterMode \/ LeaveModepid \/ LeaveMode
  BY <1>4 DEF ParseEndian, EnterModepid, EnterMode, LeaveModepid, LeaveMode, AtTop
<1>5. CASE PutModePid
  BY <1>5 DEF PutModePid, Unwind
<1>6. CASE ParseName \/ ParseScalar \/ ParseExpr
  BY <1>6 DEF ParseName, ParseScalar, ParseExpr, Unwind, NextField, AtField, InDesc
<1>7. CASE LeaveDesc \/ LeaveDoc
  BY <1>7 DEF LeaveDesc, LeaveDoc, Unwind
<1>8. CASE StopAtDocument
  <2>1. pc \in Walks /\ pc' = "xassert" /\ UNCHANGED << err, failed >>
    BY <1>8 DEF StopAtDocument, Stop, AtTop, AtField, InDesc
  <2>. QED
    BY <2>1
<1>9. CASE ParseEnd \/ XhTrim \/ DestroyMap \/ FreeCtx
  BY <1>9 DEF ParseEnd, XhTrim, DestroyMap, FreeCtx
<1>10. CASE Gone \/ UNCHANGED vars
  BY <1>10 DEF Gone, vars
<1>. QED
  BY <1>1, <1>2, <1>3, <1>4, <1>5, <1>6, <1>7, <1>8, <1>9, <1>10 DEF Next, Load, Setup, Walk

\* Without a failure of the parser's start, of strdup(), of xh_put() or of
\* xh_trim() no use of freed or uninitialised memory is reached; and an
\* assertion that fails with YOBD_OOM to return is the one after xh_init().
THEOREM LateFailures == Spec => []OnlyLateFailuresKill
<1>1. IInv /\ ErrIsCause => OnlyLateFailuresKill
  BY DEF IInv, TroubleSound, OnlyLateFailuresKill, Late, ErrIsCause
<1>2. Init => ErrIsCause
  BY DEF Init, ErrIsCause, BeforeTheEnd, Walks
<1>. QED
  BY <1>1, <1>2, ErrKeeps, LoaderInvariant, PTL DEF Spec

\* parse_desc()'s assertions leave no byte count for a passed-through PID that
\* nop_eval() has no case for.
THEOREM CanBeRead == Spec => []PassedThroughCanBeRead
<1>1. IInv => PassedThroughCanBeRead
  BY DEF IInv, FilledSound, Done, PassFits, PassedThroughCanBeRead
<1>. QED
  BY <1>1, LoaderInvariant, PTL

-----------------------------------------------------------------------------
(***************************************************************************)
(* What is held.  A load owns its file, its parser and the document, and   *)
(* the map owns its array and what its entries point to; nothing else is   *)
(* on the heap, as long as no entry is filled twice.                       *)
(***************************************************************************)
Good == NothingTwice(document) /\ FitsTheKeys(document)

OfTheLoad == {Only("file"), Only("parser"), Only("doc")}

EntryBlocks == UNION {{entries[key].name, entries[key].expr.data} : key \in DOMAIN entries}

Held ==
  (OfTheLoad \cup {Only("ctx"), Only("map"), xhash.vals} \cup EntryBlocks) \ NoBlock

\* The states on the way to a loaded context.
OnTheWay ==
  pc \in {"malloc", "xh_init", "yaml_parser_initialize", "yaml_parser_load", "xh_trim", "loaded"}
           \cup Walks
    \/ (pc = "parse_end" /\ err = "YOBD_OK")

HeapSound ==
  /\ pc = "idle" /\ Good => heap = {}
  /\ pc = "malloc" => heap = {Only("file")}
  /\ OnTheWay /\ Good => heap \subseteq Held
  /\ pc \in {"xh_trim", "loaded"} => heap \cap OfTheLoad = {}

\* The key of the PID at a place, and the places the walk has come to.
KeyAt(m, p) ==
  get_modepid(ToMode(Key(modes_node[m])), Key(Val(modes_node[m])[p]))

IsPlace(m, p) == m \in 1..Len(modes_node) /\ p \in 1..Len(Val(modes_node[m]))

Visited(m, p) ==
  \/ m < at.modes
  \/ m = at.modes /\ pc = "parse_mode" /\ p < at.pids
  \/ m = at.modes /\ pc = "parse_desc" /\ p <= at.pids

Comes(m, p, key) == IsPlace(m, p) /\ Visited(m, p) /\ key = KeyAt(m, p)

\* The keys of the map are those of the places: none is there before its time.
KeysSound ==
  /\ pc \in {"parse_mode", "parse_desc"} => mode = ToMode(Key(modes_node[at.modes]))
  /\ pc = "parse_doc" /\ (\A n \in 1..(at.doc - 1) : Key(document[n]) # "modepid") =>
       DOMAIN entries = {}
  /\ pc \in Walks \ {"parse_doc"} /\ Good =>
       \A key \in DOMAIN entries : \E m, p \in Nat : Comes(m, p, key)

\* A field that has not been read yet was never set.
FreshSound ==
  pc = "parse_desc" /\ Good =>
    /\ NotYet("name") => Entry.name = Junk
    /\ NotYet("expr") => Entry.expr.data = Junk

LInv == HeapSound /\ KeysSound /\ FreshSound

-----------------------------------------------------------------------------
(***************************************************************************)
(* What keeps the blocks held.                                             *)
(***************************************************************************)
\* A block that there is one of is a block.
LEMMA OnlyIsBlock == ASSUME NEW kind, kind \notin {"NULL", "junk"} PROVE Only(kind) \notin NoBlock
<1>1. Only(kind)[1] = kind /\ NULL[1] = "NULL" /\ Junk[1] = "junk"
  BY DEF Only, NULL, Junk
<1>. QED
  BY <1>1 DEF NoBlock

LEMMA OnlysAreHeld == OfTheLoad \cup {Only("ctx"), Only("map")} \subseteq Held
<1>1. \A kind \in {"file", "parser", "doc", "ctx", "map"} : Only(kind) \notin NoBlock
  BY OnlyIsBlock
<1>. QED
  BY <1>1 DEF OfTheLoad, Held

\* As long as the map stays, what is held stays held.
LEMMA HeldStays ==
  ASSUME heap \subseteq Held, UNCHANGED xhash,
         heap' \subseteq heap \cup OfTheLoad \cup {Only("ctx"), Only("map")}
  PROVE  heap' \subseteq Held'
<1>1. Held' = Held
  BY DEF Held, EntryBlocks, entries
<1>. QED
  BY <1>1, OnlysAreHeld

\* The map's array may be another one, and its entries may be more.
LEMMA HeldByAnother ==
  ASSUME NEW array, heap \subseteq Held, array \notin NoBlock, xhash'.vals = array,
         heap' = (heap \ {xhash.vals}) \cup {array} \/ (xhash.vals = array /\ heap' = heap),
         DOMAIN entries \subseteq DOMAIN entries',
         \A key \in DOMAIN entries : entries'[key] = entries[key]
  PROVE  heap' \subseteq Held'
<1>1. EntryBlocks \subseteq EntryBlocks'
  BY DEF EntryBlocks
<1>. QED
  BY <1>1 DEF Held

\* An entry gets a block in a field that was never set.
LEMMA HeldInEntry ==
  ASSUME NEW entry, heap \subseteq Held, pid_ctx.key \in DOMAIN entries,
         entries' = [entries EXCEPT ![pid_ctx.key] = entry], xhash'.vals = xhash.vals,
         heap' \subseteq heap \cup ({entry.name, entry.expr.data} \ NoBlock),
         entry.name = Entry.name \/ Entry.name = Junk,
         entry.expr.data = Entry.expr.data \/ Entry.expr.data = Junk
  PROVE  heap' \subseteq Held'
<1>1. /\ DOMAIN entries' = DOMAIN entries /\ entries'[pid_ctx.key] = entry
      /\ \A key \in DOMAIN entries \ {pid_ctx.key} : entries'[key] = entries[key]
  BY DEF entries
<1>2. {entry.name, entry.expr.data} \subseteq EntryBlocks'
  BY <1>1 DEF EntryBlocks
<1>3. \A key \in DOMAIN entries \ {pid_ctx.key} :
        entries[key].name \in EntryBlocks' /\ entries[key].expr.data \in EntryBlocks'
  BY <1>1 DEF EntryBlocks
<1>4. Entry.name \in EntryBlocks' \cup {Junk} /\ Entry.expr.data \in EntryBlocks' \cup {Junk}
  BY <1>2
<1>5. EntryBlocks \subseteq EntryBlocks' \cup {Junk}
  BY <1>3, <1>4 DEF EntryBlocks, Entry
<1>. QED
  BY <1>2, <1>5 DEF Held, NoBlock

\* A step that takes and frees nothing, on the way or off it.
LEMMA HeapStays ==
  ASSUME HeapSound, UNCHANGED << heap, xhash, document >>, OnTheWay' => OnTheWay,
         \/ pc' = pc
         \/ pc' \notin {"idle", "malloc", "xh_trim", "loaded"}
         \/ pc = "xh_trim" /\ pc' = "loaded"
  PROVE  HeapSound'
<1>1. Good' = Good
  BY DEF Good
<1>2. OnTheWay /\ Good => heap' \subseteq Held'
  BY HeldStays DEF HeapSound
<1>. QED
  BY <1>1, <1>2 DEF HeapSound

LEMMA InitHeap == Init => HeapSound
BY DEF Init, HeapSound, OnTheWay, Walks

\* The steps of the walk that only move on, stop or give up, and the others
\* that touch no block.
LEMMA MoveHeap ==
  HeapSound /\ (ParseEndian \/ EnterModepid \/ EnterMode \/ LeaveModepid \/ LeaveMode \/ LeaveDesc
                  \/ StopAtDocument \/ LeaveDoc \/ Refuse \/ Gone \/ UNCHANGED vars)
    => HeapSound'
<1>1. ASSUME HeapSound,
             ParseEndian \/ EnterModepid \/ EnterMode \/ LeaveModepid \/ LeaveMode \/ LeaveDesc
      PROVE  HeapSound'
  <2>1. UNCHANGED << heap, xhash, document, err >> /\ pc \in Walks /\ pc' \in Walks
    BY <1>1 DEF ParseEndian, AtTop, EnterModepid, EnterMode, LeaveModepid, LeaveMode, LeaveDesc, Walks
  <2>. QED
    BY <1>1, <2>1, HeapStays DEF OnTheWay, Walks
<1>2. ASSUME HeapSound, LeaveDoc PROVE HeapSound'
  <2>1. UNCHANGED << heap, xhash, document >> /\ pc \in Walks /\ pc' = "parse_end"
    BY <1>2 DEF LeaveDoc, Unwind, walk, Walks
  <2>. QED
    BY <1>2, <2>1, HeapStays DEF OnTheWay
<1>3. ASSUME HeapSound, StopAtDocument PROVE HeapSound'
  <2>1. UNCHANGED << heap, xhash, document >> /\ pc' = "xassert"
    BY <1>3 DEF StopAtDocument, Stop, walk
  <2>. QED
    BY <1>3, <2>1, HeapStays DEF OnTheWay, Walks
<1>4. ASSUME HeapSound, Refuse \/ Gone \/ UNCHANGED vars PROVE HeapSound'
  <2>1. UNCHANGED << heap, xhash, document, pc >> /\ (err' = err \/ pc = "idle")
    BY <1>4 DEF Refuse, Gone, vars, walk
  <2>. QED
    BY <1>4, <2>1, HeapStays DEF OnTheWay, Walks
<1>. QED
  BY <1>1, <1>2, <1>3, <1>4

LEMMA SetupHeap == IInv /\ HeapSound /\ (Open \/ Setup) => HeapSound'
<1>1. ASSUME HeapSound, Open PROVE HeapSound'
  <2>1. heap' = {Only("file")} /\ pc' = "malloc"
    BY <1>1 DEF Open
  <2>2. Only("file") \in Held'
    BY OnlyIsBlock DEF Held, OfTheLoad
  <2>. QED
    BY <2>1, <2>2 DEF HeapSound
<1>2. ASSUME HeapSound, MallocCtx PROVE HeapSound'
  <2>1. /\ pc = "malloc" /\ UNCHANGED << document, xhash >>
        /\ \/ heap' = heap \cup {Only("ctx")} /\ pc' = "xh_init"
           \/ heap' = heap \ {Only("file")} /\ pc' = "idle"
    BY <1>2 DEF MallocCtx, walk
  <2>2. Good => heap \subseteq Held
    BY <1>2, <2>1 DEF HeapSound, OnTheWay
  <2>3. Good => heap' \subseteq Held'
    BY <2>1, <2>2, HeldStays
  <2>4. Good' = Good
    BY <2>1 DEF Good
  <2>5. pc' = "idle" => heap' = {}
    BY <1>2, <2>1 DEF HeapSound
  <2>. QED
    BY <2>1, <2>3, <2>4, <2>5 DEF HeapSound
<1>3. ASSUME HeapSound, XhInit \/ InitParser \/ LoadDocument PROVE HeapSound'
  <2>1. /\ pc \in {"xh_init", "yaml_parser_initialize", "yaml_parser_load"}
        /\ pc' \in {"yaml_parser_initialize", "yaml_parser_load", "parse_doc", "error", "xassert"}
        /\ UNCHANGED << document, xhash >>
        /\ heap' \subseteq heap \cup {Only("map"), Only("parser"), Only("doc")}
    BY <1>3 DEF XhInit, InitParser, LoadDocument, walk
  <2>2. Good => heap \subseteq Held
    BY <1>3, <2>1 DEF HeapSound, OnTheWay
  <2>3. Good => heap' \subseteq Held'
    BY <2>1, <2>2, HeldStays DEF OfTheLoad
  <2>4. Good' = Good
    BY <2>1 DEF Good
  <2>. QED
    BY <2>1, <2>3, <2>4 DEF HeapSound
<1>. QED
  BY <1>1, <1>2, <1>3 DEF Setup

LEMMA PutModePidHeap == IInv /\ HeapSound /\ PutModePid => HeapSound'
<1>. SUFFICES ASSUME IInv, HeapSound, PutModePid PROVE HeapSound'
  OBVIOUS
<1>. DEFINE key == get_modepid(mode, Key(pids_node[at.pids]))
            put(array) ==
              xhash' = [vals |-> array,
                        entries |-> [k \in DOMAIN entries \cup {key} |->
                                       IF k \in DOMAIN entries THEN entries[k] ELSE JunkEntry]]
<1>1. pc = "parse_mode" /\ document' = document
  BY DEF PutModePid
<1>2. Good' = Good
  BY <1>1 DEF Good
<1>3. Good => heap \subseteq Held
  BY <1>1 DEF HeapSound, OnTheWay, Walks
<1>4. ASSUME NEW array, put(array), array \notin NoBlock, pc' = "parse_desc",
             heap' = (heap \ {xhash.vals}) \cup {array} \/ (xhash.vals = array /\ heap' = heap)
      PROVE  HeapSound'
  <2>. HIDE DEF key
  <2>1. xhash'.vals = array
    BY <1>4
  <2>2. DOMAIN entries \subseteq DOMAIN entries' /\ \A k \in DOMAIN entries : entries'[k] = entries[k]
    BY <1>4 DEF entries
  <2>3. Good => heap' \subseteq Held'
    BY <1>3, <1>4, <2>1, <2>2, HeldByAnother
  <2>. QED
    BY <1>2, <1>4, <2>3 DEF HeapSound
<1>5. ASSUME xhash.vals # NULL, put(xhash.vals), pc' = "parse_desc", UNCHANGED << heap, serial >>
      PROVE  HeapSound'
  <2>. HIDE DEF put
  <2>1. xhash.vals[1] = "vals" /\ Junk[1] = "junk"
    BY <1>1, <1>5 DEF IInv, MapSound, Built, Walks, Live, Junk
  <2>2. xhash.vals \notin NoBlock
    BY <1>5, <2>1 DEF NoBlock
  <2>. QED
    BY <1>4, <1>5, <2>2
<1>6. ASSUME NEW array, array = Fresh("vals", ""), put(array), pc' = "parse_desc",
             heap' = (heap \ {xhash.vals}) \cup {array}
      PROVE  HeapSound'
  <2>. HIDE DEF put
  <2>1. array[1] = "vals" /\ Junk[1] = "junk" /\ NULL[1] = "NULL"
    BY <1>6 DEF Fresh, Junk, NULL
  <2>2. array \notin NoBlock
    BY <2>1 DEF NoBlock
  <2>. QED
    BY <1>4, <1>6, <2>2
<1>7. ASSUME Unwind("YOBD_OOM"), UNCHANGED << xhash, heap >> PROVE HeapSound'
  BY <1>1, <1>7, HeapStays DEF Unwind, OnTheWay, Walks
<1>8. \/ xhash.vals # NULL /\ put(xhash.vals) /\ pc' = "parse_desc" /\ UNCHANGED << heap, serial >>
      \/ put(Fresh("vals", "")) /\ pc' = "parse_desc"
           /\ heap' = (heap \ {xhash.vals}) \cup {Fresh("vals", "")}
      \/ Unwind("YOBD_OOM") /\ UNCHANGED << xhash, heap >>
  BY Zenon DEF PutModePid
<1>. HIDE DEF put
<1>. QED
  BY <1>5, <1>6, <1>7, <1>8, Zenon

LEMMA EndHeap == IInv /\ HeapSound /\ (ParseEnd \/ DestroyMap) => HeapSound'
<1>1. ASSUME HeapSound, ParseEnd PROVE HeapSound'
  <2>1. /\ pc = "parse_end" /\ UNCHANGED << document, xhash, err >> /\ heap' \subseteq heap
        /\ \/ err = "YOBD_OK" /\ pc' = "xh_trim" /\ heap' = heap \ OfTheLoad
           \/ err # "YOBD_OK" /\ pc' = "error"
    BY <1>1 DEF ParseEnd, walk, OfTheLoad
  <2>2. Good' = Good
    BY <2>1 DEF Good
  <2>3. CASE err # "YOBD_OK"
    BY <2>1, <2>3 DEF HeapSound, OnTheWay, Walks
  <2>4. CASE err = "YOBD_OK"
    <3>1. Good => heap \subseteq Held
      BY <1>1, <2>1, <2>4 DEF HeapSound, OnTheWay
    <3>2. Good => heap' \subseteq Held'
      BY <2>1, <3>1, HeldStays
    <3>3. heap' \cap OfTheLoad = {} /\ OfTheLoad' = OfTheLoad
      BY <2>1, <2>4 DEF OfTheLoad
    <3>. QED
      BY <2>1, <2>2, <2>4, <3>2, <3>3 DEF HeapSound
  <2>. QED
    BY <2>3, <2>4
<1>2. ASSUME DestroyMap PROVE HeapSound'
  BY <1>2 DEF DestroyMap, HeapSound, OnTheWay, Walks
<1>. QED
  BY <1>1, <1>2

LEMMA XhTrimHeap == IInv /\ HeapSound /\ XhTrim => HeapSound'
<1>. SUFFICES ASSUME IInv, HeapSound, XhTrim PROVE HeapSound'
  OBVIOUS
<1>1. pc = "xh_trim" /\ pc' \in {"loaded", "error"} /\ document' = document
  BY DEF XhTrim, walk
<1>2. Good' = Good
  BY <1>1 DEF Good
<1>3. ASSUME UNCHANGED << heap, xhash >> PROVE HeapSound'
  BY <1>1, <1>3, HeapStays DEF OnTheWay, Walks
<1>4. ASSUME NEW array, array = Fresh("vals", ""), heap' = (heap \ {xhash.vals}) \cup {array},
             xhash' = [xhash EXCEPT !.vals = array]
      PROVE  HeapSound'
  <2>1. array[1] = "vals"
    BY <1>4 DEF Fresh
  <2>2. array \notin NoBlock /\ array \notin OfTheLoad
    <3>1. NULL[1] = "NULL" /\ Junk[1] = "junk"
      BY DEF NULL, Junk
    <3>2. Only("doc")[1] = "doc" /\ Only("parser")[1] = "parser" /\ Only("file")[1] = "file"
      BY DEF Only
    <3>. QED
      BY <2>1, <3>1, <3>2 DEF NoBlock, OfTheLoad
  <2>3. xhash'.vals = array /\ entries' = entries
    BY <1>4 DEF IInv, EntriesSound, entries
  <2>4. Good => heap \subseteq Held
    BY <1>1 DEF HeapSound, OnTheWay
  <2>5. Good => heap' \subseteq Held'
    BY <1>4, <2>2, <2>3, <2>4, HeldByAnother
  <2>6. heap' \cap OfTheLoad = {} /\ OfTheLoad' = OfTheLoad
    BY <1>1, <1>4, <2>2 DEF HeapSound, OfTheLoad
  <2>. QED
    BY <1>1, <1>2, <2>5, <2>6 DEF HeapSound
<1>5. \/ UNCHANGED << heap, xhash >>
      \/ /\ heap' = (heap \ {xhash.vals}) \cup {Fresh("vals", "")}
         /\ xhash' = [xhash EXCEPT !.vals = Fresh("vals", "")]
  BY DEF XhTrim
<1>. QED
  BY <1>3, <1>4, <1>5, Zenon

\* yobd_free_ctx() frees all that a loaded context holds.
LEMMA FreeCtxHeap == IInv /\ HeapSound /\ FreeCtx => HeapSound'
<1>. SUFFICES ASSUME IInv, HeapSound, FreeCtx PROVE HeapSound'
  OBVIOUS
<1>1. CASE FreeIsDefined
  <2>1. pc = "loaded"
    BY <1>1 DEF FreeCtx, FreeIsDefined, IInv, TroubleSound
  <2>2. pc' = "idle" /\ heap' = heap \ Owned /\ document' = document
    BY <1>1, <2>1 DEF FreeCtx
  <2>3. ctx.modepid_map = Only("map") /\ ctx.modepid_map # NULL /\ Only("ctx") # NULL
    <3>1. ctx.modepid_map = Only("map")
      BY <2>1 DEF IInv, MapSound, Built
    <3>. QED
      BY <3>1, OnlyIsBlock DEF NoBlock
  <2>4. Held \subseteq OfTheLoad \cup Owned
    BY <2>3 DEF Held, EntryBlocks, NoBlock, Owned, Pointers
  <2>5. Good => heap \subseteq Held /\ heap \cap OfTheLoad = {}
    BY <2>1 DEF HeapSound, OnTheWay
  <2>6. Good => heap' = {}
    BY <2>2, <2>4, <2>5
  <2>. QED
    BY <2>2, <2>6 DEF HeapSound, OnTheWay, Walks, Good
<1>2. CASE ~FreeIsDefined
  BY <1>2 DEF FreeCtx, HeapSound, OnTheWay, Walks
<1>. QED
  BY <1>1, <1>2

\* What parse_desc() finds in a field that it fills: nothing, as long as no
\* field is said twice.
LEMMA FieldIsFresh ==
  ASSUME NEW name, IInv, FreshSound, Good, AtField(name), name \in {"name", "expr"}
  PROVE  IF name = "name" THEN Entry.name = Junk ELSE Entry.expr.data = Junk
<1>1. pc = "parse_desc" /\ at.fields \in 1..Len(fields_node) /\ Key(fields_node[at.fields]) = name
  BY DEF AtField, InDesc, IInv, AtSound, Walks
<1>2. SaysOnce(fields_node)
  <2>1. /\ at.doc \in 1..Len(document) /\ Key(document[at.doc]) = "modepid"
        /\ at.modes \in 1..Len(modes_node) /\ at.pids \in 1..Len(pids_node)
    BY <1>1 DEF IInv, AtSound, Walks
  <2>2. NothingTwice(document)
    BY DEF Good
  <2>. QED
    BY <2>1, <2>2 DEF NothingTwice, modes_node, pids_node, fields_node
<1>3. Len(fields_node) \in Nat
  BY <1>1, DocumentsAssumption
     DEF DescriptionIsWhole, IInv, AtSound, Walks, fields_node, pids_node, modes_node
<1>4. NotYet(name)
  BY <1>1, <1>2, <1>3 DEF SaysOnce, NotYet
<1>. QED
  BY <1>1, <1>4 DEF FreshSound

\* A field is read into the entry: no block is lost, and the fields that are
\* still to come are as fresh as they were.
LEMMA FieldHolds ==
  ASSUME NEW entry, IInv, HeapSound, FreshSound, InDesc, NextField, SetEntry(entry),
         UNCHANGED err, heap' \subseteq heap \cup ({entry.name, entry.expr.data} \ NoBlock),
         entry.name = Entry.name \/ (AtField("name") /\ (Good => Entry.name = Junk)),
         entry.expr.data = Entry.expr.data \/ (AtField("expr") /\ (Good => Entry.expr.data = Junk))
  PROVE  HeapSound' /\ FreshSound'
<1>1. pc = "parse_desc" /\ pid_ctx.key \in DOMAIN entries
  BY DEF InDesc, IInv, MapSound
<1>2. UNCHANGED << pc, document, mode, pid_ctx >> /\ at' = [at EXCEPT !.fields = @ + 1]
  BY DEF NextField
<1>3. /\ entries' = [entries EXCEPT ![pid_ctx.key] = entry] /\ xhash'.vals = xhash.vals
      /\ Entry' = entry
  <2>1. entries' = [entries EXCEPT ![pid_ctx.key] = entry] /\ xhash'.vals = xhash.vals
    BY DEF SetEntry, IInv, EntriesSound, entries
  <2>. QED
    BY <1>1, <1>2, <2>1 DEF Entry
<1>4. Good' = Good
  BY <1>2 DEF Good
<1>5. Good => heap' \subseteq Held'
  <2>1. Good => heap \subseteq Held
    BY <1>1 DEF HeapSound, OnTheWay, Walks
  <2>. QED
    BY <1>1, <1>3, <2>1, HeldInEntry
<1>6. HeapSound'
  BY <1>1, <1>2, <1>4, <1>5 DEF HeapSound
<1>7. /\ at'.fields = at.fields + 1 /\ at.fields \in Nat \ {0}
      /\ at'.doc = at.doc /\ at'.modes = at.modes /\ at'.pids = at.pids
  BY <1>1, <1>2 DEF IInv, AtSound
<1>8. fields_node' = fields_node
  BY <1>2, <1>7 DEF fields_node, pids_node, modes_node
<1>9. \A name : NotYet(name)' => NotYet(name) /\ Key(fields_node[at.fields]) # name
  BY <1>7, <1>8 DEF NotYet
<1>10. ASSUME Good PROVE NotYet("name")' => Entry'.name = Junk
  <2>1. NotYet("name")' => NotYet("name") /\ ~AtField("name")
    BY <1>9 DEF AtField
  <2>. QED
    BY <1>1, <1>3, <1>10, <2>1 DEF FreshSound
<1>11. ASSUME Good PROVE NotYet("expr")' => Entry'.expr.data = Junk
  <2>1. NotYet("expr")' => NotYet("expr") /\ ~AtField("expr")
    BY <1>9 DEF AtField
  <2>. QED
    BY <1>1, <1>3, <1>11, <2>1 DEF FreshSound
<1>12. FreshSound'
  BY <1>4, <1>10, <1>11 DEF FreshSound
<1>. QED
  BY <1>6, <1>12

LEMMA ParseScalarHolds == IInv /\ HeapSound /\ FreshSound /\ ParseScalar => HeapSound' /\ FreshSound'
<1>. SUFFICES ASSUME IInv, HeapSound, FreshSound, ParseScalar PROVE HeapSound' /\ FreshSound'
  OBVIOUS
<1>1. PICK entry :
        /\ SetEntry(entry)
        /\ \/ entry = [Entry EXCEPT !.can_bytes = field % 256]
           \/ entry = [Entry EXCEPT !.convert_func = find_convert_func[field]]
           \/ entry = [Entry EXCEPT !.unit = field]
  BY DEF ParseScalar
<1>2. InDesc /\ NextField /\ UNCHANGED << err, heap >>
  BY DEF ParseScalar, AtField
<1>3. pc = "parse_desc"
  BY <1>2 DEF InDesc
<1>4. entry.name = Entry.name /\ entry.expr = Entry.expr
  BY <1>1, <1>3, EntryOfIInv DEF IsEntry
<1>. QED
  BY <1>1, <1>2, <1>4, FieldHolds

LEMMA ParseNameHolds == IInv /\ HeapSound /\ FreshSound /\ ParseName => HeapSound' /\ FreshSound'
<1>. SUFFICES ASSUME IInv, HeapSound, FreshSound, ParseName PROVE HeapSound' /\ FreshSound'
  OBVIOUS
<1>1. pc = "parse_desc" /\ InDesc /\ AtField("name")
  BY DEF ParseName, AtField, InDesc
<1>2. ASSUME NEW name, name = Fresh("name", field), Acquire(name),
             SetEntry([Entry EXCEPT !.name = name]), NextField, UNCHANGED err
      PROVE  HeapSound' /\ FreshSound'
  <2>. DEFINE entry == [Entry EXCEPT !.name = name]
  <2>1. entry.name = name /\ entry.expr = Entry.expr
    BY <1>1, EntryOfIInv DEF IsEntry
  <2>2. name \notin NoBlock
    <3>1. name[1] = "name" /\ NULL[1] = "NULL" /\ Junk[1] = "junk"
      BY <1>2 DEF Fresh, NULL, Junk
    <3>. QED
      BY <3>1 DEF NoBlock
  <2>3. heap' = heap \cup {name} /\ SetEntry(entry)
    BY <1>2 DEF Acquire
  <2>4. Good => Entry.name = Junk
    BY <1>1, FieldIsFresh
  <2>. HIDE DEF entry
  <2>5. heap' \subseteq heap \cup ({entry.name, entry.expr.data} \ NoBlock)
    BY <2>1, <2>2, <2>3
  <2>. QED
    BY <1>1, <1>2, <2>1, <2>3, <2>4, <2>5, FieldHolds
<1>3. ASSUME Fails("strdup"), SetEntry([Entry EXCEPT !.name = NULL]), Unwind("YOBD_OOM"),
             UNCHANGED << walk, heap, serial >>
      PROVE  HeapSound' /\ FreshSound'
  BY <1>3 DEF Unwind, HeapSound, FreshSound, OnTheWay, Walks
<1>. QED
  BY <1>2, <1>3, Zenon DEF ParseName

LEMMA FormulaHolds ==
  ASSUME NEW type, NEW data, IInv, HeapSound, FreshSound, AtField("expr"), NextField,
         SetEntry([Entry EXCEPT !.pid_type = Scalar(field, "type"), !.expr = Expr(type, data)]),
         heap' \subseteq heap \cup ({data} \ NoBlock), UNCHANGED err
  PROVE  HeapSound' /\ FreshSound'
<1>. DEFINE entry == [Entry EXCEPT !.pid_type = Scalar(field, "type"), !.expr = Expr(type, data)]
<1>1. pc = "parse_desc" /\ InDesc
  BY DEF AtField, InDesc
<1>2. entry.name = Entry.name /\ entry.expr.data = data
  <2>1. IsEntry(Entry)
    BY <1>1, EntryOfIInv
  <2>2. entry = [name |-> Entry.name, can_bytes |-> Entry.can_bytes, unit |-> Entry.unit,
                 convert_func |-> Entry.convert_func, pid_type |-> Scalar(field, "type"),
                 expr |-> Expr(type, data)]
    BY <2>1, EntryWithFormula
  <2>3. Expr(type, data).data = data
    BY DEF Expr
  <2>. HIDE DEF entry
  <2>. QED
    BY <2>2, <2>3
<1>3. SetEntry(entry)
  OBVIOUS
<1>4. Good => Entry.expr.data = Junk
  BY FieldIsFresh
<1>. HIDE DEF entry
<1>5. heap' \subseteq heap \cup ({entry.name, entry.expr.data} \ NoBlock)
  BY <1>2
<1>. QED
  BY <1>1, <1>2, <1>3, <1>4, <1>5, FieldHolds

LEMMA ParseExprHolds == IInv /\ HeapSound /\ FreshSound /\ ParseExpr => HeapSound' /\ FreshSound'
<1>. SUFFICES ASSUME IInv, HeapSound, FreshSound, ParseExpr PROVE HeapSound' /\ FreshSound'
  OBVIOUS
<1>. DEFINE text == Scalar(field, "val")
            set(type, data) ==
              SetEntry([Entry EXCEPT !.pid_type = Scalar(field, "type"), !.expr = Expr(type, data)])
<1>1. AtField("expr") /\ NextField /\ UNCHANGED err
  BY DEF ParseExpr
<1>2. ASSUME NEW type, set(type, NULL), heap' = heap PROVE HeapSound' /\ FreshSound'
  BY <1>1, <1>2, FormulaHolds
<1>3. ASSUME NEW data, data = Fresh("expr", text), Acquire(data), set("EXPR_STACK", data)
      PROVE  HeapSound' /\ FreshSound'
  <2>1. data \notin NoBlock
    <3>1. data[1] = "expr" /\ NULL[1] = "NULL" /\ Junk[1] = "junk"
      BY <1>3 DEF Fresh, NULL, Junk
    <3>. QED
      BY <3>1 DEF NoBlock
  <2>2. heap' \subseteq heap \cup ({data} \ NoBlock)
    BY <1>3, <2>1 DEF Acquire
  <2>. QED
    BY <1>1, <1>3, <2>2, FormulaHolds
<1>4. \/ set("EXPR_NOP", NULL) /\ heap' = heap
      \/ set("EXPR_STACK", NULL) /\ heap' = heap
      \/ Acquire(Fresh("expr", text)) /\ set("EXPR_STACK", Fresh("expr", text))
  BY DEF ParseExpr
<1>. HIDE DEF set, text
<1>. QED
  BY <1>2, <1>3, <1>4, Zenon

-----------------------------------------------------------------------------
(***************************************************************************)
(* What keeps the keys those of the places.                                *)
(***************************************************************************)
\* Of a document that says nothing twice, with modes and PIDs that fit, no two
\* places have one key.
LEMMA PlacesHaveKeys ==
  ASSUME IInv, pc \in Walks \ {"parse_doc"}, Good,
         NEW m, NEW p, IsPlace(m, p), NEW i, NEW j, IsPlace(i, j), KeyAt(m, p) = KeyAt(i, j)
  PROVE  m = i /\ p = j
<1>1. at.doc \in 1..Len(document) /\ Key(document[at.doc]) = "modepid"
  BY DEF IInv, AtSound
<1>2. /\ SaysOnce(modes_node)
      /\ \A n \in 1..Len(modes_node) : SaysOnce(Val(modes_node[n]))
  BY <1>1 DEF Good, NothingTwice, modes_node
<1>3. ASSUME NEW n, NEW q, IsPlace(n, q)
      PROVE  KeyAt(n, q) = << Key(modes_node[n]), Key(Val(modes_node[n])[q]) >>
  <2>. DEFINE a == Key(modes_node[n])
              b == Key(Val(modes_node[n])[q])
  <2>1. << at.doc, n, q >> \in Places(document)
    BY <1>1, <1>3 DEF Places, IsPlace, modes_node
  <2>2. NameAt(document, << at.doc, n, q >>) = << a, b >>
    BY DEF NameAt, ModeAt, PidAt, modes_node
  <2>3. << a, b >> \in Pids(document)
    BY <2>1, <2>2 DEF Pids
  <2>4. a \in 0..255 /\ b \in 0..(HALF - 1)
    BY <2>3 DEF Good, FitsTheKeys
  <2>5. KeyAt(n, q) = get_modepid(a, b)
    <3>1. ToMode(a) = a
      BY <2>4 DEF ToMode
    <3>. QED
      BY <3>1 DEF KeyAt
  <2>. HIDE DEF a, b
  <2>6. (b \div 65536) % 65536 = 0 /\ b % 65536 = b
    <3>1. b \in Nat /\ b < 65536
      <4>1. b \in 0..(HALF - 1)
        BY <2>4
      <4>2. HALF \in Nat
        BY DEF HALF
      <4>3. b \in Nat /\ b < HALF
        BY <4>1, <4>2
      <4>. QED
        BY ONLY <4>3 DEF HALF
    <3>. QED
      BY <3>1
  <2>7. get_modepid(a, b) = << a, b >>
    BY <2>6 DEF get_modepid, Or, HALF
  <2>. QED
    BY <2>5, <2>7 DEF a, b
<1>4. Key(modes_node[m]) = Key(modes_node[i])
  BY <1>3
<1>5. m = i
  BY <1>2, <1>4 DEF SaysOnce, IsPlace
<1>6. Key(Val(modes_node[m])[p]) = Key(Val(modes_node[m])[j])
  BY <1>3, <1>5
<1>. QED
  BY <1>2, <1>5, <1>6 DEF SaysOnce, IsPlace

LEMMA InitKeys == Init => KeysSound /\ FreshSound
<1>. SUFFICES ASSUME Init PROVE KeysSound /\ FreshSound
  OBVIOUS
<1>1. pc = "idle"
  BY DEF Init
<1>. QED
  BY <1>1 DEF KeysSound, FreshSound, Walks

\* A step off the walk.
LEMMA AwayKeys ==
  ASSUME pc' \notin Walks
  PROVE  KeysSound' /\ FreshSound'
BY DEF KeysSound, FreshSound, Walks

LEMMA OffWalkKeys ==
  Refuse \/ Open \/ MallocCtx \/ XhInit \/ InitParser \/ StopAtDocument \/ LeaveDoc
    \/ ParseEnd \/ XhTrim \/ DestroyMap \/ FreeCtx
    => KeysSound' /\ FreshSound'
<1>1. ASSUME Refuse \/ Open \/ MallocCtx \/ XhInit \/ InitParser PROVE pc' \notin Walks
  BY <1>1 DEF Refuse, Open, MallocCtx, XhInit, InitParser, Walks
<1>2. ASSUME StopAtDocument \/ LeaveDoc \/ ParseEnd \/ XhTrim \/ DestroyMap PROVE pc' \notin Walks
  BY <1>2 DEF StopAtDocument, Stop, LeaveDoc, Unwind, ParseEnd, XhTrim, DestroyMap, Walks
<1>3. ASSUME FreeCtx PROVE pc' \notin Walks
  BY <1>3 DEF FreeCtx, Walks
<1>. QED
  BY <1>1, <1>2, <1>3, AwayKeys

LEMMA StandKeys == KeysSound /\ FreshSound /\ (Gone \/ UNCHANGED vars) => KeysSound' /\ FreshSound'
<1>. SUFFICES ASSUME KeysSound, FreshSound, Gone \/ UNCHANGED vars PROVE KeysSound' /\ FreshSound'
  OBVIOUS
<1>1. UNCHANGED << pc, document, at, mode, pid_ctx, xhash >>
  BY DEF Gone, vars, walk
<1>2. UNCHANGED << modes_node, pids_node, fields_node, entries, Good, Entry >>
  BY <1>1 DEF modes_node, pids_node, fields_node, entries, Good, Entry
<1>3. \A m, p, key : Comes(m, p, key) => Comes(m, p, key)'
  BY <1>1, <1>2 DEF Comes, IsPlace, Visited, KeyAt
<1>4. KeysSound'
  BY <1>1, <1>2, <1>3 DEF KeysSound
<1>5. FreshSound'
  BY <1>1, <1>2 DEF FreshSound, NotYet
<1>. QED
  BY <1>4, <1>5

\* The steps of the outer loop.
LEMMA DocumentKeys ==
  IInv /\ KeysSound /\ (LoadDocument \/ ParseEndian \/ EnterModepid \/ LeaveModepid)
    => KeysSound' /\ FreshSound'
<1>1. ASSUME IInv, LoadDocument PROVE KeysSound' /\ FreshSound'
  <2>1. pc' = "parse_doc" \/ pc' = "xassert"
    BY <1>1 DEF LoadDocument
  <2>2. xhash' = NoMap
    BY <1>1 DEF LoadDocument, IInv, MapSound
  <2>. QED
    BY <2>1, <2>2, NoEntriesNext DEF KeysSound, FreshSound, Walks
<1>2. ASSUME IInv, KeysSound, ParseEndian PROVE KeysSound' /\ FreshSound'
  <2>1. /\ pc = "parse_doc" /\ UNCHANGED << pc, document, xhash >>
        /\ at'.doc = at.doc + 1 /\ at.doc \in Nat
    BY <1>2 DEF ParseEndian, AtTop, IInv, AtSound
  <2>2. 1..(at.doc - 1) \subseteq 1..(at'.doc - 1) /\ entries' = entries
    BY <2>1 DEF entries
  <2>. QED
    BY <1>2, <2>1, <2>2 DEF KeysSound, FreshSound, Walks
<1>3. ASSUME IInv, KeysSound, EnterModepid PROVE KeysSound' /\ FreshSound'
  <2>1. /\ pc = "parse_doc" /\ pc' = "parse_modepid" /\ UNCHANGED << document, xhash >>
        /\ at.doc <= Len(document) /\ Key(document[at.doc]) = "modepid" /\ at.doc \in Nat \ {0}
    BY <1>3 DEF EnterModepid, AtTop, IInv, AtSound, Walks
  <2>2. Good' = Good /\ DOMAIN entries' = DOMAIN entries
    BY <2>1 DEF Good, entries
  <2>3. Len(document) \in Nat
    BY <2>1, DocumentsAssumption DEF IInv, AtSound
  <2>4. Good => \A n \in 1..(at.doc - 1) : Key(document[n]) # "modepid"
    BY <2>1, <2>3 DEF Good, NothingTwice, SaysOnce
  <2>5. Good => DOMAIN entries' = {}
    BY <1>3, <2>1, <2>2, <2>4 DEF KeysSound
  <2>. QED
    BY <2>1, <2>2, <2>5 DEF KeysSound, FreshSound
<1>4. ASSUME IInv, LeaveModepid PROVE KeysSound' /\ FreshSound'
  <2>1. /\ pc = "parse_modepid" /\ pc' = "parse_doc" /\ document' = document
        /\ at'.doc = at.doc + 1 /\ at.doc \in Nat \ {0} /\ Key(document[at.doc]) = "modepid"
    BY <1>4 DEF LeaveModepid, IInv, AtSound, Walks
  <2>2. at.doc \in 1..(at'.doc - 1)
    BY <2>1
  <2>. QED
    BY <2>1, <2>2 DEF KeysSound, FreshSound
<1>. QED
  BY <1>1, <1>2, <1>3, <1>4

\* The steps of the inner loops that leave the keys alone.
LEMMA ComesStays ==
  ASSUME KeysSound, pc \in Walks \ {"parse_doc"}, pc' \in Walks \ {"parse_doc"},
         UNCHANGED << document, modes_node >>, DOMAIN entries' = DOMAIN entries,
         \A m, p \in Nat : Visited(m, p) => Visited(m, p)',
         pc' \in {"parse_mode", "parse_desc"} => mode' = ToMode(Key(modes_node'[at'.modes]))
  PROVE  KeysSound'
<1>1. Good' = Good
  BY DEF Good
<1>2. \A key : \A m, p \in Nat : Comes(m, p, key) => Comes(m, p, key)'
  BY DEF Comes, IsPlace, KeyAt
<1>. QED
  BY <1>1, <1>2 DEF KeysSound

LEMMA ModeKeys ==
  IInv /\ KeysSound /\ (EnterMode \/ LeaveMode \/ LeaveDesc) => KeysSound' /\ FreshSound'
<1>. SUFFICES ASSUME IInv, KeysSound, EnterMode \/ LeaveMode \/ LeaveDesc
              PROVE  KeysSound' /\ FreshSound'
  OBVIOUS
<1>1. /\ UNCHANGED << document, xhash >> /\ pc \in Walks \ {"parse_doc"}
      /\ pc' \in {"parse_modepid", "parse_mode"}
      /\ at'.doc = at.doc /\ at.modes \in Nat /\ at.pids \in Nat
      /\ \/ pc = "parse_modepid" /\ pc' = "parse_mode" /\ at'.modes = at.modes
              /\ mode' = ToMode(Key(modes_node[at.modes]))
         \/ pc = "parse_mode" /\ pc' = "parse_modepid" /\ at'.modes = at.modes + 1
         \/ /\ pc = "parse_desc" /\ pc' = "parse_mode" /\ at'.modes = at.modes /\ mode' = mode
            /\ at'.pids = at.pids + 1
  BY DEF EnterMode, LeaveMode, LeaveDesc, IInv, AtSound, Walks
<1>2. modes_node' = modes_node /\ entries' = entries
  BY <1>1 DEF modes_node, entries
<1>3. \A m, p \in Nat : Visited(m, p) => Visited(m, p)'
  BY <1>1 DEF Visited
<1>4. pc' \in {"parse_mode", "parse_desc"} => mode' = ToMode(Key(modes_node'[at'.modes]))
  BY <1>1, <1>2 DEF KeysSound
<1>5. KeysSound'
  BY <1>1, <1>2, <1>3, <1>4, ComesStays DEF Walks
<1>. QED
  BY <1>1, <1>5 DEF FreshSound

LEMMA FieldsLeaveKeys ==
  IInv /\ KeysSound /\ (ParseName \/ ParseScalar \/ ParseExpr) => KeysSound'
<1>. SUFFICES ASSUME IInv, KeysSound, ParseName \/ ParseScalar \/ ParseExpr PROVE KeysSound'
  OBVIOUS
<1>1. pc = "parse_desc" /\ \E entry : SetEntry(entry)
  BY DEF ParseName, ParseScalar, ParseExpr, AtField, InDesc
<1>2. DOMAIN entries' = DOMAIN entries
  BY <1>1 DEF SetEntry, IInv, EntriesSound, entries
<1>3. NextField \/ pc' = "parse_end"
  BY DEF ParseName, ParseScalar, ParseExpr, Unwind
<1>4. CASE NextField
  <2>1. /\ UNCHANGED << pc, document, mode >>
        /\ at'.doc = at.doc /\ at'.modes = at.modes /\ at'.pids = at.pids
    BY <1>4 DEF NextField, IInv, AtSound
  <2>2. modes_node' = modes_node
    BY <2>1 DEF modes_node
  <2>3. \A m, p \in Nat : Visited(m, p) => Visited(m, p)'
    BY <2>1 DEF Visited
  <2>4. mode' = ToMode(Key(modes_node'[at'.modes]))
    BY <1>1, <2>1, <2>2 DEF KeysSound
  <2>. QED
    BY <1>1, <1>2, <2>1, <2>2, <2>3, <2>4, ComesStays DEF Walks
<1>5. CASE pc' = "parse_end"
  BY <1>5, AwayKeys DEF Walks
<1>. QED
  BY <1>3, <1>4, <1>5

\* A key that is put was not there, so that its entry is as xh_put() makes it.
LEMMA PutKeys == IInv /\ KeysSound /\ PutModePid => KeysSound' /\ FreshSound'
<1>. SUFFICES ASSUME IInv, KeysSound, PutModePid PROVE KeysSound' /\ FreshSound'
  OBVIOUS
<1>. DEFINE put(array, key) ==
              xhash' = [vals |-> array,
                        entries |-> [k \in DOMAIN entries \cup {key} |->
                                       IF k \in DOMAIN entries THEN entries[k] ELSE JunkEntry]]
<1>1. pc = "parse_mode" /\ at.pids <= Len(pids_node) /\ UNCHANGED << document, mode >>
  BY DEF PutModePid
<1>2. PICK key : key = get_modepid(mode, Key(pids_node[at.pids]))
  OBVIOUS
<1>3. ASSUME NEW array, put(array, key), pid_ctx' = [array |-> array, key |-> key],
             at' = [at EXCEPT !.fields = 1], pc' = "parse_desc"
      PROVE  KeysSound' /\ FreshSound'
  <2>1. PICK M, P : M = at.modes /\ P = at.pids
    OBVIOUS
  <2>2. /\ at'.doc = at.doc /\ at'.modes = at.modes /\ at'.pids = at.pids
        /\ M \in 1..Len(modes_node) /\ P \in Nat \ {0} /\ M \in Nat
    BY <1>1, <1>3, <2>1, DocumentsAssumption DEF IInv, AtSound, Walks, modes_node
  <2>3. UNCHANGED << modes_node, pids_node, Good >>
    BY <1>1, <2>2 DEF modes_node, pids_node, Good
  <2>4. IsPlace(M, P) /\ key = KeyAt(M, P)
    <3>1. mode = ToMode(Key(modes_node[M]))
      BY <1>1, <2>1 DEF KeysSound
    <3>2. Len(pids_node) \in Nat
      BY <1>1, <2>1, <2>2, DocumentsAssumption DEF IInv, AtSound, Walks, modes_node, pids_node
    <3>. QED
      BY <1>1, <1>2, <2>1, <2>2, <3>1, <3>2 DEF IsPlace, KeyAt, pids_node
  <2>5. /\ DOMAIN entries' = DOMAIN entries \cup {key}
        /\ entries'[key] = IF key \in DOMAIN entries THEN entries[key] ELSE JunkEntry
    BY <1>3 DEF entries
  <2>6. ASSUME Good PROVE \A k \in DOMAIN entries : \E m, p \in Nat : Comes(m, p, k)
    BY <1>1, <2>6 DEF KeysSound, Walks
  <2>7. ASSUME Good PROVE key \notin DOMAIN entries
    <3>1. SUFFICES ASSUME key \in DOMAIN entries PROVE FALSE
      OBVIOUS
    <3>2. PICK m, p \in Nat : Comes(m, p, key)
      BY <2>6, <2>7, <3>1
    <3>3. IsPlace(m, p) /\ Visited(m, p) /\ KeyAt(m, p) = KeyAt(M, P)
      BY <2>4, <3>2 DEF Comes
    <3>4. pc \in Walks \ {"parse_doc"}
      BY <1>1 DEF Walks
    <3>5. m = M /\ p = P
      BY <2>4, <2>7, <3>3, <3>4, PlacesHaveKeys
    <3>. QED
      BY <1>1, <2>1, <2>2, <3>3, <3>5 DEF Visited
  <2>8. \A k : \A m, p \in Nat : Comes(m, p, k) => Comes(m, p, k)'
    <3>1. \A m, p \in Nat : Visited(m, p) => Visited(m, p)'
      BY <1>1, <1>3, <2>1, <2>2 DEF Visited
    <3>2. \A m, p : IsPlace(m, p)' = IsPlace(m, p) /\ KeyAt(m, p)' = KeyAt(m, p)
      BY <2>3 DEF IsPlace, KeyAt
    <3>. QED
      BY <3>1, <3>2 DEF Comes
  <2>9. Comes(M, P, key)'
    BY <1>3, <2>1, <2>2, <2>3, <2>4 DEF Comes, IsPlace, KeyAt, Visited
  <2>10. KeysSound'
    <3>1. mode' = ToMode(Key(modes_node'[at'.modes]))
      BY <1>1, <2>2, <2>3 DEF KeysSound
    <3>2. ASSUME Good PROVE \A k \in DOMAIN entries' : \E m, p \in Nat : Comes(m, p, k)'
      <4>1. \A k \in DOMAIN entries : \E m, p \in Nat : Comes(m, p, k)'
        BY <2>6, <2>8, <3>2
      <4>2. \E m, p \in Nat : Comes(m, p, key)'
        BY <2>2, <2>9
      <4>. QED
        BY <2>5, <4>1, <4>2
    <3>. QED
      BY <1>3, <2>3, <3>1, <3>2 DEF KeysSound
  <2>11. FreshSound'
    <3>1. Good' => Entry'.name = Junk /\ Entry'.expr.data = Junk
      BY <1>3, <2>3, <2>5, <2>7 DEF Entry, JunkEntry, JunkExpr
    <3>. QED
      BY <3>1 DEF FreshSound
  <2>. QED
    BY <2>10, <2>11
<1>4. ASSUME pc' = "parse_end" PROVE KeysSound' /\ FreshSound'
  BY <1>4, AwayKeys DEF Walks
<1>5. \/ pc' = "parse_end"
      \/ /\ put(xhash.vals, key) /\ pid_ctx' = [array |-> xhash.vals, key |-> key]
         /\ at' = [at EXCEPT !.fields = 1] /\ pc' = "parse_desc"
      \/ /\ put(Fresh("vals", ""), key) /\ pid_ctx' = [array |-> Fresh("vals", ""), key |-> key]
         /\ at' = [at EXCEPT !.fields = 1] /\ pc' = "parse_desc"
  BY <1>2, Zenon DEF PutModePid, Unwind
<1>. HIDE DEF put
<1>. QED
  BY <1>3, <1>4, <1>5, Zenon

LEMMA NextHolds == IInv /\ LInv /\ [Next]_vars => LInv'
<1>. SUFFICES ASSUME IInv, LInv, [Next]_vars PROVE LInv'
  OBVIOUS
<1>. USE DEF LInv
<1>1. CASE LoadDocument \/ ParseEndian \/ EnterModepid \/ LeaveModepid
  BY <1>1, MoveHeap, SetupHeap, DocumentKeys DEF Setup
<1>2. CASE EnterMode \/ LeaveMode \/ LeaveDesc
  BY <1>2, MoveHeap, ModeKeys
<1>3. CASE PutModePid
  BY <1>3, PutModePidHeap, PutKeys
<1>4. CASE ParseName \/ ParseScalar \/ ParseExpr
  BY <1>4, ParseNameHolds, ParseScalarHolds, ParseExprHolds, FieldsLeaveKeys
<1>5. CASE Refuse \/ StopAtDocument \/ LeaveDoc
  BY <1>5, MoveHeap, OffWalkKeys
<1>6. CASE Open \/ MallocCtx \/ XhInit \/ InitParser
  BY <1>6, SetupHeap, OffWalkKeys DEF Setup
<1>7. CASE ParseEnd \/ XhTrim \/ DestroyMap \/ FreeCtx
  BY <1>7, EndHeap, XhTrimHeap, FreeCtxHeap, OffWalkKeys
<1>8. CASE Gone \/ UNCHANGED vars
  BY <1>8, MoveHeap, StandKeys
<1>. QED
  BY <1>1, <1>2, <1>3, <1>4, <1>5, <1>6, <1>7, <1>8 DEF Next, Load, Setup, Walk

-----------------------------------------------------------------------------
(***************************************************************************)
(* The theorem: nothing leaks.                                             *)
(***************************************************************************)
\* Whatever fails and wherever the document ends: when the process is back at
\* the application, without a context, every block a load has acquired has been
\* freed, if the document names nothing twice and its modes and PIDs fit their
\* halves of a key.
THEOREM NothingIsLost == Spec => []NothingLeaks
<1>1. IInv /\ LInv /\ [Next]_vars => (IInv /\ LInv)'
  BY NextKeeps, NextHolds
<1>2. Init => IInv /\ LInv
  BY InitIInv, InitHeap, InitKeys DEF LInv
<1>3. LInv => NothingLeaks
  BY DEF LInv, HeapSound, NothingLeaks, Good
<1>. QED
  BY <1>1, <1>2, <1>3, PTL DEF Spec
=============================================================================

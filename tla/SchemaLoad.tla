----------------------------- MODULE SchemaLoad -----------------------------
(***************************************************************************)
(* The life of a context (src/parser.c): yobd_parse_schema() walks a YAML  *)
(* document and fills a hash map of PIDs, an application reads it, and     *)
(* yobd_free_ctx() takes it down.  Every call to the system that may fail  *)
(* does so or not, at any point of the walk.                               *)
(*                                                                         *)
(* What the process has acquired from the system is a set of blocks:       *)
(* memory, the open file, the parser.  A failing XASSERT stops it (pc =    *)
(* "xassert"); after a use of memory that is gone nothing can be said any  *)
(* more (pc = "undefined").                                                *)
(***************************************************************************)
EXTENDS PidMap, SchemaDoc, Units

CONSTANTS
  Documents,  \* the documents a schema file may hold
  Malformed,  \* the formulas of them that stop parse_expr_val()
  MayFail     \* the operations of the system that may fail

PidTypes == {"float", "int8", "uint8", "int16", "uint16", "int32", "uint32"}

\* The meta schema requires all fields.
DescriptionIsWhole(node) == Len(node) \in Nat /\ FieldKeys \subseteq Keys(node)

ASSUME DocumentsAssumption ==
  \A doc \in Documents :
    /\ Len(doc) \in Nat
    /\ \A n \in 1..Len(doc) : Key(doc[n]) = "modepid" =>
         LET modes == Val(doc[n])
         IN  /\ Len(modes) \in Nat
             /\ \A m \in 1..Len(modes) :
                  LET pids == Val(modes[m])
                  IN  /\ Len(pids) \in Nat
                      /\ \A p \in 1..Len(pids) : DescriptionIsWhole(Val(pids[p]))

Operations ==
  {"schema", "fopen", "malloc ctx", "xh_init", "yaml_parser_initialize",
   "yaml_parser_load", "xh_put", "strdup", "malloc expr", "xh_trim"}

ASSUME OperationsAssumption == MayFail \subseteq Operations

VARIABLES
  pc,        \* the function the process is in, or what it waits for
  document,  \* the document in the file
  at,        \* the pair each loop of the walk has come to
  mode,      \* parse_modepid()'s mode
  pid_ctx,   \* parse_mode()'s pointer: an array of entries and a key
  err,       \* the last error code
  heap,      \* the live blocks
  serial,    \* the number of blocks handed out
  ctx,       \* struct yobd_ctx
  xhash,     \* *ctx->modepid_map: its array of entries, and the entries
  failed     \* history: the operations that failed in this load

walk == << document, at, mode, pid_ctx >>
vars == << pc, walk, err, heap, serial, ctx, xhash, failed >>

-----------------------------------------------------------------------------
(***************************************************************************)
(* Blocks.  A block names what it was acquired for and, if it is a string  *)
(* or an expression, what it holds.                                        *)
(***************************************************************************)
NULL == << "NULL", 0, "" >>
Junk == << "junk", 0, "" >>        \* a pointer that was never set

Only(kind) == << kind, 0, "" >>    \* of which there is one at a time

Fresh(kind, holds) == << kind, serial + 1, holds >>

Acquire(block) == heap' = heap \cup {block} /\ serial' = serial + 1

Fails(op) == op \in MayFail /\ failed' = failed \cup {op}

-----------------------------------------------------------------------------
(***************************************************************************)
(* The context and its map.                                                *)
(***************************************************************************)
NoCtx  == [big_endian |-> FALSE, modepid_map |-> NULL]
NoMap  == [vals |-> NULL, entries |-> << >>]

\* An entry xh_put() has made: its memory is not initialised.
JunkExpr  == [type |-> "junk", data |-> Junk]
JunkEntry == [name |-> Junk, can_bytes |-> 0, unit |-> "junk",
              convert_func |-> "junk", pid_type |-> "junk", expr |-> JunkExpr]

entries == xhash.entries
Entry   == entries[pid_ctx.key]

SetEntry(entry) == xhash' = [xhash EXCEPT !.entries[pid_ctx.key] = entry]

\* Mutant: destroy_expr() is forgotten.
NameOnly(entry) == {entry.name} \ {NULL}

\* What yobd_free_ctx() frees for an entry, besides the array it is in.
Pointers(entry) == {entry.name, entry.expr.data} \ {NULL}

Owned ==
  ({Only("ctx"), ctx.modepid_map, xhash.vals} \ {NULL})
    \cup UNION {Pointers(entries[key]) : key \in DOMAIN entries}

\* free() of each of them is defined: it is there, and no other entry has it.
FreeIsDefined ==
  /\ ctx.modepid_map \in heap
  /\ \A key \in DOMAIN entries :
       /\ Pointers(entries[key]) \subseteq heap
       /\ entries[key].name # entries[key].expr.data \/ entries[key].name = NULL
       /\ \A other \in DOMAIN entries \ {key} :
            Pointers(entries[key]) \cap Pointers(entries[other]) = {}
-----------------------------------------------------------------------------
(***************************************************************************)
(* yobd_parse_schema(), up to the walk.                                    *)
(***************************************************************************)
Start == [doc |-> 1, modes |-> 1, pids |-> 1, fields |-> 1]

Init ==
  /\ pc = "idle"
  /\ document = << >> /\ at = Start /\ mode = 0
  /\ pid_ctx = [array |-> NULL, key |-> << 0, 0 >>]
  /\ err = "YOBD_OK"
  /\ heap = {} /\ serial = 0
  /\ ctx = NoCtx /\ xhash = NoMap
  /\ failed = {}

\* No schema is given, or there is no such file.
Refuse ==
  /\ pc = "idle"
  /\ \E op \in MayFail \cap {"schema", "fopen"} :
       /\ failed' = {op}
       /\ err' = IF op = "schema" THEN "YOBD_INVALID_PARAMETER" ELSE "YOBD_CANNOT_OPEN_FILE"
  /\ UNCHANGED << pc, walk, heap, serial, ctx, xhash >>

\* BOUND: a process that has lost memory is not followed into another load.
Open ==
  /\ pc = "idle" /\ heap = {}
  /\ document' \in Documents
  /\ heap' = heap \cup {Only("file")}
  /\ serial' = 0
  /\ failed' = {}
  /\ err' = "none"
  /\ pc' = "malloc"
  /\ UNCHANGED << at, mode, pid_ctx, ctx, xhash >>

\* big_endian is whatever the memory held.
MallocCtx ==
  /\ pc = "malloc"
  /\ \/ /\ heap' = heap \cup {Only("ctx")}
        /\ \E junk \in BOOLEAN : ctx' = [ctx EXCEPT !.big_endian = junk]
        /\ pc' = "xh_init"
        /\ UNCHANGED << err, failed >>
     \/ /\ Fails("malloc ctx")
        /\ err' = "YOBD_OOM"
        /\ heap' = heap \ {Only("file")}
        /\ pc' = "idle"
        /\ UNCHANGED ctx
  /\ UNCHANGED << walk, serial, xhash >>

\* yobd_free_ctx(), which is to clean up, asserts that there is a map.
XhInit ==
  /\ pc = "xh_init"
  /\ \/ /\ heap' = heap \cup {Only("map")}
        /\ ctx' = [ctx EXCEPT !.modepid_map = Only("map")]
        /\ pc' = "yaml_parser_initialize"
        /\ UNCHANGED << err, failed >>
     \/ /\ Fails("xh_init")
        /\ err' = "YOBD_OOM"
        /\ pc' = "xassert"
        /\ UNCHANGED << heap, ctx >>
  /\ UNCHANGED << walk, serial, xhash >>

InitParser ==
  /\ pc = "yaml_parser_initialize"
  /\ \/ /\ heap' = heap \cup {Only("parser")}
        /\ pc' = "yaml_parser_load"
        /\ UNCHANGED << err, failed >>
     \/ /\ Fails("yaml_parser_initialize")
        /\ err' = "YOBD_OOM"
        /\ pc' = "error"
        /\ UNCHANGED heap
  /\ UNCHANGED << walk, serial, ctx, xhash >>

LoadDocument ==
  /\ pc = "yaml_parser_load"
  /\ \/ /\ heap' = heap \cup {Only("doc")}
        /\ at' = Start
        /\ pc' = "parse_doc"
        /\ UNCHANGED failed
     \/ /\ Fails("yaml_parser_load")
        /\ pc' = "xassert"
        /\ UNCHANGED << heap, at >>
  /\ UNCHANGED << document, mode, pid_ctx, err, serial, ctx, xhash >>

-----------------------------------------------------------------------------
(***************************************************************************)
(* The walk: parse_doc() calls parse_modepid(), which calls parse_mode(),  *)
(* which calls parse_desc(), each with a loop over the pairs of its node.  *)
(***************************************************************************)
modes_node  == Val(document[at.doc])
pids_node   == Val(modes_node[at.modes])
fields_node == Val(pids_node[at.pids])

Stop == pc' = "xassert" /\ UNCHANGED << walk, err, heap, serial, ctx, xhash, failed >>

\* The loop of parse_doc().
AtTop(key) == pc = "parse_doc" /\ at.doc <= Len(document) /\ Key(document[at.doc]) = key

\* Mutant: the loop does not move on.
ParseEndianAgain ==
  /\ AtTop("endian")
  /\ ctx' = [ctx EXCEPT !.big_endian = (Val(document[at.doc]) = "big")]
  /\ UNCHANGED << pc, walk, err, heap, serial, xhash, failed >>

ParseEndian ==
  /\ AtTop("endian") /\ Val(document[at.doc]) \in {"big", "little"}
  /\ ctx' = [ctx EXCEPT !.big_endian = (Val(document[at.doc]) = "big")]
  /\ at' = [at EXCEPT !.doc = @ + 1]
  /\ UNCHANGED << pc, document, mode, pid_ctx, err, heap, serial, xhash, failed >>

EnterModepid ==
  /\ AtTop("modepid")
  /\ at' = [at EXCEPT !.modes = 1]
  /\ pc' = "parse_modepid"
  /\ UNCHANGED << document, mode, pid_ctx, err, heap, serial, ctx, xhash, failed >>

\* The loop of parse_modepid().
EnterMode ==
  /\ pc = "parse_modepid"
  /\ at.modes <= Len(modes_node)
  /\ mode' = ToMode(Key(modes_node[at.modes]))
  /\ at' = [at EXCEPT !.pids = 1]
  /\ pc' = "parse_mode"
  /\ UNCHANGED << document, pid_ctx, err, heap, serial, ctx, xhash, failed >>

LeaveModepid ==
  /\ pc = "parse_modepid"
  /\ at.modes > Len(modes_node)
  /\ at' = [at EXCEPT !.doc = @ + 1]
  /\ pc' = "parse_doc"
  /\ UNCHANGED << document, mode, pid_ctx, err, heap, serial, ctx, xhash, failed >>

\* An error of a callee is returned through all of them.
Unwind(error) == err' = error /\ pc' = "parse_end"

\* put_mode_pid(): the array of entries may grow, and so move; what a key
\* that is there already has for an entry stays as it is.
PutModePid ==
  LET key == get_modepid(mode, Key(pids_node[at.pids]))
      put(array) ==
        /\ pid_ctx' = [array |-> array, key |-> key]
        /\ xhash' = [vals |-> array,
                     entries |-> [k \in DOMAIN entries \cup {key} |->
                                    IF k \in DOMAIN entries THEN entries[k] ELSE JunkEntry]]
        /\ at' = [at EXCEPT !.fields = 1]
        /\ pc' = "parse_desc"
        /\ UNCHANGED << err, failed >>
  IN  /\ pc = "parse_mode"
      /\ at.pids <= Len(pids_node)
      /\ \/ xhash.vals # NULL /\ put(xhash.vals) /\ UNCHANGED << heap, serial >>
         \/ LET array == Fresh("vals", "")
            IN  /\ put(array)
                /\ heap' = (heap \ {xhash.vals}) \cup {array}
                /\ serial' = serial + 1
         \/ /\ Fails("xh_put")
            /\ Unwind("YOBD_OOM")
            /\ UNCHANGED << pid_ctx, xhash, at, heap, serial >>
      /\ UNCHANGED << document, mode, ctx >>

LeaveMode ==
  /\ pc = "parse_mode"
  /\ at.pids > Len(pids_node)
  /\ at' = [at EXCEPT !.modes = @ + 1]
  /\ pc' = "parse_modepid"
  /\ UNCHANGED << document, mode, pid_ctx, err, heap, serial, ctx, xhash, failed >>

\* The loop of parse_desc().
InDesc        == pc = "parse_desc" /\ at.fields <= Len(fields_node)
field         == Val(fields_node[at.fields])
AtField(name) == InDesc /\ Key(fields_node[at.fields]) = name
NextField     == at' = [at EXCEPT !.fields = @ + 1] /\ UNCHANGED << pc, document, mode, pid_ctx >>

\* Mutant: the name is not copied out of the document.
ParseNameInPlace ==
  /\ AtField("name")
  /\ SetEntry([Entry EXCEPT !.name = Only("doc")])
  /\ NextField
  /\ UNCHANGED << err, heap, serial, ctx, failed >>

\* A name that was there before is not freed.  After a failed strdup()
\* parse_mode() takes care that the name is NULL.
ParseName ==
  /\ AtField("name")
  /\ \/ LET name == Fresh("name", field)
        IN  /\ Acquire(name)
            /\ SetEntry([Entry EXCEPT !.name = name])
            /\ NextField
            /\ UNCHANGED << err, failed >>
     \/ /\ Fails("strdup")
        /\ SetEntry([Entry EXCEPT !.name = NULL])
        /\ Unwind("YOBD_OOM")
        /\ UNCHANGED << walk, heap, serial >>
  /\ UNCHANGED ctx

\* can_bytes is one byte wide.
ParseScalar ==
  /\ \/ AtField("bytes") /\ SetEntry([Entry EXCEPT !.can_bytes = field % 256])
     \/ /\ AtField("raw-unit") /\ field \in RawUnits
        /\ SetEntry([Entry EXCEPT !.convert_func = find_convert_func[field]])
     \/ AtField("si-unit") /\ field \in SiUnits /\ SetEntry([Entry EXCEPT !.unit = field])
  /\ NextField
  /\ UNCHANGED << err, heap, serial, ctx, failed >>

\* parse_expr() finds the two fields of an expression in any order, and must
\* know the type before it compiles.
ExprIsSound(node) ==
  /\ Keys(node) = ExprKeys
  /\ Scalar(node, "type") \in PidTypes
  /\ Scalar(node, "val") \notin Malformed

Expr(type, data) == [type |-> type, data |-> data]

\* Mutant: the error of parse_expr() is returned.
ParseExprReturnsError ==
  /\ AtField("expr")
  /\ ExprIsSound(field)
  /\ Fails("malloc expr")
  /\ SetEntry([Entry EXCEPT !.pid_type = Scalar(field, "type"), !.expr = Expr("EXPR_STACK", NULL)])
  /\ Unwind("YOBD_OOM")
  /\ UNCHANGED << walk, heap, serial, ctx >>

\* parse_expr() and, in one step, parse_expr_val() (see ExprSpec).  The error
\* that a failed malloc() makes of it is not looked at.
ParseExpr ==
  LET text == Scalar(field, "val")
      set(expr) == SetEntry([Entry EXCEPT !.pid_type = Scalar(field, "type"), !.expr = expr])
  IN  /\ AtField("expr")
      /\ ExprIsSound(field)
      /\ \/ text = "nop" /\ set(Expr("EXPR_NOP", NULL)) /\ UNCHANGED << heap, serial, failed >>
         \/ /\ text # "nop"
            /\ Acquire(Fresh("expr", text))
            /\ set(Expr("EXPR_STACK", Fresh("expr", text)))
            /\ UNCHANGED failed
         \/ /\ text # "nop"
            /\ Fails("malloc expr")
            /\ set(Expr("EXPR_STACK", NULL))
            /\ UNCHANGED << heap, serial >>
      /\ NextField
      /\ UNCHANGED << err, ctx >>

\* Mutant: the lower bound is one off.
BytesUpToWidth(entry) == entry.can_bytes \in 0..4

\* The byte count a PID's type allows: only a float formula may have any.
BytesFitType(entry) ==
  CASE entry.pid_type = "float" -> entry.expr.type = "EXPR_NOP" => entry.can_bytes = 4
    [] entry.pid_type \in {"int8", "uint8"} -> entry.can_bytes = 1
    [] entry.pid_type \in {"int16", "uint16"} -> entry.can_bytes \in 1..2
    [] entry.pid_type \in {"int32", "uint32"} -> entry.can_bytes \in 1..4

LeaveDesc ==
  /\ pc = "parse_desc"
  /\ at.fields > Len(fields_node)
  /\ BytesFitType(Entry)
  /\ at' = [at EXCEPT !.pids = @ + 1]
  /\ pc' = "parse_mode"
  /\ UNCHANGED << document, mode, pid_ctx, err, heap, serial, ctx, xhash, failed >>

\* What the assertions of the walk do not let pass.
StopAtDocument ==
  /\ \/ /\ pc = "parse_doc" /\ at.doc <= Len(document)
        /\ \/ Key(document[at.doc]) \notin TopKeys
           \/ AtTop("endian") /\ Val(document[at.doc]) \notin {"big", "little"}
     \/ InDesc /\ Key(fields_node[at.fields]) \notin FieldKeys
     \/ AtField("raw-unit") /\ field \notin RawUnits
     \/ AtField("si-unit") /\ field \notin SiUnits
     \/ AtField("expr") /\ ~ExprIsSound(field)
     \/ pc = "parse_desc" /\ at.fields > Len(fields_node) /\ ~BytesFitType(Entry)
  /\ Stop

-----------------------------------------------------------------------------
(***************************************************************************)
(* The end of the load, and of the context.                                *)
(***************************************************************************)
LeaveDoc ==
  /\ pc = "parse_doc"
  /\ at.doc > Len(document)
  /\ Unwind("YOBD_OK")
  /\ UNCHANGED << walk, heap, serial, ctx, xhash, failed >>

ParseEnd ==
  /\ pc = "parse_end"
  /\ \/ /\ err = "YOBD_OK"
        /\ heap' = heap \ {Only("doc"), Only("parser"), Only("file")}
        /\ pc' = "xh_trim"
     \/ /\ err # "YOBD_OK"
        /\ heap' = heap \ {Only("doc"), Only("parser")}
        /\ pc' = "error"
  /\ UNCHANGED << walk, err, serial, ctx, xhash, failed >>

\* The array shrinks, and may move, before the context is handed out.
XhTrim ==
  /\ pc = "xh_trim"
  /\ \/ pc' = "loaded" /\ UNCHANGED << err, heap, serial, xhash, failed >>
     \/ /\ xhash.vals # NULL
        /\ heap' = (heap \ {xhash.vals}) \cup {Fresh("vals", "")}
        /\ xhash' = [xhash EXCEPT !.vals = Fresh("vals", "")]
        /\ serial' = serial + 1
        /\ pc' = "loaded"
        /\ UNCHANGED << err, failed >>
     \/ /\ Fails("xh_trim")
        /\ err' = "YOBD_OOM"
        /\ pc' = "error"
        /\ UNCHANGED << heap, serial, xhash >>
  /\ UNCHANGED << walk, ctx >>

\* error_trim, error_parse: xh_destroy().  The pointer to the map stays.
DestroyMap ==
  /\ pc = "error"
  /\ heap' = heap \ {ctx.modepid_map, xhash.vals}
  /\ pc' = "error_ctx"
  /\ UNCHANGED << walk, err, serial, ctx, xhash, failed >>

\* yobd_free_ctx(), called by the application or, before the file is closed,
\* by a load that has failed.
FreeCtx ==
  /\ pc \in {"loaded", "error_ctx"}
  /\ \/ /\ FreeIsDefined
        /\ heap' = heap \ (Owned \cup IF pc = "loaded" THEN {} ELSE {Only("file")})
        /\ pc' = "idle"
        /\ at' = Start /\ mode' = 0 /\ UNCHANGED document
        /\ pid_ctx' = [array |-> NULL, key |-> << 0, 0 >>]
        /\ ctx' = NoCtx /\ xhash' = NoMap
     \/ /\ ~FreeIsDefined
        /\ pc' = "undefined"
        /\ UNCHANGED << heap, walk, ctx, xhash >>
  /\ UNCHANGED << err, serial, failed >>

-----------------------------------------------------------------------------
(***************************************************************************)
(* What an application reads of a context.  Its calls change nothing.      *)
(***************************************************************************)
yobd_get_pid_count == Cardinality(DOMAIN entries)

\* yobd_pid_foreach(): what it calls the application's function with, if the
\* function never says that it is done.
yobd_pid_foreach ==
  {[mode |-> get_mode(key), pid |-> get_pid(key), entry |-> entries[key]] : key \in DOMAIN entries}

\* get_pid_ctx(), as yobd_get_pid_descriptor() and the reader of responses
\* call it: the entries found, one or none.
get_pid_ctx(m, pid) ==
  {entries[key] : key \in DOMAIN entries \cap {get_modepid(m, pid)}}

-----------------------------------------------------------------------------
\* Nothing is left to do, or to be followed.
Gone ==
  /\ pc \in {"xassert", "undefined"} \/ (pc = "idle" /\ heap # {})
  /\ UNCHANGED vars

Setup == MallocCtx \/ XhInit \/ InitParser \/ LoadDocument

Walk ==
  \/ ParseEndian \/ EnterModepid \/ EnterMode \/ LeaveModepid \/ PutModePid \/ LeaveMode
  \/ ParseName \/ ParseScalar \/ ParseExpr \/ LeaveDesc \/ StopAtDocument \/ LeaveDoc

Load == Setup \/ Walk \/ ParseEnd \/ XhTrim \/ DestroyMap

Next == Refuse \/ Open \/ Load \/ FreeCtx \/ Gone

\* yobd_parse_schema() is plain sequential code, the freeing it does itself
\* included: a step that is due is taken.  Nobody has to load or free.
Fairness == WF_vars(Load) /\ WF_vars(pc = "error_ctx" /\ FreeCtx)

Spec == Init /\ [][Next]_vars /\ Fairness

-----------------------------------------------------------------------------
(***************************************************************************)
(* Properties.                                                             *)
(***************************************************************************)
\* In a loaded context no pointer dangles and no block has two owners, so that
\* yobd_free_ctx() frees every block once: whatever fields were named twice,
\* however often the map's array moved and whatever failed.
EntriesOwnTheirBlocks == pc = "loaded" => FreeIsDefined /\ Owned \subseteq heap

\* Of a document that says nothing twice: when the context is freed, or the
\* load has failed and returned, no block is left.
FitsTheKeys(doc) == \A p \in Pids(doc) : p[1] \in 0..255 /\ p[2] \in 0..(HALF - 1)

NothingLeaks == pc = "idle" /\ NothingTwice(document) /\ FitsTheKeys(document) => heap = {}

\* Of the failures of the system, only one while the map exists loses the
\* process: yobd_parse_schema() destroys the map, and yobd_free_ctx() walks it
\* again.  And only that of xh_init() stops it on the way back, with YOBD_OOM
\* to return: yobd_free_ctx() asserts a map.
OnlyLateFailuresKill ==
  /\ pc = "undefined" =>
       failed \cap {"yaml_parser_initialize", "strdup", "xh_put", "xh_trim"} # {}
  /\ pc = "xassert" /\ err = "YOBD_OOM" => "xh_init" \in failed

\* Every entry that is passed through has a byte count that nop_eval() has a
\* case for: the assertion of its default case is out of reach.
PassedThroughCanBeRead ==
  pc = "loaded" =>
    \A key \in DOMAIN entries :
      entries[key].expr.type = "EXPR_NOP" =>
        entries[key].can_bytes \in (IF entries[key].pid_type = "float" THEN {4} ELSE 1..4)

\* A call of yobd_parse_schema() returns, or stops the process: each of its
\* nested loops comes to its end.
LoadReturns ==
  [](pc = "malloc" => <>(pc \in {"idle", "loaded", "xassert", "undefined"}))
=============================================================================

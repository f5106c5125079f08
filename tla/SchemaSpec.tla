----------------------------- MODULE SchemaSpec -----------------------------
(***************************************************************************)
(* What src/parser.c promises to an application: a load of a sound         *)
(* document returns a context that says of every PID what the document     *)
(* says of it, and the context stays as it is until it is freed.  Only if  *)
(* an operation of the system fails may a load end otherwise.              *)
(*                                                                         *)
(* One weakness is part of the promise, because the code has it: after     *)
(* such a failure formulas may be missing from a context that was loaded   *)
(* without an error.                                                       *)
(***************************************************************************)
CONSTANTS
  Documents,
  Sound(_),          \* of a document: no assertion refuses it
  Pids(_),           \* of a document: the << mode, pid >> it describes
  BigEndian(_),      \* of a document
  Description(_, _)  \* of a document and a << mode, pid >>

VARIABLES
  file,     \* the document that is, or was, loaded
  context,  \* what the application can find out about its context
  reply,    \* what the last call returned
  trouble   \* an operation of the system failed in it

NoContext == [big_endian |-> FALSE, pids |-> << >>, loaded |-> FALSE]

Lost == "lost"

ContextOf(doc, lost) ==
  [big_endian |-> BigEndian(doc), loaded |-> TRUE,
   pids |-> [p \in Pids(doc) |->
               IF p \in lost THEN [Description(doc, p) EXCEPT !.formula = Lost]
                             ELSE Description(doc, p)]]

Init == file = << >> /\ context = NoContext /\ reply = "YOBD_OK" /\ trouble = FALSE

MayCall == context = NoContext /\ reply \notin {"pending", "stopped"}

Refuse ==
  /\ MayCall
  /\ reply' \in {"YOBD_CANNOT_OPEN_FILE", "YOBD_INVALID_PARAMETER"}
  /\ trouble' = TRUE
  /\ UNCHANGED << file, context >>

Call ==
  /\ MayCall
  /\ file' \in Documents
  /\ reply' = "pending"
  /\ trouble' = FALSE
  /\ UNCHANGED context

Pending == reply = "pending"

Trouble == Pending /\ trouble' = TRUE /\ UNCHANGED << file, context, reply >>

Return ==
  /\ Pending
  /\ Sound(file)
  /\ \E lost \in SUBSET {p \in Pids(file) : trouble /\ Description(file, p).formula # "nop"} :
       context' = ContextOf(file, lost)
  /\ reply' = "YOBD_OK"
  /\ UNCHANGED << file, trouble >>

Fail == Pending /\ reply' = "YOBD_OOM" /\ trouble' = TRUE /\ UNCHANGED << file, context >>

\* An assertion fails, or the process is lost while it cleans up.
Stop ==
  /\ Pending
  /\ trouble' = TRUE \/ (~Sound(file) /\ UNCHANGED trouble)
  /\ reply' = "stopped"
  /\ UNCHANGED << file, context >>

Free == context # NoContext /\ context' = NoContext /\ UNCHANGED << file, reply, trouble >>

Next == Refuse \/ Call \/ Trouble \/ Return \/ Fail \/ Stop \/ Free

Spec == Init /\ [][Next]_<< file, context, reply, trouble >>
=============================================================================

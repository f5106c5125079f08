------------------------------ MODULE MergePids ------------------------------
(***************************************************************************)
(* scripts/merge-pids: PID files are merged, one after another, into one   *)
(* schema that is printed.  The files are Python dictionaries, with texts  *)
(* for modes and PIDs: a sequence of pairs with different keys.  The       *)
(* printed schema has numbers again.                                       *)
(***************************************************************************)
EXTENDS SchemaDoc, Functions

CONSTANTS
  Invocations,   \* the sequences of files the script may be called with
  Descriptions,  \* what files say of PIDs; it is not looked at
  NumberOf       \* int(text, 0), of each text

\* The dictionaries with some keys and values, and the files.
Dicts(keys, values) == {dict \in Seq(keys \X values) : SaysOnce(dict)}

Pidmaps == Dicts(DOMAIN NumberOf, Descriptions)

Files == [endian : {"big", "little"}, modepid : Dicts(DOMAIN NumberOf, Pidmaps)]

ASSUME MergeAssumption ==
  /\ Invocations \subseteq Seq(Files)
  /\ \A desc \in Descriptions : SaysOnce(desc)

VARIABLES
  argv,     \* the files the script is called with
  n,        \* the number of the file it is at
  m,        \* the number of the mode it is at, in the file
  endian,   \* the byte order so far, or "None"
  merged,   \* the PIDs so far
  status    \* "opening", "merging", or how the script ended

vars == << argv, n, m, endian, merged, status >>

file == argv[n]

\* The pair of a dictionary with the key, or its place.
PlaceOf(dict, key) == CHOOSE k \in DOMAIN dict : Key(dict[k]) = key

Init ==
  /\ argv \in Invocations
  /\ n = 1 /\ m = 1
  /\ endian = "None"
  /\ merged = << >>
  /\ status = "opening"

\* The check for a missing argument looks at a list that is never empty: the
\* script's own name is in it.
Open ==
  /\ status = "opening" /\ n <= Len(argv)
  /\ \/ /\ endian \in {"None", file.endian}
        /\ endian' = file.endian
        /\ m' = 1
        /\ status' = "merging"
     \/ /\ endian \notin {"None", file.endian}
        /\ status' = "bailed"
        /\ UNCHANGED << endian, m >>
  /\ UNCHANGED << argv, n, merged >>

\* Mutant: PIDs of a mode that was there before are dropped.
KeepFirst(mode, new_pidmap) ==
  /\ m' = m + 1
  /\ merged' = IF mode \in Keys(merged) THEN merged ELSE Append(merged, << mode, new_pidmap >>)
  /\ UNCHANGED << argv, n, endian, status >>

merge_pidmap(mode, new_pidmap) ==
  LET place  == PlaceOf(merged, mode)
      pidmap == Val(merged[place])
  IN  \/ /\ mode \notin Keys(merged)
         /\ merged' = Append(merged, << mode, new_pidmap >>)
         /\ m' = m + 1
         /\ UNCHANGED << argv, n, endian, status >>
      \/ /\ mode \in Keys(merged) /\ Keys(pidmap) \cap Keys(new_pidmap) = {}
         /\ merged' = [merged EXCEPT ![place] = << mode, pidmap \o new_pidmap >>]
         /\ m' = m + 1
         /\ UNCHANGED << argv, n, endian, status >>
      \/ /\ mode \in Keys(merged) /\ Keys(pidmap) \cap Keys(new_pidmap) # {}
         /\ status' = "bailed"
         /\ UNCHANGED << argv, n, m, endian, merged >>

Merge ==
  /\ status = "merging" /\ m <= Len(file.modepid)
  /\ merge_pidmap(Key(file.modepid[m]), Val(file.modepid[m]))

Close ==
  /\ status = "merging" /\ m > Len(file.modepid)
  /\ n' = n + 1
  /\ status' = "opening"
  /\ UNCHANGED << argv, m, endian, merged >>

PrintSchema ==
  /\ status = "opening" /\ n > Len(argv)
  /\ status' = "printed"
  /\ UNCHANGED << argv, n, m, endian, merged >>

Ended == status \in {"bailed", "printed"} /\ UNCHANGED vars

Next == Open \/ Merge \/ Close \/ PrintSchema \/ Ended

Spec == Init /\ [][Next]_vars

\* print_schema(): what is printed, as the document a YAML library reads.  A
\* mode without PIDs is printed as its number alone; it stays a mode that says
\* nothing.
Numbered(dict) == [k \in DOMAIN dict |-> << NumberOf[Key(dict[k])], Val(dict[k]) >>]

print_schema ==
  << << "endian", endian >>,
     << "modepid", Numbered([k \in DOMAIN merged |->
                              << Key(merged[k]), Numbered(Val(merged[k])) >>]) >> >>

-----------------------------------------------------------------------------
\* What a file says: << mode, PID, description >>, with texts.
Says(modes) ==
  UNION {{<< Key(mode), Key(pid), Val(pid) >> : pid \in Range(Val(mode))} : mode \in Range(modes)}

AllSaid == UNION {Says(argv[k].modepid) : k \in DOMAIN argv}

\* Two files have the same mode and PID, written in the same way.
Clash ==
  \E j, k \in DOMAIN argv : j # k /\
    \E x \in Says(argv[j].modepid), y \in Says(argv[k].modepid) :
      x[1] = y[1] /\ x[2] = y[2]

SameEndian == \A j, k \in DOMAIN argv : argv[j].endian = argv[k].endian

\* What is said, with the numbers that the printed schema has for the texts.
InNumbers(said) == {<< NumberOf[x[1]], NumberOf[x[2]], x[3] >> : x \in said}

\* A mode, or a PID of a mode, is written in two ways.
ModeTexts == UNION {Keys(argv[k].modepid) : k \in DOMAIN argv}

Respelled ==
  \/ \E x, y \in ModeTexts : x # y /\ NumberOf[x] = NumberOf[y]
  \/ \E x, y \in AllSaid :
       x[1] = y[1] /\ x[2] # y[2] /\ NumberOf[x[2]] = NumberOf[y[2]]

\* The printed schema says what the files say, all of it and nothing else, in
\* the byte order of all of them; or the script bails out, and only if two
\* files contradict each other.  ("mode %s, PID %s specified multiple times"
\* is seen by the texts only: the schema says something twice exactly if
\* the files write a mode, or a PID of a mode, in two ways.)
MergesAll ==
  /\ status = "printed" =>
       /\ Says(Scalar(print_schema, "modepid")) = InNumbers(AllSaid)
       /\ SameEndian /\ ~Clash
       /\ NothingTwice(print_schema) <=> ~Respelled
  /\ status = "bailed" => Clash \/ ~SameEndian
=============================================================================

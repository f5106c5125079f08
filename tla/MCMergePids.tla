----------------------------- MODULE MCMergePids -----------------------------
(***************************************************************************)
(* Instances of MergePids: up to three files, each with one or two modes.  *)
(***************************************************************************)
EXTENDS MergePids, FiniteSets, TLC

MCNumberOf ==
  ("0x1" :> 1) @@ ("0x01" :> 1) @@ ("0x22" :> 34) @@ ("0xc" :> 12) @@ ("0x0c" :> 12) @@ ("0xd" :> 13)

File(endian_, modes) == [endian |-> endian_, modepid |-> modes]

\* A description is not looked at; one field stands for it.
Named(name) == << << "name", name >> >>

MCDescriptions == {Named("rpm"), Named("speed"), Named("temp"), Named("load")}

MCPidmaps == {<< << "0xc", Named("rpm") >> >>, << << "0xd", Named("speed") >> >>,
              << << "0xd", Named("temp") >>, << "0xc", Named("rpm") >> >>}

\* Mode texts of a file: one, or two in either order.
ModeMaps(texts) ==
  {<< << t, p >> >> : t \in texts, p \in MCPidmaps}
    \cup {<< << t, p >>, << u, << << "0xc", Named("load") >> >> >> >> : t \in texts, u \in texts, p \in MCPidmaps}

Distinct(maps) == {x \in maps : Cardinality(Keys(x)) = Len(x)}

FilesOf(texts) ==
  {File("big", x) : x \in Distinct(ModeMaps(texts))}
    \cup {File("little", << << "0x1", << << "0xc", Named("rpm") >> >> >> >>)}

\* Besides, two spellings of one mode, of one PID, and of two PIDs of different
\* modes, modes without PIDs, and a call without a file, which the script lets
\* pass.
Respellings ==
  {<< File("big", << << "0x1", << << "0xc", Named("rpm") >> >> >> >>),
      File("big", << << "0x01", << << "0xc", Named("load") >> >> >> >>) >>,
   << File("big", << << "0x1", << << "0xc", Named("rpm") >>, << "0x0c", Named("load") >> >> >> >>) >>,
   << File("big", << << "0x1", << << "0xc", Named("rpm") >> >> >>,
                     << "0x22", << << "0x0c", Named("rpm") >> >> >> >>) >>,
   << File("big", << << "0x1", << >> >> >>), File("big", << << "0x01", << >> >> >>) >>}

Calls == UNION {[1..k -> FilesOf({"0x1", "0x22"})] : k \in 1..3} \cup Respellings \cup {<< >>}
=============================================================================

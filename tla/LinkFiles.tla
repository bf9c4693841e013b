----------------------------- MODULE LinkFiles ------------------------------
(***************************************************************************)
(* Third stage of gen: one CompileRules task per cc_binary writes, for     *)
(* each build type, the link command and then the prerequisites of the     *)
(* binary (cc_binary_compiler.cc), asking each library for the path of its *)
(* archive with ExportedFiles (cc_library.cc).                             *)
(*                                                                         *)
(* ExportedFiles assigns a buffer that belongs to the library and returns  *)
(* a reference to it; the caller reads the buffer afterwards.  The tasks   *)
(* of two binaries that link the same library share the buffer, and        *)
(* nothing orders their accesses.  A path is abstracted to its build type. *)
(***************************************************************************)
EXTENDS Naturals, Sequences, FiniteSets

CONSTANTS
  Binary,
  Library,
  Uses,         \* Binary -> the libraries on its link line
  BuildType,
  BuildTypes,   \* session->BuildTypes: the build types in order
  Empty,        \* a buffer that has not been assigned
  Torn,         \* what a read that races an assignment may find
  Workers       \* how many tasks run at a time

ASSUME FilesAssumption ==
  /\ Uses \in [Binary -> SUBSET Library]
  /\ BuildTypes \in Seq(BuildType)
  /\ Empty \notin BuildType /\ Torn \notin BuildType /\ Empty # Torn
  /\ Workers \in Nat \ {0}

Pass == {"link", "deps"}

VARIABLES
  task,       \* "queued", "compile", "done" for each binary
  turn,       \* the position of its loop over BuildTypes
  pass,       \* what is being evaluated: the link command, then deps
  call,       \* the library whose ExportedFiles is being called, and how far
  tmp_exported_files,   \* CCLibrary::tmp_exported_files_
  line,       \* the build type of each path written
  crashed

vars == <<task, turn, pass, call, tmp_exported_files, line, crashed>>

Entry == Binary \X (1..Len(BuildTypes)) \X Pass \X Library

NoCall == [lib |-> Empty, at |-> "none"]

Init ==
  /\ task = [b \in Binary |-> "queued"]
  /\ turn = [b \in Binary |-> 1]
  /\ pass = [b \in Binary |-> "link"]
  /\ call = [b \in Binary |-> NoCall]
  /\ tmp_exported_files = [l \in Library |-> Empty]
  /\ line = [e \in Entry |-> Empty]
  /\ crashed = FALSE

Current(b) == BuildTypes[turn[b]]
Written(b) == {l \in Uses[b] : line[<<b, turn[b], pass[b], l>>] # Empty}

\* The other tasks inside an assignment of the buffer of l.
Assigning(b, l) == {c \in Binary \ {b} : call[c] = [lib |-> l, at |-> "assign"]}

Start(b) ==
  /\ ~crashed /\ task[b] = "queued"
  /\ Cardinality({c \in Binary : task[c] = "compile"}) < Workers
  /\ task' = [task EXCEPT ![b] = "compile"]
  /\ UNCHANGED <<turn, pass, call, tmp_exported_files, line, crashed>>

\* The next library; the order in which they are asked is left open.
BeginExport(b) ==
  /\ ~crashed /\ task[b] = "compile" /\ call[b] = NoCall
  /\ turn[b] <= Len(BuildTypes)
  /\ \E l \in Uses[b] \ Written(b) : call' = [call EXCEPT ![b] = [lib |-> l, at |-> "assign"]]
  /\ UNCHANGED <<task, turn, pass, tmp_exported_files, line, crashed>>

\* Mutation: the path is computed by the first call only.
AssignedOnce(b, l) ==
  IF tmp_exported_files[l] = Empty THEN {Current(b)} ELSE {tmp_exported_files[l]}

\* What the buffer holds at the end of the assignment: two assignments at a
\* time leave either value, or none that makes sense.
Assigned(b, l) ==
  {Current(b)} \cup {Current(c) : c \in Assigning(b, l)}
    \cup IF Assigning(b, l) = {} THEN {} ELSE {Torn}

EndExport(b) ==
  /\ ~crashed /\ call[b].at = "assign"
  /\ LET l == call[b].lib
     IN  /\ \E v \in Assigned(b, l) :
              tmp_exported_files' = [tmp_exported_files EXCEPT ![l] = v]
         /\ call' = [call EXCEPT ![b] = [lib |-> l, at |-> "read"]]
  /\ UNCHANGED <<task, turn, pass, line, crashed>>

\* The caller copies the path out of the buffer.
Readable(b, l) ==
  {tmp_exported_files[l]} \cup IF Assigning(b, l) = {} THEN {} ELSE {Torn}

ReadExported(b) ==
  /\ ~crashed /\ call[b].at = "read"
  /\ LET l == call[b].lib
     IN  \E v \in Readable(b, l) :
           line' = [line EXCEPT ![<<b, turn[b], pass[b], l>>] = v]
  /\ call' = [call EXCEPT ![b] = NoCall]
  /\ UNCHANGED <<task, turn, pass, tmp_exported_files, crashed>>

\* Strings that are being reallocated can also take the process down.
Crash(b) ==
  /\ ~crashed /\ call[b].at \in {"assign", "read"}
  /\ Assigning(b, call[b].lib) # {}
  /\ crashed' = TRUE
  /\ UNCHANGED <<task, turn, pass, call, tmp_exported_files, line>>

\* After the link command come the prerequisites, then the next build type.
Advance(b) ==
  IF pass[b] = "link"
    THEN pass' = [pass EXCEPT ![b] = "deps"] /\ turn' = turn
    ELSE pass' = [pass EXCEPT ![b] = "link"] /\ turn' = [turn EXCEPT ![b] = @ + 1]

EndPass(b) ==
  /\ ~crashed /\ task[b] = "compile" /\ call[b] = NoCall
  /\ turn[b] <= Len(BuildTypes) /\ Written(b) = Uses[b]
  /\ Advance(b)
  /\ UNCHANGED <<task, call, tmp_exported_files, line, crashed>>

End(b) ==
  /\ ~crashed /\ task[b] = "compile" /\ turn[b] > Len(BuildTypes)
  /\ task' = [task EXCEPT ![b] = "done"]
  /\ UNCHANGED <<turn, pass, call, tmp_exported_files, line, crashed>>

TaskStep(b) ==
  \/ Start(b)
  \/ BeginExport(b)
  \/ EndExport(b)
  \/ ReadExported(b)
  \/ Crash(b)
  \/ EndPass(b)
  \/ End(b)

AllDone == \A b \in Binary : task[b] = "done"

Next ==
  \/ \E b \in Binary : TaskStep(b)
  \/ (AllDone \/ crashed) /\ UNCHANGED vars

Spec == Init /\ [][Next]_vars

-----------------------------------------------------------------------------
(* Properties.                                                             *)

Private(b, l) == \A c \in Binary \ {b} : l \notin Uses[c]

\* A library that one binary links alone is named with the build type of the
\* command it is in, although its buffer is used again for every build type.
PrivateFilesMatch ==
  \A e \in Entry :
    Private(e[1], e[4]) => line[e] \in {Empty, BuildTypes[e[2]]}

\* "Returns the absolute paths of what will this build-rule generated with
\* build_type specifyed" (core/models/build_rule.hh:53): each path written is
\* the one of the build type asked for.
FilesMatch == \A e \in Entry : line[e] \in {Empty, BuildTypes[e[2]]}
=============================================================================

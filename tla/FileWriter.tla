----------------------------- MODULE FileWriter -----------------------------
(***************************************************************************)
(* How gen puts its makefiles on disk.  Each rule's task writes the files  *)
(* of the rule's working folder one after the other                        *)
(* (cc_library_compiler.cc, DoCompile); FileWriter::flush (impls/writers/  *)
(* file_writer.cc) leaves a file alone that has the right content and      *)
(* otherwise truncates it and writes it in place.  gen may be killed       *)
(* between any two steps and run again, a write that fails goes unnoticed, *)
(* and the tasks of a gen run at the same time.                            *)
(*                                                                         *)
(* A content is a sequence of blocks; the block Blank is white space.      *)
(***************************************************************************)
EXTENDS Integers, Sequences, FiniteSets, FiniteSetsExt

CONSTANTS
  Rule,        \* the qualified names of the rules: sequences of characters
  Files,       \* the files a task writes, in order
  Edition,     \* the states the BUILD files can be in
  Content,     \* Content[e][r][k]: what the k-th file of rule r should be
  Blank,       \* a block of white space
  Hole         \* what lies before a block written behind the end of a file

\* A list is a function from 1..n; no file of a rule has the name of another.
IsList(list) == /\ Len(list) \in Nat
                /\ list = [i \in 1..Len(list) |-> list[i]]

ASSUME FileWriterAssumption ==
  /\ Edition # {}
  /\ IsList(Files) /\ \A j, k \in DOMAIN Files : Files[j] = Files[k] => j = k
  /\ \A e \in Edition, r \in Rule, k \in DOMAIN Files :
       IsList(Content[e][r][k]) /\ Len(Content[e][r][k]) > 0

VARIABLES
  disk,      \* the files there are, with their contents
  edition,   \* what the current gen has read
  gen,       \* "idle", "running", "done" or "killed"
  at,        \* the number of the file that each task is writing
  stage,     \* what its writer does next: "compare", "truncate" or "write"
  offset,    \* how many blocks the writer has written
  failed     \* whether a write of this gen has failed

vars == <<disk, edition, gen, at, stage, offset, failed>>
writers == <<at, stage, offset>>

\* FullQuotedQualifiedName: the name of a rule's working folder.
Folder(r) == [i \in DOMAIN r |-> IF r[i] = "/" THEN "_" ELSE r[i]]

Path(r, k) == <<Folder(r), Files[k]>>
Wanted(r, k) == Content[edition][r][k]

\* boost::algorithm::trim_copy
Trim(content) ==
  LET black == {i \in DOMAIN content : content[i] # Blank}
  IN  IF black = {} THEN <<>> ELSE SubSeq(content, Min(black), Max(black))

\* A block written at its own offset, whatever else has happened to the file.
Overlay(content, i, block) ==
  [j \in 1..Max({i, Len(content)}) |->
     IF j = i THEN block ELSE IF j \in DOMAIN content THEN content[j] ELSE Hole]

Put(path, content) ==
  [p \in DOMAIN disk \cup {path} |-> IF p = path THEN content ELSE disk[p]]

Init ==
  /\ disk = [p \in {} |-> <<>>]
  /\ edition \in Edition
  /\ gen = "idle"
  /\ at = [r \in Rule |-> 1]
  /\ stage = [r \in Rule |-> "compare"]
  /\ offset = [r \in Rule |-> 0]
  /\ failed = FALSE

Start ==
  /\ gen # "running"
  /\ gen' = "running"
  /\ edition' \in Edition
  /\ at' = [r \in Rule |-> 1]
  /\ stage' = [r \in Rule |-> "compare"]
  /\ offset' = [r \in Rule |-> 0]
  /\ failed' = FALSE
  /\ UNCHANGED disk

Busy(r) == gen = "running" /\ at[r] \in DOMAIN Files

NextFile(r) ==
  /\ at' = [at EXCEPT ![r] = @ + 1]
  /\ stage' = [stage EXCEPT ![r] = "compare"]
  /\ offset' = [offset EXCEPT ![r] = 0]

\* Mutation: a file that is there is taken for the right one.
AnyContent(r) == Path(r, at[r]) \in DOMAIN disk

\* Mutation: the contents are compared as they are.
ExactContent(r) ==
  /\ Path(r, at[r]) \in DOMAIN disk
  /\ disk[Path(r, at[r])] = Wanted(r, at[r])

\* The file can be read, and differs from the new content in outer blanks at most.
SameContent(r) ==
  /\ Path(r, at[r]) \in DOMAIN disk
  /\ Trim(disk[Path(r, at[r])]) = Trim(Wanted(r, at[r]))

Compare(r) ==
  /\ Busy(r) /\ stage[r] = "compare"
  /\ IF SameContent(r)
       THEN NextFile(r)
       ELSE stage' = [stage EXCEPT ![r] = "truncate"] /\ UNCHANGED <<at, offset>>
  /\ UNCHANGED <<disk, edition, gen, failed>>

Truncate(r) ==
  /\ Busy(r) /\ stage[r] = "truncate"
  /\ disk' = Put(Path(r, at[r]), <<>>)
  /\ stage' = [stage EXCEPT ![r] = "write"]
  /\ UNCHANGED <<edition, gen, at, offset, failed>>

WriteBlock(r) ==
  /\ Busy(r) /\ stage[r] = "write"
  /\ LET content == Wanted(r, at[r])
         i == offset[r] + 1
     IN  /\ disk' = Put(Path(r, at[r]), Overlay(disk[Path(r, at[r])], i, content[i]))
         /\ IF i = Len(content)
              THEN NextFile(r)
              ELSE offset' = [offset EXCEPT ![r] = i] /\ UNCHANGED <<at, stage>>
  /\ UNCHANGED <<edition, gen, failed>>

\* The disk is full, say: nobody looks at the state of the stream.
WriteFails(r) ==
  /\ Busy(r) /\ stage[r] = "write"
  /\ failed' = TRUE
  /\ NextFile(r)
  /\ UNCHANGED <<disk, edition, gen>>

Finish ==
  /\ gen = "running" /\ \A r \in Rule : at[r] \notin DOMAIN Files
  /\ gen' = "done"
  /\ UNCHANGED <<disk, edition, writers, failed>>

Kill ==
  /\ gen = "running"
  /\ gen' = "killed"
  /\ UNCHANGED <<disk, edition, writers, failed>>

Step(r) == Compare(r) \/ Truncate(r) \/ WriteBlock(r) \/ WriteFails(r)

Next == Start \/ Finish \/ Kill \/ \E r \in Rule : Step(r)

Spec == Init /\ [][Next]_vars

-----------------------------------------------------------------------------

\* The rules that share a working folder with r want the same k-th file.
Agreed(r, k) == \A s \in Rule : Folder(s) = Folder(r) => Wanted(s, k) = Wanted(r, k)

Right(r, k) ==
  /\ Path(r, k) \in DOMAIN disk
  /\ Trim(disk[Path(r, k)]) = Trim(Wanted(r, k))

\* Whatever earlier gens have left behind, killed ones and ones whose writes
\* failed among them, and although tasks may truncate and write one file at the
\* same time: when a gen is done and none of its own writes has failed, every file
\* that its writers agree on is what it should be, up to outer blanks.
DoneIsRight ==
  gen = "done" /\ ~failed => \A r \in Rule, k \in DOMAIN Files : Agreed(r, k) => Right(r, k)

\* gen does not touch a file that is right already, unless it is in the middle
\* of writing it: make does not rebuild what depends on it.
RightIsUntouched ==
  [][ \A r \in Rule, k \in DOMAIN Files :
        /\ \A s \in Rule : Folder(s) = Folder(r) => s = r
        /\ Right(r, k)
        /\ ~(Busy(r) /\ at[r] = k /\ stage[r] = "write")
        => Path(r, k) \in DOMAIN disk' /\ disk'[Path(r, k)] = disk[Path(r, k)] ]_vars
=============================================================================

------------------------------ MODULE Download ------------------------------
(***************************************************************************)
(* The download command (cli/download.cc): a file is fetched into place,   *)
(* unless a good copy is there, and then compared with the checksum given  *)
(* on the command line.  The command may be killed and run again.          *)
(*                                                                         *)
(* A content is a sequence of blocks; its checksum is a text, abstracted   *)
(* to its length, the digits it spells and their case.                     *)
(***************************************************************************)
EXTENDS Naturals, Sequences, SequencesExt

CONSTANTS
  Right,     \* the content the checksum is of
  Served,    \* the contents the server may have
  Sha256s    \* the checksums that may be given: Right's, in either case

VARIABLES
  exists,    \* whether the file exists, and
  output,    \* its content
  sha256,    \* the checksum given
  serving,   \* what the server sends
  pc,        \* "idle", "open", "receive", "verify"
  verdict    \* how the last command ended: "none", "exists", "ok", "mismatch",
             \* "failed", "killed"

vars == <<exists, output, sha256, serving, pc, verdict>>

Init ==
  /\ exists \in BOOLEAN
  /\ output \in IF exists THEN UNION {Prefixes(c) : c \in Served} ELSE {<<>>}
  /\ sha256 \in Sha256s
  /\ serving \in Served
  /\ pc = "idle"
  /\ verdict = "none"

\* Hexadecimal, in lower case.
HashFile(content) == [len |-> 64, digits |-> content, upper |-> FALSE]

\* Two texts of one length; the first character that differs, case aside,
\* returns true, and the end of the loop returns false.
EqualIgnoreCase(lhs, rhs) == lhs.len = rhs.len /\ lhs.digits # rhs.digits

Start ==
  /\ pc = "idle"
  /\ IF exists /\ EqualIgnoreCase(HashFile(output), sha256)
       THEN verdict' = "exists" /\ pc' = pc
       ELSE verdict' = "none" /\ pc' = "open"
  /\ UNCHANGED <<exists, output, sha256, serving>>

\* Some options are set before the file is truncated and some after it; each
\* may be refused.
SetOptions ==
  /\ pc = "open"
  /\ \/ pc' = "receive" /\ output' = <<>> /\ exists' = TRUE /\ UNCHANGED verdict
     \/ /\ pc' = "idle" /\ verdict' = "failed"
        /\ \/ output' = <<>> /\ exists' = TRUE
           \/ UNCHANGED <<exists, output>>
  /\ UNCHANGED <<sha256, serving>>

WriteToFileCallback ==
  /\ pc = "receive" /\ Len(output) < Len(serving)
  /\ output' = Append(output, serving[Len(output) + 1])
  /\ UNCHANGED <<exists, sha256, serving, pc, verdict>>

\* curl_easy_perform returns, after everything or after an error: its result is
\* only printed.
Performed ==
  /\ pc = "receive"
  /\ pc' = "verify"
  /\ UNCHANGED <<exists, output, sha256, serving, verdict>>

Verify ==
  /\ pc = "verify"
  /\ verdict' = IF EqualIgnoreCase(HashFile(output), sha256) THEN "ok" ELSE "mismatch"
  /\ pc' = "idle"
  /\ UNCHANGED <<exists, output, sha256, serving>>

Kill ==
  /\ pc # "idle"
  /\ pc' = "idle" /\ verdict' = "killed"
  /\ UNCHANGED <<exists, output, sha256, serving>>

Next == Start \/ SetOptions \/ WriteToFileCallback \/ Performed \/ Verify \/ Kill

Spec == Init /\ [][Next]_vars

-----------------------------------------------------------------------------

\* "Sha256 mismatch, for file: {}, expect: {}, actual: {}" (cli/download.cc:266)
\* is only said of a file whose checksum is not the expected one, and "File
\* exists" (line 177) and success only of one whose checksum is.
VerdictIsRight ==
  /\ verdict = "mismatch" => output # Right
  /\ verdict \in {"exists", "ok"} => output = Right
=============================================================================

--------------------------- MODULE LinkFilesProof ---------------------------
(***************************************************************************)
(* A theorem about LinkFiles, for every set of binaries and libraries,     *)
(* every assignment of libraries to link lines, every list of build types  *)
(* and every number of workers.                                            *)
(***************************************************************************)
EXTENDS LinkFiles, TLAPS

USE FilesAssumption

Path == BuildType \cup {Empty, Torn}

TypeOK ==
  /\ turn \in [Binary -> Nat \ {0}]
  /\ pass \in [Binary -> Pass]
  /\ call \in [Binary -> [lib : Library, at : {"assign", "read"}] \cup {NoCall}]
  /\ tmp_exported_files \in [Library -> Path]
  /\ line \in [Entry -> Path]

\* ExportedFiles is called on a library of the binary's own link line, while
\* its loop over the build types is not over.
Calls ==
  \A b \in Binary :
    call[b] # NoCall => call[b].lib \in Uses[b] /\ turn[b] \in 1..Len(BuildTypes)

\* Between the assignment of a buffer that nobody else uses and its reading,
\* the buffer stays what the assignment has made it.
PrivateBuffer ==
  \A b \in Binary, l \in Library :
    Private(b, l) /\ call[b] = [lib |-> l, at |-> "read"] => tmp_exported_files[l] = Current(b)

IInv == TypeOK /\ Calls /\ PrivateBuffer /\ PrivateFilesMatch

-----------------------------------------------------------------------------

\* Nobody else is ever inside an assignment of a private buffer.
LEMMA NobodyElse ==
  ASSUME TypeOK, Calls, NEW b \in Binary, NEW l \in Library, Private(b, l)
  PROVE  /\ Assigning(b, l) = {}
         /\ \A c \in Binary \ {b} : call[c] # NoCall => call[c].lib # l
<1>1. \A c \in Binary \ {b} : call[c] # NoCall => call[c].lib # l
  BY DEF Calls, Private
<1>2. \A c \in Assigning(b, l) : call[c] # NoCall /\ call[c].lib = l
  BY DEF Assigning, NoCall
<1> QED
  BY <1>1, <1>2 DEF Assigning

LEMMA CallFacts ==
  ASSUME TypeOK, Calls, NEW b \in Binary, call[b].at \in {"assign", "read"}
  PROVE  /\ call[b] # NoCall
         /\ call[b].lib \in Uses[b] /\ call[b].lib \in Library
         /\ call[b] = [lib |-> call[b].lib, at |-> call[b].at]
         /\ Current(b) \in BuildType
<1>1. call[b] # NoCall
  BY DEF NoCall
<1>2. turn[b] \in 1..Len(BuildTypes) /\ call[b].lib \in Uses[b]
  BY <1>1 DEF Calls
<1>3. BuildTypes[turn[b]] \in BuildType
  BY <1>2
<1>4. call[b] \in [lib : Library, at : {"assign", "read"}]
  BY <1>1 DEF TypeOK
<1> QED
  BY <1>1, <1>2, <1>3, <1>4 DEF Current

LEMMA InitHolds == Init => IInv
<1> SUFFICES ASSUME Init
             PROVE  IInv
  OBVIOUS
<1>1. TypeOK
  BY DEF Init, TypeOK, Path, Pass
<1>2. Calls /\ PrivateBuffer
  BY DEF Init, Calls, PrivateBuffer, NoCall
<1>3. PrivateFilesMatch
  BY DEF Init, PrivateFilesMatch
<1> QED
  BY <1>1, <1>2, <1>3 DEF IInv

LEMMA BeginExportKeeps ==
  ASSUME IInv, NEW b \in Binary, BeginExport(b)
  PROVE  IInv'
<1>1. PICK l \in Uses[b] : call' = [call EXCEPT ![b] = [lib |-> l, at |-> "assign"]]
  BY DEF BeginExport, IInv, Calls
<1>2. l \in Library
  OBVIOUS
<1>3. UNCHANGED <<turn, pass, tmp_exported_files, line>> /\ turn[b] <= Len(BuildTypes)
  BY DEF BeginExport
<1>4. TypeOK'
  BY <1>1, <1>2, <1>3 DEF IInv, TypeOK
<1>5. Calls'
  BY <1>1, <1>3 DEF IInv, TypeOK, Calls
<1>6. PrivateBuffer'
  BY <1>1, <1>3 DEF IInv, TypeOK, PrivateBuffer, Private, Current
<1>7. PrivateFilesMatch'
  BY <1>3 DEF IInv, PrivateFilesMatch, Private
<1> QED
  BY <1>4, <1>5, <1>6, <1>7 DEF IInv

LEMMA EndExportKeeps ==
  ASSUME IInv, NEW b \in Binary, EndExport(b)
  PROVE  IInv'
<1> DEFINE l == call[b].lib
<1>1. /\ l \in Uses[b] /\ l \in Library /\ call[b] # NoCall
      /\ Current(b) \in BuildType
  BY CallFacts DEF EndExport, IInv
<1>2. PICK v \in Assigned(b, l) : tmp_exported_files' = [tmp_exported_files EXCEPT ![l] = v]
  BY DEF EndExport
<1>3. call' = [call EXCEPT ![b] = [lib |-> l, at |-> "read"]] /\ UNCHANGED <<turn, pass, line>>
  BY DEF EndExport
<1>4. v \in Path
  <2>1. ASSUME NEW c \in Assigning(b, l)
        PROVE  Current(c) \in BuildType
    <3>1. c \in Binary /\ call[c].at = "assign"
      BY DEF Assigning
    <3> QED
      BY <3>1, CallFacts DEF IInv
  <2> QED
    BY <1>1, <2>1 DEF Assigned, Path
<1>5. TypeOK'
  BY <1>1, <1>2, <1>3, <1>4 DEF IInv, TypeOK
<1>6. Calls'
  BY <1>1, <1>3 DEF IInv, TypeOK, Calls
<1>7. PrivateBuffer'
  <2> SUFFICES ASSUME NEW c \in Binary, NEW m \in Library, Private(c, m),
                      call'[c] = [lib |-> m, at |-> "read"]
               PROVE  tmp_exported_files'[m] = Current(c)'
    BY DEF PrivateBuffer, Private
  <2>1. CASE c = b
    <3>1. m = l
      BY <2>1, <1>3 DEF IInv, TypeOK
    <3>2. Assigning(b, l) = {}
      BY <2>1, <3>1, NobodyElse DEF IInv
    <3>3. v = Current(b)
      BY <3>2 DEF Assigned
    <3> QED
      BY <2>1, <3>1, <3>3, <1>1, <1>2, <1>3 DEF IInv, TypeOK, Current
  <2>2. CASE c # b
    <3>1. call[c] = [lib |-> m, at |-> "read"]
      BY <2>2, <1>3 DEF IInv, TypeOK
    <3>2. m # l
      BY <2>2, <1>1, NobodyElse DEF IInv
    <3>3. tmp_exported_files'[m] = tmp_exported_files[m]
      BY <3>2, <1>2 DEF IInv, TypeOK
    <3> QED
      BY <3>1, <3>3, <1>3 DEF IInv, PrivateBuffer, Current
  <2> QED
    BY <2>1, <2>2
<1>8. PrivateFilesMatch'
  BY <1>3 DEF IInv, PrivateFilesMatch, Private
<1> QED
  BY <1>5, <1>6, <1>7, <1>8 DEF IInv

LEMMA ReadExportedKeeps ==
  ASSUME IInv, NEW b \in Binary, ReadExported(b)
  PROVE  IInv'
<1> DEFINE l == call[b].lib
           entry == <<b, turn[b], pass[b], l>>
<1>1. /\ l \in Uses[b] /\ l \in Library /\ call[b] # NoCall
      /\ call[b] = [lib |-> l, at |-> "read"]
  BY CallFacts DEF ReadExported, IInv
<1>2. entry \in Entry
  BY <1>1 DEF Entry, IInv, TypeOK, Calls
<1>3. PICK v \in Readable(b, l) : line' = [line EXCEPT ![entry] = v]
  BY DEF ReadExported
<1>4. call' = [call EXCEPT ![b] = NoCall] /\ UNCHANGED <<turn, pass, tmp_exported_files>>
  BY DEF ReadExported
<1>5. v \in Path
  BY <1>1 DEF IInv, TypeOK, Readable, Path
<1>6. TypeOK'
  BY <1>3, <1>4, <1>5 DEF IInv, TypeOK
<1>7. Calls'
  BY <1>4 DEF IInv, TypeOK, Calls
<1>8. PrivateBuffer'
  BY <1>4 DEF IInv, TypeOK, PrivateBuffer, Private, Current, NoCall
<1>9. PrivateFilesMatch'
  <2> SUFFICES ASSUME NEW e \in Entry, Private(e[1], e[4])
               PROVE  line'[e] \in {Empty, BuildTypes[e[2]]}
    BY DEF PrivateFilesMatch, Private
  <2>1. CASE e = entry
    <3>1. e[1] = b /\ e[2] = turn[b] /\ e[4] = l
      BY <2>1
    <3>2. Assigning(b, l) = {}
      BY <3>1, <1>1, NobodyElse DEF IInv
    <3>3. v = tmp_exported_files[l]
      BY <3>2 DEF Readable
    <3>4. v = Current(b)
      BY <3>1, <3>3, <1>1 DEF IInv, PrivateBuffer
    <3>5. line'[e] = v
      BY <2>1, <1>2, <1>3 DEF IInv, TypeOK
    <3> QED
      BY <3>1, <3>4, <3>5 DEF Current
  <2>2. CASE e # entry
    BY <2>2, <1>3 DEF IInv, TypeOK, PrivateFilesMatch
  <2> QED
    BY <2>1, <2>2
<1> QED
  BY <1>6, <1>7, <1>8, <1>9 DEF IInv

LEMMA EndPassKeeps ==
  ASSUME IInv, NEW b \in Binary, EndPass(b)
  PROVE  IInv'
<1>1. /\ call[b] = NoCall
      /\ UNCHANGED <<call, tmp_exported_files, line>>
      /\ turn' \in [Binary -> Nat \ {0}] /\ pass' \in [Binary -> Pass]
      /\ \A c \in Binary \ {b} : turn'[c] = turn[c]
  <2>1. turn \in [Binary -> Nat \ {0}] /\ pass \in [Binary -> Pass] /\ turn[b] + 1 \in Nat \ {0}
    BY DEF IInv, TypeOK
  <2>2. pass' \in [Binary -> Pass]
    BY <2>1 DEF EndPass, Advance, Pass
  <2>3. turn' = turn \/ turn' = [turn EXCEPT ![b] = turn[b] + 1]
    BY DEF EndPass, Advance
  <2>4. turn' \in [Binary -> Nat \ {0}] /\ \A c \in Binary \ {b} : turn'[c] = turn[c]
    BY <2>1, <2>3
  <2> QED
    BY <2>2, <2>4 DEF EndPass
<1>2. TypeOK'
  BY <1>1 DEF IInv, TypeOK
<1>3. Calls'
  BY <1>1 DEF IInv, Calls
<1>4. PrivateBuffer'
  <2> SUFFICES ASSUME NEW c \in Binary, NEW l \in Library, Private(c, l),
                      call[c] = [lib |-> l, at |-> "read"]
               PROVE  tmp_exported_files[l] = Current(c)'
    BY <1>1 DEF PrivateBuffer, Private
  <2>1. c # b
    BY <1>1 DEF NoCall
  <2>2. Current(c)' = Current(c)
    BY <1>1, <2>1 DEF Current
  <2> QED
    BY <2>2 DEF IInv, PrivateBuffer
<1>5. PrivateFilesMatch'
  BY <1>1 DEF IInv, PrivateFilesMatch, Private
<1> QED
  BY <1>2, <1>3, <1>4, <1>5 DEF IInv

\* A library that is on one link line only is named with the right build type
\* there, whatever the tasks of the other binaries do in the meantime to the
\* buffers that they share.
THEOREM PrivateFilesAreRight == Spec => []PrivateFilesMatch
<1>1. IInv /\ [Next]_vars => IInv'
  <2> SUFFICES ASSUME IInv, [Next]_vars
               PROVE  IInv'
    OBVIOUS
  <2>1. ASSUME UNCHANGED <<turn, pass, call, tmp_exported_files, line>>
        PROVE  IInv'
    BY <2>1 DEF IInv, TypeOK, Calls, PrivateBuffer, PrivateFilesMatch, Private, Current
  <2>2. ASSUME NEW b \in Binary, TaskStep(b)
        PROVE  IInv'
    <3>1. CASE Start(b) \/ Crash(b) \/ End(b)
      BY <3>1, <2>1 DEF Start, Crash, End
    <3> QED
      BY <2>2, <3>1, BeginExportKeeps, EndExportKeeps, ReadExportedKeeps, EndPassKeeps DEF TaskStep
  <2> QED
    BY <2>1, <2>2 DEF Next, vars
<1>2. IInv => PrivateFilesMatch
  BY DEF IInv
<1> QED
  BY <1>1, <1>2, InitHolds, PTL DEF Spec
=============================================================================

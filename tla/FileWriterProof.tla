-------------------------- MODULE FileWriterProof ---------------------------
(***************************************************************************)
(* Theorems about FileWriter, for every set of rules, however they share   *)
(* working folders, every list of files and all contents.                  *)
(***************************************************************************)
EXTENDS FileWriter, TLAPS

USE FileWriterAssumption

\* What files are made of.
Block == {Content[e][r][k][i] : e \in Edition, r \in Rule, k \in DOMAIN Files, i \in Nat} \cup {Hole}

TypeOK ==
  /\ \A p \in DOMAIN disk : disk[p] \in Seq(Block)
  /\ edition \in Edition
  /\ gen \in {"idle", "running", "done", "killed"}
  /\ at \in [Rule -> 1..(Len(Files) + 1)]
  /\ stage \in [Rule -> {"compare", "truncate", "write"}]
  /\ offset \in [Rule -> Nat]
  /\ failed \in BOOLEAN

\* A writer that has truncated its file has not written all of it yet.
Offsets ==
  \A r \in Rule :
    IF stage[r] = "write"
      THEN /\ at[r] \in DOMAIN Files
           /\ offset[r] < Len(Wanted(r, at[r]))
           /\ Path(r, at[r]) \in DOMAIN disk
      ELSE offset[r] = 0

Sharing(r) == {s \in Rule : Folder(s) = Folder(r)}

\* The tasks that are writing the k-th file of r.
Writers(r, k) == {s \in Sharing(r) : at[s] = k /\ stage[s] = "write"}

\* What is not right yet in the file, some task is still going to write.
Mended(r, k) ==
  /\ Path(r, k) \in DOMAIN disk
  /\ Len(disk[Path(r, k)]) <= Len(Wanted(r, k))
  /\ \A i \in 1..Len(Wanted(r, k)) :
       \/ i <= Len(disk[Path(r, k)]) /\ disk[Path(r, k)][i] = Wanted(r, k)[i]
       \/ \E s \in Writers(r, k) : offset[s] < i

\* When the last writer is through, or nobody has found the file different, it
\* is right as soon as one task has passed it.
FileOK(r, k) ==
  IF Writers(r, k) # {}
    THEN Mended(r, k)
    ELSE (\E s \in Sharing(r) : at[s] > k) => Right(r, k)

FilesOK ==
  gen \in {"running", "done"} /\ ~failed =>
    \A r \in Rule, k \in DOMAIN Files : Agreed(r, k) => FileOK(r, k)

\* gen is done when all tasks are through with all files.
AllPassed == \A r \in Rule : at[r] \notin DOMAIN Files

\* A task is about to truncate a file only if the file is not right.
TruncatesWrong ==
  \A r \in Rule :
    /\ Sharing(r) = {r}
    /\ Busy(r) /\ stage[r] = "truncate"
    => ~Right(r, at[r])

IInv == TypeOK /\ Offsets /\ FilesOK /\ TruncatesWrong /\ (gen = "done" => AllPassed)

-----------------------------------------------------------------------------

LEMMA FilesFacts ==
  /\ Len(Files) \in Nat
  /\ DOMAIN Files = 1..Len(Files)
  /\ \A j, k \in DOMAIN Files : Files[j] = Files[k] => j = k
BY DEF IsList

LEMMA WantedFacts ==
  ASSUME edition \in Edition, NEW r \in Rule, NEW k \in DOMAIN Files
  PROVE  /\ Wanted(r, k) \in Seq(Block)
         /\ Len(Wanted(r, k)) \in Nat \ {0}
         /\ \A i \in 1..Len(Wanted(r, k)) : Wanted(r, k)[i] \in Block
<1> DEFINE c == Content[edition][r][k]
           n == Len(c)
<1>1. n \in Nat /\ c = [i \in 1..n |-> c[i]] /\ n > 0
  BY DEF IsList
<1>2. \A i \in 1..n : c[i] \in Block
  BY DEF Block
<1>3. c \in Seq(Block)
  <2>1. [i \in 1..n |-> c[i]] \in Seq(Block)
    BY <1>1, <1>2
  <2> QED
    BY <1>1, <2>1
<1> QED
  BY <1>1, <1>2, <1>3 DEF Wanted

LEMMA OverlayFacts ==
  ASSUME NEW d \in Seq(Block), NEW i \in Nat \ {0}, NEW b \in Block
  PROVE  /\ Overlay(d, i, b) \in Seq(Block)
         /\ Len(Overlay(d, i, b)) = IF i > Len(d) THEN i ELSE Len(d)
         /\ Overlay(d, i, b)[i] = b
         /\ \A j \in 1..Len(d) : j # i => Overlay(d, i, b)[j] = d[j]
<1> DEFINE m == Max({i, Len(d)})
           o == Overlay(d, i, b)
           E(j) == IF j = i THEN b ELSE IF j \in DOMAIN d THEN d[j] ELSE Hole
<1>1. m = IF i > Len(d) THEN i ELSE Len(d)
  <2>1. Len(d) \in Nat
    OBVIOUS
  <2>2. \E x \in {i, Len(d)} : \A y \in {i, Len(d)} : x >= y
    BY <2>1
  <2>3. m \in {i, Len(d)} /\ \A y \in {i, Len(d)} : m >= y
    BY <2>2 DEF Max
  <2> QED
    BY <2>1, <2>3
<1>2. m \in Nat /\ i \in 1..m /\ 1..Len(d) \subseteq 1..m
  <2> HIDE DEF m
  <2>1. Len(d) \in Nat
    OBVIOUS
  <2> QED
    BY <1>1, <2>1
<1>3. o = [j \in 1..m |-> E(j)]
  BY DEF Overlay
<1>4. \A j \in 1..m : E(j) \in Block
  BY DEF Block
<1>5. o \in Seq(Block) /\ Len(o) = m
  <2> HIDE DEF E, m
  <2> QED
    BY <1>2, <1>3, <1>4
<1>6. o[i] = b /\ \A j \in 1..Len(d) : j # i => o[j] = d[j]
  <2>1. \A j \in 1..m : o[j] = E(j)
    BY <1>3
  <2>2. E(i) = b
    OBVIOUS
  <2>3. \A j \in 1..Len(d) : j # i => E(j) = d[j]
    OBVIOUS
  <2> HIDE DEF E, m, o
  <2> QED
    BY <2>1, <2>2, <2>3, <1>2
<1> QED
  BY <1>1, <1>5, <1>6

LEMMA InitHolds == Init => IInv
<1> SUFFICES ASSUME Init
             PROVE  IInv
  OBVIOUS
<1>1. TypeOK
  <2>1. DOMAIN disk = {}
    BY DEF Init
  <2>2. at \in [Rule -> 1..(Len(Files) + 1)]
    BY FilesFacts DEF Init
  <2> QED
    BY <2>1, <2>2 DEF Init, TypeOK
<1>2. Offsets /\ FilesOK /\ TruncatesWrong
  BY DEF Init, Offsets, FilesOK, TruncatesWrong, Busy
<1> QED
  BY <1>1, <1>2 DEF Init, IInv

-----------------------------------------------------------------------------
(* One step of one task.                                                   *)

\* The file that a task is on is written by nobody else's file number.
LEMMA PathFacts ==
  ASSUME NEW r \in Rule, NEW s \in Rule, NEW j \in DOMAIN Files, NEW k \in DOMAIN Files,
         Path(s, j) = Path(r, k)
  PROVE  s \in Sharing(r) /\ j = k
BY DEF Path, Sharing

LEMMA StepFrame ==
  ASSUME TypeOK, Offsets, NEW s \in Rule, Step(s)
  PROVE  /\ gen = "running" /\ at[s] \in DOMAIN Files
         /\ UNCHANGED <<edition, gen>>
         /\ \A r \in Rule : r # s => /\ at'[r] = at[r]
                                     /\ stage'[r] = stage[r]
                                     /\ offset'[r] = offset[r]
         /\ \/ at'[s] = at[s]
            \/ at'[s] = at[s] + 1 /\ stage'[s] = "compare"
         /\ \A p \in DOMAIN disk : p \in DOMAIN disk'
         /\ \A p \in DOMAIN disk' : p # Path(s, at[s]) => p \in DOMAIN disk /\ disk'[p] = disk[p]
<1>1. gen = "running" /\ at[s] \in DOMAIN Files /\ UNCHANGED <<edition, gen>>
  BY DEF Step, Compare, Truncate, WriteBlock, WriteFails, Busy
<1>2. \/ NextFile(s)
      \/ UNCHANGED <<at, offset>> /\ \E t : stage' = [stage EXCEPT ![s] = t]
      \/ UNCHANGED <<at, stage>> /\ \E i : offset' = [offset EXCEPT ![s] = i]
  BY DEF Step, Compare, Truncate, WriteBlock, WriteFails
<1>3. disk' = disk \/ \E c : disk' = Put(Path(s, at[s]), c)
  BY DEF Step, Compare, Truncate, WriteBlock, WriteFails
<1>4. /\ \A p \in DOMAIN disk : p \in DOMAIN disk'
      /\ \A p \in DOMAIN disk' : p # Path(s, at[s]) => p \in DOMAIN disk /\ disk'[p] = disk[p]
  BY <1>3 DEF Put
<1>5. /\ \A r \in Rule : r # s => /\ at'[r] = at[r]
                                  /\ stage'[r] = stage[r]
                                  /\ offset'[r] = offset[r]
      /\ \/ at'[s] = at[s]
         \/ at'[s] = at[s] + 1 /\ stage'[s] = "compare"
  BY <1>2 DEF TypeOK, NextFile
<1> QED
  BY <1>1, <1>4, <1>5

LEMMA StepTypes ==
  ASSUME TypeOK, Offsets, NEW s \in Rule, Step(s)
  PROVE  TypeOK'
<1>1. /\ edition' \in Edition /\ gen' \in {"idle", "running", "done", "killed"}
      /\ at[s] \in 1..Len(Files)
  BY StepFrame, FilesFacts DEF TypeOK
<1>2. failed' \in BOOLEAN
  BY DEF Step, Compare, Truncate, WriteBlock, WriteFails, TypeOK
<1>3. at' \in [Rule -> 1..(Len(Files) + 1)]
  <2>1. at[s] + 1 \in 1..(Len(Files) + 1)
    BY <1>1, FilesFacts
  <2>2. at' = at \/ at' = [at EXCEPT ![s] = at[s] + 1]
    BY DEF Step, Compare, Truncate, WriteBlock, WriteFails, NextFile
  <2> QED
    BY <2>1, <2>2 DEF TypeOK
<1>4. stage' \in [Rule -> {"compare", "truncate", "write"}]
  BY DEF Step, Compare, Truncate, WriteBlock, WriteFails, NextFile, TypeOK
<1>5. offset' \in [Rule -> Nat]
  <2>1. offset[s] + 1 \in Nat
    BY DEF TypeOK
  <2>2. \/ offset' = offset
        \/ offset' = [offset EXCEPT ![s] = 0]
        \/ offset' = [offset EXCEPT ![s] = offset[s] + 1]
    BY DEF Step, Compare, Truncate, WriteBlock, WriteFails, NextFile
  <2> QED
    BY <2>1, <2>2 DEF TypeOK
<1>6. \A p \in DOMAIN disk' : disk'[p] \in Seq(Block)
  <2>1. CASE Truncate(s)
    BY <2>1 DEF Truncate, Put, TypeOK
  <2>2. CASE WriteBlock(s)
    <3> DEFINE p == Path(s, at[s])
               w == Wanted(s, at[s])
               i == offset[s] + 1
    <3>1. i \in 1..Len(w) /\ p \in DOMAIN disk
      BY <2>2, <1>1, WantedFacts DEF WriteBlock, Offsets, TypeOK
    <3>2. w[i] \in Block /\ i \in Nat \ {0} /\ disk[p] \in Seq(Block)
      BY <3>1, <1>1, WantedFacts, FilesFacts DEF TypeOK
    <3>3. Overlay(disk[p], i, w[i]) \in Seq(Block)
      BY <3>2, OverlayFacts
    <3>4. disk' = Put(p, Overlay(disk[p], i, w[i]))
      BY <2>2 DEF WriteBlock
    <3> HIDE DEF p, w, i
    <3> QED
      BY <3>3, <3>4 DEF Put, TypeOK
  <2> QED
    BY <2>1, <2>2 DEF Step, Compare, WriteFails, TypeOK
<1> QED
  BY <1>1, <1>2, <1>3, <1>4, <1>5, <1>6 DEF TypeOK

LEMMA StepOffsets ==
  ASSUME TypeOK, Offsets, NEW s \in Rule, Step(s)
  PROVE  Offsets'
<1> SUFFICES ASSUME NEW r \in Rule
             PROVE  IF stage'[r] = "write"
                      THEN /\ at'[r] \in DOMAIN Files
                           /\ offset'[r] < Len(Wanted(r, at[r])')
                           /\ Path(r, at'[r]) \in DOMAIN disk'
                      ELSE offset'[r] = 0
  BY DEF Offsets, Path, Wanted
<1>1. CASE r # s
  BY <1>1, StepFrame DEF Offsets, Path, Wanted
<1>2. CASE r = s
  <2>1. CASE Compare(s)
    BY <2>1, <1>2 DEF Compare, NextFile, TypeOK, Offsets
  <2>2. CASE Truncate(s)
    <3>1. offset[s] = 0 /\ at'[s] = at[s] /\ offset'[s] = 0
      BY <2>2 DEF Truncate, Offsets
    <3>2. Path(s, at[s]) \in DOMAIN disk'
      BY <2>2 DEF Truncate, Put
    <3>3. at[s] \in DOMAIN Files /\ edition' = edition
      BY StepFrame
    <3>4. Len(Wanted(s, at[s])') > 0
      BY <3>1, <3>3, WantedFacts DEF TypeOK, Wanted
    <3> QED
      BY <1>2, <3>1, <3>2, <3>3, <3>4
  <2>3. CASE WriteBlock(s)
    <3>1. at[s] \in DOMAIN Files /\ edition' = edition
      BY StepFrame
    <3>2. /\ offset[s] \in Nat /\ offset[s] < Len(Wanted(s, at[s]))
          /\ Path(s, at[s]) \in DOMAIN disk
          /\ Len(Wanted(s, at[s])) \in Nat
      BY <2>3, <3>1, WantedFacts DEF WriteBlock, Offsets, TypeOK
    <3>3. CASE offset[s] + 1 = Len(Wanted(s, at[s]))
      <4>1. NextFile(s)
        BY <2>3, <3>3 DEF WriteBlock
      <4> QED
        BY <1>2, <4>1 DEF NextFile, TypeOK
    <3>4. CASE offset[s] + 1 # Len(Wanted(s, at[s]))
      <4>1. offset' = [offset EXCEPT ![s] = offset[s] + 1] /\ UNCHANGED <<at, stage>>
        BY <2>3, <3>4 DEF WriteBlock
      <4>2. offset'[s] = offset[s] + 1 /\ stage[s] = "write"
        BY <2>3, <4>1 DEF WriteBlock, TypeOK
      <4>3. Wanted(s, at[s])' = Wanted(s, at[s])
        BY <3>1, <4>1 DEF Wanted
      <4>4. offset'[s] < Len(Wanted(s, at[s])')
        BY <3>2, <3>4, <4>2, <4>3
      <4>5. Path(s, at'[s]) \in DOMAIN disk'
        BY <3>2, <4>1, StepFrame
      <4> QED
        BY <1>2, <3>1, <4>1, <4>2, <4>4, <4>5
    <3> QED
      BY <3>3, <3>4
  <2>4. CASE WriteFails(s)
    BY <2>4, <1>2 DEF WriteFails, NextFile, TypeOK
  <2> QED
    BY <2>1, <2>2, <2>3, <2>4 DEF Step
<1> QED
  BY <1>1, <1>2

-----------------------------------------------------------------------------
(* Steps that do not concern a file.                                       *)

Concerns(s, r, k) == s \in Sharing(r) /\ at[s] = k

LEMMA OtherFile ==
  ASSUME TypeOK, Offsets, NEW s \in Rule, Step(s), NEW r \in Rule, NEW k \in DOMAIN Files,
         ~Concerns(s, r, k)
  PROVE  /\ Path(r, k) \in DOMAIN disk' <=> Path(r, k) \in DOMAIN disk
         /\ Path(r, k) \in DOMAIN disk => disk'[Path(r, k)] = disk[Path(r, k)]
<1>1. Path(r, k) # Path(s, at[s])
  BY StepFrame, PathFacts DEF Concerns
<1> QED
  BY <1>1, StepFrame

LEMMA AgreedFacts ==
  ASSUME NEW r \in Rule, NEW k \in DOMAIN Files, NEW s \in Sharing(r), Agreed(r, k)
  PROVE  Path(s, k) = Path(r, k) /\ Wanted(s, k) = Wanted(r, k)
BY DEF Agreed, Path, Sharing

LEMMA SameWanted ==
  ASSUME UNCHANGED edition, NEW r \in Rule, NEW k \in DOMAIN Files
  PROVE  UNCHANGED <<Wanted(r, k), Agreed(r, k), Sharing(r)>>
BY DEF Wanted, Agreed, Sharing

LEMMA OtherFileOK ==
  ASSUME TypeOK, Offsets, NEW s \in Rule, Step(s), NEW r \in Rule, NEW k \in DOMAIN Files,
         ~Concerns(s, r, k), FileOK(r, k)
  PROVE  FileOK(r, k)'
<1>1. /\ Path(r, k) \in DOMAIN disk' <=> Path(r, k) \in DOMAIN disk
      /\ Path(r, k) \in DOMAIN disk => disk'[Path(r, k)] = disk[Path(r, k)]
  BY OtherFile
<1>2. Wanted(r, k)' = Wanted(r, k)
  BY SameWanted, StepFrame
<1>3. Right(r, k) => Right(r, k)'
  BY <1>1, <1>2 DEF Right, Path
<1>4. k \in Nat /\ at[s] \in Nat
  BY FilesFacts DEF TypeOK
<1>5. ASSUME NEW q \in Sharing(r)
      PROVE  /\ at'[q] > k <=> at[q] > k
             /\ at'[q] = k /\ stage'[q] = "write" <=> at[q] = k /\ stage[q] = "write"
             /\ at[q] = k => offset'[q] = offset[q]
  <2>1. q \in Rule /\ (q = s => at[s] # k)
    BY DEF Sharing, Concerns
  <2>2. CASE q # s
    BY <2>1, <2>2, StepFrame
  <2>3. CASE q = s
    BY <2>1, <2>3, <1>4, StepFrame
  <2> QED
    BY <2>2, <2>3
<1>6. Writers(r, k)' = Writers(r, k)
  BY <1>5 DEF Writers, Sharing
<1>7. \A q \in Writers(r, k) : offset'[q] = offset[q]
  BY <1>5 DEF Writers
<1>8. Mended(r, k) => Mended(r, k)'
  BY <1>1, <1>2, <1>6, <1>7 DEF Mended, Path
<1>9. (\E q \in Sharing(r) : at[q] > k)' <=> \E q \in Sharing(r) : at[q] > k
  BY <1>5 DEF Sharing
<1> QED
  BY <1>3, <1>6, <1>8, <1>9 DEF FileOK

-----------------------------------------------------------------------------
(* Steps that do.                                                          *)

\* A content that agrees with another in every block, and is no longer, is it.
LEMMA SameBlocks ==
  ASSUME NEW d \in Seq(Block), NEW w \in Seq(Block), Len(d) <= Len(w),
         \A i \in 1..Len(w) : i <= Len(d) /\ d[i] = w[i]
  PROVE  d = w
<1>1. Len(d) = Len(w)
  <2>1. CASE Len(w) = 0
    BY <2>1
  <2>2. CASE Len(w) # 0
    <3>1. Len(w) \in 1..Len(w)
      BY <2>2
    <3> QED
      BY <3>1
  <2> QED
    BY <2>1, <2>2
<1> QED
  BY <1>1

\* What a step of a task that is on the file leaves of the set of writers.
LEMMA WritersChange ==
  ASSUME TypeOK, Offsets, NEW s \in Rule, Step(s), NEW r \in Rule, NEW k \in DOMAIN Files,
         Concerns(s, r, k)
  PROVE  /\ Writers(r, k)' \ {s} = Writers(r, k) \ {s}
         /\ \A q \in Writers(r, k) \ {s} : offset'[q] = offset[q]
         /\ s \in Writers(r, k) <=> stage[s] = "write"
         /\ s \in Writers(r, k)' <=> at'[s] = k /\ stage'[s] = "write"
BY StepFrame DEF Writers, Sharing, Concerns

LEMMA CompareFileOK ==
  ASSUME TypeOK, Offsets, NEW s \in Rule, Compare(s), NEW r \in Rule, NEW k \in DOMAIN Files,
         Concerns(s, r, k), Agreed(r, k), FileOK(r, k)
  PROVE  FileOK(r, k)'
<1>1. Step(s) /\ disk' = disk /\ edition' = edition /\ stage[s] = "compare"
  BY DEF Step, Compare
<1>2. Writers(r, k)' = Writers(r, k) /\ \A q \in Writers(r, k) : offset'[q] = offset[q]
  <2>1. stage'[s] # "write"
    BY DEF Compare, NextFile, TypeOK
  <2>2. s \notin Writers(r, k) /\ s \notin Writers(r, k)'
    BY <1>1, <2>1, WritersChange
  <2>3. /\ Writers(r, k)' \ {s} = Writers(r, k) \ {s}
        /\ \A q \in Writers(r, k) \ {s} : offset'[q] = offset[q]
    BY <1>1, WritersChange
  <2>4. \A q : q \in Writers(r, k)' <=> q \in Writers(r, k)
    BY <2>2, <2>3
  <2> QED
    BY <2>2, <2>3, <2>4
<1>3. Wanted(r, k)' = Wanted(r, k)
  BY <1>1, SameWanted
<1>4. Mended(r, k) => Mended(r, k)'
  BY <1>1, <1>2, <1>3 DEF Mended, Path
<1>5. Right(r, k) => Right(r, k)'
  BY <1>1, <1>3 DEF Right, Path
<1>6. CASE SameContent(s)
  <2>1. Right(r, k)
    BY <1>6, AgreedFacts DEF SameContent, Right, Concerns
  <2> QED
    BY <2>1, <1>2, <1>4, <1>5 DEF FileOK
<1>7. CASE ~SameContent(s)
  <2>1. at' = at
    BY <1>7 DEF Compare
  <2> QED
    BY <2>1, <1>2, <1>4, <1>5 DEF FileOK, Sharing
<1> QED
  BY <1>6, <1>7

LEMMA TruncateFileOK ==
  ASSUME TypeOK, Offsets, NEW s \in Rule, Truncate(s), NEW r \in Rule, NEW k \in DOMAIN Files,
         Concerns(s, r, k), Agreed(r, k)
  PROVE  FileOK(r, k)'
<1>1. Step(s) /\ edition' = edition /\ offset[s] = 0
  BY DEF Step, Truncate, Offsets
<1>2. s \in Writers(r, k)' /\ offset'[s] = 0
  <2>1. at'[s] = k /\ stage'[s] = "write" /\ offset'[s] = 0
    BY <1>1 DEF Truncate, TypeOK, Concerns
  <2> QED
    BY <1>1, <2>1, WritersChange
<1>3. Path(s, at[s]) = Path(r, k)
  BY AgreedFacts DEF Concerns
<1>4. Path(r, k) \in DOMAIN disk' /\ disk'[Path(r, k)] = <<>>
  BY <1>3 DEF Truncate, Put
<1>5. Len(Wanted(r, k)') \in Nat
  BY <1>1, WantedFacts, SameWanted DEF TypeOK
<1>6. Mended(r, k)'
  BY <1>2, <1>4, <1>5 DEF Mended, Path
<1> QED
  BY <1>2, <1>6 DEF FileOK

LEMMA WriteBlockFileOK ==
  ASSUME TypeOK, Offsets, NEW s \in Rule, WriteBlock(s), NEW r \in Rule, NEW k \in DOMAIN Files,
         Concerns(s, r, k), Agreed(r, k), FileOK(r, k)
  PROVE  FileOK(r, k)'
<1> DEFINE p == Path(r, k)
           w == Wanted(r, k)
           i == offset[s] + 1
           d == disk[p]
           e == disk'[p]
<1>1. Step(s) /\ edition' = edition /\ stage[s] = "write" /\ at[s] = k /\ s \in Sharing(r)
  BY DEF Step, WriteBlock, Concerns
<1>2. Path(s, k) = p /\ Wanted(s, k) = w /\ Wanted(r, k)' = w
  BY <1>1, AgreedFacts, SameWanted
<1>3. /\ offset[s] \in Nat /\ offset[s] < Len(w)
      /\ p \in DOMAIN disk
      /\ Len(w) \in Nat
      /\ i \in 1..Len(w) /\ i \in Nat \ {0}
      /\ w[i] \in Block
      /\ d \in Seq(Block) /\ Len(d) \in Nat
  <2>1. offset[s] \in Nat /\ offset[s] < Len(w) /\ p \in DOMAIN disk
    BY <1>1, <1>2 DEF Offsets, TypeOK
  <2>2. Len(w) \in Nat /\ \A j \in 1..Len(w) : w[j] \in Block
    BY WantedFacts DEF TypeOK
  <2>3. d \in Seq(Block) /\ Len(d) \in Nat
    BY <2>1 DEF TypeOK
  <2> QED
    BY <2>1, <2>2, <2>3
<1>4. Mended(r, k)
  <2>1. s \in Writers(r, k)
    BY <1>1, WritersChange
  <2> QED
    BY <2>1 DEF FileOK
<1>5. p \in DOMAIN disk' /\ e = Overlay(d, i, w[i])
  BY <1>1, <1>2 DEF WriteBlock, Put
<1>6. /\ Len(e) = IF i > Len(d) THEN i ELSE Len(d)
      /\ e[i] = w[i]
      /\ \A j \in 1..Len(d) : j # i => e[j] = d[j]
  <2> HIDE DEF d, w, i, e
  <2>1. d \in Seq(Block) /\ i \in Nat \ {0} /\ w[i] \in Block
    BY <1>3
  <2>2. /\ Len(Overlay(d, i, w[i])) = IF i > Len(d) THEN i ELSE Len(d)
        /\ Overlay(d, i, w[i])[i] = w[i]
        /\ \A j \in 1..Len(d) : j # i => Overlay(d, i, w[i])[j] = d[j]
    <3> DEFINE b == w[i]
    <3>1. b \in Block
      BY <2>1
    <3> HIDE DEF b
    <3>2. Len(Overlay(d, i, b)) = IF i > Len(d) THEN i ELSE Len(d)
      BY <2>1, <3>1, OverlayFacts
    <3>3. Overlay(d, i, b)[i] = b
      BY <2>1, <3>1, OverlayFacts
    <3>4. \A j \in 1..Len(d) : j # i => Overlay(d, i, b)[j] = d[j]
      BY <2>1, <3>1, OverlayFacts
    <3> QED
      BY <3>2, <3>3, <3>4 DEF b
  <2> QED
    BY <2>1, <2>2, <1>5
<1>7. Len(d) <= Len(w) /\ Len(e) <= Len(w) /\ i <= Len(e) /\ Len(d) <= Len(e) /\ Len(e) \in Nat
  <2>1. Len(d) <= Len(w)
    BY <1>4 DEF Mended
  <2> HIDE DEF d, w, i, e
  <2> QED
    BY <2>1, <1>3, <1>6
<1>8. /\ Writers(r, k)' \ {s} = Writers(r, k) \ {s}
      /\ \A q \in Writers(r, k) \ {s} : offset'[q] = offset[q]
      /\ s \in Writers(r, k)' <=> at'[s] = k /\ stage'[s] = "write"
  BY <1>1, WritersChange
<1>9. CASE i = Len(w)
  <2>1. NextFile(s)
    BY <1>1, <1>2, <1>9 DEF WriteBlock
  <2>2. s \notin Writers(r, k)'
    BY <2>1, <1>8 DEF NextFile, TypeOK
  <2>3. ASSUME NEW j \in 1..Len(w)
        PROVE  \/ j <= Len(e) /\ e[j] = w[j]
               \/ \E q \in Writers(r, k)' : offset'[q] < j
    <3>1. CASE j = i
      BY <3>1, <1>6, <1>7
    <3>2. CASE j # i /\ j <= Len(d) /\ d[j] = w[j]
      <4>1. j \in 1..Len(d) /\ j <= Len(e)
        BY <3>2, <1>3, <1>7
      <4> QED
        BY <3>2, <4>1, <1>6
    <3>3. CASE j # i /\ \E q \in Writers(r, k) : offset[q] < j
      <4>1. PICK q \in Writers(r, k) : offset[q] < j
        BY <3>3
      <4>2. CASE q = s
        BY <3>3, <4>1, <4>2, <1>3, <1>9
      <4>3. CASE q # s
        BY <4>1, <4>3, <1>8
      <4> QED
        BY <4>2, <4>3
    <3> QED
      BY <3>1, <3>2, <3>3, <1>4 DEF Mended
  <2>4. Mended(r, k)'
    <3>1. Path(r, k)' = p
      BY DEF Path
    <3> QED
      BY <2>3, <3>1, <1>2, <1>5, <1>7 DEF Mended
  <2>5. TypeOK'
    BY <1>1, StepTypes
  <2>6. ASSUME Writers(r, k)' = {}
        PROVE  Right(r, k)'
    <3>1. e \in Seq(Block) /\ w \in Seq(Block)
      BY <2>5, <1>5, WantedFacts DEF TypeOK
    <3>2. \A j \in 1..Len(w) : j <= Len(e) /\ e[j] = w[j]
      BY <2>3, <2>6
    <3>3. e = w
      <4> HIDE DEF e, w
      <4> QED
        BY <3>1, <3>2, <1>7, SameBlocks
    <3> QED
      BY <3>3, <1>2, <1>5 DEF Right, Path
  <2> QED
    BY <2>4, <2>6 DEF FileOK
<1>10. CASE i # Len(w)
  <2>1. UNCHANGED <<at, stage>> /\ offset'[s] = i
    BY <1>1, <1>2, <1>10 DEF WriteBlock, TypeOK
  <2>2. s \in Writers(r, k)'
    BY <2>1, <1>1, <1>8
  <2>3. ASSUME NEW j \in 1..Len(w)
        PROVE  \/ j <= Len(e) /\ e[j] = w[j]
               \/ \E q \in Writers(r, k)' : offset'[q] < j
    <3>1. CASE j = i
      BY <3>1, <1>6, <1>7
    <3>2. CASE j # i /\ j <= Len(d) /\ d[j] = w[j]
      <4>1. j \in 1..Len(d) /\ j <= Len(e)
        BY <3>2, <1>3, <1>7
      <4> QED
        BY <3>2, <4>1, <1>6
    <3>3. CASE j # i /\ \E q \in Writers(r, k) : offset[q] < j
      <4>1. PICK q \in Writers(r, k) : offset[q] < j
        BY <3>3
      <4>2. CASE q = s
        <5>1. i < j
          BY <3>3, <4>1, <4>2, <1>3
        <5> QED
          BY <5>1, <2>1, <2>2
      <4>3. CASE q # s
        BY <4>1, <4>3, <1>8
      <4> QED
        BY <4>2, <4>3
    <3> QED
      BY <3>1, <3>2, <3>3, <1>4 DEF Mended
  <2>4. Mended(r, k)'
    <3>1. Path(r, k)' = p
      BY DEF Path
    <3> QED
      BY <2>3, <3>1, <1>2, <1>5, <1>7 DEF Mended
  <2> QED
    BY <2>2, <2>4 DEF FileOK
<1> QED
  BY <1>9, <1>10

LEMMA StepFilesOK ==
  ASSUME TypeOK, Offsets, FilesOK, NEW s \in Rule, Step(s)
  PROVE  FilesOK'
<1> SUFFICES ASSUME gen' \in {"running", "done"}, ~failed',
                    NEW r \in Rule, NEW k \in DOMAIN Files, Agreed(r, k)'
             PROVE  FileOK(r, k)'
  BY DEF FilesOK
<1>1. Agreed(r, k) /\ gen = "running"
  BY StepFrame, SameWanted
<1>2. ~WriteFails(s) /\ ~failed
  BY DEF Step, Compare, Truncate, WriteBlock, WriteFails
<1>3. FileOK(r, k)
  BY <1>1, <1>2 DEF FilesOK
<1>4. CASE Concerns(s, r, k)
  BY <1>1, <1>2, <1>3, <1>4, CompareFileOK, TruncateFileOK, WriteBlockFileOK DEF Step
<1>5. CASE ~Concerns(s, r, k)
  BY <1>3, <1>5, OtherFileOK
<1> QED
  BY <1>4, <1>5

LEMMA StepTruncatesWrong ==
  ASSUME TypeOK, Offsets, TruncatesWrong, NEW s \in Rule, Step(s)
  PROVE  TruncatesWrong'
<1> SUFFICES ASSUME NEW r \in Rule, Sharing(r) = {r}, Busy(r)', stage'[r] = "truncate"
             PROVE  ~Right(r, at[r])'
  BY DEF TruncatesWrong, Sharing
<1>1. edition' = edition /\ gen = "running"
  BY StepFrame
<1>2. CASE r # s
  <2>1. at'[r] = at[r] /\ stage[r] = "truncate" /\ at[r] \in DOMAIN Files
    BY <1>2, StepFrame DEF Busy
  <2>2. ~Right(r, at[r])
    BY <1>1, <2>1 DEF TruncatesWrong, Busy
  <2>3. ~Concerns(s, r, at[r])
    BY <1>2 DEF Concerns
  <2> QED
    BY <1>1, <2>1, <2>2, <2>3, OtherFile DEF Right, Path, Wanted
<1>3. CASE r = s
  <2>1. CASE Compare(s)
    <3>1. CASE SameContent(s)
      BY <1>3, <2>1, <3>1 DEF Compare, NextFile, TypeOK
    <3>2. CASE ~SameContent(s)
      BY <1>3, <2>1, <3>2 DEF Compare, SameContent, Right, Path, Wanted
    <3> QED
      BY <3>1, <3>2
  <2>2. CASE Truncate(s)
    BY <1>3, <2>2 DEF Truncate, TypeOK
  <2>3. CASE WriteBlock(s)
    BY <1>3, <2>3 DEF WriteBlock, NextFile, TypeOK
  <2>4. CASE WriteFails(s)
    BY <1>3, <2>4 DEF WriteFails, NextFile, TypeOK
  <2> QED
    BY <2>1, <2>2, <2>3, <2>4 DEF Step
<1> QED
  BY <1>2, <1>3

-----------------------------------------------------------------------------

LEMMA StartKeeps ==
  ASSUME IInv, Start
  PROVE  IInv'
<1>1. /\ at' = [r \in Rule |-> 1] /\ stage' = [r \in Rule |-> "compare"]
      /\ offset' = [r \in Rule |-> 0] /\ gen' = "running"
      /\ edition' \in Edition /\ failed' = FALSE /\ disk' = disk
  BY DEF Start
<1>2. TypeOK'
  <2>1. at' \in [Rule -> 1..(Len(Files) + 1)]
    BY <1>1, FilesFacts
  <2> QED
    BY <1>1, <2>1 DEF IInv, TypeOK
<1>3. Offsets' /\ TruncatesWrong'
  BY <1>1 DEF Offsets, TruncatesWrong
<1>4. FilesOK'
  <2> SUFFICES ASSUME NEW r \in Rule, NEW k \in DOMAIN Files
               PROVE  FileOK(r, k)'
    BY DEF FilesOK
  <2>1. Writers(r, k)' = {}
    BY <1>1 DEF Writers, Sharing
  <2>2. ~(\E s \in Sharing(r) : at[s] > k)'
    BY <1>1, FilesFacts DEF Sharing
  <2> QED
    BY <2>1, <2>2 DEF FileOK
<1> QED
  BY <1>1, <1>2, <1>3, <1>4 DEF IInv

LEMMA EndKeeps ==
  ASSUME IInv, Finish \/ Kill
  PROVE  IInv'
<1>1. /\ UNCHANGED <<disk, edition, at, stage, offset, failed>>
      /\ gen = "running" /\ gen' \in {"done", "killed"}
  BY DEF Finish, Kill, writers
<1>2. TypeOK'
  BY <1>1 DEF IInv, TypeOK
<1>3. Offsets'
  BY <1>1 DEF IInv, Offsets, Wanted, Path
<1>4. TruncatesWrong'
  BY <1>1 DEF TruncatesWrong, Busy
<1>5. FilesOK'
  <2> SUFFICES ASSUME ~failed, NEW r \in Rule, NEW k \in DOMAIN Files, Agreed(r, k)'
               PROVE  FileOK(r, k)'
    BY <1>1 DEF FilesOK
  <2>1. Agreed(r, k)
    BY <1>1, SameWanted
  <2>2. FileOK(r, k)
    BY <1>1, <2>1 DEF IInv, FilesOK
  <2>3. /\ Writers(r, k)' = Writers(r, k)
        /\ Right(r, k)' = Right(r, k)
        /\ (\E s \in Sharing(r) : at[s] > k)' = \E s \in Sharing(r) : at[s] > k
    BY <1>1 DEF Writers, Sharing, Right, Path, Wanted
  <2>4. Mended(r, k) => Mended(r, k)'
    BY <1>1, <2>3 DEF Mended, Path, Wanted
  <2> QED
    BY <2>2, <2>3, <2>4 DEF FileOK
<1>6. gen' = "done" => AllPassed'
  BY <1>1 DEF Finish, Kill, AllPassed
<1> QED
  BY <1>2, <1>3, <1>4, <1>5, <1>6 DEF IInv

LEMMA Invariance == Spec => []IInv
<1>1. IInv /\ [Next]_vars => IInv'
  <2> SUFFICES ASSUME IInv, [Next]_vars
               PROVE  IInv'
    OBVIOUS
  <2>1. ASSUME NEW s \in Rule, Step(s)
        PROVE  IInv'
    BY <2>1, StepFrame, StepTypes, StepOffsets, StepFilesOK, StepTruncatesWrong DEF IInv
  <2>2. CASE UNCHANGED vars
    BY <2>2 DEF vars, IInv, TypeOK, Offsets, FilesOK, TruncatesWrong, AllPassed, FileOK, Mended,
         Writers, Sharing, Right, Agreed, Path, Wanted, Busy
  <2> QED
    BY <2>1, <2>2, StartKeeps, EndKeeps DEF Next
<1> QED
  BY <1>1, InitHolds, PTL DEF Spec

-----------------------------------------------------------------------------
(* The theorems.                                                           *)

\* A gen that is done and has met no failing write leaves every file that its
\* writers agree on right, up to outer blanks, although FileWriter::flush writes
\* in place, looks at nothing but the contents, and may have been killed in the
\* middle of any file by earlier runs.
THEOREM DoneMeansRight == Spec => []DoneIsRight
<1>1. IInv => DoneIsRight
  <2> SUFFICES ASSUME IInv, gen = "done", ~failed, AllPassed,
                      NEW r \in Rule, NEW k \in DOMAIN Files, Agreed(r, k)
               PROVE  Right(r, k)
    BY DEF DoneIsRight, IInv
  <2>1. at[r] > k
    BY FilesFacts DEF IInv, TypeOK, AllPassed
  <2>2. Writers(r, k) = {}
    BY DEF Writers, AllPassed, Sharing
  <2>3. FileOK(r, k)
    BY DEF IInv, FilesOK
  <2> QED
    BY <2>1, <2>2, <2>3 DEF FileOK, Sharing
<1> QED
  BY <1>1, Invariance, PTL

\* gen leaves the files alone that are right already, so that make does not
\* rebuild what depends on them; a task truncates only what it has seen to be
\* different, and nobody mends it in between.
THEOREM RightStaysUntouched == Spec => RightIsUntouched
<1> DEFINE Untouched ==
      \A r \in Rule, k \in DOMAIN Files :
        /\ \A s \in Rule : Folder(s) = Folder(r) => s = r
        /\ Right(r, k)
        /\ ~(Busy(r) /\ at[r] = k /\ stage[r] = "write")
        => Path(r, k) \in DOMAIN disk' /\ disk'[Path(r, k)] = disk[Path(r, k)]
<1>1. IInv /\ [Next]_vars => [Untouched]_vars
  <2> SUFFICES ASSUME IInv, Next,
                      NEW r \in Rule, NEW k \in DOMAIN Files,
                      \A s \in Rule : Folder(s) = Folder(r) => s = r,
                      Right(r, k),
                      ~(Busy(r) /\ at[r] = k /\ stage[r] = "write")
               PROVE  Path(r, k) \in DOMAIN disk' /\ disk'[Path(r, k)] = disk[Path(r, k)]
    OBVIOUS
  <2>1. Path(r, k) \in DOMAIN disk /\ Sharing(r) = {r}
    BY DEF Right, Sharing
  <2>2. CASE disk' = disk
    BY <2>1, <2>2
  <2>3. ASSUME NEW s \in Rule, Step(s)
        PROVE  Path(r, k) \in DOMAIN disk' /\ disk'[Path(r, k)] = disk[Path(r, k)]
    <3>1. CASE ~Concerns(s, r, k)
      BY <2>1, <2>3, <3>1, OtherFile DEF IInv
    <3>2. CASE Concerns(s, r, k)
      <4>1. s = r /\ at[r] = k
        BY <2>1, <3>2 DEF Concerns
      <4>2. Compare(s) \/ WriteFails(s)
        BY <2>3, <4>1 DEF Step, Truncate, WriteBlock, IInv, TruncatesWrong, Sharing
      <4> QED
        BY <2>2, <4>2 DEF Compare, WriteFails
    <3> QED
      BY <3>1, <3>2
  <2> QED
    BY <2>2, <2>3 DEF Next, Start, Finish, Kill
<1> QED
  BY <1>1, Invariance, PTL DEF Spec, RightIsUntouched
=============================================================================

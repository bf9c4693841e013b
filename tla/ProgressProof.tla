--------------------------- MODULE ProgressProof ----------------------------
(***************************************************************************)
(* Theorems about Progress, for every set of rules, of keys and of         *)
(* dependencies (cyclic ones included) and every number of restarts.       *)
(*                                                                         *)
(* What MergeNumbers collects from below a rule does not matter to them,   *)
(* only that it is made of the numbers of rules, the rule's own included.  *)
(***************************************************************************)
EXTENDS Progress, FiniteSetTheorems, TLAPS

USE ProgressAssumption

-----------------------------------------------------------------------------
(* The inductive invariant.                                                *)

TypeOK ==
  /\ phase \in {"compile", "mark", "make", "made"}
  /\ Count \in Nat
  /\ values \in [Steps -> Nat \cup {-1}]
  /\ key \in [Rule -> (UNION {Keys[r] : r \in Rule}) \cup {Unread}]
  /\ read \in [Rule -> Nat]
  /\ total \in Nat
  /\ built \subseteq Rule

\* A task is inside Next only for a key of its own that has no number yet.
Calls == \A r \in Rule : key[r] # Unread => key[r] \in Keys[r] /\ values[<<r, key[r]>>] = -1

\* The values that Count has, or will be overwritten from.
Counts == {Count} \cup {read[r] : r \in {r \in Rule : key[r] # Unread}}

\* Everything below a number, and below what Count may become, is given.
Initial ==
  /\ \A n \in Numbers : 0..n \subseteq Numbers
  /\ \A c \in Counts : 0..(c - 1) \subseteq Numbers

Distinct == \A s, t \in Numbered : values[s] = values[t] => s = t

\* A count cannot be ahead of the numbers given; one that is as high as their
\* number knows of all of them.
Honest ==
  /\ IsFiniteSet(Numbered)
  /\ \A c \in Counts :
       /\ c <= Cardinality(Numbered)
       /\ c = Cardinality(Numbered) => Distinct /\ \A n \in Numbers : n < c

\* Once progress.mark is there the numbers stay as they are, and make prints
\* no others; it has printed all those of the rules that it has made.
Made ==
  /\ phase # "compile" => /\ Numbered = Steps
                          /\ total = Count
  /\ IsFiniteSet(Numbers)
  /\ dir \subseteq Numbers
  /\ phase \in {"make", "made"} => \A r \in built : RuleSteps(r) \subseteq dir
  /\ phase = "made" => built = Rule

IInv == TypeOK /\ Calls /\ Initial /\ Honest /\ Made

-----------------------------------------------------------------------------

LEMMA StepFacts ==
  /\ Steps \subseteq Step
  /\ \A s \in Steps : s[1] \in Rule /\ s[2] \in Keys[s[1]] /\ s = <<s[1], s[2]>>
  /\ \A r \in Rule : \A k \in Keys[r] : <<r, k>> \in Steps
BY DEF Steps, Step

LEMMA NumbersAreNaturals == TypeOK => Numbers \subseteq Nat /\ Numbered \subseteq Steps
BY DEF TypeOK, Numbers, Numbered

\* What WriteCount changes: one step more has a number.
LEMMA OneMoreNumber ==
  ASSUME TypeOK, Calls, NEW r \in Rule, WriteCount(r)
  PROVE  LET s == <<r, key[r]>>
         IN  /\ s \in Steps \ Numbered
             /\ values'[s] = read[r]
             /\ \A t \in Numbered : t # s /\ values'[t] = values[t]
             /\ Numbered' = Numbered \cup {s}
             /\ Numbers' = Numbers \cup {read[r]}
             /\ Count' = read[r] + 1
             /\ Counts' \subseteq Counts \cup {read[r] + 1}
             /\ read[r] \in Counts
<1> DEFINE s == <<r, key[r]>>
<1>1. /\ s \in Steps
      /\ values[s] = -1
      /\ read[r] \in Nat
      /\ values' = [values EXCEPT ![s] = read[r]]
      /\ values' \in [Steps -> Nat \cup {-1}]
  BY StepFacts DEF Calls, WriteCount, NextReturns, TypeOK
<1>2. /\ s \in Steps \ Numbered
      /\ values'[s] = read[r]
      /\ \A t \in Numbered : t # s /\ values'[t] = values[t]
  BY <1>1 DEF TypeOK, Numbered
<1>3. Numbered' = Numbered \cup {s}
  BY <1>1 DEF TypeOK, Numbered
<1>4. Numbers' = Numbers \cup {read[r]}
  <2>1. Numbers = {values[t] : t \in Numbered} /\ Numbers' = {values'[t] : t \in Numbered'}
    BY DEF Numbers, Numbered
  <2> QED
    BY <2>1, <1>2, <1>3
<1>5. /\ Count' = read[r] + 1
      /\ Counts' \subseteq Counts \cup {read[r] + 1}
      /\ read[r] \in Counts
  BY DEF WriteCount, Incremented, Counts, TypeOK
<1> QED
  BY <1>2, <1>3, <1>4, <1>5

\* The steps of make leave the numbers alone.
LEMMA GeneratedUnchanged ==
  ASSUME UNCHANGED generated
  PROVE  /\ UNCHANGED <<Numbers, Numbered, Counts>>
         /\ Calls => Calls'
         /\ Initial => Initial'
         /\ Honest => Honest'
         /\ \A r \in Rule : RuleSteps(r)' = RuleSteps(r)
BY DEF generated, Numbers, Numbered, Counts, Calls, Initial, Honest, Distinct, RuleSteps

\* With all steps numbered, a rule's numbers are numbers.
LEMMA RuleStepsAreNumbers ==
  ASSUME Numbered = Steps, NEW r \in Rule
  PROVE  /\ RuleSteps(r) \subseteq Numbers
         /\ MergeNumbers(r) \subseteq Numbers
         /\ RuleSteps(r) \subseteq MergeNumbers(r)
<1>1. \A q \in Rule : RuleSteps(q) \subseteq Numbers
  BY DEF RuleSteps, Numbers, Numbered
<1>2. DOMAIN Dependencies = Rule
  BY ProgressAssumption
<1>3. Reachable(Dependencies)[r] \subseteq Rule /\ r \in Reachable(Dependencies)[r]
  BY <1>2 DEF Reachable
<1> QED
  BY <1>1, <1>3 DEF MergeNumbers

LEMMA InitHolds == Init => IInv
<1> SUFFICES ASSUME Init
             PROVE  IInv
  OBVIOUS
<1>1. Numbered = {} /\ Numbers = {} /\ Counts = {0}
  BY DEF Init, Numbered, Numbers, Counts
<1>2. TypeOK
  BY DEF Init, TypeOK
<1>3. Calls
  BY DEF Init, Calls
<1>4. Initial
  BY <1>1 DEF Initial
<1>5. Honest
  BY <1>1, FS_EmptySet DEF Honest, Distinct
<1>6. Made
  BY <1>1, FS_EmptySet DEF Init, Made
<1> QED
  BY <1>2, <1>3, <1>4, <1>5, <1>6 DEF IInv

LEMMA WriteKeeps ==
  ASSUME IInv, NEW r \in Rule, WriteCount(r)
  PROVE  IInv'
<1> USE DEF IInv
<1> DEFINE s == <<r, key[r]>>
<1>1. /\ s \in Steps \ Numbered
      /\ values'[s] = read[r]
      /\ \A t \in Numbered : t # s /\ values'[t] = values[t]
      /\ Numbered' = Numbered \cup {s}
      /\ Numbers' = Numbers \cup {read[r]}
      /\ Count' = read[r] + 1
      /\ Counts' \subseteq Counts \cup {read[r] + 1}
      /\ read[r] \in Counts
  BY OneMoreNumber
<1>2. read[r] \in Nat /\ Counts \subseteq Nat /\ Numbers \subseteq Nat
  BY NumbersAreNaturals DEF TypeOK, Counts
<1>3. TypeOK'
  BY StepFacts DEF TypeOK, WriteCount, NextReturns, Incremented, making, Calls
<1>4. Calls'
  <2> SUFFICES ASSUME NEW q \in Rule, key'[q] # Unread
               PROVE  key'[q] \in Keys[q] /\ values'[<<q, key'[q]>>] = -1
    BY DEF Calls
  <2>1. q # r /\ key'[q] = key[q]
    BY DEF WriteCount, TypeOK
  <2>2. key[q] \in Keys[q] /\ values[<<q, key[q]>>] = -1 /\ <<q, key[q]>> \in Steps
    BY <2>1, StepFacts DEF Calls
  <2>3. values'[<<q, key[q]>>] = values[<<q, key[q]>>]
    BY <2>1, <2>2 DEF WriteCount, TypeOK
  <2> QED
    BY <2>1, <2>2, <2>3
<1>5. Initial'
  <2>1. 0..(read[r] - 1) \subseteq Numbers
    BY <1>1 DEF Initial
  <2>2. 0..read[r] \subseteq Numbers'
    BY <2>1, <1>1, <1>2
  <2>3. (read[r] + 1) - 1 = read[r]
    BY <1>2
  <2>4. \A n \in Numbers' : 0..n \subseteq Numbers'
    BY <2>2, <1>1 DEF Initial
  <2>5. \A c \in Counts' : 0..(c - 1) \subseteq Numbers'
    BY <2>2, <2>3, <1>1 DEF Initial
  <2> QED
    BY <2>4, <2>5 DEF Initial
<1>6. Honest'
  <2>1. /\ IsFiniteSet(Numbered')
        /\ Cardinality(Numbered') = Cardinality(Numbered) + 1
        /\ Cardinality(Numbered) \in Nat
    BY <1>1, FS_AddElement, FS_CardinalityType DEF Honest
  <2>2. ASSUME NEW c \in Counts
        PROVE  c <= Cardinality(Numbered) /\ c < Cardinality(Numbered')
    <3>1. c \in Nat /\ c <= Cardinality(Numbered)
      BY <1>2 DEF Honest
    <3> QED
      BY <3>1, <2>1
  <2>3. read[r] + 1 <= Cardinality(Numbered')
    BY <1>1, <1>2, <2>1, <2>2
  <2>4. ASSUME read[r] + 1 = Cardinality(Numbered')
        PROVE  Distinct' /\ \A n \in Numbers' : n < read[r] + 1
    <3>1. read[r] = Cardinality(Numbered)
      BY <2>1, <2>4, <1>2
    <3>2. Distinct /\ \A n \in Numbers : n < read[r]
      BY <3>1, <1>1 DEF Honest
    <3>3. ASSUME NEW t \in Numbered
          PROVE  values'[t] # read[r]
      <4>1. values[t] \in Numbers /\ values'[t] = values[t]
        BY <1>1 DEF Numbers, Numbered
      <4> QED
        BY <4>1, <3>2, <1>2
    <3>4. Distinct'
      BY <3>2, <3>3, <1>1 DEF Distinct
    <3>5. \A n \in Numbers' : n < read[r] + 1
      BY <3>2, <1>1, <1>2
    <3> QED
      BY <3>4, <3>5
  <2>5. \A c \in Counts' : c \in Counts \/ c = read[r] + 1
    BY <1>1
  <2>6. \A c \in Counts : c # Cardinality(Numbered')
    BY <2>1, <2>2, <1>2
  <2>7. ASSUME NEW c \in Counts'
        PROVE  c <= Cardinality(Numbered')
    <3>1. CASE c \in Counts
      <4>1. c \in Nat /\ c < Cardinality(Numbered')
        BY <3>1, <2>2, <1>2
      <4> QED
        BY <4>1, <2>1
    <3> QED
      BY <3>1, <2>3, <2>5
  <2> QED
    BY <2>1, <2>4, <2>5, <2>6, <2>7 DEF Honest
<1>7. Made'
  <2>1. IsFiniteSet(Numbers')
    BY <1>1, FS_AddElement DEF Made
  <2>2. phase' = "compile" /\ dir' = dir
    BY DEF WriteCount, making
  <2> QED
    BY <1>1, <2>1, <2>2 DEF Made
<1> QED
  BY <1>3, <1>4, <1>5, <1>6, <1>7

LEMMA ReadKeeps ==
  ASSUME IInv, NEW r \in Rule, NEW k \in Keys[r], ReadCount(r, k)
  PROVE  IInv'
<1> USE DEF IInv
<1>1. TypeOK'
  BY DEF TypeOK, ReadCount, making
<1>2. /\ UNCHANGED <<Numbered, Numbers, Distinct>>
      /\ Counts' \subseteq Counts
  BY DEF ReadCount, Numbered, Numbers, Distinct, Counts, TypeOK
<1>3. Calls'
  BY DEF Calls, ReadCount, TypeOK
<1>4. Initial'
  BY <1>2 DEF Initial
<1>5. Honest'
  BY <1>2 DEF Honest
<1>6. Made'
  BY <1>2 DEF Made, ReadCount, making
<1> QED
  BY <1>1, <1>3, <1>4, <1>5, <1>6

LEMMA CompileKeeps ==
  ASSUME IInv, Compile
  PROVE  IInv'
<1>1. CASE WriteMark
  <2> USE DEF IInv
  <2>1. UNCHANGED generated /\ phase' = "mark" /\ UNCHANGED <<dir, built>> /\ total' = Count
    BY <1>1 DEF WriteMark
  <2>2. Numbered = Steps
    BY <1>1 DEF WriteMark, Numbered
  <2>3. TypeOK'
    BY <2>1 DEF TypeOK, generated
  <2>4. Made'
    BY <2>1, <2>2, GeneratedUnchanged DEF Made, generated
  <2> QED
    BY <2>1, <2>3, <2>4, GeneratedUnchanged
<1> QED
  BY <1>1, WriteKeeps, ReadKeeps DEF Compile

LEMMA MakeKeeps ==
  ASSUME IInv, Make
  PROVE  IInv'
<1> USE DEF IInv
<1>1. UNCHANGED <<generated, total>>
  BY DEF Make, StartProgress, MakeEnds, MakeAgain, MakeFile, MakeLink, MakeRule, making
<1>2. TypeOK' /\ phase # "compile" /\ phase' # "compile"
  BY <1>1 DEF Make, StartProgress, MakeEnds, MakeAgain, MakeFile, MakeLink, MakeRule, making,
       TypeOK, generated
<1>3. /\ UNCHANGED <<Numbers, Numbered, Count>>
      /\ Numbered = Steps
      /\ total = Count
      /\ \A r \in Rule : RuleSteps(r)' = RuleSteps(r)
  BY <1>1, <1>2, GeneratedUnchanged DEF Made, generated
<1>4. /\ dir' \subseteq Numbers
      /\ phase' \in {"make", "made"} => \A r \in built' : RuleSteps(r) \subseteq dir'
      /\ phase' = "made" => built' = Rule
  <2> USE DEF Made
  <2>1. CASE StartProgress
    BY <2>1 DEF StartProgress
  <2>2. CASE MakeEnds
    BY <2>2 DEF MakeEnds, making
  <2>3. CASE MakeAgain
    BY <2>3 DEF MakeAgain
  <2>4. ASSUME NEW s \in Steps, MakeFile(s)
        PROVE  <1>4
    <3>1. values[s] \in Numbers
      BY <1>3, <2>4 DEF Numbers, Numbered
    <3> QED
      BY <2>4, <3>1 DEF MakeFile, Echo
  <2>5. ASSUME NEW r \in Rule, MakeLink(r)
        PROVE  <1>4
    BY <2>5, <1>3, RuleStepsAreNumbers DEF MakeLink, Echo
  <2>6. ASSUME NEW r \in Rule, MakeRule(r)
        PROVE  <1>4
    BY <2>6, <1>3, RuleStepsAreNumbers DEF MakeRule, Echo
  <2> QED
    BY <2>1, <2>2, <2>3, <2>4, <2>5, <2>6 DEF Make
<1>5. Made'
  <2>1. \A r \in built' : r \in Rule
    BY <1>2 DEF TypeOK
  <2> QED
    BY <1>1, <1>3, <1>4, <2>1 DEF Made
<1> QED
  BY <1>1, <1>2, <1>5, GeneratedUnchanged

LEMMA Invariance == Spec => []IInv
<1>1. IInv /\ [Next]_vars => IInv'
  <2> SUFFICES ASSUME IInv, [Next]_vars
               PROVE  IInv'
    OBVIOUS
  <2>1. CASE UNCHANGED vars
    <3>1. UNCHANGED generated /\ UNCHANGED <<phase, total, dir, built>>
      BY <2>1 DEF vars, making
    <3>2. TypeOK' /\ Count' = Count
      BY <3>1 DEF IInv, TypeOK, generated
    <3>3. Made'
      BY <3>1, <3>2, GeneratedUnchanged DEF IInv, Made, TypeOK
    <3> QED
      BY <3>1, <3>2, <3>3, GeneratedUnchanged DEF IInv
  <2> QED
    BY <2>1, CompileKeeps, MakeKeeps DEF Next
<1> QED
  BY <1>1, InitHolds, PTL DEF Spec

-----------------------------------------------------------------------------
(* The theorems.                                                           *)

\* Counter()->Next() may lose updates, but it never skips a number: the tasks'
\* plain Count++ hands out n only when n - 1 has been handed out.
THEOREM NumbersHaveNoGaps == Spec => []NoGaps
<1>1. IInv => NoGaps
  <2> SUFFICES ASSUME IInv
               PROVE  NoGaps
    OBVIOUS
  <2>1. Numbers \subseteq Nat /\ Counts \subseteq Nat
    BY NumbersAreNaturals DEF IInv, TypeOK, Counts
  <2>2. \A n \in Numbers : n = 0 \/ n - 1 \in Numbers
    BY <2>1 DEF IInv, Initial
  <2>3. \A c \in Counts : c = 0 \/ c - 1 \in Numbers
    BY <2>1 DEF IInv, Initial
  <2> QED
    BY <2>2, <2>3 DEF NoGaps, Counts
<1> QED
  BY <1>1, Invariance, PTL

\* Lost updates show: the total that gen writes to progress.mark never exceeds
\* the number of steps, and equals it only when all the numbers differ.
THEOREM CountIsHonest == Spec => []HonestCount
<1>1. IInv => HonestCount
  BY DEF IInv, Honest, HonestCount, Distinct, Counts
<1> QED
  BY <1>1, Invariance, PTL

\* jk echo_color arrives at 100% (or goes past it) in every make that ends, for
\* whatever numbers the races of gen have left, restarts of make included.
THEOREM MakeReachesHundred == Spec => []ReachesHundred
<1>1. IInv => ReachesHundred
  <2> SUFFICES ASSUME IInv, phase = "made", total > 0
               PROVE  Percentage >= 100
    BY DEF ReachesHundred
  <2> USE DEF IInv, Made
  <2>1. total \in Nat /\ total = Count
    BY DEF TypeOK
  <2>2. 0..(total - 1) \subseteq dir
    <3>1. 0..(total - 1) \subseteq Numbers
      BY <2>1 DEF Initial, Counts
    <3>2. \A n \in Numbers : \E r \in Rule : n \in RuleSteps(r)
      BY StepFacts DEF Numbers, RuleSteps
    <3> QED
      BY <3>1, <3>2
  <2>3. IsFiniteSet(dir) /\ Cardinality(dir) \in Nat
    BY FS_Subset, FS_CardinalityType
  <2>4. total <= Cardinality(dir)
    <3>1. Cardinality(0..(total - 1)) = total
      BY <2>1, FS_Interval
    <3>2. 0..(total - 1) \in SUBSET dir
      BY <2>2
    <3>3. Cardinality(0..(total - 1)) <= Cardinality(dir)
      BY <2>3, <3>2, FS_Subset
    <3> QED
      BY <3>1, <3>3
  <2>5. /\ NumberOfFiles - 1 = Cardinality(dir)
        /\ Cardinality(dir) * 100 >= total * 100
    BY <2>1, <2>3, <2>4 DEF NumberOfFiles
  <2>6. Percentage = (Cardinality(dir) * 100) \div total
    BY <2>5 DEF Percentage
  <2>7. \A n, m \in Nat : m > 0 /\ n >= m * 100 => n \div m >= 100
    OBVIOUS
  <2> QED
    BY <2>1, <2>3, <2>5, <2>6, <2>7
<1> QED
  BY <1>1, Invariance, PTL
=============================================================================

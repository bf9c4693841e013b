------------------------------ MODULE Progress ------------------------------
(***************************************************************************)
(* The progress percentage: the compile tasks of gen number the steps of   *)
(* the build with a global counter (common/counter.hh), gen writes the     *)
(* counter to progress.mark, and while make runs, `jk start_progress` and  *)
(* `jk echo_color` keep one file per number that has been reported.        *)
(*                                                                         *)
(* Counter()->Next() is a plain Count++ shared by all the tasks: reading   *)
(* and writing are two steps here, so updates can be lost.                 *)
(***************************************************************************)
EXTENDS Integers, FiniteSets, Reachability

CONSTANTS
  Rule,
  Keys,           \* Rule -> the names under which its compiler calls Steps.Step
  Dependencies,   \* Rule -> SUBSET Rule
  Unread,         \* no Next() under way
  MaxRestarts     \* bound: how often make is interrupted and run again

ASSUME ProgressAssumption ==
  /\ \A r \in Rule : IsFiniteSet(Keys[r])
  /\ Dependencies \in [Rule -> SUBSET Rule]
  /\ \A r \in Rule : Unread \notin Keys[r]
  /\ MaxRestarts \in Nat

Step == {<<r, k>> : r \in Rule, k \in UNION {Keys[q] : q \in Rule}}
Steps == {s \in Step : s[2] \in Keys[s[1]]}

VARIABLES
  phase,      \* "compile", "mark", "make", "made"
  Count,      \* _Counter::Count
  values,     \* CountableSteps::values_ of all rules; -1: no number yet
  key, read,  \* the call of Next a task is in, and the Count it has read
  total,      \* progress.mark, and count.txt
  dir,        \* the numbers with a file in Progress/
  built,      \* the rules of the root makefile that are up to date
  restarts

generated == <<Count, values, key, read>>
making == <<total, dir, built, restarts>>
vars == <<phase, generated, making>>

Init ==
  /\ phase = "compile"
  /\ Count = 0
  /\ values = [s \in Steps |-> -1]
  /\ key = [r \in Rule |-> Unread]
  /\ read = [r \in Rule |-> 0]
  /\ total = 0 /\ dir = {} /\ built = {} /\ restarts = 0

-----------------------------------------------------------------------------
(* gen.                                                                    *)

\* CountableSteps::Step does not find the key: Next reads Count...
ReadCount(r, k) ==
  /\ phase = "compile"
  /\ key[r] = Unread /\ values[<<r, k>>] = -1
  /\ key' = [key EXCEPT ![r] = k]
  /\ read' = [read EXCEPT ![r] = Count]
  /\ UNCHANGED <<phase, Count, values, making>>

\* Mutation: the number is the value after the increment.
PreIncrement(r) == read[r] + 1

\* What Next returns.
NextReturns(r) == read[r]

\* Mutation: Next adds one to whatever Count is by now, atomically.
FetchAddLate(r) == Count + 1

Incremented(r) == read[r] + 1

\* ... writes it back and returns what it read, which the rule keeps.
WriteCount(r) ==
  /\ phase = "compile"
  /\ key[r] # Unread
  /\ Count' = Incremented(r)
  /\ values' = [values EXCEPT ![<<r, key[r]>>] = NextReturns(r)]
  /\ key' = [key EXCEPT ![r] = Unread]
  /\ UNCHANGED <<phase, read, making>>

\* All compile tasks are over; progress.mark is written.
WriteMark ==
  /\ phase = "compile"
  /\ \A s \in Steps : values[s] # -1
  /\ phase' = "mark"
  /\ total' = Count
  /\ UNCHANGED <<generated, dir, built, restarts>>

-----------------------------------------------------------------------------
(* make.                                                                   *)

\* The target "pre": jk start_progress.
StartProgress ==
  /\ phase = "mark"
  /\ phase' = "make"
  /\ dir' = {} /\ built' = {}
  /\ UNCHANGED <<generated, total, restarts>>

\* jk echo_color --progress-num=...
Echo(numbers) == dir' = dir \cup numbers

\* The numbers that a rule's link step prints: rule->Steps.Steps().
RuleSteps(r) == {values[s] : s \in {s \in Steps : s[1] = r}}

\* A lint or compile step, when its target is out of date.
MakeFile(s) ==
  /\ phase = "make" /\ s \in Steps
  /\ Echo({values[s]})
  /\ UNCHANGED <<phase, generated, total, built, restarts>>

MakeLink(r) ==
  /\ phase = "make"
  /\ Echo(RuleSteps(r))
  /\ UNCHANGED <<phase, generated, total, built, restarts>>

\* Mutation: only the steps of the direct dependencies.
DirectNumbers(r) == UNION {RuleSteps(q) : q \in Dependencies[r]}

\* merge_numbers: the steps of everything below a rule, cycles included.
MergeNumbers(r) ==
  LET below == Reachable(Dependencies)
  IN  UNION {RuleSteps(q) : q \in below[r]}

\* "Built rule ...": the rule's target in the root makefile, which is never up
\* to date when make starts.
MakeRule(r) ==
  /\ phase = "make" /\ r \notin built
  /\ Echo(MergeNumbers(r))
  /\ built' = built \cup {r}
  /\ UNCHANGED <<phase, generated, total, restarts>>

\* GetNumberOfFilesInDirectory: count.txt is one of them.
NumberOfFiles == Cardinality(dir) + 1

\* ProgressReport
Percentage == ((NumberOfFiles - 1) * 100) \div total

MakeEnds ==
  /\ phase = "make" /\ built = Rule
  /\ phase' = "made"
  /\ UNCHANGED <<generated, making>>

\* make is interrupted, or has ended, and is run again.
MakeAgain ==
  /\ phase \in {"make", "made"} /\ restarts < MaxRestarts
  /\ restarts' = restarts + 1
  /\ phase' = "mark"
  /\ UNCHANGED <<generated, total, dir, built>>

Compile ==
  \/ WriteMark
  \/ \E r \in Rule : WriteCount(r) \/ \E k \in Keys[r] : ReadCount(r, k)

Make ==
  \/ StartProgress
  \/ MakeEnds
  \/ MakeAgain
  \/ \E s \in Steps : MakeFile(s)
  \/ \E r \in Rule : MakeLink(r) \/ MakeRule(r)

Next ==
  \/ Compile
  \/ Make
  \/ phase = "made" /\ UNCHANGED vars

Spec == Init /\ [][Next]_vars

-----------------------------------------------------------------------------
(* Properties.                                                             *)

Numbers == {values[s] : s \in {s \in Steps : values[s] # -1}}
Numbered == {s \in Steps : values[s] # -1}

\* Whatever updates are lost, no number is skipped: a number is given only
\* after the one below it, and the counter is never further than one ahead of
\* the numbers that are given or about to be.
NoGaps ==
  /\ \A n \in Numbers : n = 0 \/ n - 1 \in Numbers
  /\ Count = 0 \/ Count - 1 \in Numbers
  /\ \A r \in Rule : key[r] # Unread => read[r] = 0 \/ read[r] - 1 \in Numbers

\* A counter as high as the number of steps means that nothing was lost: no
\* two steps, of one rule or of two, have the same number.
HonestCount ==
  /\ Count <= Cardinality(Numbered)
  /\ Count = Cardinality(Numbered) =>
       \A s, t \in Numbered : values[s] = values[t] => s = t

\* When make is through, with everything out of date or nothing, after an
\* interruption or not, the percentage is at 100 or above: (count - 1) * 100 /
\* total does not stop short of it.
ReachesHundred ==
  phase = "made" /\ total > 0 => Percentage >= 100
=============================================================================

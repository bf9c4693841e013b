---------------------------- MODULE PrepareRules ----------------------------
(***************************************************************************)
(* The second stage of gen: PrepareRules pushes one task per rule, and the *)
(* task extracts the rule's own fields from its arguments and then walks   *)
(* the rule's dependencies to collect their include and define flags       *)
(* (build_rule.cc, cc_library.cc).                                         *)
(*                                                                         *)
(* The walk reads fields that the dependency's own task writes, and the    *)
(* tasks start in the order of a hash map: nothing makes the dependency go *)
(* first.  Only rules that are no CCLibrary are read from their arguments, *)
(* which are complete since the BUILD file was evaluated; one of the wrong *)
(* type makes the walk throw, and the task that walks is over.             *)
(*                                                                         *)
(* Flags are abstracted to the rule that declares them: q \in includes[r]  *)
(* says that the includes declared by q are among ResolvedIncludes of r.   *)
(***************************************************************************)
EXTENDS Naturals, FiniteSets, Reachability

CONSTANTS
  Rule,
  DepGraphs,   \* the candidates for BuildRule::Dependencies: Rule -> SUBSET Rule
  CCSets,      \* the candidates for the set of rules that are CCLibrary objects
  BadSets,     \* the candidates for the ill-typed arguments of each rule
  Workers      \* how many tasks run at a time

\* The arguments that walks read, and those of a rule that only it reads itself.
Argument == {"includes", "defines", "other"}

ASSUME PrepareAssumption ==
  /\ DepGraphs \subseteq [Rule -> SUBSET Rule]
  /\ CCSets \subseteq SUBSET Rule
  /\ BadSets \subseteq [Rule -> SUBSET Argument]
  /\ Workers \in Nat \ {0}

VARIABLES
  Dependencies, CC, Bad,   \* the rules
  task,       \* where the task of each rule is
  fields,     \* CppFlags, CFlags, CxxFlags, Includes and Defines of each rule
  visited, todo,           \* the walk a task is making
  includes,   \* ResolvedIncludes
  defines,    \* ResolvedDefines
  early       \* history: what could be read when the walk for includes began

rules == <<Dependencies, CC, Bad>>
walk == <<visited, todo>>
vars == <<rules, task, fields, walk, includes, defines, early>>

TaskState == {"queued", "extract", "prepare", "include", "define", "done", "failed"}

Init ==
  /\ Dependencies \in DepGraphs
  /\ CC \in CCSets
  /\ Bad \in BadSets
  /\ task = [r \in Rule |-> "queued"]
  /\ fields = [r \in Rule |-> "empty"]
  /\ visited = [r \in Rule |-> {}]
  /\ todo = [r \in Rule |-> {}]
  /\ includes = [r \in Rule |-> {}]
  /\ defines = [r \in Rule |-> {}]
  /\ early = [r \in Rule |-> {}]

Over == {"done", "failed"}
Active == {r \in Rule : task[r] \notin {"queued"} \cup Over}

Goto(r, where) == task' = [task EXCEPT ![r] = where]

\* Mutation: the task starts although no worker is free.
StartAnyway(r) ==
  /\ task[r] = "queued"
  /\ Goto(r, "extract")
  /\ fields' = [fields EXCEPT ![r] = "writing"]
  /\ UNCHANGED <<rules, walk, includes, defines, early>>

\* A worker takes the task and enters ExtractFieldFromArguments.
Start(r) ==
  /\ task[r] = "queued"
  /\ Cardinality(Active) < Workers
  /\ Goto(r, "extract")
  /\ fields' = [fields EXCEPT ![r] = "writing"]
  /\ UNCHANGED <<rules, walk, includes, defines, early>>

\* Only a CCLibrary has includes and defines among its own fields.
IllTyped(r) == IF r \in CC THEN Bad[r] # {} ELSE "other" \in Bad[r]

Extracted(r) ==
  /\ task[r] = "extract" /\ ~IllTyped(r)
  /\ fields' = [fields EXCEPT ![r] = "filled"]
  /\ Goto(r, "prepare")
  /\ UNCHANGED <<rules, walk, includes, defines, early>>

\* A field of the wrong type: the exception ends up in the future, which
\* PrepareRules waits for but never asks.  Some fields may have been filled.
ExtractThrows(r) ==
  /\ task[r] = "extract" /\ IllTyped(r)
  /\ Goto(r, "failed")
  /\ UNCHANGED <<rules, fields, walk, includes, defines, early>>

-----------------------------------------------------------------------------
(* What a walk over the dependencies finds.                                *)

\* Mutation: a walk does not remember where it has been.
Revisits(r, q) == (todo[r] \ {q}) \cup Dependencies[q]

\* Mutation: a walk does not come back to the siblings of q.
OnlyDown(r, q) == Dependencies[q] \ (visited[r] \cup {q})

Remaining(r, q) == (todo[r] \cup Dependencies[q]) \ (visited[r] \cup {q})

\* Mutation: the flags of a rule are visible once its task is over.
FoundWhenDone(q, field) == IF task[q] = "done" THEN {{q}} ELSE {{}}

\* The fields of a CCLibrary that is being extracted are read unsynchronised:
\* the flags are there or not.  Nothing is found in an argument of the wrong type.
Found(q, field) ==
  IF q \notin CC THEN IF field \in Bad[q] THEN {} ELSE {{q}}
  ELSE CASE fields[q] = "filled" -> {{q}}
         [] fields[q] = "writing" -> {{}, {q}}
         [] fields[q] = "empty" -> {{}}

Readable(r) == {q \in Rule : q \notin CC \/ fields[q] = "filled"}

\* Every walk starts at the rule itself.
BeginWalk(r) ==
  /\ visited' = [visited EXCEPT ![r] = {}]
  /\ todo' = [todo EXCEPT ![r] = {r}]

Visit(r, q) ==
  /\ visited' = [visited EXCEPT ![r] = @ \cup {q}]
  /\ todo' = [todo EXCEPT ![r] = Remaining(r, q)]

\* DoPrepare of a CCLibrary up to step 8, where the walks begin.
PrepareCC(r) ==
  /\ task[r] = "prepare" /\ r \in CC
  /\ Goto(r, "include")
  /\ BeginWalk(r)
  /\ early' = [early EXCEPT ![r] = Readable(r)]
  /\ UNCHANGED <<rules, fields, includes, defines>>

\* DoPrepare of any other rule: nothing of another rule is read.
PrepareOther(r) ==
  /\ task[r] = "prepare" /\ r \notin CC
  /\ Goto(r, "done")
  /\ UNCHANGED <<rules, fields, walk, includes, defines, early>>

IncludeVisits(r) ==
  /\ task[r] = "include"
  /\ \E q \in todo[r] : \E f \in Found(q, "includes") :
       /\ includes' = [includes EXCEPT ![r] = @ \cup f]
       /\ Visit(r, q)
  /\ UNCHANGED <<rules, task, fields, defines, early>>

IncludeEnds(r) ==
  /\ task[r] = "include" /\ todo[r] = {}
  /\ Goto(r, "define")
  /\ BeginWalk(r)
  /\ UNCHANGED <<rules, fields, includes, defines, early>>

DefineVisits(r) ==
  /\ task[r] = "define"
  /\ \E q \in todo[r] : \E f \in Found(q, "defines") :
       /\ defines' = [defines EXCEPT ![r] = @ \cup f]
       /\ Visit(r, q)
  /\ UNCHANGED <<rules, task, fields, includes, early>>

\* The third walk, for InherentFlags, is left out: no rule ever has any.
DefineEnds(r) ==
  /\ task[r] = "define" /\ todo[r] = {}
  /\ Goto(r, "done")
  /\ UNCHANGED <<rules, fields, walk, includes, defines, early>>

\* The walk comes by a rule, no CCLibrary, whose argument has the wrong type.
WalkThrows(r) ==
  /\ \/ task[r] = "include" /\ \E q \in todo[r] \ CC : "includes" \in Bad[q]
     \/ task[r] = "define" /\ \E q \in todo[r] \ CC : "defines" \in Bad[q]
  /\ Goto(r, "failed")
  /\ UNCHANGED <<rules, fields, walk, includes, defines, early>>

TaskStep(r) ==
  \/ Start(r)
  \/ Extracted(r)
  \/ ExtractThrows(r)
  \/ PrepareCC(r)
  \/ PrepareOther(r)
  \/ IncludeVisits(r)
  \/ IncludeEnds(r)
  \/ DefineVisits(r)
  \/ DefineEnds(r)
  \/ WalkThrows(r)

\* f.wait() returns for every future.
Returned == \A r \in Rule : task[r] \in Over

Next ==
  \/ \E r \in Rule : TaskStep(r)
  \/ Returned /\ UNCHANGED vars

Spec == Init /\ [][Next]_vars /\ \A r \in Rule : WF_vars(TaskStep(r))

-----------------------------------------------------------------------------
(* Properties.                                                             *)

Reach == Reachable(Dependencies)
Below(r) == Reach[r]

\* A walk stays below its rule, and a task that walks has filled its fields.
TypeOK ==
  /\ task \in [Rule -> TaskState]
  /\ \A r \in Rule :
       /\ visited[r] \cup todo[r] \cup includes[r] \cup defines[r] \subseteq Below(r)
       /\ visited[r] \cap todo[r] = {}
       /\ task[r] \in {"prepare", "include", "define", "done"} => fields[r] = "filled"
  /\ Cardinality(Active) <= Workers

\* What could be read when the walk began is in the result, however the other
\* tasks are scheduled: in particular a rule's own flags and those of every
\* shell_script below it; and the defines are no less complete than that.
EarlyIsFound ==
  \A r \in CC : task[r] = "done" =>
    /\ r \in early[r]
    /\ early[r] \cap Below(r) \subseteq includes[r] \cap defines[r]

\* Two libraries that depend on each other, directly or not, cannot both miss
\* the other's flags: the one that is extracted last sees the other.
OneSeesTheOther ==
  \A r, s \in CC :
    task[r] = "done" /\ task[s] = "done" /\ s \in Below(r) /\ r \in Below(s) =>
      r \in includes[s] \/ s \in includes[r]

\* Every walk ends although dependencies may be cyclic, so that PrepareRules
\* returns.
PrepareEnds == <>Returned
=============================================================================

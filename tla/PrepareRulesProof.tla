------------------------- MODULE PrepareRulesProof --------------------------
(***************************************************************************)
(* Theorems about PrepareRules, for every set of rules, every graph of     *)
(* dependencies (cyclic ones included), every choice of libraries and of   *)
(* ill-typed rules and every number of workers.                            *)
(***************************************************************************)
EXTENDS PrepareRules, FiniteSetTheorems, TLAPS

USE PrepareAssumption

-----------------------------------------------------------------------------
(* Reachability.                                                           *)

\* What lies below a rule is closed under dependencies, and every closed set
\* that contains the rule contains all of it.
LEMMA BelowFacts ==
  ASSUME Dependencies \in [Rule -> SUBSET Rule], NEW r \in Rule
  PROVE  /\ Below(r) \subseteq Rule
         /\ r \in Below(r)
         /\ \A q \in Below(r) : Dependencies[q] \subseteq Below(r)
         /\ \A S \in SUBSET Rule :
              r \in S /\ (\A q \in S : Dependencies[q] \subseteq S) => Below(r) \subseteq S
<1> DEFINE closed == ClosedSets(Dependencies)
<1>1. DOMAIN Dependencies = Rule
  OBVIOUS
<1>2. Below(r) = {s \in Rule : \A S \in closed : r \in S => s \in S}
  BY <1>1 DEF Below, Reach, Reachable
<1>3. closed = {S \in SUBSET Rule : \A q \in S : Dependencies[q] \subseteq S}
  BY <1>1 DEF ClosedSets
<1> QED
  BY <1>2, <1>3

-----------------------------------------------------------------------------
(* The inductive invariant.                                                *)

Typed ==
  /\ Dependencies \in [Rule -> SUBSET Rule]
  /\ CC \subseteq Rule
  /\ task \in [Rule -> TaskState]
  /\ fields \in [Rule -> {"empty", "writing", "filled"}]
  /\ visited \in [Rule -> SUBSET Rule]
  /\ todo \in [Rule -> SUBSET Rule]
  /\ includes \in [Rule -> SUBSET Rule]
  /\ defines \in [Rule -> SUBSET Rule]
  /\ early \in [Rule -> SUBSET Rule]

\* The fields of a rule are filled exactly from the end of its extraction on.
Filled ==
  \A r \in Rule :
    /\ fields[r] = "filled" => task[r] \notin {"queued", "extract"}
    /\ task[r] \in {"prepare", "include", "define", "done"} => fields[r] = "filled"

\* A walk has looked at the dependencies of all it has visited, and forgets
\* nothing that it has seen: its set is closed once there is nothing to do.
Walks ==
  \A r \in Rule :
    /\ visited[r] \cup todo[r] \cup includes[r] \cup defines[r] \subseteq Below(r)
    /\ visited[r] \cap todo[r] = {}
    /\ task[r] \in {"include", "define"} =>
         /\ r \in visited[r] \cup todo[r]
         /\ \A q \in visited[r] : Dependencies[q] \subseteq visited[r] \cup todo[r]

Walking == {r \in CC : task[r] \in {"include", "define", "done"}}

\* What could be read when a walk began can be read ever since, and has been
\* when the walk has come by.
Early ==
  \A r \in Walking :
    /\ r \in early[r]
    /\ \A q \in early[r] : q \notin CC \/ fields[q] = "filled"
    /\ early[r] \cap (IF task[r] = "include" THEN visited[r] ELSE Below(r)) \subseteq includes[r]
    /\ task[r] = "define" => early[r] \cap visited[r] \subseteq defines[r]
    /\ task[r] = "done" => early[r] \cap Below(r) \subseteq defines[r]

\* Of two libraries, the one that began to walk later could read the other.
Ordered == \A r, s \in Walking : r \in early[s] \/ s \in early[r]

Bounded == IsFiniteSet(Active) /\ Cardinality(Active) <= Workers

IInv == Typed /\ Filled /\ Walks /\ Early /\ Ordered /\ Bounded

-----------------------------------------------------------------------------

LEMMA InitHolds == Init => IInv
<1> SUFFICES ASSUME Init
             PROVE  IInv
  OBVIOUS
<1>1. Typed
  BY DEF Init, Typed, TaskState
<1>2. Filled /\ Walks
  BY DEF Init, Filled, Walks
<1>3. Walking = {} /\ Active = {}
  BY <1>1 DEF Init, Walking, Active, Typed
<1>4. Early /\ Ordered
  BY <1>3 DEF Early, Ordered
<1>5. Bounded
  BY <1>3, FS_EmptySet DEF Bounded
<1> QED
  BY <1>1, <1>2, <1>4, <1>5 DEF IInv

LEMMA RulesUnchanged ==
  ASSUME UNCHANGED rules
  PROVE  /\ UNCHANGED <<Dependencies, CC, Bad>>
         /\ \A r \in Rule : Below(r)' = Below(r)
BY DEF rules, Below, Reach

\* All steps but the first leave the set of active tasks, or shrink it.
LEMMA FewerActive ==
  ASSUME Bounded, Active' \subseteq Active
  PROVE  Bounded'
<1>1. IsFiniteSet(Active') /\ Cardinality(Active') <= Cardinality(Active)
  BY FS_Subset DEF Bounded
<1>2. Cardinality(Active') \in Nat /\ Cardinality(Active) \in Nat
  BY <1>1, FS_CardinalityType DEF Bounded
<1> QED
  BY <1>1, <1>2 DEF Bounded

LEMMA StartKeeps ==
  ASSUME IInv, NEW r \in Rule, Start(r)
  PROVE  IInv'
<1> USE DEF IInv
<1>1. /\ task[r] = "queued" /\ task' = [task EXCEPT ![r] = "extract"]
      /\ fields' = [fields EXCEPT ![r] = "writing"]
      /\ UNCHANGED <<rules, visited, todo, includes, defines, early>>
  BY DEF Start, Goto, walk
<1>2. Typed'
  BY <1>1, RulesUnchanged DEF Typed, TaskState
<1>3. Filled'
  BY <1>1 DEF Filled, Typed
<1>4. Walks'
  BY <1>1, RulesUnchanged DEF Walks, Typed
<1>5. /\ Walking' = Walking
      /\ \A q \in Walking : task'[q] = task[q]
      /\ \A q \in Rule : fields[q] = "filled" => fields'[q] = "filled"
  BY <1>1, RulesUnchanged DEF Walking, Typed, Filled
<1>6. Early' /\ Ordered'
  <2>1. Ordered'
    BY <1>1, <1>5 DEF Ordered
  <2>2. \A q \in Walking : Below(q)' = Below(q) /\ q \in Rule
    BY <1>1, RulesUnchanged DEF Walking, Typed
  <2>3. Early'
    BY <1>1, <1>5, <2>2, RulesUnchanged DEF Early, Typed
  <2> QED
    BY <2>1, <2>3
<1>7. Bounded'
  <2>1. Active' = Active \cup {r} /\ r \notin Active
    BY <1>1 DEF Active, Over, Typed
  <2>2. /\ IsFiniteSet(Active \cup {r})
        /\ Cardinality(Active \cup {r}) = Cardinality(Active) + 1
        /\ Cardinality(Active) \in Nat
    BY <2>1, FS_AddElement, FS_CardinalityType DEF Bounded
  <2>3. Cardinality(Active) < Workers
    BY DEF Start
  <2> QED
    BY <2>1, <2>2, <2>3 DEF Bounded
<1> QED
  BY <1>2, <1>3, <1>4, <1>6, <1>7

LEMMA ExtractKeeps ==
  ASSUME IInv, NEW r \in Rule, Extracted(r) \/ ExtractThrows(r)
  PROVE  IInv'
<1> USE DEF IInv
<1>1. /\ task[r] = "extract"
      /\ \/ /\ task' = [task EXCEPT ![r] = "prepare"]
            /\ fields' = [fields EXCEPT ![r] = "filled"]
         \/ /\ task' = [task EXCEPT ![r] = "failed"]
            /\ fields' = fields
      /\ UNCHANGED <<rules, visited, todo, includes, defines, early>>
  BY DEF Extracted, ExtractThrows, Goto, walk
<1>2. Typed'
  BY <1>1, RulesUnchanged DEF Typed, TaskState
<1>3. Filled'
  BY <1>1 DEF Filled, Typed
<1>4. Walks'
  BY <1>1, RulesUnchanged DEF Walks, Typed
<1>5. /\ Walking' = Walking
      /\ \A q \in Walking : task'[q] = task[q]
      /\ \A q \in Rule : fields[q] = "filled" => fields'[q] = "filled"
  BY <1>1, RulesUnchanged DEF Walking, Typed, Filled
<1>6. Ordered'
  BY <1>1, <1>5 DEF Ordered
<1>7. Early'
  <2>1. \A q \in Walking : Below(q)' = Below(q) /\ q \in Rule
    BY <1>1, RulesUnchanged DEF Walking, Typed
  <2> QED
    BY <1>1, <1>5, <2>1, RulesUnchanged DEF Early, Typed
<1>8. Bounded'
  <2>1. Active' \subseteq Active
    BY <1>1 DEF Active, Over, Typed
  <2> QED
    BY <2>1, FewerActive
<1> QED
  BY <1>2, <1>3, <1>4, <1>6, <1>7, <1>8

-----------------------------------------------------------------------------
(* The walks.                                                              *)

LEMMA PrepareCCKeeps ==
  ASSUME IInv, NEW r \in Rule, PrepareCC(r)
  PROVE  IInv'
<1> USE DEF IInv
<1>1. /\ task[r] = "prepare" /\ r \in CC
      /\ task' = [task EXCEPT ![r] = "include"]
      /\ visited' = [visited EXCEPT ![r] = {}]
      /\ todo' = [todo EXCEPT ![r] = {r}]
      /\ early' = [early EXCEPT ![r] = Readable(r)]
      /\ UNCHANGED <<rules, fields, includes, defines>>
  BY DEF PrepareCC, Goto, BeginWalk
<1>2. Typed'
  BY <1>1, RulesUnchanged DEF Typed, TaskState, Readable
<1>3. Filled'
  BY <1>1 DEF Filled, Typed
<1>4. r \in Readable(r) /\ \A q \in Readable(r) : q \notin CC \/ fields[q] = "filled"
  BY <1>1 DEF Readable, Filled
<1>5. Walks'
  <2>1. r \in Below(r)
    BY BelowFacts DEF Typed
  <2> QED
    BY <1>1, <2>1, RulesUnchanged DEF Walks, Typed
<1>6. /\ Walking' = Walking \cup {r} /\ r \notin Walking
      /\ early'[r] = Readable(r)
      /\ \A q \in Walking : q \in Rule /\ q # r /\ task'[q] = task[q] /\ early'[q] = early[q]
  BY <1>1, RulesUnchanged DEF Walking, Typed
<1>7. Early'
  <2> SUFFICES ASSUME NEW q \in Walking'
               PROVE  /\ q \in early'[q]
                      /\ \A s \in early'[q] : s \notin CC \/ fields[s] = "filled"
                      /\ early'[q] \cap (IF task'[q] = "include" THEN visited'[q] ELSE Below(q)) \subseteq includes[q]
                      /\ task'[q] = "define" => early'[q] \cap visited'[q] \subseteq defines[q]
                      /\ task'[q] = "done" => early'[q] \cap Below(q) \subseteq defines[q]
    BY <1>1, <1>6, RulesUnchanged DEF Early
  <2>1. CASE q = r
    BY <2>1, <1>1, <1>4, <1>6 DEF Typed
  <2>2. CASE q # r
    BY <2>2, <1>1, <1>6 DEF Typed, Early
  <2> QED
    BY <2>1, <2>2
<1>8. Ordered'
  <2>1. \A q \in Walking : q \in Readable(r)
    BY DEF Walking, Readable, Filled, Typed
  <2> QED
    BY <2>1, <1>4, <1>6 DEF Ordered
<1>9. Bounded'
  <2>1. Active' \subseteq Active
    BY <1>1 DEF Active, Over, Typed
  <2> QED
    BY <2>1, FewerActive
<1> QED
  BY <1>2, <1>3, <1>5, <1>7, <1>8, <1>9

LEMMA PrepareOtherKeeps ==
  ASSUME IInv, NEW r \in Rule, PrepareOther(r)
  PROVE  IInv'
<1> USE DEF IInv
<1>1. /\ task[r] = "prepare" /\ r \notin CC
      /\ task' = [task EXCEPT ![r] = "done"]
      /\ UNCHANGED <<rules, fields, visited, todo, includes, defines, early>>
  BY DEF PrepareOther, Goto, walk
<1>2. Typed'
  BY <1>1, RulesUnchanged DEF Typed, TaskState
<1>3. Filled'
  BY <1>1 DEF Filled, Typed
<1>4. Walks'
  BY <1>1, RulesUnchanged DEF Walks, Typed
<1>5. Walking' = Walking /\ \A q \in Walking : q \in Rule /\ task'[q] = task[q]
  BY <1>1, RulesUnchanged DEF Walking, Typed
<1>6. Ordered'
  BY <1>1, <1>5 DEF Ordered
<1>7. Early'
  BY <1>1, <1>5, RulesUnchanged DEF Early
<1>8. Bounded'
  <2>1. Active' \subseteq Active
    BY <1>1 DEF Active, Over, Typed
  <2> QED
    BY <2>1, FewerActive
<1> QED
  BY <1>2, <1>3, <1>4, <1>6, <1>7, <1>8

\* A task that throws on its way walks no more.
LEMMA WalkThrowsKeeps ==
  ASSUME IInv, NEW r \in Rule, WalkThrows(r)
  PROVE  IInv'
<1> USE DEF IInv
<1>1. /\ task[r] \in {"include", "define"}
      /\ task' = [task EXCEPT ![r] = "failed"]
      /\ UNCHANGED <<rules, fields, visited, todo, includes, defines, early>>
  BY DEF WalkThrows, Goto, walk
<1>2. Typed'
  BY <1>1, RulesUnchanged DEF Typed, TaskState
<1>3. Filled'
  BY <1>1 DEF Filled, Typed
<1>4. Walks'
  BY <1>1, RulesUnchanged DEF Walks, Typed
<1>5. Walking' \subseteq Walking /\ \A q \in Walking' : q \in Rule /\ task'[q] = task[q]
  BY <1>1, RulesUnchanged DEF Walking, Typed
<1>6. Ordered'
  BY <1>1, <1>5 DEF Ordered
<1>7. Early'
  BY <1>1, <1>5, RulesUnchanged DEF Early
<1>8. Bounded'
  <2>1. Active' \subseteq Active
    BY <1>1 DEF Active, Over, Typed
  <2> QED
    BY <2>1, FewerActive
<1> QED
  BY <1>2, <1>3, <1>4, <1>6, <1>7, <1>8

\* A visit of q by the walk of r: what it does to the walk.
LEMMA VisitFacts ==
  ASSUME IInv, NEW r \in Rule, NEW q \in todo[r], Visit(r, q), task[r] \in {"include", "define"}
  PROVE  /\ q \in Below(r)
         /\ visited' = [visited EXCEPT ![r] = visited[r] \cup {q}]
         /\ todo' \in [Rule -> SUBSET Rule]
         /\ \A s \in Rule : s # r => todo'[s] = todo[s]
         /\ visited'[r] \cup todo'[r] \subseteq Below(r)
         /\ visited'[r] \cap todo'[r] = {}
         /\ r \in visited'[r] \cup todo'[r]
         /\ \A s \in visited'[r] : Dependencies[s] \subseteq visited'[r] \cup todo'[r]
<1> USE DEF IInv
<1>1. /\ visited' = [visited EXCEPT ![r] = visited[r] \cup {q}]
      /\ todo' = [todo EXCEPT ![r] = (todo[r] \cup Dependencies[q]) \ (visited[r] \cup {q})]
  BY DEF Visit, Remaining
<1>2. q \in Below(r) /\ q \in Rule /\ Dependencies[q] \subseteq Below(r) /\ Below(r) \subseteq Rule
  BY BelowFacts DEF Typed, Walks
<1>3. /\ visited'[r] = visited[r] \cup {q}
      /\ todo'[r] = (todo[r] \cup Dependencies[q]) \ (visited[r] \cup {q})
      /\ todo' \in [Rule -> SUBSET Rule]
      /\ \A s \in Rule : s # r => todo'[s] = todo[s]
  BY <1>1, <1>2 DEF Typed
<1>4. visited'[r] \cup todo'[r] \subseteq Below(r) /\ visited'[r] \cap todo'[r] = {}
  BY <1>2, <1>3 DEF Walks
<1>5. visited[r] \cup todo[r] \cup Dependencies[q] \subseteq visited'[r] \cup todo'[r]
  BY <1>3
<1>6. /\ r \in visited'[r] \cup todo'[r]
      /\ \A s \in visited'[r] : Dependencies[s] \subseteq visited'[r] \cup todo'[r]
  BY <1>3, <1>5 DEF Walks
<1> QED
  BY <1>1, <1>2, <1>3, <1>4, <1>6

\* What can be read is found.
LEMMA FoundFacts ==
  ASSUME IInv, NEW r \in Rule, NEW q \in Rule, NEW field, NEW f \in Found(q, field)
  PROVE  /\ f \subseteq {q}
         /\ r \in Walking /\ q \in early[r] => f = {q}
<1>1. fields[q] \in {"empty", "writing", "filled"}
  BY DEF IInv, Typed
<1>2. f \subseteq {q} /\ (q \notin CC \/ fields[q] = "filled" => f = {q})
  BY <1>1 DEF Found
<1> QED
  BY <1>2 DEF IInv, Early

\* Once a walk has nothing to do it has visited all that is below.
LEMMA WalkIsComplete ==
  ASSUME IInv, NEW r \in Rule, task[r] \in {"include", "define"}, todo[r] = {}
  PROVE  visited[r] = Below(r)
<1>1. visited[r] \subseteq Rule /\ r \in visited[r] /\ \A q \in visited[r] : Dependencies[q] \subseteq visited[r]
  BY DEF IInv, Typed, Walks
<1>2. Below(r) \subseteq visited[r]
  BY <1>1, BelowFacts DEF IInv, Typed
<1> QED
  BY <1>2 DEF IInv, Walks

LEMMA IncludeVisitsKeeps ==
  ASSUME IInv, NEW r \in Rule, IncludeVisits(r)
  PROVE  IInv'
<1>1. /\ task[r] = "include"
      /\ UNCHANGED <<rules, task, fields, defines, early>>
  BY DEF IncludeVisits
<1>2. PICK q \in todo[r] :
        \E g \in Found(q, "includes") : includes' = [includes EXCEPT ![r] = includes[r] \cup g] /\ Visit(r, q)
  BY DEF IncludeVisits
<1>3. PICK f \in Found(q, "includes") :
        includes' = [includes EXCEPT ![r] = includes[r] \cup f] /\ Visit(r, q)
  BY <1>2
<1>4. /\ q \in Rule /\ f \subseteq {q}
      /\ r \in Walking /\ q \in early[r] => f = {q}
  BY FoundFacts DEF IInv, Typed
<1>5. /\ q \in Below(r)
      /\ visited' = [visited EXCEPT ![r] = visited[r] \cup {q}]
      /\ todo' \in [Rule -> SUBSET Rule]
      /\ \A s \in Rule : s # r => todo'[s] = todo[s]
      /\ visited'[r] \cup todo'[r] \subseteq Below(r)
      /\ visited'[r] \cap todo'[r] = {}
      /\ r \in visited'[r] \cup todo'[r]
      /\ \A s \in visited'[r] : Dependencies[s] \subseteq visited'[r] \cup todo'[r]
  BY <1>1, <1>3, VisitFacts
<1> USE DEF IInv
<1>6. Typed'
  BY <1>1, <1>3, <1>4, <1>5, RulesUnchanged DEF Typed
<1>7. Filled'
  BY <1>1 DEF Filled
<1>8. Walks'
  BY <1>1, <1>3, <1>4, <1>5, RulesUnchanged DEF Walks, Typed
<1>9. Walking' = Walking /\ Active' = Active
  BY <1>1, RulesUnchanged DEF Walking, Active
<1>10. Early'
  <2> SUFFICES ASSUME NEW s \in Walking
               PROVE  /\ s \in early[s]
                      /\ \A x \in early[s] : x \notin CC \/ fields[x] = "filled"
                      /\ early[s] \cap (IF task[s] = "include" THEN visited'[s] ELSE Below(s)) \subseteq includes'[s]
                      /\ task[s] = "define" => early[s] \cap visited'[s] \subseteq defines[s]
                      /\ task[s] = "done" => early[s] \cap Below(s) \subseteq defines[s]
    BY <1>1, <1>9, RulesUnchanged DEF Early, Walking, Typed
  <2>1. s \in Rule
    BY DEF Walking, Typed
  <2>2. CASE s = r
    BY <2>1, <2>2, <1>1, <1>3, <1>4, <1>5 DEF Early, Typed
  <2>3. CASE s # r
    BY <2>1, <2>3, <1>3, <1>5 DEF Early, Typed
  <2> QED
    BY <2>2, <2>3
<1>11. Ordered' /\ Bounded'
  BY <1>1, <1>9 DEF Ordered, Bounded
<1> QED
  BY <1>6, <1>7, <1>8, <1>10, <1>11

LEMMA DefineVisitsKeeps ==
  ASSUME IInv, NEW r \in Rule, DefineVisits(r)
  PROVE  IInv'
<1>1. /\ task[r] = "define"
      /\ UNCHANGED <<rules, task, fields, includes, early>>
  BY DEF DefineVisits
<1>2. PICK q \in todo[r] :
        \E g \in Found(q, "defines") : defines' = [defines EXCEPT ![r] = defines[r] \cup g] /\ Visit(r, q)
  BY DEF DefineVisits
<1>3. PICK f \in Found(q, "defines") :
        defines' = [defines EXCEPT ![r] = defines[r] \cup f] /\ Visit(r, q)
  BY <1>2
<1>4. /\ q \in Rule /\ f \subseteq {q}
      /\ r \in Walking /\ q \in early[r] => f = {q}
  BY FoundFacts DEF IInv, Typed
<1>5. /\ q \in Below(r)
      /\ visited' = [visited EXCEPT ![r] = visited[r] \cup {q}]
      /\ todo' \in [Rule -> SUBSET Rule]
      /\ \A s \in Rule : s # r => todo'[s] = todo[s]
      /\ visited'[r] \cup todo'[r] \subseteq Below(r)
      /\ visited'[r] \cap todo'[r] = {}
      /\ r \in visited'[r] \cup todo'[r]
      /\ \A s \in visited'[r] : Dependencies[s] \subseteq visited'[r] \cup todo'[r]
  BY <1>1, <1>3, VisitFacts
<1> USE DEF IInv
<1>6. Typed'
  BY <1>1, <1>3, <1>4, <1>5, RulesUnchanged DEF Typed
<1>7. Filled'
  BY <1>1 DEF Filled
<1>8. Walks'
  BY <1>1, <1>3, <1>4, <1>5, RulesUnchanged DEF Walks, Typed
<1>9. Walking' = Walking /\ Active' = Active
  BY <1>1, RulesUnchanged DEF Walking, Active
<1>10. Early'
  <2> SUFFICES ASSUME NEW s \in Walking
               PROVE  /\ s \in early[s]
                      /\ \A x \in early[s] : x \notin CC \/ fields[x] = "filled"
                      /\ early[s] \cap (IF task[s] = "include" THEN visited'[s] ELSE Below(s)) \subseteq includes[s]
                      /\ task[s] = "define" => early[s] \cap visited'[s] \subseteq defines'[s]
                      /\ task[s] = "done" => early[s] \cap Below(s) \subseteq defines'[s]
    BY <1>1, <1>9, RulesUnchanged DEF Early, Walking, Typed
  <2>1. s \in Rule
    BY DEF Walking, Typed
  <2>2. CASE s = r
    BY <2>1, <2>2, <1>1, <1>3, <1>4, <1>5 DEF Early, Typed
  <2>3. CASE s # r
    BY <2>1, <2>3, <1>3, <1>5 DEF Early, Typed
  <2> QED
    BY <2>2, <2>3
<1>11. Ordered' /\ Bounded'
  BY <1>1, <1>9 DEF Ordered, Bounded
<1> QED
  BY <1>6, <1>7, <1>8, <1>10, <1>11

LEMMA IncludeEndsKeeps ==
  ASSUME IInv, NEW r \in Rule, IncludeEnds(r)
  PROVE  IInv'
<1>1. /\ task[r] = "include" /\ todo[r] = {}
      /\ task' = [task EXCEPT ![r] = "define"]
      /\ visited' = [visited EXCEPT ![r] = {}]
      /\ todo' = [todo EXCEPT ![r] = {r}]
      /\ UNCHANGED <<rules, fields, includes, defines, early>>
  BY DEF IncludeEnds, Goto, BeginWalk
<1>2. visited[r] = Below(r)
  BY <1>1, WalkIsComplete
<1> USE DEF IInv
<1>3. Typed'
  BY <1>1, RulesUnchanged DEF Typed, TaskState
<1>4. Filled'
  BY <1>1 DEF Filled, Typed
<1>5. Walks'
  <2>1. r \in Below(r)
    BY BelowFacts DEF Typed
  <2> QED
    BY <1>1, <2>1, RulesUnchanged DEF Walks, Typed
<1>6. Walking' = Walking /\ \A q \in Walking : q \in Rule /\ (q # r => task'[q] = task[q])
  BY <1>1, RulesUnchanged DEF Walking, Typed
<1>7. Early'
  <2> SUFFICES ASSUME NEW s \in Walking
               PROVE  /\ s \in early[s]
                      /\ \A x \in early[s] : x \notin CC \/ fields[x] = "filled"
                      /\ early[s] \cap (IF task'[s] = "include" THEN visited'[s] ELSE Below(s)) \subseteq includes[s]
                      /\ task'[s] = "define" => early[s] \cap visited'[s] \subseteq defines[s]
                      /\ task'[s] = "done" => early[s] \cap Below(s) \subseteq defines[s]
    BY <1>1, <1>6, RulesUnchanged DEF Early
  <2>1. CASE s = r
    BY <2>1, <1>1, <1>2, <1>6 DEF Early, Typed
  <2>2. CASE s # r
    BY <2>2, <1>1, <1>6 DEF Early, Typed
  <2> QED
    BY <2>1, <2>2
<1>8. Ordered'
  BY <1>1, <1>6 DEF Ordered
<1>9. Bounded'
  <2>1. Active' \subseteq Active
    BY <1>1 DEF Active, Over, Typed
  <2> QED
    BY <2>1, FewerActive
<1> QED
  BY <1>3, <1>4, <1>5, <1>7, <1>8, <1>9

LEMMA DefineEndsKeeps ==
  ASSUME IInv, NEW r \in Rule, DefineEnds(r)
  PROVE  IInv'
<1>1. /\ task[r] = "define" /\ todo[r] = {}
      /\ task' = [task EXCEPT ![r] = "done"]
      /\ UNCHANGED <<rules, fields, visited, todo, includes, defines, early>>
  BY DEF DefineEnds, Goto, walk
<1>2. visited[r] = Below(r)
  BY <1>1, WalkIsComplete
<1> USE DEF IInv
<1>3. Typed'
  BY <1>1, RulesUnchanged DEF Typed, TaskState
<1>4. Filled'
  BY <1>1 DEF Filled, Typed
<1>5. Walks'
  BY <1>1, RulesUnchanged DEF Walks, Typed
<1>6. Walking' = Walking /\ \A q \in Walking : q \in Rule /\ (q # r => task'[q] = task[q])
  BY <1>1, RulesUnchanged DEF Walking, Typed
<1>7. Early'
  <2> SUFFICES ASSUME NEW s \in Walking
               PROVE  /\ s \in early[s]
                      /\ \A x \in early[s] : x \notin CC \/ fields[x] = "filled"
                      /\ early[s] \cap (IF task'[s] = "include" THEN visited[s] ELSE Below(s)) \subseteq includes[s]
                      /\ task'[s] = "define" => early[s] \cap visited[s] \subseteq defines[s]
                      /\ task'[s] = "done" => early[s] \cap Below(s) \subseteq defines[s]
    BY <1>1, <1>6, RulesUnchanged DEF Early
  <2>1. CASE s = r
    BY <2>1, <1>1, <1>2, <1>6 DEF Early, Typed
  <2>2. CASE s # r
    BY <2>2, <1>1, <1>6 DEF Early, Typed
  <2> QED
    BY <2>1, <2>2
<1>8. Ordered'
  BY <1>1, <1>6 DEF Ordered
<1>9. Bounded'
  <2>1. Active' \subseteq Active
    BY <1>1 DEF Active, Over, Typed
  <2> QED
    BY <2>1, FewerActive
<1> QED
  BY <1>3, <1>4, <1>5, <1>7, <1>8, <1>9

LEMMA Invariance == Spec => []IInv
<1>1. IInv /\ [Next]_vars => IInv'
  <2> SUFFICES ASSUME IInv, [Next]_vars
               PROVE  IInv'
    OBVIOUS
  <2>1. CASE UNCHANGED vars
    <3>1. UNCHANGED <<rules, task, fields, visited, todo, includes, defines, early>>
      BY <2>1 DEF vars, walk
    <3>2. Walking' = Walking /\ Active' = Active
      BY <3>1, RulesUnchanged DEF Walking, Active
    <3>3. Typed' /\ Filled' /\ Walks' /\ Ordered' /\ Bounded'
      BY <3>1, <3>2, RulesUnchanged DEF IInv, Typed, Filled, Walks, Ordered, Bounded
    <3>4. Early'
      <4>1. \A q \in Walking : q \in Rule
        BY DEF IInv, Typed, Walking
      <4> QED
        BY <3>1, <3>2, <4>1, RulesUnchanged DEF IInv, Early
    <3> QED
      BY <3>3, <3>4 DEF IInv
  <2>2. ASSUME NEW r \in Rule, TaskStep(r)
        PROVE  IInv'
    BY <2>2, StartKeeps, ExtractKeeps, PrepareCCKeeps, PrepareOtherKeeps, IncludeVisitsKeeps,
       IncludeEndsKeeps, DefineVisitsKeeps, DefineEndsKeeps, WalkThrowsKeeps DEF TaskStep
  <2> QED
    BY <2>1, <2>2 DEF Next
<1> QED
  BY <1>1, InitHolds, PTL DEF Spec

-----------------------------------------------------------------------------
(* The theorems.                                                           *)

\* The walks of DoPrepare stay below their rule, a task that walks has filled
\* its own fields, and no more tasks are active than there are workers.
THEOREM TypeCorrect == Spec => []TypeOK
<1>1. IInv => TypeOK
  BY DEF IInv, Typed, Filled, Walks, Bounded, TypeOK
<1> QED
  BY <1>1, Invariance, PTL

\* However the tasks of the second stage interleave, the walk for the includes
\* and the one for the defines find all the flags that could be read when the
\* first of them began, the rule's own among them.
THEOREM EarlyFlagsAreFound == Spec => []EarlyIsFound
<1>1. IInv => EarlyIsFound
  BY DEF IInv, Early, Walking, EarlyIsFound
<1> QED
  BY <1>1, Invariance, PTL

\* Of two libraries that need each other at least one gets the other's flags.
THEOREM OneOfACycleSees == Spec => []OneSeesTheOther
<1>1. IInv => OneSeesTheOther
  BY DEF IInv, Early, Ordered, Walking, OneSeesTheOther
<1> QED
  BY <1>1, Invariance, PTL
=============================================================================

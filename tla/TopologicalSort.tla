-------------------------- MODULE TopologicalSort --------------------------
(***************************************************************************)
(* core/algorithms/topological_sort.hh: Kahn's algorithm over the          *)
(* components that Tarjan returned; a component comes before the ones it   *)
(* depends on, which is the order of a link line.                          *)
(***************************************************************************)
EXTENDS Naturals, Sequences, FiniteSets

VARIABLES
  sccs,         \* the argument: records with a field Deps; id i is sccs[i + 1]
  phase,        \* "idle", "scan", "loop", "done"
  scanned,      \* the index of the loop that fills Q
  ingress_cnt,  \* how many dependents of each id are not sorted yet
  Q,            \* the ids without any
  sorted,       \* the result
  edges         \* the Deps of the last id sorted that are not counted down yet

Ids == 0..(Len(sccs) - 1)
Deps(id) == sccs[id + 1].Deps
Sorted == {sorted[i] : i \in DOMAIN sorted}
Waiting == {Q[i] : i \in DOMAIN Q}

SortInit ==
  /\ phase = "idle"
  /\ scanned = 0
  /\ ingress_cnt = <<>>
  /\ Q = <<>> /\ sorted = <<>>
  /\ edges = {}

\* Mutation: an id is counted once, however many depend on it.
AnyDependent(n) == IF \E i \in Ids : n \in Deps(i) THEN 1 ELSE 0

Dependents(n) == Cardinality({i \in Ids : n \in Deps(i)})

\* The call: ingress_cnt is sized and filled.
Count ==
  /\ phase = "idle"
  /\ phase' = "scan"
  /\ ingress_cnt' = [n \in Ids |-> Dependents(n)]
  /\ UNCHANGED <<scanned, Q, sorted, edges>>

\* One turn of the loop that fills Q.
Scan ==
  /\ phase = "scan" /\ scanned \in Ids
  /\ Q' = IF ingress_cnt[scanned] = 0 THEN Append(Q, scanned) ELSE Q
  /\ scanned' = scanned + 1
  /\ UNCHANGED <<phase, ingress_cnt, sorted, edges>>

ScanEnds ==
  /\ phase = "scan" /\ scanned \notin Ids
  /\ phase' = "loop"
  /\ UNCHANGED <<scanned, ingress_cnt, Q, sorted, edges>>

\* One turn of the main loop takes the front of Q...
Take ==
  /\ phase = "loop" /\ edges = {} /\ Q # <<>>
  /\ sorted' = Append(sorted, Head(Q))
  /\ Q' = Tail(Q)
  /\ edges' = Deps(Head(Q))
  /\ UNCHANGED <<phase, scanned, ingress_cnt>>

\* Mutation: a dependency is queued when its first dependent is sorted.
Queues(n) == n \notin Waiting /\ n \notin Sorted

LastDependent(n) == ingress_cnt[n] = 1

\* ... and counts down its dependencies, in whatever order Deps has them.
CountDown ==
  /\ phase = "loop"
  /\ \E n \in edges :
       /\ ingress_cnt' = [ingress_cnt EXCEPT ![n] = @ - 1]
       /\ Q' = IF LastDependent(n) THEN Append(Q, n) ELSE Q
       /\ edges' = edges \ {n}
  /\ UNCHANGED <<phase, scanned, sorted>>

SortEnds ==
  /\ phase = "loop" /\ edges = {} /\ Q = <<>>
  /\ phase' = "done"
  /\ UNCHANGED <<scanned, ingress_cnt, Q, sorted, edges>>

SortStep == Count \/ Scan \/ ScanEnds \/ Take \/ CountDown \/ SortEnds

-----------------------------------------------------------------------------
\* The counts never wrap below zero (they are unsigned), and only ids of
\* components are queued or sorted.
SortTypeOK ==
  /\ phase # "idle" => ingress_cnt \in [Ids -> Nat]
  /\ Waiting \cup Sorted \subseteq Ids
  /\ edges \subseteq Ids

\* A component is sorted only after every component that depends on it: on the
\* link line a library follows all of its users.
DependentsFirst ==
  \A j \in DOMAIN sorted : \A i \in Ids :
    sorted[j] \in Deps(i) => \E k \in 1..(j - 1) : sorted[k] = i

\* In the end each component has been sorted, and only once.
EachOnce ==
  phase = "done" =>
    \A i \in Ids : \E k \in DOMAIN sorted : \A j \in DOMAIN sorted : sorted[j] = i <=> j = k
=============================================================================

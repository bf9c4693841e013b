-------------------------- MODULE WorkerPoolProof --------------------------
(***************************************************************************)
(* Theorems about WorkerPool, for every set of workers and of tasks, every *)
(* division of the tasks into stages and every nesting of pushes.          *)
(***************************************************************************)
EXTENDS WorkerPool, SequenceTheorems, TLAPS

USE PoolAssumption DEF Thread

-----------------------------------------------------------------------------
(* The queue as a sequence.                                                *)

Contents(q) == {q[i] : i \in DOMAIN q}
Injective(q) == \A i, j \in DOMAIN q : q[i] = q[j] => i = j

LEMMA AppendFacts ==
  ASSUME NEW S, NEW q \in Seq(S), NEW t \in S
  PROVE  /\ Append(q, t) \in Seq(S)
         /\ Append(q, t) # <<>>
         /\ Contents(Append(q, t)) = Contents(q) \cup {t}
         /\ Injective(q) /\ t \notin Contents(q) => Injective(Append(q, t))
<1>1. /\ Append(q, t) \in Seq(S)
      /\ Len(Append(q, t)) = Len(q) + 1
      /\ \A i \in 1..Len(q) : Append(q, t)[i] = q[i]
      /\ Append(q, t)[Len(q) + 1] = t
      /\ DOMAIN Append(q, t) = 1..(Len(q) + 1)
      /\ DOMAIN q = 1..Len(q)
      /\ Len(q) \in Nat
  OBVIOUS
<1>2. 1..(Len(q) + 1) = (1..Len(q)) \cup {Len(q) + 1}
  BY <1>1
<1>3. Contents(Append(q, t)) = Contents(q) \cup {t}
  BY <1>1, <1>2 DEF Contents
<1>4. Injective(q) /\ t \notin Contents(q) => Injective(Append(q, t))
  BY <1>1, <1>2 DEF Contents, Injective
<1> QED
  BY <1>1, <1>3, <1>4

LEMMA TailFacts ==
  ASSUME NEW S, NEW q \in Seq(S), q # <<>>
  PROVE  /\ Tail(q) \in Seq(S)
         /\ Head(q) \in S
         /\ Contents(q) = Contents(Tail(q)) \cup {Head(q)}
         /\ Injective(q) => Injective(Tail(q)) /\ Head(q) \notin Contents(Tail(q))
<1>1. /\ Tail(q) \in Seq(S)
      /\ Len(q) \in Nat \ {0}
      /\ Len(Tail(q)) = Len(q) - 1
      /\ \A i \in 1..(Len(q) - 1) : Tail(q)[i] = q[i + 1]
      /\ DOMAIN q = 1..Len(q)
      /\ DOMAIN Tail(q) = 1..(Len(q) - 1)
      /\ Head(q) = q[1]
      /\ Head(q) \in S
  OBVIOUS
<1>2. Contents(Tail(q)) \cup {Head(q)} \subseteq Contents(q)
  BY <1>1 DEF Contents
<1>3. ASSUME NEW i \in 1..Len(q)
      PROVE  q[i] \in Contents(Tail(q)) \cup {Head(q)}
  <2>1. CASE i = 1
    BY <2>1, <1>1
  <2>2. CASE i # 1
    <3>1. i - 1 \in 1..(Len(q) - 1) /\ Tail(q)[i - 1] = q[i]
      BY <2>2, <1>1
    <3> QED
      BY <3>1, <1>1 DEF Contents
  <2> QED
    BY <2>1, <2>2
<1>4. Injective(q) => Injective(Tail(q)) /\ Head(q) \notin Contents(Tail(q))
  BY <1>1 DEF Contents, Injective
<1>5. Contents(q) \subseteq Contents(Tail(q)) \cup {Head(q)}
  BY <1>1, <1>3 DEF Contents
<1> QED
  BY <1>1, <1>2, <1>4, <1>5

LEMMA EmptyFacts ==
  /\ \A S : <<>> \in Seq(S)
  /\ Contents(<<>>) = {}
  /\ Injective(<<>>)
BY DEF Contents, Injective

-----------------------------------------------------------------------------
(* Type correctness.                                                       *)

LEMMA PushType ==
  ASSUME TypeOK, NEW t \in Task, Push(t)
  PROVE  /\ data' \in Seq(Task)
         /\ waiting' \subseteq Thread
         /\ future' \in [Task -> FutureState]
<1>1. CASE aborted
  BY <1>1 DEF TypeOK, Push, FutureState
<1>2. CASE ~aborted
  <2>1. data \in Seq(Task) /\ data' = Append(data, t)
    BY <1>2 DEF TypeOK, Push
  <2>2. data' \in Seq(Task)
    BY <2>1, AppendFacts
  <2>3. waiting' \subseteq Thread
    BY <1>2 DEF TypeOK, Push, NotifyOne
  <2>4. future' \in [Task -> FutureState]
    BY <1>2 DEF TypeOK, Push, FutureState
  <2> QED
    BY <2>2, <2>3, <2>4
<1> QED
  BY <1>1, <1>2

\* The state keeps its type; in particular a worker holds a task exactly
\* while it is inside (*f)() in WorkerPool::run.
THEOREM TypeCorrect == Spec => []TypeOK
<1>1. Init => TypeOK
  <2> SUFFICES ASSUME Init
               PROVE  TypeOK
    OBVIOUS
  <2>1. data \in Seq(Task)
    BY EmptyFacts DEF Init
  <2>2. stage \in 1..(LastStage + 1)
    BY DEF Init
  <2>3. /\ pc \in [Thread -> WorkerPc \cup MainPc]
        /\ pc[Main] \in MainPc
        /\ \A w \in Worker : pc[w] \in WorkerPc /\ pc[w] # "run"
    BY DEF Init, WorkerPc, MainPc
  <2>4. /\ running \in [Worker -> Task \cup {Idle}]
        /\ \A w \in Worker : running[w] = Idle
        /\ future \in [Task -> FutureState]
    BY DEF Init, FutureState
  <2> QED
    BY <2>1, <2>2, <2>3, <2>4 DEF Init, TypeOK
<1>2. TypeOK /\ [Next]_vars => TypeOK'
  <2> SUFFICES ASSUME TypeOK, [Next]_vars
               PROVE  TypeOK'
    OBVIOUS
  <2>1. ASSUME NEW w \in Worker, WorkerStep(w)
        PROVE  TypeOK'
    <3>1. CASE PopBlocks(w)
      BY <3>1 DEF PopBlocks, TypeOK
    <3>2. CASE PopTakes(w)
      BY <3>2, TailFacts DEF PopTakes, NotifyAll, TypeOK, WorkerPc
    <3>3. CASE PopAborts(w)
      BY <3>3 DEF PopAborts, TypeOK, WorkerPc
    <3>4. CASE TaskPushes(w)
      BY <3>4, PushType DEF TaskPushes, TypeOK
    <3>5. CASE TaskEnds(w)
      BY <3>5 DEF TaskEnds, TypeOK, WorkerPc, FutureState
    <3> QED
      BY <2>1, <3>1, <3>2, <3>3, <3>4, <3>5 DEF WorkerStep
  <2>2. ASSUME MainStep
        PROVE  TypeOK'
    <3>1. CASE MainPushes
      BY <3>1, PushType DEF MainPushes, TypeOK
    <3>2. CASE MainAwaits
      BY <3>2 DEF MainAwaits, TypeOK
    <3>3. CASE MainDestroys
      BY <3>3 DEF MainDestroys, TypeOK, MainPc
    <3>4. CASE EmptyWaitBlocks
      BY <3>4 DEF EmptyWaitBlocks, TypeOK
    <3>5. CASE EmptyWaitReturns
      BY <3>5 DEF EmptyWaitReturns, TypeOK, MainPc
    <3>6. CASE SetAbortFlag
      BY <3>6, EmptyFacts DEF SetAbortFlag, NotifyAll, TypeOK, MainPc, FutureState
    <3>7. CASE Join
      BY <3>7 DEF Join, TypeOK, MainPc
    <3> QED
      BY <2>2, <3>1, <3>2, <3>3, <3>4, <3>5, <3>6, <3>7 DEF MainStep
  <2>3. ASSUME NEW th \in Thread, SpuriousWakeup(th)
        PROVE  TypeOK'
    BY <2>3 DEF SpuriousWakeup, TypeOK
  <2>4. CASE UNCHANGED vars
    BY <2>4 DEF vars, TypeOK
  <2> QED
    BY <2>1, <2>2, <2>3, <2>4 DEF Next, Terminated
<1> QED
  BY <1>1, <1>2, PTL DEF Spec

-----------------------------------------------------------------------------
(* How the phases of the destructor, the workers' exits and the wait set   *)
(* hang together: the strengthening that the other invariants rest on.     *)

Phase ==
  /\ aborted <=> pc[Main] \in {"join", "destroyed"}
  /\ aborted => data = <<>>
  /\ \A w \in Worker : pc[w] = "exited" => aborted
  /\ pc[Main] = "destroyed" => \A w \in Worker : pc[w] = "exited"
  /\ \A w \in Worker : w \in waiting => pc[w] = "pop"
  /\ Main \in waiting => pc[Main] = "wait_until_empty"
  /\ \A t \in Task : future[t] \in {"broken", "invalid"} => aborted

\* Nobody but the destructor aborts the queue, workers exit only after that,
\* and a thread is in the wait set only from inside its own cond_.wait.
LEMMA PhaseInvariant == Spec => []Phase
<1>1. Init => Phase
  BY DEF Init, Phase
<1>2. TypeOK /\ Phase /\ [Next]_vars => Phase'
  <2> SUFFICES ASSUME TypeOK, Phase, [Next]_vars
               PROVE  Phase'
    OBVIOUS
  <2> USE DEF Phase
  <2>1. ASSUME NEW w \in Worker, WorkerStep(w)
        PROVE  Phase'
    <3>1. CASE PopBlocks(w)
      BY <3>1 DEF PopBlocks, TypeOK
    <3>2. CASE PopTakes(w)
      BY <3>2 DEF PopTakes, NotifyAll, TypeOK
    <3>3. CASE PopAborts(w)
      BY <3>3 DEF PopAborts, TypeOK, Awake
    <3>4. CASE TaskPushes(w)
      BY <3>4 DEF TaskPushes, Push, NotifyOne, TypeOK
    <3>5. CASE TaskEnds(w)
      BY <3>5 DEF TaskEnds, TypeOK
    <3> QED
      BY <2>1, <3>1, <3>2, <3>3, <3>4, <3>5 DEF WorkerStep
  <2>2. ASSUME MainStep
        PROVE  Phase'
    <3>1. CASE MainPushes
      BY <3>1 DEF MainPushes, Push, NotifyOne, TypeOK
    <3>2. CASE MainAwaits
      BY <3>2 DEF MainAwaits
    <3>3. CASE MainDestroys
      BY <3>3 DEF MainDestroys, TypeOK
    <3>4. CASE EmptyWaitBlocks
      BY <3>4 DEF EmptyWaitBlocks, TypeOK
    <3>5. CASE EmptyWaitReturns
      BY <3>5 DEF EmptyWaitReturns, TypeOK, Awake
    <3>6. CASE SetAbortFlag
      BY <3>6 DEF SetAbortFlag, NotifyAll, TypeOK
    <3>7. CASE Join
      BY <3>7 DEF Join, TypeOK
    <3> QED
      BY <2>2, <3>1, <3>2, <3>3, <3>4, <3>5, <3>6, <3>7 DEF MainStep
  <2>3. ASSUME NEW th \in Thread, SpuriousWakeup(th)
        PROVE  Phase'
    BY <2>3 DEF SpuriousWakeup
  <2>4. CASE UNCHANGED vars
    BY <2>4 DEF vars
  <2> QED
    BY <2>1, <2>2, <2>3, <2>4 DEF Next, Terminated
<1> QED
  BY <1>1, <1>2, TypeCorrect, PTL DEF Spec

-----------------------------------------------------------------------------
(* Lost wakeups.                                                           *)

\* With data_ no longer empty, whoever notify_one wakes, some worker is awake.
LEMMA PushWakes ==
  ASSUME TypeOK, Phase, NoLostWakeup, NEW t \in Task, Push(t), UNCHANGED aborted,
         pc[Main] = "push" \/ \E w \in Worker : pc[w] = "run"
  PROVE  NoLostWakeup'
<1>1. CASE aborted
  BY <1>1 DEF Push, NoLostWakeup, Awake
<1>2. CASE ~aborted
  <2>1. data' # <<>>
    BY <1>2, AppendFacts DEF TypeOK, Push
  <2>2. waiting' \subseteq waiting
    BY <1>2 DEF Push, NotifyOne
  <2>3. \E w \in Worker : w \notin waiting'
    <3>1. CASE \E w \in Worker : pc[w] = "run"
      BY <3>1, <2>2 DEF Phase
    <3>2. CASE pc[Main] = "push"
      <4>1. Main \notin waiting
        BY <3>2 DEF Phase
      <4>2. CASE waiting = {}
        BY <4>2, <2>2
      <4>3. CASE waiting # {}
        BY <4>1, <4>3, <1>2 DEF Push, NotifyOne, TypeOK
      <4> QED
        BY <4>2, <4>3
    <3> QED
      BY <3>1, <3>2
  <2> QED
    BY <1>2, <2>1, <2>3 DEF NoLostWakeup, Awake
<1> QED
  BY <1>1, <1>2

\* While a task is queued some worker is awake, and the destructor never sleeps
\* on an empty queue, although pop's and wait_until_empty's waiters share cond_
\* and push notifies only one of them.
THEOREM WakeupsAreKept == Spec => []NoLostWakeup
<1>1. Init => NoLostWakeup
  BY DEF Init, NoLostWakeup
<1>2. TypeOK /\ Phase /\ NoLostWakeup /\ [Next]_vars => NoLostWakeup'
  <2> SUFFICES ASSUME TypeOK, Phase, NoLostWakeup, [Next]_vars
               PROVE  NoLostWakeup'
    OBVIOUS
  <2> USE DEF NoLostWakeup, Awake
  <2>1. ASSUME NEW w \in Worker, WorkerStep(w)
        PROVE  NoLostWakeup'
    <3>1. CASE PopBlocks(w)
      BY <3>1 DEF PopBlocks
    <3>2. CASE PopTakes(w)
      BY <3>2 DEF PopTakes, NotifyAll
    <3>3. CASE PopAborts(w)
      BY <3>3 DEF PopAborts
    <3>4. CASE TaskPushes(w)
      <4>1. PICK t \in Task : Push(t)
        BY <3>4 DEF TaskPushes, TypeOK
      <4> QED
        BY <3>4, <4>1, PushWakes DEF TaskPushes
    <3>5. CASE TaskEnds(w)
      BY <3>5 DEF TaskEnds
    <3> QED
      BY <2>1, <3>1, <3>2, <3>3, <3>4, <3>5 DEF WorkerStep
  <2>2. ASSUME MainStep
        PROVE  NoLostWakeup'
    <3>1. CASE MainPushes
      BY <3>1, PushWakes DEF MainPushes
    <3>2. CASE MainAwaits
      BY <3>2 DEF MainAwaits
    <3>3. CASE MainDestroys
      BY <3>3 DEF MainDestroys
    <3>4. CASE EmptyWaitBlocks
      BY <3>4 DEF EmptyWaitBlocks, Phase
    <3>5. CASE EmptyWaitReturns
      BY <3>5 DEF EmptyWaitReturns
    <3>6. CASE SetAbortFlag
      BY <3>6 DEF SetAbortFlag, NotifyAll
    <3>7. CASE Join
      BY <3>7 DEF Join
    <3> QED
      BY <2>2, <3>1, <3>2, <3>3, <3>4, <3>5, <3>6, <3>7 DEF MainStep
  <2>3. ASSUME NEW th \in Thread, SpuriousWakeup(th)
        PROVE  NoLostWakeup'
    BY <2>3 DEF SpuriousWakeup
  <2>4. CASE UNCHANGED vars
    BY <2>4 DEF vars
  <2> QED
    BY <2>1, <2>2, <2>3, <2>4 DEF Next, Terminated
<1> QED
  BY <1>1, <1>2, TypeCorrect, PhaseInvariant, PTL DEF Spec

-----------------------------------------------------------------------------
(* Tasks are neither lost nor run twice.                                   *)

LEMMA QueuedIsContents == Queued = Contents(data) /\ Queued' = Contents(data')
  BY DEF Queued, Contents

LEMMA QueuedOnceIsInjective ==
  (QueuedOnce <=> Injective(data)) /\ (QueuedOnce' <=> Injective(data'))
  BY DEF QueuedOnce, Injective

\* A task that is pushed is a new one, and goes to the queue and nowhere else.
LEMMA PushHolds ==
  ASSUME TypeOK, Phase, HeldOnce, NEW t \in Task, Push(t),
         UNCHANGED <<aborted, running>>
  PROVE  HeldOnce'
<1>1. t \notin Queued /\ \A w \in Worker : running[w] # t
  BY DEF Push, HeldOnce
<1>2. CASE aborted
  BY <1>1, <1>2 DEF Push, HeldOnce, TypeOK, QueuedOnce, RunByOne, Queued
<1>3. CASE ~aborted
  <2>1. data \in Seq(Task) /\ data' = Append(data, t)
    BY <1>3 DEF Push, TypeOK
  <2>2. Queued' = Queued \cup {t}
    BY <2>1, AppendFacts, QueuedIsContents
  <2>3. QueuedOnce'
    BY <2>1, <1>1, AppendFacts, QueuedIsContents, QueuedOnceIsInjective DEF HeldOnce
  <2> QED
    BY <1>1, <1>3, <2>2, <2>3 DEF Push, HeldOnce, RunByOne, TypeOK
<1> QED
  BY <1>2, <1>3

\* Every valid, unresolved future belongs to one task that is either queued
\* once or being run by one worker, whatever the interleaving of Push, pop and
\* the destructor's clear().
THEOREM TasksAreHeldOnce == Spec => []HeldOnce
<1>1. Init => HeldOnce
  BY DEF Init, HeldOnce, QueuedOnce, RunByOne, Queued
<1>2. TypeOK /\ Phase /\ HeldOnce /\ [Next]_vars => HeldOnce'
  <2> SUFFICES ASSUME TypeOK, Phase, HeldOnce, [Next]_vars
               PROVE  HeldOnce'
    OBVIOUS
  <2>1. ASSUME NEW w \in Worker, WorkerStep(w)
        PROVE  HeldOnce'
    <3>1. CASE PopBlocks(w)
      BY <3>1 DEF PopBlocks, HeldOnce, QueuedOnce, RunByOne, Queued
    <3>2. CASE PopTakes(w)
      <4>1. /\ data \in Seq(Task) /\ data # <<>> /\ data' = Tail(data)
            /\ running' = [running EXCEPT ![w] = Head(data)]
            /\ running[w] = Idle
            /\ UNCHANGED future
        BY <3>2 DEF PopTakes, TypeOK
      <4>2. /\ Head(data) \in Task
            /\ Queued = Queued' \cup {Head(data)}
            /\ QueuedOnce'
            /\ Head(data) \notin Queued'
        BY <4>1, TailFacts, QueuedIsContents, QueuedOnceIsInjective DEF HeldOnce
      <4> HIDE DEF Queued
      <4>3. /\ running \in [Worker -> Task \cup {Idle}]
            /\ \A v \in Worker : running[v] \notin Queued
            /\ \A v \in Worker : running'[v] = IF v = w THEN Head(data) ELSE running[v]
            /\ \A t \in Task : future[t] = "pending" <=>
                 t \in Queued \/ \E v \in Worker : running[v] = t
        BY <4>1 DEF TypeOK, HeldOnce
      <4>4. RunByOne'
        BY <4>1, <4>2, <4>3 DEF RunByOne, HeldOnce
      <4>5. \A v \in Worker : running'[v] \notin Queued'
        BY <4>2, <4>3
      <4>6. \A t \in Task : future'[t] = "pending" <=>
                 t \in Queued' \/ \E v \in Worker : running'[v] = t
        BY <4>1, <4>2, <4>3
      <4> QED
        BY <4>2, <4>4, <4>5, <4>6 DEF HeldOnce
    <3>3. CASE PopAborts(w)
      BY <3>3 DEF PopAborts, HeldOnce, QueuedOnce, RunByOne, Queued
    <3>4. CASE TaskPushes(w)
      <4>1. PICK t \in Task : Push(t)
        BY <3>4 DEF TaskPushes, TypeOK
      <4> QED
        BY <3>4, <4>1, PushHolds DEF TaskPushes
    <3>5. CASE TaskEnds(w)
      <4>1. /\ running[w] \in Task
            /\ running' = [running EXCEPT ![w] = Idle]
            /\ future' = [future EXCEPT ![running[w]] = "ready"]
            /\ UNCHANGED data
        BY <3>5 DEF TaskEnds, TypeOK
      <4>2. Queued' = Queued /\ QueuedOnce'
        BY <4>1 DEF Queued, HeldOnce, QueuedOnce
      <4>3. RunByOne' /\ \A v \in Worker : running'[v] \notin Queued'
        BY <4>1, <4>2 DEF HeldOnce, RunByOne, TypeOK, Queued
      <4>4. \A t \in Task : future'[t] = "pending" <=>
                 t \in Queued' \/ \E v \in Worker : running'[v] = t
        BY <4>1, <4>2 DEF HeldOnce, RunByOne, TypeOK
      <4> QED
        BY <4>2, <4>3, <4>4 DEF HeldOnce
    <3> QED
      BY <2>1, <3>1, <3>2, <3>3, <3>4, <3>5 DEF WorkerStep
  <2>2. ASSUME MainStep
        PROVE  HeldOnce'
    <3>1. CASE MainPushes
      BY <3>1, PushHolds DEF MainPushes
    <3>2. CASE SetAbortFlag
      <4>1. /\ data' = <<>> /\ UNCHANGED running
            /\ \A t \in Task :
                 future'[t] = IF t \in Queued THEN "broken" ELSE future[t]
        BY <3>2 DEF SetAbortFlag
      <4>2. Queued' = {} /\ QueuedOnce'
        BY <4>1 DEF Queued, QueuedOnce
      <4> HIDE DEF Queued
      <4>3. \A t \in Task : future'[t] = "pending" <=>
                 t \in Queued' \/ \E v \in Worker : running'[v] = t
        BY <4>1, <4>2 DEF HeldOnce
      <4> QED
        BY <4>1, <4>2, <4>3 DEF HeldOnce, RunByOne
    <3>3. CASE ~MainPushes /\ ~SetAbortFlag
      <4>1. UNCHANGED <<data, running, future>>
        BY <2>2, <3>3 DEF MainStep, MainAwaits, MainDestroys, EmptyWaitBlocks,
             EmptyWaitReturns, Join
      <4> QED
        BY <4>1 DEF HeldOnce, QueuedOnce, RunByOne, Queued
    <3> QED
      BY <3>1, <3>2, <3>3
  <2>3. ASSUME NEW th \in Thread, SpuriousWakeup(th)
        PROVE  HeldOnce'
    BY <2>3 DEF SpuriousWakeup, HeldOnce, QueuedOnce, RunByOne, Queued
  <2>4. CASE UNCHANGED vars
    BY <2>4 DEF vars, HeldOnce, QueuedOnce, RunByOne, Queued
  <2> QED
    BY <2>1, <2>2, <2>3, <2>4 DEF Next, Terminated
<1> QED
  BY <1>1, <1>2, TypeCorrect, PhaseInvariant, PTL DEF Spec

-----------------------------------------------------------------------------
(* The destructor leaves nothing behind.                                   *)

\* Once ~WorkerPool has returned no future is left unresolved and every worker
\* has exited.
THEOREM DestructorLeavesNothing == Spec => []DestroyedIsQuiet
<1>1. TypeOK /\ Phase /\ HeldOnce => DestroyedIsQuiet
  <2> SUFFICES ASSUME TypeOK, Phase, HeldOnce, pc[Main] = "destroyed"
               PROVE  DestroyedIsQuiet
    BY DEF DestroyedIsQuiet
  <2>1. Queued = {}
    BY DEF Phase, Queued
  <2>2. \A w \in Worker : pc[w] = "exited" /\ running[w] = Idle
    BY DEF Phase, TypeOK
  <2> QED
    BY <2>1, <2>2 DEF HeldOnce, DestroyedIsQuiet
<1> QED
  BY <1>1, TypeCorrect, PhaseInvariant, TasksAreHeldOnce, PTL

-----------------------------------------------------------------------------
(* The owner's side.                                                       *)

\* The stages pushed so far, and what the drained queue can still contain.
OwnerPhase ==
  /\ \A t \in Task : Stage[t] > 0 /\ future[t] # "none" => Stage[t] <= stage
  /\ \A t \in Task : 0 < Stage[t] /\ Stage[t] < stage => future[t] = "ready"
  /\ pc[Main] \notin {"push", "wait_until_empty"} => \A t \in Queued : Stage[t] = 0

OwnerInv == OwnerPhase /\ OwnersTasksNeverDropped

LEMMA PushContents ==
  ASSUME TypeOK, NEW t \in Task, Push(t)
  PROVE  /\ Queued' \subseteq Queued \cup {t}
         /\ \A u \in Task : u # t => future'[u] = future[u]
         /\ future[t] = "none"
         /\ future'[t] = IF aborted THEN "invalid" ELSE "pending"
<1>1. CASE aborted
  BY <1>1 DEF Push, Queued, TypeOK
<1>2. CASE ~aborted
  <2>1. data \in Seq(Task) /\ data' = Append(data, t)
    BY <1>2 DEF Push, TypeOK
  <2>2. Queued' = Queued \cup {t}
    BY <2>1, AppendFacts, QueuedIsContents
  <2> QED
    BY <1>2, <2>2 DEF Push, TypeOK
<1> QED
  BY <1>1, <1>2

LEMMA OwnerInvariant == Spec => []OwnerInv
<1>1. Init => OwnerInv
  BY DEF Init, OwnerInv, OwnerPhase, OwnersTasksNeverDropped, Queued
<1>2. TypeOK /\ Phase /\ HeldOnce /\ OwnerInv /\ [Next]_vars => OwnerInv'
  <2> SUFFICES ASSUME TypeOK, Phase, HeldOnce, OwnerInv, [Next]_vars
               PROVE  OwnerInv'
    OBVIOUS
  <2> USE DEF OwnerInv, OwnerPhase, OwnersTasksNeverDropped
  <2>0. stage \in Nat \ {0} /\ \A t \in Task : Stage[t] \in Nat
    BY DEF TypeOK
  <2>1. ASSUME NEW w \in Worker, WorkerStep(w)
        PROVE  OwnerInv'
    <3>1. CASE PopBlocks(w)
      BY <3>1 DEF PopBlocks, Queued
    <3>2. CASE PopTakes(w)
      <4>1. data \in Seq(Task) /\ data # <<>> /\ data' = Tail(data)
        BY <3>2 DEF PopTakes, TypeOK
      <4>2. Queued' \subseteq Queued
        BY <4>1, TailFacts, QueuedIsContents
      <4>3. pc'[Main] = pc[Main] /\ UNCHANGED <<future, stage>>
        BY <3>2 DEF PopTakes, TypeOK
      <4> QED
        BY <4>2, <4>3
    <3>3. CASE PopAborts(w)
      BY <3>3 DEF PopAborts, Queued, TypeOK
    <3>4. CASE TaskPushes(w)
      <4>1. PICK t \in Task : Stage[t] = 0 /\ Push(t)
        BY <3>4 DEF TaskPushes, TypeOK
      <4>2. UNCHANGED <<pc, stage>>
        BY <3>4 DEF TaskPushes
      <4> QED
        BY <2>0, <4>1, <4>2, PushContents
    <3>5. CASE TaskEnds(w)
      <4>1. /\ running[w] \in Task
            /\ \A t \in Task :
                 future'[t] = IF t = running[w] THEN "ready" ELSE future[t]
            /\ Queued' = Queued
            /\ pc'[Main] = pc[Main] /\ UNCHANGED stage
        BY <3>5 DEF TaskEnds, TypeOK, Queued
      <4>2. future[running[w]] = "pending"
        BY <4>1 DEF HeldOnce
      <4> QED
        BY <4>1, <4>2
    <3> QED
      BY <2>1, <3>1, <3>2, <3>3, <3>4, <3>5 DEF WorkerStep
  <2>2. ASSUME MainStep
        PROVE  OwnerInv'
    <3>1. CASE MainPushes
      <4>1. PICK t \in Task : Stage[t] = stage /\ Push(t)
        BY <3>1 DEF MainPushes
      <4>2. pc[Main] = "push" /\ ~aborted /\ UNCHANGED <<pc, stage>>
        BY <3>1 DEF MainPushes, Phase
      <4> QED
        BY <2>0, <4>1, <4>2, PushContents
    <3>2. CASE MainAwaits
      BY <2>0, <3>2 DEF MainAwaits, Resolved, Queued
    <3>3. CASE MainDestroys
      BY <3>3 DEF MainDestroys, Queued, TypeOK
    <3>4. CASE EmptyWaitBlocks
      BY <3>4 DEF EmptyWaitBlocks, Queued
    <3>5. CASE EmptyWaitReturns
      BY <3>5 DEF EmptyWaitReturns, Queued, TypeOK
    <3>6. CASE SetAbortFlag
      <4>1. /\ \A t \in Task :
                 future'[t] = IF t \in Queued THEN "broken" ELSE future[t]
            /\ \A t \in Queued : Stage[t] = 0
            /\ UNCHANGED stage
            /\ Queued' = {}
        BY <3>6 DEF SetAbortFlag, Queued
      <4>2. \A t \in Task : t \in Queued => future[t] = "pending"
        BY DEF HeldOnce
      <4> HIDE DEF Queued
      <4> QED
        BY <2>0, <4>1, <4>2
    <3>7. CASE Join
      BY <3>7 DEF Join, Queued, TypeOK
    <3> QED
      BY <2>2, <3>1, <3>2, <3>3, <3>4, <3>5, <3>6, <3>7 DEF MainStep
  <2>3. ASSUME NEW th \in Thread, SpuriousWakeup(th)
        PROVE  OwnerInv'
    BY <2>3 DEF SpuriousWakeup, Queued
  <2>4. CASE UNCHANGED vars
    BY <2>4 DEF vars, Queued
  <2> QED
    BY <2>1, <2>2, <2>3, <2>4 DEF Next, Terminated
<1> QED
  BY <1>1, <1>2, TypeCorrect, PhaseInvariant, TasksAreHeldOnce, PTL DEF Spec

\* ~WorkerPool, whenever it is called, runs every task that its owner pushed:
\* neither the clear() of set_abort_flag nor a refused Push can hit one.
THEOREM OwnersTasksRun == Spec => []OwnersTasksNeverDropped
<1>1. OwnerInv => OwnersTasksNeverDropped
  BY DEF OwnerInv
<1> QED
  BY <1>1, OwnerInvariant, PTL

\* gen's stages are separated: nothing of a later stage is pushed before
\* everything of the earlier ones has run.
THEOREM StagesAreSeparated == Spec => []StageBarrier
<1>1. TypeOK /\ OwnerInv => StageBarrier
  <2> SUFFICES ASSUME TypeOK, OwnerInv, NEW s \in Task, NEW t \in Task,
                      0 < Stage[s], Stage[s] < Stage[t], future[t] # "none"
               PROVE  future[s] = "ready"
    BY DEF StageBarrier
  <2>1. Stage[s] \in Nat /\ Stage[t] \in Nat /\ stage \in Nat
    BY DEF TypeOK
  <2>2. Stage[t] <= stage
    BY <2>1 DEF OwnerInv, OwnerPhase
  <2> QED
    BY <2>1, <2>2 DEF OwnerInv, OwnerPhase
<1> QED
  BY <1>1, TypeCorrect, OwnerInvariant, PTL

-----------------------------------------------------------------------------
(* Refinement.                                                             *)

\* What the mapping makes of the workers.
Active == {running[w] : w \in {v \in Worker : pc[v] = "run"}}
Ended == {t \in Task : future[t] = "ready"}
Refused == {t \in Task : future[t] = "invalid"}
Lost == {t \in Task : future[t] = "broken"}

LEMMA MappedState ==
  /\ Executor!Init <=> /\ data = <<>>
                       /\ Active = {} /\ Ended = {} /\ Refused = {} /\ Lost = {}
                       /\ aborted = FALSE
  /\ Executor!Submitted = Queued \cup Active \cup Ended \cup Refused \cup Lost
  /\ Executor!Queued = Queued
BY DEF Executor!Init, Executor!Submitted, Executor!Queued, Queued, Active, Ended,
       Refused, Lost

\* A step that leaves the queue, the flag, the futures and the running tasks
\* alone is a stutter of the executor.
LEMMA Stutter ==
  ASSUME UNCHANGED <<data, aborted, future, running>>, Active' = Active
  PROVE  UNCHANGED Executor!vars
BY DEF Executor!vars, Active

LEMMA PushRefines ==
  ASSUME TypeOK, Phase, HeldOnce, NEW t \in Task, Push(t),
         UNCHANGED <<aborted, running, pc>>
  PROVE  Executor!Submit(t) \/ Executor!Refuse(t)
<1>1. t \notin Executor!Submitted
  BY MappedState DEF Push, HeldOnce, TypeOK, Active, Ended, Refused, Lost
<1>2. Active' = Active
  BY DEF Active
<1>3. CASE aborted
  <2>1. Refused' = Refused \cup {t} /\ Ended' = Ended /\ Lost' = Lost /\ data' = data
    BY <1>3 DEF Push, TypeOK, Refused, Ended, Lost
  <2> QED
    BY <1>1, <1>2, <1>3, <2>1 DEF Executor!Refuse, Active, Refused, Ended, Lost
<1>4. CASE ~aborted
  <2>1. /\ Refused' = Refused /\ Ended' = Ended /\ Lost' = Lost
        /\ data' = Append(data, t)
    BY <1>4 DEF Push, TypeOK, Refused, Ended, Lost
  <2> QED
    BY <1>1, <1>2, <1>4, <2>1 DEF Executor!Submit, Active, Refused, Ended, Lost
<1> QED
  BY <1>3, <1>4

LEMMA TakeRefines ==
  ASSUME TypeOK, NEW w \in Worker, PopTakes(w)
  PROVE  Executor!Start
<1>1. Active' = Active \cup {Head(data)}
  <2>1. /\ running' = [running EXCEPT ![w] = Head(data)]
        /\ pc' = [pc EXCEPT ![w] = "run"]
        /\ pc[w] = "pop"
    BY DEF PopTakes
  <2>2. \A v \in Worker : running'[v] = IF v = w THEN Head(data) ELSE running[v]
    BY <2>1 DEF TypeOK
  <2>3. {v \in Worker : pc'[v] = "run"} = {v \in Worker : pc[v] = "run"} \cup {w}
    BY <2>1 DEF TypeOK
  <2> QED
    BY <2>1, <2>2, <2>3 DEF Active
<1>2. /\ data # <<>> /\ data' = Tail(data)
      /\ UNCHANGED <<aborted, future>>
  BY DEF PopTakes
<1> QED
  BY <1>1, <1>2 DEF Executor!Start, Active

LEMMA EndRefines ==
  ASSUME TypeOK, HeldOnce, NEW w \in Worker, TaskEnds(w)
  PROVE  \E t \in Task : Executor!End(t)
<1>1. running[w] \in Task /\ running[w] \in Active
  <2>1. pc[w] = "run" /\ running[w] # Idle
    BY DEF TaskEnds, TypeOK
  <2> QED
    BY <2>1 DEF TypeOK, Active
<1>2. future[running[w]] = "pending"
  BY <1>1 DEF HeldOnce
<1>3. Active' = Active \ {running[w]}
  <2>1. /\ running' = [running EXCEPT ![w] = Idle]
        /\ pc' = [pc EXCEPT ![w] = "pop"]
        /\ pc[w] = "run"
    BY DEF TaskEnds
  <2>2. \A v \in Worker : v # w => running'[v] = running[v]
    BY <2>1 DEF TypeOK
  <2>3. {v \in Worker : pc'[v] = "run"} = {v \in Worker : pc[v] = "run"} \ {w}
    BY <2>1 DEF TypeOK
  <2>4. \A v \in Worker : v # w => running[v] # running[w]
    BY <1>1 DEF HeldOnce, RunByOne
  <2> QED
    BY <2>1, <2>2, <2>3, <2>4 DEF Active
<1>4. Ended' = Ended \cup {running[w]} /\ Refused' = Refused /\ Lost' = Lost
  BY <1>1, <1>2 DEF TaskEnds, TypeOK, Ended, Refused, Lost
<1>5. UNCHANGED <<data, aborted>>
  BY DEF TaskEnds
<1>6. Executor!End(running[w])
  BY <1>1, <1>3, <1>4, <1>5 DEF Executor!End, Active, Ended, Refused, Lost
<1> QED
  BY <1>1, <1>6 DEF Executor!End

LEMMA AbortRefines ==
  ASSUME TypeOK, Phase, HeldOnce, SetAbortFlag
  PROVE  Executor!Close
<1>1. ~aborted /\ aborted' = TRUE /\ data' = <<>>
  BY DEF SetAbortFlag, Phase
<1>2. Active' = Active
  BY DEF SetAbortFlag, TypeOK, Active, Phase
<1>3. \A t \in Task : future'[t] = IF t \in Queued THEN "broken" ELSE future[t]
  BY DEF SetAbortFlag
<1>4. Queued \subseteq Task /\ \A t \in Queued : future[t] = "pending"
  BY DEF TypeOK, Queued, HeldOnce
<1>5. Lost = {}
  BY <1>1 DEF Phase, Lost
<1>6. Lost' = Queued /\ Ended' = Ended /\ Refused' = Refused
  <2> HIDE DEF Queued
  <2> QED
    BY <1>3, <1>4, <1>5 DEF Lost, Ended, Refused
<1> QED
  BY <1>1, <1>2, <1>6, MappedState DEF Executor!Close, Active, Ended, Refused, Lost

\* The pool, with its threads, its mutex and its shared condition variable,
\* does nothing that a TaskExecutor would not do: tasks start in the order of
\* their pushes, each at most once, and only the closing drops any.
THEOREM PoolImplementsExecutor == Spec => ImplementsExecutor
<1>1. Init => Executor!Init
  BY MappedState DEF Init, Active, Ended, Refused, Lost
<1>2. TypeOK /\ Phase /\ HeldOnce /\ [Next]_vars => [Executor!Next]_Executor!vars
  <2> SUFFICES ASSUME TypeOK, Phase, HeldOnce, [Next]_vars
               PROVE  Executor!Next \/ UNCHANGED Executor!vars
    BY DEF Executor!vars
  <2>1. ASSUME NEW w \in Worker, WorkerStep(w)
        PROVE  Executor!Next \/ UNCHANGED Executor!vars
    <3>1. CASE PopBlocks(w)
      BY <3>1, Stutter DEF PopBlocks, Active
    <3>2. CASE PopTakes(w)
      BY <3>2, TakeRefines DEF Executor!Next
    <3>3. CASE PopAborts(w)
      <4>1. Active' = Active
        BY <3>3 DEF PopAborts, Active, TypeOK
      <4> QED
        BY <3>3, <4>1, Stutter DEF PopAborts
    <3>4. CASE TaskPushes(w)
      <4>1. PICK t \in Task : Push(t)
        BY <3>4 DEF TaskPushes, TypeOK
      <4> QED
        BY <3>4, <4>1, PushRefines DEF TaskPushes, Executor!Next
    <3>5. CASE TaskEnds(w)
      BY <3>5, EndRefines DEF Executor!Next
    <3> QED
      BY <2>1, <3>1, <3>2, <3>3, <3>4, <3>5 DEF WorkerStep
  <2>2. ASSUME MainStep
        PROVE  Executor!Next \/ UNCHANGED Executor!vars
    <3>1. CASE MainPushes
      BY <3>1, PushRefines DEF MainPushes, Executor!Next
    <3>2. CASE SetAbortFlag
      BY <3>2, AbortRefines DEF Executor!Next
    <3>3. CASE ~MainPushes /\ ~SetAbortFlag
      <4>1. /\ UNCHANGED <<data, aborted, future, running>>
            /\ \A w \in Worker : pc'[w] = pc[w]
        BY <2>2, <3>3 DEF MainStep, MainAwaits, MainDestroys, EmptyWaitBlocks,
             EmptyWaitReturns, Join, TypeOK
      <4>2. Active' = Active
        BY <4>1 DEF Active
      <4> QED
        BY <4>1, <4>2, Stutter
    <3> QED
      BY <3>1, <3>2, <3>3
  <2>3. ASSUME NEW th \in Thread, SpuriousWakeup(th)
        PROVE  UNCHANGED Executor!vars
    BY <2>3, Stutter DEF SpuriousWakeup, Active
  <2>4. CASE UNCHANGED vars
    BY <2>4, Stutter DEF vars, Active
  <2> QED
    BY <2>1, <2>2, <2>3, <2>4 DEF Next, Terminated
<1> QED
  BY <1>1, <1>2, TypeCorrect, PhaseInvariant, TasksAreHeldOnce, PTL
     DEF Spec, ImplementsExecutor, Executor!Spec
=============================================================================

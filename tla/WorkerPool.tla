----------------------------- MODULE WorkerPool -----------------------------
(***************************************************************************)
(* The thread pool of core/executor/worker_pool.{hh,cc}, its owner thread  *)
(* (cli/gen.cc, impls/actions.hh) and the tasks it runs.                   *)
(*                                                                         *)
(* Every method of threadsafe_queue is one critical section of mutex_, so  *)
(* it is one action; the only places where a thread gives the mutex up     *)
(* half-way are the two cond_.wait calls, so a thread that found its       *)
(* predicate false is a member of `waiting` until somebody notifies it.    *)
(* The workers and the destructor wait on the SAME condition variable.     *)
(***************************************************************************)
EXTENDS Naturals, Sequences, FiniteSets

CONSTANTS
  Worker,        \* the threads of thrs_
  Main,          \* the thread that owns the pool
  Task,          \* everything that is ever pushed
  Idle,          \* "no task": what a worker that is not running a task runs
  LastStage,     \* the owner pushes in stages and waits between two of them
  Stage,         \* Task -> 0..LastStage; 0: pushed by another task
  Spawns,        \* Task -> the tasks that a task pushes while it runs
  EarlyDestroy   \* may the owner destroy the pool before it has waited?

ASSUME PoolAssumption ==
  /\ Worker # {} /\ Main \notin Worker
  /\ Idle \notin Task
  /\ LastStage \in Nat
  /\ Stage \in [Task -> 0..LastStage]
  /\ Spawns \in [Task -> SUBSET {t \in Task : Stage[t] = 0}]
  /\ EarlyDestroy \in BOOLEAN

Thread == Worker \cup {Main}

VARIABLES
  data,      \* threadsafe_queue::data_
  aborted,   \* threadsafe_queue::aborted_
  waiting,   \* the threads blocked inside cond_.wait
  pc,        \* where each thread is
  running,   \* the task each worker is running
  future,    \* the state of the future that Push returned for each task
  stage      \* the stage the owner is pushing or waiting for

vars == <<data, aborted, waiting, pc, running, future, stage>>

\* "none": not pushed; "pending": valid and not ready; "ready": the task ran
\* (f.wait() does not tell a value from an exception); "broken": the
\* packaged_task was destroyed before it ran; "invalid": Push returned {}.
FutureState == {"none", "pending", "ready", "broken", "invalid"}

WorkerPc == {"pop", "run", "exited"}
MainPc   == {"push", "wait_until_empty", "set_abort_flag", "join", "destroyed"}

Queued == {data[i] : i \in DOMAIN data}

Init ==
  /\ data = <<>>
  /\ aborted = FALSE
  /\ waiting = {}
  /\ pc = [th \in Thread |-> IF th = Main THEN "push" ELSE "pop"]
  /\ running = [w \in Worker |-> Idle]
  /\ future = [t \in Task |-> "none"]
  /\ stage = 1

-----------------------------------------------------------------------------
(* The condition variable.                                                 *)

\* Mutation: pop forgets to notify.
NotifyNobody == UNCHANGED waiting

NotifyAll == waiting' = {}

\* notify_one wakes one of the waiting threads, whichever the system picks.
NotifyOne ==
  \/ waiting = {} /\ waiting' = {}
  \/ \E th \in waiting : waiting' = waiting \ {th}

Awake(th) == th \notin waiting

\* Mutation: the task goes to the front of the queue.
PushFront(t) ==
  /\ future[t] = "none"
  /\ ~aborted
  /\ future' = [future EXCEPT ![t] = "pending"]
  /\ data' = <<t>> \o data
  /\ NotifyOne

(* WorkerPool::Push, called by whichever thread: accepted, or refused      *)
(* after the abort.                                                        *)
Push(t) ==
  /\ future[t] = "none"
  /\ \/ /\ aborted
        /\ future' = [future EXCEPT ![t] = "invalid"]
        /\ UNCHANGED <<data, waiting>>
     \/ /\ ~aborted
        /\ future' = [future EXCEPT ![t] = "pending"]
        /\ data' = Append(data, t)
        /\ NotifyOne

-----------------------------------------------------------------------------
(* A worker: WorkerPool::run around threadsafe_queue::pop.                 *)

PopBlocks(w) ==
  /\ pc[w] = "pop" /\ Awake(w)
  /\ ~aborted /\ data = <<>>
  /\ waiting' = waiting \cup {w}
  /\ UNCHANGED <<data, aborted, pc, running, future, stage>>

\* Mutation: the front is not removed.
PopPeeks(w) ==
  /\ pc[w] = "pop" /\ Awake(w)
  /\ ~aborted /\ data # <<>>
  /\ running' = [running EXCEPT ![w] = Head(data)]
  /\ data' = data
  /\ NotifyAll
  /\ pc' = [pc EXCEPT ![w] = "run"]
  /\ UNCHANGED <<aborted, future, stage>>

PopTakes(w) ==
  /\ pc[w] = "pop" /\ Awake(w)
  /\ ~aborted /\ data # <<>>
  /\ running' = [running EXCEPT ![w] = Head(data)]
  /\ data' = Tail(data)
  /\ NotifyAll
  /\ pc' = [pc EXCEPT ![w] = "run"]
  /\ UNCHANGED <<aborted, future, stage>>

PopAborts(w) ==
  /\ pc[w] = "pop" /\ Awake(w)
  /\ aborted
  /\ pc' = [pc EXCEPT ![w] = "exited"]
  /\ UNCHANGED <<data, aborted, waiting, running, future, stage>>

\* A task pushes another one while it runs.
TaskPushes(w) ==
  /\ pc[w] = "run"
  /\ \E t \in Spawns[running[w]] : Push(t)
  /\ UNCHANGED <<aborted, pc, running, stage>>

\* Mutation: the loop of run keeps the task it has run.
TaskKept(w) ==
  /\ pc[w] = "run"
  /\ future' = [future EXCEPT ![running[w]] = "ready"]
  /\ pc' = [pc EXCEPT ![w] = "pop"]
  /\ UNCHANGED <<data, aborted, waiting, running, stage>>

\* (*f)() returns, once the task has pushed all it had to push.
TaskEnds(w) ==
  /\ pc[w] = "run"
  /\ \A t \in Spawns[running[w]] : future[t] # "none"
  /\ future' = [future EXCEPT ![running[w]] = "ready"]
  /\ running' = [running EXCEPT ![w] = Idle]
  /\ pc' = [pc EXCEPT ![w] = "pop"]
  /\ UNCHANGED <<data, aborted, waiting, stage>>

-----------------------------------------------------------------------------
(* The owner: per stage, a loop of Push and then a loop of f.wait(); after *)
(* the last one, or earlier when EarlyDestroy, ~WorkerPool.                *)

MainPushes ==
  /\ pc[Main] = "push"
  /\ \E t \in Task : Stage[t] = stage /\ Push(t)
  /\ UNCHANGED <<aborted, pc, running, stage>>

\* Mutation: a future counts as resolved as soon as it is valid.
Valid(t) == future[t] \notin {"none", "invalid"}

Resolved(t) == future[t] \in {"ready", "broken"}

MainAwaits ==
  /\ pc[Main] = "push" /\ stage <= LastStage
  /\ \A t \in Task : Stage[t] = stage => Resolved(t)
  /\ stage' = stage + 1
  /\ UNCHANGED <<data, aborted, waiting, pc, running, future>>

MainDestroys ==
  /\ pc[Main] = "push"
  /\ stage > LastStage \/ EarlyDestroy
  /\ pc' = [pc EXCEPT ![Main] = "wait_until_empty"]
  /\ UNCHANGED <<data, aborted, waiting, running, future, stage>>

EmptyWaitBlocks ==
  /\ pc[Main] = "wait_until_empty" /\ Awake(Main)
  /\ data # <<>>
  /\ waiting' = waiting \cup {Main}
  /\ UNCHANGED <<data, aborted, pc, running, future, stage>>

\* Mutation: the destructor does not wait for the queue to drain.
EmptyWaitSkipped ==
  /\ pc[Main] = "wait_until_empty" /\ Awake(Main)
  /\ pc' = [pc EXCEPT ![Main] = "set_abort_flag"]
  /\ UNCHANGED <<data, aborted, waiting, running, future, stage>>

EmptyWaitReturns ==
  /\ pc[Main] = "wait_until_empty" /\ Awake(Main)
  /\ data = <<>>
  /\ pc' = [pc EXCEPT ![Main] = "set_abort_flag"]
  /\ UNCHANGED <<data, aborted, waiting, running, future, stage>>

\* What is still queued is destroyed unrun: its futures get broken_promise.
SetAbortFlag ==
  /\ pc[Main] = "set_abort_flag"
  /\ aborted' = TRUE
  /\ data' = <<>>
  /\ future' = [t \in Task |-> IF t \in Queued THEN "broken" ELSE future[t]]
  /\ NotifyAll
  /\ pc' = [pc EXCEPT ![Main] = "join"]
  /\ UNCHANGED <<running, stage>>

\* Mutation: the threads are detached, not joined.
Detach ==
  /\ pc[Main] = "join"
  /\ pc' = [pc EXCEPT ![Main] = "destroyed"]
  /\ UNCHANGED <<data, aborted, waiting, running, future, stage>>

\* thrs_.clear(): each jthread joins.
Join ==
  /\ pc[Main] = "join"
  /\ \A w \in Worker : pc[w] = "exited"
  /\ pc' = [pc EXCEPT ![Main] = "destroyed"]
  /\ UNCHANGED <<data, aborted, waiting, running, future, stage>>

-----------------------------------------------------------------------------
\* A condition variable may wake a thread that nobody notified.
SpuriousWakeup(th) ==
  /\ th \in waiting
  /\ waiting' = waiting \ {th}
  /\ UNCHANGED <<data, aborted, pc, running, future, stage>>

WorkerStep(w) ==
  \/ PopBlocks(w)
  \/ PopTakes(w)
  \/ PopAborts(w)
  \/ TaskPushes(w)
  \/ TaskEnds(w)

MainStep ==
  \/ MainPushes
  \/ MainAwaits
  \/ MainDestroys
  \/ EmptyWaitBlocks
  \/ EmptyWaitReturns
  \/ SetAbortFlag
  \/ Join

\* The program is over; the stutter keeps TLC from calling it a deadlock.
Terminated == pc[Main] = "destroyed" /\ UNCHANGED vars

Next ==
  \/ MainStep
  \/ \E w \in Worker : WorkerStep(w)
  \/ \E th \in Thread : SpuriousWakeup(th)
  \/ Terminated

\* The scheduler runs every thread that can run; a spurious wakeup is never
\* relied upon.
Fairness == WF_vars(MainStep) /\ \A w \in Worker : WF_vars(WorkerStep(w))

Spec == Init /\ [][Next]_vars
FairSpec == Spec /\ Fairness

-----------------------------------------------------------------------------
(* Properties.                                                             *)

\* The type of the state; a worker runs a task exactly while it is inside
\* (*f)(), and no stage is skipped.
TypeOK ==
  /\ data \in Seq(Task)
  /\ aborted \in BOOLEAN
  /\ waiting \subseteq Thread
  /\ pc \in [Thread -> WorkerPc \cup MainPc]
  /\ pc[Main] \in MainPc
  /\ \A w \in Worker : pc[w] \in WorkerPc
  /\ running \in [Worker -> Task \cup {Idle}]
  /\ \A w \in Worker : running[w] = Idle <=> pc[w] # "run"
  /\ future \in [Task -> FutureState]
  /\ stage \in 1..(LastStage + 1)

\* A valid future that is not resolved belongs to one task, which is either
\* queued once or being run by one worker: pop and the destructor's clear()
\* neither lose a task silently nor hand one task to two workers.
QueuedOnce ==
  \A i, j \in DOMAIN data : data[i] = data[j] => i = j

RunByOne ==
  \A v, w \in Worker : running[v] = running[w] /\ running[v] # Idle => v = w

HeldOnce ==
  /\ QueuedOnce
  /\ RunByOne
  /\ \A w \in Worker : running[w] \notin Queued
  /\ \A t \in Task :
       future[t] = "pending" <=> t \in Queued \/ \E w \in Worker : running[w] = t

\* No wakeup is lost although the workers and the destructor share cond_ and
\* push notifies one thread only: while a task is queued some worker is awake,
\* the destructor never sleeps on an empty queue, and nobody sleeps after the
\* abort.
NoLostWakeup ==
  /\ data # <<>> => \E w \in Worker : Awake(w)
  /\ Main \in waiting => data # <<>>
  /\ aborted => waiting = {}

\* ~WorkerPool runs every task its owner pushed, whenever it is called: only a
\* task pushed by another task can be dropped or refused.
OwnersTasksNeverDropped ==
  \A t \in Task : Stage[t] > 0 => future[t] \notin {"broken", "invalid"}

\* The stages of gen (PrepareDependencies, PrepareRules, CompileRules per
\* generator) never overlap: a task is pushed only when every task of the
\* earlier stages has run.
StageBarrier ==
  \A s, t \in Task :
    0 < Stage[s] /\ Stage[s] < Stage[t] /\ future[t] # "none" => future[s] = "ready"

\* Once ~WorkerPool has returned no task is running or waiting to run, so what
\* gen reads next (the compilation database) is complete.
DestroyedIsQuiet ==
  pc[Main] = "destroyed" =>
    /\ \A w \in Worker : pc[w] = "exited"
    /\ \A t \in Task : future[t] # "pending"

\* Every valid future gets resolved: f.wait() on it returns.
AcceptedIsResolved ==
  \A t \in Task : future[t] = "pending" ~> future[t] \in {"ready", "broken"}

\* The owner gets out of its waits and of the destructor.
OwnerReturns == <>(pc[Main] = "destroyed")

(* The pool implements TaskExecutor: FIFO start, each task at most once.   *)
Executor == INSTANCE TaskExecutor WITH
  pending <- data,
  active  <- {running[w] : w \in {v \in Worker : pc[v] = "run"}},
  ended   <- {t \in Task : future[t] = "ready"},
  refused <- {t \in Task : future[t] = "invalid"},
  lost    <- {t \in Task : future[t] = "broken"},
  closed  <- aborted

\* Hidden behind locks and condition variables, the pool is a TaskExecutor.
ImplementsExecutor == Executor!Spec

=============================================================================

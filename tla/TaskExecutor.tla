---------------------------- MODULE TaskExecutor ----------------------------
(***************************************************************************)
(* What WorkerPool promises to its users, without threads, mutex or        *)
(* condition variable: tasks start in the order they were submitted, each  *)
(* at most once; a task that started always ends; closing the executor     *)
(* drops what has not started and refuses what comes later.                *)
(***************************************************************************)
EXTENDS Sequences

CONSTANT Task

VARIABLES
  pending,   \* the accepted tasks that have not started, in order
  active,    \* the tasks being run
  ended,     \* the tasks whose run is over
  refused,   \* the tasks submitted too late
  lost,      \* the tasks dropped by Close
  closed

vars == <<pending, active, ended, refused, lost, closed>>

Queued == {pending[i] : i \in DOMAIN pending}
Submitted == Queued \cup active \cup ended \cup refused \cup lost

Init ==
  /\ pending = <<>>
  /\ active = {} /\ ended = {} /\ refused = {} /\ lost = {}
  /\ closed = FALSE

Submit(t) ==
  /\ t \notin Submitted
  /\ ~closed
  /\ pending' = Append(pending, t)
  /\ UNCHANGED <<active, ended, refused, lost, closed>>

Refuse(t) ==
  /\ t \notin Submitted
  /\ closed
  /\ refused' = refused \cup {t}
  /\ UNCHANGED <<pending, active, ended, lost, closed>>

Start ==
  /\ pending # <<>>
  /\ active' = active \cup {Head(pending)}
  /\ pending' = Tail(pending)
  /\ UNCHANGED <<ended, refused, lost, closed>>

End(t) ==
  /\ t \in active
  /\ active' = active \ {t}
  /\ ended' = ended \cup {t}
  /\ UNCHANGED <<pending, refused, lost, closed>>

Close ==
  /\ ~closed
  /\ closed' = TRUE
  /\ lost' = Queued
  /\ pending' = <<>>
  /\ UNCHANGED <<active, ended, refused>>

Next ==
  \/ \E t \in Task : Submit(t) \/ Refuse(t) \/ End(t)
  \/ Start
  \/ Close

Spec == Init /\ [][Next]_vars
=============================================================================

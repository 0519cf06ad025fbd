---------------------------- MODULE WebhookTasks ----------------------------
(***************************************************************************)
(* The background tasks of the webhook in async mode                       *)
(* (webhook_runtime_tasks.py): every payload becomes a task that runs its  *)
(* pipeline under a semaphore, a set keeps the tasks of the process, and   *)
(* the shutdown of the application (lifespan, app.py) waits for them, then *)
(* cancels what is left, and closes the Redis connection they use.         *)
(*                                                                         *)
(* One event loop runs everything: an action is what happens between two   *)
(* suspensions.  How long a pipeline runs is up to its environment, and it *)
(* may hang.                                                               *)
(***************************************************************************)
EXTENDS Naturals, Sequences, SequencesExt, FiniteSets

CONSTANTS
    Tasks,     \* the tasks ever scheduled
    Limit      \* slots of _TASK_SEMAPHORE (100 in the code)

ASSUME LimitAssumption == Limit \in Nat \ {0}

VARIABLES
    status,    \* status[t]: where the coroutine of t stands
    permits,   \* free slots of the semaphore
    queue,     \* tasks waiting for a slot, in the order they asked
    active,    \* _active_tasks
    phase,     \* the application: serving, draining, cancelling, closed
    pending    \* the tasks the shutdown waits for

vars == <<status, permits, queue, active, phase, pending>>

Ended(t) == status[t] \in {"done", "failed", "cancelled"}
Alive(t) == status[t] \in {"waiting", "running"}
Running == {t \in Tasks : status[t] = "running"}
CancelRequested(t) == phase = "cancelling" /\ t \in pending

Init ==
    /\ status = [t \in Tasks |-> "new"]
    /\ permits = Limit
    /\ queue = <<>>
    /\ active = {}
    /\ phase = "serving"
    /\ pending = {}

\* Mutated form: only a task that gets a slot at once is remembered.
ScheduleForgetful(t) ==
    /\ phase = "serving"
    /\ status[t] = "new"
    /\ status' = [status EXCEPT ![t] = "waiting"]
    /\ queue' = Append(queue, t)
    /\ active' = IF permits > 0 THEN active \cup {t} ELSE active
    /\ UNCHANGED <<permits, phase, pending>>
\* schedule_processing_task: the task exists and is known before it runs.
\* The server takes no request once its shutdown began.
Schedule(t) ==
    /\ phase = "serving"
    /\ status[t] = "new"
    /\ status' = [status EXCEPT ![t] = "waiting"]
    /\ queue' = Append(queue, t)
    /\ active' = active \cup {t}
    /\ UNCHANGED <<permits, phase, pending>>

\* Mutated form: it does not wait for a free slot.
StartBlind(t) ==
    /\ queue # <<>> /\ t = Head(queue)
    /\ ~CancelRequested(t)
    /\ status' = [status EXCEPT ![t] = "running"]
    /\ permits' = permits - 1
    /\ queue' = Tail(queue)
    /\ UNCHANGED <<active, phase, pending>>
\* _run_with_limit gets a slot: the semaphore serves its waiters in order.
Start(t) ==
    /\ queue # <<>> /\ t = Head(queue)
    /\ permits > 0
    /\ ~CancelRequested(t)
    /\ status' = [status EXCEPT ![t] = "running"]
    /\ permits' = permits - 1
    /\ queue' = Tail(queue)
    /\ UNCHANGED <<active, phase, pending>>

\* Mutated form: the slot is given back only by a pipeline that returns.
LeaveLeaking(t) ==
    /\ status[t] = "running"
    /\ ~CancelRequested(t)
    /\ \/ status' = [status EXCEPT ![t] = "done"] /\ permits' = permits + 1
       \/ status' = [status EXCEPT ![t] = "failed"] /\ UNCHANGED permits
    /\ UNCHANGED <<queue, active, phase, pending>>
\* The pipeline of t returns or raises; either way its slot is free again.
Leave(t) ==
    /\ status[t] = "running"
    /\ ~CancelRequested(t)
    /\ \E end \in {"done", "failed"} : status' = [status EXCEPT ![t] = end]
    /\ permits' = permits + 1
    /\ UNCHANGED <<queue, active, phase, pending>>

\* Mutated form: the pipeline swallows it (except BaseException).
CancelledIfWaiting(t) ==
    /\ CancelRequested(t) /\ status[t] = "waiting"
    /\ \E i \in 1..Len(queue) : queue[i] = t /\ queue' = RemoveAt(queue, i)
    /\ status' = [status EXCEPT ![t] = "cancelled"]
    /\ UNCHANGED <<permits, active, phase, pending>>
\* CancelledError reaches the coroutine at its next resumption: inside the
\* pipeline, where it passes every except Exception, or while it waits.
Cancelled(t) ==
    /\ CancelRequested(t)
    /\ \/ /\ status[t] = "running"
          /\ permits' = permits + 1
          /\ UNCHANGED queue
       \/ /\ status[t] = "waiting"
          /\ \E i \in 1..Len(queue) : queue[i] = t /\ queue' = RemoveAt(queue, i)
          /\ UNCHANGED permits
    /\ status' = [status EXCEPT ![t] = "cancelled"]
    /\ UNCHANGED <<active, phase, pending>>

\* _on_processing_task_done, called by the loop some time after the end.
OnDone(t) ==
    /\ Ended(t) /\ t \in active
    /\ active' = active \ {t}
    /\ UNCHANGED <<status, permits, queue, phase, pending>>

\* drain_processing_tasks: nothing to wait for, or a snapshot of the set.
BeginDrain ==
    /\ phase = "serving"
    /\ \/ active = {} /\ phase' = "closed" /\ UNCHANGED pending
       \/ active # {} /\ phase' = "draining" /\ pending' = active
    /\ UNCHANGED <<status, permits, queue, active>>

\* asyncio.wait: every task ended in time.
DrainDone ==
    /\ phase = "draining"
    /\ \A t \in pending : Ended(t)
    /\ phase' = "closed"
    /\ UNCHANGED <<status, permits, queue, active, pending>>

\* Mutated form: what is left after the timeout is not cancelled.
DrainTimeoutIgnored ==
    /\ phase = "draining"
    /\ \E t \in pending : ~Ended(t)
    /\ phase' = "closed"
    /\ UNCHANGED <<status, permits, queue, active, pending>>
\* asyncio.wait timed out: the tasks still pending are cancelled.
DrainTimeout ==
    /\ phase = "draining"
    /\ \E t \in pending : ~Ended(t)
    /\ phase' = "cancelling"
    /\ pending' = {t \in pending : ~Ended(t)}
    /\ UNCHANGED <<status, permits, queue, active>>

\* gather returns once the cancelled tasks ended; then the connection closes.
Close ==
    /\ phase = "cancelling"
    /\ \A t \in pending : Ended(t)
    /\ phase' = "closed"
    /\ UNCHANGED <<status, permits, queue, active, pending>>

Shutdown == BeginDrain \/ DrainDone \/ DrainTimeout \/ Close

Next ==
    \/ \E t \in Tasks :
          Schedule(t) \/ Start(t) \/ Leave(t) \/ Cancelled(t) \/ OnDone(t)
    \/ Shutdown

Spec == Init /\ [][Next]_vars

\* The event loop resumes what is ready, the timeout of the drain ends, and
\* a cancelled coroutine stops.  Nothing says that a pipeline ends or that
\* the application is ever shut down.
Fairness ==
    /\ \A t \in Tasks : WF_vars(Start(t)) /\ WF_vars(Cancelled(t)) /\ WF_vars(OnDone(t))
    /\ WF_vars(DrainDone \/ DrainTimeout) /\ WF_vars(Close)

FairSpec == Spec /\ Fairness

-----------------------------------------------------------------------------
(* Properties                                                              *)

\* Every variable holds a value of its type.
TypeOK ==
    /\ status \in [Tasks -> {"new", "waiting", "running", "done", "failed", "cancelled"}]
    /\ permits \in Nat
    /\ queue \in Seq(Tasks)
    /\ active \in SUBSET Tasks
    /\ phase \in {"serving", "draining", "cancelling", "closed"}
    /\ pending \in SUBSET Tasks

\* A slot is free or held by a running task, however tasks end, so no more
\* than Limit pipelines run; and the queue of the semaphore holds exactly the
\* waiting tasks, each once (async with _TASK_SEMAPHORE).
SlotsAccounted == permits + Cardinality(Running) = Limit
QueueDistinct ==
    \A i, j \in 1..Len(queue) : i # j => queue[i] # queue[j]
QueueWaits ==
    /\ \A i \in 1..Len(queue) : status[queue[i]] = "waiting"
    /\ \A t \in Tasks : status[t] = "waiting" => \E i \in 1..Len(queue) : queue[i] = t
SemaphoreInv == SlotsAccounted /\ QueueDistinct /\ QueueWaits

\* A task that has not ended is known to whoever shuts the process down: it
\* is in the set while the application serves, and among the tasks waited
\* for, or cancelled, afterwards.
DrainCovers ==
    \A t \in Tasks :
        Alive(t) =>
            /\ t \in active
            /\ phase # "serving" => phase # "closed" /\ t \in pending

\* Once the Redis connection is closed no pipeline uses it or will.
NothingAfterClose == phase = "closed" => \A t \in Tasks : ~Alive(t)

\* The shutdown ends even if every pipeline hangs.
ShutdownEnds == phase = "draining" ~> phase = "closed"

\* If pipelines end, every scheduled task ends: failures and cancellations
\* before it cost it no slot and it is never overtaken for good.
EveryTaskEnds ==
    (\A t \in Tasks : WF_vars(Leave(t)))
    => \A t \in Tasks : status[t] = "waiting" ~> Ended(t)
=============================================================================

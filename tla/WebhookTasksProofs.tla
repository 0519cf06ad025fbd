------------------------- MODULE WebhookTasksProofs -------------------------
(***************************************************************************)
(* Proofs about WebhookTasks for any set of tasks and any number of slots: *)
(* the semaphore loses no slot and no waiter, no task is unknown to the    *)
(* shutdown, and none is alive once the Redis connection is closed.        *)
(***************************************************************************)
EXTENDS WebhookTasks, FiniteSetTheorems, TLAPS

\* What is left of a sequence without its i-th element.
LEMMA RemoveAtFacts ==
    ASSUME NEW S, NEW q \in Seq(S), NEW i \in 1..Len(q), NEW r, r = RemoveAt(q, i)
    PROVE  /\ r \in Seq(S)
           /\ Len(r) = Len(q) - 1
           /\ \A j \in 1..Len(r) : r[j] = IF j < i THEN q[j] ELSE q[j + 1]
<1> DEFINE a == SubSeq(q, 1, i - 1)
           b == SubSeq(q, i + 1, Len(q))
<1>1. r = a \o b
  BY DEF RemoveAt
<1>2. /\ a \in Seq(S) /\ Len(a) = i - 1
      /\ \A j \in 1..(i - 1) : a[j] = q[j]
  OBVIOUS
<1>3. /\ b \in Seq(S) /\ Len(b) = Len(q) - i
      /\ \A j \in 1..(Len(q) - i) : b[j] = q[i + j]
  OBVIOUS
<1> HIDE DEF a, b
<1>4. r \in Seq(S) /\ Len(r) = Len(q) - 1
  <2>1. r \in Seq(S) /\ Len(r) = Len(a) + Len(b)
    <3>1. a \in Seq(S) /\ b \in Seq(S)
      BY <1>2, <1>3
    <3> QED
      BY <1>1, <3>1
  <2>2. Len(q) \in Nat /\ i \in Int
    OBVIOUS
  <2> QED
    BY <1>2, <1>3, <2>1, <2>2
<1>5. ASSUME NEW j \in 1..Len(r)
      PROVE  r[j] = IF j < i THEN q[j] ELSE q[j + 1]
  <2>1. CASE j < i
    BY <1>1, <1>2, <1>3, <1>4, <2>1
  <2>2. CASE j >= i
    <3>1. r[j] = b[j - (i - 1)] /\ j - (i - 1) \in 1..(Len(q) - i)
      BY <1>1, <1>2, <1>3, <1>4, <2>2
    <3> QED
      BY <1>3, <3>1, <2>2
  <2> QED
    BY <2>1, <2>2
<1> QED
  BY <1>4, <1>5

-----------------------------------------------------------------------------
\* A task that starts takes its place among the running ones, and one that
\* ends gives it up; the count moves by one.
LEMMA RunningGrows ==
    ASSUME TypeOK, IsFiniteSet(Running), NEW t \in Tasks, status[t] # "running",
           status' = [status EXCEPT ![t] = "running"]
    PROVE  IsFiniteSet(Running') /\ Cardinality(Running') = Cardinality(Running) + 1
<1>1. Running' = Running \cup {t} /\ t \notin Running
  BY DEF TypeOK, Running
<1> QED
  BY <1>1, FS_AddElement

LEMMA RunningShrinks ==
    ASSUME TypeOK, IsFiniteSet(Running), NEW t \in Tasks, status[t] = "running",
           NEW end \in {"done", "failed", "cancelled"},
           status' = [status EXCEPT ![t] = end]
    PROVE  /\ IsFiniteSet(Running')
           /\ Cardinality(Running) \in Nat
           /\ Cardinality(Running') = Cardinality(Running) - 1
<1>1. Running' = Running \ {t} /\ t \in Running
  BY DEF TypeOK, Running
<1> QED
  BY <1>1, FS_RemoveElement, FS_CardinalityType

LEMMA RunningStays ==
    ASSUME TypeOK, NEW t \in Tasks, status[t] # "running",
           NEW s \in {"waiting", "cancelled"},
           status' = [status EXCEPT ![t] = s]
    PROVE  Running' = Running
BY DEF TypeOK, Running

\* Every variable keeps its type through every step.
LEMMA TypeStep == TypeOK /\ [Next]_vars => TypeOK'
<1> SUFFICES ASSUME TypeOK, [Next]_vars PROVE TypeOK'
  OBVIOUS
<1>1. ASSUME NEW t \in Tasks, Schedule(t) PROVE TypeOK'
  BY <1>1 DEF Schedule, TypeOK
<1>2. ASSUME NEW t \in Tasks, Start(t) PROVE TypeOK'
  BY <1>2 DEF Start, TypeOK
<1>3. ASSUME NEW t \in Tasks, Leave(t) PROVE TypeOK'
  BY <1>3 DEF Leave, TypeOK
<1>4. ASSUME NEW t \in Tasks, Cancelled(t) PROVE TypeOK'
  <2>1. queue' \in Seq(Tasks)
    <3>1. CASE status[t] = "running"
      BY <1>4, <3>1 DEF Cancelled, TypeOK
    <3>2. CASE status[t] = "waiting"
      <4>1. PICK i \in 1..Len(queue) : queue' = RemoveAt(queue, i)
        BY <1>4, <3>2 DEF Cancelled
      <4> QED
        BY <4>1, RemoveAtFacts DEF TypeOK
    <3> QED
      BY <1>4, <3>1, <3>2 DEF Cancelled
  <2>2. permits' \in Nat
    BY <1>4 DEF Cancelled, TypeOK
  <2> QED
    BY <1>4, <2>1, <2>2 DEF Cancelled, TypeOK
<1>5. ASSUME NEW t \in Tasks, OnDone(t) PROVE TypeOK'
  BY <1>5 DEF OnDone, TypeOK
<1>6. CASE Shutdown
  BY <1>6 DEF Shutdown, BeginDrain, DrainDone, DrainTimeout, Close, TypeOK
<1>7. CASE UNCHANGED vars
  BY <1>7 DEF vars, TypeOK
<1> QED
  BY <1>1, <1>2, <1>3, <1>4, <1>5, <1>6, <1>7 DEF Next

-----------------------------------------------------------------------------
\* The inductive invariant: the counts need a finite set of running tasks
\* (at most Limit of them), and a start needs that the head of the queue
\* waits, which in turn needs that nothing is queued twice.
SlotsInv == IsFiniteSet(Running) /\ SlotsAccounted
Inv == TypeOK /\ SlotsInv /\ QueueDistinct /\ QueueWaits /\ DrainCovers

\* Only a waiting task starts.
LEMMA HeadWaits ==
    ASSUME TypeOK, QueueWaits, NEW t \in Tasks, Start(t)
    PROVE  status[t] = "waiting"
<1>1. Len(queue) >= 1 /\ t = queue[1]
  BY DEF Start, TypeOK
<1> QED
  BY <1>1 DEF QueueWaits, TypeOK

LEMMA SlotsStep ==
    ASSUME TypeOK, SlotsInv, QueueWaits, [Next]_vars
    PROVE  SlotsInv'
<1> USE LimitAssumption
<1>0. Cardinality(Running) \in Nat
  BY FS_CardinalityType DEF SlotsInv
<1>1. ASSUME NEW t \in Tasks, Schedule(t) PROVE SlotsInv'
  <2>1. Running' = Running
    BY <1>1, RunningStays DEF Schedule
  <2> QED
    BY <1>1, <2>1 DEF Schedule, SlotsInv, SlotsAccounted
<1>2. ASSUME NEW t \in Tasks, Start(t) PROVE SlotsInv'
  <2>1. IsFiniteSet(Running') /\ Cardinality(Running') = Cardinality(Running) + 1
    BY <1>2, HeadWaits, RunningGrows DEF Start, SlotsInv
  <2>2. permits' = permits - 1
    BY <1>2 DEF Start
  <2> QED
    BY <1>0, <2>1, <2>2 DEF SlotsInv, SlotsAccounted, TypeOK
<1>3. ASSUME NEW t \in Tasks, Leave(t) PROVE SlotsInv'
  <2>1. IsFiniteSet(Running') /\ Cardinality(Running') = Cardinality(Running) - 1
    BY <1>3, RunningShrinks DEF Leave, SlotsInv
  <2>2. permits' = permits + 1
    BY <1>3 DEF Leave
  <2> QED
    BY <1>0, <2>1, <2>2 DEF SlotsInv, SlotsAccounted, TypeOK
<1>4. ASSUME NEW t \in Tasks, Cancelled(t) PROVE SlotsInv'
  <2>0. status' = [status EXCEPT ![t] = "cancelled"]
    BY <1>4 DEF Cancelled
  <2>1. CASE status[t] = "running"
    <3>1. IsFiniteSet(Running') /\ Cardinality(Running') = Cardinality(Running) - 1
      BY <2>0, <2>1, RunningShrinks DEF SlotsInv
    <3>2. permits' = permits + 1
      BY <1>4, <2>1 DEF Cancelled
    <3> QED
      BY <1>0, <3>1, <3>2 DEF SlotsInv, SlotsAccounted, TypeOK
  <2>2. CASE status[t] = "waiting"
    <3>1. Running' = Running
      BY <2>0, <2>2, RunningStays
    <3>2. permits' = permits
      BY <1>4, <2>2 DEF Cancelled
    <3> QED
      BY <3>1, <3>2 DEF SlotsInv, SlotsAccounted
  <2> QED
    BY <1>4, <2>1, <2>2 DEF Cancelled
<1>5. ASSUME NEW t \in Tasks, OnDone(t) PROVE SlotsInv'
  BY <1>5 DEF OnDone, SlotsInv, SlotsAccounted, Running
<1>6. CASE Shutdown
  BY <1>6 DEF Shutdown, BeginDrain, DrainDone, DrainTimeout, Close,
              SlotsInv, SlotsAccounted, Running
<1>7. CASE UNCHANGED vars
  BY <1>7 DEF vars, SlotsInv, SlotsAccounted, Running
<1> QED
  BY <1>1, <1>2, <1>3, <1>4, <1>5, <1>6, <1>7 DEF Next

LEMMA QueueStep ==
    ASSUME TypeOK, QueueDistinct, QueueWaits, [Next]_vars
    PROVE  QueueDistinct' /\ QueueWaits'
<1>1. ASSUME NEW t \in Tasks, Schedule(t) PROVE QueueDistinct' /\ QueueWaits'
  <2>1. /\ queue' = Append(queue, t)
        /\ Len(queue') = Len(queue) + 1
        /\ \A i \in 1..Len(queue) : queue'[i] = queue[i]
        /\ queue'[Len(queue) + 1] = t
    BY <1>1 DEF Schedule, TypeOK
  <2>2. \A i \in 1..Len(queue) : queue[i] # t
    BY <1>1 DEF Schedule, QueueWaits
  <2>3. Len(queue) \in Nat
    BY DEF TypeOK
  <2>4. QueueDistinct'
    BY <2>1, <2>2, <2>3 DEF QueueDistinct
  <2>5. ASSUME NEW i \in 1..Len(queue') PROVE status'[queue'[i]] = "waiting"
    <3>1. CASE i = Len(queue) + 1
      BY <1>1, <2>1, <3>1 DEF Schedule, TypeOK
    <3>2. CASE i \in 1..Len(queue)
      <4>1. queue'[i] = queue[i] /\ queue[i] \in Tasks /\ queue[i] # t
        BY <2>1, <2>2, <3>2 DEF TypeOK
      <4> QED
        BY <1>1, <3>2, <4>1 DEF Schedule, QueueWaits, TypeOK
    <3> QED
      BY <2>1, <2>3, <3>1, <3>2
  <2>6. ASSUME NEW u \in Tasks, status'[u] = "waiting"
        PROVE  \E i \in 1..Len(queue') : queue'[i] = u
    <3>1. CASE u = t
      BY <2>1, <2>3, <3>1
    <3>2. CASE u # t
      <4>1. status[u] = "waiting"
        BY <1>1, <2>6, <3>2 DEF Schedule, TypeOK
      <4>2. PICK i \in 1..Len(queue) : queue[i] = u
        BY <4>1 DEF QueueWaits
      <4> QED
        BY <2>1, <2>3, <4>2
    <3> QED
      BY <3>1, <3>2
  <2> QED
    BY <2>4, <2>5, <2>6 DEF QueueWaits
<1>2. ASSUME NEW t \in Tasks, Start(t) PROVE QueueDistinct' /\ QueueWaits'
  <2>1. /\ Len(queue) \in Nat \ {0}
        /\ t = queue[1]
        /\ Len(queue') = Len(queue) - 1
        /\ \A i \in 1..Len(queue') : queue'[i] = queue[i + 1]
    BY <1>2 DEF Start, TypeOK
  <2>2. QueueDistinct'
    BY <2>1 DEF QueueDistinct
  <2>3. ASSUME NEW i \in 1..Len(queue') PROVE status'[queue'[i]] = "waiting"
    <3>1. i + 1 \in 1..Len(queue) /\ i + 1 # 1 /\ 1 \in 1..Len(queue)
      BY <2>1
    <3>2. queue'[i] = queue[i + 1] /\ queue[i + 1] # t
      BY <2>1, <3>1 DEF QueueDistinct
    <3>3. queue[i + 1] \in Tasks /\ status[queue[i + 1]] = "waiting"
      BY <3>1 DEF QueueWaits, TypeOK
    <3> QED
      BY <1>2, <3>2, <3>3 DEF Start, TypeOK
  <2>4. ASSUME NEW u \in Tasks, status'[u] = "waiting"
        PROVE  \E i \in 1..Len(queue') : queue'[i] = u
    <3>1. u # t /\ status[u] = "waiting"
      BY <1>2, <2>4 DEF Start, TypeOK
    <3>2. PICK i \in 1..Len(queue) : queue[i] = u
      BY <3>1 DEF QueueWaits
    <3>3. i - 1 \in 1..Len(queue') /\ queue'[i - 1] = u
      BY <2>1, <3>1, <3>2
    <3> QED
      BY <3>3
  <2> QED
    BY <2>2, <2>3, <2>4 DEF QueueWaits
<1>3. ASSUME NEW t \in Tasks, Leave(t) PROVE QueueDistinct' /\ QueueWaits'
  <2>1. queue' = queue
    BY <1>3 DEF Leave
  <2>2. \A u \in Tasks : status'[u] = "waiting" <=> status[u] = "waiting"
    BY <1>3 DEF Leave, TypeOK
  <2>3. \A i \in 1..Len(queue) : queue[i] \in Tasks
    BY DEF TypeOK
  <2> QED
    BY <2>1, <2>2, <2>3 DEF QueueDistinct, QueueWaits
<1>4. ASSUME NEW t \in Tasks, Cancelled(t) PROVE QueueDistinct' /\ QueueWaits'
  <2>0. /\ \A u \in Tasks : status'[u] = "waiting" <=> u # t /\ status[u] = "waiting"
        /\ \A i \in 1..Len(queue) : queue[i] \in Tasks
    BY <1>4 DEF Cancelled, TypeOK
  <2>1. CASE status[t] = "running"
    <3>1. queue' = queue
      BY <1>4, <2>1 DEF Cancelled
    <3> QED
      BY <2>0, <2>1, <3>1 DEF QueueDistinct, QueueWaits
  <2>2. CASE status[t] = "waiting"
    <3>1. PICK k \in 1..Len(queue) : queue[k] = t /\ queue' = RemoveAt(queue, k)
      BY <1>4, <2>2 DEF Cancelled
    <3>2. /\ Len(queue) \in Nat /\ k \in Nat
          /\ Len(queue') = Len(queue) - 1
          /\ \A j \in 1..Len(queue') :
                queue'[j] = IF j < k THEN queue[j] ELSE queue[j + 1]
      BY <3>1, RemoveAtFacts DEF TypeOK
    <3>3. QueueDistinct'
      <4>1. SUFFICES ASSUME NEW i \in 1..Len(queue'), NEW j \in 1..Len(queue'), i # j
                     PROVE  queue'[i] # queue'[j]
        BY DEF QueueDistinct
      <4> DEFINE from(n) == IF n < k THEN n ELSE n + 1
      <4>2. /\ from(i) \in 1..Len(queue) /\ from(j) \in 1..Len(queue)
            /\ from(i) # from(j)
        BY <3>2, <4>1
      <4>3. queue'[i] = queue[from(i)] /\ queue'[j] = queue[from(j)]
        BY <3>2
      <4> HIDE DEF from
      <4> QED
        BY <4>2, <4>3 DEF QueueDistinct
    <3>4. ASSUME NEW j \in 1..Len(queue') PROVE status'[queue'[j]] = "waiting"
      <4>1. PICK i \in 1..Len(queue) : i # k /\ queue'[j] = queue[i]
        BY <3>2
      <4>2. queue[i] # t
        BY <3>1, <4>1 DEF QueueDistinct
      <4> QED
        BY <2>0, <4>1, <4>2 DEF QueueWaits
    <3>5. ASSUME NEW u \in Tasks, status'[u] = "waiting"
          PROVE  \E j \in 1..Len(queue') : queue'[j] = u
      <4>1. PICK i \in 1..Len(queue) : queue[i] = u /\ i # k
        BY <2>0, <3>1, <3>5 DEF QueueWaits
      <4>2. CASE i < k
        BY <3>1, <3>2, <4>1, <4>2
      <4>3. CASE i > k
        <5>1. i - 1 \in 1..Len(queue') /\ queue'[i - 1] = queue[i]
          BY <3>1, <3>2, <4>1, <4>3
        <5> QED
          BY <4>1, <5>1
      <4> QED
        BY <3>2, <4>1, <4>2, <4>3
    <3> QED
      BY <3>3, <3>4, <3>5 DEF QueueWaits
  <2> QED
    BY <1>4, <2>1, <2>2 DEF Cancelled
<1>5. CASE UNCHANGED <<status, queue>>
  BY <1>5 DEF QueueDistinct, QueueWaits
<1> QED
  BY <1>1, <1>2, <1>3, <1>4, <1>5
     DEF Next, vars, OnDone, Shutdown, BeginDrain, DrainDone, DrainTimeout, Close

LEMMA DrainStep ==
    ASSUME TypeOK, QueueWaits, DrainCovers, [Next]_vars
    PROVE  DrainCovers'
<1>1. ASSUME NEW t \in Tasks, Schedule(t) PROVE DrainCovers'
  BY <1>1 DEF Schedule, DrainCovers, Alive, TypeOK
<1>2. ASSUME NEW t \in Tasks, Start(t) PROVE DrainCovers'
  <2>1. status[t] = "waiting"
    BY <1>2, HeadWaits
  <2> QED
    BY <1>2, <2>1 DEF Start, DrainCovers, Alive, TypeOK
<1>3. ASSUME NEW t \in Tasks, Leave(t) PROVE DrainCovers'
  BY <1>3 DEF Leave, DrainCovers, Alive, TypeOK
<1>4. ASSUME NEW t \in Tasks, Cancelled(t) PROVE DrainCovers'
  BY <1>4 DEF Cancelled, DrainCovers, Alive, TypeOK
<1>5. ASSUME NEW t \in Tasks, OnDone(t) PROVE DrainCovers'
  BY <1>5 DEF OnDone, DrainCovers, Alive, Ended
<1>6. CASE BeginDrain
  BY <1>6 DEF BeginDrain, DrainCovers, Alive, TypeOK
<1>7. CASE DrainDone \/ Close
  BY <1>7 DEF DrainDone, Close, DrainCovers, Alive, Ended, TypeOK
<1>8. CASE DrainTimeout
  BY <1>8 DEF DrainTimeout, DrainCovers, Alive, Ended, TypeOK
<1>9. CASE UNCHANGED vars
  BY <1>9 DEF vars, DrainCovers, Alive
<1> QED
  BY <1>1, <1>2, <1>3, <1>4, <1>5, <1>6, <1>7, <1>8, <1>9 DEF Next, Shutdown

LEMMA InitInv == Init => Inv
<1> SUFFICES ASSUME Init PROVE Inv
  OBVIOUS
<1> USE LimitAssumption
<1>1. TypeOK
  BY DEF Init, TypeOK
<1>2. SlotsInv
  <2>1. Running = {}
    BY DEF Init, Running
  <2> QED
    BY <2>1, FS_EmptySet DEF Init, SlotsInv, SlotsAccounted
<1>3. QueueDistinct /\ QueueWaits /\ DrainCovers
  BY DEF Init, QueueDistinct, QueueWaits, DrainCovers, Alive
<1> QED
  BY <1>1, <1>2, <1>3 DEF Inv

LEMMA InvAlways == Spec => []Inv
<1>1. Inv /\ [Next]_vars => Inv'
  BY TypeStep, SlotsStep, QueueStep, DrainStep DEF Inv
<1> QED
  BY InitInv, <1>1, PTL DEF Spec

-----------------------------------------------------------------------------
\* Type correctness, for any set of tasks and any number of slots.
THEOREM TasksTyped == Spec => []TypeOK
<1>1. Inv => TypeOK
  BY DEF Inv
<1> QED
  BY InvAlways, <1>1, PTL

\* Slots are neither lost nor made and every waiter keeps its one place,
\* whichever way pipelines end (_run_with_limit).
THEOREM SemaphoreSound == Spec => []SemaphoreInv
<1>1. Inv => SemaphoreInv
  BY DEF Inv, SlotsInv, SemaphoreInv
<1> QED
  BY InvAlways, <1>1, PTL

\* So no more than Limit pipelines run at a time.
THEOREM ConcurrencyBound == Spec => [](Cardinality(Running) <= Limit)
<1>1. Inv => Cardinality(Running) <= Limit
  BY FS_CardinalityType, LimitAssumption DEF Inv, SlotsInv, SlotsAccounted, TypeOK
<1> QED
  BY InvAlways, <1>1, PTL

\* The shutdown waits for, or cancels, every task that has not ended.
THEOREM DrainComplete == Spec => []DrainCovers
<1>1. Inv => DrainCovers
  BY DEF Inv
<1> QED
  BY InvAlways, <1>1, PTL

\* No pipeline runs on a closed connection (lifespan closes Redis after the
\* drain).
THEOREM ClosedIsQuiet == Spec => []NothingAfterClose
<1>1. Inv => NothingAfterClose
  BY DEF Inv, DrainCovers, NothingAfterClose
<1> QED
  BY InvAlways, <1>1, PTL
=============================================================================

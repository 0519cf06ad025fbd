--------------------------- MODULE AppointmentsProofs ---------------------------
(***************************************************************************)
(* Theorems about the records, the events and the free times of             *)
(* Appointments, for any users, verticals, calendars and deployments.      *)
(***************************************************************************)
EXTENDS Appointments, FoldLemmas, TLAPS

----------------------------------------------------------------------------
(* The functions of the module are functions of the users, with records.    *)

Task(t) ==
    t = [pc |-> t.pc, readable |-> t.readable, params |-> t.params, id |-> t.id, runs |-> t.runs]

Record(r) == r = [mode |-> r.mode, event |-> r.event]

Tasks ==
    /\ \A k \in DOMAIN docs : Record(docs[k])
    /\ DOMAIN task = Users /\ \A u \in Users : Task(task[u])
    /\ DOMAIN form = Users /\ DOMAIN chosen = Users
    /\ task = [u \in Users |-> task[u]]

LEMMA IdleIsTask ==
  /\ Task(Idle) /\ Idle.pc = "idle" /\ Idle.params = Fields
  /\ Task(Lost) /\ Lost.pc = "lost" /\ Lost.params = Fields
  BY DEF Task, Idle, Lost, Ended

\* What an interruption leaves of a handler and its form.
LEMMA Interrupted ==
  ASSUME Tasks, NEW u \in Users, NEW answered, Interrupt(u, answered)
  PROVE  /\ task[u].pc \notin NotRunning
         /\ u \in trouble' /\ trouble \subseteq trouble' /\ events' = events /\ docs' = docs
         /\ \A v \in Users : v # u => /\ task'[v] = task[v] /\ form'[v] = form[v]
                                     /\ chosen'[v] = chosen[v]
         /\ \/ task'[u] = Lost /\ form'[u] = NoForm /\ chosen'[u] = Fields
            \/ /\ form' = form /\ chosen' = chosen
               /\ task'[u].pc = "failed" /\ task'[u].params = task[u].params
<1>1. /\ task[u].pc \in {"persist", "insert", "store", "rest"}
      /\ u \in trouble' /\ trouble \subseteq trouble' /\ events' = events /\ docs' = docs
  BY DEF Interrupt
<1>2. CASE task' = [task EXCEPT ![u] = Lost] /\ CloseForm(u)
  BY <1>1, <1>2 DEF CloseForm, Tasks, NotRunning
<1>3. CASE /\ task' = [task EXCEPT ![u].pc = "failed", ![u].id = 0]
           /\ UNCHANGED <<form, chosen>>
  BY <1>1, <1>3 DEF Tasks, Task, NotRunning
<1> QED
  BY <1>2, <1>3 DEF Interrupt

LEMMA TasksInit == Init => Tasks
  BY IdleIsTask DEF Init, Tasks

LEMMA PutIs ==
  ASSUME NEW id, NEW doc, docs' = Put(id, doc)
  PROVE  /\ DOMAIN docs' = DOMAIN docs \cup {id}
         /\ docs'[id] = doc
         /\ \A k \in DOMAIN docs : k # id => docs'[k] = docs[k]
  BY DEF Put

LEMMA PutRecord ==
  ASSUME Tasks, NEW id, NEW doc, docs' = Put(id, doc), Record(doc)
  PROVE  \A k \in DOMAIN docs' : Record(docs'[k])
<1>1. /\ DOMAIN docs' = DOMAIN docs \cup {id} /\ docs'[id] = doc
      /\ \A k \in DOMAIN docs : k # id => docs'[k] = docs[k]
  BY PutIs
<1>2. \A k \in DOMAIN docs : Record(docs[k])
  BY DEF Tasks
<1> SUFFICES ASSUME NEW k \in DOMAIN docs' PROVE Record(docs'[k])
  OBVIOUS
<1>3. docs'[k] = IF k = id THEN doc ELSE docs[k]
  BY <1>1
<1> QED
  BY <1>1, <1>2, <1>3

\* What is stored under the key of a handler, and the rest of the collection.
LEMMA StoredIsRecord ==
  ASSUME Tasks, NEW id
  PROVE  Record(Stored(id))
  BY DEF Tasks, Record, Stored, NoDoc

LEMMA TasksNext == Tasks /\ [Next]_vars => Tasks'
<1> SUFFICES ASSUME Tasks, [Next]_vars PROVE Tasks'
  OBVIOUS
<1> USE DEF Tasks, Task
<1>1. ASSUME NEW u \in Users, NEW req, Exchange(u, req) PROVE Tasks'
  BY <1>1 DEF Exchange
<1>2. ASSUME NEW u \in Users, NEW shape, Complete(u, shape) PROVE Tasks'
  BY <1>2 DEF Complete
<1>9. ASSUME NEW u \in Users, Persist(u) PROVE Tasks'
  <2>1. PICK doc : docs' = Put(DocOf(u), doc) /\ Record(doc)
    BY <1>9 DEF Persist, Record
  <2>2. \A k \in DOMAIN docs' : Record(docs'[k])
    BY <2>1, PutRecord
  <2> QED
    BY <1>9, <2>2 DEF Persist, Go
<1>3. ASSUME NEW u \in Users, Redeliver(u) PROVE Tasks'
  BY <1>3 DEF Redeliver
<1>4. ASSUME NEW u \in Users, Finish(u) PROVE Tasks'
  BY <1>4, IdleIsTask DEF Finish, CloseForm
<1>5. ASSUME NEW u \in Users, NEW answered, Interrupt(u, answered) PROVE Tasks'
  <2>1. CASE task' = [task EXCEPT ![u] = Lost] /\ CloseForm(u)
    BY <1>5, <2>1, IdleIsTask DEF Interrupt, CloseForm
  <2>2. CASE /\ task' = [task EXCEPT ![u].pc = "failed", ![u].id = 0]
             /\ UNCHANGED <<form, chosen>>
    BY <1>5, <2>2 DEF Interrupt
  <2> QED
    BY <1>5, <2>1, <2>2 DEF Interrupt
<1>6. ASSUME NEW u \in Users, NEW o, CreateEvent(u, o) PROVE Tasks'
  BY <1>6 DEF CreateEvent
<1>7. ASSUME NEW u \in Users, NEW ok, StoreEventId(u, ok) PROVE Tasks'
  <2>1. CASE docs' = docs
    BY <1>7, <2>1 DEF StoreEventId
  <2>2. ASSUME docs' # docs PROVE \A k \in DOMAIN docs' : Record(docs'[k])
    <3>1. PICK doc : docs' = Put(DocOf(u), doc)
                     /\ doc = [Stored(DocOf(u)) EXCEPT !.event = task[u].id]
      BY <1>7, <2>2 DEF StoreEventId
    <3>2. Record(doc)
      BY <3>1, StoredIsRecord DEF Record
    <3> QED
      BY <3>1, <3>2, PutRecord
  <2> QED
    BY <1>7, <2>1, <2>2 DEF StoreEventId
<1>8. CASE UNCHANGED vars
  BY <1>8 DEF vars
<1> QED
  BY <1>1, <1>2, <1>3, <1>4, <1>5, <1>6, <1>7, <1>8, <1>9 DEF Next

----------------------------------------------------------------------------
(* The events.  Their numbers tell them apart; a handler that stores the    *)
(* number of an event stores it in the record of the slot of that event,   *)
(* and unless its user is in trouble no other event is in that slot.       *)

Numbered ==
    /\ IsFiniteSet(events)
    /\ \A ev \in events : ev.id \in 1..Cardinality(events) /\ ev.user \in Users
    /\ \A e1, e2 \in events : e1.id = e2.id => e1 = e2

InSlot(ev, u) ==
    ev.user = u /\ ev.date = task[u].params.date /\ ev.time = task[u].params.time

\* The number a handler carries is that of an event in its slot.
NumberInSlot ==
    \A u \in Users : \A ev \in events :
        task[u].pc = "store" /\ ev.user = u /\ ev.id = task[u].id => InSlot(ev, u)

AloneInSlot ==
    \A u \in Users \ trouble : \A ev \in events :
        task[u].pc \in {"insert", "store"} /\ InSlot(ev, u)
            => task[u].pc = "store" /\ ev.id = task[u].id

EventInv == Numbered /\ NumberInSlot /\ AloneInSlot /\ EventsAccountedFor

LEMMA EventInit == Init => EventInv
  BY FS_EmptySet DEF Init, EventInv, Numbered, NumberInSlot, AloneInSlot, EventsAccountedFor

\* A step that touches neither events nor records, troubles no one less, and moves no
\* handler into or out of the steps that know an event, unless its user is in trouble.
LEMMA EventsQuiet ==
  ASSUME EventInv, events' = events, docs' = docs, trouble \subseteq trouble',
         \A u \in Users :
             \/ task'[u] = task[u]
             \/ u \in trouble' /\ task'[u].pc # "store"
             \/ task[u].pc # "store" /\ task'[u].pc \notin {"insert", "store"}
  PROVE  EventInv'
<1>1. Numbered'
  BY DEF EventInv, Numbered
<1>2. NumberInSlot'
  BY DEF EventInv, NumberInSlot, InSlot
<1>3. AloneInSlot'
  BY DEF EventInv, AloneInSlot, InSlot
<1>4. EventsAccountedFor'
  BY DEF EventInv, EventsAccountedFor, Numbered
<1> QED
  BY <1>1, <1>2, <1>3, <1>4 DEF EventInv

LEMMA PersistEvents ==
  ASSUME Tasks, EventInv, NEW u \in Users, Persist(u)
  PROVE  EventInv'
<1> DEFINE id == DocOf(u)
<1>1. /\ task[u].pc = "persist" /\ events' = events
      /\ task'[u].pc \in {"insert", "rest"} /\ task'[u].params = task[u].params
      /\ \A v \in Users : v # u => task'[v] = task[v]
      /\ trouble' = IF id \in DOMAIN docs THEN trouble \cup {u} ELSE trouble
  BY DEF Persist, Go, Tasks, Task
<1>2. id = <<u, task[u].params.date, task[u].params.time>>
  BY DEF DocOf, AppointmentDocId
<1>3. /\ DOMAIN docs' = DOMAIN docs \cup {id}
      /\ \A k \in DOMAIN docs : docs'[k].event = docs[k].event
  <2>1. PICK doc : docs' = Put(id, doc) /\ doc.event = Stored(id).event
    BY DEF Persist
  <2>2. id \in DOMAIN docs => Stored(id).event = docs[id].event
    BY DEF Stored
  <2> HIDE DEF id
  <2>3. /\ DOMAIN docs' = DOMAIN docs \cup {id} /\ docs'[id] = doc
        /\ \A k \in DOMAIN docs : k # id => docs'[k] = docs[k]
    BY <2>1, PutIs
  <2> QED
    BY <2>1, <2>2, <2>3
<1> HIDE DEF id
<1>4. Numbered'
  BY <1>1 DEF EventInv, Numbered
<1>5. NumberInSlot'
  BY <1>1 DEF EventInv, NumberInSlot, InSlot
<1>6. EventsAccountedFor'
  <2> SUFFICES ASSUME NEW ev \in events, ev.user \notin trouble'
               PROVE  \/ task'[ev.user].pc = "store" /\ task'[ev.user].id = ev.id
                      \/ /\ <<ev.user, ev.date, ev.time>> \in DOMAIN docs'
                         /\ docs'[<<ev.user, ev.date, ev.time>>].event = ev.id
    BY <1>1 DEF EventsAccountedFor
  <2>1. \/ task[ev.user].pc = "store" /\ task[ev.user].id = ev.id
        \/ /\ <<ev.user, ev.date, ev.time>> \in DOMAIN docs
           /\ docs[<<ev.user, ev.date, ev.time>>].event = ev.id
    BY <1>1 DEF EventInv, EventsAccountedFor
  <2>2. ev.user \in Users
    BY DEF EventInv, Numbered
  <2> QED
    BY <1>1, <1>3, <2>1, <2>2
<1>7. AloneInSlot'
  <2> SUFFICES ASSUME NEW v \in Users \ trouble', NEW ev \in events,
                      task'[v].pc \in {"insert", "store"}, InSlot(ev, v)'
               PROVE  task'[v].pc = "store" /\ ev.id = task'[v].id
    BY <1>1 DEF AloneInSlot
  <2>1. CASE v # u
    BY <1>1, <2>1 DEF EventInv, AloneInSlot, InSlot
  <2>2. CASE v = u
    <3>1. id \notin DOMAIN docs /\ u \notin trouble
      BY <1>1, <2>2
    <3>2. ev.user = u /\ <<ev.user, ev.date, ev.time>> = id
      BY <1>1, <1>2, <2>2 DEF InSlot
    <3> QED
      BY <1>1, <3>1, <3>2 DEF EventInv, EventsAccountedFor
  <2> QED
    BY <2>1, <2>2
<1> QED
  BY <1>4, <1>5, <1>6, <1>7 DEF EventInv

LEMMA CreateEvents ==
  ASSUME Tasks, EventInv, NEW u \in Users, NEW o, CreateEvent(u, o)
  PROVE  EventInv'
<1> DEFINE id == Cardinality(events) + 1  ev0 == EventOf(u, id)
<1>a. PICK pc, n : /\ task' = [task EXCEPT ![u].pc = pc, ![u].id = n]
                   /\ \/ events' = events /\ pc = "rest"
                      \/ /\ events' = events \cup {ev0}
                         /\ \/ o # "ok" /\ pc = "rest"
                            \/ o = "ok" /\ pc = "store" /\ n = id
  <2> DEFINE p == task[u].params
             made == p.date # Blank /\ p.time # Blank /\ o # "error" /\ id <= MaxEvents
             pc == IF made /\ o = "ok" THEN "store" ELSE "rest"
             n == IF made /\ o = "ok" THEN id ELSE 0
  <2>1. /\ events' = IF made THEN events \cup {ev0} ELSE events
        /\ task' = [task EXCEPT ![u].pc = pc, ![u].id = n]
    BY DEF CreateEvent, OnCalendarError
  <2>2. /\ pc = IF made /\ o = "ok" THEN "store" ELSE "rest"
        /\ n = IF made /\ o = "ok" THEN id ELSE 0
    OBVIOUS
  <2> HIDE DEF made, pc, n, ev0, id
  <2>3. \/ events' = events /\ pc = "rest"
        \/ /\ events' = events \cup {ev0}
           /\ \/ o # "ok" /\ pc = "rest"
              \/ o = "ok" /\ pc = "store" /\ n = id
    BY <2>1, <2>2
  <2> QED
    BY <2>1, <2>3
<1>b. /\ task'[u] = [task[u] EXCEPT !.pc = pc, !.id = n]
      /\ \A v \in Users : v # u => task'[v] = task[v]
  BY <1>a DEF Tasks
<1>c. task'[u].pc = pc /\ task'[u].id = n /\ task'[u].params = task[u].params
  BY <1>b DEF Tasks, Task
<1>1. /\ task[u].pc = "insert" /\ docs' = docs
      /\ task'[u].params = task[u].params
      /\ \A v \in Users : v # u => task'[v] = task[v]
      /\ trouble' = IF o # "ok" THEN trouble \cup {u} ELSE trouble
  BY <1>b, <1>c DEF CreateEvent
<1>2. \/ events' = events /\ task'[u].pc = "rest"
      \/ /\ events' = events \cup {ev0}
         /\ \/ o # "ok" /\ task'[u].pc = "rest"
            \/ o = "ok" /\ task'[u].pc = "store" /\ task'[u].id = id
  BY <1>a, <1>c
<1>3. /\ ev0.id = id /\ ev0.user = u
      /\ ev0.date = task[u].params.date /\ ev0.time = task[u].params.time
  BY DEF EventOf
<1>4. Cardinality(events) \in Nat
  BY FS_CardinalityType DEF EventInv, Numbered
<1>5. ev0 \notin events
  BY <1>3, <1>4 DEF EventInv, Numbered
<1> HIDE DEF ev0
<1>6. CASE events' = events
  BY <1>1, <1>2, <1>5, <1>6, EventsQuiet
<1>7. CASE events' = events \cup {ev0}
  <2>1. IsFiniteSet(events') /\ Cardinality(events') = id
    BY <1>5, <1>7, FS_AddElement DEF EventInv, Numbered
  <2>2. Numbered'
    <3>1. \A ev \in events' : ev.id \in 1..id /\ ev.user \in Users
      BY <1>3, <1>4, <1>7 DEF EventInv, Numbered
    <3>2. \A ev \in events : ev.id # ev0.id
      BY <1>3, <1>4 DEF EventInv, Numbered
    <3>3. \A e1, e2 \in events' : e1.id = e2.id => e1 = e2
      BY <1>7, <3>2 DEF EventInv, Numbered
    <3> QED
      BY <2>1, <3>1, <3>3 DEF Numbered
  <2>3. NumberInSlot'
    BY <1>1, <1>2, <1>3, <1>4, <1>7 DEF EventInv, Numbered, NumberInSlot, InSlot
  <2>4. AloneInSlot'
    BY <1>1, <1>2, <1>3, <1>5, <1>7 DEF EventInv, AloneInSlot, InSlot
  <2>5. EventsAccountedFor'
    BY <1>1, <1>2, <1>3, <1>5, <1>7 DEF EventInv, Numbered, EventsAccountedFor
  <2> QED
    BY <2>2, <2>3, <2>4, <2>5 DEF EventInv
<1> QED
  BY <1>2, <1>6, <1>7

LEMMA StoreEvents ==
  ASSUME Tasks, EventInv, NEW u \in Users, NEW ok \in BOOLEAN, StoreEventId(u, ok)
  PROVE  EventInv'
<1> DEFINE id == DocOf(u)
<1>1. /\ task[u].pc = "store" /\ task'[u].pc = "rest" /\ events' = events
      /\ \A v \in Users : v # u => task'[v] = task[v]
      /\ trouble' = IF ok THEN trouble ELSE trouble \cup {u}
  BY DEF StoreEventId, Tasks, Task
<1>2. CASE ~ok
  <2>1. docs' = docs
    BY <1>2 DEF StoreEventId
  <2> QED
    BY <1>1, <1>2, <2>1, EventsQuiet
<1>3. CASE ok
  <2>1. id = <<u, task[u].params.date, task[u].params.time>>
    BY DEF DocOf, AppointmentDocId
  <2>2. /\ DOMAIN docs' = DOMAIN docs \cup {id}
        /\ docs'[id].event = task[u].id
        /\ \A k \in DOMAIN docs : k # id => docs'[k] = docs[k]
    <3>1. PICK doc : docs' = Put(id, doc) /\ doc = [Stored(id) EXCEPT !.event = task[u].id]
      BY <1>3 DEF StoreEventId
    <3>2. doc.event = task[u].id
      BY <3>1, StoredIsRecord DEF Record
    <3> HIDE DEF id
    <3> QED
      BY <3>1, <3>2, PutIs
  <2> HIDE DEF id
  <2>3. Numbered' /\ NumberInSlot' /\ AloneInSlot'
    BY <1>1, <1>3 DEF EventInv, Numbered, NumberInSlot, AloneInSlot, InSlot
  <2>4. EventsAccountedFor'
    <3> SUFFICES ASSUME NEW ev \in events, ev.user \notin trouble'
                 PROVE  \/ task'[ev.user].pc = "store" /\ task'[ev.user].id = ev.id
                        \/ /\ <<ev.user, ev.date, ev.time>> \in DOMAIN docs'
                           /\ docs'[<<ev.user, ev.date, ev.time>>].event = ev.id
      BY <1>1 DEF EventsAccountedFor
    <3>1. ev.user \in Users /\ ev.user \notin trouble
      BY <1>1 DEF EventInv, Numbered
    <3>2. CASE <<ev.user, ev.date, ev.time>> = id
      <4>1. InSlot(ev, u)
        BY <2>1, <3>2 DEF InSlot
      <4>2. ev.id = task[u].id
        BY <1>1, <3>1, <4>1 DEF EventInv, AloneInSlot, InSlot
      <4> QED
        BY <2>2, <3>2, <4>2
    <3>3. CASE <<ev.user, ev.date, ev.time>> # id
      <4>1. ~(ev.user = u /\ ev.id = task[u].id)
        BY <1>1, <2>1, <3>3 DEF EventInv, NumberInSlot, InSlot
      <4> QED
        BY <1>1, <2>2, <3>1, <3>3, <4>1 DEF EventInv, EventsAccountedFor
    <3> QED
      BY <3>2, <3>3
  <2> QED
    BY <2>3, <2>4 DEF EventInv
<1> QED
  BY <1>2, <1>3

LEMMA EventNext == Tasks /\ EventInv /\ [Next]_vars => EventInv'
<1> SUFFICES ASSUME Tasks, EventInv, [Next]_vars PROVE EventInv'
  OBVIOUS
<1>1. ASSUME NEW u \in Users, NEW req, Exchange(u, req) PROVE EventInv'
  BY <1>1, EventsQuiet DEF Exchange
<1>2. ASSUME NEW u \in Users, NEW shape, Complete(u, shape) PROVE EventInv'
  <2>1. /\ task[u].pc \in NotRunning /\ task'[u].pc \in {"persist", "rest"}
        /\ \A v \in Users : v # u => task'[v] = task[v]
        /\ events' = events /\ docs' = docs /\ trouble' = trouble
    BY <1>2 DEF Complete, Tasks
  <2> QED
    BY <2>1, EventsQuiet DEF NotRunning
<1>3. ASSUME NEW u \in Users, Persist(u) PROVE EventInv'
  BY <1>3, PersistEvents
<1>4. ASSUME NEW u \in Users, Redeliver(u) \/ Finish(u) PROVE EventInv'
  <2>1. /\ task[u].pc \in {"failed", "rest"} /\ task'[u].pc \in {"persist", "rest", "idle"}
        /\ \A v \in Users : v # u => task'[v] = task[v]
        /\ events' = events /\ docs' = docs /\ trouble' = trouble
    BY <1>4, IdleIsTask DEF Redeliver, Finish, Tasks, Task
  <2> QED
    BY <2>1, EventsQuiet
<1>5. ASSUME NEW u \in Users, NEW answered, Interrupt(u, answered) PROVE EventInv'
  <2>1. /\ task'[u].pc \in {"failed", "lost"} /\ u \in trouble' /\ trouble \subseteq trouble'
        /\ \A v \in Users : v # u => task'[v] = task[v]
        /\ events' = events /\ docs' = docs
    BY <1>5, Interrupted, IdleIsTask
  <2> QED
    BY <2>1, EventsQuiet
<1>6. ASSUME NEW u \in Users, NEW o, CreateEvent(u, o) PROVE EventInv'
  BY <1>6, CreateEvents
<1>7. ASSUME NEW u \in Users, NEW ok \in BOOLEAN, StoreEventId(u, ok) PROVE EventInv'
  BY <1>7, StoreEvents
<1>8. CASE UNCHANGED vars
  BY <1>8, EventsQuiet DEF vars
<1> QED
  BY <1>1, <1>2, <1>3, <1>4, <1>5, <1>6, <1>7, <1>8 DEF Next

\* However completions overlap, fail and are delivered again, an event without a record
\* belongs to a user a completion of whom was cut short or repeated or lost an answer
\* (save_appointment_from_flow and _create_calendar_event, appointment_handler.py).
THEOREM EventsHaveRecords == Spec => []EventsAccountedFor
<1>1. EventInv => EventsAccountedFor
  BY DEF EventInv
<1> QED
  BY <1>1, TasksInit, TasksNext, EventInit, EventNext, PTL DEF Spec

----------------------------------------------------------------------------
(* The form.  From the second screen on it carries what was chosen on the   *)
(* first, unless the user went back and it carries no date at all.         *)

IsFields(p) == p = [vertical |-> p.vertical, date |-> p.date, time |-> p.time, mode |-> p.mode]

IsForm(f) ==
    /\ f = [screen |-> f.screen, data |-> f.data, dates |-> f.dates, times |-> f.times]
    /\ IsFields(f.data)

ChosenMode(u) == IF chosen[u].mode = "" THEN "presencial" ELSE chosen[u].mode

Carries(p, u) ==
    p.date # Blank => /\ p.date = chosen[u].date /\ p.time = chosen[u].time
                      /\ p.mode = ChosenMode(u)

FormOf(u) ==
    /\ IsForm(form[u])
    /\ chosen[u].mode \in {"", "online", "presencial"}
    /\ form[u].screen \in {"DETAILS", "SUMMARY", "SUCCESS"} => Carries(form[u].data, u)

TaskOf(u) ==
    /\ task[u].pc \notin NotRunning =>
          form[u].screen = "SUCCESS" /\ task[u].params = form[u].data
    /\ task[u].pc \in {"insert", "store"} =>
          /\ DocOf(u) \in DOMAIN docs
          /\ docs[DocOf(u)].mode = NormalizeMeetingMode(task[u].params.mode)

FormInv == \A u \in Users : FormOf(u) /\ TaskOf(u)

LEMMA FieldsIsFields == IsFields(Fields) /\ Fields.date = Blank /\ Fields.mode = ""
  BY DEF IsFields, Fields

LEMMA NoFormIsForm == IsForm(NoForm) /\ NoForm.screen = ""
  BY FieldsIsFields DEF IsForm, NoForm, Show

LEMMA ModeOrIs ==
  ASSUME NEW p, IsFields(p)
  PROVE  /\ IsFields(ModeOr(p)) /\ ModeOr(p).date = p.date /\ ModeOr(p).time = p.time
         /\ ModeOr(p).mode = IF p.mode = "" THEN "presencial" ELSE p.mode
  BY DEF IsFields, ModeOr

LEMMA ShowIs ==
  ASSUME NEW screen, NEW p, NEW g, g = Show(screen, p), IsFields(p)
  PROVE  IsForm(g) /\ g.screen = screen /\ g.data = p
  BY DEF IsForm, Show

LEMMA FormInit == Init => FormInv
<1> SUFFICES ASSUME Init, NEW u \in Users PROVE FormOf(u) /\ TaskOf(u)
  BY DEF FormInv
<1>1. form[u] = NoForm /\ task[u] = Idle /\ chosen[u] = Fields
  BY DEF Init
<1> QED
  BY <1>1, NoFormIsForm, FieldsIsFields, IdleIsTask DEF FormOf, TaskOf, NotRunning

\* Of what a phone may send, what decides on the screen that follows.
Sends(f, req) ==
    \/ req.action \in {"ping", "navigate"}
    \/ f.screen = "" /\ req.action = "INIT"
    \/ /\ f.screen \in {"DETAILS", "SUMMARY"}
       /\ req.action # "INIT" /\ req.trigger = ""
       /\ IsFields(req.data) /\ req.data \in {f.data, Fields}
    \/ /\ f.screen = "APPOINTMENT"
       /\ req.action # "INIT" /\ IsFields(req.data)
       /\ \/ req.trigger \in {"vertical_selected", "date_selected"}
          \/ req.trigger = "" /\ req.data.mode \in {"", "online", "presencial"}

LEMMA OpeningSends ==
  ASSUME NEW f, f.screen = "", NEW req \in Openings PROVE Sends(f, req)
<1>1. \/ \E x \in Faults : req = Request("INIT", "", Fields, x)
      \/ req = Request("navigate", "", Fields, "none")
  BY DEF Openings
<1>2. ASSUME NEW x \in Faults, req = Request("INIT", "", Fields, x) PROVE req.action = "INIT"
  BY <1>2 DEF Request
<1>3. CASE req = Request("navigate", "", Fields, "none")
  BY <1>3 DEF Request, Sends
<1> QED
  BY <1>1, <1>2, <1>3 DEF Sends

LEMMA MoveSends ==
  ASSUME NEW f, IsForm(f), f.screen \in {"DETAILS", "SUMMARY"}, NEW req \in Moves(f)
  PROVE  Sends(f, req)
<1>1. IsFields(f.data) /\ IsFields(Fields)
  BY FieldsIsFields DEF IsForm
<1>2. \/ req = Request("data_exchange", "", f.data, "none")
      \/ req = Request("BACK", "", Fields, "none")
  BY DEF Moves
<1>3. req.action \in {"data_exchange", "BACK"} /\ req.trigger = "" /\ req.data \in {f.data, Fields}
  <2>1. ASSUME req = Request("data_exchange", "", f.data, "none")
        PROVE  req.action = "data_exchange" /\ req.trigger = "" /\ req.data = f.data
    BY <2>1 DEF Request
  <2>2. ASSUME req = Request("BACK", "", Fields, "none")
        PROVE  req.action = "BACK" /\ req.trigger = "" /\ req.data = Fields
    BY <2>2 DEF Request
  <2> QED
    BY <1>2, <2>1, <2>2
<1> QED
  BY <1>1, <1>3 DEF Sends

LEMMA ChoiceSends ==
  ASSUME NEW f, IsForm(f), f.screen = "APPOINTMENT",
         NEW req \in VerticalChoices(f) \cup DateChoices(f) \cup TimeChoices(f)
  PROVE  Sends(f, req)
<1>1. IsFields(f.data)
  BY DEF IsForm
<1>2. CASE req \in VerticalChoices(f)
  <2>1. PICK v : req = Request("data_exchange", "vertical_selected",
                               [f.data EXCEPT !.vertical = v], "none")
    BY <1>2 DEF VerticalChoices
  <2>2. /\ req.action = "data_exchange" /\ req.trigger = "vertical_selected"
        /\ req.data = [f.data EXCEPT !.vertical = v]
    BY <2>1 DEF Request
  <2>3. IsFields(req.data)
    BY <1>1, <2>2 DEF IsFields
  <2> QED
    BY <2>2, <2>3 DEF Sends
<1>3. CASE req \in DateChoices(f)
  <2>1. PICK d : req = Request("data_exchange", "date_selected",
                               [f.data EXCEPT !.date = d], "none")
    BY <1>3 DEF DateChoices
  <2>2. /\ req.action = "data_exchange" /\ req.trigger = "date_selected"
        /\ req.data = [f.data EXCEPT !.date = d]
    BY <2>1 DEF Request
  <2>3. IsFields(req.data)
    BY <1>1, <2>2 DEF IsFields
  <2> QED
    BY <2>2, <2>3 DEF Sends
<1>4. CASE req \in TimeChoices(f)
  <2>1. PICK t \in f.times, m \in {"", "online", "presencial"} :
            req = Request("data_exchange", "", [f.data EXCEPT !.time = t, !.mode = m], "none")
    BY <1>4 DEF TimeChoices
  <2>2. /\ req.action = "data_exchange" /\ req.trigger = ""
        /\ req.data = [f.data EXCEPT !.time = t, !.mode = m]
    BY <2>1 DEF Request
  <2>3. IsFields(req.data) /\ req.data.mode = m
    BY <1>1, <2>2 DEF IsFields
  <2> QED
    BY <2>2, <2>3 DEF Sends
<1> QED
  BY <1>2, <1>3, <1>4

LEMMA PhoneSends ==
  ASSUME NEW f, IsForm(f), NEW req \in PhoneRequests(f)
  PROVE  Sends(f, req)
<1>1. CASE req = Request("ping", "", Fields, "none")
  BY <1>1 DEF Request, Sends
<1>2. \/ req = Request("ping", "", Fields, "none")
      \/ f.screen = "" /\ req \in Openings
      \/ f.screen \in {"DETAILS", "SUMMARY"} /\ req \in Moves(f)
      \/ /\ f.screen = "APPOINTMENT"
         /\ req \in VerticalChoices(f) \cup DateChoices(f) \cup TimeChoices(f)
  BY DEF PhoneRequests
<1> QED
  BY <1>1, <1>2, OpeningSends, MoveSends, ChoiceSends

\* The endpoint refuses and leaves the form, or answers with the next one.
LEMMA EndpointAnswers ==
  ASSUME NEW f, NEW req
  PROVE  LET g == HandleFlowEndpoint(f, req).form
         IN  /\ g = f \/ g = ProcessFlowLogic(f, req)
             /\ req.action \in {"ping", "navigate"} => g = f
  BY DEF HandleFlowEndpoint, RouteFlowAction, Refused

LEMMA NextScreen ==
  ASSUME NEW f, NEW req, IsForm(f), IsFields(req.data)
  PROVE  LET g == ProcessFlowLogic(f, req)
         IN  /\ req.action = "INIT" => g = Show("APPOINTMENT", ModeOr(Fields))
             /\ req.action # "INIT" /\ req.trigger \in {"vertical_selected", "date_selected"}
                   => g.screen = f.screen /\ IsForm(g)
             /\ req.action # "INIT" /\ req.trigger = "" =>
                   /\ f.screen = "APPOINTMENT" => g = Show("DETAILS", ModeOr(req.data))
                   /\ f.screen = "DETAILS" => g = Show("SUMMARY", ModeOr(req.data))
                   /\ f.screen = "SUMMARY" => g = Show("SUCCESS", req.data)
  BY DEF ProcessFlowLogic, IsForm

\* What is kept of a user for whom nothing changes.
LEMMA FormStays ==
  ASSUME NEW u \in Users, FormOf(u), TaskOf(u),
         form'[u] = form[u], chosen'[u] = chosen[u], task'[u] = task[u],
         DocOf(u) \in DOMAIN docs =>
             DocOf(u) \in DOMAIN docs' /\ docs'[DocOf(u)].mode = docs[DocOf(u)].mode
  PROVE  FormOf(u)' /\ TaskOf(u)'
<1>1. FormOf(u)'
  BY DEF FormOf, Carries, ChosenMode
<1>2. DocOf(u)' = DocOf(u)
  BY DEF DocOf, AppointmentDocId
<1>3. TaskOf(u)'
  BY <1>2 DEF TaskOf
<1> QED
  BY <1>1, <1>3

LEMMA ExchangeForm ==
  ASSUME Tasks, FormInv, NEW u \in Users, NEW req \in PhoneRequests(form[u]), Exchange(u, req)
  PROVE  FormInv'
<1> DEFINE f == form[u]  g == HandleFlowEndpoint(f, req).form
<1>1. /\ task' = task /\ docs' = docs /\ form'[u] = g
      /\ \A v \in Users : v # u => form'[v] = form[v]
      /\ chosen' = IF f.screen = "APPOINTMENT" /\ g.screen = "DETAILS"
                   THEN [chosen EXCEPT ![u] = req.data] ELSE chosen
  BY DEF Exchange, Tasks
<1>2. /\ \A v \in Users : v # u => chosen'[v] = chosen[v]
      /\ chosen'[u] = IF f.screen = "APPOINTMENT" /\ g.screen = "DETAILS"
                      THEN req.data ELSE chosen[u]
  BY <1>1 DEF Tasks
<1>3. ASSUME NEW v \in Users, v # u PROVE FormOf(v)' /\ TaskOf(v)'
  BY <1>1, <1>2, <1>3, FormStays DEF FormInv
<1>4. IsForm(f) /\ FormOf(u) /\ TaskOf(u)
  BY DEF FormInv, FormOf
<1>5. FormOf(u)' /\ TaskOf(u)'
  <2>1. CASE g = f
    <3>1. chosen'[u] = chosen[u]
      BY <1>2, <2>1
    <3> QED
      BY <1>1, <1>4, <2>1, <3>1, FormStays
  <2>2. CASE g # f
    <3>1. g = ProcessFlowLogic(f, req) /\ req.action \notin {"ping", "navigate"}
      BY <2>2, EndpointAnswers
    <3>2. f.screen # "SUCCESS" /\ task[u].pc \in NotRunning
      BY <1>4, <3>1, PhoneSends DEF TaskOf, Sends
    <3>3. TaskOf(u)'
      BY <1>1, <3>2 DEF TaskOf, NotRunning
    <3>4. CASE f.screen = "" /\ req.action = "INIT"
      <4>1. g = Show("APPOINTMENT", ModeOr(Fields))
        BY <3>1, <3>4 DEF ProcessFlowLogic
      <4>2. g.screen = "APPOINTMENT" /\ IsForm(g)
        <5>1. IsFields(ModeOr(Fields))
          BY ModeOrIs, FieldsIsFields
        <5> QED
          BY <4>1, <5>1, ShowIs
      <4> QED
        BY <1>1, <1>2, <1>4, <3>3, <3>4, <4>2 DEF FormOf
    <3>5. CASE /\ f.screen \in {"DETAILS", "SUMMARY"}
               /\ req.action # "INIT" /\ req.trigger = ""
               /\ IsFields(req.data) /\ req.data \in {f.data, Fields}
      <4>1. Carries(req.data, u)
        BY <1>4, <3>5, FieldsIsFields DEF FormOf, Carries
      <4>2. Carries(ModeOr(req.data), u)
        BY <3>5, <4>1, ModeOrIs DEF Carries, ChosenMode
      <4>3. \/ g = Show("SUMMARY", ModeOr(req.data))
            \/ g = Show("SUCCESS", req.data)
        BY <1>4, <3>1, <3>5, NextScreen
      <4>4. IsForm(g) /\ g.screen # "DETAILS" /\ Carries(g.data, u)
        <5>1. IsFields(ModeOr(req.data))
          BY <3>5, ModeOrIs
        <5>2. \A p : IsFields(p) /\ g = Show("SUMMARY", p) =>
                  IsForm(g) /\ g.screen = "SUMMARY" /\ g.data = p
          BY ShowIs
        <5>3. \A p : IsFields(p) /\ g = Show("SUCCESS", p) =>
                  IsForm(g) /\ g.screen = "SUCCESS" /\ g.data = p
          BY ShowIs
        <5> HIDE DEF g
        <5> QED
          BY <3>5, <4>1, <4>2, <4>3, <5>1, <5>2, <5>3
      <4>5. chosen'[u] = chosen[u]
        BY <1>2, <3>5
      <4>6. FormOf(u)'
        BY <1>1, <1>4, <4>4, <4>5 DEF FormOf, Carries, ChosenMode
      <4> QED
        BY <3>3, <4>6
    <3>6. CASE /\ f.screen = "APPOINTMENT" /\ req.action # "INIT" /\ IsFields(req.data)
               /\ req.trigger \in {"vertical_selected", "date_selected"}
      <4>1. g.screen = "APPOINTMENT" /\ IsForm(g)
        BY <1>4, <3>1, <3>6 DEF ProcessFlowLogic, IsForm
      <4> QED
        BY <1>1, <1>2, <1>4, <3>3, <4>1 DEF FormOf
    <3>7. CASE /\ f.screen = "APPOINTMENT" /\ req.action # "INIT" /\ IsFields(req.data)
               /\ req.trigger = "" /\ req.data.mode \in {"", "online", "presencial"}
      <4>1. g = Show("DETAILS", ModeOr(req.data))
        BY <1>4, <3>1, <3>7, NextScreen
      <4>2. g.screen = "DETAILS" /\ IsForm(g) /\ g.data = ModeOr(req.data)
        <5>1. IsFields(ModeOr(req.data))
          BY <3>7, ModeOrIs
        <5> QED
          BY <4>1, <5>1, ShowIs
      <4>3. chosen'[u] = req.data
        BY <1>2, <3>7, <4>2
      <4>4. /\ ModeOr(req.data).date = req.data.date /\ ModeOr(req.data).time = req.data.time
            /\ ModeOr(req.data).mode = IF req.data.mode = "" THEN "presencial" ELSE req.data.mode
        BY <3>7, ModeOrIs
      <4> HIDE DEF g
      <4>5. FormOf(u)'
        BY <1>1, <3>7, <4>2, <4>3, <4>4 DEF FormOf, Carries, ChosenMode
      <4> QED
        BY <3>3, <4>5
    <3> HIDE DEF g
    <3> QED
      BY <1>4, <3>1, <3>4, <3>5, <3>6, <3>7, PhoneSends DEF Sends
  <2> QED
    BY <2>1, <2>2
<1> QED
  BY <1>3, <1>5 DEF FormInv

LEMMA QuietForm ==
  ASSUME Tasks, FormInv, NEW u \in Users,
         form' = form, chosen' = chosen, docs' = docs,
         \A v \in Users : v # u => task'[v] = task[v],
         TaskOf(u)'
  PROVE  FormInv'
<1>1. ASSUME NEW v \in Users, v # u PROVE FormOf(v)' /\ TaskOf(v)'
  BY <1>1, FormStays DEF FormInv
<1>2. FormOf(u)'
  BY DEF FormInv, FormOf, Carries, ChosenMode
<1> QED
  BY <1>1, <1>2 DEF FormInv

LEMMA DocOfStays ==
  ASSUME NEW u, task'[u].params = task[u].params
  PROVE  DocOf(u)' = DocOf(u)
  BY DEF DocOf, AppointmentDocId

\* What one handler writes is not the record of another.
LEMMA WriteForm ==
  ASSUME Tasks, FormInv, NEW u \in Users, NEW doc, docs' = Put(DocOf(u), doc),
         form' = form, chosen' = chosen,
         \A v \in Users : v # u => task'[v] = task[v],
         TaskOf(u)'
  PROVE  FormInv'
<1>1. ASSUME NEW v \in Users, v # u PROVE FormOf(v)' /\ TaskOf(v)'
  <2>1. DocOf(v) # DocOf(u)
    BY <1>1 DEF DocOf, AppointmentDocId
  <2>2. DocOf(v) \in DOMAIN docs =>
            DocOf(v) \in DOMAIN docs' /\ docs'[DocOf(v)] = docs[DocOf(v)]
    BY <2>1, PutIs
  <2> QED
    BY <1>1, <2>2, FormStays DEF FormInv
<1>2. FormOf(u)'
  BY DEF FormInv, FormOf, Carries, ChosenMode
<1> QED
  BY <1>1, <1>2 DEF FormInv

LEMMA FormNext == Tasks /\ FormInv /\ [Next]_vars => FormInv'
<1> SUFFICES ASSUME Tasks, FormInv, [Next]_vars PROVE FormInv'
  OBVIOUS
<1>1. ASSUME NEW u \in Users, NEW req \in PhoneRequests(form[u]), Exchange(u, req)
      PROVE  FormInv'
  BY <1>1, ExchangeForm
<1>2. ASSUME NEW u \in Users, NEW shape, Complete(u, shape) PROVE FormInv'
  <2>1. /\ form[u].screen = "SUCCESS" /\ form' = form /\ chosen' = chosen /\ docs' = docs
        /\ task'[u].pc \in {"persist", "rest"} /\ task'[u].params = form[u].data
        /\ \A v \in Users : v # u => task'[v] = task[v]
    BY <1>2 DEF Complete, Tasks
  <2>2. TaskOf(u)'
    BY <2>1 DEF TaskOf
  <2> QED
    BY <2>1, <2>2, QuietForm
<1>3. ASSUME NEW u \in Users, Persist(u) PROVE FormInv'
  <2> DEFINE doc == [mode |-> BuildAppointmentRecord(task[u].params).mode,
                     event |-> Stored(DocOf(u)).event]
  <2>1. /\ form' = form /\ chosen' = chosen /\ docs' = Put(DocOf(u), doc)
        /\ task[u].pc = "persist" /\ task'[u].params = task[u].params
        /\ \A v \in Users : v # u => task'[v] = task[v]
    BY <1>3 DEF Persist, Go, Tasks, Task
  <2>2. doc.mode = NormalizeMeetingMode(task[u].params.mode)
    BY DEF BuildAppointmentRecord
  <2> HIDE DEF doc
  <2>3. DocOf(u) \in DOMAIN docs' /\ docs'[DocOf(u)] = doc
    BY <2>1, PutIs
  <2>4. TaskOf(u)'
    <3>1. TaskOf(u) /\ DocOf(u)' = DocOf(u)
      BY <2>1, DocOfStays DEF FormInv
    <3> QED
      BY <2>1, <2>2, <2>3, <3>1 DEF TaskOf, NotRunning
  <2> QED
    BY <2>1, <2>4, WriteForm
<1>4. ASSUME NEW u \in Users,
             Redeliver(u)
             \/ (/\ task[u].pc \notin NotRunning /\ form' = form /\ chosen' = chosen /\ docs' = docs
                 /\ task'[u].pc = "failed" /\ task'[u].params = task[u].params
                 /\ \A v \in Users : v # u => task'[v] = task[v])
      PROVE  FormInv'
  <2>1. /\ form' = form /\ chosen' = chosen /\ docs' = docs
        /\ task[u].pc \notin NotRunning /\ task'[u].pc \in {"persist", "rest", "failed"}
        /\ task'[u].params = task[u].params
        /\ \A v \in Users : v # u => task'[v] = task[v]
    BY <1>4 DEF Redeliver, Tasks, Task, NotRunning
  <2>2. TaskOf(u)'
    BY <2>1 DEF FormInv, TaskOf
  <2> QED
    BY <2>1, <2>2, QuietForm
<1>5. ASSUME NEW u \in Users,
             task'[u] \in {Idle, Lost}, form'[u] = NoForm, chosen'[u] = Fields, docs' = docs,
             \A v \in Users : v # u => /\ task'[v] = task[v] /\ form'[v] = form[v]
                                      /\ chosen'[v] = chosen[v]
      PROVE  FormInv'
  <2>1. FormOf(u)' /\ TaskOf(u)'
    BY <1>5, NoFormIsForm, FieldsIsFields, IdleIsTask DEF FormOf, TaskOf, NotRunning
  <2>2. ASSUME NEW v \in Users, v # u PROVE FormOf(v)' /\ TaskOf(v)'
    BY <1>5, <2>2, FormStays DEF FormInv
  <2> QED
    BY <2>1, <2>2 DEF FormInv
<1>9. ASSUME NEW u \in Users, Finish(u) PROVE FormInv'
  <2>1. /\ task'[u] = Idle /\ form'[u] = NoForm /\ chosen'[u] = Fields /\ docs' = docs
        /\ \A v \in Users : v # u => /\ task'[v] = task[v] /\ form'[v] = form[v]
                                    /\ chosen'[v] = chosen[v]
    BY <1>9 DEF Finish, CloseForm, Tasks
  <2> QED
    BY <1>5, <2>1
<1>10. ASSUME NEW u \in Users, NEW answered, Interrupt(u, answered) PROVE FormInv'
  BY <1>4, <1>5, <1>10, Interrupted
<1>6. ASSUME NEW u \in Users, NEW o, CreateEvent(u, o) PROVE FormInv'
  <2>1. PICK pc, n : task' = [task EXCEPT ![u].pc = pc, ![u].id = n]
    BY <1>6 DEF CreateEvent
  <2>2. /\ task'[u] = [task[u] EXCEPT !.pc = pc, !.id = n]
        /\ \A v \in Users : v # u => task'[v] = task[v]
    BY <2>1 DEF Tasks
  <2>a. task'[u].params = task[u].params
    BY <2>2 DEF Tasks, Task
  <2>3. /\ task'[u].params = task[u].params /\ task[u].pc = "insert"
        /\ form' = form /\ chosen' = chosen /\ docs' = docs
    BY <1>6, <2>a DEF CreateEvent
  <2>4. TaskOf(u)'
    <3>1. TaskOf(u) /\ DocOf(u)' = DocOf(u)
      BY <2>3, DocOfStays DEF FormInv
    <3> QED
      BY <2>3, <3>1 DEF TaskOf, NotRunning
  <2> QED
    BY <2>2, <2>3, <2>4, QuietForm
<1>7. ASSUME NEW u \in Users, NEW ok \in BOOLEAN, StoreEventId(u, ok) PROVE FormInv'
  <2>1. /\ form' = form /\ chosen' = chosen /\ task[u].pc = "store" /\ task'[u].pc = "rest"
        /\ task'[u].params = task[u].params
        /\ \A v \in Users : v # u => task'[v] = task[v]
        /\ docs' = docs \/ \E doc : docs' = Put(DocOf(u), doc)
    BY <1>7 DEF StoreEventId, Tasks, Task
  <2>2. TaskOf(u)'
    BY <2>1 DEF FormInv, TaskOf, NotRunning
  <2> QED
    BY <2>1, <2>2, QuietForm, WriteForm
<1>8. CASE UNCHANGED vars
  BY <1>8, FormStays DEF vars, FormInv
<1> QED
  BY <1>1, <1>2, <1>3, <1>4, <1>6, <1>7, <1>8, <1>9, <1>10 DEF Next

\* Whatever other users do, however often a phone goes back and a completion is repeated,
\* the record is that of the slot and the mode chosen on the first screen
\* (process_flow_logic, flows.py; save_appointment_from_flow, appointment_handler.py).
THEOREM RecordsAreAsChosen == Spec => []BookedAsChosen
<1>1. FormInv => BookedAsChosen
  <2> SUFFICES ASSUME FormInv, NEW u \in Users, task[u].pc \in {"insert", "store"},
                      task[u].params.date # Blank
               PROVE  /\ AppointmentDocId(u, chosen[u]) \in DOMAIN docs
                      /\ docs[AppointmentDocId(u, chosen[u])].mode = ChosenMode(u)
    BY DEF BookedAsChosen, ChosenMode
  <2>1. Carries(task[u].params, u)
    BY DEF FormInv, FormOf, TaskOf, NotRunning
  <2>2. DocOf(u) = AppointmentDocId(u, chosen[u])
    BY <2>1 DEF Carries, DocOf, AppointmentDocId
  <2>3. NormalizeMeetingMode(task[u].params.mode) = ChosenMode(u)
    BY <2>1 DEF Carries, FormInv, FormOf, ChosenMode, NormalizeMeetingMode
  <2> QED
    BY <2>2, <2>3 DEF FormInv, TaskOf
<1> QED
  BY <1>1, TasksInit, TasksNext, FormInit, FormNext, PTL DEF Spec

----------------------------------------------------------------------------
(* The sweep over the busy ranges, the earlier ones first.  After the ranges *)
(* of T the cursor stands at the furthest end of them, and what lies before *)
(* it is covered by one of them or by a free slot, never by both.           *)

Ranges == Int \X Int
Accumulators == [cursor : Int, free : SUBSET Ranges]

SlotBeside(slot, T) ==
    /\ slot \in Ranges
    /\ Window[1] <= slot[1] /\ slot[1] < slot[2] /\ \E b \in T : slot[2] = b[1]
    /\ slot[1] = Window[1] \/ CoveredBy(T, slot[1] - 1)
    /\ \A x \in Int : slot[1] <= x /\ x < slot[2] => ~CoveredBy(T, x)

Swept(acc, T) ==
    /\ acc \in Accumulators
    /\ Window[1] <= acc.cursor
    /\ \A b \in T : b[2] <= acc.cursor
    /\ acc.cursor = Window[1] \/ CoveredBy(T, acc.cursor - 1)
    /\ \A slot \in acc.free : SlotBeside(slot, T)
    /\ \A x \in Int : Window[1] <= x /\ x < acc.cursor
          => CoveredBy(acc.free, x) \/ CoveredBy(T, x)

LEMMA WindowIs == Window[1] \in Int /\ Window[2] \in Int /\ (StartHour < EndHour <=> Window[1] < Window[2])
  BY AppointmentsAssumption DEF AppointmentsAssumption, Window

LEMMA LatestIs ==
  ASSUME NEW T \in SUBSET Ranges, IsFiniteSet(T), T # {}
  PROVE  Latest(T) \in T /\ \A a \in T : a[1] <= Latest(T)[1]
<1> DEFINE R == {p \in T \X T : Earlier(p[1], p[2])}
<1>1. \A a, b \in T : <<a, b>> \in R <=> Earlier(a, b)
  OBVIOUS
<1>2. \A a \in T : a[1] \in Int /\ a[2] \in Int
  BY DEF Ranges
<1> HIDE DEF R
<1>3. \A a \in T : <<a, a>> \notin R
  BY <1>1, <1>2 DEF Earlier
<1>4. \A a, b, c \in T : <<a, b>> \in R /\ <<b, c>> \in R => <<a, c>> \in R
  BY <1>1, <1>2 DEF Earlier
<1>5. \E m \in T : \A a \in T : <<m, a>> \notin R
  BY <1>3, <1>4, MaximalOf
<1>6. \E m \in T : \A a \in T : ~Earlier(m, a)
  BY <1>1, <1>5
<1>7. Latest(T) \in T /\ \A a \in T : ~Earlier(Latest(T), a)
  BY <1>6 DEF Latest
<1> QED
  BY <1>2, <1>7 DEF Earlier

LEMMA SweepStep ==
  ASSUME NEW T \in SUBSET Ranges, NEW b \in Ranges, \A a \in T : a[1] <= b[1], b[1] < b[2],
         NEW acc, Swept(acc, T)
  PROVE  Swept(Advance(acc, b), T \cup {b})
<1> DEFINE new == Advance(acc, b)  C == T \cup {b}
<1>1. /\ acc.cursor \in Int /\ acc.free \in SUBSET Ranges /\ b[1] \in Int /\ b[2] \in Int
      /\ Window[1] \in Int /\ Window[1] <= acc.cursor
      /\ \A a \in T : a[1] \in Int /\ a[2] \in Int /\ a[1] <= b[1] /\ a[2] <= acc.cursor
  BY WindowIs DEF Swept, Accumulators, Ranges
<1>2. /\ new.cursor = IF b[2] > acc.cursor THEN b[2] ELSE acc.cursor
      /\ new.free = IF b[1] > acc.cursor THEN acc.free \cup {<<acc.cursor, b[1]>>} ELSE acc.free
      /\ new = [cursor |-> new.cursor, free |-> new.free]
  BY DEF Advance
<1> HIDE DEF new
<1>3. \A x : CoveredBy(C, x) <=> CoveredBy(T, x) \/ (b[1] <= x /\ x < b[2])
  BY DEF CoveredBy
<1>4. new \in Accumulators
  BY <1>1, <1>2 DEF Accumulators, Ranges
<1>5. /\ Window[1] <= new.cursor
      /\ \A a \in C : a[2] <= new.cursor
  BY <1>1, <1>2
<1>6. new.cursor = Window[1] \/ CoveredBy(C, new.cursor - 1)
  <2>1. CASE new.cursor = acc.cursor
    BY <1>3, <2>1 DEF Swept
  <2>2. CASE new.cursor = b[2]
    <3>1. b[1] <= b[2] - 1 /\ b[2] - 1 < b[2]
      BY <1>1
    <3> QED
      BY <1>3, <2>2, <3>1
  <2> QED
    BY <1>2, <2>1, <2>2
<1>7. ASSUME NEW slot \in acc.free PROVE SlotBeside(slot, C)
  <2>1. SlotBeside(slot, T) /\ slot[1] \in Int /\ slot[2] \in Int
    BY <1>7 DEF Swept, SlotBeside, Ranges
  <2>2. slot[2] <= b[1]
    BY <1>1, <2>1 DEF SlotBeside
  <2>3. \A x \in Int : slot[1] <= x /\ x < slot[2] => ~CoveredBy(C, x)
    <3> SUFFICES ASSUME NEW x \in Int, slot[1] <= x, x < slot[2] PROVE ~CoveredBy(C, x)
      OBVIOUS
    <3>1. ~CoveredBy(T, x)
      BY <2>1 DEF SlotBeside
    <3>2. ~(b[1] <= x)
      BY <1>1, <2>1, <2>2
    <3> QED
      BY <1>3, <3>1, <3>2
  <2> QED
    BY <1>3, <2>1, <2>3 DEF SlotBeside
<1>8. ASSUME b[1] > acc.cursor PROVE SlotBeside(<<acc.cursor, b[1]>>, C)
  <2> DEFINE slot == <<acc.cursor, b[1]>>
  <2>1. /\ slot \in Ranges /\ slot[1] = acc.cursor /\ slot[2] = b[1]
        /\ Window[1] <= acc.cursor /\ acc.cursor < b[1]
    BY <1>1, <1>8 DEF Ranges
  <2> HIDE DEF slot
  <2>2. acc.cursor = Window[1] \/ CoveredBy(C, acc.cursor - 1)
    BY <1>3 DEF Swept
  <2>3. \A x \in Int : acc.cursor <= x => ~CoveredBy(T, x)
    BY <1>1 DEF CoveredBy
  <2>4. ASSUME NEW x \in Int, acc.cursor <= x, x < b[1] PROVE ~CoveredBy(C, x)
    <3>1. ~CoveredBy(T, x) /\ ~(b[1] <= x)
      BY <1>1, <2>3, <2>4
    <3> QED
      BY <1>3, <3>1
  <2>5. SlotBeside(slot, C)
    BY <2>1, <2>2, <2>4 DEF SlotBeside
  <2> QED
    BY <2>5 DEF slot
<1>9. ASSUME NEW x \in Int, Window[1] <= x, x < new.cursor
      PROVE  CoveredBy(new.free, x) \/ CoveredBy(C, x)
  <2>1. CASE x < acc.cursor
    <3>1. CoveredBy(acc.free, x) => CoveredBy(new.free, x)
      BY <1>2 DEF CoveredBy
    <3> QED
      BY <1>3, <1>9, <2>1, <3>1 DEF Swept
  <2>2. CASE acc.cursor <= x /\ b[1] <= x
    BY <1>1, <1>2, <1>3, <1>9, <2>2
  <2>3. CASE acc.cursor <= x /\ x < b[1]
    <3>1. <<acc.cursor, b[1]>> \in new.free
      BY <1>1, <1>2, <2>3
    <3> QED
      BY <2>3, <3>1 DEF CoveredBy
  <2> QED
    BY <1>1, <2>1, <2>2, <2>3
<1>10. \A slot \in new.free : SlotBeside(slot, C)
  BY <1>2, <1>7, <1>8
<1>11. Swept(new, C)
  BY <1>4, <1>5, <1>6, <1>9, <1>10 DEF Swept
<1> QED
  BY <1>11 DEF new

LEMMA SweepAll ==
  ASSUME NEW ranges \in SUBSET Ranges, IsFiniteSet(ranges), \A b \in ranges : b[1] < b[2],
         NEW f, \A T \in SUBSET ranges :
                    f[T] = IF T = {} THEN [cursor |-> Window[1], free |-> {}]
                           ELSE Advance(f[T \ {Latest(T)}], Latest(T))
  PROVE  Swept(f[ranges], ranges)
<1> DEFINE base == [cursor |-> Window[1], free |-> {}]
<1>1. \A T \in SUBSET ranges : IsFiniteSet(T)
  BY FS_Subset
<1>2. \A b \in ranges : b \in Ranges /\ b[1] < b[2]
  OBVIOUS
<1> DEFINE P == {T \in SUBSET ranges : Swept(f[T], T)}
<1>3. ASSUME NEW T \in SUBSET ranges, \A b \in T : T \ {b} \in P PROVE T \in P
  <2>1. CASE T = {}
    <3>1. f[T] = base
      BY <2>1
    <3>2. base.cursor = Window[1] /\ base.free = {}
      OBVIOUS
    <3>3. Swept(base, {})
      BY <3>2, WindowIs DEF Swept, CoveredBy, Accumulators
    <3> QED
      BY <2>1, <3>1, <3>3
  <2>2. CASE T # {}
    <3> DEFINE b == Latest(T)
    <3>1. b \in T /\ \A a \in T : a[1] <= b[1]
      BY <1>1, <1>2, <2>2, LatestIs
    <3>2. Swept(f[T \ {b}], T \ {b})
      BY <1>3, <3>1
    <3>3. f[T] = Advance(f[T \ {b}], b)
      BY <2>2
    <3> HIDE DEF b
    <3>4. /\ b \in Ranges /\ b[1] < b[2] /\ T \ {b} \in SUBSET Ranges
          /\ \A a \in T \ {b} : a[1] <= b[1]
          /\ (T \ {b}) \cup {b} = T
      BY <1>2, <3>1
    <3>5. Swept(Advance(f[T \ {b}], b), T)
      BY <3>2, <3>4, SweepStep
    <3> QED
      BY <3>3, <3>5
  <2> QED
    BY <2>1, <2>2
<1> HIDE DEF P
<1>4. SUBSET ranges \subseteq P
  BY <1>3, SubsetInduction
<1> QED
  BY <1>4 DEF P

\* The slots of a set of busy ranges.
LEMMA SlotsOf ==
  ASSUME NEW busy \in SUBSET Ranges, IsFiniteSet(busy)
  PROVE  \E acc : /\ Swept(acc, {b \in busy : b[2] > b[1]})
                  /\ ExtractFreeSlots(busy) =
                        acc.free \cup (IF acc.cursor < Window[2]
                                       THEN {<<acc.cursor, Window[2]>>} ELSE {})
<1> DEFINE ranges == {b \in busy : b[2] > b[1]}
           base == [cursor |-> Window[1], free |-> {}]
           Fold(f) == f = [T \in SUBSET ranges |->
                              IF T = {} THEN base
                              ELSE LET b == Latest(T) IN Advance(f[T \ {b}], b)]
           Folded == CHOOSE f : Fold(f)
           op == [p \in Accumulators \X ranges |-> Advance(p[1], p[2])]
           ch == [T \in SUBSET ranges |-> Latest(T)]
<1>1. ExtractFreeSlots(busy) =
          Folded[ranges].free \cup (IF Folded[ranges].cursor < Window[2]
                                    THEN {<<Folded[ranges].cursor, Window[2]>>} ELSE {})
  BY DEF ExtractFreeSlots, MapThenFoldSet
<1>2. /\ ranges \in SUBSET Ranges /\ IsFiniteSet(ranges)
      /\ \A b \in ranges : b[1] \in Int /\ b[2] \in Int /\ b[1] < b[2]
  BY FS_Subset DEF Ranges
<1>3. base \in Accumulators
  BY WindowIs DEF Accumulators
<1>4. op \in [Accumulators \X ranges -> Accumulators]
  <2> SUFFICES ASSUME NEW acc \in Accumulators, NEW b \in ranges PROVE Advance(acc, b) \in Accumulators
    OBVIOUS
  <2>1. acc.cursor \in Int /\ acc.free \in SUBSET Ranges /\ b[1] \in Int /\ b[2] \in Int
    BY <1>2 DEF Accumulators
  <2> HIDE DEF ranges
  <2> QED
    BY <2>1 DEF Advance, Accumulators, Ranges
<1>5. \A T \in SUBSET ranges : IsFiniteSet(T) /\ (T # {} => ch[T] = Latest(T) /\ ch[T] \in T)
  BY <1>2, FS_Subset, LatestIs
<1>6. \A acc \in Accumulators, b \in ranges : op[<<acc, b>>] = Advance(acc, b)
  OBVIOUS
<1> HIDE DEF ranges, base, op, ch
<1>7. PICK g \in [SUBSET ranges -> Accumulators] : Recursive(g, ranges, base, op, ch)
  BY <1>2, <1>3, <1>4, <1>5, RecursionExists
<1>8. Fold(g)
  <2>1. ASSUME NEW T \in SUBSET ranges, T # {}
        PROVE  g[T] = Advance(g[T \ {Latest(T)}], Latest(T))
    <3>1. g[T] = op[<<g[T \ {ch[T]}], ch[T]>>]
      BY <1>7, <2>1 DEF Recursive
    <3>2. g[T \ {ch[T]}] \in Accumulators /\ ch[T] \in ranges
      BY <1>5, <1>7, <2>1
    <3> QED
      BY <1>5, <1>6, <2>1, <3>1, <3>2
  <2>2. g[{}] = base
    BY <1>7 DEF Recursive
  <2> QED
    BY <2>1, <2>2
<1> HIDE DEF Fold
<1>9. Fold(Folded)
  BY <1>8
<1> HIDE DEF Folded
<1>10. \A T \in SUBSET ranges :
          Folded[T] = IF T = {} THEN base ELSE Advance(Folded[T \ {Latest(T)}], Latest(T))
  BY <1>9 DEF Fold
<1>11. Swept(Folded[ranges], ranges)
  BY <1>2, <1>10, SweepAll DEF base
<1> QED
  BY <1>1, <1>11 DEF ranges

\* What is free is not busy, begins where something ends, and leaves nothing out.
SlotsOfBusy(slots, busy) ==
    /\ \A slot \in slots :
          /\ slot[1] \in Int /\ slot[2] \in Int
          /\ Window[1] <= slot[1] /\ slot[1] < slot[2] /\ slot[1] < Window[2]
          /\ slot[1] = Window[1] \/ CoveredBy(busy, slot[1] - 1)
          /\ \A x \in Int : slot[1] <= x /\ x < slot[2] => ~CoveredBy(busy, x)
    /\ \A x \in Int : Window[1] <= x /\ x < Window[2] => CoveredBy(slots, x) \/ CoveredBy(busy, x)

LEMMA SlotsAreFree ==
  ASSUME NEW busy \in SUBSET Ranges, IsFiniteSet(busy), \A b \in busy : b[1] < Window[2]
  PROVE  SlotsOfBusy(ExtractFreeSlots(busy), busy)
<1> DEFINE ranges == {b \in busy : b[2] > b[1]}
           slots == ExtractFreeSlots(busy)
<1>1. PICK acc : /\ Swept(acc, ranges)
                 /\ slots = acc.free \cup (IF acc.cursor < Window[2]
                                           THEN {<<acc.cursor, Window[2]>>} ELSE {})
  BY SlotsOf
<1>2. \A x \in Int : CoveredBy(busy, x) <=> CoveredBy(ranges, x)
  BY DEF CoveredBy, Ranges
<1>3. /\ acc.cursor \in Int /\ Window[1] \in Int /\ Window[2] \in Int /\ Window[1] <= acc.cursor
      /\ \A b \in ranges : b[1] \in Int /\ b[2] \in Int /\ b[2] <= acc.cursor /\ b[1] < Window[2]
  BY <1>1, WindowIs DEF Swept, Accumulators, Ranges
<1> HIDE DEF ranges, slots
<1>4. ASSUME NEW slot \in acc.free
      PROVE  /\ slot[1] \in Int /\ slot[2] \in Int
             /\ Window[1] <= slot[1] /\ slot[1] < slot[2] /\ slot[1] < Window[2]
             /\ slot[1] = Window[1] \/ CoveredBy(busy, slot[1] - 1)
             /\ \A x \in Int : slot[1] <= x /\ x < slot[2] => ~CoveredBy(busy, x)
  <2>1. SlotBeside(slot, ranges) /\ slot[1] \in Int /\ slot[2] \in Int
    BY <1>1, <1>4 DEF Swept, SlotBeside, Ranges
  <2>2. slot[1] < Window[2] /\ slot[1] - 1 \in Int
    BY <1>3, <2>1 DEF SlotBeside
  <2> QED
    BY <1>2, <2>1, <2>2 DEF SlotBeside
<1>5. acc.cursor = Window[1] \/ CoveredBy(busy, acc.cursor - 1)
  <2>1. acc.cursor - 1 \in Int
    BY <1>3
  <2> QED
    BY <1>1, <1>2, <2>1 DEF Swept
<1>6. ASSUME NEW x \in Int, acc.cursor <= x PROVE ~CoveredBy(busy, x)
  BY <1>2, <1>3, <1>6 DEF CoveredBy
<1>7. ASSUME NEW x \in Int, Window[1] <= x, x < Window[2]
      PROVE  CoveredBy(slots, x) \/ CoveredBy(busy, x)
  <2>1. CASE x < acc.cursor
    <3>1. CoveredBy(acc.free, x) => CoveredBy(slots, x)
      BY <1>1 DEF CoveredBy
    <3> QED
      BY <1>1, <1>2, <1>7, <2>1, <3>1 DEF Swept
  <2>2. CASE acc.cursor <= x
    <3>1. <<acc.cursor, Window[2]>> \in slots
      BY <1>1, <1>3, <1>7, <2>2
    <3> QED
      BY <1>7, <2>2, <3>1 DEF CoveredBy
  <2> QED
    BY <1>3, <2>1, <2>2
<1>8. ASSUME NEW slot \in slots
      PROVE  /\ slot[1] \in Int /\ slot[2] \in Int
             /\ Window[1] <= slot[1] /\ slot[1] < slot[2] /\ slot[1] < Window[2]
             /\ slot[1] = Window[1] \/ CoveredBy(busy, slot[1] - 1)
             /\ \A x \in Int : slot[1] <= x /\ x < slot[2] => ~CoveredBy(busy, x)
  <2>1. CASE slot \in acc.free
    BY <1>4, <2>1
  <2>2. CASE slot = <<acc.cursor, Window[2]>> /\ acc.cursor < Window[2]
    <3>1. slot[1] = acc.cursor /\ slot[2] = Window[2]
      BY <2>2
    <3> QED
      BY <1>3, <1>5, <1>6, <2>2, <3>1
  <2> QED
    BY <1>1, <1>8, <2>1, <2>2
<1>9. SlotsOfBusy(slots, busy)
  BY <1>7, <1>8 DEF SlotsOfBusy
<1> QED
  BY <1>9 DEF slots

\* What a day offers.
LEMMA DayOffers ==
  ASSUME NEW d \in BuildDateOptions, Busy(d) \in SUBSET Ranges, IsFiniteSet(Busy(d))
  PROVE  LET busy == Busy(d)
             window == Window[1]..(Window[2] - 1)
         IN  /\ \A x \in window : CoveredBy(ExtractFreeSlots(busy), x) <=> ~CoveredBy(busy, x)
             /\ GetAvailableTimesAsync(d, "busy") =
                   {x \in window : /\ ~CoveredBy(busy, x)
                                   /\ x = Window[1] \/ CoveredBy(busy, x - 1)}
             /\ d \in GetAvailableDatesAsync("busy") <=> \E x \in window : ~CoveredBy(busy, x)
             /\ GetAvailableDatesAsync("error") = {}
<1> DEFINE busy == Busy(d)  slots == ExtractFreeSlots(busy)
           window == Window[1]..(Window[2] - 1)
           offered == CheckAvailability(d, "busy")
           starts == {x \in window : ~CoveredBy(busy, x) /\ (x = Window[1] \/ CoveredBy(busy, x - 1))}
<1>1. \A b \in busy : b[1] < Window[2]
  BY DEF Busy
<1>2. SlotsOfBusy(slots, busy)
  BY <1>1, SlotsAreFree
<1>3. offered = IF StartHour < EndHour THEN slots ELSE {}
  BY DEF CheckAvailability
<1>4. /\ GetAvailableTimesAsync(d, "busy") = {slot[1] : slot \in {x \in offered : x[1] < Window[2]}}
      /\ d \in GetAvailableDatesAsync("busy") <=> offered # {}
  BY DEF GetAvailableTimesAsync, GetAvailableDatesAsync
<1>5. GetAvailableDatesAsync("error") = {}
  BY DEF GetAvailableDatesAsync, CheckAvailability
<1>6. Window[1] \in Int /\ Window[2] \in Int /\ (StartHour < EndHour <=> Window[1] < Window[2])
  BY WindowIs
<1> HIDE DEF busy, slots, offered
<1>7. \A x \in window : x \in Int /\ Window[1] <= x /\ x < Window[2] /\ x - 1 \in Int
  BY <1>6
<1>8. \A x \in window : CoveredBy(slots, x) <=> ~CoveredBy(busy, x)
  <2> SUFFICES ASSUME NEW x \in window PROVE CoveredBy(slots, x) <=> ~CoveredBy(busy, x)
    OBVIOUS
  <2>1. CoveredBy(slots, x) \/ CoveredBy(busy, x)
    BY <1>2, <1>7 DEF SlotsOfBusy
  <2>2. CoveredBy(slots, x) => ~CoveredBy(busy, x)
    BY <1>2, <1>7 DEF SlotsOfBusy, CoveredBy
  <2> QED
    BY <2>1, <2>2
<1>9. ASSUME NEW slot \in offered PROVE slot[1] \in starts /\ slot[1] < Window[2]
  <2>1. /\ slot[1] \in Int /\ slot[2] \in Int
        /\ Window[1] <= slot[1] /\ slot[1] < slot[2] /\ slot[1] < Window[2]
        /\ slot[1] = Window[1] \/ CoveredBy(busy, slot[1] - 1)
        /\ \A x \in Int : slot[1] <= x /\ x < slot[2] => ~CoveredBy(busy, x)
    BY <1>2, <1>3, <1>9 DEF SlotsOfBusy
  <2>2. slot[1] \in window /\ ~CoveredBy(busy, slot[1])
    BY <1>6, <2>1
  <2> QED
    BY <2>1, <2>2
<1>10. ASSUME NEW x \in window, ~CoveredBy(busy, x)
       PROVE  \E slot \in offered : slot[1] <= x /\ x < slot[2]
  <2>1. StartHour < EndHour
    BY <1>6, <1>7
  <2> QED
    BY <1>3, <1>8, <1>10, <2>1 DEF CoveredBy
<1>11. ASSUME NEW x \in starts PROVE \E slot \in offered : slot[1] = x
  <2>1. PICK slot \in offered : slot[1] <= x /\ x < slot[2]
    BY <1>10
  <2>2. /\ slot[1] \in Int /\ slot[2] \in Int /\ Window[1] <= slot[1]
        /\ \A y \in Int : slot[1] <= y /\ y < slot[2] => ~CoveredBy(busy, y)
    BY <1>2, <1>3, <2>1 DEF SlotsOfBusy
  <2>3. x \in Int /\ x - 1 \in Int /\ (x = Window[1] \/ CoveredBy(busy, x - 1))
    BY <1>7
  <2>4. CASE slot[1] < x
    <3>1. slot[1] <= x - 1 /\ x - 1 < slot[2] /\ x # Window[1]
      BY <1>6, <2>1, <2>2, <2>3, <2>4
    <3> QED
      BY <2>2, <2>3, <3>1
  <2> QED
    BY <2>1, <2>2, <2>3, <2>4
<1>12. {slot[1] : slot \in {x \in offered : x[1] < Window[2]}} = starts
  BY <1>9, <1>11
<1>13. offered # {} <=> \E x \in window : ~CoveredBy(busy, x)
  BY <1>9, <1>10
<1> QED
  BY <1>4, <1>5, <1>8, <1>12, <1>13 DEF busy, slots

----------------------------------------------------------------------------
(* The times: every number that gets into a form, into its handler and from *)
(* there into the calendar is one.                                          *)

Timed(f) == f.times \subseteq Int /\ f.data.time \in Int

TimesInv ==
    /\ IsFiniteSet(outside) /\ outside \in SUBSET Ranges
    /\ \A u \in Users : Timed(form[u]) /\ task[u].params.time \in Int
    /\ \A ev \in events : ev.time \in Int

LEMMA HoursAreTimes == Blank \in Int /\ Fields.time = Blank /\ BuildTimeOptions \subseteq Int
  BY AppointmentsAssumption DEF AppointmentsAssumption, Blank, Fields, BuildTimeOptions

LEMMA ShownIsTimed ==
  ASSUME NEW screen, NEW p, p.time \in Int PROVE Timed(Show(screen, p))
  BY DEF Timed, Show

LEMMA TimesInit == Init => TimesInv
<1> SUFFICES ASSUME Init PROVE TimesInv
  OBVIOUS
<1>1. outside \in Outside /\ events = {}
  BY DEF Init
<1>2. IsFiniteSet(outside) /\ outside \in SUBSET Ranges
  BY <1>1, AppointmentsAssumption DEF AppointmentsAssumption, Ranges
<1>3. ASSUME NEW u \in Users PROVE Timed(form[u]) /\ task[u].params.time \in Int
  <2>1. form[u] = NoForm /\ task[u].params = Fields
    BY IdleIsTask DEF Init
  <2> QED
    BY <2>1, HoursAreTimes, ShownIsTimed DEF NoForm
<1> QED
  BY <1>1, <1>2, <1>3 DEF TimesInv

\* The data of a request and what it may ask for.
Asks(req) ==
    /\ IsFields(req.data) /\ req.data.time \in Int
    /\ req.trigger \in {"", "vertical_selected", "date_selected"}

LEMMA RequestAsks ==
  ASSUME NEW action, NEW trigger \in {"", "vertical_selected", "date_selected"},
         NEW p, NEW fault, IsFields(p), p.time \in Int,
         NEW req, req = Request(action, trigger, p, fault)
  PROVE  Asks(req)
  BY DEF Asks, Request

LEMMA PhoneAsks ==
  ASSUME NEW f, IsForm(f), Timed(f), NEW req \in PhoneRequests(f)
  PROVE  Asks(req)
<1>1. IsFields(Fields) /\ Fields.time \in Int /\ IsFields(f.data) /\ f.data.time \in Int
  BY FieldsIsFields, HoursAreTimes DEF IsForm, Timed
<1>2. \/ req = Request("ping", "", Fields, "none")
      \/ req \in Openings \/ req \in Moves(f)
      \/ req \in VerticalChoices(f) \/ req \in DateChoices(f) \/ req \in TimeChoices(f)
  BY DEF PhoneRequests
<1>3. CASE req = Request("ping", "", Fields, "none")
  BY <1>1, <1>3, RequestAsks
<1>4. CASE req \in Openings
  <2>1. \E action, fault : req = Request(action, "", Fields, fault)
    BY <1>4 DEF Openings
  <2> QED
    BY <1>1, <2>1, RequestAsks
<1>5. CASE req \in Moves(f)
  <2>1. \E action, fault : \E p \in {f.data, Fields} : req = Request(action, "", p, fault)
    BY <1>5 DEF Moves
  <2> QED
    BY <1>1, <2>1, RequestAsks
<1>6. CASE req \in VerticalChoices(f)
  <2>1. PICK v : req = Request("data_exchange", "vertical_selected",
                               [f.data EXCEPT !.vertical = v], "none")
    BY <1>6 DEF VerticalChoices
  <2>2. IsFields([f.data EXCEPT !.vertical = v]) /\ [f.data EXCEPT !.vertical = v].time \in Int
    BY <1>1 DEF IsFields
  <2> QED
    BY <2>1, <2>2, RequestAsks
<1>7. CASE req \in DateChoices(f)
  <2>1. PICK d : req = Request("data_exchange", "date_selected",
                               [f.data EXCEPT !.date = d], "none")
    BY <1>7 DEF DateChoices
  <2>2. IsFields([f.data EXCEPT !.date = d]) /\ [f.data EXCEPT !.date = d].time \in Int
    BY <1>1 DEF IsFields
  <2> QED
    BY <2>1, <2>2, RequestAsks
<1>8. CASE req \in TimeChoices(f)
  <2>1. PICK t \in f.times, m \in {"", "online", "presencial"} :
            req = Request("data_exchange", "", [f.data EXCEPT !.time = t, !.mode = m], "none")
    BY <1>8 DEF TimeChoices
  <2>2. t \in Int
    BY DEF Timed
  <2>3. PICK p : p = [f.data EXCEPT !.time = t, !.mode = m]
    OBVIOUS
  <2>4. IsFields(p) /\ p.time = t
    BY <1>1, <2>3 DEF IsFields
  <2> QED
    BY <2>1, <2>2, <2>3, <2>4, RequestAsks
<1> QED
  BY <1>2, <1>3, <1>4, <1>5, <1>6, <1>7, <1>8

LEMMA AnswerIsTimed ==
  ASSUME NEW f, IsForm(f), Timed(f), NEW req, Asks(req)
  PROVE  Timed(HandleFlowEndpoint(f, req).form)
<1> DEFINE g == ProcessFlowLogic(f, req)
<1>1. HandleFlowEndpoint(f, req).form \in {f, g}
  BY EndpointAnswers
<1>2. IsFields(req.data) /\ req.data.time \in Int
  BY DEF Asks
<1>3. /\ ModeOr(req.data).time \in Int /\ ModeOr(Fields).time \in Int /\ Fields.time \in Int
  BY <1>2, ModeOrIs, FieldsIsFields, HoursAreTimes
<1>4. CASE req.action = "INIT"
  <2>1. g = Show("APPOINTMENT", ModeOr(Fields))
    BY <1>4 DEF ProcessFlowLogic
  <2> QED
    BY <1>1, <1>3, <2>1, ShownIsTimed
<1>5. CASE req.action # "INIT" /\ req.trigger = "vertical_selected"
  <2>1. g.times = {} /\ g.data = req.data
    BY <1>5 DEF ProcessFlowLogic, IsForm
  <2> QED
    BY <1>1, <1>2, <2>1 DEF Timed
<1>6. CASE req.action # "INIT" /\ req.trigger = "date_selected"
  <2>1. g.times = BuildTimeOptions /\ g.data = req.data
    BY <1>6 DEF ProcessFlowLogic, IsForm, GetAvailableTimes
  <2> QED
    BY <1>1, <1>2, <2>1, HoursAreTimes DEF Timed
<1>7. CASE req.action # "INIT" /\ req.trigger = ""
  <2>1. \/ g = Show("DETAILS", ModeOr(req.data))
        \/ g = Show("SUMMARY", ModeOr(req.data))
        \/ g = Show("SUCCESS", req.data)
        \/ g = Show("APPOINTMENT", Fields)
    BY <1>7 DEF ProcessFlowLogic
  <2> HIDE DEF g
  <2> QED
    BY <1>1, <1>2, <1>3, <2>1, ShownIsTimed
<1> QED
  BY <1>4, <1>5, <1>6, <1>7 DEF Asks

LEMMA TimesNext == Tasks /\ FormInv /\ TimesInv /\ [Next]_vars => TimesInv'
<1> SUFFICES ASSUME Tasks, FormInv, TimesInv, [Next]_vars PROVE TimesInv'
  OBVIOUS
<1>0. outside' = outside
  BY DEF Next, Exchange, Complete, Persist, Finish, Interrupt, Redeliver, CreateEvent,
         StoreEventId, kept, vars
<1>1. ASSUME NEW u \in Users, NEW req \in PhoneRequests(form[u]), Exchange(u, req)
      PROVE  TimesInv'
  <2>1. /\ form'[u] = HandleFlowEndpoint(form[u], req).form
        /\ \A v \in Users : v # u => form'[v] = form[v]
        /\ task' = task /\ events' = events
    BY <1>1 DEF Exchange, Tasks
  <2>2. IsForm(form[u]) /\ Timed(form[u])
    BY DEF FormInv, FormOf, TimesInv
  <2>3. Timed(form'[u])
    BY <2>1, <2>2, PhoneAsks, AnswerIsTimed
  <2>4. \A v \in Users : Timed(form'[v])
    BY <2>1, <2>3 DEF TimesInv
  <2> QED
    BY <1>0, <2>1, <2>4 DEF TimesInv
<1>2. ASSUME NEW u \in Users, NEW shape, Complete(u, shape) PROVE TimesInv'
  <2>1. /\ form' = form /\ events' = events /\ task'[u].params = form[u].data
        /\ \A v \in Users : v # u => task'[v] = task[v]
    BY <1>2 DEF Complete, Tasks
  <2>2. \A v \in Users : task'[v].params.time \in Int
    BY <2>1 DEF TimesInv, Timed
  <2> QED
    BY <1>0, <2>1, <2>2 DEF TimesInv
<1>3. ASSUME NEW u \in Users, form'[u] = NoForm, task'[u] \in {Idle, Lost}, events' = events,
             \A v \in Users : v # u => task'[v] = task[v] /\ form'[v] = form[v]
      PROVE  TimesInv'
  <2>1. Timed(NoForm) /\ task'[u].params.time \in Int
    BY <1>3, HoursAreTimes, ShownIsTimed, IdleIsTask DEF NoForm
  <2>2. \A v \in Users : Timed(form'[v]) /\ task'[v].params.time \in Int
    BY <1>3, <2>1 DEF TimesInv
  <2> QED
    BY <1>0, <1>3, <2>2 DEF TimesInv
<1>7. ASSUME NEW u \in Users, Finish(u) PROVE TimesInv'
  <2>1. /\ form'[u] = NoForm /\ task'[u] = Idle /\ events' = events
        /\ \A v \in Users : v # u => task'[v] = task[v] /\ form'[v] = form[v]
    BY <1>7 DEF Finish, CloseForm, Tasks
  <2> QED
    BY <1>3, <2>1
<1>8. ASSUME NEW u \in Users, NEW answered, Interrupt(u, answered) PROVE TimesInv'
  <2>1. /\ events' = events
        /\ \A v \in Users : v # u => task'[v] = task[v] /\ form'[v] = form[v]
        /\ \/ task'[u] = Lost /\ form'[u] = NoForm
           \/ form' = form /\ task'[u].params = task[u].params
    BY <1>8, Interrupted
  <2>2. CASE form' = form /\ task'[u].params = task[u].params
    BY <1>0, <2>1, <2>2 DEF TimesInv
  <2> QED
    BY <1>3, <2>1, <2>2
<1>4. ASSUME NEW u \in Users,
             Persist(u) \/ Redeliver(u) \/ \E ok \in BOOLEAN : StoreEventId(u, ok)
      PROVE  TimesInv'
  <2>1. /\ form' = form /\ events' = events
        /\ \A v \in Users : task'[v].params = task[v].params
    BY <1>4 DEF Persist, Redeliver, StoreEventId, Go, Tasks, Task
  <2> QED
    BY <1>0, <2>1 DEF TimesInv
<1>5. ASSUME NEW u \in Users, NEW o, CreateEvent(u, o) PROVE TimesInv'
  <2>1. /\ form' = form
        /\ events' = events \/ \E id : events' = events \cup {EventOf(u, id)}
    BY <1>5 DEF CreateEvent
  <2>2. PICK pc, n : task' = [task EXCEPT ![u].pc = pc, ![u].id = n]
    BY <1>5 DEF CreateEvent
  <2>3. \A v \in Users : task'[v].params = task[v].params
    BY <2>2 DEF Tasks, Task
  <2>4. \A id : EventOf(u, id).time \in Int
    BY DEF EventOf, TimesInv
  <2>5. \A ev \in events' : ev.time \in Int
    BY <2>1, <2>4 DEF TimesInv
  <2> QED
    BY <1>0, <2>1, <2>3, <2>5 DEF TimesInv
<1>6. CASE UNCHANGED vars
  BY <1>6 DEF vars, TimesInv
<1> QED
  BY <1>1, <1>2, <1>4, <1>5, <1>6, <1>7, <1>8 DEF Next

\* Whatever others have in the calendar and whatever was booked, a half hour is offered exactly
\* when it is free, a time where a free stretch begins, a date when there is one, and nothing
\* when the calendar does not answer (extract_free_slots, google_calendar_parsers.py).
THEOREM OffersWhatIsFree == Spec => []OfferedIsFree
<1>1. EventInv /\ TimesInv => OfferedIsFree
  <2> SUFFICES ASSUME EventInv, TimesInv, NEW d \in BuildDateOptions
               PROVE  Busy(d) \in SUBSET Ranges /\ IsFiniteSet(Busy(d))
    BY DayOffers DEF OfferedIsFree
  <2> DEFINE of == {ev \in events : ev.date = d}
             Slot(ev) == <<2 * ev.time, 2 * ev.time + 1>>
  <2>1. IsFiniteSet(of)
    BY FS_Subset DEF EventInv, Numbered
  <2>2. IsFiniteSet({Slot(ev) : ev \in of})
    <3> DEFINE f == [ev \in of |-> Slot(ev)]  T == {Slot(ev) : ev \in of}
    <3>1. f \in Surjection(of, T)
      BY DEF Surjection
    <3> HIDE DEF of, f
    <3> QED
      BY <2>1, <3>1, FS_Surjection
  <2>3. Ours(d) = {Slot(ev) : ev \in of}
    BY DEF Ours
  <2>4. \A ev \in of : Slot(ev) \in Ranges
    BY DEF TimesInv, Ranges
  <2>5. IsFiniteSet(outside \cup Ours(d)) /\ outside \cup Ours(d) \in SUBSET Ranges
    BY <2>2, <2>3, <2>4, FS_Union DEF TimesInv
  <2> QED
    BY <2>5, FS_Subset DEF Busy
<1> QED
  BY <1>1, TasksInit, TasksNext, EventInit, EventNext, FormInit, FormNext, TimesInit, TimesNext,
     PTL DEF Spec
=============================================================================

---------------------------- MODULE Appointments ----------------------------
(***************************************************************************)
(* Booking a meeting: the user fills in a WhatsApp Flow form, whose screens *)
(* the data-exchange endpoint answers (flows.py); the completed form comes *)
(* back as a message, is stored in Firestore and becomes an event of the   *)
(* Google calendar (appointment_handler.py, google_calendar_client.py).    *)
(* A completion whose handler fails is delivered again, a few times and    *)
(* only where messages are handled before Meta gets its answer.            *)
(*                                                                         *)
(* Hours are numbers, an empty field is Blank.  Within a day the calendar  *)
(* counts in half hours: hour h is the half hours 2*h and 2*h + 1, and an  *)
(* event of 30 minutes takes one.                                          *)
(***************************************************************************)
EXTENDS Integers, FiniteSets, Folds

CONSTANTS
    Users,
    Verticals,      \* the verticals a user chooses among
    Weekday,        \* weekday of the day the form is filled in, 0 is Monday
    DaysAhead,      \* days_ahead
    StartHour, EndHour,
    Outside,        \* what others may have in the calendar: sets of <<from, to>>, every day
    Configs,        \* the deployments: records [secret, key, calendar, inline]
    MaxDeliveries,  \* how often Meta delivers a message that is not answered
    MaxEvents,      \* bound: events the calendar takes
    MaxAppointments,\* bound: no form is opened once so many appointments are stored
    Answers         \* what the calendar answers to an insert, a subset of Outcomes

\* "lost": the event is made, its answer is a timeout or cannot be read.
Outcomes == {"ok", "error", "lost"}

ASSUME AppointmentsAssumption ==
    /\ {DaysAhead, StartHour, EndHour, MaxEvents, MaxAppointments, MaxDeliveries} \subseteq Nat
    /\ Configs \subseteq [secret : BOOLEAN, key : BOOLEAN, calendar : BOOLEAN, inline : BOOLEAN]
    /\ \A busy \in Outside : IsFiniteSet(busy) /\ busy \subseteq Int \X Int
    /\ Weekday \in 0..6 /\ Answers \subseteq Outcomes /\ "ok" \in Answers

VARIABLES
    config,     \* what the deployment configured; inline: WEBHOOK_PROCESSING_MODE
    outside,    \* busy ranges of the calendar that are not ours
    form,       \* user -> the form on the phone
    task,       \* user -> the handler of the completed form
    docs,       \* collection "appointments": <<wa_id, date, time>> -> record
    events,     \* events we inserted in the calendar
    \* what the outside saw
    chosen,     \* user -> what was chosen on the first screen of the form
    trouble     \* users a completion of whom was interrupted, repeated, or lost an answer

vars == <<config, outside, form, task, docs, events, chosen, trouble>>

Blank == -1
NoDoc == [mode |-> "none", event |-> 0]

Fields == [vertical |-> "", date |-> Blank, time |-> Blank, mode |-> ""]

----------------------------------------------------------------------------
(* Availability.                                                           *)

\* The weekdays among the next days, counted from the day of the request.
BuildDateOptions == {d \in 1..DaysAhead : (Weekday + d) % 7 < 5}

BuildTimeOptions == StartHour..(EndHour - 1)

\* The calendar's answer to freebusy: the busy ranges that meet the window.
Window == <<2 * StartHour, 2 * EndHour>>
Ours(d) == {<<2 * ev.time, 2 * ev.time + 1>> : ev \in {x \in events : x.date = d}}
Busy(d) == {b \in outside \cup Ours(d) : b[1] < Window[2] /\ Window[1] < b[2]}

Earlier(a, b) == a[1] < b[1] \/ (a[1] = b[1] /\ a[2] < b[2])
Latest(ranges) == CHOOSE b \in ranges : \A a \in ranges : ~Earlier(b, a)

\* Mutated form: the cursor follows the last range, not the furthest end.
AdvanceToLast(acc, b) ==
    [cursor |-> b[2],
     free |-> IF b[1] > acc.cursor THEN acc.free \cup {<<acc.cursor, b[1]>>} ELSE acc.free]

Advance(acc, b) ==
    [cursor |-> IF b[2] > acc.cursor THEN b[2] ELSE acc.cursor,
     free |-> IF b[1] > acc.cursor THEN acc.free \cup {<<acc.cursor, b[1]>>} ELSE acc.free]

\* The ranges are swept in their order, each after those that are earlier.
ExtractFreeSlots(busy) ==
    LET ranges == {b \in busy : b[2] > b[1]}
        swept == MapThenFoldSet(LAMBDA b, acc : Advance(acc, b),
                                [cursor |-> Window[1], free |-> {}],
                                LAMBDA b : b, Latest, ranges)
    IN  swept.free \cup (IF swept.cursor < Window[2] THEN {<<swept.cursor, Window[2]>>} ELSE {})

\* What the calendar may answer: its busy ranges, an error, or an entry without ranges for a
\* calendar it does not know.  An error reads as a full day, the entry as an empty one.
CheckAvailability(d, answer) ==
    CASE answer = "error" -> {}
      [] answer = "unknown_calendar" -> ExtractFreeSlots({})
      [] answer = "busy" -> IF StartHour < EndHour THEN ExtractFreeSlots(Busy(d)) ELSE {}

\* With a calendar a date is enabled when it has a free slot, and the times are the starts
\* of the free slots.
GetAvailableDatesAsync(answer) == {d \in BuildDateOptions : CheckAvailability(d, answer) # {}}
GetAvailableTimesAsync(d, answer) ==
    {slot[1] : slot \in {x \in CheckAvailability(d, answer) : x[1] < Window[2]}}

\* A synchronous caller inside a running event loop gets the options of a deployment
\* without a calendar.
RunAsyncOrFallback(inLoop, called, fallback) == IF inLoop THEN fallback ELSE called

GetAvailableDates(calendar, inLoop, answer) ==
    IF ~calendar THEN BuildDateOptions
    ELSE RunAsyncOrFallback(inLoop, GetAvailableDatesAsync(answer), BuildDateOptions)
GetAvailableTimes(calendar, inLoop, d, answer) ==
    IF ~calendar \/ d = Blank THEN BuildTimeOptions
    ELSE RunAsyncOrFallback(inLoop, GetAvailableTimesAsync(d, answer), BuildTimeOptions)

----------------------------------------------------------------------------
(* The endpoint: one request, one answer, no state kept.                   *)

Screens == {"APPOINTMENT", "DETAILS", "SUMMARY", "SUCCESS"}
\* What can be wrong with a request before its content is looked at.
Faults == {"none", "unsigned", "garbled", "base64", "aes_key", "tampered", "not_an_object"}

\* Mutated form: the mode the user chose is overwritten by the suggested one.
ModeOrSuggested(data) == [data EXCEPT !.mode = "presencial"]

ModeOr(data) == IF data.mode = "" THEN [data EXCEPT !.mode = "presencial"] ELSE data

Show(screen, data) == [screen |-> screen, data |-> data, dates |-> {}, times |-> {}]

\* The form f as the answer leaves it; BACK is answered as data_exchange is, and the options
\* are those of no calendar and no date.
ProcessFlowLogic(f, req) ==
    CASE req.action = "INIT" -> Show("APPOINTMENT", ModeOr(Fields))
      [] req.action # "INIT" /\ req.trigger = "vertical_selected" ->
            [f EXCEPT !.data = req.data, !.dates = GetAvailableDates(FALSE, TRUE, "busy"), !.times = {}]
      [] req.action # "INIT" /\ req.trigger = "date_selected" ->
            [f EXCEPT !.data = req.data, !.times = GetAvailableTimes(FALSE, TRUE, Blank, "busy")]
      [] req.action # "INIT" /\ req.trigger = "" ->
            CASE f.screen = "APPOINTMENT" -> Show("DETAILS", ModeOr(req.data))
              [] f.screen = "DETAILS" -> Show("SUMMARY", ModeOr(req.data))
              [] f.screen = "SUMMARY" -> Show("SUCCESS", req.data)
              [] OTHER -> Show("APPOINTMENT", Fields)

NoForm == Show("", Fields)

Refused(f, code) == [status |-> code, form |-> f]

RouteFlowAction(f, req) ==
    CASE req.action = "ping" -> [status |-> 200, form |-> f]
      [] req.action \in {"INIT", "data_exchange", "BACK"} ->
            [status |-> 200, form |-> ProcessFlowLogic(f, req)]
      [] OTHER -> Refused(f, 400)

DecodeBase64(req) == req.fault # "base64"
DecryptAesKey(req) == req.fault # "aes_key"
DecryptFlowRequest(req) ==
    /\ DecodeBase64(req) /\ DecryptAesKey(req)
    /\ req.fault \notin {"tampered", "not_an_object"}
ParseEncryptedBody(req) == req.fault # "garbled"
ValidateFlowSignature(req) == req.fault # "unsigned"

HandleFlowEndpoint(f, req) ==
    IF ~config.secret THEN Refused(f, 503)
    ELSE IF ~ValidateFlowSignature(req) THEN Refused(f, 401)
    ELSE IF ~config.key THEN Refused(f, 503)
    ELSE IF ~ParseEncryptedBody(req) THEN Refused(f, 400)
    ELSE IF ~DecryptFlowRequest(req) THEN Refused(f, 421)
    ELSE RouteFlowAction(f, req)

----------------------------------------------------------------------------

\* A handler that ended, or that was lost: nothing is left of it, and nothing delivers the
\* completion again.
Ended(pc) == [pc |-> pc, readable |-> FALSE, params |-> Fields, id |-> 0, runs |-> 0]
Idle == Ended("idle")
Lost == Ended("lost")
NotRunning == {"idle", "lost"}

Init ==
    /\ config \in Configs
    /\ outside \in Outside
    /\ form = [u \in Users |-> NoForm]
    /\ task = [u \in Users |-> Idle]
    /\ docs = <<>>
    /\ events = {}
    /\ chosen = [u \in Users |-> Fields]
    /\ trouble = {}

kept == <<config, outside>>

\* The requests a phone makes: it opens the form, asks for options, sends the next screen or
\* the one it goes back to, and the platform pings.  A form is opened when the last is done.
Request(action, trigger, data, fault) ==
    [action |-> action, trigger |-> trigger, data |-> data, fault |-> fault]

Openings ==
    {Request("INIT", "", Fields, x) : x \in Faults} \cup {Request("navigate", "", Fields, "none")}
Moves(f) == {Request("data_exchange", "", f.data, "none"), Request("BACK", "", Fields, "none")}
VerticalChoices(f) ==
    {Request("data_exchange", "vertical_selected", [f.data EXCEPT !.vertical = v], "none") :
        v \in Verticals}
DateChoices(f) ==
    {Request("data_exchange", "date_selected", [f.data EXCEPT !.date = d], "none") : d \in f.dates}
TimeChoices(f) ==
    UNION {{Request("data_exchange", "", [f.data EXCEPT !.time = t, !.mode = m], "none") :
               t \in f.times} : m \in {"", "online", "presencial"}}

PhoneRequests(f) ==
    {Request("ping", "", Fields, "none")}
    \cup (IF f.screen = "" /\ Cardinality(DOMAIN docs) < MaxAppointments THEN Openings ELSE {})
    \cup (IF f.screen \in {"DETAILS", "SUMMARY"} THEN Moves(f) ELSE {})
    \cup (IF f.screen = "APPOINTMENT"
          THEN VerticalChoices(f) \cup DateChoices(f) \cup TimeChoices(f) ELSE {})

Exchange(u, req) ==
    /\ form' = [form EXCEPT ![u] = HandleFlowEndpoint(form[u], req).form]
    /\ chosen' = IF form[u].screen = "APPOINTMENT" /\ form'[u].screen = "DETAILS"
                 THEN [chosen EXCEPT ![u] = req.data] ELSE chosen
    /\ UNCHANGED <<kept, task, docs, events, trouble>>

----------------------------------------------------------------------------
(* The completed form, handled as a message of the user.                   *)

\* The answer of the last screen comes back whole, under "params" or under
\* "extension_message_response", or it cannot be read.
Shapes == {"bare", "params", "extension", "garbled"}
ParseFlowCompletionPayload(shape) == shape # "garbled"

\* save_appointment_from_flow: nothing is stored of a payload that cannot be read.
Complete(u, shape) ==
    /\ form[u].screen = "SUCCESS" /\ task[u].pc \in NotRunning
    /\ task' = [task EXCEPT ![u] =
                    [pc |-> IF ParseFlowCompletionPayload(shape) THEN "persist" ELSE "rest",
                     readable |-> ParseFlowCompletionPayload(shape),
                     params |-> form[u].data, id |-> 0, runs |-> 1]]
    /\ UNCHANGED <<kept, form, docs, events, chosen, trouble>>

NormalizeMeetingMode(mode) == IF mode \in {"online", "presencial"} THEN mode ELSE "presencial"

\* Mutated form: one document for the meetings of a day.
AppointmentDocIdOfDay(u, p) == <<u, p.date, Blank>>

AppointmentDocId(u, p) == <<u, p.date, p.time>>

DocOf(u) == AppointmentDocId(u, task[u].params)
Stored(id) == IF id \in DOMAIN docs THEN docs[id] ELSE NoDoc
Put(id, doc) == [k \in DOMAIN docs \cup {id} |-> IF k = id THEN doc ELSE docs[k]]

BuildAppointmentRecord(p) == [mode |-> NormalizeMeetingMode(p.mode)]

Go(u, pc) == task' = [task EXCEPT ![u].pc = pc]

\* set(merge=True): the id of an event that is there already stays.
Persist(u) ==
    /\ task[u].pc = "persist"
    /\ docs' = Put(DocOf(u), [mode |-> BuildAppointmentRecord(task[u].params).mode,
                              event |-> Stored(DocOf(u)).event])
    /\ Go(u, IF config.calendar THEN "insert" ELSE "rest")
    /\ trouble' = IF DocOf(u) \in DOMAIN docs THEN trouble \cup {u} ELSE trouble
    /\ UNCHANGED <<kept, form, events, chosen>>

EventOf(u, id) == [id |-> id, user |-> u, date |-> task[u].params.date,
                   time |-> task[u].params.time]

\* Mutated form: an error of the calendar fails the message.
OnCalendarErrorRaise == "failed"

OnCalendarError == "rest"

\* create_event: without a date and a time it raises; what it raises is logged and swallowed.
\* The calendar takes MaxEvents events.
CreateEvent(u, o) ==
    /\ task[u].pc = "insert"
    /\ LET p == task[u].params
           id == Cardinality(events) + 1
           made == p.date # Blank /\ p.time # Blank /\ o # "error" /\ id <= MaxEvents
       IN  /\ events' = IF made THEN events \cup {EventOf(u, id)} ELSE events
           /\ task' = [task EXCEPT ![u].pc = IF made /\ o = "ok" THEN "store" ELSE OnCalendarError,
                                   ![u].id = IF made /\ o = "ok" THEN id ELSE 0]
           /\ trouble' = IF o # "ok" THEN trouble \cup {u} ELSE trouble
    /\ UNCHANGED <<kept, form, docs, chosen>>

\* The id of the event is merged into the record; a failure is swallowed as well.
StoreEventId(u, ok) ==
    /\ task[u].pc = "store"
    /\ docs' = IF ok THEN Put(DocOf(u), [Stored(DocOf(u)) EXCEPT !.event = task[u].id]) ELSE docs
    /\ trouble' = IF ok THEN trouble ELSE trouble \cup {u}
    /\ task' = [task EXCEPT ![u].pc = "rest", ![u].id = 0]
    /\ UNCHANGED <<kept, form, events, chosen>>

\* The user may start another form.
CloseForm(u) ==
    /\ form' = [form EXCEPT ![u] = NoForm]
    /\ chosen' = [chosen EXCEPT ![u] = Fields]

\* The card, the history and the session are saved, the message is marked.
Finish(u) ==
    /\ task[u].pc = "rest"
    /\ task' = [task EXCEPT ![u] = Idle]
    /\ CloseForm(u)
    /\ UNCHANGED <<kept, docs, events, trouble>>

\* A failure of Firestore or of the session store, or a stop of the process, at any point.
\* In the async mode Meta was answered before the handler began.  Inline it is answered all
\* the same when the error is a ValueError, or when a delivery finds the lock that the handler
\* left behind; otherwise it delivers again, until it gives up.
Interrupt(u, answered) ==
    /\ task[u].pc \in {"persist", "insert", "store", "rest"}
    /\ answered \/ config.inline
    /\ IF answered \/ task[u].runs = MaxDeliveries
       THEN task' = [task EXCEPT ![u] = Lost] /\ CloseForm(u)
       ELSE /\ task' = [task EXCEPT ![u].pc = "failed", ![u].id = 0]
            /\ UNCHANGED <<form, chosen>>
    /\ trouble' = trouble \cup {u}
    /\ UNCHANGED <<kept, docs, events>>

Redeliver(u) ==
    /\ task[u].pc = "failed"
    /\ config.inline /\ task[u].runs < MaxDeliveries
    /\ task' = [task EXCEPT ![u].pc = IF task[u].readable THEN "persist" ELSE "rest",
                            ![u].runs = @ + 1]
    /\ UNCHANGED <<kept, form, docs, events, chosen, trouble>>

Next ==
    \E u \in Users :
        \/ \E req \in PhoneRequests(form[u]) : Exchange(u, req)
        \/ \E s \in Shapes : Complete(u, s)
        \/ Persist(u) \/ Finish(u) \/ Redeliver(u)
        \/ \E answered \in BOOLEAN : Interrupt(u, answered)
        \/ \E o \in Answers : CreateEvent(u, o)
        \/ \E ok \in BOOLEAN : StoreEventId(u, ok)

Spec == Init /\ [][Next]_vars

\* A handler that is not cut short goes on, and Meta repeats, at most so many times, what it
\* has no answer to.  Neither the calendar nor the user owes anything.
FairSpec ==
    /\ Spec
    /\ \A u \in Users :
          /\ WF_vars(Redeliver(u)) /\ WF_vars(Persist(u)) /\ WF_vars(Finish(u))
          /\ WF_vars(\E o \in Answers : CreateEvent(u, o))
          /\ WF_vars(\E ok \in BOOLEAN : StoreEventId(u, ok))

----------------------------------------------------------------------------
(* Properties.                                                             *)

\* What a calendar offers is what is free in it: a half hour of the window lies in a free
\* slot exactly when no busy range covers it, however the ranges overlap; a time is offered
\* where a free stretch begins; a failing call offers nothing (extract_free_slots,
\* appointment_availability.py).
CoveredBy(ranges, x) == \E b \in ranges : b[1] <= x /\ x < b[2]

OfferedIsFree ==
    \A d \in BuildDateOptions :
        LET busy == Busy(d)
            window == Window[1]..(Window[2] - 1)
        IN  /\ \A x \in window : CoveredBy(ExtractFreeSlots(busy), x) <=> ~CoveredBy(busy, x)
            /\ GetAvailableTimesAsync(d, "busy") =
                  {x \in window : /\ ~CoveredBy(busy, x)
                                  /\ x = Window[1] \/ CoveredBy(busy, x - 1)}
            /\ d \in GetAvailableDatesAsync("busy") <=> \E x \in window : ~CoveredBy(busy, x)
            /\ GetAvailableDatesAsync("error") = {}

\* What is stored is what the user chose on the first screen, three requests and a message
\* earlier: its date, its time and its meeting mode, whether the handler runs for the first
\* time or again (flows.py, appointment_handler.py).  A form completed by going back names
\* no date and is stored without one.
BookedAsChosen ==
    \A u \in Users :
        task[u].pc \in {"insert", "store"} /\ task[u].params.date # Blank =>
            /\ AppointmentDocId(u, chosen[u]) \in DOMAIN docs
            /\ docs[AppointmentDocId(u, chosen[u])].mode =
                  IF chosen[u].mode = "" THEN "presencial" ELSE chosen[u].mode

\* An event of the calendar that no record names, one that nobody can cancel, is left behind
\* only by a completion that was interrupted or repeated or lost an answer; otherwise each
\* event is named by the record of its user and its slot, or its handler is about to.
EventsAccountedFor ==
    \A ev \in events :
        \/ ev.user \in trouble
        \/ task[ev.user].pc = "store" /\ task[ev.user].id = ev.id
        \/ /\ <<ev.user, ev.date, ev.time>> \in DOMAIN docs
           /\ docs[<<ev.user, ev.date, ev.time>>].event = ev.id

\* A completed form is handled to its end, whatever the calendar answers ("Tratar erro de
\* calendário sem impedir a gravação no Firestore", TODO_integra_gcalendar.md), or it is lost.
\* It is lost only to a failure elsewhere that nothing repeats (Interrupt): any one of them in
\* the async mode; inline one that was answered all the same, or the last of Meta's deliveries
\* (save_appointment_from_flow, process_inbound_payload_safe).
CompletionHandled ==
    \A u \in Users : task[u].pc \notin NotRunning ~> task[u].pc \in NotRunning

\* Two users never hold a confirmed appointment for the same slot, as the times offered are
\* to be those that are free: "filtrar horários ocupados no Google Calendar"
\* (TODO_integra_gcalendar.md).
NoDoubleBooking ==
    \A j, k \in DOMAIN docs :
        j[1] # k[1] /\ j[3] # Blank => <<j[2], j[3]>> # <<k[2], k[3]>>
=============================================================================

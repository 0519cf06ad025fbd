# Atende_Pyloto in TLA+

Models of the WhatsApp bot in `src/`, the TLC configurations that check them,
and theorems about them checked by TLAPS. Paths are relative to the
repository; its Python source is under `src/src/`, shortened here to the file
name where that is unambiguous.

- [Inventory](#inventory): the parts of the system and what makes them correct
- [Modules](#modules): which module models what, and how
- [Runs](#runs): what TLC checks, on which instances, and what that shows
- [Findings](#findings): where the code and its documents disagree
- [Proofs](#proofs): what holds for every instance, and along which argument
- [Limits](#limits): abstractions, what is only model-checked, what is missing
- [Plan](#plan)

Run from this directory:

    tlc -config pipeline_redis.cfg MCInboundPipeline.tla
    tlapm InboundPipelineProofs.tla

## Inventory

Meta posts a webhook with a payload of one or more messages. The webhook
answers, and a *handler* (the request itself in `inline` mode, a background
task in `async` mode) walks through the messages. For each one it asks the
deduplication, resolves the session of the sender, answers (a fixed reply, the
agents, or the appointment of a completed flow), saves the session and marks
the message as processed.

| Component | State | Operations | What makes it correct |
|---|---|---|---|
| webhook dispatch (`webhook.py`, `webhook_runtime.py`) | none of its own; Meta keeps the 200s it got | take a payload, run it inline or schedule it, answer 200 or 500 | no payload is acknowledged and then lost |
| background tasks (`webhook_runtime_tasks.py`, `app.py`) | set of tasks, semaphore, shutdown | schedule, run, done callback, drain, cancel, close Redis | slots come back however a task ends, shutdown covers every live task and ends |
| inbound pipeline (`_inbound_processor*.py`, `process_inbound_canonical.py`) | position in the payload, session in hand, pending exception | check, mark, resolve, effect, save, finish, roll back | order of effects, one reply per message, a retry after every failure |
| deduplication (`redis_dedupe_store.py`, `memory_stores.py`) | `processing` lock (30 s), `processed` mark (3600 s) | is_duplicate, mark_processing, mark_processed, unmark_processing | a marked message is not run again; one handler per message |
| session (`app/sessions`, `redis_session_store.py`) | state, history, turn count, expiry | resolve_or_create, save | closed sessions stay closed, no turn is dropped |
| state machine (`src/src/fsm`) | current state | transition, guards | only transitions of the map; terminal states have no way out |
| agent (`otto_agent.py`) | none | decide, or the canned handoff | always a decision |
| decision validation (`decision_validator.py`, `otto_next_state.py`, `_inbound_processor_state_adjustments.py`) | the decision as it stands | adjust, normalise, gate, review, apply | what is sent and what is applied agree |
| guards (`otto_repetition_guard.py`, `otto_guard_*.py`) | none | replace the text, add a question | the decision stays consistent |
| contact card (`contact_card*.py`, `firestore_contact_card_store.py`) | the card of a sender, in Firestore or Redis | get_or_create, merge a patch, upsert | what was learned is not forgotten; the score is that of the card |
| appointments and flows (`appointment_*.py`, `flows.py`, `google_calendar_*.py`) | the form on the phone, documents `appointments`, calendar events | answer a screen, offer dates and times, store a completed form, make its event | what is offered is free, what is stored was chosen, every event has its record |
| outbound (`send_outbound_message.py`, `http_*.py`, `whatsapp_adapters.py`) | none | validate, build, authorise, POST with retries, read the answer | what is posted is well formed; no needless second copy |
| transcription | none | download, transcribe | fallback on failure |
| conversation store (`firestore_conversation_*.py`, `manager_*.py`) | log of messages and lead, in Firestore | append, first messages, upsert and read of the lead, recovery | order, complete recovery, a lead that is not forgotten |
| prompt contexts (`otto_prompt.py`, `dynamic_context_loader.py`, `prompt_micro_agents*.py`, `context_cache.py`) | vertical and loaded contexts in the session, cache with TTL | choose the vertical, inject, load, cut, invalidate | one vertical per prompt, loaded contexts stay, nothing older than its TTL |
| normalizers, builders, crypto, settings, logging | none | conversions and I/O | the builders belong to outbound; the others are for unit tests |

How they interact: the pipeline calls all the others, one `await` at a time.
Handlers share the Redis keys of the deduplication and of the sessions and the
Firestore document of the contact card; there is no lock around any of them
but the `processing` key. Background tasks share the event loop, the semaphore
and the Redis connection, which the shutdown closes.

What is hard here:

- *Interleaving.* Meta delivers again while an attempt runs; two messages of a
  sender run at the same time; check and mark are two requests; sessions and
  cards are read before the model calls and written back whole after them.
- *Partial failure.* The reply has left when the save or the mark fails. The
  rollback drops the lock, whoever holds it. A validation error of any cause is
  swallowed and answered 200. Firestore failures are logged and forgotten.
- *Time.* Locks of 30 s under pipelines that may take longer, marks of an hour,
  sessions that expire, a drain with a timeout.
- *Crash and shutdown.* `CancelledError` passes every `except Exception`: the
  lock stays. In `async` mode Meta holds its 200 before anything ran.
- *Decisions.* Guards, adjustments, normalisation, gates and reviewer rewrite
  text and target of one decision in turn, and the state machine drops what it
  does not accept in silence.
- *Data decided in several places.* The next question depends on the card, the
  fields just learned and words of the reply; the contexts of a prompt on the
  card, the session and the message; a meeting time on six readings of free
  text; a posted object on validators, builders and the payloads the pipeline
  makes itself.
- *Writes nobody waits for.* Log and lead are written by tasks; the calendar
  event and its id follow the record of an appointment, each of them may fail.

`PROJECT.json` lists the hazards line by line, each with the properties that
watch it or the reason why none does.

## Modules

| Module | Models |
|---|---|
| `FSM` | states, transition map, guards and `transition` of `src/src/fsm` |
| `DeliveryContract` | abstract: what the pipeline promises about a message |
| `InboundPipeline` | webhook, handlers, deduplication, sessions, retries by Meta; implements `DeliveryContract` |
| `WebhookTasks` | background tasks, semaphore, shutdown |
| `OttoDecision` | one decision from the model to the session, over the turns of a sender |
| `ContactCard` | the card of one sender under two turns, two stores and their failures |
| `Funnel` | what is known of a lead, the three guards and the question they put, the hour of a meeting, the card a form fills in |
| `Appointments` | form and endpoint, free slots, the completed form with its record and event |
| `Outbound` | one outgoing message: validators, builders, retries, the reading of the answer |
| `PromptContext` | vertical, micro agents, contexts and cache of a turn |
| `Conversation` | history, log and lead of a sender, and what a new session recovers |
| `...Proofs` | the theorems about a module (extends it and `TLAPS`); `FSM` and `DeliveryContract` have none of their own |
| `ReplyProofs` | the theorems about `Funnel` and `Outbound`: what a reply says and how it is sent |
| `MemoryProofs` | the theorems about `PromptContext` and `Conversation`: what is remembered of a conversation |
| `FoldLemmas` | induction over numbers and over the subsets of a finite set, and what follows for the folds of the community modules |
| `MC...` | instances for TLC: payloads, messages, texts, patches, requests, deployments |

How they compose: `InboundPipeline` runs `FSM` in `Save` and implements
`DeliveryContract`; its `Effect` is one step that stands for what `ContactCard`,
`PromptContext`, `OttoDecision` (with `Funnel` as its guards), `Appointments`
and `Outbound` model in detail. `OttoDecision` runs `FSM` in `Apply`.

Conventions: one action per piece of code between two suspension points, named
after the function where there is one. A variable `env` (or `reviewer`),
chosen by `Init` and then constant, holds the deployment: stores, mode, and the
*faults* the environment may produce. One run can therefore cover several
deployments, and a property says itself under which faults it holds. A
definition whose name continues that of the next one and whose comment starts
with "Mutated form" is not part of the specification: it is that definition
with a plausible bug, kept to see that the properties notice. `Funnel` and
`PromptContext` name their specifications `FunnelSpec` and `PromptSpec`, since
modules of theorems extend them beside another one.

**InboundPipeline.** `pc[w]` is the await at which handler `w` is suspended:

| `pc` | pending call in `process` | actions |
|---|---|---|
| `check` | `is_duplicate` | `Skip`, `Enter`, `DedupeFails` |
| `mark` | `mark_processing` (Redis; in memory part of `Enter`) | `Mark`, `DedupeFails` |
| `load` | `resolve_or_create` | `Load`, `Raise` |
| `create` | save of a new session | `Create`, `Raise` |
| `effect` | contact card, agents, send (or the appointment) | `Effect`, `Raise` |
| `save` | save of the session | `Save`, `Raise` |
| `finish` | `mark_processed` | `Finish`, `FinishFails`, `Raise` |
| `unmark` | `unmark_processing` in the except block | `Unmark` |
| `respond` | end of `execute`: answer or log | `Respond` |

`Deliver` is `POST /`; `Crash` and `Restart` are the ends of a task, an
instance, or the one process of the memory stores; `ExpireLock`, `ExpireMark`
and `ExpireSession` the lifetimes of the Redis keys. `Kind[m]` picks the branch
of `process`: `text` (agents), `fixed`, `flow`, `empty` (skipped). An audio
message takes the branch of a text when it could be transcribed and that of a
fixed reply when not. `replies`, `attempted`, `recorded`, `settled`, `rejected`
and `faulted` are history: no guard reads them.

`DeliveryContract` is the promise: *open* a message that is not marked, then
*attempt* its effect, *record* its turn, *settle* it, in this order; an attempt
may be interrupted anywhere and marks may be lost. The refinement maps `open`
to the message a handler is inside the pipeline with, and `marked` to
`processed`.

**WebhookTasks.** `Schedule`, `Start` and `Leave` are `schedule_processing_task`
and the two ends of `async with _TASK_SEMAPHORE`; `OnDone` the done callback,
which the loop calls some time after the end; `BeginDrain`, `DrainDone`,
`DrainTimeout`, `Cancelled`, `Close` the drain and the close in `lifespan`. The
server (uvicorn) takes no request once the shutdown began. A task that waits
for its slot lives here only: in `InboundPipeline` it is a handler that has
been delivered a payload and has not moved yet.

**OttoDecision.** A text is what the code asks of it: it holds a question mark
or only opens like a question, proposes a meeting, keeps the rules of Gate 1
(size, PII, promises), is the canned handoff. A turn is `Decide` or
`DecideFails`, then `Guard`, `Adjust`, `Validate`, perhaps `Review`, and
`Apply`; `Abort` is an exception on the way. The reviewer is none (what
production wires), the stub of the repository, or any model.

**ContactCard.** One scalar field per merge rule (filled once; follows the last
value), one list with its limit, one flag that only rises, and the score. A
list is the set of its items, a score the set of the fields it adds up. `Get`,
`Create`, `Extract`, `Upsert` are the requests of a turn; `Stop` ends it
anywhere. `Stored` is the difference between the stores: Firestore merges a
dict without `None` into the document, Redis replaces the value.

**Funnel.** A card is the interest, the set of known fields and what the texts
of the detectors depend on. `Extract` is `_apply_extraction`, `Guard` the guards
over a text of the model, `FlowCompletion` the patch of a completed form. A text
is the topics its words match, a time its two numbers, the mark of the hour and
the period named. `ExtractHour` tries the six readings in their order, each
where those before it found nothing: minutes are dropped ("17:59" passes as 17),
and where the hour is out of range or has minutes behind an `h` a later reading
may take the minutes for the hour.
`ApplyGuards` keeps the order business hours, repetition, continuation.

**Appointments.** `Exchange` is a request to `handle_flow_endpoint` with its
refusals (503, 401, 400, 421), `Complete` to `Finish` the branch of the pipeline
for a completed form, one action per request to Firestore and to the calendar.
`Interrupt` ends it anywhere. In `async` mode, the default of production
(`config/settings/whatsapp.py:57`, `:150-152`), Meta was answered before the
handler ran (`webhook_runtime.py:130`), so the completion is lost. Inline it is
lost when it was answered all the same (a `ValueError`, `webhook_runtime.py:70-79`, or a delivery
that finds the lock left behind) or when it was Meta's last delivery; otherwise
`Redeliver` is the message coming again. A user whose completion is lost may fill
in another form.
`chosen` and `trouble` are history. The sweep of `extract_free_slots` is a fold
over the busy ranges, each after those that are earlier.

**Outbound.** `Validate`, `Build`, `Authorize`, `Post`, `Read` for three callers:
the use case (all five), the replies of the pipeline and the scheduling template
(no validation). A request is what validators and builders tell apart: lengths,
which fields are there. `Post(o, taken)` chooses the answer and whether WhatsApp
took the message; `posts`, `accepted` and `silent` count what the outside saw.

**PromptContext.** `SendFixedReply`, `Begin`, `Decide`, `TimeOut`, `Update`,
`Fail` are a turn; `Refresh`, `Replace`, `Tick`, `Restart` the operator, the
clock and the process. A prompt is the sequence of the files that are in it as
a whole. `since` is history: how long ago the disk held a content.

**Conversation.** `Resume` and `Create` are `resolve_or_create` with recovery;
`AddMessage`, `UpdateContactCard`, `Close` the manager with its dual writes;
`UpdateSession` the pipeline, which writes neither log nor lead. `messages` and
`leads` are the tasks under way. An *orderly* behaviour (chosen by `Init`) is one
in which no write or read fails, writes land before Firestore is needed again,
and cards are well formed.

## Runs

| Run | States | Shows |
|---|---|---|
| `pipeline_redis` | 305,956 | production: Redis, `async` with every fault but session expiry, and `inline` with redelivery, failures and expiry. `PipelineInv` and the refinement of the contract |
| `pipeline_serial` | 568,447 | deployments where deduplication is exact or Meta is serial: one reply per message, one handler per message, nothing acknowledged and lost, no session damaged; under fairness, every failed attempt is retried until the payload is served, refused as invalid, or given up by Meta unanswered |
| `webhook_tasks` | 20,396 | slots, queue and drain, and under fairness the end of the shutdown and of every task |
| `otto_decision` | 30,318 | decision, text and state machine agree |
| `contact_card` | 191,575 | nothing learned is forgotten; the score is current |
| `outbound` | 47,598 | validation, well-formed posts, duplicates only after silence |
| `funnel` | 106,603 | questions, acknowledgements, meeting hours; under fairness questions end |
| `appointments` | 121,832 | `async` and inline: free slots, record as chosen, events accounted for; under fairness a completed form is handled to its end unless a failure that nothing repeats loses it |
| `prompt_context` | 336,816 | one vertical, contexts kept, cache within its TTL |
| `conversation` | 1,549,825 | history in order, complete recovery, lead kept |
| `redelivery_duplicate_reply`, `card_flag_reset` | | the findings below |

The properties, by what they say:

- `PipelineInv`, `RefinesContract`: a message is marked only after its effect
  was attempted and its turn saved, and a marked message is not started again,
  under every interleaving, failure, crash and expiry.
- `DedupeInv`, `NoDuplicateReply`: where check and mark are one step or Meta is
  serial, at most one handler has a message, it holds its lock, and a second
  reply needs a fault that cut an attempt short.
- `SerialNoAckedLoss`: with a serial Meta and locks that do not outlive their
  handlers a 200 means processed or refused as invalid. The lock of a failed
  attempt must be rolled back for this.
- `SerialClosedSessionFrozen`, `SerialNoTurnDropped`: where handlers do not
  overlap for a sender, a closed session is replaced and never written again,
  and a save keeps the turns of an open one that has not expired.
- `RetriedUntilServed`: the liveness behind the 500.
- `SemaphoreInv`, `DrainCovers`, `NothingAfterClose`, `ShutdownEnds`,
  `EveryTaskEnds`: no slot is lost by a failure or a cancellation, the shutdown
  knows every live task, nothing is alive when Redis closes, and pipelines that
  hang do not hold the shutdown up.
- `ApprovedIsAccepted`, `RulesEnforced`, `QuestionKeepsOpen`,
  `LaterHandoffHappens`: the state machine accepts what the validator approved;
  a text that breaks the rules leaves only in a decision the agent flagged; a
  question does not close the session; an announced handoff takes place.
- `KnownStaysKnown`: with Firestore a learned field is never empty again, even
  when a failed read makes the pipeline write a blank card over it, or an older
  copy is written back. The `merge=True` is what it rests on.
- `OrderlyRemembers`, `OrderlyScoreCurrent`: where turns of a sender follow each
  other and cards can be read, no write forgets anything and the stored score is
  that of the stored fields, although writes fail and turns stop anywhere.
- `NeverAsksKnown`, `NeverRunsDry`, `QuestionsEnd`, `AckIsFounded`,
  `MeetingHoursHonoured`: no question that goes out asks for what the card
  holds; a lead who is not ready always has a question left; a lead who answers
  becomes ready; what is acknowledged is in the card; a meeting whose time is
  read as it was meant is taken exactly in business hours. Each states its
  exceptions: the code has them (for times, see `OnlyBusinessHours` below).
- `OfferedIsFree`: the sweep over busy ranges agrees with the half hours taken
  one by one. `BookedAsChosen`, `EventsAccountedFor`, `CompletionHandled`: the
  record is the first screen's choice, no event lacks its record unless the
  completion was disturbed, and a completion is handled to its end although the
  calendar fails. What it does not promise is the end of a completion that fails
  elsewhere: in `async` mode any such failure loses it, inline the ones that
  Meta was answered for and the last delivery.
- `DuplicateOnlyAfterSilence`, `PostedIsWellFormed`: a second copy follows only
  an acceptance that was not answered; what passes validation has a body that
  fits its type, with two exceptions named in the property.
- `OneVertical`, `ContextsKept`, `FailsOnlyWhenGone`, `FreshEnough`: the contexts
  of a prompt, of a session and of the cache.
- `HistoryInOrder`, `RecoveryComplete`, `OrderlyLeadKept`: a history is in order
  and without doubles whatever failed; an orderly recovery brings all that was
  logged, and an orderly lead forgets nothing.

### Bounds, and why they are enough

- *Two handlers* (or turns). Every hazard found is a race of two; a third only
  repeats one of them. Handlers share nothing but the stores, and the theorems
  cover any number.
- *One sender*, in `pipeline_*`, `contact_card` and `conversation`. Senders share
  nothing; `MayDeliver` compares senders only to keep the deployments apart in
  which one sender has two payloads under way.
- *Payloads*: one with a text, a flow and an empty message (`pipeline_redis`), or
  two, the first with two messages (`pipeline_serial`): enough for an exception
  that drops the rest of a payload, a redelivery that overtakes, and an attempt
  that skips its first message by its mark.
- `MaxDeliveries` 2 is a delivery and a retry, in `InboundPipeline` and in
  `Appointments`. It is the only counter of the pipeline; `replies` and the turns
  of a session are bounded by it.
- *`Decisions`* (targets the agent proposes): one state that is open or closed as
  the run needs it. `OttoDecision` takes all states.
- *Four tasks, two slots*: two run while two wait, and the drain meets every mix.
- *Texts* of `MCOttoDecision`: every kind of question with and without a meeting,
  one that breaks the rules, the handoff alone and with a question appended.
- *Three values, two items, limit one* on the card: a first, a second and a
  refused value; an item that fits and one that does not.
- *Leads* of `MCFunnel`: each path to readiness of `ready_to_schedule_meeting`,
  with the fields it asks for, a lead without an interest and one who changes
  it; times on both sides of 8 and 18 o'clock in every way of writing, with
  minutes and hours out of range that a later reading takes up.
- *Form* of `MCAppointments`: one user, days of two hours over a weekend, busy
  ranges that start before the window, end after it, touch, and contain each
  other; `MaxAppointments` 2 so that a second form meets the record and the
  events of the first, `MaxEvents` 2 so that a repeated insert fits.
- *Requests* of `MCOutbound`: at each limit of the validators and one past it,
  each a field or two away from one that is accepted; `MaxRetries` 3 as in the
  code.
- *Files* of `MCPromptContext`: two verticals of the repository with the lengths of
  their files, `TTL` two ticks (within, at the end).
- *Conversation*: three messages (`MaxSaid`) over limits of two, so that a log is
  longer than what is recovered and a history longer than what is kept;
  `MaxLeads` 2 so that two writes of the lead pass each other.
- Symmetry over the two handlers, or turns, in runs without liveness.
- Deadlock is checked in all but the pipeline and the tasks. The pipeline may stop
  (Meta has its answers, or `MaxDeliveries` is used up), and so may the tasks
  (`closed`).

### Fairness

- `InboundPipeline`: `WF` of `Handle(w)` for each handler, since the event loop
  resumes a suspended coroutine and the calls it waits for have timeouts; `WF` of
  a delivery for each payload, since Meta repeats an unanswered webhook. It
  repeats it a finite number of times, which is the third outcome in
  `RetriedUntilServed`. Nothing is assumed about crashes, failures and expiries.
- `WebhookTasks`: `WF` of `Start`, `Cancelled` and `OnDone` (the loop runs what
  is ready, the semaphore is served in order), of `DrainDone \/ DrainTimeout`
  (`asyncio.wait` has a timeout) and of `Close`. Pipelines need not end, and no
  shutdown need begin. `EveryTaskEnds` names its extra premise, that pipelines
  end, in the formula.
- `Appointments`: `WF` of the steps of a handler, and of `Redeliver`, which is
  enabled only inline, for a message without an answer, until `MaxDeliveries`:
  the assumption about Meta of `InboundPipeline`. `async` deployments are never
  redelivered to. Nothing is assumed about interruptions, the calendar's
  answers or the user; `CompletionHandled` names being lost as an outcome, and
  only `Interrupt` leads there.
- `Funnel`: `WF` of `Guard` (each message gets its reply) and `SF` of `Answer`: a
  lead who is asked without end answers in the end. That is an assumption about
  the lead, and the property says what the code then owes.
- The other modules state safety only.

## Findings

Two runs end in a counterexample to something a document, a comment or a test
of the repository says. `PROJECT.json` quotes them in full.

| Run | The code | against |
|---|---|---|
| `redelivery_duplicate_reply` | check and mark are two Redis requests, so two deliveries of a message both reply, with nothing failing | `docs/FUNCIONAMENTO.md:182`, `:16` |
| `card_flag_reset` | a patch may store a value the card model refuses (an e-mail address without `@`, a long text); from then on the card cannot be read, and every message writes a blank one over its flags, lists and score | `contact_card_merge.py:30`, `contact_card.py:31` |

### Known counterexamples

Further properties are defined in the modules beside those above and do not hold.
They are stated as a document or a comment of the repository has them; each is
reproduced by checking it alone with the configuration named here.

| Property | Configuration | What happens |
|---|---|---|
| `NoAckedLoss` (`InboundPipeline`) | `pipeline_redis.cfg` with `Deployments <- RedisInlineRetry` | inline, a redelivery skips a message in progress and is answered 200; the attempt then fails and nobody retries (`README.md:566-567`) |
| `ClosedSessionFrozen` | `pipeline_serial.cfg` with `Deployments <- RedisSameSender` | the session is written back whole with no version check: a stale copy reopens a session another handler closed (`fsm/states/session.py:55`) |
| `AnnouncedHandoffHappens` (`OttoDecision`) | `otto_decision.cfg` | in the first turn a handoff is announced and then refused by the state machine in silence (`ai/contexts/core/system_role.yaml:28`) |
| `CollectedMeetingCloses` (`OttoDecision`) | `otto_decision.cfg` | the target `SCHEDULED_FOLLOWUP` set by the adjustment is overwritten by the normalisation after it (`test_inbound_processor_helpers.py:431`) |
| `NoDoubleBooking` (`Appointments`) | `appointments.cfg` with two `Users`, `Outside <- NobodyElse`, `Configs <- CalendarOn` | the endpoint asks no calendar for its options, and the record is keyed by the user: a slot is confirmed twice (`TODO_integra_gcalendar.md`) |
| `ReplyIsWellFormed` (`Outbound`) | `outbound.cfg` | an interactive reply of the pipeline is posted without an action (`_inbound_helpers.py`) |
| `GuardsAgree` (`Funnel`) | `funnel.cfg` | a guard asks a question that the next guard would call out of place (`otto_guard_funnel_question_candidates.py`) |
| `OnlyBusinessHours` (`Funnel`) | `funnel.cfg` | a time in the night is taken: "3h15 da manha" is read as 15, since an `h` with digits behind it is no hour and the 15 stands next to the period; "10:15 da noite" and "10h da noite" are read as 10, the period going unread behind a colon or an `h` (`meeting_time_validator.py:4`, `:83`) |
| `TransientNotKept` (`PromptContext`) | `prompt_context.cfg` | `roi_hints.yaml` says `persist: false`; named by an agent it stays loaded (`dynamic_context_loader.py:38`) |
| `LoadedIsTold` (`PromptContext`) | `prompt_context.cfg` | the contexts are cut a second time, at 1200 characters: a loaded one is not in the prompt, the limit of 10000 never applies (`otto_prompt.py`) |
| `RecoversLatest` (`Conversation`) | `conversation.cfg` | the oldest messages are recovered, not the latest (`conversation_store.py`) |
| `LatestTold` (`Conversation`) | `conversation.cfg` with `Sizes = {1, 2}` | the history of a prompt is cut from its end: the last message falls out of it (`otto_user_template.yaml:19`, `otto_prompt.py:60`) |
| `RecoveryComplete` | `conversation.cfg` with `Tenants = {""}` | without a tenant the log is written under `default` and read under the empty name: nothing is recovered |

### Observations

Read in the code while modelling, and modelled as they are:

- `BACK` of the form is answered like the next screen (`flows.py:116`).
- With a calendar only the *starts* of the free stretches are offered as times. A
  failing calendar reads as a full day, an unknown one as an empty day.
- Inline, a completion that fails after the event was made makes a second one on
  the retry; in `async` mode the event stays without its id in the record.
- The same readings refuse times within business hours: "3h da tarde" is read as
  three in the morning, "14h10 da tarde" as 22. "12 da noite" is noon, "14h30"
  has no hour and passes unread.
- A card that update_contact_card gave an interest or an e-mail address its model
  refuses is dropped when the session is read again (`session_entity.py:142-145`).
- An e-mail address in the lead that the card refuses makes every recovery raise,
  and the history is lost with it.
- The webhook wires no conversation store (`webhook_runtime.py:42-51`); the
  factory of the manager may, so `Conversation` covers both.
- A context the session had loaded and a later release lacks fails every turn of
  that session.
- The branches of the prompt code for a session in `HANDOFF_HUMAN` are dead: such
  a session is replaced before a turn begins.
- Confidence under 0.85 without a reviewer means a handoff
  (`decision_validator.py:79`), whatever its comment says.

## Proofs

The theorems hold for every value of the constants under the named
assumptions of the modules, which only say what the constants are: payloads
are non-empty sequences of messages, deployments have their types, sentinels
are distinct, limits are numbers; an empty field of a contact card is neither
refused nor counted in the score; a patch of the extractor has the fields and
interests `ContactCardPatch` declares, and a form the fields of a card; a busy
range has two ends; a file of the prompts has a size and a place in the order
of the loader; a template message names its template. TLC evaluates all of
them in the runs. One theorem has a premise of its own: `RecoveryFindsAll` is
about tenants that have a name, because the code fails the others (`Known
counterexamples`).

Every invariant the runs check is the conclusion of a theorem, and so is every
action property and the refinement; the five liveness properties are not
(`Limits`).

| Module | Theorems | Inductive invariant |
|---|---|---|
| `InboundPipelineProofs` | `TypeCorrect`, `PipelineInvariant`, `Refinement`, `MemoryDedupe`, `OneReply`, `ClosedFrozen`, `TurnsAreKept`, `AnswerStandsForAll` | `TypeOK /\ PipelineInv`, and on top of it `DedupeInv`, `SerialInv`, `SoleInv`, `AnswerInv` |
| `WebhookTasksProofs` | `TasksTyped`, `SemaphoreSound`, `ConcurrencyBound`, `DrainComplete`, `ClosedIsQuiet` | `TypeOK /\ SemaphoreInv /\ DrainCovers` |
| `OttoDecisionProofs` | `DecisionTyped`, `ApprovedAccepted`, `RulesAlwaysEnforced`, `QuestionsKeepSessionsOpen`, `HandoffsHappen` | `IInv`: type, stage of the turn, flags, review, and what validation left |
| `ContactCardProofs` | `CardTyped`, `FirestoreKeepsFields`, `ScoreStaysCurrent`, `OrderlyTurnsRemember` | `TypeOK /\ OInv`: one turn, a copy that holds what is stored, a readable document |
| `ReplyProofs` (`Funnel`) | `FunnelInvariant`, `QuestionsNeverRunDry`, `NeverAsksTheKnown`, `AcknowledgesTheKnown`, `MeetingHoursKept` | `FunnelInv`: the lead, fields of the card, and what the mark on a refused time promises |
| `ReplyProofs` (`Outbound`) | `SenderTyped`, `DuplicatesFollowSilence`, `GivesUpExhausted`, `IdsAreReal`, `PostsAreWellFormed` | `TypeOK /\ Progress`: what was posted and accepted at each stage; `PayloadInv`: what is known of the payload before each |
| `MemoryProofs` (`PromptContext`) | `CacheStaysFresh`, `ContextsStay`, `OneVerticalAlways`, `FailsForTheGone` | `CacheInv`, `ContextInv`, `PromptInv` |
| `MemoryProofs` (`Conversation`) | `LeadIsKept`, `HistoriesAscend`, `RecoveryFindsAll` | `Sessions /\ LeadInv`: what Firestore or a task knows, the sessions know; `HistoryInv`: what is logged was said |
| `AppointmentsProofs` | `EventsHaveRecords`, `RecordsAreAsChosen`, `OffersWhatIsFree` | `EventInv` (events are numbered, alone in their slots, accounted for), `FormInv` |

*Pipeline.* The contract alone is not inductive: `Finish` marks a message, and
that it was attempted and recorded follows only from where the handler stands.
`PipelineInv` says so: a busy handler is at a message of its payload
(`AtMessage`), holds a session once it needs one (`HoldsSession`), and past
`effect` and `save` its message is in `attempted` and `recorded`. Type
correctness needs `AtMessage` in turn, for `Current(w)` to be a message. The
refinement then maps each action to a step of the contract or a stutter:
`Enter` to `Open`, `Effect` to `Attempt`, `Save` to `Record`, `Finish` and
`FinishFails` to `Settle`, and `Unmark`, a failing `mark_processing`, `Crash`,
`Restart` and `ExpireMark` to `Interrupt`.

*One reply per message* rests on the lock: a handler inside the pipeline holds
the lock of its message, which nobody else removes while no lock expires under
a running pipeline (`LocksHeld`), and each reply to a message no fault touched
is accounted for by the mark or by the one handler about to set it
(`RepliesAccounted`). Both need check and mark in one step, which the memory
store gives and Redis does not; that is the first finding.

Or it rests on the mark. `OneReply` covers this second way too: where handlers
work for a sender one at a time and marks do not expire, a handler between its
check and its reply stands at a message without a mark (`Unmarked` of `SoleInv`),
since nobody else is at that message to set one, and no lock is needed. So
Redis without two payloads of a sender under way replies once, and the race of
the finding is the only one.

*One handler at a time for a sender.* `SerialInv` says that payloads under way
have no sender in common (`Apart`) and that the copy in a handler's hands is the
stored session, or that session has expired meanwhile (`CopyCurrent`): nobody
else writes it. A save then writes what is stored plus one turn, and neither
reopens nor shortens anything. For the 200, `AnswerInv` adds that a lock belongs
to a handler in the pipeline, so that a duplicate at which another one stands has
been served, that a handler leaves only served messages behind it (`Passed`),
and so that one that ends without an exception has served its payload.

*Tasks.* `permits + Cardinality(Running) = Limit` is kept by each action by the
facts about the cardinality of a set with one element more or less, and the
queue holds each waiting task once, so that a cancelled waiter leaves no trace.

*Decisions.* The invariant follows a decision through its stages. A decision
approved or in review has a target valid in the state the session still has,
because only `Apply` changes the state; after the validation a handoff text is in
a decision for a human, whose target is `HANDOFF_HUMAN` wherever that is valid: in
every open state but `INITIAL`.

*Contact card.* For Firestore no invariant beyond the type is needed: a write is
`Stored` of some copy, and `Stored` keeps every known field whatever the copy
is. The other two need that the copy of the one turn under way is the document
at `agents` and extends it at `upsert`, so that the merge of Firestore and the
replacement of Redis come to the same.

*Outbound.* Every retry spends an attempt, and only an outcome that leaves the
loop unanswered can have been a silent acceptance: `accepted <= 1 + silent`
follows once `Progress` says that before an answer is read every acceptance so
far was silent.

*Payloads.* `PayloadInv` follows a request to its post: after the validation it
has what the validators of its type ask for, after the building the payload
is `Postable`, and from then on nobody changes it. The exceptions of the
property are where the validators are passed by (a reply of the pipeline) and
where they look at another field than the builder (a template named beside
another type).

*Funnel.* `NeverRunsDry` is a statement about every card, not about reachable
ones, and the proof shows why it holds: a lead of some interest that lacks a
signal of readiness lacks the fields of two of its candidates, or of one that no
topic of the detection names, so skipping the topic of Otto's question leaves one
(`NotDry`). For the properties of a reply the guards are split as the code
tries them (`GuardCases`); what each of them asks for is open in the card
(`AsksOpen`) and what it acknowledges is a fact of the card (`AckHolds`). For
the meeting hours the invariant ties the mark of a refused time to the hour in
the same turn: one that is refused was read as out of hours, and one that is not
is in the card (`Promised`).

*Prompt contexts.* An entry is as old as the disk's last sight of its content, or
older (`NotOlder`); a hit changes neither. What a turn carries is what its
session held (`Carried`), and what it loads bears the folder of its vertical. The
prompt is made of these by three folds, which order, take apart and cut; each
of them keeps to the files it is fed with (`InOrderOf`, `UniqueOf`, `WithinOf`),
so a prompt holds nothing but what was loaded and the core of its vertical
(`PromptFiles`).

*Histories.* A log holds numbers of messages that were said and have been sent to
it, a history is an ascending sequence of such numbers, and a message that is
added is later than all of them. What is recovered is the one ascending order of a
part of the log (`OrderedIs`), its beginning is ascending again, and when the
limit cuts nothing it holds the whole log (`WholeLog`). In an orderly run no
message is on its way when a session is created, so the log is all there is.

*Lead.* In an orderly run no task is under way when a lead is made of a card, and
the cards of both sessions know what the lead knows (`Covers`), since they were
made of it and a patch only adds.

*Appointments.* Ids of events are their numbers in order, so a handler at `store`
holds the last one of its slot; and without trouble its slot has no other event.
The choice of the first screen travels unchanged through form and task (`FormOf`,
`TaskOf`).

*Free slots.* The invariant of the sweep: when it has taken the ranges of a set
none of which is later than one left out, the cursor is the furthest end so far
or the start of the window, what lies before it is free exactly where no
range of the set covers it, and each free stretch ends where a range begins.
The order of the ranges is strict, so a finite set that is not empty has a
latest member (`MaximalOf`), and the fold takes that one last.

*Induction.* The induction theorems of the library take an operator as a
parameter, which no prover at hand can instantiate. `FoldLemmas` states induction
for sets instead: a set that holds zero and the successor of each member holds
every number (from the well-foundedness of the order), and a family of
subsets that is closed under one more member holds every subset. With the
second one a fold over a finite set exists as a function and keeps its
accumulator within a given set, which is what the proofs about prompts and free
slots use.

## Limits

*Only model-checked.* The liveness properties (`RetriedUntilServed`,
`ShutdownEnds`, `EveryTaskEnds`, `QuestionsEnd`, `CompletionHandled`) are beyond
the prover, which knows neither fairness nor `ENABLED` in a form it can use.

*Abstractions.*

- A session of `InboundPipeline` is its state and the list of turns in it; a turn
  is the history entries of one message.
- A failed save that was applied all the same is `Save` followed by `Raise` at
  `finish`, and a cancelled write to Firestore, which ends in its thread, is
  `Upsert` followed by the end of the turn.
- With the memory stores the load and the save of a session do not suspend; the
  model lets handlers interleave there, and proves and checks more than needed.
- Which exception counts as a validation error is left open (`Raise` chooses):
  `_is_validation_error` accepts every `ValueError`.
- A task cancelled by the drain is `Crash` in `InboundPipeline`.
- In `OttoDecision` the turns of a sender follow each other; what happens when
  they do not is the subject of `InboundPipeline`. Matching of words, sizes and
  PII is one flag of a text; which words name a topic is the topic itself in
  `Funnel`, one word stands for each pattern in `PromptContext`.
- The extractor and the model are data: any patch of the instance, any decision.
- In `Appointments` a day is a number, an event takes half an hour, and every
  day has the same foreign events. Ciphers succeed or fail.
- In `Outbound` pauses between retries are left out, and a list of buttons or of
  sections is its length and its fields.

### Not modelled

- *Stateless conversions of incoming payloads* (`normalizer.py`, `extractor.py`),
  the wording of questions, acknowledgements and prompts, the texts of the
  contexts: no state and nothing a property distinguishes.
- *HTTP clients of OpenAI, Whisper, the media of WhatsApp and Google*
  (`otto_client.py`, `whisper_client.py`, `media_downloader.py`, the requests of
  `google_calendar_client.py`): an answer, a failure or a time-out, which is what
  the models choose among.
- *Code without a caller in the program*: `media_uploader.py`, the sender of flow
  messages (`flows/sender.py`, reached by a factory nobody calls), cancelling
  and moving calendar events, `seen` and `seen_async`.
- *The memory store of contact cards* (development and tests): it hands out one
  shared object.
- *The audit store*: records are appended and never read back.
- *Institutional loader, settings, secrets, logging, metrics*: read once at the
  start, or written only.
- *GET verification, signature and JSON checks of the webhook*: pure functions of
  the request. Those of the flow endpoint are in `Appointments`.

## Plan

Done, in this order: `FSM`, `DeliveryContract` and `InboundPipeline` with their
proofs, `WebhookTasks`, `OttoDecision`, `ContactCard`; then `Outbound`, `Funnel`,
`Appointments`, `PromptContext` and `Conversation`, the theorems about all of
these, and those about handlers that work for a sender one at a time.

Worth adding as the code grows: a second calendar or the endpoint asking one
(`OfferedIsFree` then covers what users see, and `NoDoubleBooking` can be asked
of it), a version check in the session save (`ClosedSessionFrozen` without
`Serial`), and an atomic check-and-mark (`DedupeExact` for Redis). The theorems
about `Serial` deployments and the memory store then carry over.

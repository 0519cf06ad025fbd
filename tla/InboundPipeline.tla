-------------------------- MODULE InboundPipeline --------------------------
(***************************************************************************)
(* The inbound WhatsApp pipeline: the webhook takes a payload from Meta,   *)
(* a handler walks through its messages, and for each message runs the     *)
(* deduplication, resolves the session of the sender, produces the effect  *)
(* (reply, or appointment of a completed flow), saves the session and      *)
(* marks the message processed (_inbound_processor.py, process).           *)
(*                                                                         *)
(* One action is the code between two awaits that other handlers can see.  *)
(* Handlers run as tasks of one event loop or on several instances; with   *)
(* the Redis stores they interleave at every await, with the in-memory     *)
(* stores the check and the mark of the deduplication run without a        *)
(* suspension and are one step.                                            *)
(***************************************************************************)
EXTENDS FSM, Naturals, Sequences

CONSTANTS
    Workers,        \* handlers: webhook requests (inline) or tasks (async)
    Messages,       \* inbound messages, by message_id
    Payloads,       \* webhook payloads
    Senders,        \* from_number of the messages
    Batch,          \* Batch[p]: the messages of payload p, in order
    Sender,         \* Sender[m]: who sent m
    Kind,           \* Kind[m]: the branch of process that m takes
    Decisions,      \* targets the agent proposes in this instance
    MaxDeliveries,  \* bound: how often Meta delivers one payload
    Deployments,    \* the configurations and environments to consider
    NoPayload, NoSession, NoMessage

Kinds == {"text", "fixed", "flow", "empty"}
Faults == {"redelivery", "same_sender", "handler_error", "store_error",
           "crash", "lock_expiry", "mark_expiry", "session_expiry"}

\* The stores in use, WEBHOOK_PROCESSING_MODE, and what the environment does.
Deployment == [backend : {"redis", "memory"}, mode : {"async", "inline"},
               faults : SUBSET Faults]

ASSUME BatchAssumption == Batch \in [Payloads -> Seq(Messages) \ {<<>>}]
ASSUME SenderAssumption == Sender \in [Messages -> Senders]
ASSUME KindAssumption == Kind \in [Messages -> Kinds]
ASSUME DecisionAssumption == Decisions \subseteq SessionState
ASSUME DeliveryAssumption == MaxDeliveries \in Nat
ASSUME DeploymentAssumption == Deployments \subseteq Deployment
ASSUME SentinelAssumption ==
    /\ NoPayload \notin Payloads
    /\ NoMessage \notin Messages
    /\ NoSession \notin [state : SessionState, turns : Seq(Messages)]

VARIABLES
    env,          \* the deployment: chosen by Init, never changed
    pc,           \* pc[w]: the await handler w is suspended at
    job,          \* job[w]: the payload it works on
    idx,          \* idx[w]: position in the payload
    sess,         \* sess[w]: its copy of the session
    err,          \* err[w]: how the pipeline failed in this handler
    processing,   \* messages with a live processing lock
    processed,    \* messages with a live processed mark
    sessions,     \* sessions[s]: the stored session of sender s
    deliveries,   \* deliveries[p]: how often Meta delivered p
    acked,        \* payloads Meta holds a 200 for
    (* history, read by the properties only *)
    replies,      \* replies[m]: replies to m that reached WhatsApp
    attempted, recorded, settled,   \* see DeliveryContract
    rejected,     \* payloads whose processing ended in a validation error
    faulted       \* messages whose processing some fault cut short

hosts == <<pc, job, idx, sess, err>>
dedupe == <<processing, processed>>
meta == <<deliveries, acked>>
history == <<replies, attempted, recorded, settled, rejected, faulted>>
vars == <<env, hosts, dedupe, sessions, meta, history>>

-----------------------------------------------------------------------------
(* Sessions: the part of Session the pipeline reads and writes.  A turn is *)
(* the history entries that one message adds.                              *)

Session(state, turns) == [state |-> state, turns |-> turns]
\* Mutated form: a state name of the old machine, which the enum does not have.
FreshSessionLegacy == Session("ENTRY", <<>>)
FreshSession == Session(DEFAULT_INITIAL_STATE, <<>>)
Reusable(s) == s # NoSession /\ ~is_terminal(s.state)
Turns(s) == IF s = NoSession THEN {} ELSE {s.turns[i] : i \in 1..Len(s.turns)}

\* The states a handled message can leave the session in: only the agent
\* path runs the state machine, and the agent may propose any state.
NextStates(m, state) ==
    IF Kind[m] = "text"
    THEN {transition(state, target) : target \in Decisions}
    ELSE {state}

-----------------------------------------------------------------------------
Busy(w) == pc[w] # "idle"
Current(w) == Batch[job[w]][idx[w]]
InPipeline(w) == pc[w] \in {"mark", "load", "create", "effect", "save", "finish", "unmark"}
Fault(f) == f \in env.faults
MessagesOf(p) == {Batch[p][i] : i \in 1..Len(Batch[p])}
SendersOf(p) == {Sender[m] : m \in MessagesOf(p)}

ShouldSkip(m) == Kind[m] = "empty"

\* Mutated form: the lock of a message in progress is not consulted.
IsDuplicateIgnoringLock(m) == m \in processed
\* Mutated form: only the lock is consulted.
IsDuplicateIgnoringMark(m) == m \in processing
IsDuplicate(m) == m \in processed \/ m \in processing

Goto(w, label) == pc' = [pc EXCEPT ![w] = label]

\* The loop of execute: the next message, or the end of the payload.
Advance(w) ==
    IF idx[w] < Len(Batch[job[w]])
    THEN idx' = [idx EXCEPT ![w] = @ + 1] /\ Goto(w, "check")
    ELSE UNCHANGED idx /\ Goto(w, "respond")

Fail(w, kind) == err' = [err EXCEPT ![w] = kind]
Cut(m) == faulted' = faulted \cup {m}

-----------------------------------------------------------------------------
Init ==
    /\ env \in Deployments
    /\ pc = [w \in Workers |-> "idle"]
    /\ job = [w \in Workers |-> NoPayload]
    /\ idx = [w \in Workers |-> 1]
    /\ sess = [w \in Workers |-> NoSession]
    /\ err = [w \in Workers |-> "none"]
    /\ processing = {} /\ processed = {}
    /\ sessions = [s \in Senders |-> NoSession]
    /\ deliveries = [p \in Payloads |-> 0]
    /\ acked = {}
    /\ replies = [m \in Messages |-> 0]
    /\ attempted = {} /\ recorded = {} /\ settled = {}
    /\ rejected = {} /\ faulted = {}

\* Meta sends p again as long as it holds no 200 for it.
MayDeliver(p) ==
    /\ p \notin acked
    /\ deliveries[p] < MaxDeliveries
    /\ Fault("redelivery") \/ \A w \in Workers : job[w] # p
    /\ \/ Fault("same_sender")
       \/ \A w \in Workers :
             job[w] \in Payloads \ {p} => SendersOf(job[w]) \cap SendersOf(p) = {}

\* POST /: in async mode a task is scheduled and the answer is 200 at once
\* (it may get lost on its way); inline the request runs the pipeline itself.
Deliver(w, p) ==
    /\ pc[w] = "idle"
    /\ MayDeliver(p)
    /\ deliveries' = [deliveries EXCEPT ![p] = @ + 1]
    /\ Goto(w, "check")
    /\ job' = [job EXCEPT ![w] = p]
    /\ idx' = [idx EXCEPT ![w] = 1]
    /\ \/ env.mode = "async" /\ acked' = acked \cup {p}
       \/ (env.mode = "inline" \/ Fault("redelivery")) /\ UNCHANGED acked
    /\ UNCHANGED <<env, sess, err, dedupe, sessions, history>>

\* Nothing to process, or a message that is in progress or done already.
Skip(w) ==
    /\ pc[w] = "check"
    /\ ShouldSkip(Current(w)) \/ IsDuplicate(Current(w))
    /\ Advance(w)
    /\ UNCHANGED <<env, job, sess, err, dedupe, sessions, meta, history>>

\* is_duplicate answered False.  The in-memory store marks the lock before
\* any other handler can run; with Redis the mark is a request of its own.
Enter(w) ==
    /\ pc[w] = "check"
    /\ ~ShouldSkip(Current(w)) /\ ~IsDuplicate(Current(w))
    /\ \/ /\ env.backend = "redis"
          /\ Goto(w, "mark")
          /\ UNCHANGED processing
       \/ /\ env.backend = "memory"
          /\ Goto(w, "load")
          /\ processing' = processing \cup {Current(w)}
    /\ UNCHANGED <<env, job, idx, sess, err, processed, sessions, meta, history>>

\* Mutated form: the message is marked processed before the pipeline ran.
MarkAsProcessed(w) ==
    /\ pc[w] = "mark"
    /\ processed' = processed \cup {Current(w)}
    /\ Goto(w, "load")
    /\ UNCHANGED <<env, job, idx, sess, err, processing, sessions, meta, history>>
\* mark_processing: SETEX, which also renews the lock of somebody else.
Mark(w) ==
    /\ pc[w] = "mark"
    /\ processing' = processing \cup {Current(w)}
    /\ Goto(w, "load")
    /\ UNCHANGED <<env, job, idx, sess, err, processed, sessions, meta, history>>

\* The check or the mark fails outside the try block: nothing is rolled
\* back, and a mark whose answer was lost stays in the store.
DedupeFails(w) ==
    /\ pc[w] \in {"check", "mark"} /\ ~ShouldSkip(Current(w))
    /\ env.backend = "redis" /\ Fault("store_error")
    /\ Fail(w, "raised")
    /\ Goto(w, "respond")
    /\ \/ UNCHANGED processing
       \/ pc[w] = "mark" /\ processing' = processing \cup {Current(w)}
    /\ Cut(Current(w))
    /\ UNCHANGED <<env, job, idx, sess, processed, sessions, meta, replies,
                   attempted, recorded, settled, rejected>>

TakeUp(w, stored) == sess' = [sess EXCEPT ![w] = stored] /\ Goto(w, "effect")
StartFresh(w) == sess' = [sess EXCEPT ![w] = FreshSession] /\ Goto(w, "create")

\* Mutated form: a closed session is taken up again.
LoadAny(w) ==
    /\ pc[w] = "load"
    /\ LET stored == sessions[Sender[Current(w)]]
       IN \/ stored # NoSession /\ TakeUp(w, stored)
          \/ stored = NoSession /\ StartFresh(w)
    /\ UNCHANGED <<env, job, idx, err, dedupe, sessions, meta, history>>
\* resolve_or_create: the stored session, unless it is closed or past its
\* expires_at.
Load(w) ==
    /\ pc[w] = "load"
    /\ LET stored == sessions[Sender[Current(w)]]
       IN \/ Reusable(stored) /\ TakeUp(w, stored)
          \/ (~Reusable(stored) \/ Fault("session_expiry")) /\ StartFresh(w)
    /\ UNCHANGED <<env, job, idx, err, dedupe, sessions, meta, history>>

\* create_new_session: the new session replaces whatever is stored.
Create(w) ==
    /\ pc[w] = "create"
    /\ sessions' = [sessions EXCEPT ![Sender[Current(w)]] = sess[w]]
    /\ Goto(w, "effect")
    /\ UNCHANGED <<env, job, idx, sess, err, dedupe, meta, history>>

\* Context, agents, guards and validation, then the reply: send returns
\* False on any failure and the pipeline goes on.  A completed flow saves
\* the appointment and sends nothing.
Effect(w) ==
    /\ pc[w] = "effect"
    /\ attempted' = attempted \cup {Current(w)}
    /\ \/ /\ Kind[Current(w)] # "flow"
          /\ replies' = [replies EXCEPT ![Current(w)] = @ + 1]
       \/ UNCHANGED replies
    /\ Goto(w, "save")
    /\ UNCHANGED <<env, job, idx, sess, err, dedupe, sessions, meta,
                   recorded, settled, rejected, faulted>>

\* Mutated form: only the new turn is written.
SaveTurnOnly(w) ==
    /\ pc[w] = "save"
    /\ LET m == Current(w)
       IN /\ \E state \in NextStates(m, sess[w].state) :
                sessions' = [sessions EXCEPT ![Sender[m]] = Session(state, <<m>>)]
          /\ recorded' = recorded \cup {m}
    /\ Goto(w, "finish")
    /\ UNCHANGED <<env, job, idx, sess, err, dedupe, meta, replies, attempted,
                   settled, rejected, faulted>>
\* _update_session and its siblings: the decision goes through the state
\* machine, the turn is appended to the copy of the session the handler
\* holds, and the copy overwrites the stored session.
Save(w) ==
    /\ pc[w] = "save"
    /\ LET m == Current(w)
       IN /\ \E state \in NextStates(m, sess[w].state) :
                sessions' = [sessions EXCEPT
                                ![Sender[m]] = Session(state, Append(sess[w].turns, m))]
          /\ recorded' = recorded \cup {m}
    /\ Goto(w, "finish")
    /\ UNCHANGED <<env, job, idx, sess, err, dedupe, meta, replies, attempted,
                   settled, rejected, faulted>>

\* mark_processed sets the mark and drops the lock in one pipeline.
MarkProcessed(m) ==
    /\ processed' = processed \cup {m}
    /\ processing' = processing \ {m}
    /\ settled' = settled \cup {m}

Finish(w) ==
    /\ pc[w] = "finish"
    /\ MarkProcessed(Current(w))
    /\ Advance(w)
    /\ sess' = [sess EXCEPT ![w] = NoSession]
    /\ UNCHANGED <<env, job, err, sessions, meta, replies, attempted, recorded,
                   rejected, faulted>>

\* mark_processed took effect and its answer was lost.
FinishFails(w) ==
    /\ pc[w] = "finish"
    /\ env.backend = "redis" /\ Fault("store_error")
    /\ MarkProcessed(Current(w))
    /\ Fail(w, "raised")
    /\ Goto(w, "unmark")
    /\ Cut(Current(w))
    /\ UNCHANGED <<env, job, idx, sess, sessions, meta, replies, attempted,
                   recorded, rejected>>

\* An exception inside the try block, before the pending call has an effect.
Raise(w) ==
    /\ \/ pc[w] \in {"load", "create", "effect", "save", "finish"}
          /\ env.backend = "redis" /\ Fault("store_error")
       \/ pc[w] \in {"effect", "save"} /\ Fault("handler_error")
    /\ \E kind \in {"raised", "validation"} : Fail(w, kind)
    /\ Goto(w, "unmark")
    /\ Cut(Current(w))
    /\ UNCHANGED <<env, job, idx, sess, dedupe, sessions, meta, replies,
                   attempted, recorded, settled, rejected>>

\* Mutated form: the lock stays.
UnmarkNothing(w) ==
    /\ pc[w] = "unmark"
    /\ UNCHANGED processing
    /\ Goto(w, "respond")
    /\ UNCHANGED <<env, job, idx, sess, err, processed, sessions, meta, history>>
\* except Exception: the lock is dropped, whoever holds it; a failure of
\* that is suppressed.  Either way the exception goes on and ends execute.
Unmark(w) ==
    /\ pc[w] = "unmark"
    /\ \/ processing' = processing \ {Current(w)}
       \/ env.backend = "redis" /\ Fault("store_error") /\ UNCHANGED processing
    /\ Goto(w, "respond")
    /\ UNCHANGED <<env, job, idx, sess, err, processed, sessions, meta, history>>

Release(w) ==
    /\ Goto(w, "idle")
    /\ job' = [job EXCEPT ![w] = NoPayload]
    /\ idx' = [idx EXCEPT ![w] = 1]
    /\ sess' = [sess EXCEPT ![w] = NoSession]
    /\ err' = [err EXCEPT ![w] = "none"]

\* Mutated form: every failure is swallowed and answered 200.
RespondOk(w) ==
    /\ pc[w] = "respond"
    /\ acked' = acked \cup {job[w]}
    /\ UNCHANGED rejected
    /\ Release(w)
    /\ UNCHANGED <<env, dedupe, sessions, deliveries, replies, attempted,
                   recorded, settled, faulted>>
\* process_inbound_payload_safe swallows validation errors.  Inline, any
\* other error is a 500 and the rest is a 200, which Meta may no longer wait
\* for; a task only logs how it ended.
Respond(w) ==
    /\ pc[w] = "respond"
    /\ \/ /\ env.mode = "inline" /\ err[w] # "raised"
          /\ acked' = acked \cup {job[w]}
       \/ /\ env.mode = "async" \/ err[w] = "raised" \/ Fault("redelivery")
          /\ UNCHANGED acked
    /\ rejected' = IF err[w] = "validation" THEN rejected \cup {job[w]} ELSE rejected
    /\ Release(w)
    /\ UNCHANGED <<env, dedupe, sessions, deliveries, replies, attempted,
                   recorded, settled, faulted>>

-----------------------------------------------------------------------------
(* The environment: crashes, and the lifetimes of the Redis keys.          *)

\* The task is cancelled by the shutdown drain, or its instance dies: no
\* except block runs, the lock stays, nobody answers.
Crash(w) ==
    /\ Busy(w)
    /\ env.backend = "redis" /\ Fault("crash")
    /\ Cut(Current(w))
    /\ Release(w)
    /\ UNCHANGED <<env, dedupe, sessions, meta, replies, attempted, recorded,
                   settled, rejected>>

\* With the in-memory stores a restart takes the handlers and the stores.
Restart ==
    /\ env.backend = "memory" /\ Fault("crash")
    /\ pc' = [w \in Workers |-> "idle"]
    /\ job' = [w \in Workers |-> NoPayload]
    /\ idx' = [w \in Workers |-> 1]
    /\ sess' = [w \in Workers |-> NoSession]
    /\ err' = [w \in Workers |-> "none"]
    /\ processing' = {} /\ processed' = {}
    /\ sessions' = [s \in Senders |-> NoSession]
    /\ faulted' = Messages
    /\ UNCHANGED <<env, meta, replies, attempted, recorded, settled, rejected>>

\* The 30 s lock ends: while a slow pipeline still runs under it, if the
\* environment is that slow.
ExpireLock(m) ==
    /\ m \in processing
    /\ \/ Fault("lock_expiry")
       \/ \A w \in Workers : InPipeline(w) => Current(w) # m
    /\ processing' = processing \ {m}
    /\ UNCHANGED <<env, hosts, processed, sessions, meta, history>>

\* The 3600 s mark ends.
ExpireMark(m) ==
    /\ m \in processed
    /\ Fault("mark_expiry")
    /\ processed' = processed \ {m}
    /\ UNCHANGED <<env, hosts, processing, sessions, meta, history>>

\* The Redis key of a session ends.
ExpireSession(s) ==
    /\ sessions[s] # NoSession
    /\ Fault("session_expiry")
    /\ sessions' = [sessions EXCEPT ![s] = NoSession]
    /\ UNCHANGED <<env, hosts, dedupe, meta, history>>

Handle(w) ==
    \/ Skip(w) \/ Enter(w) \/ Mark(w) \/ DedupeFails(w)
    \/ Load(w) \/ Create(w) \/ Effect(w) \/ Save(w)
    \/ Finish(w) \/ FinishFails(w) \/ Raise(w) \/ Unmark(w) \/ Respond(w)

Next ==
    \/ \E w \in Workers, p \in Payloads : Deliver(w, p)
    \/ \E w \in Workers : Handle(w) \/ Crash(w)
    \/ Restart
    \/ \E m \in Messages : ExpireLock(m) \/ ExpireMark(m)
    \/ \E s \in Senders : ExpireSession(s)

Spec == Init /\ [][Next]_vars

\* The event loop resumes every suspended handler, and Meta sends an
\* unanswered payload again (up to MaxDeliveries times).
Fairness ==
    /\ \A w \in Workers : WF_vars(Handle(w))
    /\ \A p \in Payloads : WF_vars(\E w \in Workers : Deliver(w, p))

FairSpec == Spec /\ Fairness

-----------------------------------------------------------------------------
(* Properties                                                              *)

SessionType == [state : SessionState, turns : Seq(Messages)] \cup {NoSession}

ControlType ==
    /\ pc \in [Workers -> {"idle", "check", "mark", "load", "create", "effect",
                           "save", "finish", "unmark", "respond"}]
    /\ err \in [Workers -> {"none", "raised", "validation"}]
PositionType ==
    /\ job \in [Workers -> Payloads \cup {NoPayload}]
    /\ idx \in [Workers -> Nat]
SessionsType ==
    /\ sess \in [Workers -> SessionType]
    /\ sessions \in [Senders -> SessionType]
StoresType ==
    /\ env \in Deployments
    /\ processing \in SUBSET Messages /\ processed \in SUBSET Messages
    /\ deliveries \in [Payloads -> 0..MaxDeliveries] /\ acked \in SUBSET Payloads
HistoryType ==
    /\ replies \in [Messages -> Nat]
    /\ attempted \in SUBSET Messages /\ recorded \in SUBSET Messages
    /\ settled \in SUBSET Messages /\ faulted \in SUBSET Messages
    /\ rejected \in SUBSET Payloads

\* Every variable holds a value of its type.
TypeOK ==
    ControlType /\ PositionType /\ SessionsType /\ StoresType /\ HistoryType

\* The strengthening under which the contract is inductive: a busy handler
\* stands at a message of its payload and holds a session once it needs one,
\* and the marks follow the order attempted, recorded, settled.
AtMessage ==
    \A w \in Workers :
        Busy(w) => job[w] \in Payloads /\ idx[w] \in 1..Len(Batch[job[w]])
HoldsSession ==
    \A w \in Workers :
        pc[w] \in {"create", "effect", "save", "finish"} => sess[w] # NoSession
AttemptedFirst ==
    \A w \in Workers : pc[w] \in {"save", "finish"} => Current(w) \in attempted
RecordedFirst ==
    \A w \in Workers : pc[w] = "finish" => Current(w) \in recorded
MarksOrdered ==
    /\ processed \subseteq settled
    /\ settled \subseteq recorded
    /\ recorded \subseteq attempted

PipelineInv ==
    AtMessage /\ HoldsSession /\ AttemptedFirst /\ RecordedFirst /\ MarksOrdered

\* The pipeline keeps the contract of DeliveryContract under every
\* interleaving and fault: a message is marked processed only after its
\* effect was attempted and its turn saved, and no handler starts on a
\* message whose mark is alive (process, lines 73-123).
OpenMessage == [w \in Workers |-> IF InPipeline(w) THEN Current(w) ELSE NoMessage]
Contract == INSTANCE DeliveryContract WITH
    Handlers <- Workers, open <- OpenMessage, marked <- processed
RefinesContract == Contract!Spec

\* Redelivery alone never makes the bot answer a message twice: a second
\* reply needs a fault that cut an earlier attempt short.
NoDuplicateReply == \A m \in Messages : replies[m] > 1 => m \in faulted

\* At most one handler is inside the pipeline with a given message.
SingleFlight ==
    \A v, w \in Workers :
        InPipeline(v) /\ InPipeline(w) /\ v # w => Current(v) # Current(w)

\* Where the check and the mark are one step and locks outlive the pipeline,
\* a handler in the pipeline holds the lock of its message, and every reply
\* is accounted for: by a fault, by the mark, or by the handler that is
\* about to set the mark.
DedupeExact ==
    env.backend = "memory" /\ ~Fault("lock_expiry") /\ ~Fault("mark_expiry")
LocksHeld ==
    \A w \in Workers :
        InPipeline(w) => pc[w] # "mark" /\ Current(w) \in processing \ processed
RepliesAccounted ==
    \A m \in Messages \ faulted :
        /\ replies[m] \in {0, 1}
        /\ \/ replies[m] = 0
           \/ m \in processed
           \/ \E w \in Workers : pc[w] \in {"save", "finish"} /\ Current(w) = m
DedupeInv == DedupeExact => SingleFlight /\ LocksHeld /\ RepliesAccounted

Served(p) == \A m \in MessagesOf(p) : ShouldSkip(m) \/ m \in settled

\* Once Meta holds a 200 for a payload and no handler works on it any more,
\* each of its messages was processed, or the payload was refused as invalid.
NoAckedLoss ==
    \A p \in acked :
        \/ \E w \in Workers : job[w] = p
        \/ Served(p)
        \/ p \in rejected

ClosedStaysClosed ==
    \A s \in Senders :
        sessions[s] # NoSession /\ is_terminal(sessions[s].state)
        => sessions'[s] \in {sessions[s], FreshSession, NoSession}

TurnsKept ==
    \A s \in Senders :
        Reusable(sessions[s]) /\ sessions'[s] # NoSession
        => Turns(sessions[s]) \subseteq Turns(sessions'[s])

\* No two handlers work for one sender at a time: Meta waits for the end of
\* an attempt before the next, and a sender for the end of the last payload.
Serial == ~Fault("redelivery") /\ ~Fault("same_sender")

\* A closed session is never touched again; it can only be replaced by a
\* new one (or lost with the in-memory store).
ClosedSessionFrozen == [][ClosedStaysClosed]_vars

\* NoAckedLoss where handlers never work for one sender at the same time,
\* Meta waits for the answer, and no lock outlives its handler: Redis keeps
\* the lock of a handler that was stopped, or that could not drop it.
LocksEnd == env.backend = "memory" \/ (~Fault("crash") /\ ~Fault("store_error"))
SerialNoAckedLoss == Serial /\ env.mode = "inline" /\ LocksEnd => NoAckedLoss

\* Where handlers never work for one sender at the same time no save reopens
\* a closed session, and none drops a turn of an open one that has not expired.
SerialClosedSessionFrozen == [][Serial => ClosedStaysClosed]_vars
SerialNoTurnDropped == [][Serial /\ ~Fault("session_expiry") => TurnsKept]_vars

\* A failed attempt is retried until the payload is processed, refused as
\* invalid, or Meta gives up on it unanswered.
RetriedUntilServed ==
    \A p \in Payloads :
        Serial /\ deliveries[p] > 0
        ~> \/ Served(p)
           \/ p \in rejected
           \/ deliveries[p] = MaxDeliveries /\ p \notin acked
=============================================================================

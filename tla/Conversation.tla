----------------------------- MODULE Conversation -----------------------------
(***************************************************************************)
(* What is remembered of a conversation with one sender: the session in     *)
(* Redis with its history and card, and the log of messages and the lead    *)
(* that SessionManager keeps in Firestore beside it, written by tasks       *)
(* nobody waits for and read when a session has to be created (manager*.py, *)
(* session_entity.py, firestore_conversation_*.py).  The manager of the     *)
(* webhook has no conversation store, the one of the factory may have one.  *)
(*                                                                         *)
(* A message is known by its number, which stands for its time stamp and    *)
(* its id; all that is kept of it is its length.  A card has two fields, an *)
(* e-mail address and an interest, and its model checks both.               *)
(***************************************************************************)
EXTENDS Naturals, FiniteSets, SequencesExt

CONSTANTS
    Stores,         \* whether there is a conversation store: a set of BOOLEANs
    Tenants,        \* tenant_id of the caller, "" for none
    Orderlies,      \* whether the run is an orderly one: a set of BOOLEANs
    Emails, Interests,  \* values of the fields of a card
    WellFormed,     \* the e-mail addresses ContactCard accepts
    ALLOWED_PRIMARY_INTERESTS,  \* the interests ContactCard accepts
    HISTORY_RECOVERY_LIMIT,     \* messages a new session starts with
    MaxHistory,     \* max_history of add_to_history
    MAX_HISTORY_MESSAGES,       \* messages of the history in a prompt
    HistoryChars,   \* and their length
    Sizes,          \* lengths of the messages
    MaxSaid,        \* bound on the messages of a behaviour
    MaxLeads        \* bound on the leads on their way

VARIABLES
    wired, tenant, orderly,     \* chosen by Init
    said,       \* the messages in the order of their time stamps: their lengths
    stored,     \* the session in Redis
    held,       \* the session in the hands of the handler
    messages,   \* messages on their way to the log
    leads,      \* leads on their way to Firestore
    log,        \* key -> messages of its conversation
    lead        \* the lead in Firestore

chosen == <<wired, tenant, orderly>>
vars == <<chosen, said, stored, held, messages, leads, log, lead>>

Unknown == ""
Card(email, interest) == [email |-> email, interest |-> interest, some |-> TRUE]
BareCard == Card(Unknown, Unknown)
NoCard == [BareCard EXCEPT !.some = FALSE]
NoLead == NoCard
NoSession == [history |-> <<>>, card |-> NoCard, closed |-> TRUE, some |-> FALSE]

ASSUME ConversationAssumption ==
    /\ Stores \subseteq BOOLEAN /\ Orderlies \subseteq BOOLEAN
    /\ Unknown \notin Emails \cup Interests
    /\ WellFormed \subseteq Emails /\ ALLOWED_PRIMARY_INTERESTS \subseteq Interests
    /\ {HISTORY_RECOVERY_LIMIT, MaxHistory} \subseteq Nat \ {0}

-----------------------------------------------------------------------------
(* Firestore.                                                              *)

\* A message is logged under "default" for a tenant without a name, and looked up under
\* the name as it is.
KeyToWrite == IF tenant = "" THEN "default" ELSE tenant
\* Mutated form: the tenant is left out.
KeyToReadDefault == "default"
KeyToRead == tenant
Keys == Tenants \cup {"default"}

FirstOf(s, n) == SubSeq(s, 1, IF n < Len(s) THEN n ELSE Len(s))
LastOf(s, n) == SubSeq(s, IF n < Len(s) THEN Len(s) - n + 1 ELSE 1, Len(s))

\* By their time stamps.
Ordered(set) == CHOOSE s \in SetToSeqs(set) : \A i, j \in DOMAIN s : i < j => s[i] < s[j]

\* Mutated form: the newest first.
GetMessagesNewest(key) == Reverse(LastOf(Ordered(log[key]), HISTORY_RECOVERY_LIMIT))

GetMessages(key) == FirstOf(Ordered(log[key]), HISTORY_RECOVERY_LIMIT)

-----------------------------------------------------------------------------
(* What a new session starts with.                                         *)

\* Mutated form: the interest is asked for again.
CardFromLeadWithout(l) == Card(l.email, Unknown)

CardFromLead(l) ==
    Card(l.email,
         IF l.interest \in ALLOWED_PRIMARY_INTERESTS THEN l.interest ELSE Unknown)

\* The construction of the card raises, and the messages go with it.
RecoveryRaises(l, whatsapp) ==
    l.some /\ whatsapp /\ l.email \notin WellFormed \cup {Unknown}

BuildContactCardFromLead(l, whatsapp) ==
    IF l.some /\ whatsapp THEN CardFromLead(l) ELSE NoCard

\* l and msgs are what the reads returned: a read that fails finds nothing.
CreateWithRecovery(l, msgs, whatsapp) ==
    LET raises == RecoveryRaises(l, whatsapp)
        card == IF raises THEN NoCard ELSE BuildContactCardFromLead(l, whatsapp)
    IN  [history |-> IF raises THEN <<>> ELSE msgs,
         card |-> IF card = NoCard /\ whatsapp THEN BareCard ELSE card,
         closed |-> FALSE, some |-> TRUE]

\* A card that does not pass its own model, as update_contact_card may leave it, is dropped
\* on the way out of Redis.
Valid(card) ==
    /\ card.email \in WellFormed \cup {Unknown}
    /\ card.interest \in ALLOWED_PRIMARY_INTERESTS \cup {Unknown}

FromDict(session) ==
    IF Valid(session.card) THEN session ELSE [session EXCEPT !.card = NoCard]

-----------------------------------------------------------------------------

Init ==
    /\ wired \in Stores /\ tenant \in Tenants /\ orderly \in Orderlies
    /\ said = <<>> /\ stored = NoSession /\ held = NoSession
    /\ messages = {} /\ leads = {}
    /\ log = [k \in Keys |-> {}] /\ lead = NoLead

\* In an orderly run every write has landed before Firestore is needed again.
Settled == orderly => messages = {} /\ leads = {}

\* The session is there, open, and taken as it was stored.
Resume ==
    /\ ~held.some /\ stored.some /\ ~stored.closed
    /\ held' = FromDict(stored)
    /\ UNCHANGED <<chosen, said, stored, messages, leads, log, lead>>

\* There is none, or it is closed.  whatsapp: the message carries the name of its profile.
Create(whatsapp) ==
    /\ ~held.some /\ (~stored.some \/ stored.closed)
    /\ Settled
    /\ \E l \in {lead, NoLead}, msgs \in {GetMessages(KeyToRead), <<>>} :
          /\ orderly \/ ~wired => l = (IF wired THEN lead ELSE NoLead)
          /\ orderly \/ ~wired => msgs = (IF wired THEN GetMessages(KeyToRead) ELSE <<>>)
          /\ held' = CreateWithRecovery(l, msgs, whatsapp)
    /\ stored' = held'
    /\ UNCHANGED <<chosen, said, messages, leads, log, lead>>

\* The session as the call leaves it is stored, or the exception ends the turn.
Saved(session) ==
    \/ stored' = session /\ held' = session
    \/ ~orderly /\ stored' = stored /\ held' = NoSession

Trimmed(history) == LastOf(history, MaxHistory)

AddMessage(size) ==
    /\ held.some /\ Len(said) < MaxSaid
    /\ said' = Append(said, size)
    /\ Saved([held EXCEPT !.history = Trimmed(Append(@, Len(said'))) ])
    /\ messages' = IF wired /\ held'.some THEN messages \cup {Len(said')} ELSE messages
    /\ UNCHANGED <<chosen, leads, log, lead>>

\* The pipeline ends a turn without the manager's dual write and without a limit.
UpdateSession(size, reply, closes) ==
    /\ held.some /\ Len(said) + 1 < MaxSaid
    /\ said' = said \o <<size, reply>>
    /\ Saved([held EXCEPT !.history = @ \o <<Len(said) + 1, Len(said) + 2>>, !.closed = closes])
    /\ UNCHANGED <<chosen, messages, leads, log, lead>>

Given(new, old) == IF new # Unknown THEN new ELSE old

\* The lead is made of the card.
UpdateContactCard(email, interest) ==
    /\ held.some /\ held.card # NoCard
    /\ Settled /\ Cardinality(leads) < MaxLeads
    /\ orderly => /\ email \in WellFormed \cup {Unknown}
                  /\ interest \in ALLOWED_PRIMARY_INTERESTS \cup {Unknown}
    /\ Saved([held EXCEPT !.card = Card(Given(email, @.email), Given(interest, @.interest))])
    /\ leads' = IF wired /\ held'.some THEN leads \cup {held'.card} ELSE leads
    /\ UNCHANGED <<chosen, said, messages, log, lead>>

Close ==
    /\ held.some
    /\ stored' = NoSession /\ held' = NoSession
    /\ UNCHANGED <<chosen, said, messages, leads, log, lead>>

Release ==
    /\ held.some /\ held' = NoSession
    /\ UNCHANGED <<chosen, said, stored, messages, leads, log, lead>>

-----------------------------------------------------------------------------
(* The tasks, Redis and the process.                                       *)

AppendMessage(n) ==
    /\ n \in messages /\ messages' = messages \ {n}
    /\ log' = [log EXCEPT ![KeyToWrite] = @ \cup {n}]
    /\ UNCHANGED <<chosen, said, stored, held, leads, lead>>

\* The threads of two writes may pass each other.
UpsertLead(l) ==
    /\ l \in leads /\ leads' = leads \ {l}
    /\ lead' = l
    /\ UNCHANGED <<chosen, said, stored, held, messages, log>>

\* A failed write is logged and forgotten.
LoseMessage(n) ==
    /\ ~orderly
    /\ n \in messages /\ messages' = messages \ {n}
    /\ UNCHANGED <<chosen, said, stored, held, leads, log, lead>>

LoseLead(l) ==
    /\ ~orderly
    /\ l \in leads /\ leads' = leads \ {l}
    /\ UNCHANGED <<chosen, said, stored, held, messages, log, lead>>

\* Its time in Redis or in expires_at is over.
Expire ==
    /\ stored.some /\ stored' = NoSession
    /\ UNCHANGED <<chosen, said, held, messages, leads, log, lead>>

\* The process ends with its tasks.
Crash ==
    /\ held' = NoSession /\ messages' = {} /\ leads' = {}
    /\ UNCHANGED <<chosen, said, stored, log, lead>>

Next ==
    \/ Resume \/ \E whatsapp \in BOOLEAN : Create(whatsapp)
    \/ \E size \in Sizes : AddMessage(size)
    \/ \E size, reply \in Sizes, closes \in BOOLEAN : UpdateSession(size, reply, closes)
    \/ \E email \in Emails \cup {Unknown}, interest \in Interests \cup {Unknown} :
          UpdateContactCard(email, interest)
    \/ Close \/ Release
    \/ \E n \in messages : AppendMessage(n) \/ LoseMessage(n)
    \/ \E l \in leads : UpsertLead(l) \/ LoseLead(l)
    \/ Expire \/ Crash

Spec == Init /\ [][Next]_vars

-----------------------------------------------------------------------------
(* The history in a prompt.                                                *)

Length(s) == FoldLeft(LAMBDA acc, n : acc + said[n], 0, s)

\* mask_history keeps the last messages, format_otto_prompt the first characters of them.
PromptHistory(history) ==
    LET recent == LastOf(history, MAX_HISTORY_MESSAGES)
    IN  SelectSeq(recent, LAMBDA n : Length(SelectSeq(recent, LAMBDA k : k <= n)) <= HistoryChars)

-----------------------------------------------------------------------------
(* Properties.                                                             *)

\* The messages of a history are those of the conversation in their order and each once,
\* whatever was recovered, cut or refused in between.
HistoryInOrder ==
    \A s \in {held, stored} : \A i, j \in DOMAIN s.history :
        i < j => s.history[i] < s.history[j]

Created == ~held.some /\ held'.some /\ (~stored.some \/ stored.closed)

\* "Recovery carrega histórico de mensagens" (TODO_llm.md): in an orderly run a new session
\* starts with all that was logged of its sender, as far as the limit goes.
RecoveryComplete ==
    [][Created /\ orderly =>
        LET all == UNION {log[k] : k \in Keys}
        IN  Cardinality(all) <= HISTORY_RECOVERY_LIMIT => ToSet(held'.history) = all]_vars

\* "Manter dados do lead atualizados" (conversation_store.py): in an orderly run what
\* Firestore knows of a lead is never unknown again.
OrderlyLeadKept ==
    [][orderly => \A field \in {"email", "interest"} :
        lead[field] # Unknown => lead'[field] # Unknown]_vars

\* "Recupera últimas mensagens de um lead" (conversation_store.py).
RecoversLatest ==
    [][Created /\ orderly =>
        \A n \in log[KeyToRead] :
            \A k \in ToSet(held'.history) : n > k => n \in ToSet(held'.history)]_vars

\* "Historico (ultimas 20 msgs)" (otto_user_template.yaml): the last message of the history
\* is in the prompt.
LatestTold ==
    held.some /\ held.history # <<>> =>
        held.history[Len(held.history)] \in ToSet(PromptHistory(held.history))
=============================================================================

---------------------------- MODULE OttoDecision ----------------------------
(***************************************************************************)
(* What happens to one decision of the agent between the model and the     *)
(* session (_process_with_agents): the guards rewrite its text, the        *)
(* adjustments its target, the validator normalises the target and passes  *)
(* the decision through its gates, and what comes out is sent and applied  *)
(* to the state machine of the session.  The turns of one sender follow    *)
(* each other, so a session walks from INITIAL to a closed state and is    *)
(* then replaced.                                                          *)
(*                                                                         *)
(* A text is what the code asks of it: whether it holds a question mark or *)
(* only opens like a question, proposes a meeting time, keeps the rules on *)
(* size, PII and promises, and is the canned announcement of a handoff.    *)
(***************************************************************************)
EXTENDS FSM

CONSTANTS
    Texts,       \* the texts of the replies in this instance
    Reviewers    \* the review clients to consider

Text == [asks : {"mark", "opening", "nothing"}, meeting : BOOLEAN,
         sound : BOOLEAN, handoff : BOOLEAN]

\* confidence matters only as confidence >= _CONFIDENCE_APPROVE.
Decision == [target : SessionState, human : BOOLEAN, sure : BOOLEAN, text : Texts]

HandoffText == [asks |-> "nothing", meeting |-> FALSE, sound |-> TRUE, handoff |-> TRUE]

ASSUME TextAssumption == Texts \subseteq Text /\ HandoffText \in Texts
ASSUME ReviewerAssumption == Reviewers \subseteq {"none", "stub", "model"}

VARIABLES
    reviewer,   \* the review client: chosen by Init, never changed
    stage,      \* how far the turn is
    state,      \* current_state of the session
    from,       \* the state the turn found
    known,      \* the card holds a meeting time and an e-mail address
    flagged,    \* requires_human as the agent set it
    decision,   \* the decision as it stands
    verdict     \* of the last validation; "none" before and while it is due

vars == <<reviewer, stage, state, from, known, flagged, decision, verdict>>

\* OttoAgentService and the validator build the same decision.
HandoffDecision ==
    [target |-> "HANDOFF_HUMAN", human |-> TRUE, sure |-> FALSE, text |-> HandoffText]

\* get_valid_transitions, taken when the request is built.
valid == VALID_TRANSITIONS[state]

Asks(text) == text.asks # "nothing"

-----------------------------------------------------------------------------
FirstValid(wanted, second, proposed) ==
    IF wanted \in valid THEN wanted ELSE IF second \in valid THEN second ELSE proposed

normalize_next_state(proposed, asks, human) ==
    IF human THEN FirstValid("HANDOFF_HUMAN", "HANDOFF_HUMAN", proposed)
    ELSE IF asks THEN FirstValid("COLLECTING_INFO", "TRIAGE", proposed)
    ELSE FirstValid("SELF_SERVE_INFO", "GENERATING_RESPONSE", proposed)

\* Mutated form: the target of the agent stands.
NormalizedNot(d) == d
Normalized(d) ==
    [d EXCEPT !.target = normalize_next_state(d.target, Asks(d.text), d.human)]

AsksForMeeting(d) ==
    d.text.meeting /\ "COLLECTING_INFO" \in valid /\ d.target # "COLLECTING_INFO"
MeetingCollected(d) ==
    known /\ d.text.asks # "mark" /\ "SCHEDULED_FOLLOWUP" \in valid

AdjustedTarget(d) ==
    IF AsksForMeeting(d) THEN "COLLECTING_INFO"
    ELSE IF MeetingCollected(d) THEN "SCHEDULED_FOLLOWUP"
    ELSE d.target

\* Mutated forms: only the text, only the transition is checked.
RulesKeptByText(d) == d.text.sound
RulesKeptByTransition(d) == d.target \in valid
RulesKept(d) == d.target \in valid /\ d.text.sound

-----------------------------------------------------------------------------
Init ==
    /\ reviewer \in Reviewers
    /\ stage = "idle"
    /\ state = DEFAULT_INITIAL_STATE /\ from = DEFAULT_INITIAL_STATE
    /\ known = FALSE /\ flagged = FALSE
    /\ decision = HandoffDecision
    /\ verdict = "none"

\* Mutated form: a closed session is taken up again.
BeginOn(d) ==
    /\ stage = "idle"
    /\ UNCHANGED state
    /\ from' = state'
    /\ known' \in BOOLEAN
    /\ flagged' = d.human
    /\ decision' = d
    /\ verdict' = "none"
    /\ stage' = "decided"
    /\ UNCHANGED reviewer
\* A message of the sender starts a turn with decision d: on the session, or
\* on a new one if it is closed or expired.  What the extractor learns of
\* the contact is on the card before anything looks at it.
Begin(d) ==
    /\ stage = "idle"
    /\ \/ ~is_terminal(state) /\ UNCHANGED state
       \/ state' = DEFAULT_INITIAL_STATE
    /\ from' = state'
    /\ known' \in BOOLEAN
    /\ flagged' = d.human
    /\ decision' = d
    /\ verdict' = "none"
    /\ stage' = "decided"
    /\ UNCHANGED reviewer

\* The model answers, with any state and any text of its own.
Decide == \E d \in Decision : ~d.text.handoff /\ Begin(d)

\* The model fails or answers nothing: the agent hands off.
DecideFails == Begin(HandoffDecision)

\* The guards leave the text alone, replace it, or add a question to it.
Guard ==
    /\ stage = "decided"
    /\ \E text \in Texts :
          /\ text.handoff => decision.text.handoff
          /\ decision' = [decision EXCEPT !.text = text]
    /\ stage' = "guarded"
    /\ UNCHANGED <<reviewer, state, from, known, flagged, verdict>>

\* _maybe_adjust_next_state
Adjust ==
    /\ stage = "guarded"
    /\ decision' = [decision EXCEPT !.target = AdjustedTarget(decision)]
    /\ stage' = "adjusted"
    /\ UNCHANGED <<reviewer, state, from, known, flagged, verdict>>

Conclude(d, v) ==
    /\ decision' = d
    /\ verdict' = v
    /\ stage' = "validated"

\* validate: normalisation, Gate 1 (which a decision for a human skips) and
\* Gate 2 as far as it needs no reviewer.
Validate ==
    /\ stage = "adjusted"
    /\ LET d == Normalized(decision)
       IN \/ d.human /\ Conclude(d, "human")
          \/ ~d.human /\ ~RulesKept(d) /\ Conclude(HandoffDecision, "human")
          \/ ~d.human /\ RulesKept(d) /\ d.sure /\ Conclude(d, "approved")
          \/ /\ ~d.human /\ RulesKept(d) /\ ~d.sure /\ reviewer = "none"
             /\ Conclude(Normalized([d EXCEPT !.human = TRUE]), "human")
          \/ /\ ~d.human /\ RulesKept(d) /\ ~d.sure /\ reviewer # "none"
             /\ decision' = d /\ stage' = "review" /\ UNCHANGED verdict
    /\ UNCHANGED <<reviewer, state, from, known, flagged>>

\* The reviewer answers with the decision (the stub) or with one of its own,
\* which no gate sees again; None and requires_human become a handoff.
Review ==
    /\ stage = "review"
    /\ \/ reviewer = "stub" /\ Conclude(decision, "approved")
       \/ /\ reviewer = "model"
          /\ \/ \E d \in Decision :
                   ~d.human /\ ~d.text.handoff /\ Conclude(d, "approved")
             \/ Conclude(HandoffDecision, "human")
    /\ UNCHANGED <<reviewer, state, from, known, flagged>>

\* _send_response and _apply_decision_to_session: the reply goes out, and a
\* transition the state machine refuses is dropped in silence.
Apply ==
    /\ stage = "validated"
    /\ state' = transition(state, decision.target)
    /\ stage' = "idle"
    /\ UNCHANGED <<reviewer, from, known, flagged, decision, verdict>>

\* An exception on the way: nothing is sent and the session stays.
Abort ==
    /\ stage # "idle"
    /\ stage' = "idle"
    /\ verdict' = "none"
    /\ UNCHANGED <<reviewer, state, from, known, flagged, decision>>

Next ==
    \/ Decide \/ DecideFails \/ Guard \/ Adjust \/ Validate \/ Review
    \/ Apply \/ Abort

Spec == Init /\ [][Next]_vars

-----------------------------------------------------------------------------
(* Properties                                                              *)

\* Every variable holds a value of its type.
TypeOK ==
    /\ reviewer \in Reviewers
    /\ stage \in {"idle", "decided", "guarded", "adjusted", "review", "validated"}
    /\ state \in SessionState /\ from \in SessionState
    /\ known \in BOOLEAN /\ flagged \in BOOLEAN
    /\ decision \in Decision
    /\ verdict \in {"none", "human", "approved"}

\* The last turn ended with a reply.
Replied == stage = "idle" /\ verdict # "none"

\* While the only reviewer is the stub of the repository.
Trusted == reviewer # "model"

\* The state machine never refuses a decision the validator approved: the
\* validator works with the transitions of the state the session still has.
ApprovedIsAccepted ==
    stage = "validated" /\ verdict = "approved" /\ Trusted
    => can_transition_to(state, decision.target)

\* A text that breaks the rules on size, PII or promises goes out only in a
\* decision the agent itself flagged for a human.
RulesEnforced == Replied /\ ~decision.text.sound /\ Trusted => flagged

\* A session is closed by an approved reply only if that reply asks nothing,
\* or the session was already at its last open state; otherwise the answer
\* to the question would start a new session without its history.
QuestionKeepsOpen ==
    Replied /\ verdict = "approved" /\ Trusted /\ Asks(decision.text)
    => from = "GENERATING_RESPONSE" \/ ~is_terminal(state)

\* A sender told that a human takes over is handed over: the session ends in
\* HANDOFF_HUMAN.
AnnouncedHandoffHappens ==
    Replied /\ decision.text.handoff => state = "HANDOFF_HUMAN"

\* The same, once the session has left INITIAL.
LaterHandoffHappens == from # "INITIAL" => AnnouncedHandoffHappens

\* With a meeting time and an e-mail address on the card, an approved reply
\* without a question closes the session as SCHEDULED_FOLLOWUP where the
\* state machine allows it (adjust_for_meeting_collected).
CollectedMeetingCloses ==
    Replied /\ verdict = "approved" /\ known /\ ~Asks(decision.text)
        /\ ~decision.text.meeting /\ "SCHEDULED_FOLLOWUP" \in VALID_TRANSITIONS[from]
    => state = "SCHEDULED_FOLLOWUP"
=============================================================================

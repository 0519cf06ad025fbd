------------------------- MODULE OttoDecisionProofs -------------------------
(***************************************************************************)
(* Proofs about OttoDecision for any set of reply texts: what the          *)
(* validator approves the state machine accepts, no text that breaks the   *)
(* rules leaves unflagged, and a handoff announced after INITIAL happens.  *)
(***************************************************************************)
EXTENDS OttoDecision, TLAPS

\* The four open states and their transitions, one by one.
LEMMA OpenStates ==
    ASSUME NEW s \in SessionState, ~is_terminal(s)
    PROVE  /\ s \in {"INITIAL", "TRIAGE", "COLLECTING_INFO", "GENERATING_RESPONSE"}
           /\ s = "INITIAL" => VALID_TRANSITIONS[s] = {"TRIAGE", "ERROR", "TIMEOUT"}
           /\ s = "TRIAGE" => VALID_TRANSITIONS[s] =
                {"COLLECTING_INFO", "GENERATING_RESPONSE", "HANDOFF_HUMAN",
                 "SELF_SERVE_INFO", "ROUTE_EXTERNAL", "ERROR", "TIMEOUT"}
           /\ s = "COLLECTING_INFO" => VALID_TRANSITIONS[s] =
                {"COLLECTING_INFO", "GENERATING_RESPONSE", "HANDOFF_HUMAN",
                 "ROUTE_EXTERNAL", "SCHEDULED_FOLLOWUP", "ERROR", "TIMEOUT"}
           /\ s = "GENERATING_RESPONSE" => VALID_TRANSITIONS[s] =
                {"SELF_SERVE_INFO", "HANDOFF_HUMAN", "ROUTE_EXTERNAL",
                 "SCHEDULED_FOLLOWUP", "ERROR"}
BY DEF is_terminal, VALID_TRANSITIONS, SessionState, ACTIVE_STATES, TERMINAL_STATES

\* The guards refuse nothing that the transition map allows.
LEMMA ValidIsAccepted ==
    ASSUME NEW s \in SessionState, ~is_terminal(s), NEW t \in VALID_TRANSITIONS[s]
    PROVE  can_transition_to(s, t) /\ transition(s, t) = t
<1>1. t \in SessionState /\ (s = "COLLECTING_INFO" \/ s # t)
  BY OpenStates DEF SessionState, ACTIVE_STATES, TERMINAL_STATES
<1>2. can_transition_to(s, t)
  BY <1>1 DEF can_transition_to, is_transition_valid, evaluate_guards,
     guard_valid_state, guard_terminal_state, guard_same_state, is_terminal
<1> QED
  BY <1>2 DEF transition

\* A state stays a state, whatever is proposed.
LEMMA TransitionTyped ==
    ASSUME NEW s \in SessionState, NEW t \in SessionState
    PROVE  transition(s, t) \in SessionState
BY DEF transition

\* Normalisation and adjustment keep a decision a decision, and change
\* nothing of it but the target.
LEMMA NormalizedTyped ==
    ASSUME state \in SessionState, NEW d \in Decision
    PROVE  /\ Normalized(d) \in Decision
           /\ Normalized(d).human = d.human
           /\ Normalized(d).text = d.text
           /\ Normalized(d).sure = d.sure
           /\ Normalized(d).target = normalize_next_state(d.target, Asks(d.text), d.human)
<1>1. normalize_next_state(d.target, Asks(d.text), d.human) \in SessionState
  BY DEF normalize_next_state, FirstValid, Decision, SessionState, ACTIVE_STATES,
     TERMINAL_STATES
<1> QED
  BY <1>1 DEF Normalized, Decision
-----------------------------------------------------------------------------
(* The inductive invariant: what each stage knows of the decision.          *)

\* A turn works on the state it found, which is open.
TurnInv == stage # "idle" => from = state /\ ~is_terminal(state)

\* Before the validation only a flagged decision is for a human, and only
\* such a decision announces it.
FlagInv ==
    stage \in {"decided", "guarded", "adjusted"}
    => /\ decision.text.handoff => decision.human
       /\ decision.human => flagged

\* No reply that asks leaves an open session, its last open state excepted.
AsksSafely ==
    Asks(decision.text) => from = "GENERATING_RESPONSE" \/ ~is_terminal(decision.target)

\* What waits for a reviewer has passed Gate 1.
ReviewInv ==
    stage = "review"
    => RulesKept(decision) /\ ~decision.text.handoff /\ AsksSafely

\* What the gates let through.
ValidatedInv ==
    stage = "validated"
    => /\ verdict = "approved" /\ Trusted => decision.target \in valid /\ AsksSafely
       /\ ~decision.text.sound /\ Trusted => flagged
       /\ decision.text.handoff /\ state # "INITIAL" => decision.target = "HANDOFF_HUMAN"

IInv ==
    /\ TypeOK /\ TurnInv /\ FlagInv /\ ReviewInv /\ ValidatedInv
    /\ RulesEnforced /\ QuestionKeepsOpen /\ LaterHandoffHappens

\* The canned announcement is a decision.
LEMMA HandoffDecisionTyped == HandoffDecision \in Decision
BY TextAssumption
   DEF HandoffDecision, HandoffText, Decision, SessionState, ACTIVE_STATES, TERMINAL_STATES

\* A question keeps the session open from every state but the last.
LEMMA NormalizedAsks ==
    ASSUME state \in SessionState, ~is_terminal(state), state # "GENERATING_RESPONSE",
           NEW d \in Decision, Asks(d.text), ~d.human
    PROVE  ~is_terminal(Normalized(d).target)
<1>1. normalize_next_state(d.target, Asks(d.text), d.human)
        = FirstValid("COLLECTING_INFO", "TRIAGE", d.target)
  BY DEF normalize_next_state
<1>2. FirstValid("COLLECTING_INFO", "TRIAGE", d.target) \in {"COLLECTING_INFO", "TRIAGE"}
  BY OpenStates DEF FirstValid, valid
<1> QED
  BY <1>1, <1>2, NormalizedTyped DEF is_terminal, TERMINAL_STATES

\* After INITIAL, a decision for a human leads to one.
LEMMA NormalizedHuman ==
    ASSUME state \in SessionState, ~is_terminal(state), state # "INITIAL",
           NEW d \in Decision, d.human
    PROVE  Normalized(d).target = "HANDOFF_HUMAN"
<1>1. "HANDOFF_HUMAN" \in valid
  BY OpenStates DEF valid
<1> QED
  BY <1>1, NormalizedTyped DEF normalize_next_state, FirstValid

\* A fresh session has no turn under way.
LEMMA InitInv == Init => IInv
BY HandoffDecisionTyped, TextAssumption
   DEF Init, IInv, TypeOK, TurnInv, FlagInv, ReviewInv, ValidatedInv, RulesEnforced,
       QuestionKeepsOpen, LaterHandoffHappens, AnnouncedHandoffHappens, Replied,
       DEFAULT_INITIAL_STATE, SessionState, ACTIVE_STATES, TERMINAL_STATES
\* A turn starts: nothing is known of the decision but who asked for a human.
LEMMA BeginInv ==
    ASSUME IInv, NEW d \in Decision, d.text.handoff => d.human, Begin(d)
    PROVE  IInv'
<1>1. TypeOK'
  BY DEF IInv, TypeOK, Begin, Decision, DEFAULT_INITIAL_STATE, SessionState, ACTIVE_STATES
<1>2. TurnInv'
  BY DEF IInv, TypeOK, TurnInv, Begin, is_terminal, DEFAULT_INITIAL_STATE, TERMINAL_STATES
<1>3. FlagInv'
  BY DEF FlagInv, Begin
<1>4. ReviewInv' /\ ValidatedInv'
  BY DEF ReviewInv, ValidatedInv, Begin
<1>5. RulesEnforced' /\ QuestionKeepsOpen' /\ LaterHandoffHappens'
  BY DEF Begin, RulesEnforced, QuestionKeepsOpen, LaterHandoffHappens,
     AnnouncedHandoffHappens, Replied
<1> QED
  BY <1>1, <1>2, <1>3, <1>4, <1>5 DEF IInv

\* The guards touch the text alone, and announce no handoff of their own.
LEMMA GuardInv == IInv /\ Guard => IInv'
<1> SUFFICES ASSUME IInv, Guard PROVE IInv'
  OBVIOUS
<1>1. PICK text \in Texts : /\ text.handoff => decision.text.handoff
                            /\ decision' = [decision EXCEPT !.text = text]
  BY DEF Guard
<1>2. /\ decision' \in Decision /\ decision'.human = decision.human
      /\ decision'.text = text
  BY <1>1 DEF IInv, TypeOK, Decision
<1>3. TypeOK'
  BY <1>2 DEF IInv, TypeOK, Guard
<1>4. TurnInv' /\ FlagInv'
  BY <1>1, <1>2 DEF IInv, TurnInv, FlagInv, Guard
<1> QED
  BY <1>3, <1>4 DEF IInv, ReviewInv, ValidatedInv, Guard, RulesEnforced,
     QuestionKeepsOpen, LaterHandoffHappens, AnnouncedHandoffHappens, Replied

\* The adjustments touch the target alone.
LEMMA AdjustInv == IInv /\ Adjust => IInv'
<1> SUFFICES ASSUME IInv, Adjust PROVE IInv'
  OBVIOUS
<1>1. AdjustedTarget(decision) \in SessionState
  BY DEF IInv, TypeOK, AdjustedTarget, Decision, SessionState, ACTIVE_STATES,
     TERMINAL_STATES
<1>2. /\ decision' \in Decision /\ decision'.human = decision.human
      /\ decision'.text = decision.text
  BY <1>1 DEF IInv, TypeOK, Adjust, Decision
<1>3. TypeOK'
  BY <1>2 DEF IInv, TypeOK, Adjust
<1>4. TurnInv' /\ FlagInv'
  BY <1>2 DEF IInv, TurnInv, FlagInv, Adjust
<1> QED
  BY <1>3, <1>4 DEF IInv, ReviewInv, ValidatedInv, Adjust, RulesEnforced,
     QuestionKeepsOpen, LaterHandoffHappens, AnnouncedHandoffHappens, Replied

\* Every way out of the validation comes to this: a typed decision, a known
\* verdict and the promises of ValidatedInv.
LEMMA ConcludeInv ==
    ASSUME IInv, stage \in {"adjusted", "review"}, NEW d \in Decision,
           NEW v \in {"human", "approved"}, Conclude(d, v),
           reviewer' = reviewer, state' = state, from' = from, known' = known,
           flagged' = flagged,
           v = "approved" /\ Trusted
             => /\ d.target \in valid
                /\ Asks(d.text) => from = "GENERATING_RESPONSE" \/ ~is_terminal(d.target),
           ~d.text.sound /\ Trusted => flagged,
           d.text.handoff /\ state # "INITIAL" => d.target = "HANDOFF_HUMAN"
    PROVE  IInv'
<1>1. decision' = d /\ verdict' = v /\ stage' = "validated"
  BY DEF Conclude
<1>2. TypeOK'
  BY <1>1 DEF IInv, TypeOK
<1>3. TurnInv'
  BY <1>1 DEF IInv, TurnInv, is_terminal
<1>4. valid' = valid /\ Trusted' = Trusted
  BY DEF valid, Trusted
<1>5. ValidatedInv'
  BY <1>1, <1>4 DEF ValidatedInv, AsksSafely, Asks, is_terminal
<1> QED
  BY <1>1, <1>2, <1>3, <1>5 DEF IInv, FlagInv, ReviewInv, RulesEnforced,
     QuestionKeepsOpen, LaterHandoffHappens, AnnouncedHandoffHappens, Replied
\* Gate 1, Gate 2 and the handoffs of the validator keep the promises.
LEMMA ValidateInv == IInv /\ Validate => IInv'
<1> SUFFICES ASSUME IInv, Validate PROVE IInv'
  OBVIOUS
<1> DEFINE d == Normalized(decision)
<1>1. /\ state \in SessionState /\ ~is_terminal(state) /\ from = state
      /\ decision \in Decision
  BY DEF IInv, TypeOK, TurnInv, Validate
<1>2. d \in Decision /\ d.human = decision.human /\ d.text = decision.text
  BY <1>1, NormalizedTyped DEF IInv, TypeOK
<1>3. stage = "adjusted" /\ UNCHANGED <<reviewer, state, from, known, flagged>>
  BY DEF Validate
<1>4. (d.text.handoff => d.human) /\ (d.human => flagged)
  BY <1>2, <1>3 DEF IInv, FlagInv
<1>5. ~d.human => (Asks(d.text) => from = "GENERATING_RESPONSE" \/ ~is_terminal(d.target))
  <2> SUFFICES ASSUME ~decision.human, Asks(decision.text), state # "GENERATING_RESPONSE"
               PROVE  ~is_terminal(d.target)
    BY <1>1, <1>2
  <2> QED
    BY <1>1, NormalizedAsks DEF IInv, TypeOK
<1>6. HandoffDecision \in Decision /\ HandoffDecision.text.sound
      /\ HandoffDecision.target = "HANDOFF_HUMAN"
  BY HandoffDecisionTyped DEF HandoffDecision, HandoffText
<1>7. CASE d.human /\ Conclude(d, "human")
  <2>1. state # "INITIAL" => d.target = "HANDOFF_HUMAN"
    BY <1>1, <1>2, <1>7, NormalizedHuman DEF IInv, TypeOK
  <2> QED
    BY <1>2, <1>3, <1>4, <1>7, <2>1, ConcludeInv
<1>8. CASE ~d.human /\ ~RulesKept(d) /\ Conclude(HandoffDecision, "human")
  BY <1>3, <1>6, <1>8, ConcludeInv
<1>9. CASE ~d.human /\ RulesKept(d) /\ d.sure /\ Conclude(d, "approved")
  <2>1. d.target \in valid /\ d.text.sound /\ ~d.text.handoff
    BY <1>4, <1>9 DEF RulesKept
  <2> QED
    BY <1>2, <1>3, <1>5, <1>9, <2>1, ConcludeInv
<1>10. CASE ~d.human /\ RulesKept(d) /\ Conclude(Normalized([d EXCEPT !.human = TRUE]), "human")
  <2> DEFINE e == [d EXCEPT !.human = TRUE]
  <2>1. e \in Decision /\ e.text = d.text
    BY <1>2 DEF Decision
  <2>2. Normalized(e) \in Decision /\ Normalized(e).text = d.text
    BY <1>1, <2>1, NormalizedTyped
  <2>3. d.text.sound /\ ~d.text.handoff
    BY <1>4, <1>10 DEF RulesKept
  <2> QED
    BY <1>3, <1>10, <2>2, <2>3, ConcludeInv
<1>11. CASE /\ ~d.human /\ RulesKept(d)
            /\ decision' = d /\ stage' = "review" /\ UNCHANGED verdict
  <2>1. TypeOK' /\ TurnInv'
    BY <1>1, <1>2, <1>3, <1>11 DEF IInv, TypeOK, TurnInv, is_terminal
  <2>2. ReviewInv'
    BY <1>3, <1>4, <1>5, <1>11 DEF ReviewInv, RulesKept, AsksSafely, Asks, valid, is_terminal
  <2> QED
    BY <1>11, <2>1, <2>2 DEF IInv, FlagInv, ValidatedInv, RulesEnforced,
       QuestionKeepsOpen, LaterHandoffHappens, AnnouncedHandoffHappens, Replied
<1> QED
  BY <1>7, <1>8, <1>9, <1>10, <1>11 DEF Validate

\* So does the stub of a reviewer; a model for one is not trusted to.
LEMMA ReviewedInv == IInv /\ Review => IInv'
<1> SUFFICES ASSUME IInv, Review PROVE IInv'
  OBVIOUS
<1>1. stage = "review" /\ UNCHANGED <<reviewer, state, from, known, flagged>>
  BY DEF Review
<1>2. CASE reviewer = "stub" /\ Conclude(decision, "approved")
  <2>1. /\ decision \in Decision /\ RulesKept(decision)
        /\ ~decision.text.handoff /\ AsksSafely
    BY <1>1 DEF IInv, TypeOK, ReviewInv
  <2> QED
    BY <1>1, <1>2, <2>1, ConcludeInv DEF RulesKept, AsksSafely
<1>3. CASE /\ reviewer = "model"
           /\ \E d \in Decision :
                 ~d.human /\ ~d.text.handoff /\ Conclude(d, "approved")
  <2>1. PICK d \in Decision : ~d.text.handoff /\ Conclude(d, "approved")
    BY <1>3
  <2> QED
    BY <1>1, <1>3, <2>1, ConcludeInv DEF Trusted
<1>4. CASE Conclude(HandoffDecision, "human")
  <2>1. HandoffDecision.text.sound /\ HandoffDecision.target = "HANDOFF_HUMAN"
    BY DEF HandoffDecision, HandoffText
  <2> QED
    BY <1>1, <1>4, <2>1, HandoffDecisionTyped, ConcludeInv
<1> QED
  BY <1>2, <1>3, <1>4 DEF Review

\* What was promised of the decision becomes a fact about the session.
LEMMA ApplyInv == IInv /\ Apply => IInv'
<1> SUFFICES ASSUME IInv, Apply PROVE IInv'
  OBVIOUS
<1>1. /\ stage = "validated" /\ stage' = "idle"
      /\ state' = transition(state, decision.target)
      /\ UNCHANGED <<reviewer, from, known, flagged, decision, verdict>>
  BY DEF Apply
<1>2. /\ state \in SessionState /\ ~is_terminal(state) /\ from = state
      /\ decision.target \in SessionState
  BY <1>1 DEF IInv, TypeOK, TurnInv, Decision
<1>3. TypeOK'
  BY <1>1, <1>2, TransitionTyped DEF IInv, TypeOK
<1>4. TurnInv' /\ FlagInv' /\ ReviewInv' /\ ValidatedInv'
  BY <1>1 DEF TurnInv, FlagInv, ReviewInv, ValidatedInv
<1>5. RulesEnforced'
  BY <1>1 DEF IInv, ValidatedInv, RulesEnforced, Replied, Trusted
<1>6. QuestionKeepsOpen'
  <2>1. state' = decision.target \/ state' = state
    BY <1>1 DEF transition
  <2> QED
    BY <1>1, <1>2, <2>1
       DEF IInv, ValidatedInv, AsksSafely, QuestionKeepsOpen, Trusted, Asks, is_terminal
<1>7. LaterHandoffHappens'
  <2> SUFFICES ASSUME from # "INITIAL", decision.text.handoff
               PROVE  state' = "HANDOFF_HUMAN"
    BY <1>1 DEF LaterHandoffHappens, AnnouncedHandoffHappens, Replied
  <2>1. decision.target = "HANDOFF_HUMAN"
    BY <1>1, <1>2 DEF IInv, ValidatedInv
  <2>2. "HANDOFF_HUMAN" \in VALID_TRANSITIONS[state]
    BY <1>2, OpenStates
  <2> QED
    BY <1>1, <1>2, <2>1, <2>2, ValidIsAccepted
<1> QED
  BY <1>3, <1>4, <1>5, <1>6, <1>7 DEF IInv

\* A turn given up promises nothing.
LEMMA AbortInv == IInv /\ Abort => IInv'
BY DEF IInv, Abort, TypeOK, TurnInv, FlagInv, ReviewInv, ValidatedInv, RulesEnforced,
   QuestionKeepsOpen, LaterHandoffHappens, AnnouncedHandoffHappens, Replied

\* Nothing else changes the turn.
LEMMA StutterInv == IInv /\ UNCHANGED vars => IInv'
<1> SUFFICES ASSUME IInv, UNCHANGED vars PROVE IInv'
  OBVIOUS
<1>1. /\ reviewer' = reviewer /\ stage' = stage /\ state' = state /\ from' = from
      /\ known' = known /\ flagged' = flagged /\ decision' = decision
      /\ verdict' = verdict
  BY DEF vars
<1>2. TypeOK' /\ TurnInv' /\ FlagInv'
  BY <1>1 DEF IInv, TypeOK, TurnInv, FlagInv, is_terminal
<1>3. AsksSafely' = AsksSafely /\ RulesKept(decision)' = RulesKept(decision)
      /\ valid' = valid /\ Trusted' = Trusted
  BY <1>1 DEF AsksSafely, Asks, RulesKept, valid, is_terminal, Trusted
<1>4. ReviewInv' /\ ValidatedInv'
  BY <1>1, <1>3 DEF IInv, ReviewInv, ValidatedInv
<1>5. RulesEnforced' /\ QuestionKeepsOpen' /\ LaterHandoffHappens'
  BY <1>1, <1>3 DEF IInv, RulesEnforced, QuestionKeepsOpen, LaterHandoffHappens,
     AnnouncedHandoffHappens, Replied, Asks, is_terminal
<1> QED
  BY <1>2, <1>4, <1>5 DEF IInv

\* Every step keeps the invariant.
LEMMA NextInv == IInv /\ [Next]_vars => IInv'
<1> SUFFICES ASSUME IInv, [Next]_vars PROVE IInv'
  OBVIOUS
<1>1. CASE Decide
  <2>1. PICK d \in Decision : ~d.text.handoff /\ Begin(d)
    BY <1>1 DEF Decide
  <2> QED
    BY <2>1, BeginInv
<1>2. CASE DecideFails
  <2>1. Begin(HandoffDecision) /\ HandoffDecision.human
    BY <1>2 DEF DecideFails, HandoffDecision
  <2> QED
    BY <2>1, HandoffDecisionTyped, BeginInv
<1>3. CASE Guard \/ Adjust \/ Validate \/ Review \/ Apply \/ Abort
  BY <1>3, GuardInv, AdjustInv, ValidateInv, ReviewedInv, ApplyInv, AbortInv
<1>4. CASE UNCHANGED vars
  BY <1>4, StutterInv
<1> QED
  BY <1>1, <1>2, <1>3, <1>4 DEF Next

\* The inductive invariant holds in every state of every run of turns.
THEOREM DecisionInvariant == Spec => []IInv
BY InitInv, NextInv, PTL DEF Spec

-----------------------------------------------------------------------------
(* Theorems                                                                *)

\* Whatever the model answers, each variable keeps its type.
THEOREM DecisionTyped == Spec => []TypeOK
<1>1. IInv => TypeOK
  BY DEF IInv
<1> QED
  BY <1>1, DecisionInvariant, PTL

\* Where the reviewer is absent or the stub, the state machine refuses no
\* decision the validator approved, whatever the model asked for and whatever
\* the guards and adjustments made of it (decision_validator.py, machine.py).
THEOREM ApprovedAccepted == Spec => []ApprovedIsAccepted
<1>1. IInv => ApprovedIsAccepted
  <2> SUFFICES ASSUME IInv, stage = "validated", verdict = "approved", Trusted
               PROVE  can_transition_to(state, decision.target)
    BY DEF ApprovedIsAccepted
  <2>1. state \in SessionState /\ ~is_terminal(state) /\ decision.target \in VALID_TRANSITIONS[state]
    BY DEF IInv, TypeOK, TurnInv, ValidatedInv, valid
  <2> QED
    BY <2>1, ValidIsAccepted
<1> QED
  BY <1>1, DecisionInvariant, PTL

\* A text that breaks the rules leaves only in a decision the agent flagged
\* for a human: no path but the skip of Gate 1 lets one through.
THEOREM RulesAlwaysEnforced == Spec => []RulesEnforced
<1>1. IInv => RulesEnforced
  BY DEF IInv
<1> QED
  BY <1>1, DecisionInvariant, PTL

\* A reply that asks a question leaves the session open, so that the answer
\* finds its history, unless the session was in GENERATING_RESPONSE.
THEOREM QuestionsKeepSessionsOpen == Spec => []QuestionKeepsOpen
<1>1. IInv => QuestionKeepsOpen
  BY DEF IInv
<1> QED
  BY <1>1, DecisionInvariant, PTL

\* A handoff announced after INITIAL takes place, whatever produced it: a
\* failure of the model, a gate, or the reviewer.
THEOREM HandoffsHappen == Spec => []LaterHandoffHappens
<1>1. IInv => LaterHandoffHappens
  BY DEF IInv
<1> QED
  BY <1>1, DecisionInvariant, PTL
=============================================================================

----------------------- MODULE InboundPipelineProofs -----------------------
(***************************************************************************)
(* Theorems about InboundPipeline for every set of handlers, messages,     *)
(* payloads and senders, every bound on deliveries and every deployment.   *)
(***************************************************************************)
EXTENDS InboundPipeline, SequenceTheorems, TLAPS

-----------------------------------------------------------------------------
(* Lemmas about the data.                                                  *)

\* Whatever the agent proposes, the state machine answers with a state.
LEMMA TransitionType ==
    ASSUME NEW state \in SessionState, NEW target
    PROVE  transition(state, target) \in SessionState
BY DEF transition, can_transition_to, evaluate_guards, guard_valid_state

\* A payload is not empty, and its positions hold messages.
LEMMA BatchPositions ==
    ASSUME NEW p \in Payloads
    PROVE  /\ Len(Batch[p]) \in Nat
           /\ 1 \in 1..Len(Batch[p])
           /\ \A i \in 1..Len(Batch[p]) : Batch[p][i] \in Messages
<1>1. Batch[p] \in Seq(Messages) /\ Batch[p] # <<>>
    BY BatchAssumption
<1> QED
    BY <1>1, EmptySeq

\* A session that exists is a record with a state and a list of turns.
LEMMA SessionParts ==
    ASSUME NEW s \in SessionType, s # NoSession
    PROVE  s.state \in SessionState /\ s.turns \in Seq(Messages)
BY DEF SessionType

\* A fresh session is a session, and no session is not.
LEMMA SessionTypes ==
    /\ NoSession \in SessionType
    /\ FreshSession \in SessionType
    /\ FreshSession # NoSession
<1>1. NoSession \in SessionType
    BY DEF SessionType
<1>2. FreshSession \in [state : SessionState, turns : Seq(Messages)]
    <2>1. DEFAULT_INITIAL_STATE \in SessionState
        BY DEF SessionState, ACTIVE_STATES, DEFAULT_INITIAL_STATE
    <2>2. <<>> \in Seq(Messages)
        BY EmptySeq
    <2> QED
        BY <2>1, <2>2 DEF FreshSession, Session
<1> QED
    BY <1>1, <1>2, SentinelAssumption DEF SessionType

\* What a save writes is a session.
LEMMA SavedSessionType ==
    ASSUME NEW s \in SessionType, s # NoSession, NEW m \in Messages,
           NEW state \in NextStates(m, s.state)
    PROVE  Session(state, Append(s.turns, m)) \in SessionType
<1>1. s.state \in SessionState /\ s.turns \in Seq(Messages)
    BY SessionParts
<1>2. state \in SessionState
    BY <1>1, TransitionType DEF NextStates
<1> QED
    BY <1>1, <1>2 DEF Session, SessionType

-----------------------------------------------------------------------------
(* The inductive invariant: types, and the order of the marks.             *)

Inv == TypeOK /\ PipelineInv

\* The message a busy handler stands at is a message.
LEMMA CurrentType ==
    ASSUME Inv, NEW w \in Workers, Busy(w)
    PROVE  /\ job[w] \in Payloads
           /\ idx[w] \in 1..Len(Batch[job[w]])
           /\ Current(w) \in Messages
BY BatchPositions DEF Inv, PipelineInv, AtMessage, Current

\* The invariant holds at the start.
LEMMA InitInv == Init => Inv
<1> SUFFICES ASSUME Init PROVE Inv
    OBVIOUS
<1>1. TypeOK
    BY DeploymentAssumption, DeliveryAssumption 
    DEF Init, TypeOK, ControlType, PositionType, SessionsType, StoresType,
        HistoryType, SessionType
<1>2. PipelineInv
    BY DEF Init, PipelineInv, AtMessage, HoldsSession, AttemptedFirst,
           RecordedFirst, MarksOrdered, Busy
<1> QED
    BY <1>1, <1>2 DEF Inv

\* A handler takes a payload: it stands at its first message.
\* The next message of the payload, if there is one.
LEMMA AdvanceStays ==
    ASSUME Inv, NEW w \in Workers, Busy(w), Advance(w), job' = job
    PROVE  (PositionType /\ AtMessage)'
<1> USE DEF Inv, TypeOK, ControlType, PositionType, PipelineInv, AtMessage, Busy
<1>1. Len(Batch[job[w]]) \in Nat /\ idx[w] \in 1..Len(Batch[job[w]])
    BY BatchPositions
<1>2. CASE idx[w] < Len(Batch[job[w]])
    <2>1. idx' = [idx EXCEPT ![w] = @ + 1]
        BY <1>2 DEF Advance
    <2>2. pc' = [pc EXCEPT ![w] = "check"]
        BY <1>2 DEF Advance, Goto
    <2>3. idx[w] + 1 \in Nat /\ idx[w] + 1 \in 1..Len(Batch[job[w]])
        BY <1>1, <1>2
    <2>4. PositionType'
        BY <2>1, <2>3
    <2>5. AtMessage'
        BY <2>1, <2>2, <2>3
    <2> QED
        BY <2>4, <2>5
<1>3. CASE ~(idx[w] < Len(Batch[job[w]]))
    BY <1>3 DEF Advance, Goto
<1> QED
    BY <1>2, <1>3

\* A handler takes a payload: it stands at its first message.
LEMMA DeliverInv ==
    ASSUME Inv, NEW w \in Workers, NEW p \in Payloads, Deliver(w, p)
    PROVE  Inv'
<1> USE DEF Inv, TypeOK, ControlType, PositionType, SessionsType,
        StoresType, HistoryType, PipelineInv, Deliver, MayDeliver,
        Goto, Current, Busy, hosts, dedupe, meta, history
<1>1. ControlType'
    OBVIOUS
<1>2. PositionType'
    OBVIOUS
<1>3. SessionsType'
    OBVIOUS
<1>4. StoresType'
    BY DeliveryAssumption
<1>5. HistoryType'
    OBVIOUS
<1>6. AtMessage'
    BY BatchPositions DEF AtMessage
<1>7. HoldsSession'
    BY DEF HoldsSession
<1>8. AttemptedFirst'
    BY DEF AttemptedFirst
<1>9. RecordedFirst'
    BY DEF RecordedFirst
<1>10. MarksOrdered'
    BY DEF MarksOrdered
<1> QED
    BY <1>1, <1>2, <1>3, <1>4, <1>5, <1>6, <1>7, <1>8, <1>9, <1>10

\* A skipped message leaves the stores alone; the handler moves on.
LEMMA SkipInv ==
    ASSUME Inv, NEW w \in Workers, Skip(w)
    PROVE  Inv'
<1> USE DEF Inv, TypeOK, ControlType, PositionType, SessionsType,
        StoresType, HistoryType, PipelineInv, Skip, Advance, Goto,
        Current, Busy, hosts, dedupe, meta, history
<1>1. ControlType'
    OBVIOUS
<1>2. PositionType'
    BY AdvanceStays
<1>3. SessionsType'
    OBVIOUS
<1>4. StoresType'
    OBVIOUS
<1>5. HistoryType'
    OBVIOUS
<1>6. AtMessage'
    BY AdvanceStays
<1>7. HoldsSession'
    BY DEF HoldsSession
<1>8. AttemptedFirst'
    BY DEF AttemptedFirst
<1>9. RecordedFirst'
    BY DEF RecordedFirst
<1>10. MarksOrdered'
    BY DEF MarksOrdered
<1> QED
    BY <1>1, <1>2, <1>3, <1>4, <1>5, <1>6, <1>7, <1>8, <1>9, <1>10

\* The handler enters the pipeline.
LEMMA EnterInv ==
    ASSUME Inv, NEW w \in Workers, Enter(w)
    PROVE  Inv'
<1> USE DEF Inv, TypeOK, ControlType, PositionType, SessionsType,
        StoresType, HistoryType, PipelineInv, Enter, Goto,
        Current, Busy, hosts, dedupe, meta, history
<1>1. Current(w) \in Messages
    BY BatchPositions DEF AtMessage
<1>2. ControlType'
    OBVIOUS
<1>3. PositionType'
    OBVIOUS
<1>4. SessionsType'
    OBVIOUS
<1>5. StoresType'
    BY <1>1
<1>6. HistoryType'
    OBVIOUS
<1>7. AtMessage'
    BY DEF AtMessage
<1>8. HoldsSession'
    BY DEF HoldsSession
<1>9. AttemptedFirst'
    BY DEF AttemptedFirst
<1>10. RecordedFirst'
    BY DEF RecordedFirst
<1>11. MarksOrdered'
    BY DEF MarksOrdered
<1> QED
    BY <1>2, <1>3, <1>4, <1>5, <1>6, <1>7, <1>8, <1>9, <1>10, <1>11

\* The processing lock is set.
LEMMA MarkInv ==
    ASSUME Inv, NEW w \in Workers, Mark(w)
    PROVE  Inv'
<1> USE DEF Inv, TypeOK, ControlType, PositionType, SessionsType,
        StoresType, HistoryType, PipelineInv, Mark, Goto, Current,
        Busy, hosts, dedupe, meta, history
<1>1. Current(w) \in Messages
    BY BatchPositions DEF AtMessage
<1>2. ControlType'
    OBVIOUS
<1>3. PositionType'
    OBVIOUS
<1>4. SessionsType'
    OBVIOUS
<1>5. StoresType'
    BY <1>1
<1>6. HistoryType'
    OBVIOUS
<1>7. AtMessage'
    BY DEF AtMessage
<1>8. HoldsSession'
    BY DEF HoldsSession
<1>9. AttemptedFirst'
    BY DEF AttemptedFirst
<1>10. RecordedFirst'
    BY DEF RecordedFirst
<1>11. MarksOrdered'
    BY DEF MarksOrdered
<1> QED
    BY <1>2, <1>3, <1>4, <1>5, <1>6, <1>7, <1>8, <1>9, <1>10, <1>11

\* The check or the mark fails.
LEMMA DedupeFailsInv ==
    ASSUME Inv, NEW w \in Workers, DedupeFails(w)
    PROVE  Inv'
<1> USE DEF Inv, TypeOK, ControlType, PositionType, SessionsType,
        StoresType, HistoryType, PipelineInv, DedupeFails, Fail,
        Cut, Goto, Current, Busy, hosts, dedupe, meta, history
<1>1. Current(w) \in Messages
    BY BatchPositions DEF AtMessage
<1>2. ControlType'
    OBVIOUS
<1>3. PositionType'
    OBVIOUS
<1>4. SessionsType'
    OBVIOUS
<1>5. StoresType'
    BY <1>1
<1>6. HistoryType'
    BY <1>1
<1>7. AtMessage'
    BY DEF AtMessage
<1>8. HoldsSession'
    BY DEF HoldsSession
<1>9. AttemptedFirst'
    BY DEF AttemptedFirst
<1>10. RecordedFirst'
    BY DEF RecordedFirst
<1>11. MarksOrdered'
    BY DEF MarksOrdered
<1> QED
    BY <1>2, <1>3, <1>4, <1>5, <1>6, <1>7, <1>8, <1>9, <1>10, <1>11

\* The handler takes up the stored session, or a fresh one.
LEMMA LoadInv ==
    ASSUME Inv, NEW w \in Workers, Load(w)
    PROVE  Inv'
<1> USE DEF Inv, TypeOK, ControlType, PositionType, SessionsType,
        StoresType, HistoryType, PipelineInv, Load, TakeUp, StartFresh, Goto, Current,
        Busy, hosts, dedupe, meta, history
<1>1. Current(w) \in Messages
    BY BatchPositions DEF AtMessage
<1>2. ControlType'
    OBVIOUS
<1>3. PositionType'
    OBVIOUS
<1>4. SessionsType'
    BY <1>1, SessionTypes, SenderAssumption
<1>5. StoresType'
    OBVIOUS
<1>6. HistoryType'
    OBVIOUS
<1>7. AtMessage'
    BY DEF AtMessage
<1>8. HoldsSession'
    BY SessionTypes DEF HoldsSession, Reusable
<1>9. AttemptedFirst'
    BY DEF AttemptedFirst
<1>10. RecordedFirst'
    BY DEF RecordedFirst
<1>11. MarksOrdered'
    BY DEF MarksOrdered
<1> QED
    BY <1>2, <1>3, <1>4, <1>5, <1>6, <1>7, <1>8, <1>9, <1>10, <1>11

\* The fresh session is stored.
LEMMA CreateInv ==
    ASSUME Inv, NEW w \in Workers, Create(w)
    PROVE  Inv'
<1> USE DEF Inv, TypeOK, ControlType, PositionType, SessionsType,
        StoresType, HistoryType, PipelineInv, Create, Goto,
        Current, Busy, hosts, dedupe, meta, history
<1>1. Current(w) \in Messages
    BY BatchPositions DEF AtMessage
<1>2. ControlType'
    OBVIOUS
<1>3. PositionType'
    OBVIOUS
<1>4. SessionsType'
    BY <1>1
<1>5. StoresType'
    OBVIOUS
<1>6. HistoryType'
    OBVIOUS
<1>7. AtMessage'
    BY DEF AtMessage
<1>8. HoldsSession'
    BY DEF HoldsSession
<1>9. AttemptedFirst'
    BY DEF AttemptedFirst
<1>10. RecordedFirst'
    BY DEF RecordedFirst
<1>11. MarksOrdered'
    BY DEF MarksOrdered
<1> QED
    BY <1>2, <1>3, <1>4, <1>5, <1>6, <1>7, <1>8, <1>9, <1>10, <1>11

\* The effect of the message is attempted.
LEMMA EffectInv ==
    ASSUME Inv, NEW w \in Workers, Effect(w)
    PROVE  Inv'
<1> USE DEF Inv, TypeOK, ControlType, PositionType, SessionsType,
        StoresType, HistoryType, PipelineInv, Effect, Goto,
        Current, Busy, hosts, dedupe, meta, history
<1>1. Current(w) \in Messages
    BY BatchPositions DEF AtMessage
<1>2. ControlType'
    OBVIOUS
<1>3. PositionType'
    OBVIOUS
<1>4. SessionsType'
    OBVIOUS
<1>5. StoresType'
    OBVIOUS
<1>6. HistoryType'
    BY <1>1
<1>7. AtMessage'
    BY DEF AtMessage
<1>8. HoldsSession'
    BY DEF HoldsSession
<1>9. AttemptedFirst'
    BY DEF AttemptedFirst
<1>10. RecordedFirst'
    BY DEF RecordedFirst
<1>11. MarksOrdered'
    BY DEF MarksOrdered
<1> QED
    BY <1>2, <1>3, <1>4, <1>5, <1>6, <1>7, <1>8, <1>9, <1>10, <1>11

\* The decision and the turn are saved.
LEMMA SaveInv ==
    ASSUME Inv, NEW w \in Workers, Save(w)
    PROVE  Inv'
<1> USE DEF Inv, TypeOK, ControlType, PositionType, SessionsType,
        StoresType, HistoryType, PipelineInv, Save, Goto, Current,
        Busy, hosts, dedupe, meta, history
<1>1. Current(w) \in Messages
    BY BatchPositions DEF AtMessage
<1>2. PICK state \in NextStates(Current(w), sess[w].state) :
          sessions' = [sessions EXCEPT ![Sender[Current(w)]] =
                          Session(state, Append(sess[w].turns, Current(w)))]
    OBVIOUS
<1>3. Session(state, Append(sess[w].turns, Current(w))) \in SessionType
    BY <1>1, <1>2, SavedSessionType DEF HoldsSession
<1>4. ControlType'
    OBVIOUS
<1>5. PositionType'
    OBVIOUS
<1>6. SessionsType'
    BY <1>2, <1>3
<1>7. StoresType'
    OBVIOUS
<1>8. HistoryType'
    BY <1>1
<1>9. AtMessage'
    BY DEF AtMessage
<1>10. HoldsSession'
    BY DEF HoldsSession
<1>11. AttemptedFirst'
    BY DEF AttemptedFirst
<1>12. RecordedFirst'
    BY DEF RecordedFirst
<1>13. MarksOrdered'
    BY DEF MarksOrdered, AttemptedFirst
<1> QED
    BY <1>4, <1>5, <1>6, <1>7, <1>8, <1>9, <1>10, <1>11, <1>12, <1>13

\* The message is marked; attempted and recorded came before.
LEMMA FinishInv ==
    ASSUME Inv, NEW w \in Workers, Finish(w)
    PROVE  Inv'
<1> USE DEF Inv, TypeOK, ControlType, PositionType, SessionsType,
        StoresType, HistoryType, PipelineInv, Finish,
        MarkProcessed, Advance, Goto, Current, Busy, hosts,
        dedupe, meta, history
<1>1. Current(w) \in Messages
    BY BatchPositions DEF AtMessage
<1>2. ControlType'
    OBVIOUS
<1>3. PositionType'
    BY AdvanceStays
<1>4. SessionsType'
    BY SessionTypes
<1>5. StoresType'
    BY <1>1
<1>6. HistoryType'
    BY <1>1
<1>7. AtMessage'
    BY AdvanceStays
<1>8. HoldsSession'
    BY DEF HoldsSession
<1>9. AttemptedFirst'
    BY DEF AttemptedFirst
<1>10. RecordedFirst'
    BY DEF RecordedFirst
<1>11. MarksOrdered'
    BY DEF MarksOrdered, RecordedFirst
<1> QED
    BY <1>2, <1>3, <1>4, <1>5, <1>6, <1>7, <1>8, <1>9, <1>10, <1>11

\* The message is marked and the handler told it was not.
LEMMA FinishFailsInv ==
    ASSUME Inv, NEW w \in Workers, FinishFails(w)
    PROVE  Inv'
<1> USE DEF Inv, TypeOK, ControlType, PositionType, SessionsType,
        StoresType, HistoryType, PipelineInv, FinishFails,
        MarkProcessed, Fail, Cut, Goto, Current, Busy, hosts,
        dedupe, meta, history
<1>1. Current(w) \in Messages
    BY BatchPositions DEF AtMessage
<1>2. ControlType'
    OBVIOUS
<1>3. PositionType'
    OBVIOUS
<1>4. SessionsType'
    OBVIOUS
<1>5. StoresType'
    BY <1>1
<1>6. HistoryType'
    BY <1>1
<1>7. AtMessage'
    BY DEF AtMessage
<1>8. HoldsSession'
    BY DEF HoldsSession
<1>9. AttemptedFirst'
    BY DEF AttemptedFirst
<1>10. RecordedFirst'
    BY DEF RecordedFirst
<1>11. MarksOrdered'
    BY DEF MarksOrdered, RecordedFirst
<1> QED
    BY <1>2, <1>3, <1>4, <1>5, <1>6, <1>7, <1>8, <1>9, <1>10, <1>11

\* An exception inside the pipeline.
LEMMA RaiseInv ==
    ASSUME Inv, NEW w \in Workers, Raise(w)
    PROVE  Inv'
<1> USE DEF Inv, TypeOK, ControlType, PositionType, SessionsType,
        StoresType, HistoryType, PipelineInv, Raise, Fail, Cut,
        Goto, Current, Busy, hosts, dedupe, meta, history
<1>1. Current(w) \in Messages
    BY BatchPositions DEF AtMessage
<1>2. ControlType'
    OBVIOUS
<1>3. PositionType'
    OBVIOUS
<1>4. SessionsType'
    OBVIOUS
<1>5. StoresType'
    OBVIOUS
<1>6. HistoryType'
    BY <1>1
<1>7. AtMessage'
    BY DEF AtMessage
<1>8. HoldsSession'
    BY DEF HoldsSession
<1>9. AttemptedFirst'
    BY DEF AttemptedFirst
<1>10. RecordedFirst'
    BY DEF RecordedFirst
<1>11. MarksOrdered'
    BY DEF MarksOrdered
<1> QED
    BY <1>2, <1>3, <1>4, <1>5, <1>6, <1>7, <1>8, <1>9, <1>10, <1>11

\* The lock is dropped.
LEMMA UnmarkInv ==
    ASSUME Inv, NEW w \in Workers, Unmark(w)
    PROVE  Inv'
<1> USE DEF Inv, TypeOK, ControlType, PositionType, SessionsType,
        StoresType, HistoryType, PipelineInv, Unmark, Goto,
        Current, Busy, hosts, dedupe, meta, history
<1>1. ControlType'
    OBVIOUS
<1>2. PositionType'
    OBVIOUS
<1>3. SessionsType'
    OBVIOUS
<1>4. StoresType'
    OBVIOUS
<1>5. HistoryType'
    OBVIOUS
<1>6. AtMessage'
    BY DEF AtMessage
<1>7. HoldsSession'
    BY DEF HoldsSession
<1>8. AttemptedFirst'
    BY DEF AttemptedFirst
<1>9. RecordedFirst'
    BY DEF RecordedFirst
<1>10. MarksOrdered'
    BY DEF MarksOrdered
<1> QED
    BY <1>1, <1>2, <1>3, <1>4, <1>5, <1>6, <1>7, <1>8, <1>9, <1>10

\* The handler answers and is free again.
LEMMA RespondInv ==
    ASSUME Inv, NEW w \in Workers, Respond(w)
    PROVE  Inv'
<1> USE DEF Inv, TypeOK, ControlType, PositionType, SessionsType,
        StoresType, HistoryType, PipelineInv, Respond, Release,
        Goto, Current, Busy, hosts, dedupe, meta, history
<1>1. job[w] \in Payloads
    BY DEF AtMessage
<1>2. ControlType'
    OBVIOUS
<1>3. PositionType'
    OBVIOUS
<1>4. SessionsType'
    BY SessionTypes
<1>5. StoresType'
    BY <1>1
<1>6. HistoryType'
    BY <1>1
<1>7. AtMessage'
    BY DEF AtMessage
<1>8. HoldsSession'
    BY DEF HoldsSession
<1>9. AttemptedFirst'
    BY DEF AttemptedFirst
<1>10. RecordedFirst'
    BY DEF RecordedFirst
<1>11. MarksOrdered'
    BY DEF MarksOrdered
<1> QED
    BY <1>2, <1>3, <1>4, <1>5, <1>6, <1>7, <1>8, <1>9, <1>10, <1>11

\* One handler stops.
LEMMA CrashInv ==
    ASSUME Inv, NEW w \in Workers, Crash(w)
    PROVE  Inv'
<1> USE DEF Inv, TypeOK, ControlType, PositionType, SessionsType,
        StoresType, HistoryType, PipelineInv, Crash, Release, Cut,
        Goto, Current, Busy, hosts, dedupe, meta, history
<1>1. Current(w) \in Messages
    BY BatchPositions DEF AtMessage
<1>2. ControlType'
    OBVIOUS
<1>3. PositionType'
    OBVIOUS
<1>4. SessionsType'
    BY SessionTypes
<1>5. StoresType'
    OBVIOUS
<1>6. HistoryType'
    BY <1>1
<1>7. AtMessage'
    BY DEF AtMessage
<1>8. HoldsSession'
    BY DEF HoldsSession
<1>9. AttemptedFirst'
    BY DEF AttemptedFirst
<1>10. RecordedFirst'
    BY DEF RecordedFirst
<1>11. MarksOrdered'
    BY DEF MarksOrdered
<1> QED
    BY <1>2, <1>3, <1>4, <1>5, <1>6, <1>7, <1>8, <1>9, <1>10, <1>11

\* All handlers stop and the in-memory stores are empty.
LEMMA RestartInv ==
    ASSUME Inv, Restart
    PROVE  Inv'
<1> USE DEF Inv, TypeOK, ControlType, PositionType, SessionsType,
        StoresType, HistoryType, PipelineInv, Restart, Current,
        Busy, hosts, dedupe, meta, history
<1>1. ControlType'
    OBVIOUS
<1>2. PositionType'
    OBVIOUS
<1>3. SessionsType'
    BY SessionTypes
<1>4. StoresType'
    OBVIOUS
<1>5. HistoryType'
    OBVIOUS
<1>6. AtMessage'
    BY DEF AtMessage
<1>7. HoldsSession'
    BY DEF HoldsSession
<1>8. AttemptedFirst'
    BY DEF AttemptedFirst
<1>9. RecordedFirst'
    BY DEF RecordedFirst
<1>10. MarksOrdered'
    BY DEF MarksOrdered
<1> QED
    BY <1>1, <1>2, <1>3, <1>4, <1>5, <1>6, <1>7, <1>8, <1>9, <1>10

\* A lock ends.
LEMMA ExpireLockInv ==
    ASSUME Inv, NEW m \in Messages, ExpireLock(m)
    PROVE  Inv'
<1> USE DEF Inv, TypeOK, ControlType, PositionType, SessionsType,
        StoresType, HistoryType, PipelineInv, ExpireLock, Current,
        Busy, hosts, dedupe, meta, history
<1>1. ControlType'
    OBVIOUS
<1>2. PositionType'
    OBVIOUS
<1>3. SessionsType'
    OBVIOUS
<1>4. StoresType'
    OBVIOUS
<1>5. HistoryType'
    OBVIOUS
<1>6. AtMessage'
    BY DEF AtMessage
<1>7. HoldsSession'
    BY DEF HoldsSession
<1>8. AttemptedFirst'
    BY DEF AttemptedFirst
<1>9. RecordedFirst'
    BY DEF RecordedFirst
<1>10. MarksOrdered'
    BY DEF MarksOrdered
<1> QED
    BY <1>1, <1>2, <1>3, <1>4, <1>5, <1>6, <1>7, <1>8, <1>9, <1>10

\* A mark ends.
LEMMA ExpireMarkInv ==
    ASSUME Inv, NEW m \in Messages, ExpireMark(m)
    PROVE  Inv'
<1> USE DEF Inv, TypeOK, ControlType, PositionType, SessionsType,
        StoresType, HistoryType, PipelineInv, ExpireMark, Current,
        Busy, hosts, dedupe, meta, history
<1>1. ControlType'
    OBVIOUS
<1>2. PositionType'
    OBVIOUS
<1>3. SessionsType'
    OBVIOUS
<1>4. StoresType'
    OBVIOUS
<1>5. HistoryType'
    OBVIOUS
<1>6. AtMessage'
    BY DEF AtMessage
<1>7. HoldsSession'
    BY DEF HoldsSession
<1>8. AttemptedFirst'
    BY DEF AttemptedFirst
<1>9. RecordedFirst'
    BY DEF RecordedFirst
<1>10. MarksOrdered'
    BY DEF MarksOrdered
<1> QED
    BY <1>1, <1>2, <1>3, <1>4, <1>5, <1>6, <1>7, <1>8, <1>9, <1>10

\* The Redis key of a session ends.
LEMMA ExpireSessionInv ==
    ASSUME Inv, NEW s \in Senders, ExpireSession(s)
    PROVE  Inv'
<1> USE DEF Inv, TypeOK, PipelineInv, ExpireSession, hosts, dedupe, meta, history
<1>1. ControlType' /\ PositionType'
    BY DEF ControlType, PositionType
<1>2. SessionsType'
    BY SessionTypes DEF SessionsType
<1>3. StoresType' /\ HistoryType'
    BY DEF StoresType, HistoryType
<1>4. AtMessage' /\ HoldsSession'
    BY DEF AtMessage, HoldsSession, Busy
<1>5. AttemptedFirst' /\ RecordedFirst' /\ MarksOrdered'
    BY DEF AttemptedFirst, RecordedFirst, MarksOrdered, Current
<1> QED
    BY <1>1, <1>2, <1>3, <1>4, <1>5

\* Every step keeps the invariant.
LEMMA StepInv == Inv /\ [Next]_vars => Inv'
<1> SUFFICES ASSUME Inv, [Next]_vars PROVE Inv'
    OBVIOUS
<1>1. CASE UNCHANGED vars
    <2> USE <1>1 DEF vars, hosts, dedupe, meta, history
    <2>1. TypeOK'
        BY DEF Inv, TypeOK, ControlType, PositionType, SessionsType, StoresType,
               HistoryType
    <2>2. PipelineInv'
        BY DEF Inv, PipelineInv, AtMessage, HoldsSession, AttemptedFirst,
               RecordedFirst, MarksOrdered, Busy, Current
    <2> QED
        BY <2>1, <2>2 DEF Inv
<1>2. ASSUME NEW w \in Workers, NEW p \in Payloads, Deliver(w, p) PROVE Inv'
    BY <1>2, DeliverInv
<1>3. ASSUME NEW w \in Workers, Handle(w) PROVE Inv'
    BY <1>3, SkipInv, EnterInv, MarkInv, DedupeFailsInv, LoadInv, CreateInv,
       EffectInv, SaveInv, FinishInv, FinishFailsInv, RaiseInv, UnmarkInv,
       RespondInv
       DEF Handle
<1>4. ASSUME NEW w \in Workers, Crash(w) PROVE Inv'
    BY <1>4, CrashInv
<1>5. CASE Restart
    BY <1>5, RestartInv
<1>6. ASSUME NEW m \in Messages, ExpireLock(m) \/ ExpireMark(m) PROVE Inv'
    BY <1>6, ExpireLockInv, ExpireMarkInv
<1>7. ASSUME NEW s \in Senders, ExpireSession(s) PROVE Inv'
    BY <1>7, ExpireSessionInv
<1> QED
    BY <1>1, <1>2, <1>3, <1>4, <1>5, <1>6, <1>7 DEF Next

\* Every variable keeps its type: handlers stand at messages, the stores
\* hold sessions, whatever fails, expires or restarts.
THEOREM TypeCorrect == Spec => []TypeOK
<1>1. Inv => TypeOK
    BY DEF Inv
<1> QED
    BY InitInv, StepInv, <1>1, PTL DEF Spec

\* Under every interleaving, failure and restart the marks follow their
\* order: processed only what was saved, saved only what was attempted.
THEOREM PipelineInvariant == Spec => []PipelineInv
<1>1. Inv => PipelineInv
    BY DEF Inv
<1> QED
    BY InitInv, StepInv, <1>1, PTL DEF Spec
-----------------------------------------------------------------------------
(* The pipeline implements DeliveryContract.  Each lemma names the step of *)
(* the contract that a group of actions takes.                             *)

ContractSteps == Contract!Next \/ UNCHANGED Contract!vars

\* The message handler w has open, before and after a step.
LEMMA OpenValues ==
    ASSUME NEW w \in Workers
    PROVE  /\ OpenMessage[w] = IF InPipeline(w) THEN Current(w) ELSE NoMessage
           /\ OpenMessage'[w] = IF InPipeline(w)' THEN Current(w)' ELSE NoMessage
BY DEF OpenMessage

\* Nothing the contract speaks of changes.
LEMMA Unobserved ==
    ASSUME Inv, NEW w \in Workers,
           \/ \E p \in Payloads : Deliver(w, p)
           \/ Skip(w) \/ Mark(w) \/ Load(w) \/ Create(w) \/ Raise(w) \/ Respond(w)
    PROVE  ContractSteps
<1> USE DEF Inv, TypeOK, ControlType, PositionType
<1>1. OpenMessage' = OpenMessage
    <2> SUFFICES ASSUME NEW v \in Workers
                 PROVE  /\ InPipeline(v)' = InPipeline(v)
                        /\ InPipeline(v) => Current(v)' = Current(v)
        BY DEF OpenMessage
    <2> QED
        BY DEF Deliver, Skip, Mark, Load, TakeUp, StartFresh, Create,
               Raise, Respond, Release, Advance, Goto, InPipeline, Current
<1>2. UNCHANGED <<processed, attempted, recorded, settled>>
    BY DEF Deliver, Skip, Mark, Load, Create, Raise, Respond, dedupe, history
<1> QED
    BY <1>1, <1>2 DEF ContractSteps, Contract!vars

\* Entering the pipeline opens the message, whose mark is not alive.
LEMMA EnterOpens ==
    ASSUME Inv, NEW w \in Workers, Enter(w)
    PROVE  Contract!Open(w, Current(w)) /\ Current(w) \in Messages
<1> USE DEF Inv, TypeOK, ControlType, PositionType, Enter, Goto, history
<1>1. Current(w) \in Messages /\ Current(w) \notin processed
    BY CurrentType DEF Busy, IsDuplicate
<1>2. OpenMessage[w] = NoMessage
    BY DEF OpenMessage, InPipeline
<1>3. OpenMessage' = [OpenMessage EXCEPT ![w] = Current(w)]
    BY DEF OpenMessage, InPipeline, Current
<1> QED
    BY <1>1, <1>2, <1>3 DEF Contract!Open

\* The effect is the attempt.
LEMMA EffectAttempts ==
    ASSUME Inv, NEW w \in Workers, Effect(w)
    PROVE  Contract!Attempt(w)
<1> USE DEF Inv, TypeOK, ControlType, Effect, Goto, dedupe
<1>1. OpenMessage[w] = Current(w) /\ Current(w) \in Messages
    BY CurrentType DEF Busy, OpenMessage, InPipeline
<1>2. OpenMessage' = OpenMessage
    BY DEF OpenMessage, InPipeline, Current
<1> QED
    BY <1>1, <1>2 DEF Contract!Attempt

\* The save is the record of the turn.
LEMMA SaveRecords ==
    ASSUME Inv, NEW w \in Workers, Save(w)
    PROVE  Contract!Record(w)
<1> USE DEF Inv, TypeOK, ControlType, Save, Goto, dedupe
<1>1. OpenMessage[w] = Current(w) /\ Current(w) \in attempted
    BY DEF PipelineInv, AttemptedFirst, OpenMessage, InPipeline
<1>2. OpenMessage' = OpenMessage
    BY DEF OpenMessage, InPipeline, Current
<1> QED
    BY <1>1, <1>2 DEF Contract!Record

\* The mark settles the message, also when the handler learns of a failure.
LEMMA FinishSettles ==
    ASSUME Inv, NEW w \in Workers, Finish(w) \/ FinishFails(w)
    PROVE  Contract!Settle(w)
<1> USE DEF Inv, TypeOK, ControlType, PositionType, Finish, FinishFails,
        MarkProcessed, Goto
<1>1. OpenMessage[w] = Current(w) /\ Current(w) \in recorded
    BY DEF PipelineInv, RecordedFirst, OpenMessage, InPipeline
<1>2. CASE Finish(w)
    <2>1. OpenMessage' = [OpenMessage EXCEPT ![w] = NoMessage]
        BY <1>2 DEF OpenMessage, InPipeline, Current, Advance
    <2> QED
        BY <1>1, <1>2, <2>1 DEF Contract!Settle
<1>3. CASE FinishFails(w)
    <2>1. OpenMessage' = OpenMessage
        BY <1>3 DEF OpenMessage, InPipeline, Current
    <2> QED
        BY <1>1, <1>3, <2>1 DEF Contract!Settle
<1> QED
    BY <1>2, <1>3

\* A handler that gives up or dies closes its message.
LEMMA FailureCloses ==
    ASSUME Inv, NEW w \in Workers, DedupeFails(w) \/ Unmark(w) \/ Crash(w)
    PROVE  Contract!Interrupt({w}, {})
<1> USE DEF Inv, TypeOK, ControlType, PositionType
<1>1. OpenMessage' = [v \in Workers |-> IF v \in {w} THEN NoMessage ELSE OpenMessage[v]]
    BY DEF OpenMessage, InPipeline, Current, DedupeFails, Unmark, Crash, Release,
           Goto
<1>2. processed' = processed \ {} /\ UNCHANGED <<attempted, recorded, settled>>
    BY DEF DedupeFails, Unmark, Crash, dedupe, history
<1> QED
    BY <1>1, <1>2 DEF Contract!Interrupt

\* A restart closes everything and forgets every mark.
LEMMA RestartCloses ==
    ASSUME Inv, Restart
    PROVE  Contract!Interrupt(Workers, Messages)
<1>1. OpenMessage' = [v \in Workers |-> IF v \in Workers THEN NoMessage ELSE OpenMessage[v]]
    BY DEF OpenMessage, InPipeline, Restart
<1>2. processed' = processed \ Messages /\ UNCHANGED <<attempted, recorded, settled>>
    BY DEF Restart, Inv, TypeOK, StoresType
<1> QED
    BY <1>1, <1>2 DEF Contract!Interrupt

\* The end of a lock is not observed, the end of a mark forgets it.
LEMMA ExpiryForgets ==
    ASSUME Inv, NEW m \in Messages, ExpireLock(m) \/ ExpireMark(m)
    PROVE  ContractSteps
<1>1. UNCHANGED <<OpenMessage, attempted, recorded, settled>>
    BY DEF ExpireLock, ExpireMark, hosts, history, OpenMessage, InPipeline, Current
<1>2. CASE ExpireLock(m)
    BY <1>1, <1>2 DEF ExpireLock, ContractSteps, Contract!vars
<1>3. CASE ExpireMark(m)
    <2>1. OpenMessage' = [v \in Workers |-> IF v \in {} THEN NoMessage ELSE OpenMessage[v]]
        BY <1>1 DEF OpenMessage
    <2>2. Contract!Interrupt({}, {m})
        BY <1>1, <1>3, <2>1 DEF ExpireMark, Contract!Interrupt
    <2> QED
        BY <2>2 DEF ContractSteps, Contract!Next
<1> QED
    BY <1>2, <1>3

\* Every step of the pipeline is a step of the contract, or not observed.
LEMMA StepRefines == Inv /\ [Next]_vars => [Contract!Next]_(Contract!vars)
<1> SUFFICES ASSUME Inv, [Next]_vars PROVE ContractSteps
    BY DEF ContractSteps
<1> USE DEF ContractSteps, Contract!Next
<1>1. CASE UNCHANGED vars
    BY <1>1 DEF vars, hosts, dedupe, history, Contract!vars, OpenMessage,
                InPipeline, Current
<1>2. ASSUME NEW w \in Workers, NEW p \in Payloads, Deliver(w, p)
      PROVE  ContractSteps
    BY <1>2, Unobserved
<1>3. ASSUME NEW w \in Workers, Handle(w)
      PROVE  ContractSteps
    BY <1>3, Unobserved, EnterOpens, EffectAttempts, SaveRecords, FinishSettles,
       FailureCloses DEF Handle
<1>4. ASSUME NEW w \in Workers, Crash(w)
      PROVE  ContractSteps
    BY <1>4, FailureCloses
<1>5. CASE Restart
    BY <1>5, RestartCloses
<1>6. ASSUME NEW m \in Messages, ExpireLock(m) \/ ExpireMark(m)
      PROVE  ContractSteps
    BY <1>6, ExpiryForgets
<1>7. ASSUME NEW s \in Senders, ExpireSession(s)
      PROVE  ContractSteps
    BY <1>7 DEF ExpireSession, hosts, dedupe, history, Contract!vars,
                OpenMessage, InPipeline, Current
<1> QED
    BY <1>1, <1>2, <1>3, <1>4, <1>5, <1>6, <1>7 DEF Next

\* The pipeline starts where the contract starts.
LEMMA InitRefines == Init => Contract!Init
BY DEF Init, Contract!Init, OpenMessage, InPipeline

\* Every behaviour of the pipeline is one of DeliveryContract: whatever is
\* redelivered, fails, expires or restarts, a message is marked processed
\* only after its effect was attempted and its turn saved.
THEOREM Refinement == Spec => RefinesContract
BY InitInv, StepInv, InitRefines, StepRefines, PTL
   DEF Spec, RefinesContract, Contract!Spec

-----------------------------------------------------------------------------
(* Exact deduplication: with the in-memory stores, as long as no lock ends *)
(* under a running pipeline and no mark within the redeliveries of a       *)
(* payload, a message is worked on by one handler at a time and answered   *)
(* once, unless a fault cut an attempt short.                              *)

Exact == Inv /\ DedupeExact /\ SingleFlight /\ LocksHeld /\ RepliesAccounted

\* A step of one handler that neither enters nor leaves the pipeline.
LEMMA PipelineStays ==
    ASSUME Exact, NEW w \in Workers,
           \/ \E p \in Payloads : Deliver(w, p)
           \/ Skip(w) \/ Load(w) \/ Create(w) \/ Save(w) \/ Respond(w)
    PROVE  DedupeInv'
<1> USE DEF Exact, Inv, TypeOK, ControlType, PositionType
<1>1. ASSUME NEW v \in Workers
      PROVE  /\ InPipeline(v)' = InPipeline(v)
             /\ InPipeline(v) => Current(v)' = Current(v) /\ pc'[v] # "mark"
             /\ pc[v] \in {"save", "finish"} => pc'[v] \in {"save", "finish"}
    <2>1. CASE v # w
        <3>1. pc'[v] = pc[v] /\ job'[v] = job[v] /\ idx'[v] = idx[v]
            BY <2>1 DEF Deliver, Skip, Load, TakeUp, StartFresh, Create,
                        Save, Respond, Release, Advance, Goto
        <3> QED
            BY <3>1 DEF InPipeline, Current, LocksHeld
    <2>2. CASE v = w
        <3>1. CASE \E p \in Payloads : Deliver(w, p)
            BY <2>2, <3>1 DEF Deliver, Goto, InPipeline
        <3>2. CASE Skip(w) \/ Respond(w)
            BY <2>2, <3>2 DEF Skip, Respond, Release, Advance, Goto, InPipeline
        <3>3. CASE Load(w) \/ Create(w) \/ Save(w)
            <4>1. job' = job /\ idx' = idx
                BY <3>3 DEF Load, Create, Save
            <4>2. \/ pc[w] \in {"load", "create"} /\ pc'[w] \in {"create", "effect"}
                  \/ pc[w] = "save" /\ pc'[w] = "finish"
                BY <3>3 DEF Load, TakeUp, StartFresh, Create, Save, Goto
            <4> QED
                BY <2>2, <4>1, <4>2 DEF InPipeline, Current
        <3> QED
            BY <3>1, <3>2, <3>3
    <2> QED
        BY <2>1, <2>2
<1>2. UNCHANGED <<processing, processed, replies, faulted>>
    BY DEF Deliver, Skip, Load, Create, Save, Respond, dedupe, history
<1>3. SingleFlight'
    BY <1>1 DEF SingleFlight
<1>4. LocksHeld'
    BY <1>1, <1>2 DEF LocksHeld
<1>5. RepliesAccounted'
    BY <1>1, <1>2 DEF RepliesAccounted, InPipeline
<1> QED
    BY <1>3, <1>4, <1>5 DEF DedupeInv

\* The message of another handler does not change.
LEMMA OthersStay ==
    ASSUME Exact, NEW w \in Workers, NEW v \in Workers, v # w,
           Enter(w) \/ Effect(w) \/ Finish(w) \/ Raise(w) \/ Unmark(w)
    PROVE  /\ pc'[v] = pc[v]
           /\ InPipeline(v)' = InPipeline(v)
           /\ Current(v)' = Current(v)
<1> USE DEF Exact, Inv, TypeOK, ControlType, PositionType
<1>1. pc'[v] = pc[v] /\ job'[v] = job[v] /\ idx'[v] = idx[v]
    BY DEF Enter, Effect, Finish, Raise, Unmark, Advance, Goto
<1> QED
    BY <1>1 DEF InPipeline, Current

\* A handler enters with a lock nobody else holds.
LEMMA EnterExact ==
    ASSUME Exact, NEW w \in Workers, Enter(w)
    PROVE  DedupeInv'
<1> USE DEF Exact
<1>1. /\ Current(w) \notin processing \cup processed
      /\ processing' = processing \cup {Current(w)}
      /\ UNCHANGED <<processed, replies, faulted>>
      /\ pc[w] = "check" /\ pc'[w] = "load" /\ Current(w)' = Current(w)
    BY DEF Enter, IsDuplicate, Goto, Inv, TypeOK, ControlType, DedupeExact,
           Current, history
<1>2. LocksHeld'
    BY <1>1, OthersStay DEF LocksHeld
<1>3. SingleFlight'
    BY <1>1, OthersStay DEF SingleFlight, LocksHeld
<1>4. RepliesAccounted'
    <2>1. ASSUME NEW v \in Workers, pc[v] \in {"save", "finish"}
          PROVE  pc'[v] = pc[v] /\ Current(v)' = Current(v)
        BY <1>1, <2>1, OthersStay
    <2> QED
        BY <1>1, <2>1 DEF RepliesAccounted
<1> QED
    BY <1>2, <1>3, <1>4 DEF DedupeInv

\* A reply is the first one, unless a fault cut an attempt short.
LEMMA EffectExact ==
    ASSUME Exact, NEW w \in Workers, Effect(w)
    PROVE  DedupeInv'
<1> USE DEF Exact
<1>1. /\ UNCHANGED <<processing, processed, faulted>>
      /\ pc[w] = "effect" /\ pc'[w] = "save" /\ Current(w)' = Current(w)
    BY DEF Effect, Goto, Inv, TypeOK, ControlType, Current, dedupe
<1>2. LocksHeld'
    BY <1>1, OthersStay DEF LocksHeld, InPipeline
<1>3. SingleFlight'
    BY <1>1, OthersStay DEF SingleFlight, InPipeline
<1>4. RepliesAccounted'
    <2> SUFFICES ASSUME NEW m \in Messages \ faulted
                 PROVE  /\ replies'[m] \in {0, 1}
                        /\ \/ replies'[m] = 0
                           \/ m \in processed
                           \/ \E v \in Workers : /\ pc'[v] \in {"save", "finish"}
                                                 /\ Current(v)' = m
        BY <1>1 DEF RepliesAccounted
    <2>1. CASE m = Current(w)
        <3>1. m \notin processed
            BY <1>1, <2>1 DEF LocksHeld, InPipeline
        <3>2. ASSUME NEW v \in Workers, pc[v] \in {"save", "finish"}
              PROVE  Current(v) # m
            BY <1>1, <2>1, <3>2 DEF SingleFlight, InPipeline
        <3>3. replies[m] = 0
            BY <3>1, <3>2 DEF RepliesAccounted
        <3>4. replies'[m] \in {0, 1}
            BY <2>1, <3>3 DEF Effect, Inv, TypeOK, HistoryType
        <3> QED
            BY <1>1, <2>1, <3>4
    <2>2. CASE m # Current(w)
        <3>1. replies'[m] = replies[m]
            BY <2>2 DEF Effect, Inv, TypeOK, HistoryType
        <3>2. ASSUME NEW v \in Workers, pc[v] \in {"save", "finish"}
              PROVE  pc'[v] = pc[v] /\ Current(v)' = Current(v)
            BY <1>1, <3>2, OthersStay
        <3> QED
            BY <3>1, <3>2 DEF RepliesAccounted
    <2> QED
        BY <2>1, <2>2
<1> QED
    BY <1>2, <1>3, <1>4 DEF DedupeInv

\* The mark takes the place of the handler that set it.
LEMMA FinishExact ==
    ASSUME Exact, NEW w \in Workers, Finish(w)
    PROVE  DedupeInv'
<1> USE DEF Exact
<1>1. /\ processing' = processing \ {Current(w)}
      /\ processed' = processed \cup {Current(w)}
      /\ UNCHANGED <<replies, faulted>>
      /\ InPipeline(w) /\ ~InPipeline(w)' /\ pc[w] = "finish"
    BY DEF Finish, MarkProcessed, Advance, Goto, Inv, TypeOK, ControlType,
           InPipeline
<1>2. ASSUME NEW v \in Workers, v # w, InPipeline(v)
      PROVE  Current(v) # Current(w)
    BY <1>1, <1>2 DEF SingleFlight
<1>3. LocksHeld'
    BY <1>1, <1>2, OthersStay DEF LocksHeld
<1>4. SingleFlight'
    BY <1>1, OthersStay DEF SingleFlight
<1>5. RepliesAccounted'
    <2>1. ASSUME NEW v \in Workers, v # w
          PROVE  pc'[v] = pc[v] /\ Current(v)' = Current(v)
        BY <2>1, OthersStay
    <2> QED
        BY <1>1, <2>1 DEF RepliesAccounted
<1> QED
    BY <1>3, <1>4, <1>5 DEF DedupeInv

\* A failure leaves a fault behind, then the lock goes with the handler.
LEMMA RaiseExact ==
    ASSUME Exact, NEW w \in Workers, Raise(w)
    PROVE  DedupeInv'
<1> USE DEF Exact
<1>1. /\ UNCHANGED <<processing, processed, replies>>
      /\ faulted' = faulted \cup {Current(w)}
      /\ InPipeline(w) /\ pc'[w] = "unmark" /\ Current(w)' = Current(w)
    BY DEF Raise, Fail, Cut, Goto, Inv, TypeOK, ControlType, InPipeline,
           Current, dedupe
<1>2. LocksHeld'
    BY <1>1, OthersStay DEF LocksHeld
<1>3. SingleFlight'
    BY <1>1, OthersStay DEF SingleFlight
<1>4. RepliesAccounted'
    <2>1. ASSUME NEW v \in Workers, v # w
          PROVE  pc'[v] = pc[v] /\ Current(v)' = Current(v)
        BY <2>1, OthersStay
    <2> QED
        BY <1>1, <2>1 DEF RepliesAccounted
<1> QED
    BY <1>2, <1>3, <1>4 DEF DedupeInv

\* The rollback drops the lock of nobody else.
LEMMA UnmarkExact ==
    ASSUME Exact, NEW w \in Workers, Unmark(w)
    PROVE  DedupeInv'
<1> USE DEF Exact
<1>1. /\ processing' = processing \ {Current(w)}
      /\ UNCHANGED <<processed, replies, faulted>>
      /\ InPipeline(w) /\ ~InPipeline(w)' /\ pc[w] = "unmark"
    BY DEF Unmark, Goto, Inv, TypeOK, ControlType, InPipeline, DedupeExact,
           history
<1>2. ASSUME NEW v \in Workers, v # w, InPipeline(v)
      PROVE  Current(v) # Current(w)
    BY <1>1, <1>2 DEF SingleFlight
<1>3. LocksHeld'
    BY <1>1, <1>2, OthersStay DEF LocksHeld
<1>4. SingleFlight'
    BY <1>1, OthersStay DEF SingleFlight
<1>5. RepliesAccounted'
    <2>1. ASSUME NEW v \in Workers, pc[v] \in {"save", "finish"}
          PROVE  pc'[v] = pc[v] /\ Current(v)' = Current(v)
        BY <1>1, <2>1, OthersStay
    <2> QED
        BY <1>1, <2>1 DEF RepliesAccounted
<1> QED
    BY <1>3, <1>4, <1>5 DEF DedupeInv

\* A restart leaves nobody in the pipeline and every message with a fault.
LEMMA RestartExact ==
    ASSUME Inv, Restart
    PROVE  DedupeInv'
BY DEF Restart, Inv, TypeOK, DedupeInv, SingleFlight, LocksHeld,
       RepliesAccounted, InPipeline

\* A lock ends only when no handler works under it.
LEMMA ExpireLockExact ==
    ASSUME Exact, NEW m \in Messages, ExpireLock(m)
    PROVE  DedupeInv'
<1> USE DEF Exact
<1>1. /\ processing' = processing \ {m}
      /\ UNCHANGED <<pc, job, idx, processed, replies, faulted>>
      /\ \A w \in Workers : InPipeline(w) => Current(w) # m
    BY DEF ExpireLock, DedupeExact, hosts, history
<1>2. SingleFlight' /\ LocksHeld'
    BY <1>1 DEF SingleFlight, LocksHeld, InPipeline, Current
<1>3. RepliesAccounted'
    BY <1>1 DEF RepliesAccounted, Current
<1> QED
    BY <1>2, <1>3 DEF DedupeInv

\* Exact deduplication holds at the start.
LEMMA InitDedupe == Init => DedupeInv
BY DEF Init, DedupeInv, SingleFlight, LocksHeld, RepliesAccounted, InPipeline

\* The steps that need Redis or an ending lock or mark do not exist under
\* DedupeExact; every other step preserves the invariant.
LEMMA StepDedupe == Inv /\ DedupeInv /\ [Next]_vars => DedupeInv'
<1> SUFFICES ASSUME Inv, DedupeInv, [Next]_vars, DedupeExact' PROVE DedupeInv'
    BY DEF DedupeInv
<1>1. DedupeExact
    BY DEF Next, vars, Handle, Deliver, Skip, Enter, Mark, DedupeFails, Load,
           Create, Effect, Save, Finish, FinishFails, Raise, Unmark, Respond,
           Crash, Restart, ExpireLock, ExpireMark, ExpireSession, DedupeExact,
           Fault
<1>2. Exact
    BY <1>1 DEF DedupeInv, Exact
<1>3. CASE UNCHANGED vars
    BY <1>2, <1>3 DEF Exact, DedupeInv, SingleFlight, LocksHeld, RepliesAccounted,
          InPipeline, Current, vars, hosts, dedupe, history
<1>4. ASSUME NEW w \in Workers, NEW p \in Payloads, Deliver(w, p) PROVE DedupeInv'
    BY <1>2, <1>4, PipelineStays
<1>5. ASSUME NEW w \in Workers, Handle(w) PROVE DedupeInv'
    <2>1. CASE Skip(w) \/ Load(w) \/ Create(w) \/ Save(w) \/ Respond(w)
        BY <1>2, <2>1, PipelineStays
    <2>2. CASE Mark(w)
        BY <1>2, <2>2 DEF Mark, Exact, LocksHeld, InPipeline
    <2>3. CASE DedupeFails(w) \/ FinishFails(w)
        BY <1>1, <2>3 DEF DedupeFails, FinishFails, DedupeExact
    <2> QED
        BY <1>2, <1>5, <2>1, <2>2, <2>3, EnterExact, EffectExact, FinishExact,
           RaiseExact, UnmarkExact DEF Handle
<1>6. ASSUME NEW w \in Workers, Crash(w) PROVE DedupeInv'
    BY <1>1, <1>6 DEF Crash, DedupeExact
<1>7. CASE Restart
    BY <1>7, RestartExact
<1>8. ASSUME NEW m \in Messages, ExpireLock(m) \/ ExpireMark(m) PROVE DedupeInv'
    BY <1>1, <1>2, <1>8, ExpireLockExact DEF ExpireMark, DedupeExact
<1>9. ASSUME NEW s \in Senders, ExpireSession(s) PROVE DedupeInv'
    BY <1>2, <1>9 DEF ExpireSession, Exact, DedupeInv, SingleFlight, LocksHeld,
          RepliesAccounted, InPipeline, Current, hosts, dedupe, history
<1> QED
    BY <1>3, <1>4, <1>5, <1>6, <1>7, <1>8, <1>9 DEF Next

\* With the in-memory stores, as long as no lock ends under a running
\* pipeline and no mark ends, one handler at a time works on a message, it
\* holds the lock, and every reply is accounted for.
THEOREM MemoryDedupe == Spec => []DedupeInv
<1> QED
    BY InitInv, StepInv, InitDedupe, StepDedupe, PTL DEF Spec

-----------------------------------------------------------------------------
(* One handler at a time for a sender.  Where Meta waits for the end of an *)
(* attempt, and a sender for the end of the last payload, the copy of the  *)
(* session a handler holds is the stored one, or the stored one expired.   *)

Apart ==
    \A v, w \in Workers :
        v # w /\ Busy(v) /\ Busy(w) => SendersOf(job[v]) \cap SendersOf(job[w]) = {}

Stored(w) == sessions[Sender[Current(w)]]

CopyCurrent(w) ==
    /\ pc[w] = "create" =>
          /\ sess[w] = FreshSession
          /\ Fault("session_expiry") \/ ~Reusable(Stored(w))
    /\ pc[w] \in {"effect", "save"} =>
          Reusable(sess[w]) /\ Stored(w) \in {sess[w], NoSession}

SerialInv == Serial => Apart /\ \A w \in Workers : CopyCurrent(w)

Alone == Inv /\ Serial /\ Apart /\ \A w \in Workers : CopyCurrent(w)

\* A fresh session is open and has no turns.
LEMMA FreshReusable == Reusable(FreshSession)
<1>1. FreshSession # NoSession
    BY SessionTypes
<1>2. FreshSession.state = "INITIAL"
    BY DEF FreshSession, Session, DEFAULT_INITIAL_STATE
<1> QED
    BY <1>1, <1>2 DEF Reusable, is_terminal, TERMINAL_STATES

\* The environment is chosen once.
LEMMA EnvStays == [Next]_vars => env' = env
    BY DEF Next, vars, Handle, Deliver, Skip, Enter, Mark, DedupeFails, Load,
           Create, Effect, Save, Finish, FinishFails, Raise, Unmark, Respond,
           Crash, Restart, ExpireLock, ExpireMark, ExpireSession

\* A handler stands at a message of one of the senders of its payload.
LEMMA SenderOfCurrent ==
    ASSUME Inv, NEW w \in Workers, Busy(w)
    PROVE  Current(w) \in MessagesOf(job[w]) /\ Sender[Current(w)] \in SendersOf(job[w])
    BY CurrentType DEF Current, MessagesOf, SendersOf

\* Two handlers are never at messages of one sender.
LEMMA SendersApart ==
    ASSUME Inv, Apart, NEW v \in Workers, NEW w \in Workers, v # w, Busy(v), Busy(w)
    PROVE  Sender[Current(v)] # Sender[Current(w)] /\ Current(v) # Current(w)
    BY SenderOfCurrent DEF Apart

\* What a step of one handler leaves of the others.
LEMMA OthersUntouched ==
    ASSUME Inv, NEW w \in Workers,
           (\E p \in Payloads : Deliver(w, p)) \/ Handle(w) \/ Crash(w),
           NEW v \in Workers, v # w
    PROVE  /\ pc'[v] = pc[v] /\ job'[v] = job[v] /\ idx'[v] = idx[v]
           /\ sess'[v] = sess[v] /\ err'[v] = err[v]
<1> USE DEF Inv, TypeOK, ControlType, PositionType, SessionsType, Goto, Advance, Fail
<1>1. ASSUME NEW p \in Payloads, Deliver(w, p)
      PROVE  /\ pc'[v] = pc[v] /\ job'[v] = job[v] /\ idx'[v] = idx[v]
             /\ sess'[v] = sess[v] /\ err'[v] = err[v]
    BY <1>1 DEF Deliver
<1>2. CASE Skip(w) \/ Enter(w) \/ Mark(w) \/ DedupeFails(w)
    BY <1>2 DEF Skip, Enter, Mark, DedupeFails
<1>3. CASE Load(w) \/ Create(w) \/ Effect(w) \/ Save(w)
    BY <1>3 DEF Load, TakeUp, StartFresh, Create, Effect, Save
<1>4. CASE Finish(w) \/ FinishFails(w) \/ Raise(w) \/ Unmark(w)
    BY <1>4 DEF Finish, FinishFails, Raise, Unmark
<1>5. CASE Respond(w) \/ Crash(w)
    BY <1>5 DEF Respond, Crash, Release
<1> QED
    BY <1>1, <1>2, <1>3, <1>4, <1>5 DEF Handle

\* Only the two writes of a handler touch the sessions, and only that of its sender.
LEMMA SessionsWritten ==
    ASSUME Inv, NEW w \in Workers,
           (\E p \in Payloads : Deliver(w, p)) \/ Handle(w) \/ Crash(w)
    PROVE  \/ sessions' = sessions
           \/ Create(w) \/ Save(w)
<1>1. CASE \E p \in Payloads : Deliver(w, p)
    BY <1>1 DEF Deliver
<1>2. CASE Skip(w) \/ Enter(w) \/ Mark(w) \/ DedupeFails(w) \/ Load(w) \/ Effect(w)
    BY <1>2 DEF Skip, Enter, Mark, DedupeFails, Load, Effect
<1>3. CASE Finish(w) \/ FinishFails(w) \/ Raise(w) \/ Unmark(w) \/ Respond(w) \/ Crash(w)
    BY <1>3 DEF Finish, FinishFails, Raise, Unmark, Respond, Crash
<1> QED
    BY <1>1, <1>2, <1>3 DEF Handle

LEMMA WriteIsOfSender ==
    ASSUME Inv, NEW w \in Workers, Create(w) \/ Save(w)
    PROVE  /\ Busy(w)
           /\ \A s \in Senders : s # Sender[Current(w)] => sessions'[s] = sessions[s]
    BY DEF Inv, TypeOK, SessionsType, Create, Save, Busy

\* A payload is taken only when no other handler works for one of its senders.
LEMMA StepApart ==
    ASSUME Alone, NEW w \in Workers,
           (\E p \in Payloads : Deliver(w, p)) \/ Handle(w) \/ Crash(w)
    PROVE  Apart'
<1> USE DEF Alone
<1>1. \/ job'[w] = job[w] /\ Busy(w)
      \/ ~Busy(w)'
      \/ \E p \in Payloads : Deliver(w, p)
    <2> USE DEF Inv, TypeOK, ControlType, PositionType, Goto, Advance, Busy
    <2>1. CASE Skip(w) \/ Enter(w) \/ Mark(w) \/ DedupeFails(w)
        BY <2>1 DEF Skip, Enter, Mark, DedupeFails
    <2>2. CASE Load(w) \/ Create(w) \/ Effect(w) \/ Save(w)
        BY <2>2 DEF Load, Create, Effect, Save
    <2>3. CASE Finish(w) \/ FinishFails(w) \/ Raise(w) \/ Unmark(w)
        BY <2>3 DEF Finish, FinishFails, Raise, Unmark
    <2>4. CASE Respond(w) \/ Crash(w)
        BY <2>4 DEF Respond, Crash, Release
    <2> QED
        BY <2>1, <2>2, <2>3, <2>4 DEF Handle
<1>2. \A v \in Workers : v # w => pc'[v] = pc[v] /\ job'[v] = job[v]
    BY OthersUntouched
<1>3. ASSUME NEW p \in Payloads, Deliver(w, p), NEW v \in Workers, v # w, Busy(v)
      PROVE  job'[w] = p /\ SendersOf(job[v]) \cap SendersOf(p) = {}
    <2>1. job[v] # p /\ job[v] \in Payloads
        BY <1>3, CurrentType DEF Deliver, MayDeliver, Serial
    <2> QED
        BY <1>3, <2>1 DEF Deliver, MayDeliver, Serial, Inv, TypeOK, PositionType
<1>4. ASSUME NEW u \in Workers, NEW v \in Workers, u # v, Busy(u)', Busy(v)'
      PROVE  SendersOf(job'[u]) \cap SendersOf(job'[v]) = {}
    <2>1. CASE u # w /\ v # w
        BY <1>2, <1>4, <2>1 DEF Apart, Busy
    <2>2. CASE u = w
        BY <1>1, <1>2, <1>3, <1>4, <2>2 DEF Apart, Busy
    <2>3. CASE v = w
        BY <1>1, <1>2, <1>3, <1>4, <2>3 DEF Apart, Busy
    <2> QED
        BY <2>1, <2>2, <2>3
<1> QED
    BY <1>4 DEF Apart, SendersOf, MessagesOf

\* The copy of a handler that does not move stays current: nobody else writes its session.
LEMMA OtherCopies ==
    ASSUME Alone, NEW w \in Workers, env' = env,
           (\E p \in Payloads : Deliver(w, p)) \/ Handle(w) \/ Crash(w),
           NEW v \in Workers, v # w
    PROVE  CopyCurrent(v)'
<1> USE DEF Alone
<1>1. /\ pc'[v] = pc[v] /\ job'[v] = job[v] /\ idx'[v] = idx[v] /\ sess'[v] = sess[v]
    BY OthersUntouched
<1>2. Current(v)' = Current(v)
    BY <1>1 DEF Current
<1>3. CASE Busy(v)
    <2>1. Current(v) \in Messages /\ Sender[Current(v)] \in Senders
        BY <1>3, CurrentType, SenderAssumption
    <2>2. sessions'[Sender[Current(v)]] = sessions[Sender[Current(v)]]
        BY <1>3, <2>1, SessionsWritten, WriteIsOfSender, SendersApart
    <2>3. Stored(v)' = Stored(v)
        BY <1>2, <2>2 DEF Stored
    <2> QED
        BY <1>1, <2>3 DEF CopyCurrent, Fault, Reusable
<1>4. CASE ~Busy(v)
    BY <1>1, <1>4 DEF CopyCurrent, Busy
<1> QED
    BY <1>3, <1>4

\* The handler that moves takes its copy from the store, or writes it there.
LEMMA OwnCopy ==
    ASSUME Alone, NEW w \in Workers, env' = env,
           (\E p \in Payloads : Deliver(w, p)) \/ Handle(w) \/ Crash(w)
    PROVE  CopyCurrent(w)'
<1> USE DEF Alone
<1> DEFINE Quiet == pc'[w] \notin {"create", "effect", "save"}
<1>1. CASE Load(w)
    <2>1. /\ pc[w] = "load" /\ job' = job /\ idx' = idx /\ sessions' = sessions
          /\ \/ Reusable(Stored(w)) /\ sess'[w] = Stored(w) /\ pc'[w] = "effect"
             \/ /\ ~Reusable(Stored(w)) \/ Fault("session_expiry")
                /\ sess'[w] = FreshSession /\ pc'[w] = "create"
        BY <1>1 DEF Load, TakeUp, StartFresh, Goto, Stored, Inv, TypeOK, ControlType,
               SessionsType
    <2>2. Stored(w)' = Stored(w)
        BY <2>1 DEF Stored, Current
    <2> QED
        BY <2>1, <2>2 DEF CopyCurrent, Fault, Reusable
<1>2. CASE Create(w)
    <2>1. /\ pc[w] = "create" /\ pc'[w] = "effect" /\ job' = job /\ idx' = idx /\ sess' = sess
          /\ sessions' = [sessions EXCEPT ![Sender[Current(w)]] = sess[w]]
        BY <1>2 DEF Create, Goto, Inv, TypeOK, ControlType
    <2>2. Sender[Current(w)] \in Senders
        BY <2>1, CurrentType, SenderAssumption DEF Busy
    <2>3. Stored(w)' = sess[w]
        BY <2>1, <2>2 DEF Stored, Current, Inv, TypeOK, SessionsType
    <2>4. sess[w] = FreshSession
        BY <2>1 DEF CopyCurrent
    <2> QED
        BY <2>1, <2>3, <2>4, FreshReusable DEF CopyCurrent, Reusable
<1>3. CASE Effect(w)
    <2>1. /\ pc[w] = "effect" /\ pc'[w] = "save" /\ job' = job /\ idx' = idx /\ sess' = sess
          /\ sessions' = sessions
        BY <1>3 DEF Effect, Goto, Inv, TypeOK, ControlType
    <2>2. Stored(w)' = Stored(w)
        BY <2>1 DEF Stored, Current
    <2> QED
        BY <2>1, <2>2 DEF CopyCurrent, Reusable
<1>4. CASE Quiet
    BY <1>4 DEF CopyCurrent
<1>5. CASE Skip(w) \/ Enter(w) \/ Mark(w) \/ DedupeFails(w) \/ Save(w) \/ Finish(w)
    <2>1. Quiet
        BY <1>5 DEF Skip, Enter, Mark, DedupeFails, Save, Finish, Advance, Goto,
               Inv, TypeOK, ControlType
    <2> QED
        BY <1>4, <2>1
<1>6. CASE FinishFails(w) \/ Raise(w) \/ Unmark(w) \/ Respond(w) \/ Crash(w)
           \/ \E p \in Payloads : Deliver(w, p)
    <2>1. Quiet
        BY <1>6 DEF FinishFails, Raise, Unmark, Respond, Crash, Release, Deliver, Goto,
               Inv, TypeOK, ControlType
    <2> QED
        BY <1>4, <2>1
<1> QED
    BY <1>1, <1>2, <1>3, <1>5, <1>6 DEF Handle

\* Where no handler moves, none takes a payload.
LEMMA HostsStay ==
    ASSUME Alone, pc' = pc, job' = job, idx' = idx
    PROVE  Apart' /\ \A w \in Workers : Current(w)' = Current(w)
<1>1. ASSUME NEW u \in Workers, NEW v \in Workers, u # v, Busy(u)', Busy(v)'
      PROVE  SendersOf(job'[u]) \cap SendersOf(job'[v]) = {}
    BY <1>1 DEF Alone, Apart, Busy
<1>2. Apart'
    BY <1>1 DEF Apart, SendersOf, MessagesOf
<1> QED
    BY <1>2 DEF Current

LEMMA InitSerial == Init => SerialInv
    BY DEF Init, SerialInv, Apart, CopyCurrent, Busy

LEMMA StepSerial == Inv /\ SerialInv /\ [Next]_vars => SerialInv'
<1> SUFFICES ASSUME Inv, SerialInv, [Next]_vars, Serial'
             PROVE  Apart' /\ \A w \in Workers : CopyCurrent(w)'
    BY DEF SerialInv
<1>1. env' = env /\ Serial
    BY EnvStays DEF Serial, Fault
<1>2. Alone
    BY <1>1 DEF SerialInv, Alone
<1>3. ASSUME NEW w \in Workers,
             (\E p \in Payloads : Deliver(w, p)) \/ Handle(w) \/ Crash(w)
      PROVE  Apart' /\ \A v \in Workers : CopyCurrent(v)'
    BY <1>1, <1>2, <1>3, StepApart, OtherCopies, OwnCopy
<1>4. CASE Restart
    BY <1>4 DEF Restart, Apart, CopyCurrent, Busy
<1>5. CASE \/ \E m \in Messages : ExpireLock(m) \/ ExpireMark(m)
           \/ UNCHANGED vars
    <2>1. pc' = pc /\ job' = job /\ idx' = idx /\ sess' = sess /\ sessions' = sessions
        BY <1>5 DEF ExpireLock, ExpireMark, vars, hosts
    <2>2. Apart' /\ \A w \in Workers : Stored(w)' = Stored(w)
        BY <1>2, <2>1, HostsStay DEF Stored
    <2> QED
        BY <1>1, <1>2, <2>1, <2>2 DEF Alone, CopyCurrent, Fault, Reusable
<1>6. ASSUME NEW s \in Senders, ExpireSession(s)
      PROVE  Apart' /\ \A w \in Workers : CopyCurrent(w)'
    <2>1. /\ UNCHANGED hosts /\ sessions' = [sessions EXCEPT ![s] = NoSession]
          /\ pc' = pc /\ job' = job /\ idx' = idx
        BY <1>6 DEF ExpireSession, hosts
    <2>2. Apart'
        BY <1>2, <2>1, HostsStay
    <2>3. ASSUME NEW w \in Workers PROVE CopyCurrent(w)'
        <3>1. CASE Busy(w)
            <4>1. Sender[Current(w)] \in Senders /\ Current(w)' = Current(w)
                BY <1>2, <2>1, <3>1, CurrentType, SenderAssumption DEF Alone, Current, hosts
            <4>2. Stored(w)' \in {Stored(w), NoSession}
                BY <1>2, <2>1, <4>1 DEF Alone, Inv, TypeOK, SessionsType, Stored
            <4> QED
                BY <1>1, <1>2, <2>1, <4>2 DEF Alone, CopyCurrent, Reusable, Fault, hosts
        <3>2. CASE ~Busy(w)
            BY <2>1, <3>2 DEF CopyCurrent, Busy, hosts
        <3> QED
            BY <3>1, <3>2
    <2> QED
        BY <2>2, <2>3
<1> QED
    BY <1>3, <1>4, <1>5, <1>6 DEF Next

\* What a step does to the session of a sender where handlers work for it one at a time.
LEMMA SessionSteps ==
    ASSUME Inv, SerialInv, Serial, Next, NEW s \in Senders, sessions[s] # NoSession
    PROVE  \/ sessions'[s] \in {sessions[s], NoSession}
           \/ /\ sessions'[s] = FreshSession
              /\ Fault("session_expiry") \/ ~Reusable(sessions[s])
           \/ /\ Reusable(sessions[s])
              /\ \E m \in Messages, state \in SessionState :
                    sessions'[s] = Session(state, Append(sessions[s].turns, m))
<1>1. CASE sessions' = sessions
    BY <1>1
<1>2. CASE Restart
    BY <1>2 DEF Restart
<1>3. ASSUME NEW r \in Senders, ExpireSession(r) PROVE sessions'[s] \in {sessions[s], NoSession}
    BY <1>3 DEF ExpireSession, Inv, TypeOK, SessionsType
<1>4. ASSUME NEW w \in Workers, Create(w)
      PROVE  \/ sessions'[s] = sessions[s]
             \/ /\ sessions'[s] = FreshSession
                /\ Fault("session_expiry") \/ ~Reusable(sessions[s])
    BY <1>4 DEF Create, SerialInv, CopyCurrent, Stored, Inv, TypeOK, SessionsType
<1>5. ASSUME NEW w \in Workers, Save(w)
      PROVE  \/ sessions'[s] = sessions[s]
             \/ /\ Reusable(sessions[s])
                /\ \E m \in Messages, state \in SessionState :
                      sessions'[s] = Session(state, Append(sessions[s].turns, m))
    <2>1. CASE s # Sender[Current(w)]
        BY <1>5, <2>1, WriteIsOfSender
    <2>2. CASE s = Sender[Current(w)]
        <3>1. pc[w] = "save" /\ Current(w) \in Messages
            BY <1>5, CurrentType DEF Save, Busy
        <3>2. sess[w] = sessions[s] /\ Reusable(sess[w])
            BY <2>2, <3>1 DEF SerialInv, CopyCurrent, Stored
        <3>3. PICK state \in NextStates(Current(w), sess[w].state) :
                  sessions'[s] = Session(state, Append(sess[w].turns, Current(w)))
            BY <1>5, <2>2 DEF Save, Inv, TypeOK, SessionsType
        <3>4. state \in SessionState
            <4>1. sess[w].state \in SessionState
                BY <3>2, SessionParts DEF Inv, TypeOK, SessionsType, Reusable
            <4> QED
                BY <4>1, TransitionType DEF NextStates
        <3> QED
            BY <3>1, <3>2, <3>3, <3>4
    <2> QED
        BY <2>1, <2>2
<1>6. ASSUME NEW w \in Workers, NEW p \in Payloads, Deliver(w, p) PROVE sessions' = sessions
    BY <1>6 DEF Deliver
<1>7. ASSUME NEW m \in Messages, ExpireLock(m) \/ ExpireMark(m) PROVE sessions' = sessions
    BY <1>7 DEF ExpireLock, ExpireMark
<1>8. ASSUME NEW w \in Workers, Handle(w) \/ Crash(w)
      PROVE  sessions' = sessions \/ Create(w) \/ Save(w)
    BY <1>8, SessionsWritten
<1> QED
    BY <1>1, <1>2, <1>3, <1>4, <1>5, <1>6, <1>7, <1>8 DEF Next

\* Where handlers work for a sender one at a time, no copy that a handler held across its
\* awaits brings a closed session back (process and resolve_or_create).
THEOREM ClosedFrozen == Spec => SerialClosedSessionFrozen
<1> DEFINE Step == Serial => ClosedStaysClosed
<1>1. Inv /\ SerialInv /\ [Next]_vars => [Step]_vars
    BY SessionSteps DEF ClosedStaysClosed, Reusable
<1> QED
    BY <1>1, InitInv, StepInv, InitSerial, StepSerial, PTL DEF Spec, SerialClosedSessionFrozen

\* The turns of a session with one more turn are its turns and that one.
LEMMA TurnsGrow ==
    ASSUME NEW s \in SessionType, s # NoSession, NEW m \in Messages, NEW state \in SessionState,
           NEW t, t = Session(state, Append(s.turns, m)), t # NoSession
    PROVE  Turns(s) \subseteq Turns(t)
<1>1. s.turns \in Seq(Messages)
    BY SessionParts
<1>2. t.turns = Append(s.turns, m)
    BY DEF Session
<1>3. \A i \in 1..Len(s.turns) : i \in 1..Len(t.turns) /\ t.turns[i] = s.turns[i]
    BY <1>1, <1>2
<1> QED
    BY <1>3 DEF Turns

\* ... and while no session expires, no save drops a turn of an open session.
THEOREM TurnsAreKept == Spec => SerialNoTurnDropped
<1> DEFINE Step == Serial /\ ~Fault("session_expiry") => TurnsKept
<1>1. ASSUME Inv, SerialInv, Next, Serial, ~Fault("session_expiry"), NEW s \in Senders,
             Reusable(sessions[s]), sessions'[s] # NoSession
      PROVE  Turns(sessions[s]) \subseteq Turns(sessions'[s])
    <2>1. sessions[s] \in SessionType /\ sessions[s] # NoSession
        BY <1>1 DEF Inv, TypeOK, SessionsType, Reusable
    <2>2. CASE sessions'[s] = sessions[s]
        BY <2>2
    <2>3. CASE \E m \in Messages, state \in SessionState :
                    sessions'[s] = Session(state, Append(sessions[s].turns, m))
        BY <1>1, <2>1, <2>3, TurnsGrow
    <2> QED
        BY <1>1, <2>1, <2>2, <2>3, SessionSteps
<1>2. Inv /\ SerialInv /\ [Next]_vars => [Step]_vars
    BY <1>1 DEF TurnsKept
<1> QED
    BY <1>2, InitInv, StepInv, InitSerial, StepSerial, PTL DEF Spec, SerialNoTurnDropped
-----------------------------------------------------------------------------
(* One reply without the in-memory lock.  Where handlers work for a sender  *)
(* one at a time, the mark alone keeps a message from a second attempt: a    *)
(* handler under way has none, and nobody else sets it meanwhile.           *)

Early == {"mark", "load", "create", "effect"}
Late == {"save", "finish"}

MarksKept == Serial /\ ~Fault("mark_expiry")
Unmarked == \A w \in Workers : pc[w] \in Early => Current(w) \notin processed
SoleInv == MarksKept => RepliesAccounted /\ Unmarked

Sole == Alone /\ MarksKept /\ RepliesAccounted /\ Unmarked

\* The other handlers stay where they are, at messages of other senders.
LEMMA OthersElsewhere ==
    ASSUME Alone, NEW w \in Workers,
           (\E p \in Payloads : Deliver(w, p)) \/ Handle(w) \/ Crash(w),
           NEW v \in Workers, v # w
    PROVE  /\ pc'[v] = pc[v] /\ Current(v)' = Current(v)
           /\ Busy(v) /\ Busy(w) => Current(v) # Current(w)
<1>1. pc'[v] = pc[v] /\ job'[v] = job[v] /\ idx'[v] = idx[v]
    BY OthersUntouched DEF Alone
<1> QED
    BY <1>1, SendersApart DEF Alone, Current

\* A step that answers nothing, marks nothing and cuts nothing short.
LEMMA SilentSole ==
    ASSUME Sole, NEW w \in Workers,
           \/ \E p \in Payloads : Deliver(w, p)
           \/ Skip(w) \/ Enter(w) \/ Mark(w) \/ Load(w) \/ Create(w) \/ Save(w)
           \/ Unmark(w) \/ Respond(w)
    PROVE  RepliesAccounted' /\ Unmarked'
<1> USE DEF Sole, Alone, Inv, TypeOK, ControlType
<1>1. processed' = processed /\ replies' = replies /\ faulted' = faulted
    BY DEF Deliver, Skip, Enter, Mark, Load, Create, Save, Unmark, Respond, dedupe, history
<1>2. /\ pc[w] \in Late => pc'[w] \in Late /\ Current(w)' = Current(w)
      /\ pc'[w] \in Early => Current(w)' \notin processed
    <2> USE DEF Early, Late, Goto
    <2>1. CASE (\E p \in Payloads : Deliver(w, p)) \/ Skip(w) \/ Unmark(w) \/ Respond(w)
        BY <2>1 DEF Deliver, Skip, Unmark, Respond, Release, Advance
    <2>2. CASE Enter(w)
        BY <2>2 DEF Enter, IsDuplicate, Current
    <2>3. CASE Mark(w) \/ Load(w) \/ Create(w)
        BY <2>3 DEF Mark, Load, TakeUp, StartFresh, Create, Current, Unmarked
    <2>4. CASE Save(w)
        BY <2>4 DEF Save, Current
    <2> QED
        BY <2>1, <2>2, <2>3, <2>4
<1>3. ASSUME NEW v \in Workers, v # w
      PROVE  pc'[v] = pc[v] /\ Current(v)' = Current(v)
    BY <1>3, OthersElsewhere DEF Handle
<1>4. Unmarked'
    BY <1>1, <1>2, <1>3 DEF Unmarked
<1>5. RepliesAccounted'
    <2>1. ASSUME NEW v \in Workers, pc[v] \in Late
          PROVE  pc'[v] \in Late /\ Current(v)' = Current(v)
        BY <1>2, <1>3, <2>1
    <2> QED
        BY <1>1, <2>1 DEF RepliesAccounted, Late
<1> QED
    BY <1>4, <1>5

\* The reply is the first: the message has no mark, and nobody else is at it.
LEMMA EffectSole ==
    ASSUME Sole, NEW w \in Workers, Effect(w)
    PROVE  RepliesAccounted' /\ Unmarked'
<1> USE DEF Sole, Alone, Inv, TypeOK, ControlType
<1>1. /\ processed' = processed /\ faulted' = faulted
      /\ pc[w] = "effect" /\ pc'[w] = "save" /\ Current(w)' = Current(w)
    BY DEF Effect, Goto, Current, dedupe
<1>2. ASSUME NEW v \in Workers, v # w
      PROVE  /\ pc'[v] = pc[v] /\ Current(v)' = Current(v)
             /\ Busy(v) => Current(v) # Current(w)
    BY <1>1, <1>2, OthersElsewhere DEF Handle, Busy
<1>3. Unmarked'
    BY <1>1, <1>2 DEF Unmarked, Early
<1>4. ASSUME NEW m \in Messages \ faulted
      PROVE  /\ replies'[m] \in {0, 1}
             /\ \/ replies'[m] = 0
                \/ m \in processed
                \/ \E v \in Workers : pc'[v] \in Late /\ Current(v)' = m
    <2>1. CASE m = Current(w)
        <3>1. m \notin processed
            BY <1>1, <2>1 DEF Unmarked, Early
        <3>2. ASSUME NEW v \in Workers, pc[v] \in Late PROVE Current(v) # m
            BY <1>1, <1>2, <2>1, <3>2 DEF Late, Busy
        <3>3. replies[m] = 0
            BY <3>1, <3>2 DEF RepliesAccounted, Late
        <3>4. replies'[m] \in {0, 1}
            BY <2>1, <3>3 DEF Effect, HistoryType
        <3> QED
            BY <1>1, <2>1, <3>4 DEF Late
    <2>2. CASE m # Current(w)
        <3>1. replies'[m] = replies[m]
            BY <2>2 DEF Effect, HistoryType
        <3>2. ASSUME NEW v \in Workers, pc[v] \in Late
              PROVE  pc'[v] = pc[v] /\ Current(v)' = Current(v)
            BY <1>1, <1>2, <3>2 DEF Late
        <3> QED
            BY <3>1, <3>2 DEF RepliesAccounted, Late
    <2> QED
        BY <2>1, <2>2
<1>5. RepliesAccounted'
    BY <1>1, <1>4 DEF RepliesAccounted, Late
<1> QED
    BY <1>3, <1>5

\* The mark, or the fault, takes the place of the handler that leaves.
LEMMA LeavingSole ==
    ASSUME Sole, NEW w \in Workers,
           Finish(w) \/ FinishFails(w) \/ DedupeFails(w) \/ Raise(w) \/ Crash(w)
    PROVE  RepliesAccounted' /\ Unmarked'
<1> USE DEF Sole, Alone, Inv, TypeOK, ControlType
<1>1. /\ replies' = replies /\ Busy(w) /\ pc'[w] \notin Early \cup Late
      /\ \/ processed' = processed \cup {Current(w)} /\ faulted \subseteq faulted'
         \/ processed' = processed /\ faulted' = faulted \cup {Current(w)}
    BY DEF Finish, FinishFails, MarkProcessed, DedupeFails, Raise, Crash, Release, Advance,
           Goto, Cut, Busy, Early, Late, dedupe
<1>2. ASSUME NEW v \in Workers, v # w
      PROVE  /\ pc'[v] = pc[v] /\ Current(v)' = Current(v)
             /\ Busy(v) => Current(v) # Current(w)
    BY <1>1, <1>2, OthersElsewhere DEF Handle
<1>3. Unmarked'
    BY <1>1, <1>2 DEF Unmarked, Early, Busy
<1>4. ASSUME NEW m \in Messages \ faulted'
      PROVE  /\ replies[m] \in {0, 1}
             /\ \/ replies[m] = 0
                \/ m \in processed'
                \/ \E v \in Workers : pc'[v] \in Late /\ Current(v)' = m
    <2>1. m \in Messages \ faulted /\ (m = Current(w) => m \in processed')
        BY <1>1
    <2>2. ASSUME NEW v \in Workers, pc[v] \in Late, Current(v) = m, m # Current(w)
          PROVE  pc'[v] \in Late /\ Current(v)' = m
        BY <1>2, <2>2
    <2> QED
        BY <1>1, <2>1, <2>2 DEF RepliesAccounted, Late
<1>5. RepliesAccounted'
    BY <1>1, <1>4 DEF RepliesAccounted, Late
<1> QED
    BY <1>3, <1>5

LEMMA InitSole == Init => SoleInv
    BY DEF Init, SoleInv, RepliesAccounted, Unmarked, Early

LEMMA StepSole == Inv /\ SerialInv /\ SoleInv /\ [Next]_vars => SoleInv'
<1> SUFFICES ASSUME Inv, SerialInv, SoleInv, [Next]_vars, MarksKept'
             PROVE  RepliesAccounted' /\ Unmarked'
    BY DEF SoleInv
<1>1. env' = env /\ MarksKept
    BY EnvStays DEF MarksKept, Serial, Fault
<1>2. Sole
    BY <1>1 DEF MarksKept, SerialInv, SoleInv, Alone, Sole
<1>3. ASSUME NEW w \in Workers, (\E p \in Payloads : Deliver(w, p)) \/ Handle(w) \/ Crash(w)
      PROVE  RepliesAccounted' /\ Unmarked'
    BY <1>2, <1>3, SilentSole, EffectSole, LeavingSole DEF Handle
<1>4. CASE Restart
    BY <1>4 DEF Restart, RepliesAccounted, Unmarked, Early, Inv, TypeOK
<1>5. CASE \/ \E m \in Messages : ExpireLock(m) \/ ExpireMark(m)
           \/ \E s \in Senders : ExpireSession(s)
           \/ UNCHANGED vars
    <2>1. /\ pc' = pc /\ job' = job /\ idx' = idx
          /\ processed' = processed /\ replies' = replies /\ faulted' = faulted
        BY <1>1, <1>5 DEF ExpireLock, ExpireMark, ExpireSession, MarksKept, vars, hosts, dedupe,
               history
    <2> QED
        BY <1>2, <2>1 DEF Sole, RepliesAccounted, Unmarked, Current
<1> QED
    BY <1>3, <1>4, <1>5 DEF Next

\* A message is answered twice only if a fault cut an attempt short: with the in-memory
\* stores whatever Meta sends, and with either store where handlers work for a sender one at
\* a time, as long as no mark ends between two deliveries (is_duplicate, mark_processed).
THEOREM OneReply == Spec => [](DedupeExact \/ MarksKept => NoDuplicateReply)
<1>1. Inv /\ DedupeInv /\ SoleInv => (DedupeExact \/ MarksKept => NoDuplicateReply)
    BY DEF DedupeInv, SoleInv, RepliesAccounted, NoDuplicateReply
<1> QED
    BY <1>1, InitInv, StepInv, InitDedupe, StepDedupe, InitSerial, StepSerial, InitSole, StepSole,
       PTL DEF Spec

-----------------------------------------------------------------------------
(* What a 200 stands for.  A lock belongs to a handler in the pipeline, a  *)
(* handler leaves only served messages behind it, and so the answer to a   *)
(* payload that ended well stands for all of its messages.                 *)

Done(m) == ShouldSkip(m) \/ m \in settled

Owned ==
    \A m \in processing : \E w \in Workers : InPipeline(w) /\ Current(w) = m

Passed(w) ==
    /\ Busy(w) => \A i \in 1..(idx[w] - 1) : Done(Batch[job[w]][i])
    /\ pc[w] = "respond" /\ err[w] = "none" => Served(job[w])
    /\ pc[w] = "unmark" => err[w] # "none"

AckedServed == \A p \in acked : Served(p) \/ p \in rejected

Answering == Serial /\ env.mode = "inline" /\ LocksEnd

AnswerInv == Answering => Owned /\ (\A w \in Workers : Passed(w)) /\ AckedServed

Ready ==
    /\ Inv /\ Apart /\ Answering
    /\ Owned /\ (\A w \in Workers : Passed(w)) /\ AckedServed

\* What was served stays served.
LEMMA SettledGrows == [Next]_vars => settled \subseteq settled' /\ rejected \subseteq rejected'
    BY DEF Next, vars, history, Handle, Deliver, Skip, Enter, Mark, DedupeFails, Load,
           Create, Effect, Save, Finish, FinishFails, MarkProcessed, Raise, Unmark,
           Respond, Crash, Restart, ExpireLock, ExpireMark, ExpireSession

\* A duplicate at which a handler stands has been served: nobody else is at it.
LEMMA DuplicateIsServed ==
    ASSUME Ready, NEW w \in Workers, pc[w] = "check", IsDuplicate(Current(w))
    PROVE  Current(w) \in settled
<1>1. CASE Current(w) \in processed
    BY <1>1 DEF Ready, Inv, PipelineInv, MarksOrdered
<1>2. CASE Current(w) \in processing
    <2>1. PICK v \in Workers : InPipeline(v) /\ Current(v) = Current(w)
        BY <1>2 DEF Ready, Owned
    <2>2. v # w /\ Busy(v) /\ Busy(w)
        BY <2>1 DEF InPipeline, Busy
    <2> QED
        BY <2>1, <2>2, SendersApart DEF Ready
<1> QED
    BY <1>1, <1>2 DEF IsDuplicate

\* A handler moves on from a message that is done.
LEMMA AdvancePassed ==
    ASSUME Ready, NEW w \in Workers, Busy(w), Advance(w), job' = job, err' = err,
           settled \subseteq settled',
           ShouldSkip(Current(w)) \/ Current(w) \in settled'
    PROVE  Passed(w)'
<1> DEFINE Fine(m) == ShouldSkip(m) \/ m \in settled'
<1>1. /\ Len(Batch[job[w]]) \in Nat /\ idx[w] \in 1..Len(Batch[job[w]])
      /\ job[w] \in Payloads
    BY CurrentType, BatchPositions DEF Ready
<1>2. \A i \in 1..idx[w] : Fine(Batch[job[w]][i])
    <2>1. \A i \in 1..(idx[w] - 1) : Fine(Batch[job[w]][i])
        BY DEF Ready, Passed, Done
    <2>2. Fine(Batch[job[w]][idx[w]])
        BY DEF Current
    <2> QED
        BY <1>1, <2>1, <2>2
<1>3. CASE idx[w] < Len(Batch[job[w]])
    <2>1. idx'[w] = idx[w] + 1 /\ pc'[w] = "check"
        BY <1>3 DEF Advance, Goto, Ready, Inv, TypeOK, ControlType, PositionType
    <2>2. \A i \in 1..(idx'[w] - 1) : Fine(Batch[job'[w]][i])
        BY <1>1, <1>2, <2>1
    <2> QED
        BY <2>1, <2>2 DEF Passed, Done, ShouldSkip
<1>4. CASE ~(idx[w] < Len(Batch[job[w]]))
    <2>1. idx'[w] = idx[w] /\ pc'[w] = "respond" /\ idx[w] = Len(Batch[job[w]])
        BY <1>1, <1>4 DEF Advance, Goto, Ready, Inv, TypeOK, ControlType
    <2>2. \A i \in 1..(idx'[w] - 1) : Fine(Batch[job'[w]][i])
        BY <1>1, <1>2, <2>1
    <2>3. \A m \in MessagesOf(job[w]) : Fine(m)
        BY <1>2, <2>1 DEF MessagesOf
    <2>4. Served(job[w])'
        BY <2>3 DEF Served, ShouldSkip, MessagesOf
    <2> QED
        BY <2>1, <2>2, <2>4 DEF Passed, Done, ShouldSkip, Served
<1> QED
    BY <1>3, <1>4

\* A handler that stays at its message keeps what lies behind it.
LEMMA StayPassed ==
    ASSUME Ready, NEW w \in Workers, Busy(w), job'[w] = job[w], idx'[w] = idx[w],
           settled \subseteq settled', pc'[w] # "respond",
           pc'[w] = "unmark" => err'[w] # "none"
    PROVE  Passed(w)'
    BY DEF Ready, Passed, Done, ShouldSkip

\* The other handlers keep what lies behind them.
LEMMA OtherPassed ==
    ASSUME Ready, settled \subseteq settled', NEW v \in Workers,
           pc'[v] = pc[v], job'[v] = job[v], idx'[v] = idx[v], err'[v] = err[v]
    PROVE  Passed(v)'
    BY DEF Ready, Passed, Done, ShouldSkip, Served, MessagesOf, Busy

\* The handler that moves.
LEMMA OwnPassed ==
    ASSUME Ready, NEW w \in Workers, settled \subseteq settled',
           (\E p \in Payloads : Deliver(w, p)) \/ Handle(w) \/ Crash(w)
    PROVE  Passed(w)'
<1> USE DEF Ready
<1>1. CASE \E p \in Payloads : Deliver(w, p)
    <2>1. idx'[w] = 1 /\ pc'[w] = "check"
        BY <1>1 DEF Deliver, Goto, Inv, TypeOK, ControlType, PositionType
    <2> QED
        BY <2>1 DEF Passed
<1>2. CASE Skip(w)
    BY <1>2, DuplicateIsServed, AdvancePassed DEF Skip, Busy
<1>3. CASE Finish(w)
    BY <1>3, AdvancePassed DEF Finish, MarkProcessed, Busy
<1>4. CASE Enter(w) \/ Mark(w) \/ Load(w) \/ Create(w) \/ Effect(w) \/ Save(w) \/ Raise(w)
    <2>1. /\ Busy(w) /\ job'[w] = job[w] /\ idx'[w] = idx[w]
          /\ pc'[w] # "respond" /\ (pc'[w] = "unmark" => err'[w] # "none")
        BY <1>4 DEF Enter, Mark, Load, TakeUp, StartFresh, Create, Effect, Save, Raise, Fail,
               Goto, Busy, Inv, TypeOK, ControlType
    <2> QED
        BY <2>1, StayPassed
<1>5. CASE Unmark(w)
    <2>1. /\ pc[w] = "unmark" /\ pc'[w] = "respond" /\ err' = err /\ job' = job /\ idx' = idx
        BY <1>5 DEF Unmark, Goto, Inv, TypeOK, ControlType
    <2> QED
        BY <2>1 DEF Passed, Done, ShouldSkip, Busy
<1>6. CASE Respond(w) \/ Crash(w)
    <2>1. pc'[w] = "idle"
        BY <1>6 DEF Respond, Crash, Release, Goto, Inv, TypeOK, ControlType
    <2> QED
        BY <2>1 DEF Passed, Busy
<1>7. CASE DedupeFails(w) \/ FinishFails(w)
    BY <1>7 DEF DedupeFails, FinishFails, Answering, LocksEnd
<1> QED
    BY <1>1, <1>2, <1>3, <1>4, <1>5, <1>6, <1>7 DEF Handle

\* A handler takes its lock along into the pipeline and drops it on the way out.
LEMMA StepOwned ==
    ASSUME Ready, NEW w \in Workers,
           (\E p \in Payloads : Deliver(w, p)) \/ Handle(w) \/ Crash(w)
    PROVE  Owned'
<1> USE DEF Ready
<1>1. \A v \in Workers : v # w => InPipeline(v)' = InPipeline(v) /\ Current(v)' = Current(v)
    BY OthersUntouched DEF InPipeline, Current
<1>2. CASE \/ \E p \in Payloads : Deliver(w, p)
           \/ Skip(w) \/ Respond(w)
    <2>1. ~InPipeline(w) /\ processing' = processing
        BY <1>2 DEF Deliver, Skip, Respond, InPipeline, dedupe
    <2> QED
        BY <1>1, <2>1 DEF Owned
<1>3. CASE Enter(w) \/ Mark(w) \/ Load(w) \/ Create(w) \/ Effect(w) \/ Save(w) \/ Raise(w)
    <2>1. /\ processing' \subseteq processing \cup {Current(w)}
          /\ InPipeline(w)' /\ Current(w)' = Current(w)
        BY <1>3 DEF Enter, Mark, Load, TakeUp, StartFresh, Create, Effect, Save, Raise,
               Goto, InPipeline, Current, dedupe, Inv, TypeOK, ControlType
    <2> QED
        BY <1>1, <2>1 DEF Owned
<1>4. CASE Finish(w) \/ Unmark(w)
    <2>1. processing' = processing \ {Current(w)}
        BY <1>4 DEF Finish, MarkProcessed, Unmark, Answering, LocksEnd
    <2> QED
        BY <1>1, <2>1 DEF Owned
<1>5. CASE DedupeFails(w) \/ FinishFails(w) \/ Crash(w)
    BY <1>5 DEF DedupeFails, FinishFails, Crash, Answering, LocksEnd
<1> QED
    BY <1>2, <1>3, <1>4, <1>5 DEF Handle

\* Only the end of a handler answers 200.
LEMMA StepAcked ==
    ASSUME Ready, NEW w \in Workers, settled \subseteq settled', rejected \subseteq rejected',
           (\E p \in Payloads : Deliver(w, p)) \/ Handle(w) \/ Crash(w)
    PROVE  AckedServed'
<1> USE DEF Ready
<1> DEFINE Fine(p) == \A m \in MessagesOf(p) : ShouldSkip(m) \/ m \in settled'
<1>1. \A p \in acked : Fine(p) \/ p \in rejected'
    BY DEF AckedServed, Served
<1>2. \/ acked' = acked
      \/ /\ pc[w] = "respond" /\ err[w] # "raised" /\ acked' = acked \cup {job[w]}
         /\ err[w] = "validation" => job[w] \in rejected'
    <2>1. CASE \E p \in Payloads : Deliver(w, p)
        BY <2>1 DEF Deliver, Answering
    <2>2. CASE Respond(w)
        BY <2>2 DEF Respond
    <2>3. CASE Handle(w) /\ ~Respond(w)
        BY <2>3 DEF Handle, Skip, Enter, Mark, DedupeFails, Load, Create, Effect, Save,
               Finish, FinishFails, Raise, Unmark, meta
    <2>4. CASE Crash(w)
        BY <2>4 DEF Crash, meta
    <2> QED
        BY <2>1, <2>2, <2>3, <2>4
<1>3. pc[w] = "respond" /\ err[w] = "none" => Fine(job[w])
    BY DEF Passed, Served
<1>4. err[w] \in {"none", "raised", "validation"}
    BY DEF Inv, TypeOK, ControlType
<1>5. \A p \in acked' : Fine(p) \/ p \in rejected'
    BY <1>1, <1>2, <1>3, <1>4
<1> QED
    BY <1>5 DEF AckedServed, Served, ShouldSkip, MessagesOf

LEMMA InitAnswer == Init => AnswerInv
    BY DEF Init, AnswerInv, Owned, Passed, AckedServed, Busy

LEMMA StepAnswer == Inv /\ SerialInv /\ AnswerInv /\ [Next]_vars => AnswerInv'
<1> SUFFICES ASSUME Inv, SerialInv, AnswerInv, [Next]_vars, Answering'
             PROVE  Owned' /\ (\A w \in Workers : Passed(w)') /\ AckedServed'
    BY DEF AnswerInv
<1>1. env' = env /\ Answering
    BY EnvStays DEF Answering, Serial, Fault, LocksEnd
<1>2. Ready
    BY <1>1 DEF AnswerInv, SerialInv, Ready, Answering
<1>3. settled \subseteq settled' /\ rejected \subseteq rejected'
    BY SettledGrows
<1>4. ASSUME NEW w \in Workers,
             (\E p \in Payloads : Deliver(w, p)) \/ Handle(w) \/ Crash(w)
      PROVE  Owned' /\ (\A v \in Workers : Passed(v)') /\ AckedServed'
    <2>1. ASSUME NEW v \in Workers, v # w PROVE Passed(v)'
        <3>1. pc'[v] = pc[v] /\ job'[v] = job[v] /\ idx'[v] = idx[v] /\ err'[v] = err[v]
            BY <1>2, <1>4, <2>1, OthersUntouched DEF Ready
        <3> QED
            BY <1>2, <1>3, <3>1, OtherPassed
    <2>2. Passed(w)'
        BY <1>2, <1>3, <1>4, OwnPassed
    <2> QED
        BY <1>2, <1>3, <1>4, <2>1, <2>2, StepOwned, StepAcked
<1>5. CASE Restart
    <2>1. processing' = {} /\ acked' = acked /\ \A w \in Workers : pc'[w] = "idle"
        BY <1>5 DEF Restart, meta
    <2>2. AckedServed'
        BY <1>2, <1>3, <2>1 DEF Ready, AckedServed, Served, ShouldSkip, MessagesOf
    <2> QED
        BY <2>1, <2>2 DEF Owned, Passed, Busy
<1>6. CASE \/ \E m \in Messages : ExpireLock(m) \/ ExpireMark(m)
           \/ \E s \in Senders : ExpireSession(s)
           \/ UNCHANGED vars
    <2>1. /\ pc' = pc /\ job' = job /\ idx' = idx /\ err' = err /\ acked' = acked
          /\ processing' \subseteq processing
        BY <1>6 DEF ExpireLock, ExpireMark, ExpireSession, vars, hosts, dedupe, meta
    <2>2. Owned'
        BY <1>2, <2>1 DEF Ready, Owned, InPipeline, Current
    <2>3. AckedServed'
        BY <1>2, <1>3, <2>1 DEF Ready, AckedServed, Served, ShouldSkip, MessagesOf
    <2> QED
        BY <1>2, <1>3, <2>1, <2>2, <2>3, OtherPassed
<1> QED
    BY <1>4, <1>5, <1>6 DEF Next

\* Where handlers work for a sender one at a time, Meta waits for the answer and no
\* lock outlives its handler, a 200 means that every message was processed or that the
\* payload was refused as invalid.
THEOREM AnswerStandsForAll == Spec => []SerialNoAckedLoss
<1>1. AnswerInv => SerialNoAckedLoss
    BY DEF AnswerInv, Answering, AckedServed, SerialNoAckedLoss, NoAckedLoss
<1> QED
    BY InitInv, StepInv, InitSerial, StepSerial, InitAnswer, StepAnswer, <1>1, PTL DEF Spec
=============================================================================

------------------------------ MODULE ReplyProofs ------------------------------
(***************************************************************************)
(* Theorems about a reply on its way: what the guards of Funnel make of it  *)
(* and how the sender of Outbound posts it, for any leads, patches, texts   *)
(* and forms, any callers and requests and any number of retries.          *)
(***************************************************************************)
EXTENDS Funnel, Outbound, FiniteSetTheorems, TLAPS

----------------------------------------------------------------------------
(* What the guards pick.                                                    *)

QuestionType == [key : CardField, topics : SUBSET CardField]

\* The orders in which topics, facts and questions are gone through have a first that fits.
LEMMA FirstFits ==
  ASSUME NEW S, S \subseteq 1..14, S # {}
  PROVE  \E i \in S : \A j \in S : i <= j
<1> SUFFICES ASSUME \A i \in S : \E j \in S : j < i PROVE FALSE
  OBVIOUS
<1>1. 1 \notin S /\ 2 \notin S /\ 3 \notin S /\ 4 \notin S
  OBVIOUS
<1>2. 5 \notin S /\ 6 \notin S /\ 7 \notin S /\ 8 \notin S
  BY <1>1
<1>3. 9 \notin S /\ 10 \notin S /\ 11 \notin S /\ 12 \notin S
  BY <1>1, <1>2
<1>4. 13 \notin S /\ 14 \notin S
  BY <1>1, <1>2, <1>3
<1>5. PICK x \in S : x \in 1..14
  OBVIOUS
<1>6. x \in 1..4 \/ x \in 5..8 \/ x \in 9..12 \/ x \in 13..14
  BY <1>5
<1> QED
  BY <1>1, <1>2, <1>3, <1>4, <1>5, <1>6

LEMMA QuestionsTyped ==
  ASSUME NEW e
  PROVE  QuestionsOf(e) \in Seq(QuestionType) /\ Len(QuestionsOf(e)) \in 2..5
<1>0. QuestionsOf(e) =
         CASE e \in {"automacao_atendimento", "sob_medida", "saas"} -> QuestionsOf(e)
           [] OTHER -> <<Question("urgency", {}), Question("budget_indication", {})>>
  BY DEF QuestionsOf
<1> USE DEF Question, Plain, QuestionType, CardField, ListFields, DirectFields, CountFields,
            FillFields
<1>1. CASE e = "automacao_atendimento"
  BY <1>1 DEF QuestionsOf
<1>2. CASE e = "sob_medida"
  BY <1>2 DEF QuestionsOf
<1>3. CASE e = "saas"
  BY <1>3 DEF QuestionsOf
<1>4. CASE e \notin {"automacao_atendimento", "sob_medida", "saas"}
  <2>1. QuestionsOf(e) = <<Question("urgency", {}), Question("budget_indication", {})>>
    BY <1>0, <1>4
  <2> QED
    BY <2>1
<1> QED
  BY <1>1, <1>2, <1>3, <1>4

LEMMA NeedTyped ==
  Question("specific_need", {}) \in QuestionType
  BY DEF Question, QuestionType, CardField, FillFields

\* The candidates are questions, at most six of them: the need if it is unknown, and every
\* question of the interest.
LEMMA CandidatesTyped ==
  ASSUME NEW c
  PROVE  /\ Candidates(c) \in Seq(QuestionType) /\ Len(Candidates(c)) \in 2..6
         /\ ~Has(c, "specific_need") =>
               \E i \in DOMAIN Candidates(c) : Candidates(c)[i].key = "specific_need"
         /\ \A j \in DOMAIN QuestionsOf(EffectiveInterest(c)) :
               \E i \in DOMAIN Candidates(c) :
                  Candidates(c)[i] = QuestionsOf(EffectiveInterest(c))[j]
<1> DEFINE qs == QuestionsOf(EffectiveInterest(c))
<1>1. qs \in Seq(QuestionType) /\ Len(qs) \in 2..5
  BY QuestionsTyped
<1>2. Candidates(c) = (IF Has(c, "specific_need") THEN <<>>
                       ELSE <<Question("specific_need", {})>>) \o qs
  BY DEF Candidates
<1>3. PICK q : q = Question("specific_need", {})
  OBVIOUS
<1>4. q \in QuestionType /\ q.key = "specific_need"
  BY <1>3, NeedTyped DEF Question
<1> HIDE DEF qs
<1>5. CASE Has(c, "specific_need")
  <2>1. Candidates(c) = qs
    BY <1>1, <1>2, <1>5
  <2> QED
    BY <1>1, <1>5, <2>1 DEF qs
<1>6. CASE ~Has(c, "specific_need")
  <2>1. Candidates(c) = <<q>> \o qs
    BY <1>2, <1>3, <1>6
  <2>2. Candidates(c) \in Seq(QuestionType) /\ Len(Candidates(c)) = 1 + Len(qs)
    BY <1>1, <1>4, <2>1
  <2>3. Candidates(c)[1] = q /\ \A j \in 1..Len(qs) : Candidates(c)[1 + j] = qs[j]
    BY <1>1, <1>4, <2>1
  <2>4. DOMAIN Candidates(c) = 1..(1 + Len(qs)) /\ DOMAIN qs = 1..Len(qs)
    BY <1>1, <2>2
  <2>5. \A j \in DOMAIN qs : \E i \in DOMAIN Candidates(c) : Candidates(c)[i] = qs[j]
    <3> TAKE j \in DOMAIN qs
    <3>1. 1 + j \in DOMAIN Candidates(c) /\ Candidates(c)[1 + j] = qs[j]
      BY <1>1, <2>3, <2>4
    <3> QED
      BY <3>1
  <2>6. 1 \in DOMAIN Candidates(c) /\ Candidates(c)[1].key = "specific_need"
    BY <1>1, <1>4, <2>3, <2>4
  <2>7. \A j \in DOMAIN QuestionsOf(EffectiveInterest(c)) :
           \E i \in DOMAIN Candidates(c) : Candidates(c)[i] = QuestionsOf(EffectiveInterest(c))[j]
    BY <2>5 DEF qs
  <2>8. \E i \in DOMAIN Candidates(c) : Candidates(c)[i].key = "specific_need"
    BY <2>6
  <2>9. \A n \in 2..5 : 1 + n \in 2..6
    OBVIOUS
  <2>10. Len(Candidates(c)) \in 2..6
    BY <1>1, <2>2, <2>9
  <2> QED
    BY <2>2, <2>7, <2>8, <2>10
<1> QED
  BY <1>5, <1>6

\* What is picked is a field of the card to be skipped neither, nor to be asked again.
LEMMA PicksOpen ==
  ASSUME NEW c, NEW skip, PickNextQuestion(c, skip) # NoQuestion
  PROVE  LET k == PickNextQuestion(c, skip).key
         IN  k \in CardField /\ k \notin skip /\ ~AlreadyHasValue(c, k)
<1>1. Pickable(c, skip) # {}
  BY DEF PickNextQuestion
<1>2. DOMAIN Candidates(c) \subseteq 1..14
  BY CandidatesTyped
<1>3. Pickable(c, skip) \subseteq 1..14
  BY <1>2 DEF Pickable
<1>4. PICK i \in Pickable(c, skip) : PickNextQuestion(c, skip) = Candidates(c)[i]
  BY <1>1, <1>3, FirstFits DEF PickNextQuestion
<1>5. i \in DOMAIN Candidates(c) /\ Candidates(c)[i].key \notin skip
      /\ ~AlreadyHasValue(c, Candidates(c)[i].key)
  BY <1>4 DEF Pickable
<1>6. Candidates(c)[i] \in QuestionType
  BY <1>5, CandidatesTyped
<1>7. Candidates(c)[i].key \in CardField
  BY <1>6 DEF QuestionType
<1> QED
  BY <1>4, <1>5, <1>7

\* As long as a candidate is open, one is picked.
LEMMA PicksWhenOpen ==
  ASSUME NEW c, NEW skip, NEW i \in DOMAIN Candidates(c),
         Candidates(c)[i].key \notin skip, ~AlreadyHasValue(c, Candidates(c)[i].key)
  PROVE  PickNextQuestion(c, skip) # NoQuestion
<1>1. i \in Pickable(c, skip)
  BY DEF Pickable
<1>2. DOMAIN Candidates(c) \subseteq 1..14
  BY CandidatesTyped
<1>3. Pickable(c, skip) \subseteq 1..14
  BY <1>2 DEF Pickable
<1>4. PICK k \in Pickable(c, skip) : PickNextQuestion(c, skip) = Candidates(c)[k]
  BY <1>1, <1>3, FirstFits DEF PickNextQuestion
<1>5. k \in DOMAIN Candidates(c)
  BY <1>4 DEF Pickable
<1>6. Candidates(c)[k] \in QuestionType
  BY <1>5, CandidatesTyped
<1>7. Candidates(c)[k].key \in CardField
  BY <1>6 DEF QuestionType
<1>8. NoQuestion.key \notin CardField
  BY DEF NoQuestion, Question, NoTopic, CardField, ListFields, DirectFields, CountFields,
         FillFields, Meeting
<1> QED
  BY <1>4, <1>7, <1>8

\* The need is asked for under no topic, and neither are urgency and budget.
Topics == {TopicOrder[i] : i \in DOMAIN TopicOrder}

LEMMA TopicsKnown ==
  /\ Topics \subseteq CardField
  /\ "specific_need" \notin Topics /\ "urgency" \notin Topics /\ "budget_indication" \notin Topics
<1>1. TopicOrder \in Seq(CardField \ {"specific_need", "urgency", "budget_indication"})
  BY DEF TopicOrder, CardField, ListFields, DirectFields, CountFields, FillFields, Meeting
<1> QED
  BY <1>1 DEF Topics

\* The signals of a list that are given are finitely many, and of n that are given there are
\* at least n.
LEMMA SomeSignals ==
  ASSUME NEW signals, NEW n \in Nat, DOMAIN signals = 1..n,
         NEW some, some \subseteq DOMAIN signals, \A m \in some : signals[m],
         NEW k \in Nat, IsFiniteSet(some), Cardinality(some) = k
  PROVE  AtLeast(k, signals)
<1> DEFINE given == {m \in DOMAIN signals : signals[m]}
<1>1. IsFiniteSet(given)
  <2>1. IsFiniteSet(1..n)
    BY FS_Interval
  <2> QED
    BY <2>1, FS_Subset
<1>2. some \subseteq given
  OBVIOUS
<1>3. Cardinality(some) <= Cardinality(given)
  BY <1>1, <1>2, FS_Subset
<1>4. Cardinality(given) \in Nat
  BY <1>1, FS_CardinalityType
<1>5. Cardinality(given) >= k
  <2> HIDE DEF given
  <2> QED
    BY <1>3, <1>4
<1> QED
  BY <1>5 DEF AtLeast

LEMMA Pair ==
  ASSUME NEW i, NEW j, i # j
  PROVE  IsFiniteSet({i, j}) /\ Cardinality({i, j}) = 2
<1>1. Cardinality({i}) = 1 /\ IsFiniteSet({i})
  BY FS_Singleton
<1>2. IsFiniteSet({i} \cup {j}) /\ Cardinality({i} \cup {j}) = Cardinality({i}) + 1
  BY <1>1, FS_AddElement
<1>3. {i} \cup {j} = {i, j}
  OBVIOUS
<1> QED
  BY <1>1, <1>2, <1>3

LEMMA Triple ==
  ASSUME NEW i, NEW j, NEW k, i # j, i # k, j # k
  PROVE  IsFiniteSet({i, j, k}) /\ Cardinality({i, j, k}) = 3
<1>1. IsFiniteSet({i, j}) /\ Cardinality({i, j}) = 2
  BY Pair
<1>2. IsFiniteSet({i, j} \cup {k}) /\ Cardinality({i, j} \cup {k}) = Cardinality({i, j}) + 1
  BY <1>1, FS_AddElement
<1>3. {i, j} \cup {k} = {i, j, k}
  OBVIOUS
<1> QED
  BY <1>1, <1>2, <1>3

\* Two signals, and three of them, are counted.
LEMMA TwoSignals ==
  ASSUME NEW signals, NEW n \in Nat, DOMAIN signals = 1..n,
         NEW i \in DOMAIN signals, NEW j \in DOMAIN signals, i # j, signals[i], signals[j]
  PROVE  AtLeast(2, signals)
<1>1. {i, j} \subseteq DOMAIN signals /\ \A m \in {i, j} : signals[m]
  OBVIOUS
<1>2. IsFiniteSet({i, j}) /\ Cardinality({i, j}) = 2
  BY Pair
<1> QED
  BY <1>1, <1>2, SomeSignals

LEMMA ThreeSignals ==
  ASSUME NEW signals, NEW n \in Nat, DOMAIN signals = 1..n,
         NEW i \in DOMAIN signals, NEW j \in DOMAIN signals, NEW k \in DOMAIN signals,
         i # j, i # k, j # k, signals[i], signals[j], signals[k]
  PROVE  AtLeast(3, signals)
<1>1. {i, j, k} \subseteq DOMAIN signals /\ \A m \in {i, j, k} : signals[m]
  OBVIOUS
<1>2. IsFiniteSet({i, j, k}) /\ Cardinality({i, j, k}) = 3
  BY Triple
<1> QED
  BY <1>1, <1>2, SomeSignals

LEMMA TwoOfThree ==
  ASSUME NEW signals, DOMAIN signals = 1..3, ~AtLeast(2, signals)
  PROVE  ~(signals[1] /\ signals[2]) /\ ~(signals[1] /\ signals[3]) /\ ~(signals[2] /\ signals[3])
<1>1. 1 \in DOMAIN signals /\ 2 \in DOMAIN signals /\ 3 \in DOMAIN signals /\ 3 \in Nat
      /\ 1 # 2 /\ 1 # 3 /\ 2 # 3
  OBVIOUS
<1> QED
  BY <1>1, TwoSignals

LEMMA ThreeOfFour ==
  ASSUME NEW signals, DOMAIN signals = 1..4, ~AtLeast(3, signals), signals[4]
  PROVE  ~(signals[1] /\ signals[2]) /\ ~(signals[1] /\ signals[3]) /\ ~(signals[2] /\ signals[3])
<1>1. 1 \in DOMAIN signals /\ 2 \in DOMAIN signals /\ 3 \in DOMAIN signals /\ 4 \in DOMAIN signals
      /\ 4 \in Nat /\ 1 # 2 /\ 1 # 3 /\ 2 # 3 /\ 1 # 4 /\ 2 # 4 /\ 3 # 4
  OBVIOUS
<1> QED
  BY <1>1, ThreeSignals

\* A question of the interest whose field is unknown is open.
LEMMA OpenQuestion ==
  ASSUME NEW c, NEW skip, NEW j \in DOMAIN QuestionsOf(EffectiveInterest(c)),
         QuestionsOf(EffectiveInterest(c))[j].key \notin skip \cup {"has_crm"},
         ~Has(c, QuestionsOf(EffectiveInterest(c))[j].key)
  PROVE  PickNextQuestion(c, skip) # NoQuestion
<1>1. PICK i \in DOMAIN Candidates(c) :
          Candidates(c)[i] = QuestionsOf(EffectiveInterest(c))[j]
  BY CandidatesTyped
<1>2. ~AlreadyHasValue(c, Candidates(c)[i].key)
  BY <1>1 DEF AlreadyHasValue
<1> QED
  BY <1>1, <1>2, PicksWhenOpen

\* As long as a lead is not ready, a question of its list stays open, also when the topic of
\* a question is skipped that the card answers or that is out of place.
LEMMA NotDry ==
  ASSUME NEW c, NEW skip, ~ReadyToSchedule(c), skip \subseteq Topics,
         \A t \in skip : IsAlreadyKnown(c, t) \/ ~IsRelevant(c, t),
         \A t, u \in skip : t = u
  PROVE  PickNextQuestion(c, skip) # NoQuestion
<1> DEFINE e == EffectiveInterest(c)
           qs == QuestionsOf(e)
<1>1. CASE ~Has(c, "specific_need")
  <2>1. PICK i \in DOMAIN Candidates(c) : Candidates(c)[i].key = "specific_need"
    BY <1>1, CandidatesTyped
  <2>2. ~AlreadyHasValue(c, "specific_need")
    BY <1>1 DEF AlreadyHasValue
  <2> QED
    BY <2>1, <2>2, TopicsKnown, PicksWhenOpen
<1> SUFFICES ASSUME Has(c, "specific_need") PROVE PickNextQuestion(c, skip) # NoQuestion
  BY <1>1
<1>2. ~Qualified(c)
  BY DEF ReadyToSchedule
<1>3. CASE e = "automacao_atendimento"
  <2> DEFINE volume == Has(c, "message_volume_per_day")
             attendants == Has(c, "attendants_count")
             tools == Has(c, "has_crm") \/ Has(c, "current_tools")
             signals == <<volume, attendants, tools, Has(c, "specific_need")>>
  <2>1. ~AtLeast(3, signals)
    BY <1>2, <1>3 DEF Qualified
  <2>2. DOMAIN signals = 1..4 /\ signals[1] = volume /\ signals[2] = attendants
        /\ signals[3] = tools /\ signals[4] = Has(c, "specific_need")
    OBVIOUS
  <2> HIDE DEF signals
  <2>3. ~(volume /\ attendants) /\ ~(volume /\ tools) /\ ~(attendants /\ tools)
    <3> HIDE DEF volume, attendants, tools
    <3> QED
      BY <2>1, <2>2, ThreeOfFour
  <2>4. /\ DOMAIN qs = 1..5
        /\ qs[1].key = "message_volume_per_day" /\ qs[2].key = "attendants_count"
        /\ qs[3].key = "current_tools"
    BY <1>3 DEF QuestionsOf, Question, Plain
  <2>5. \E j \in 1..3 : qs[j].key \notin skip /\ ~Has(c, qs[j].key)
    <3>1. "message_volume_per_day" \notin skip \/ "attendants_count" \notin skip
      OBVIOUS
    <3>2. "message_volume_per_day" \notin skip \/ "current_tools" \notin skip
      OBVIOUS
    <3>3. "attendants_count" \notin skip \/ "current_tools" \notin skip
      OBVIOUS
    <3> HIDE DEF qs
    <3> QED
      BY <2>3, <2>4, <3>1, <3>2, <3>3
  <2>6. PICK j \in 1..3 : qs[j].key \notin skip /\ ~Has(c, qs[j].key)
    BY <2>5
  <2>7. j \in DOMAIN qs /\ qs[j].key # "has_crm"
    <3> HIDE DEF qs
    <3> QED
      BY <2>4
  <2> QED
    BY <2>6, <2>7, OpenQuestion
<1>4. CASE e = "sob_medida"
  <2> DEFINE features == Has(c, "desired_features")
             integrations == Has(c, "integrations_needed")
             size == Has(c, "users_count") \/ Has(c, "company_size")
             signals == <<features, integrations, size>>
  <2>1. ~AtLeast(2, signals)
    BY <1>2, <1>4 DEF Qualified
  <2>2. DOMAIN signals = 1..3 /\ signals[1] = features /\ signals[2] = integrations
        /\ signals[3] = size
    OBVIOUS
  <2> HIDE DEF signals
  <2>3. ~(features /\ integrations) /\ ~(features /\ size) /\ ~(integrations /\ size)
    <3> HIDE DEF features, integrations, size
    <3> QED
      BY <2>1, <2>2, TwoOfThree
  <2>4. /\ DOMAIN qs = 1..4
        /\ qs[1].key = "desired_features" /\ qs[2].key = "integrations_needed"
        /\ qs[4].key = "users_count"
    BY <1>4 DEF QuestionsOf, Question, Plain
  <2>5. \E j \in {1, 2, 4} : qs[j].key \notin skip /\ ~Has(c, qs[j].key)
    <3>1. "desired_features" \notin skip \/ "integrations_needed" \notin skip
      OBVIOUS
    <3>2. "desired_features" \notin skip \/ "users_count" \notin skip
      OBVIOUS
    <3>3. "integrations_needed" \notin skip \/ "users_count" \notin skip
      OBVIOUS
    <3> HIDE DEF qs
    <3> QED
      BY <2>3, <2>4, <3>1, <3>2, <3>3
  <2>6. PICK j \in {1, 2, 4} : qs[j].key \notin skip /\ ~Has(c, qs[j].key)
    BY <2>5
  <2>7. j \in DOMAIN qs /\ qs[j].key # "has_crm"
    <3> HIDE DEF qs
    <3> QED
      BY <2>4
  <2> QED
    BY <2>6, <2>7, OpenQuestion
<1>5. CASE e = "saas"
  <2>1. ~Has(c, "modules_needed") \/ ~Has(c, "users_count")
    BY <1>2, <1>5 DEF Qualified
  <2>2. /\ DOMAIN qs = 1..3
        /\ qs[1].key = "modules_needed" /\ qs[2].key = "users_count"
    BY <1>5 DEF QuestionsOf, Question, Plain
  <2>3. PICK j \in 1..2 : ~Has(c, qs[j].key)
    <3> HIDE DEF qs
    <3> QED
      BY <2>1, <2>2
  <2>4. qs[j].key \in {"users_count", "modules_needed"}
    <3> HIDE DEF qs
    <3> QED
      BY <2>2
  <2>5. PICK k : k = qs[j].key
    OBVIOUS
  <2>6. k \in {"users_count", "modules_needed"} /\ ~Has(c, k)
    BY <2>3, <2>4, <2>5
  <2>7. ~IsAlreadyKnown(c, k)
    BY <2>6 DEF IsAlreadyKnown, Has
  <2>8. IsRelevant(c, k)
    BY <1>5, <2>6 DEF IsRelevant, AutomationQuestions
  <2>9. k \notin skip /\ k # "has_crm"
    BY <2>6, <2>7, <2>8
  <2>10. j \in DOMAIN qs
    <3> HIDE DEF qs
    <3> QED
      BY <2>2
  <2> QED
    BY <2>5, <2>6, <2>9, <2>10, OpenQuestion
<1>6. CASE e \in {"gestao_perfis_trafego", "intermediacao_entregas"}
  <2> DEFINE hurry == Has(c, "budget_indication") \/ Has(c, "urgency")
             gestao == <<Has(c, "specific_need"), hurry, Has(c, "company_size")>>
             entregas == <<Has(c, "specific_need"), Has(c, "location"), hurry>>
  <2>1. ~AtLeast(2, gestao) \/ ~AtLeast(2, entregas)
    BY <1>2, <1>6 DEF Qualified
  <2>2. /\ DOMAIN gestao = 1..3 /\ gestao[1] = Has(c, "specific_need") /\ gestao[2] = hurry
        /\ DOMAIN entregas = 1..3 /\ entregas[1] = Has(c, "specific_need")
        /\ entregas[3] = hurry
    OBVIOUS
  <2> HIDE DEF gestao, entregas
  <2>3. ~hurry
    <3> HIDE DEF hurry
    <3> QED
      BY <2>1, <2>2, TwoOfThree
  <2>4. qs = <<Question("urgency", {}), Question("budget_indication", {})>>
    BY <1>6 DEF QuestionsOf
  <2>5. 1 \in DOMAIN qs /\ qs[1].key = "urgency"
    BY <2>4 DEF Question
  <2> QED
    BY <2>3, <2>5, TopicsKnown, OpenQuestion
<1>7. CASE e \notin {"automacao_atendimento", "sob_medida", "saas", "gestao_perfis_trafego",
                    "intermediacao_entregas"}
  <2>1. Qualified(c) = Has(c, "specific_need")
    BY <1>7 DEF Qualified
  <2> QED
    BY <1>2, <2>1
<1> QED
  BY <1>3, <1>4, <1>5, <1>6, <1>7

\* The candidates do not run out before a lead is ready, whatever is on the card
\* (pick_next_question, the signals of readiness of the interests).
THEOREM QuestionsNeverRunDry == FunnelSpec => []NeverRunsDry
<1>1. NeverRunsDry
  <2>1. ASSUME ~ReadyToSchedule(card) PROVE PickNextQuestion(card, {}) # NoQuestion
    BY <2>1, NotDry
  <2>2. ASSUME ~ReadyToSchedule(card), NEW i \in DOMAIN TopicOrder,
               IsAlreadyKnown(card, TopicOrder[i]) \/ ~IsRelevant(card, TopicOrder[i])
        PROVE  PickNextQuestion(card, {TopicOrder[i]}) # NoQuestion
    <3>1. {TopicOrder[i]} \subseteq Topics
      BY DEF Topics
    <3> QED
      BY <2>2, <3>1, NotDry
  <2> QED
    BY <2>1, <2>2 DEF NeverRunsDry
<1> QED
  BY <1>1, PTL

----------------------------------------------------------------------------
(* What holds between the turns: the fields are fields of the card, and while *)
(* Otto is to answer, the mark on the time and the card say the same.        *)

Promised ==
    turn = "otto" /\ time # NoTime =>
        /\ (Refused \in recent) = OutOfHours(time)
        /\ Refused \notin recent => Has(card, Meeting)

FunnelInv ==
    /\ lead \in Leads
    /\ card.known \subseteq CardField
    /\ reply.asks \subseteq CardField
    /\ Promised

LEMMA FieldNames ==
  /\ Refused \notin CardField /\ Refused # "primary_interest"
  /\ Meeting \in CardField /\ {"email", "full_name", "company", "urgency", "budget_indication"}
                                  \subseteq CardField
  /\ NoTopic \notin CardField
  BY DEF Refused, CardField, ListFields, DirectFields, CountFields, FillFields, Meeting, NoTopic

\* A call to action asks for fields that the card lacks, never for the CRM.
LEMMA CtaAsksOpen ==
  ASSUME NEW c
  PROVE  \A f \in BuildNextStepCta(c).asks :
            f \in CardField /\ ~Has(c, f) /\ ~AlreadyHasValue(c, f)
<1> DEFINE cta == BuildNextStepCta(c)
           wanted == {f \in {"email", "full_name", "company", "urgency", "budget_indication",
                             Meeting} : ~Has(c, f)}
<1>1. CASE Has(c, Meeting)
  <2>1. cta = MeetingDetails(c)
    BY <1>1 DEF BuildNextStepCta, ReadyToSchedule
  <2>2. MeetingDetails(c).asks \subseteq wanted
    BY DEF MeetingDetails, Cta, Has
  <2> QED
    BY <2>1, <2>2, FieldNames DEF AlreadyHasValue, Meeting
<1>2. CASE ~Has(c, Meeting)
  <2>1. cta \in {Cta("schedule_error", {}), Cta("urgency", {"urgency"}),
                 Cta("budget", {"budget_indication"}), Cta("offer", {Meeting})}
    BY <1>2 DEF BuildNextStepCta
  <2>2. cta = Cta("urgency", {"urgency"}) => ~Has(c, "urgency")
    BY <1>2 DEF BuildNextStepCta, Cta
  <2>3. cta = Cta("budget", {"budget_indication"}) => ~Has(c, "budget_indication")
    BY <1>2 DEF BuildNextStepCta, Cta
  <2>4. cta.asks \subseteq wanted
    BY <1>2, <2>1, <2>2, <2>3 DEF Cta
  <2> QED
    BY <2>4, FieldNames DEF AlreadyHasValue, Meeting
<1> QED
  BY <1>1, <1>2

\* Who makes the reply, and of what.
LEMMA GuardCases ==
  ASSUME NEW c, NEW text, NEW fresh, NEW confirmed, NEW r, r = ApplyGuards(c, text, fresh, confirmed)
  PROVE  \/ r = Untouched(text) /\ (c = NoCard \/ ~RepetitionFires(c, text))
         \/ r = BusinessHoursReply /\ c # NoCard
         \/ r = RepetitionReply(c, text, fresh) /\ RepetitionFires(c, text)
         \/ r = ContinuationReply(c, text)
  BY DEF ApplyGuards

\* The parts of a reply.
LEMMA ReplyParts ==
  ASSUME NEW by, NEW ack, NEW asks, NEW topic
  PROVE  LET r == Reply(by, ack, asks, topic)
         IN  r.by = by /\ r.ack = ack /\ r.asks = asks /\ r.topic = topic
  BY DEF Reply

\* What a guard's own reply asks for is open on the card.
LEMMA AsksOpen ==
  ASSUME NEW c, NEW text, NEW fresh, NEW confirmed, NEW r, r = ApplyGuards(c, text, fresh, confirmed)
  PROVE  \/ r.by = "business_hours" /\ r.asks = {Meeting}
         \/ \A f \in r.asks : f \in CardField /\ ~AlreadyHasValue(c, f)
<1>1. CASE r = Untouched(text)
  BY <1>1 DEF Untouched, Reply
<1>2. CASE r = BusinessHoursReply
  BY <1>2 DEF BusinessHoursReply, Reply
<1>3. CASE r = RepetitionReply(c, text, fresh)
  <2> DEFINE next == PickNextQuestion(c, {DetectQuestionType(text)})
  <2>1. r.asks = IF next # NoQuestion THEN {next.key} ELSE BuildNextStepCta(c).asks
    BY <1>3 DEF RepetitionReply, Reply
  <2> QED
    BY <2>1, PicksOpen, CtaAsksOpen
<1>4. CASE r = ContinuationReply(c, text)
  <2> DEFINE next == PickNextQuestion(c, {})
  <2>1. r.asks = IF ReadyToSchedule(c) \/ next = NoQuestion
                 THEN BuildNextStepCta(c).asks ELSE {next.key}
    BY <1>4 DEF ContinuationReply, Reply
  <2> QED
    BY <2>1, PicksOpen, CtaAsksOpen
<1> QED
  BY <1>1, <1>2, <1>3, <1>4, GuardCases

\* What is open is neither held nor known.
LEMMA OpenIsUnknown ==
  ASSUME NEW c, NEW f, ~AlreadyHasValue(c, f)
  PROVE  ~Has(c, f) /\ ~IsAlreadyKnown(c, f)
  BY DEF AlreadyHasValue, IsAlreadyKnown, KnowsCrm, Has

LEMMA FunnelInitInv == FunnelInit => FunnelInv
<1> SUFFICES ASSUME FunnelInit PROVE FunnelInv
  OBVIOUS
<1>1. NoCard.known = {} /\ BlankCard.known = {}
  BY DEF NoCard, BlankCard
<1>2. NoReply.asks = {}
  BY DEF NoReply, Reply
<1> QED
  BY <1>1, <1>2 DEF FunnelInit, FunnelInv, Promised

\* A patched card holds what the card and the patch hold.
LEMMA PatchedParts ==
  ASSUME NEW c, NEW p PROVE PatchedCard(c, p).known = c.known \cup p.known
  BY DEF PatchedCard

\* A patch keeps the bond of the mark, the time and the
\* card (_apply_extraction).
LEMMA ExtractKeeps ==
  ASSUME FunnelInv, NEW p \in Patch, Extract(p)
  PROVE  FunnelInv'
<1> DEFINE refused == Meeting \in p.known /\ OutOfHours(p.time)
<1>1. PICK kept : kept = IF refused THEN [p EXCEPT !.known = p.known \ {Meeting}] ELSE p
  OBVIOUS
<1>2. /\ turn' = "otto" /\ reply' = NoReply /\ lead' = lead
      /\ IF card = NoCard THEN recent' = {} /\ time' = NoTime /\ card' = card
         ELSE /\ recent' = FieldsOf(p) \cup (IF refused THEN {Refused} ELSE {})
              /\ time' = IF Meeting \in p.known THEN p.time ELSE NoTime
              /\ card' = PatchedCard(card, kept)
  BY <1>1 DEF Extract
<1>3. reply'.asks = {}
  BY <1>2 DEF NoReply, Reply
<1>4. CASE card = NoCard
  BY <1>2, <1>3, <1>4 DEF FunnelInv, Promised
<1>5. CASE card # NoCard
  <2>1. kept.known \subseteq p.known /\ (~refused => kept = p)
    <3>1. refused => kept.known = p.known \ {Meeting}
      <4> HIDE DEF refused
      <4> QED
        BY <1>1 DEF Patch
    <3>2. ~refused => kept = p
      BY <1>1
    <3> QED
      BY <3>1, <3>2
  <2>2. card'.known = card.known \cup kept.known
    BY <1>2, <1>5, PatchedParts
  <2>3. card'.known \subseteq CardField
    BY <2>1, <2>2 DEF FunnelInv, Patch
  <2>4. Refused \in recent' <=> refused
    <3>1. Refused \notin FieldsOf(p)
      BY FieldNames DEF FieldsOf, Patch
    <3> HIDE DEF refused
    <3> QED
      BY <1>2, <1>5, <3>1
  <2>5. ASSUME time' # NoTime
        PROVE  (Refused \in recent') = OutOfHours(time') /\ (Refused \notin recent' => Has(card', Meeting))
    <3>1. Meeting \in p.known /\ time' = p.time
      BY <1>2, <1>5, <2>5
    <3>2. refused <=> OutOfHours(time')
      BY <3>1
    <3>3. OutOfHours(time') \in BOOLEAN
      BY DEF OutOfHours
    <3>4. ~refused => Meeting \in card'.known
      BY <2>1, <2>2, <3>1
    <3> HIDE DEF refused
    <3> QED
      BY <2>4, <3>2, <3>3, <3>4 DEF Has
  <2> QED
    BY <1>2, <1>3, <2>3, <2>5 DEF FunnelInv, Promised
<1> QED
  BY <1>4, <1>5

LEMMA GuardKeeps ==
  ASSUME FunnelInv, NEW text, Guard(text)
  PROVE  FunnelInv'
<1>1. reply' = ApplyGuards(card, text, recent, confirms) /\ turn' = "user"
      /\ lead' = lead /\ card' = card
  BY DEF Guard
<1>2. reply'.asks \subseteq CardField
  BY <1>1, AsksOpen, FieldNames
<1> QED
  BY <1>1, <1>2 DEF FunnelInv, Promised

LEMMA FormKeeps ==
  ASSUME FunnelInv, NEW a \in Forms, FlowCompletion(a)
  PROVE  FunnelInv'
<1>1. /\ card' = PatchedCard(card, PatchOfForm(a)) /\ turn = "user"
      /\ lead' = lead /\ reply' = reply /\ turn' = turn
  BY DEF FlowCompletion
<1>2. PatchOfForm(a).known \subseteq CardField
  BY FunnelAssumption, FieldNames DEF FunnelAssumption, PatchOfForm
<1>3. card'.known = card.known \cup PatchOfForm(a).known
  BY <1>1 DEF PatchedCard
<1> QED
  BY <1>1, <1>2, <1>3 DEF FunnelInv, Promised

LEMMA FunnelNextInv == FunnelInv /\ [FunnelNext]_funnelVars => FunnelInv'
<1> SUFFICES ASSUME FunnelInv, [FunnelNext]_funnelVars PROVE FunnelInv'
  OBVIOUS
<1>1. ASSUME NEW p \in Patches[lead], Extract(p) PROVE FunnelInv'
  <2>1. p \in Patch
    BY FunnelAssumption DEF FunnelAssumption, FunnelInv
  <2> QED
    BY <1>1, <2>1, ExtractKeeps
<1>2. CASE Answer
  <2> DEFINE p == [interest |-> "", known |-> reply.asks, tags |-> {}, time |-> NoTime,
                   confirms |-> FALSE]
  <2>2. Extract(p)
    BY <1>2 DEF Answer
  <2>3. NoTime \in Written
    BY DEF NoTime, Written
  <2>4. reply.asks \in SUBSET CardField
    BY DEF FunnelInv
  <2>5. p \in Patch
    BY <2>3, <2>4 DEF Patch
  <2> HIDE DEF p
  <2> QED
    BY <2>2, <2>5, ExtractKeeps
<1>3. ASSUME NEW t \in Texts, Guard(t) PROVE FunnelInv'
  BY <1>3, GuardKeeps
<1>4. ASSUME NEW a \in Forms, FlowCompletion(a) PROVE FunnelInv'
  BY <1>4, FormKeeps
<1>5. CASE UNCHANGED funnelVars
  BY <1>5 DEF funnelVars, FunnelInv, Promised
<1> QED
  BY <1>1, <1>2, <1>3, <1>4, <1>5 DEF FunnelNext

THEOREM FunnelInvariant == FunnelSpec => []FunnelInv
  BY FunnelInitInv, FunnelNextInv, PTL DEF FunnelSpec

\* An hour of the day is never taken for an unclear one.
LEMMA HoursAreClear == 12 # Unclear /\ 0 # Unclear /\ \A h \in 0..23 : h # Unclear
  BY DEF Unclear

LEMMA SafeHourIs ==
  ASSUME NEW h
  PROVE  /\ h \in 0..23 => SafeHour(h) = h
         /\ SafeHour(h) # Unclear => SafeHour(h) = h
  BY DEF SafeHour

LEMMA SpecialHourIs ==
  ASSUME NEW t
  PROVE  SpecialHour(t) = Unclear <=> t.period \notin {"meio dia", "meia noite"}
<1>1. CASE t.period = "meio dia"
  BY <1>1, HoursAreClear DEF SpecialHour
<1>2. CASE t.period = "meia noite"
  BY <1>2, HoursAreClear DEF SpecialHour
<1>3. CASE t.period \notin {"meio dia", "meia noite"}
  BY <1>3 DEF SpecialHour
<1> QED
  BY <1>1, <1>2, <1>3

\* A time that is read as it was meant is read: one with a mark of its own.
LEMMA ReadMarked ==
  ASSUME NEW t, ReadAsMeant(t), ExtractHour(t) # Unclear, SpecialHour(t) = Unclear,
         t.mark # "none"
  PROVE  ExtractHour(t) = t.n
<1>1. t.n \in 0..23 /\ t.period \in {"none", "manha"}
  BY SpecialHourIs DEF ReadAsMeant
<1>2. AmPmHour(t) = Unclear /\ EveningHour(t) = Unclear
  BY <1>1 DEF AmPmHour, EveningHour
<1>3. ExtractHour(t) = Or(ColonHour(t), Or(HoraHour(t), MorningHour(t)))
  BY <1>2 DEF ExtractHour, Or
<1>4. SafeHour(t.n) = t.n /\ t.n # Unclear
  BY <1>1, SafeHourIs, HoursAreClear
<1>5. CASE t.mark = "colon"
  BY <1>3, <1>4, <1>5 DEF ColonHour, Or
<1>6. CASE t.mark = "hora"
  BY <1>3, <1>4, <1>6 DEF ColonHour, HoraHour, Or
<1>7. CASE t.mark \notin {"colon", "hora"}
  <2>1. ExtractHour(t) = MorningHour(t)
    BY <1>3, <1>7 DEF ColonHour, HoraHour, Or
  <2>2. t.period = "manha" /\ SafeHour(Beside(t)) # Unclear
    BY <2>1 DEF MorningHour
  <2>3. Beside(t) # Unclear
    BY <2>2, SafeHourIs
  <2>4. t.mark = "hora_minutes"
    BY <1>7, <2>3 DEF Beside
  <2> QED
    BY <2>2, <2>4 DEF ReadAsMeant
<1> QED
  BY <1>5, <1>6, <1>7

\* And one without.
LEMMA ReadUnmarked ==
  ASSUME NEW t, ReadAsMeant(t), ExtractHour(t) # Unclear, SpecialHour(t) = Unclear,
         t.mark = "none"
  PROVE  ExtractHour(t) = MeantHour(t)
<1>1. /\ ColonHour(t) = Unclear /\ HoraHour(t) = Unclear /\ Beside(t) = t.n
      /\ t.n \in 0..23 /\ ~(t.n = 12 /\ t.period = "noite")
  BY DEF ColonHour, HoraHour, Beside, ReadAsMeant
<1>2. ExtractHour(t) = Or(AmPmHour(t), Or(EveningHour(t), MorningHour(t)))
  BY <1>1 DEF ExtractHour, Or
<1>3. SafeHour(t.n) = t.n /\ t.n # Unclear /\ (t.n \in 1..11 => t.n + 12 # Unclear)
  <2>1. t.n \in 1..11 => t.n + 12 \in 0..23
    BY <1>1
  <2> QED
    BY <1>1, <2>1, SafeHourIs, HoursAreClear
<1>4. CASE t.period \in {"am", "pm"}
  <2>1. AmPmHour(t) = MeantHour(t)
    BY <1>1, <1>3, <1>4 DEF AmPmHour, MeantHour
  <2>2. AmPmHour(t) # Unclear
    BY <1>1, <1>3, <1>4, HoursAreClear DEF AmPmHour
  <2> QED
    BY <1>2, <2>1, <2>2 DEF Or
<1>5. CASE t.period \in {"tarde", "noite"}
  <2>1. AmPmHour(t) = Unclear
    BY <1>5 DEF AmPmHour
  <2>2. EveningHour(t) = MeantHour(t)
    BY <1>1, <1>3, <1>5 DEF EveningHour, MeantHour
  <2>3. EveningHour(t) # Unclear
    BY <1>1, <1>3, <1>5 DEF EveningHour
  <2> QED
    BY <1>2, <2>1, <2>2, <2>3 DEF Or
<1>6. CASE t.period \notin {"am", "pm", "tarde", "noite"}
  <2>1. AmPmHour(t) = Unclear /\ EveningHour(t) = Unclear
    BY <1>6 DEF AmPmHour, EveningHour
  <2>2. ExtractHour(t) = MorningHour(t)
    BY <1>2, <2>1 DEF Or
  <2>3. MorningHour(t) = t.n
    BY <1>1, <1>3, <2>2 DEF MorningHour
  <2>4. MeantHour(t) = t.n
    BY <1>6 DEF MeantHour
  <2> QED
    BY <2>2, <2>3, <2>4
<1> QED
  BY <1>4, <1>5, <1>6

LEMMA ReadHour ==
  ASSUME NEW t, ReadAsMeant(t), ExtractHour(t) # Unclear
  PROVE  ExtractHour(t) = MeantHour(t)
<1>1. CASE SpecialHour(t) # Unclear
  <2>1. MeantHour(t) = SpecialHour(t)
    <3>1. t.period \in {"meio dia", "meia noite"}
      BY <1>1, SpecialHourIs
    <3> QED
      BY <1>1, <3>1 DEF MeantHour
  <2> QED
    BY <1>1, <2>1 DEF ExtractHour, Or
<1>2. CASE SpecialHour(t) = Unclear /\ t.mark # "none"
  <2>1. t.period \in {"none", "manha"}
    BY <1>2, SpecialHourIs DEF ReadAsMeant
  <2>2. MeantHour(t) = t.n
    BY <1>2, <2>1 DEF MeantHour
  <2> QED
    BY <1>2, <2>2, ReadMarked
<1>3. CASE SpecialHour(t) = Unclear /\ t.mark = "none"
  BY <1>3, ReadUnmarked
<1> QED
  BY <1>1, <1>2, <1>3

\* A meeting time named in the chat is taken exactly when the hour it means lies in business
\* hours, whatever is said and extracted besides (_apply_extraction, meeting_time_validator.py).
THEOREM MeetingHoursKept == FunnelSpec => []MeetingHoursHonoured
<1>1. FunnelInv => MeetingHoursHonoured
  <2> SUFFICES ASSUME FunnelInv, turn = "otto", time # NoTime, ReadAsMeant(time),
                      ExtractHour(time) # Unclear
               PROVE  /\ (Refused \in recent) = (MeantHour(time) \notin StartHour..EndHour)
                      /\ Refused \notin recent => Has(card, Meeting)
    BY DEF MeetingHoursHonoured
  <2>1. OutOfHours(time) = (MeantHour(time) \notin StartHour..EndHour)
    BY ReadHour DEF OutOfHours
  <2> QED
    BY <2>1 DEF FunnelInv, Promised
<1> QED
  BY <1>1, FunnelInvariant, PTL

\* No question that goes out asks for what the card holds at that moment
\* (otto_repetition_guard.py, otto_guard_questions.py, next_step_cta.py).
THEOREM NeverAsksTheKnown == FunnelSpec => NeverAsksKnown
<1> DEFINE Asks == reply' # reply /\ reply'.by # "business_hours" /\ card # NoCard =>
                       /\ \A f \in reply'.asks : ~Has(card, f) /\ ~IsAlreadyKnown(card, f)
                       /\ reply'.by = "otto" => ~IsAlreadyKnown(card, reply'.topic)
<1>1. ASSUME FunnelInv, NEW text, Guard(text), card # NoCard, reply'.by # "business_hours"
      PROVE  /\ \A f \in reply'.asks : ~Has(card, f) /\ ~IsAlreadyKnown(card, f)
             /\ reply'.by = "otto" => ~IsAlreadyKnown(card, reply'.topic)
  <2> DEFINE type == DetectQuestionType(text)
  <2>1. PICK r : r = reply' /\ r = ApplyGuards(card, text, recent, confirms)
    BY <1>1 DEF Guard
  <2>2. \A f \in r.asks : ~AlreadyHasValue(card, f)
    BY <1>1, <2>1, AsksOpen
  <2>3. ASSUME r.by = "otto" PROVE ~IsAlreadyKnown(card, r.topic)
    <3>1. r = Untouched(text) /\ ~RepetitionFires(card, text)
      <4>1. r # BusinessHoursReply
        BY <2>3 DEF BusinessHoursReply, Reply
      <4>2. r # RepetitionReply(card, text, recent)
        BY <2>3 DEF RepetitionReply, Reply
      <4>3. r # ContinuationReply(card, text)
        BY <2>3 DEF ContinuationReply, Reply
      <4> QED
        BY <1>1, <2>1, <4>1, <4>2, <4>3, GuardCases
    <3>2. r.topic = type
      BY <3>1 DEF Untouched, Reply
    <3>3. type # NoTopic => ~IsAlreadyKnown(card, type)
      BY <3>1 DEF RepetitionFires
    <3>4. ~IsAlreadyKnown(card, NoTopic)
      <4>1. NoTopic \notin card.known
        BY <1>1, FieldNames DEF FunnelInv
      <4> QED
        BY <4>1 DEF IsAlreadyKnown, NoTopic
    <3> QED
      BY <3>2, <3>3, <3>4
  <2> QED
    BY <2>1, <2>2, <2>3, OpenIsUnknown
<1>2. ASSUME FunnelInv, NEW p, Extract(p) PROVE Asks
  BY <1>2 DEF Extract, NoReply, Reply
<1>3. FunnelInv /\ [FunnelNext]_funnelVars => Asks \/ UNCHANGED funnelVars
  <2> SUFFICES ASSUME FunnelInv, FunnelNext PROVE Asks
    OBVIOUS
  <2>1. CASE \E text \in Texts : Guard(text)
    BY <1>1, <2>1
  <2>2. CASE (\E p \in Patches[lead] : Extract(p)) \/ Answer
    BY <1>2, <2>2 DEF Answer
  <2>3. CASE \E a \in Forms : FlowCompletion(a)
    BY <2>3 DEF FlowCompletion
  <2> QED
    BY <2>1, <2>2, <2>3 DEF FunnelNext
<1> QED
  BY <1>3, FunnelInvariant, PTL DEF FunnelSpec, NeverAsksKnown

\* The acknowledgement names the first fact just learned, or what the question was about.
LEMMA AckHolds ==
  ASSUME NEW c, NEW type, NEW fresh, NEW ack, ack = BuildAck(c, type, fresh)
  PROVE  \/ ack = "crm" /\ {"crm_yes", "crm_tool"} \cap c.tags # {}
         \/ ack = "no crm" /\ "has_crm" \in c.known /\ "crm_yes" \notin c.tags
         \/ ack = "no crm" /\ type = "has_crm" /\ {"crm_yes", "crm_tool"} \cap c.tags = {}
         \/ ack \in c.known /\ ack \in CardField
         \/ ack = "none"
<1> DEFINE news == {i \in DOMAIN AckOrder : AckOrder[i] \in fresh \cap Facts(c)}
           first == AckOrder[CHOOSE i \in news : \A j \in news : i <= j]
<1>1. Facts(c) \subseteq c.known \cap CardField
  BY DEF Facts, CardField, ListFields, DirectFields, CountFields, FillFields
<1>2. CASE news # {}
  <2>1. first \in Facts(c)
    <3>1. DOMAIN AckOrder \subseteq 1..14
      BY DEF AckOrder
    <3>2. news \subseteq 1..14
      BY <3>1
    <3>3. (CHOOSE i \in news : \A j \in news : i <= j) \in news
      <4> HIDE DEF news
      <4> QED
        BY <1>2, <3>2, FirstFits
    <3> QED
      BY <3>3
  <2>2. ack = IF first = "has_crm" THEN CrmFact(c) ELSE first
    BY <1>2 DEF BuildAck
  <2> HIDE DEF first, news
  <2> QED
    BY <1>1, <2>1, <2>2 DEF CrmFact
<1>3. CASE news = {} /\ type = "has_crm"
  <2>1. ack = IF {"crm_yes", "crm_tool"} \cap c.tags # {} THEN "crm" ELSE "no crm"
    BY <1>3 DEF BuildAck
  <2> QED
    BY <1>3, <2>1
<1>4. CASE news = {} /\ type # "has_crm"
  <2>1. ack = IF type \in Facts(c) THEN type ELSE "none"
    BY <1>4 DEF BuildAck
  <2> QED
    BY <1>1, <2>1
<1> QED
  BY <1>2, <1>3, <1>4

\* What a guard acknowledges is in the card, but for the CRM of a lead it is out of place to
\* ask for one (build_ack, otto_guard_ack.py).
THEOREM AcknowledgesTheKnown == FunnelSpec => AckIsFounded
<1> DEFINE Founded ==
      reply' # reply /\ reply'.ack # "none" =>
          CASE reply'.ack = "crm" -> {"crm_yes", "crm_tool"} \cap card.tags # {}
            [] reply'.ack = "no crm" ->
                 \/ "has_crm" \in card.known /\ "crm_yes" \notin card.tags
                 \/ reply'.topic = "has_crm" /\ ~KnowsCrm(card)
                                             /\ ~IsRelevant(card, "has_crm")
            [] OTHER -> reply'.ack \in card.known
<1>1. ASSUME NEW text, Guard(text) PROVE Founded
  <2> DEFINE type == DetectQuestionType(text)
  <2>1. PICK r : r = reply' /\ r = ApplyGuards(card, text, recent, confirms)
    BY <1>1 DEF Guard
  <2>2. CASE r.ack # "none"
    <3>1. r = RepetitionReply(card, text, recent) /\ RepetitionFires(card, text)
      <4>1. r # Untouched(text)
        BY <2>2 DEF Untouched, Reply
      <4>2. r # BusinessHoursReply
        BY <2>2 DEF BusinessHoursReply, Reply
      <4>3. r # ContinuationReply(card, text)
        BY <2>2 DEF ContinuationReply, Reply
      <4> QED
        BY <2>1, <4>1, <4>2, <4>3, GuardCases
    <3>2. r.ack = BuildAck(card, type, recent) /\ r.topic = type
      BY <3>1 DEF RepetitionReply, Reply
    <3>3. IsAlreadyKnown(card, type) \/ ~IsRelevant(card, type)
      BY <3>1 DEF RepetitionFires
    <3> HIDE DEF type
    <3>4. ASSUME type = "has_crm", {"crm_yes", "crm_tool"} \cap card.tags = {}
          PROVE  \/ "has_crm" \in card.known /\ "crm_yes" \notin card.tags
                 \/ ~KnowsCrm(card) /\ ~IsRelevant(card, "has_crm")
      BY <3>3, <3>4 DEF IsAlreadyKnown, KnowsCrm
    <3>5. "crm" \notin CardField /\ "no crm" \notin CardField
      BY DEF CardField, ListFields, DirectFields, CountFields, FillFields, Meeting
    <3>6. CASE r.ack = "crm"
      <4>1. {"crm_yes", "crm_tool"} \cap card.tags # {}
        BY <3>2, <3>5, <3>6, AckHolds
      <4> QED
        BY <2>1, <3>6, <4>1
    <3>7. CASE r.ack = "no crm"
      <4>1. \/ "has_crm" \in card.known /\ "crm_yes" \notin card.tags
            \/ type = "has_crm" /\ {"crm_yes", "crm_tool"} \cap card.tags = {}
        <5>1. \/ r.ack = "crm" \/ r.ack = "none" \/ r.ack \in CardField
              \/ "has_crm" \in card.known /\ "crm_yes" \notin card.tags
              \/ type = "has_crm" /\ {"crm_yes", "crm_tool"} \cap card.tags = {}
          BY <3>2, AckHolds
        <5> QED
          BY <3>5, <3>7, <5>1
      <4>2. \/ "has_crm" \in card.known /\ "crm_yes" \notin card.tags
            \/ r.topic = "has_crm" /\ ~KnowsCrm(card) /\ ~IsRelevant(card, "has_crm")
        BY <3>2, <3>4, <4>1
      <4> QED
        BY <2>1, <3>7, <4>2
    <3>8. CASE r.ack # "crm" /\ r.ack # "no crm"
      <4>1. r.ack \in card.known
        BY <2>2, <3>2, <3>8, AckHolds
      <4> QED
        BY <2>1, <3>8, <4>1
    <3> QED
      BY <3>6, <3>7, <3>8
  <2> QED
    BY <2>1, <2>2
<1>2. ASSUME NEW p, Extract(p) PROVE Founded
  BY <1>2 DEF Extract, NoReply, Reply
<1>3. [FunnelNext]_funnelVars => Founded \/ UNCHANGED funnelVars
  <2> SUFFICES ASSUME FunnelNext PROVE Founded
    OBVIOUS
  <2>1. CASE \E text \in Texts : Guard(text)
    BY <1>1, <2>1
  <2>2. CASE (\E p \in Patches[lead] : Extract(p)) \/ Answer
    <3> HIDE DEF Founded
    <3> QED
      BY <1>2, <2>2 DEF Answer
  <2>3. CASE \E a \in Forms : FlowCompletion(a)
    BY <2>3 DEF FlowCompletion
  <2> QED
    BY <2>1, <2>2, <2>3 DEF FunnelNext
<1> QED
  BY <1>3, PTL DEF FunnelSpec, AckIsFounded


----------------------------------------------------------------------------
(* The invariant: before the first post nothing has happened outside; while *)
(* posts go on, every accepted one was silent, and each was followed by     *)
(* another; an answer that is read is that of the last post.               *)

\* The outcomes after which the loop goes on as long as it may.
Curable == {"throttled", "server_error", "timeout", "connect_error"}

Unposted == posts = 0 /\ accepted = 0 /\ silent = 0 /\ attempt = 0 /\ response = NoResponse

SilentSoFar ==
    /\ accepted = silent /\ silent <= posts
    /\ posts = attempt /\ attempt <= MaxRetries

LastAnswer ==
    /\ posts = attempt + 1 /\ attempt <= MaxRetries
    /\ silent <= posts
    /\ accepted <= 1 + silent
    /\ answer \in OkOutcomes => accepted = silent + 1

Ended ==
    /\ accepted <= 1 + silent /\ silent <= posts
    /\ posts <= MaxRetries + 1
    /\ answer \in Curable => posts = MaxRetries + 1

Reported ==
    /\ response.success => posts > 0
    /\ response.id = "wamid" => accepted > silent

Progress ==
    /\ pc \in {"validate", "build", "authorize"} => Unposted /\ answer = "none"
    /\ pc = "post" => SilentSoFar /\ response = NoResponse
    /\ pc = "read" => LastAnswer /\ response = NoResponse /\ answer \notin Curable
    /\ pc = "done" => Ended
    /\ Reported

Inv == TypeOK /\ Progress

LEMMA CurableOutcomes == \A o : Retries(o) <=> o \in Curable
  BY DEF Retries, RetryableStatus, Lost, Curable

\* The three kinds of a response.
LEMMA Responses ==
  /\ NoResponse.success = FALSE /\ NoResponse.id = ""
  /\ \A code : Failure(code).success = FALSE /\ Failure(code).id = ""
  /\ \A id : Sent(id).id = id
  BY DEF NoResponse, Failure, Sent

LEMMA NothingReported ==
  ASSUME response = NoResponse
  PROVE  Reported
  BY Responses DEF Reported

LEMMA InitInv == Init => Inv
<1> SUFFICES ASSUME Init PROVE Inv
  OBVIOUS
<1>1. Unposted /\ answer = "none" /\ pc \in {"validate", "build"}
  BY DEF Init, Unposted
<1>2. Reported
  BY <1>1, NothingReported DEF Unposted
<1> QED
  <2>1. TypeOK
    BY <1>1, OutboundAssumption DEF TypeOK, Unposted, OutboundAssumption
  <2> QED
    BY <1>1, <1>2, <2>1 DEF Inv, Progress, Unposted

\* The steps before the first post: either the preparation goes on, or it fails.
LEMMA PreparationInv ==
  ASSUME Inv, Validate \/ Build \/ Authorize
  PROVE  Inv'
<1> USE OutboundAssumption
<1>1. /\ TypeOK /\ Unposted /\ answer = "none"
      /\ answer' = answer /\ posts' = posts /\ accepted' = accepted /\ silent' = silent
      /\ attempt' = attempt
  BY DEF Inv, Progress, Validate, Build, Authorize, observed
<1>2. \/ pc' \in {"build", "authorize", "post"} /\ response' = response
      \/ pc' = "done" /\ \E code : response' = Failure(code)
  BY DEF Validate, Build, Authorize, Respond
<1>3. TypeOK'
  BY <1>1, <1>2 DEF TypeOK
<1>4. CASE pc' \in {"build", "authorize", "post"} /\ response' = response
  <2>1. Unposted'
    BY <1>1, <1>4 DEF Unposted
  <2>2. Reported'
    BY <2>1, Responses DEF Unposted, Reported
  <2>3. SilentSoFar'
    BY <2>1 DEF Unposted, SilentSoFar, OutboundAssumption
  <2> QED
    BY <1>1, <1>3, <1>4, <2>1, <2>2, <2>3 DEF Inv, Progress, Unposted
<1>5. CASE pc' = "done" /\ \E code : response' = Failure(code)
  <2>1. Reported'
    BY <1>5, Responses DEF Reported
  <2>2. Ended'
    <3>1. posts' = 0 /\ accepted' = 0 /\ silent' = 0
      BY <1>1 DEF Unposted
    <3>2. answer' \notin Curable
      BY <1>1 DEF Curable
    <3> QED
      BY <3>1, <3>2 DEF Ended, OutboundAssumption
  <2> QED
    BY <1>3, <1>5, <2>1, <2>2 DEF Inv, Progress
<1> QED
  BY <1>2, <1>4, <1>5

LEMMA PostInv ==
  ASSUME Inv, NEW o \in Outcomes, NEW taken \in BOOLEAN, Post(o, taken)
  PROVE  Inv'
<1> USE OutboundAssumption DEF OutboundAssumption
<1> DEFINE quiet == o \notin OkOutcomes
<1>0. pc = "post" /\ SilentSoFar /\ response = NoResponse /\ TypeOK
  BY DEF Post, Inv, Progress
<1>1. /\ answer' = o /\ posts' = posts + 1
      /\ accepted' = IF taken THEN accepted + 1 ELSE accepted
      /\ silent' = IF taken /\ quiet THEN silent + 1 ELSE silent
      /\ ~taken => quiet
  BY DEF Post, MayRefuse
<1>2. TypeOK' /\ silent' <= posts' /\ accepted' <= 1 + silent' /\ posts' = attempt + 1
  <2>1. pc' \in {"post", "read", "done"}
    BY <1>0 DEF Post, Respond
  <2>2. attempt' \in 0..MaxRetries
    <3>1. CASE Again(o)
      BY <3>1, <1>0 DEF Post, Again, TypeOK, OutboundAssumption
    <3>2. CASE ~Again(o)
      BY <3>2, <1>0 DEF Post, TypeOK
    <3> QED
      BY <3>1, <3>2
  <2> QED
    BY <1>0, <1>1, <2>1, <2>2 DEF TypeOK, SilentSoFar, OutboundAssumption
<1>3. quiet => accepted' = silent'
  BY <1>0, <1>1 DEF SilentSoFar, TypeOK
<1>4. ~quiet => accepted' = silent' + 1
  BY <1>0, <1>1 DEF SilentSoFar, TypeOK
<1>5. Retries(o) \/ o = "broken" => quiet
  BY CurableOutcomes DEF Curable, OkOutcomes
<1>6. CASE Again(o)
  <2>1. pc' = "post" /\ attempt' = attempt + 1 /\ response' = response /\ attempt < MaxRetries
    BY <1>6, <1>0 DEF Post, Again
  <2>2. quiet
    BY <1>6, <1>5 DEF Again
  <2> HIDE DEF quiet
  <2> QED
    <3>1. SilentSoFar'
      BY <1>0, <1>2, <1>3, <2>1, <2>2 DEF SilentSoFar, TypeOK, OutboundAssumption
    <3>2. Reported'
      BY <1>0, <2>1, Responses DEF Reported
    <3> QED
      BY <1>0, <1>2, <2>1, <3>1, <3>2 DEF Inv, Progress
<1>7. CASE ~Again(o) /\ (Retries(o) \/ o = "broken")
  <2>1. pc' = "done" /\ attempt' = attempt /\ response' = Failure("WHATSAPP_API_ERROR")
    BY <1>7 DEF Post, Respond
  <2>2. Retries(o) => posts' = MaxRetries + 1
    BY <1>7, <1>0, <1>2 DEF Again, SilentSoFar, TypeOK
  <2>3. answer' \in Curable => posts' = MaxRetries + 1
    BY <2>2, <1>1, CurableOutcomes
  <2>4. Ended'
    <3>1. accepted' <= 1 + silent' /\ silent' <= posts'
      BY <1>2
    <3>2. posts' <= MaxRetries + 1
      BY <1>0, <1>2 DEF SilentSoFar, TypeOK
    <3> QED
      BY <3>1, <3>2, <2>3 DEF Ended
  <2> QED
    BY <1>2, <2>1, <2>4, Responses DEF Inv, Progress, Reported
<1>8. CASE ~Again(o) /\ ~(Retries(o) \/ o = "broken")
  <2>1. pc' = "read" /\ attempt' = attempt /\ response' = response
    BY <1>8 DEF Post
  <2>2. answer' \notin Curable
    BY <1>8, <1>1, CurableOutcomes
  <2>3. (answer \in OkOutcomes => accepted = silent + 1)'
    BY <1>1, <1>4 DEF OkOutcomes
  <2> HIDE DEF quiet
  <2> QED
    BY <1>0, <1>2, <2>1, <2>2, <2>3, Responses
       DEF Inv, Progress, LastAnswer, SilentSoFar, TypeOK, Reported
<1> QED
  BY <1>6, <1>7, <1>8

LEMMA ReadInv ==
  ASSUME Inv, Read
  PROVE  Inv'
<1> USE OutboundAssumption DEF OutboundAssumption
<1>1. /\ TypeOK /\ LastAnswer /\ answer \notin Curable
      /\ pc' = "done" /\ answer' = answer /\ posts' = posts /\ accepted' = accepted
      /\ silent' = silent /\ attempt' = attempt
  BY DEF Inv, Progress, Read, Respond, observed
<1>2. Ended'
  BY <1>1 DEF Ended, LastAnswer, TypeOK
<1>3. posts' > 0
  BY <1>1 DEF LastAnswer, TypeOK
<1>4. response'.id = "wamid" => answer = "ok"
  BY Responses DEF Read, Respond, MessageId
<1>5. response'.id = "wamid" => accepted' > silent'
  BY <1>1, <1>4 DEF LastAnswer, TypeOK, OkOutcomes
<1> QED
  BY <1>1, <1>2, <1>3, <1>5 DEF Inv, TypeOK, Progress, Reported

LEMMA NextInv == Inv /\ [Next]_vars => Inv'
<1> SUFFICES ASSUME Inv, [Next]_vars PROVE Inv'
  OBVIOUS
<1>1. CASE Validate \/ Build \/ Authorize
  BY <1>1, PreparationInv
<1>2. CASE \E o \in Outcomes, taken \in BOOLEAN : Post(o, taken)
  BY <1>2, PostInv
<1>3. CASE Read
  BY <1>3, ReadInv
<1>4. CASE UNCHANGED vars
  BY <1>4 DEF Inv, TypeOK, Progress, Unposted, SilentSoFar, LastAnswer, Ended, Reported, vars
<1> QED
  BY <1>1, <1>2, <1>3, <1>4 DEF Next, Done

LEMMA InvAlways == Spec => []Inv
<1> QED
  BY InitInv, NextInv, PTL DEF Spec

----------------------------------------------------------------------------

\* Type correctness: in particular no more than MaxRetries failures are followed by a retry.
THEOREM SenderTyped == Spec => []TypeOK
<1>1. Inv => TypeOK
  BY DEF Inv
<1> QED
  BY <1>1, InvAlways, PTL

\* Whatever the API does, a second copy of a message is received only after the acceptance
\* of an earlier post was lost on its way to the retry loop of http_base.py.
THEOREM DuplicatesFollowSilence == Spec => []DuplicateOnlyAfterSilence
<1>1. Inv => DuplicateOnlyAfterSilence
  BY DEF Inv, TypeOK, Progress, Unposted, SilentSoFar, LastAnswer, Ended, DuplicateOnlyAfterSilence
<1> QED
  BY <1>1, InvAlways, PTL

\* The loop never gives up on a failure a retry could cure before every retry is spent, and
\* never posts once more than that.
THEOREM GivesUpExhausted == Spec => []GivesUpOnlyExhausted
<1>1. Inv => GivesUpOnlyExhausted
  BY OutboundAssumption, CurableOutcomes
     DEF OutboundAssumption, Inv, TypeOK, Progress, Unposted, SilentSoFar, LastAnswer, Ended,
         GivesUpOnlyExhausted
<1> QED
  BY <1>1, InvAlways, PTL

\* Success is reported only after a post, and an id only of a message the API took.
THEOREM IdsAreReal == Spec => []ReportedIdIsReal
<1>1. Inv => ReportedIdIsReal
  BY DEF Inv, Progress, Reported, ReportedIdIsReal
<1> QED
  BY <1>1, InvAlways, PTL

----------------------------------------------------------------------------
(* The payload.  What leaves the validator has a body that its builder       *)
(* fills; between the builder and the last post the payload stays.          *)

Postable ==
    \/ WellFormed(payload)
    \/ request.caller = "pipeline" /\ payload.object = "interactive"
    \/ request.caller = "use_case" /\ request.body.template > 0
                                   /\ request.body.type # "template"

PayloadInv ==
    /\ request.caller \in Callers /\ request.body \in Requests[request.caller]
    /\ request.caller \in {"use_case", "pipeline", "template"}
    /\ pc = "validate" => request.caller = "use_case"
    /\ pc = "build" /\ request.caller = "use_case" => ValidateOutboundRequest(request.body)
    /\ pc \in {"authorize", "post", "read"} \/ posts > 0 => Postable

LEMMA PayloadInit == Init => PayloadInv
<1> SUFFICES ASSUME Init PROVE PayloadInv
  OBVIOUS
<1>1. PICK c \in Callers : \E r \in Requests[c], t \in BOOLEAN :
          request = [caller |-> c, token |-> t, body |-> r]
  BY DEF Init
<1> PICK r \in Requests[c], t \in BOOLEAN : request = [caller |-> c, token |-> t, body |-> r]
  BY <1>1
<1>2. request.caller = c /\ request.body = r
  OBVIOUS
<1>3. /\ pc = IF request.caller = "use_case" THEN "validate" ELSE "build"
      /\ posts = 0
  BY DEF Init
<1> QED
  BY <1>2, <1>3, OutboundAssumption DEF PayloadInv, OutboundAssumption

\* A reply of the pipeline is a reaction, a text, or an interactive message.
LEMMA PipelinePayload ==
  ASSUME NEW r
  PROVE  WellFormed(BuildOutboundPayload(r)) \/ BuildOutboundPayload(r).object = "interactive"
  BY DEF BuildOutboundPayload, BuildReaction, FallbackText, BuildReplyInteractive, WellFormed

\* p is of the type that r declares, as an object of type o that refers to h.
Filled(p, r, o, h) == p.type = r.type /\ p.object = o /\ p.holds = h

\* What each builder fills in.
LEMMA FilledBodies ==
  ASSUME NEW r
  PROVE  /\ Filled(BuildText(r), r, "text", "body")
         /\ Filled(BuildLocation(r), r, "location", "degrees")
         /\ Filled(BuildAddress(r), r, "address", "lines")
         /\ Filled(BuildMedia(r), r, r.type, MediaObject(r))
         /\ BuildTemplate(r).type = r.type /\ BuildTemplate(r).object = "template"
         /\ BuildTemplate(r).holds # "nothing"
<1>1. Filled(BuildText(r), r, "text", "body")
  <2>1. PICK p : p = BuildText(r)
    OBVIOUS
  <2>2. Filled(p, r, "text", "body")
    BY <2>1 DEF BuildText, BasePayload, Filled
  <2> QED
    BY <2>1, <2>2
<1>2. Filled(BuildLocation(r), r, "location", "degrees")
  <2>1. PICK p : p = BuildLocation(r)
    OBVIOUS
  <2>2. Filled(p, r, "location", "degrees")
    BY <2>1 DEF BuildLocation, BasePayload, Filled
  <2> QED
    BY <2>1, <2>2
<1>3. Filled(BuildAddress(r), r, "address", "lines")
  <2>1. PICK p : p = BuildAddress(r)
    OBVIOUS
  <2>2. Filled(p, r, "address", "lines")
    BY <2>1 DEF BuildAddress, BasePayload, Filled
  <2> QED
    BY <2>1, <2>2
<1>4. Filled(BuildMedia(r), r, r.type, MediaObject(r))
  <2>1. PICK p : p = BuildMedia(r)
    OBVIOUS
  <2>2. Filled(p, r, r.type, MediaObject(r))
    BY <2>1 DEF BuildMedia, BasePayload, Filled
  <2> QED
    BY <2>1, <2>2
<1>5. /\ BuildTemplate(r).type = r.type /\ BuildTemplate(r).object = "template"
      /\ BuildTemplate(r).holds # "nothing"
  <2>1. PICK p : p = BuildTemplate(r)
    OBVIOUS
  <2>2. p.type = r.type /\ p.object = "template" /\ p.holds # "nothing"
    BY <2>1 DEF BuildTemplate, BasePayload
  <2> QED
    BY <2>1, <2>2
<1> QED
  BY <1>1, <1>2, <1>3, <1>4, <1>5

LEMMA TemplatePayload ==
  ASSUME NEW r, r.type = "template" PROVE WellFormed(BuildTemplate(r))
  BY FilledBodies DEF WellFormed

\* What the validator lets through and no template is built of, its own builder fills.
LEMMA ValidatedPayload ==
  ASSUME NEW r, ValidateOutboundRequest(r), r.template \in Nat, ~(r.template > 0),
         r.media \subseteq {"id", "url"}, BuildByType(r) # NoPayload
  PROVE  WellFormed(BuildByType(r))
<1>1. DispatchTypeValidation(r)
  BY DEF ValidateOutboundRequest
<1>2. CASE r.type = "text"
  <2>1. BuildByType(r) = BuildText(r)
    BY <1>2 DEF BuildByType, MediaTypes
  <2> QED
    BY <1>2, <2>1, FilledBodies DEF Filled, WellFormed
<1>3. CASE r.type \in MediaTypes \ {"sticker"}
  <2>1. r.type \in {"image", "video", "audio", "document"}
    BY <1>3 DEF MediaTypes
  <2>2. BuildByType(r) = BuildMedia(r)
    BY <1>3, <2>1 DEF BuildByType
  <2>3. r.media # {}
    BY <1>1, <1>3, <2>1 DEF DispatchTypeValidation, ValidateMedia
  <2>4. MediaObject(r) # "nothing"
    BY <2>3 DEF MediaObject
  <2> QED
    BY <2>2, <2>4, FilledBodies DEF Filled, WellFormed
<1>4. CASE r.type = "location"
  <2>1. BuildByType(r) = BuildLocation(r)
    BY <1>4 DEF BuildByType, MediaTypes
  <2> QED
    BY <1>4, <2>1, FilledBodies DEF Filled, WellFormed
<1>5. CASE r.type = "address"
  <2>1. BuildByType(r) = BuildAddress(r)
    BY <1>5 DEF BuildByType, MediaTypes
  <2> QED
    BY <1>5, <2>1, FilledBodies DEF Filled, WellFormed
<1>6. CASE r.type = "interactive"
  <2>1. BuildByType(r) = BuildInteractive(r)
    BY <1>6 DEF BuildByType, MediaTypes
  <2>2. r.interactive \in InteractiveType
    BY <2>1 DEF BuildInteractive
  <2>3. BuildAction(r) # "nothing"
    BY <2>2 DEF BuildAction, InteractiveType
  <2>4. PICK p : p = BuildInteractive(r)
    OBVIOUS
  <2>5. p = [BasePayload(r) EXCEPT !.object = "interactive", !.holds = BuildAction(r)]
    BY <2>1, <2>4 DEF BuildInteractive
  <2>6. p.type = r.type /\ p.object = "interactive" /\ p.holds = BuildAction(r)
    BY <2>5 DEF BasePayload
  <2> QED
    BY <1>6, <2>1, <2>3, <2>4, <2>6 DEF WellFormed
<1> QED
  BY <1>2, <1>3, <1>4, <1>5, <1>6 DEF BuildByType

LEMMA BuiltPayload ==
  ASSUME PayloadInv, Build, payload' # NoPayload
  PROVE  Postable'
<1> DEFINE r == request.body
<1>1. /\ payload' = BuildPayload(request) /\ request' = request
      /\ pc = "build" /\ request.caller \in {"use_case", "pipeline", "template"}
      /\ request.caller \in Callers /\ r \in Requests[request.caller]
  BY DEF Build, PayloadInv
<1>2. CASE request.caller = "pipeline"
  <2>1. payload' = BuildOutboundPayload(r)
    BY <1>1, <1>2 DEF BuildPayload
  <2> HIDE DEF r
  <2> QED
    BY <1>1, <1>2, <2>1, PipelinePayload DEF Postable
<1>3. CASE request.caller # "pipeline"
  <2>1. payload' = IF r.template > 0 THEN BuildTemplate(r) ELSE BuildByType(r)
    BY <1>1, <1>3 DEF BuildPayload, BuildFullPayload
  <2>2. r.template \in Nat /\ r.media \subseteq {"id", "url"}
    BY <1>1, <1>3, OutboundAssumption DEF OutboundAssumption
  <2>3. CASE request.caller = "template"
    <3>1. r.type = "template" /\ r.template > 0
      BY <1>1, <2>3, OutboundAssumption DEF OutboundAssumption
    <3> HIDE DEF r
    <3>2. WellFormed(payload')
      BY <2>1, <3>1, TemplatePayload
    <3> QED
      BY <3>2 DEF Postable
  <2>4. CASE request.caller = "use_case"
    <3>1. ValidateOutboundRequest(r)
      BY <1>1, <2>4 DEF PayloadInv
    <3>2. CASE r.template > 0 /\ r.type # "template"
      BY <1>1, <2>4, <3>2 DEF Postable
    <3>3. CASE r.template > 0 /\ r.type = "template"
      <4> HIDE DEF r
      <4>1. WellFormed(payload')
        BY <2>1, <3>3, TemplatePayload
      <4> QED
        BY <4>1 DEF Postable
    <3>4. CASE ~(r.template > 0)
      <4> HIDE DEF r
      <4>1. WellFormed(payload')
        BY <2>1, <2>2, <3>1, <3>4, ValidatedPayload
      <4> QED
        BY <4>1 DEF Postable
    <3> QED
      BY <3>2, <3>3, <3>4
  <2> QED
    BY <1>1, <1>3, <2>3, <2>4
<1> QED
  BY <1>2, <1>3

LEMMA PayloadNext == Inv /\ PayloadInv /\ [Next]_vars => PayloadInv'
<1> SUFFICES ASSUME Inv, PayloadInv, [Next]_vars PROVE PayloadInv'
  OBVIOUS
<1>1. CASE Validate
  <2>1. /\ request' = request /\ payload' = payload /\ posts' = posts /\ posts = 0
        /\ pc' \in {"build", "done"}
        /\ pc' = "build" => ValidateOutboundRequest(request.body)
    BY <1>1 DEF Validate, Respond, observed, Inv, Progress, Unposted
  <2> QED
    BY <2>1 DEF PayloadInv
<1>2. CASE Build
  <2>1. /\ request' = request /\ posts' = posts /\ posts = 0
        /\ pc' \in {"authorize", "done"}
        /\ pc' = "authorize" => payload' # NoPayload
    BY <1>2 DEF Build, Respond, observed, Inv, Progress, Unposted
  <2>2. pc' = "authorize" => Postable'
    BY <1>2, <2>1, BuiltPayload
  <2> QED
    BY <2>1, <2>2 DEF PayloadInv
<1>3. CASE Authorize \/ Read \/ \E o \in Outcomes, taken \in BOOLEAN : Post(o, taken)
  <2>1. /\ request' = request /\ payload' = payload
        /\ pc \in {"authorize", "post", "read"} /\ pc' \in {"post", "read", "done"}
    BY <1>3 DEF Authorize, Read, Post, Respond
  <2>2. Postable'
    BY <2>1 DEF PayloadInv, Postable
  <2> QED
    BY <2>1, <2>2 DEF PayloadInv
<1>4. CASE UNCHANGED vars
  BY <1>4 DEF vars, PayloadInv, Postable
<1> QED
  BY <1>1, <1>2, <1>3, <1>4 DEF Next, Done

\* What is posted is an object of the type it declares and refers to something, whatever the
\* caller and the request, but for an interactive reply of the pipeline and a template under
\* another type (validate_outbound_request, build_full_payload, build_outbound_payload).
THEOREM PostsAreWellFormed == Spec => []PostedIsWellFormed
<1>1. PayloadInv => PostedIsWellFormed
  BY DEF PayloadInv, Postable, PostedIsWellFormed
<1> QED
  BY <1>1, InitInv, NextInv, PayloadInit, PayloadNext, PTL DEF Spec
=============================================================================

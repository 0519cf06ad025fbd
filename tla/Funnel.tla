------------------------------- MODULE Funnel -------------------------------
(***************************************************************************)
(* The qualification funnel: what the deterministic guards make of Otto's  *)
(* reply, given the lead's contact card (otto_repetition_guard.py and the  *)
(* otto_guard_* modules it uses).  A turn of the conversation extracts     *)
(* fields from the user's message into the card, then guards the reply; a  *)
(* completed scheduling form fills the card without a reply.               *)
(*                                                                         *)
(* A card is the interest, the set of fields that hold a value, and tags   *)
(* for the three values the guards look into.  A text is what detection    *)
(* sees in it: a question mark, a question's opening, the topics whose     *)
(* keywords occur.                                                         *)
(***************************************************************************)
EXTENDS Integers, Sequences, FiniteSets

CONSTANTS
    Leads,      \* the people who write
    Patches,    \* lead -> what the extractor may make of a message of theirs
    Texts,      \* the replies of Otto
    Forms       \* the appointments a completed form yields

VARIABLES
    lead,       \* who writes
    card,       \* the contact card, NoCard without a card store
    turn,       \* whose turn it is: "user", "otto"
    recent,     \* fields_extracted of this turn: what the guards see as just learned
    time,       \* the meeting time the user named in this turn, or NoTime
    confirms,   \* the user's message is a bare confirmation
    reply       \* what is sent, and who made it

funnelVars == <<lead, card, turn, recent, time, confirms, reply>>

----------------------------------------------------------------------------
(* The card.                                                               *)

Meeting == "meeting_preferred_datetime_text"
ListFields == {"current_tools", "modules_needed", "desired_features", "integrations_needed"}
DirectFields == {"has_crm", "needs_data_migration", Meeting, "urgency"}
CountFields ==
    {"message_volume_per_day", "attendants_count", "specialists_count", "users_count"}
FillFields ==
    {"full_name", "email", "company", "location", "company_size", "specific_need",
     "budget_indication"}
CardField == ListFields \cup DirectFields \cup CountFields \cup FillFields

\* "crm" among the tools, has_crm is True, the need names WhatsApp or a bot.
Tag == {"crm_tool", "crm_yes", "bot_need"}

Interests ==
    {"saas", "sob_medida", "gestao_perfis_trafego", "automacao_atendimento",
     "intermediacao_entregas"}

\* A meeting time as it is written: n hours, m minutes after a colon or an h ("14h30"), and a
\* period of the day behind it.  What the extractor makes of a message: an interest or none,
\* the fields it found and the tags of their values, the time, a bare confirmation.
Written ==
    [n : Int, m : Int, mark : {"none", "colon", "hora", "hora_minutes"},
     period : {"none", "am", "pm", "tarde", "noite", "manha", "meio dia", "meia noite"}]

Patch ==
    [interest : Interests \cup {""}, known : SUBSET CardField, tags : SUBSET Tag,
     time : Written, confirms : BOOLEAN]

ASSUME FunnelAssumption ==
    /\ \A l \in Leads : Patches[l] \subseteq Patch
    /\ \A a \in Forms : a.given \subseteq CardField

NoCard == [interest |-> "none", known |-> {}, tags |-> {}]
BlankCard == [interest |-> "", known |-> {}, tags |-> {}]

\* apply_contact_card_patch: a need is only filled when empty, has_crm is replaced, the
\* tools add up; the interest is replaced.
PatchedTags(c, p) ==
    (IF "has_crm" \in p.known THEN c.tags \ {"crm_yes"} ELSE c.tags)
        \cup {t \in p.tags : t = "bot_need" => "specific_need" \notin c.known}

PatchedCard(c, p) ==
    [interest |-> IF p.interest = "" THEN c.interest ELSE p.interest,
     known |-> c.known \cup p.known,
     tags |-> PatchedTags(c, p)]

EffectiveInterest(c) ==
    CASE c.interest \in {"gestao_perfis", "trafego_pago"} -> "gestao_perfis_trafego"
      [] c.interest = "intermediacao" -> "intermediacao_entregas"
      [] OTHER -> c.interest

AutomationQuestions == {"message_volume_per_day", "attendants_count", "specialists_count",
                        "has_crm", "current_tools"}

KnowsCrm(c) == "has_crm" \in c.known \/ "crm_tool" \in c.tags

\* is_already_known: urgency, budget and need are not among the types it knows.
IsAlreadyKnown(c, type) ==
    IF type = "has_crm" THEN KnowsCrm(c)
    ELSE type \in c.known \ {"urgency", "budget_indication", "specific_need"}

IsRelevant(c, type) ==
    CASE type \in AutomationQuestions ->
            EffectiveInterest(c) \in {"automacao_atendimento", ""} \/ "bot_need" \in c.tags
      [] type \in {"users_count", "modules_needed"} -> EffectiveInterest(c) \in {"saas", ""}
      [] type \in {"desired_features", "integrations_needed", "needs_data_migration"} ->
            EffectiveInterest(c) \in {"sob_medida", ""}
      [] OTHER -> TRUE

AtLeast(n, signals) == Cardinality({i \in DOMAIN signals : signals[i]}) >= n

Has(c, f) == f \in c.known

\* What makes a lead of each interest ready.
Qualified(c) ==
    LET budgetOrUrgency == Has(c, "budget_indication") \/ Has(c, "urgency")
    IN  CASE EffectiveInterest(c) = "automacao_atendimento" ->
                AtLeast(3, <<Has(c, "message_volume_per_day"), Has(c, "attendants_count"),
                             Has(c, "has_crm") \/ Has(c, "current_tools"),
                             Has(c, "specific_need")>>)
          [] EffectiveInterest(c) = "sob_medida" ->
                AtLeast(2, <<Has(c, "desired_features"), Has(c, "integrations_needed"),
                             Has(c, "users_count") \/ Has(c, "company_size")>>)
          [] EffectiveInterest(c) = "saas" ->
                Has(c, "modules_needed") /\ Has(c, "users_count")
          [] EffectiveInterest(c) = "gestao_perfis_trafego" ->
                AtLeast(2, <<Has(c, "specific_need"), budgetOrUrgency, Has(c, "company_size")>>)
          [] EffectiveInterest(c) = "intermediacao_entregas" ->
                AtLeast(2, <<Has(c, "specific_need"), Has(c, "location"), budgetOrUrgency>>)
          [] OTHER -> Has(c, "specific_need")

ReadyToSchedule(c) ==
    Has(c, Meeting) \/ ((Has(c, "specific_need") \/ c.interest # "") /\ Qualified(c))

----------------------------------------------------------------------------
(* Detection: the topic of a question, by keywords in a fixed order.       *)

TopicOrder ==
    <<Meeting, "email", "full_name", "company", "message_volume_per_day", "attendants_count",
      "specialists_count", "has_crm", "current_tools", "users_count", "modules_needed",
      "desired_features", "integrations_needed", "needs_data_migration">>

LooksLikeQuestion(text) == text.mark \/ text.opens

NoTopic == "none"

DetectQuestionType(text) ==
    LET found == {i \in DOMAIN TopicOrder : TopicOrder[i] \in text.topics}
    IN  IF LooksLikeQuestion(text) /\ found # {}
        THEN TopicOrder[CHOOSE i \in found : \A j \in found : i <= j]
        ELSE NoTopic

----------------------------------------------------------------------------
(* The funnel's own questions: the field they ask for and the topics whose *)
(* keywords their wording contains.                                        *)

Question(key, topics) == [key |-> key, topics |-> topics]
Plain(key) == Question(key, {key})

\* Mutated form: a bespoke system is not asked about its integrations.
QuestionsOfLess(interest) ==
    CASE interest = "automacao_atendimento" -> <<Plain("message_volume_per_day")>>
      [] interest = "saas" -> <<Plain("modules_needed"), Plain("users_count")>>
      [] interest = "sob_medida" -> <<Plain("desired_features"), Plain("needs_data_migration")>>
      [] OTHER -> <<Question("urgency", {}), Question("budget_indication", {})>>

QuestionsOf(interest) ==
    CASE interest = "automacao_atendimento" ->
            <<Question("message_volume_per_day", {"message_volume_per_day", "integrations_needed"}),
              Plain("attendants_count"),
              Question("current_tools", {"has_crm", "current_tools", "modules_needed"}),
              Plain("specialists_count"),
              Question("has_crm", {"has_crm", "current_tools", "modules_needed"})>>
      [] interest = "sob_medida" ->
            <<Plain("desired_features"), Plain("integrations_needed"),
              Question("needs_data_migration", {"current_tools", "needs_data_migration"}),
              Plain("users_count")>>
      [] interest = "saas" ->
            <<Question("modules_needed", {"has_crm", "modules_needed"}), Plain("users_count"),
              Question("current_tools", {"current_tools", "integrations_needed"})>>
      [] OTHER -> <<Question("urgency", {}), Question("budget_indication", {})>>

Candidates(c) ==
    (IF Has(c, "specific_need") THEN <<>> ELSE <<Question("specific_need", {})>>)
        \o QuestionsOf(EffectiveInterest(c))

\* Mutated form: a CRM among the tools does not count.
AlreadyHasField(c, key) == Has(c, key)

AlreadyHasValue(c, key) == IF key = "has_crm" THEN KnowsCrm(c) ELSE Has(c, key)

\* Mutated form: what the card holds is asked again.
PickableAny(c, skip) == {i \in DOMAIN Candidates(c) : Candidates(c)[i].key \notin skip}

Pickable(c, skip) ==
    {i \in DOMAIN Candidates(c) :
        Candidates(c)[i].key \notin skip /\ ~AlreadyHasValue(c, Candidates(c)[i].key)}

NoQuestion == Question(NoTopic, {})

PickNextQuestion(c, skip) ==
    LET open == Pickable(c, skip)
    IN  IF open = {} THEN NoQuestion
        ELSE Candidates(c)[CHOOSE i \in open : \A j \in open : i <= j]

\* A call to action: the fields it asks for, and what it says.
Cta(says, asks) == [says |-> says, asks |-> asks]

MeetingDetails(c) ==
    IF ~Has(c, "email") THEN Cta("details", {"email"})
    ELSE IF {"full_name", "company"} \subseteq c.known THEN Cta("goodbye", {})
    ELSE Cta("details", {"full_name", "company"} \ c.known)

\* The guards pass no sender, so a ready lead gets the error message.
BuildNextStepCta(c) ==
    CASE Has(c, Meeting) -> MeetingDetails(c)
      [] ~Has(c, Meeting) /\ ReadyToSchedule(c) -> Cta("schedule_error", {})
      [] ~ReadyToSchedule(c) /\ ~Has(c, "urgency") -> Cta("urgency", {"urgency"})
      [] ~ReadyToSchedule(c) /\ Has(c, "urgency") /\ ~Has(c, "budget_indication") ->
            Cta("budget", {"budget_indication"})
      [] OTHER -> Cta("offer", {Meeting})

\* The fact an acknowledgement repeats to the user, or none: those just learned first.
Facts(c) ==
    (c.known \cap {Meeting, "attendants_count", "specialists_count", "current_tools", "has_crm",
                   "message_volume_per_day"})

AckOrder == <<Meeting, "attendants_count", "specialists_count", "current_tools", "has_crm",
              "message_volume_per_day">>

CrmFact(c) == IF "crm_yes" \in c.tags THEN "crm" ELSE "no crm"

\* Mutated form: a type without a value is acknowledged all the same.
BuildAckAnyway(c, type, fresh) == IF type = "has_crm" THEN "crm" ELSE type

BuildAck(c, type, fresh) ==
    LET news == {i \in DOMAIN AckOrder : AckOrder[i] \in fresh \cap Facts(c)}
    IN  IF news # {}
        THEN LET f == AckOrder[CHOOSE i \in news : \A j \in news : i <= j]
             IN  IF f = "has_crm" THEN CrmFact(c) ELSE f
        ELSE IF type = "has_crm"
        THEN IF {"crm_yes", "crm_tool"} \cap c.tags # {} THEN "crm" ELSE "no crm"
        ELSE IF type \in Facts(c) THEN type ELSE "none"

----------------------------------------------------------------------------
(* Meeting times in free text: the numbers, how the hour is written and    *)
(* the period of the day that is named.                                    *)

NoTime == [n |-> -1, m |-> -1, mark |-> "none", period |-> "none"]
Unclear == -1

SafeHour(h) == IF h \in 0..23 THEN h ELSE Unclear

SpecialHour(t) ==
    CASE t.period = "meio dia" -> 12 [] t.period = "meia noite" -> 0 [] OTHER -> Unclear

\* Minutes are dropped; an h with minutes behind it matches no reading.
ColonHour(t) == IF t.mark = "colon" THEN SafeHour(t.n) ELSE Unclear
HoraHour(t) == IF t.mark = "hora" THEN SafeHour(t.n) ELSE Unclear

\* The number next to the period of the day, which may be the minutes.
Beside(t) ==
    CASE t.mark = "none" -> t.n
      [] t.mark \in {"colon", "hora_minutes"} -> t.m
      [] OTHER -> Unclear

AmPmHour(t) ==
    CASE t.period = "pm" /\ Beside(t) \in 1..11 -> Beside(t) + 12
      [] t.period = "am" /\ Beside(t) = 12 -> 0
      [] t.period = "pm" /\ Beside(t) \notin 1..11 -> SafeHour(Beside(t))
      [] t.period = "am" /\ Beside(t) # 12 -> SafeHour(Beside(t))
      [] OTHER -> Unclear

\* Mutated form: the afternoon is read as the morning.
EveningHourMorning(t) ==
    IF t.period \in {"tarde", "noite"} THEN SafeHour(Beside(t)) ELSE Unclear

EveningHour(t) ==
    CASE t.period \in {"tarde", "noite"} /\ Beside(t) \in 1..11 -> Beside(t) + 12
      [] t.period \in {"tarde", "noite"} /\ Beside(t) \notin 1..11 -> SafeHour(Beside(t))
      [] OTHER -> Unclear

MorningHour(t) == IF t.period = "manha" THEN SafeHour(Beside(t)) ELSE Unclear

\* The readings in their order, each where those before it found nothing: a colon or a letter
\* h leaves the period of the day unread, unless its hour is out of range.
Or(hour, otherwise) == IF hour # Unclear THEN hour ELSE otherwise

ExtractHour(t) ==
    Or(SpecialHour(t), Or(ColonHour(t), Or(HoraHour(t), Or(AmPmHour(t),
        Or(EveningHour(t), MorningHour(t))))))

StartHour == 9
EndHour == 17
OutOfHours(t) == ExtractHour(t) # Unclear /\ ExtractHour(t) \notin StartHour..EndHour

----------------------------------------------------------------------------
(* The guards.                                                             *)

Refused == "meeting_time_out_of_hours"

\* A reply: who made it, the fact it acknowledges, the fields it asks for (known only for
\* what a guard adds), and Otto's topic when it is Otto's.
Reply(by, ack, asks, topic) == [by |-> by, ack |-> ack, asks |-> asks, topic |-> topic]
NoReply == Reply("nobody", "none", {}, NoTopic)
Untouched(text) == Reply("otto", "none", {}, DetectQuestionType(text))

BusinessHoursReply == Reply("business_hours", "none", {Meeting}, Meeting)

RepetitionFires(c, text) ==
    LET type == DetectQuestionType(text)
    IN  type # NoTopic /\ (IsAlreadyKnown(c, type) \/ ~IsRelevant(c, type))

\* The next question, or the call to action when there is none.
RepetitionReply(c, text, fresh) ==
    LET type == DetectQuestionType(text)
        next == PickNextQuestion(c, {type})
    IN  Reply("repetition", BuildAck(c, type, fresh),
              IF next # NoQuestion THEN {next.key} ELSE BuildNextStepCta(c).asks, type)

\* A reply without a question, after the user confirmed or told something new.
ContinuationFires(text, fresh, confirmed) ==
    ~text.empty /\ ~text.mark /\ (confirmed \/ fresh # {})

ContinuationReply(c, text) ==
    LET next == PickNextQuestion(c, {})
    IN  Reply("continuation", "none",
              IF ReadyToSchedule(c) \/ next = NoQuestion
              THEN BuildNextStepCta(c).asks ELSE {next.key},
              DetectQuestionType(text))

ApplyGuards(c, text, fresh, confirmed) ==
    CASE c = NoCard -> Untouched(text)
      [] c # NoCard /\ Refused \in fresh -> BusinessHoursReply
      [] c # NoCard /\ Refused \notin fresh /\ RepetitionFires(c, text) ->
            RepetitionReply(c, text, fresh)
      [] c # NoCard /\ Refused \notin fresh /\ ~RepetitionFires(c, text)
            /\ ContinuationFires(text, fresh, confirmed) -> ContinuationReply(c, text)
      [] OTHER -> Untouched(text)

----------------------------------------------------------------------------

FunnelInit ==
    /\ lead \in Leads
    /\ card \in {NoCard, BlankCard}
    /\ turn = "user"
    /\ recent = {} /\ time = NoTime /\ confirms = FALSE
    /\ reply = NoReply

\* Fields of the patch, interest included, that the guards are told about.
FieldsOf(p) == p.known \cup (IF p.interest = "" THEN {} ELSE {"primary_interest"})

\* _apply_extraction: a meeting time out of hours is taken out of the patch, and the guards
\* are told.
Extract(p) ==
    LET refused == Meeting \in p.known /\ OutOfHours(p.time)
        kept == IF refused THEN [p EXCEPT !.known = p.known \ {Meeting}] ELSE p
    IN  /\ turn = "user"
        /\ turn' = "otto"
        /\ confirms' = p.confirms
        /\ IF card = NoCard
           THEN recent' = {} /\ time' = NoTime /\ UNCHANGED card
           ELSE /\ recent' = FieldsOf(p) \cup (IF refused THEN {Refused} ELSE {})
                /\ time' = IF Meeting \in p.known THEN p.time ELSE NoTime
                /\ card' = PatchedCard(card, kept)
        /\ reply' = NoReply
        /\ UNCHANGED lead

Guard(text) ==
    /\ turn = "otto"
    /\ reply' = ApplyGuards(card, text, recent, confirms)
    /\ turn' = "user"
    /\ recent' = {} /\ time' = NoTime /\ confirms' = FALSE
    /\ UNCHANGED <<lead, card>>

\* _build_contact_card_patch_from_appointment: an unknown vertical is no interest, the date
\* and the time become the meeting text, unread.
PatchOfForm(a) ==
    [interest |-> IF a.vertical \in Interests THEN a.vertical ELSE "",
     known |-> a.given \cup (IF a.date \/ a.time THEN {Meeting} ELSE {}),
     tags |-> {}, time |-> NoTime]

\* _handle_flow_completion: no agent runs and nothing is sent.
FlowCompletion(a) ==
    /\ turn = "user"
    /\ card # NoCard
    /\ card' = PatchedCard(card, PatchOfForm(a))
    /\ UNCHANGED <<lead, turn, recent, time, confirms, reply>>

\* The user answers what was asked, and nothing else; a time without an hour is taken as is.
Answer ==
    /\ reply.asks # {}
    /\ Extract([interest |-> "", known |-> reply.asks, tags |-> {}, time |-> NoTime,
                confirms |-> FALSE])

FunnelNext ==
    \/ \E p \in Patches[lead] : Extract(p)
    \/ Answer
    \/ \E t \in Texts : Guard(t)
    \/ \E a \in Forms : FlowCompletion(a)

FunnelSpec == FunnelInit /\ [][FunnelNext]_funnelVars

\* Otto answers, and a lead who is asked again and again answers in the end.
FunnelFairSpec == FunnelSpec /\ WF_funnelVars(\E t \in Texts : Guard(t)) /\ SF_funnelVars(Answer)

----------------------------------------------------------------------------
(* Properties.                                                             *)

Funnelled == reply.by \in {"repetition", "continuation"}

\* "Evita repeticao [...] de perguntas via ContactCard": no question that goes out asks for
\* what the card holds at that moment, be it Otto's or one that a guard put in its place.
\* Otto's is judged by what detection takes it for.
NeverAsksKnown ==
    [][reply' # reply /\ reply'.by # "business_hours" /\ card # NoCard =>
          /\ \A f \in reply'.asks : ~Has(card, f) /\ ~IsAlreadyKnown(card, f)
          /\ reply'.by = "otto" => ~IsAlreadyKnown(card, reply'.topic)]_funnelVars

\* As long as a lead is not ready, a guard that steps in has a question of the lead's own
\* list left: the candidates do not run out before the signals of readiness are complete.
NeverRunsDry ==
    card # NoCard /\ ~ReadyToSchedule(card) =>
        /\ PickNextQuestion(card, {}) # NoQuestion
        /\ \A i \in DOMAIN TopicOrder :
              IsAlreadyKnown(card, TopicOrder[i]) \/ ~IsRelevant(card, TopicOrder[i]) =>
                  PickNextQuestion(card, {TopicOrder[i]}) # NoQuestion

\* "sem loop": if the guards go on asking, and the lead answers, the lead becomes ready.
QuestionsEnd ==
    []<>(turn = "user" /\ Funnelled /\ reply.asks # {}) => <>ReadyToSchedule(card)

\* What a guard acknowledges is in the card, except that a question about a CRM that is out
\* of place for the interest is acknowledged as if the user had none.
AckIsFounded ==
    [][reply' # reply /\ reply'.ack # "none" =>
          CASE reply'.ack = "crm" -> {"crm_yes", "crm_tool"} \cap card.tags # {}
            [] reply'.ack = "no crm" ->
                 \/ "has_crm" \in card.known /\ "crm_yes" \notin card.tags
                 \/ reply'.topic = "has_crm" /\ ~KnowsCrm(card)
                                             /\ ~IsRelevant(card, "has_crm")
            [] OTHER -> reply'.ack \in card.known]_funnelVars

\* The hour the words mean.
MeantHour(t) ==
    CASE SpecialHour(t) # Unclear -> SpecialHour(t)
      [] t.period \in {"pm", "tarde"} /\ t.n \in 1..11 -> t.n + 12
      [] t.period = "noite" /\ t.n \in 1..11 -> t.n + 12
      [] t.period \in {"am", "noite"} /\ t.n = 12 -> 0
      [] OTHER -> t.n

\* Read as it was meant: an hour of the day; with a mark of its own no period of the day but
\* one that does not change it ("3h da tarde" is read as 3), and none next to minutes ("9h10 da
\* manha" is read as 10); and not twelve at night (read as noon).
ReadAsMeant(t) ==
    /\ t.n \in 0..23
    /\ t.mark # "none" => t.period \in {"none", "manha", "meio dia", "meia noite"}
    /\ ~(t.mark = "hora_minutes" /\ t.period = "manha")
    /\ ~(t.n = 12 /\ t.period = "noite")

\* A meeting time that is read as it was meant is taken from the chat exactly when its hour
\* lies in business hours, and then the card holds it; one that is refused leaves the card
\* without a new time (_apply_extraction, meeting_time_validator.py).
MeetingHoursHonoured ==
    turn = "otto" /\ time # NoTime /\ ReadAsMeant(time) /\ ExtractHour(time) # Unclear =>
        /\ (Refused \in recent) = (MeantHour(time) \notin StartHour..EndHour)
        /\ Refused \notin recent => Has(card, Meeting)

\* "Aceitar apenas horarios dentro do expediente da Pyloto (09h-17h)" (meeting_time_validator.py):
\* where an hour is found in the time that was named, and the time is taken, the hour it means
\* lies in business hours.
OnlyBusinessHours ==
    turn = "otto" /\ time # NoTime /\ time.n \in 0..23 /\ ExtractHour(time) # Unclear
        /\ Refused \notin recent => MeantHour(time) \in StartHour..EndHour

\* "manter consistencia entre guards e CTA" (build_question_candidates): what a guard asks
\* for is a question that the repetition guard would let through.
GuardsAgree ==
    [][reply' # reply /\ reply'.by \in {"repetition", "continuation"} =>
          \A f \in reply'.asks : IsRelevant(card, f)]_funnelVars
=============================================================================

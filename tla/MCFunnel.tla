------------------------------ MODULE MCFunnel ------------------------------
(***************************************************************************)
(* Six leads: four with an interest of their own, one who says none, one    *)
(* who changes his mind.  A message tells one thing, or answers.           *)
(***************************************************************************)
EXTENDS Funnel

At(n, m, mark, period) == [n |-> n, m |-> m, mark |-> mark, period |-> period]

\* Around both ends of the business hours, in every way of writing; hours and minutes that an
\* earlier reading leaves to a later one.
Times ==
    {At(n, 0, "none", p) : n \in {0, 3, 8, 9, 10, 12}, p \in {"am", "pm", "tarde", "noite", "manha"}}
    \cup {At(n, 15, m, p) : n \in {3, 8, 9, 10, 17, 18, 24}, m \in {"colon", "hora", "hora_minutes"},
                            p \in {"none", "tarde", "noite", "manha"}}
    \cup {At(9, 10, "hora_minutes", p) : p \in {"am", "pm", "tarde"}}
    \cup {At(0, 0, "none", p) : p \in {"meio dia", "meia noite", "none"}}
Afternoon == At(15, 0, "hora", "none")

Says(interest, known, tags, t) ==
    [interest |-> interest, known |-> known, tags |-> tags, time |-> t, confirms |-> FALSE]
Tells(f) == Says("", {f}, {}, IF f = Meeting THEN Afternoon ELSE NoTime)
Wants(interest) == Says(interest, {}, {}, NoTime)
Nothing == Wants("")
Yes == [Nothing EXCEPT !.confirms = TRUE]
NoCrm == Tells("has_crm")
SomeCrm ==
    {Says("", {"has_crm"}, {"crm_yes"}, NoTime), Says("", {"current_tools"}, {"crm_tool"}, NoTime)}
NeedsBot == Says("", {"specific_need"}, {"bot_need"}, NoTime)

MCLeads == {"bot", "system", "ads", "courier", "silent", "wavering"}
MCPatches ==
    [l \in MCLeads |->
        {Nothing, Yes} \cup
        CASE l = "bot" ->
                {Wants("automacao_atendimento"), NoCrm} \cup SomeCrm
                \cup {Tells(f) : f \in {"message_volume_per_day", "attendants_count",
                                        "current_tools"}}
          [] l = "system" ->
                {Wants("sob_medida"), NeedsBot}
                \cup {Tells(f) : f \in {"desired_features", "company_size"}}
          [] l = "ads" ->
                {Wants("gestao_perfis_trafego")}
                \cup {Tells(f) : f \in {"specific_need", "urgency", "company_size"}}
          [] l = "courier" ->
                {Wants("intermediacao_entregas")}
                \cup {Tells(f) : f \in {"budget_indication", "location"}}
          [] l = "silent" -> {Says("", {Meeting}, {}, t) : t \in Times}
          [] l = "wavering" -> {Wants("saas"), Wants("sob_medida"), NoCrm}]

Text(mark, opens, topics) ==
    [mark |-> mark, opens |-> opens, topics |-> topics, empty |-> FALSE]
MCTexts ==
    {Text(TRUE, FALSE, {TopicOrder[i]}) : i \in DOMAIN TopicOrder}
    \cup {Text(FALSE, o, t) : o \in BOOLEAN, t \in {{}, {"has_crm", "modules_needed"}}}
    \cup {Text(TRUE, FALSE, {}),
          [mark |-> FALSE, opens |-> FALSE, topics |-> {}, empty |-> TRUE]}

Form(given, vertical, d, t) ==
    [given |-> given, vertical |-> vertical, date |-> d, time |-> t]
MCForms ==
    {Form({"full_name", "email", "company"}, "saas", TRUE, TRUE),
     Form({"specific_need"}, "outros", FALSE, FALSE)}
=============================================================================

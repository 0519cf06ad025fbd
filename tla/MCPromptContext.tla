--------------------------- MODULE MCPromptContext ---------------------------
(***************************************************************************)
(* Two verticals of the repository with the lengths of their texts; the     *)
(* second has neither an index of cases nor objections.                     *)
(***************************************************************************)
EXTENDS PromptContext, TLC

File(globbed, persist, manual, keywords, min, size) ==
    [globbed |-> globbed, persist |-> persist, manual |-> manual, keywords |-> keywords,
     min |-> min, size |-> size]

Auto(name) == <<"automacao", name>>
Saas(name) == <<"saas", name>>

MCOrder == <<Auto("clinica"), Auto("ecommerce"), Auto("core"), Auto("faq"),
             Auto("objections"), Auto("roi_hints"), Saas("core"), Saas("roi_hints")>>

MCFiles ==
    Auto("clinica") :> File(FALSE, TRUE, FALSE, {}, 0, 117)
 @@ Auto("ecommerce") :> File(FALSE, TRUE, FALSE, {}, 0, 127)
 @@ Auto("core") :> File(FALSE, FALSE, FALSE, {}, 0, 561)
 @@ Auto("faq") :> File(TRUE, FALSE, FALSE, {"faq"}, 0, 262)
 @@ Auto("objections") :> File(TRUE, TRUE, TRUE, {"caro", "valor"}, 4, 577)
 @@ Auto("roi_hints") :> File(TRUE, FALSE, TRUE, {"roi", "valor"}, 5, 759)
 @@ Saas("core") :> File(FALSE, FALSE, FALSE, {}, 0, 311)
 @@ Saas("roi_hints") :> File(TRUE, FALSE, TRUE, {"roi", "valor"}, 5, 785)

Case(id, keywords, default) == [id |-> id, keywords |-> keywords, default |-> default]
MCCaseIndex == [automacao |->
    <<Case("clinica", {"clinica"}, FALSE), Case("ecommerce", {"loja"}, TRUE)>>]

Says(words) == [command |-> "", whole |-> "", words |-> words]
MCMessages ==
    {[command |-> "/saas", whole |-> "/saas agora", words |-> {}]}
    \cup {Says(w) : w \in {{}, {"bot"}, {"caro", "valor"}, {"exemplo"},
                          {"faq", "exemplo", "clinica"}}}
MCSignals ==
    {[any |-> FALSE, useful |-> FALSE, words |-> {}],
     [any |-> TRUE, useful |-> FALSE, words |-> {"clinica"}]}
MCRemovable == {Auto("clinica")}
=============================================================================

--------------------------- MODULE MCOttoDecision ---------------------------
(***************************************************************************)
(* Texts enough for every branch: each kind of question with and without   *)
(* the proposal of a meeting, one text that breaks the rules, and the      *)
(* announcement of a handoff alone and with a question after it.           *)
(***************************************************************************)
EXTENDS OttoDecision

Reply(asks, meeting) ==
    [asks |-> asks, meeting |-> meeting, sound |-> TRUE, handoff |-> FALSE]

MCTexts ==
    {Reply(asks, meeting) : asks \in {"mark", "opening", "nothing"}, meeting \in BOOLEAN}
    \cup {[Reply("nothing", FALSE) EXCEPT !.sound = FALSE],
          HandoffText,
          [HandoffText EXCEPT !.asks = "mark"]}
=============================================================================

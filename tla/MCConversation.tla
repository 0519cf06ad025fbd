---------------------------- MODULE MCConversation ----------------------------
(***************************************************************************)
(* One sender, three messages, limits of two: a log longer than what is     *)
(* recovered, a history longer than what is kept.                           *)
(***************************************************************************)
EXTENDS Conversation
=============================================================================

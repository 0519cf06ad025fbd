--------------------------- MODULE MCWebhookTasks ---------------------------
(***************************************************************************)
(* Four tasks over two slots: two run, two wait, and a drain can find the  *)
(* tasks in every mix of states.                                           *)
(***************************************************************************)
EXTENDS WebhookTasks

CONSTANTS t1, t2, t3, t4
=============================================================================

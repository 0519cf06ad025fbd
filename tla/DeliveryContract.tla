-------------------------- MODULE DeliveryContract --------------------------
(***************************************************************************)
(* What the inbound pipeline promises about one message, whatever the      *)
(* number of deliveries, handlers, failures and restarts.                  *)
(*                                                                         *)
(* A handler opens a message, attempts its effect (the reply, or for a     *)
(* completed flow the appointment), records the turn in the session of the *)
(* sender and settles the message, which marks it as processed.  A handler *)
(* may close before it settles, and then nothing is promised but a retry.  *)
(* The promise is in the order: a message is marked only when its effect   *)
(* was attempted and its turn recorded, and no handler opens a message     *)
(* while it is marked.                                                     *)
(***************************************************************************)
CONSTANTS Handlers, Messages, NoMessage

VARIABLES
    open,       \* open[h]: the message handler h works on, or NoMessage
    marked,     \* messages whose processed mark is alive
    attempted,  \* messages whose effect was attempted at least once
    recorded,   \* messages whose turn was saved at least once
    settled     \* messages that were ever marked

vars == <<open, marked, attempted, recorded, settled>>

Init ==
    /\ open = [h \in Handlers |-> NoMessage]
    /\ marked = {} /\ attempted = {} /\ recorded = {} /\ settled = {}

Open(h, m) ==
    /\ open[h] = NoMessage
    /\ m \notin marked
    /\ open' = [open EXCEPT ![h] = m]
    /\ UNCHANGED <<marked, attempted, recorded, settled>>

Attempt(h) ==
    /\ open[h] \in Messages
    /\ attempted' = attempted \cup {open[h]}
    /\ UNCHANGED <<open, marked, recorded, settled>>

Record(h) ==
    /\ open[h] \in attempted
    /\ recorded' = recorded \cup {open[h]}
    /\ UNCHANGED <<open, marked, attempted, settled>>

\* The handler may stay open for a moment when the mark was stored and the
\* store reported a failure all the same.
Settle(h) ==
    /\ open[h] \in recorded
    /\ marked' = marked \cup {open[h]}
    /\ settled' = settled \cup {open[h]}
    /\ open' \in {open, [open EXCEPT ![h] = NoMessage]}
    /\ UNCHANGED <<attempted, recorded>>

\* Handlers stop without settling, marks are lost, or both at once (a
\* restart of a process that keeps its marks in memory).
Interrupt(stopped, forgotten) ==
    /\ open' = [h \in Handlers |-> IF h \in stopped THEN NoMessage ELSE open[h]]
    /\ marked' = marked \ forgotten
    /\ UNCHANGED <<attempted, recorded, settled>>

Next ==
    \/ \E h \in Handlers, m \in Messages : Open(h, m)
    \/ \E h \in Handlers : Attempt(h) \/ Record(h) \/ Settle(h)
    \/ \E stopped \in SUBSET Handlers, forgotten \in SUBSET Messages :
          Interrupt(stopped, forgotten)

Spec == Init /\ [][Next]_vars
=============================================================================

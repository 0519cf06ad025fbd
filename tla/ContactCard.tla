---------------------------- MODULE ContactCard ----------------------------
(***************************************************************************)
(* The contact card of one sender: what the extractor learned from the     *)
(* conversation, kept in Firestore (or Redis) and worked on by the         *)
(* pipeline.  A turn reads the card or creates a blank one, waits for the  *)
(* agents, merges the patch into its copy by the rules of                  *)
(* apply_contact_card_patch, and writes the copy back.                     *)
(*                                                                         *)
(* A card has scalar fields, one list and one flag for the lists and flags *)
(* of the code, and the score.  A list is the set of its items: which new  *)
(* items fit under the limit depends on their order in the patch, which is *)
(* left open.  The score is the set of the fields it adds up.              *)
(***************************************************************************)
EXTENDS Naturals, FiniteSets

CONSTANTS
    Workers,        \* turns of the sender under way
    Deployments,    \* the stores and environments to consider
    FillFields,     \* scalar fields that are filled once (full_name, email)
    LatestFields,   \* scalar fields that follow the last value (urgency)
    Value,          \* values of the scalar fields
    Refused,        \* <<field, value>> the ContactCard model rejects
    Counted,        \* <<field, value>> that adds to the score
    Items, Limit,   \* items of the list, and how many it may hold
    Patches,        \* patches of the extractor and of completed flows
    None, NoCard

Fields == FillFields \cup LatestFields

Card == [scalar : [Fields -> Value \cup {None}], items : SUBSET Items,
         flag : BOOLEAN, scored : SUBSET Fields]
Patch == [scalar : [Fields -> Value \cup {None}], items : SUBSET Items, flag : BOOLEAN]

Faults == {"overlap", "read", "write", "refused"}
Deployment == [backend : {"firestore", "redis"}, faults : SUBSET Faults]

ASSUME DeploymentAssumption == Deployments \subseteq Deployment
ASSUME PatchAssumption == Patches \subseteq Patch
ASSUME LimitAssumption == Limit \in Nat
ASSUME SentinelAssumption == None \notin Value /\ NoCard \notin Card
ASSUME EmptyFieldAssumption == \A f \in Fields : <<f, None>> \notin Refused \cup Counted

VARIABLES
    env,     \* the deployment: chosen by Init, never changed
    doc,     \* the stored card
    pc,      \* pc[w]: the await turn w is suspended at
    card     \* card[w]: the copy it works on

vars == <<env, doc, pc, card>>

Fault(f) == f \in env.faults

BlankCard == [scalar |-> [f \in Fields |-> None], items |-> {}, flag |-> FALSE,
              scored |-> {}]

\* What pydantic accepts when the document is turned back into a card;
\* setattr on a card and ContactCardPatch check none of it.
Accepted(scalar) == \A f \in Fields : <<f, scalar[f]>> \notin Refused
Readable == doc # NoCard /\ Accepted(doc.scalar)

Score(c) == {f \in Fields : <<f, c.scalar[f]>> \in Counted}
\* Mutated form: the score of an old card is kept.
RescoredOnce(c) == IF c.scored = {} THEN [c EXCEPT !.scored = Score(c)] ELSE c
Rescored(c) == [c EXCEPT !.scored = Score(c)]

-----------------------------------------------------------------------------
(* apply_contact_card_patch                                                *)

\* Mutated form: a new value replaces the old one in every field.
PatchedScalarLatest(c, patch) ==
    [f \in Fields |-> IF patch.scalar[f] = None THEN c.scalar[f] ELSE patch.scalar[f]]
PatchedScalar(c, patch) ==
    [f \in Fields |->
        IF patch.scalar[f] = None \/ (f \in FillFields /\ c.scalar[f] # None)
        THEN c.scalar[f]
        ELSE patch.scalar[f]]

\* _merge_unique: the old items, then new ones as long as there is room.
MergedItems(old, new) ==
    {kept \in SUBSET (old \cup new) :
        /\ old \subseteq kept
        /\ IF Cardinality(old \cup new) <= Limit
           THEN kept = old \cup new
           ELSE Cardinality(kept) = Limit}

Patched(c, patch) ==
    {[c EXCEPT !.scalar = PatchedScalar(c, patch),
               !.items = items,
               !.flag = c.flag \/ patch.flag] : items \in MergedItems(c.items, patch.items)}

-----------------------------------------------------------------------------
\* Mutated form: the document is replaced.
StoredWhole(c) == c
\* Firestore merges: a field that is None in the copy is not in the update
\* and keeps its stored value.  Redis replaces the value of the key.
Stored(c) ==
    IF env.backend = "redis" \/ doc = NoCard THEN c
    ELSE [c EXCEPT !.scalar =
            [f \in Fields |-> IF c.scalar[f] # None THEN c.scalar[f] ELSE doc.scalar[f]]]

Goto(w, label) == pc' = [pc EXCEPT ![w] = label]
Release(w) == Goto(w, "idle") /\ card' = [card EXCEPT ![w] = NoCard]

Init ==
    /\ env \in Deployments
    /\ doc = NoCard
    /\ pc = [w \in Workers |-> "idle"]
    /\ card = [w \in Workers |-> NoCard]

\* get_or_create, first half: a card that is absent, does not pass the
\* validation, or (in Firestore) cannot be read at all is created anew.
Get(w) ==
    /\ pc[w] = "idle"
    /\ Fault("overlap") \/ \A v \in Workers : pc[v] = "idle"
    /\ \/ /\ Readable
          /\ Goto(w, "agents")
          /\ card' = [card EXCEPT ![w] = doc]
       \/ /\ ~Readable \/ (env.backend = "firestore" /\ Fault("read"))
          /\ Goto(w, "create")
          /\ card' = [card EXCEPT ![w] = BlankCard]
    /\ UNCHANGED <<env, doc>>

\* get_or_create, second half.  Firestore logs a failed write and goes on,
\* Redis raises.
Create(w) ==
    /\ pc[w] = "create"
    /\ \/ doc' = Stored(card[w]) /\ Goto(w, "agents") /\ UNCHANGED card
       \/ /\ Fault("write") /\ env.backend = "firestore"
          /\ Goto(w, "agents") /\ UNCHANGED <<doc, card>>
       \/ Fault("write") /\ env.backend = "redis" /\ Release(w) /\ UNCHANGED doc
    /\ UNCHANGED env

\* The agents answered: the patch goes into the copy.  Only a patch that
\* changes something is stored, and only then is the score computed.
Extract(w) ==
    /\ pc[w] = "agents"
    /\ \E patch \in Patches :
          /\ Fault("refused") \/ Accepted(patch.scalar)
          /\ \E new \in Patched(card[w], patch) :
                \/ new = card[w] /\ Release(w)
                \/ /\ new # card[w]
                   /\ card' = [card EXCEPT ![w] = Rescored(new)]
                   /\ Goto(w, "upsert")
    /\ UNCHANGED <<env, doc>>

\* The copy is written back, or the write fails and (Firestore) only the
\* log knows.
Upsert(w) ==
    /\ pc[w] = "upsert"
    /\ \/ doc' = Stored(card[w])
       \/ Fault("write") /\ UNCHANGED doc
    /\ Release(w)
    /\ UNCHANGED env

\* The turn ends without a patch: a fixed end, an exception, a crash.
Stop(w) ==
    /\ pc[w] # "idle"
    /\ Release(w)
    /\ UNCHANGED <<env, doc>>

Next == \E w \in Workers : Get(w) \/ Create(w) \/ Extract(w) \/ Upsert(w) \/ Stop(w)

Spec == Init /\ [][Next]_vars

-----------------------------------------------------------------------------
(* Properties                                                              *)

\* Every variable holds a value of its type, and a turn under way has a card.
TypeOK ==
    /\ env \in Deployments
    /\ doc \in Card \cup {NoCard}
    /\ pc \in [Workers -> {"idle", "create", "agents", "upsert"}]
    /\ card \in [Workers -> Card \cup {NoCard}]
    /\ \A w \in Workers : pc[w] # "idle" => card[w] \in Card

Known(c, f) == c.scalar[f] # None

\* In Firestore a field that was ever learned is never empty again, whatever
\* overlaps or fails: not when a blank card is written over it, nor when a
\* turn writes a copy older than the field (set with merge=True of a dict
\* without None).
KnownStaysKnown ==
    [][env.backend = "firestore" /\ doc # NoCard
       => doc' # NoCard /\ \A f \in Fields : Known(doc, f) => Known(doc', f)]_vars

\* The turns of the sender follow each other and every stored card can be
\* read; writes may fail and turns may stop anywhere.
Orderly == ~Fault("overlap") /\ ~Fault("read") /\ ~Fault("refused")

\* new holds all that old holds: filled fields as they are, the others at
\* least filled, the flag and the items.
Extends(new, old) ==
    /\ \A f \in FillFields : Known(old, f) => new.scalar[f] = old.scalar[f]
    /\ \A f \in Fields : Known(old, f) => Known(new, f)
    /\ old.items \subseteq new.items
    /\ old.flag => new.flag

\* Then nothing is forgotten from one write to the next, with either store.
OrderlyRemembers ==
    [][Orderly /\ doc # NoCard => doc' # NoCard /\ Extends(doc', doc)]_vars

\* And the score on which a lead counts as qualified is that of the stored
\* fields.
OrderlyScoreCurrent == Orderly /\ doc # NoCard => doc.scored = Score(doc)

\* "Flags booleanas so evoluem para True" (apply_contact_card_patch).
FlagsOnlyRise == [][doc # NoCard /\ doc.flag => doc' # NoCard /\ doc'.flag]_vars
=============================================================================

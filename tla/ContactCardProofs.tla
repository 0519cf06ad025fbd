------------------------- MODULE ContactCardProofs -------------------------
(***************************************************************************)
(* Proofs about ContactCard for any number of turns, fields, values and    *)
(* patches: what the merging write of Firestore guarantees whatever        *)
(* happens, and what follows when turns do not overlap.                    *)
(***************************************************************************)
EXTENDS ContactCard, TLAPS

\* The parts of a card, and what a card must have to be one.
LEMMA CardParts ==
    ASSUME NEW c \in Card
    PROVE  /\ c.scalar \in [Fields -> Value \cup {None}] /\ c.items \in SUBSET Items
           /\ c.flag \in BOOLEAN /\ c.scored \in SUBSET Fields
BY DEF Card

\* The card get_or_create writes is a card.
LEMMA BlankTyped == BlankCard \in Card
BY DEF BlankCard, Card

\* The score changes nothing else of a card.
LEMMA RescoredTyped ==
    ASSUME NEW c \in Card
    PROVE  /\ Rescored(c) \in Card /\ Rescored(c).scalar = c.scalar
           /\ Rescored(c).items = c.items /\ Rescored(c).flag = c.flag
           /\ Rescored(c).scored = Score(c)
BY DEF Card, Rescored, Score

\* A patched card is a card that holds all the old one held.
LEMMA PatchedTyped ==
    ASSUME NEW c \in Card, NEW patch \in Patch, NEW new \in Patched(c, patch)
    PROVE  /\ new \in Card /\ new.scalar = PatchedScalar(c, patch)
           /\ new.scored = c.scored
           /\ Extends(new, c)
<1>1. PICK items \in MergedItems(c.items, patch.items) :
         new = [c EXCEPT !.scalar = PatchedScalar(c, patch), !.items = items,
                         !.flag = c.flag \/ patch.flag]
  BY DEF Patched
<1>2. items \in SUBSET Items /\ c.items \subseteq items
  BY DEF MergedItems, Card, Patch
<1>3. PatchedScalar(c, patch) \in [Fields -> Value \cup {None}]
  BY DEF PatchedScalar, Card, Patch
<1>4. (c.flag \/ patch.flag) \in BOOLEAN
  BY DEF Card, Patch
<1>5. /\ new.scalar = PatchedScalar(c, patch) /\ new.items = items
      /\ new.flag = (c.flag \/ patch.flag) /\ new.scored = c.scored
  BY <1>1 DEF Card
<1>6. new \in Card
  BY <1>1, <1>2, <1>3, <1>4 DEF Card
<1>7. \A f \in Fields : c.scalar[f] # None => new.scalar[f] # None
  BY <1>5 DEF PatchedScalar
<1>8. \A f \in FillFields : c.scalar[f] # None => new.scalar[f] = c.scalar[f]
  BY <1>5 DEF PatchedScalar, Fields
<1> QED
  BY <1>2, <1>5, <1>6, <1>7, <1>8 DEF Extends, Known

\* Whatever the store, what it holds after a write is a card.
LEMMA StoredTyped ==
    ASSUME doc \in Card \cup {NoCard}, NEW c \in Card
    PROVE  Stored(c) \in Card
<1>1. CASE env.backend = "redis" \/ doc = NoCard
  BY <1>1 DEF Stored
<1>2. CASE ~(env.backend = "redis" \/ doc = NoCard)
  <2> DEFINE merged == [f \in Fields |-> IF c.scalar[f] # None THEN c.scalar[f] ELSE doc.scalar[f]]
  <2>1. merged \in [Fields -> Value \cup {None}]
    BY <1>2, CardParts
  <2>2. Stored(c) = [c EXCEPT !.scalar = merged]
    BY <1>2 DEF Stored
  <2> HIDE DEF merged
  <2> QED
    BY <2>1, <2>2 DEF Card
<1> QED
  BY <1>1, <1>2

\* Type correctness: at the start, and from step to step.
LEMMA TypeInit == Init => TypeOK
BY DEF Init, TypeOK

LEMMA TypeStep == TypeOK /\ [Next]_vars => TypeOK'
<1> SUFFICES ASSUME TypeOK, [Next]_vars PROVE TypeOK'
  OBVIOUS
<1> USE DEF TypeOK
<1>1. ASSUME NEW w \in Workers, Get(w) PROVE TypeOK'
  <2>1. CASE Readable /\ Goto(w, "agents") /\ card' = [card EXCEPT ![w] = doc]
    BY <1>1, <2>1 DEF Get, Goto, Readable
  <2>2. CASE Goto(w, "create") /\ card' = [card EXCEPT ![w] = BlankCard]
    BY <1>1, <2>2, BlankTyped DEF Get, Goto
  <2> QED
    BY <1>1, <2>1, <2>2 DEF Get
<1>2. ASSUME NEW w \in Workers, Create(w) PROVE TypeOK'
  <2>1. Stored(card[w]) \in Card
    BY <1>2, StoredTyped DEF Create
  <2> QED
    BY <1>2, <2>1 DEF Create, Goto, Release
<1>3. ASSUME NEW w \in Workers, Extract(w) PROVE TypeOK'
  <2>1. card[w] \in Card /\ UNCHANGED <<env, doc>>
    BY <1>3 DEF Extract
  <2>2. PICK patch \in Patches : \E new \in Patched(card[w], patch) :
           \/ Release(w)
           \/ card' = [card EXCEPT ![w] = Rescored(new)] /\ Goto(w, "upsert")
    BY <1>3 DEF Extract
  <2>3. PICK new \in Patched(card[w], patch) :
           \/ Release(w)
           \/ card' = [card EXCEPT ![w] = Rescored(new)] /\ Goto(w, "upsert")
    BY <2>2
  <2>4. Rescored(new) \in Card
    BY <2>1, PatchAssumption, PatchedTyped, RescoredTyped
  <2> QED
    BY <2>1, <2>3, <2>4 DEF Release, Goto
<1>4. ASSUME NEW w \in Workers, Upsert(w) PROVE TypeOK'
  <2>1. Stored(card[w]) \in Card
    BY <1>4, StoredTyped DEF Upsert
  <2> QED
    BY <1>4, <2>1 DEF Upsert, Release, Goto
<1>5. ASSUME NEW w \in Workers, Stop(w) PROVE TypeOK'
  BY <1>5 DEF Stop, Release, Goto
<1>6. CASE UNCHANGED vars
  BY <1>6 DEF vars
<1> QED
  BY <1>1, <1>2, <1>3, <1>4, <1>5, <1>6 DEF Next

\* Each variable of the contact card keeps its type.
THEOREM CardTyped == Spec => []TypeOK
BY TypeInit, TypeStep, PTL DEF Spec
-----------------------------------------------------------------------------
(* What is written is a copy of a turn, or nothing.                         *)

\* A document changes only by writing the copy of some turn.
LEMMA WritesCopies ==
    ASSUME TypeOK, [Next]_vars
    PROVE  \/ doc' = doc
           \/ \E w \in Workers : /\ pc[w] \in {"create", "upsert"} /\ card[w] \in Card
                                /\ doc' = Stored(card[w])
<1>1. ASSUME NEW w \in Workers, Create(w) \/ Upsert(w)
      PROVE  \/ doc' = doc
             \/ /\ pc[w] \in {"create", "upsert"} /\ card[w] \in Card
                /\ doc' = Stored(card[w])
  BY <1>1 DEF Create, Upsert, TypeOK
<1>2. ASSUME NEW w \in Workers, Get(w) \/ Extract(w) \/ Stop(w)
      PROVE  doc' = doc
  BY <1>2 DEF Get, Extract, Stop
<1>3. CASE UNCHANGED vars
  BY <1>3 DEF vars
<1> QED
  BY <1>1, <1>2, <1>3 DEF Next

\* A merging write keeps every field known, however old the copy is.
LEMMA MergeKeepsKnown ==
    ASSUME TypeOK, env.backend = "firestore", doc # NoCard, NEW c \in Card,
           NEW f \in Fields, Known(doc, f)
    PROVE  Known(Stored(c), f)
<1> DEFINE merged == [g \in Fields |-> IF c.scalar[g] # None THEN c.scalar[g] ELSE doc.scalar[g]]
<1>1. Stored(c) = [c EXCEPT !.scalar = merged]
  BY DEF Stored
<1>2. merged[f] # None
  BY DEF Known
<1>3. Stored(c).scalar = merged
  <2> HIDE DEF merged
  <2> QED
    BY <1>1 DEF Card
<1> HIDE DEF merged
<1> QED
  BY <1>2, <1>3 DEF Known

\* With Firestore, a field of the card that was once learned is never empty
\* again: overlapping turns, failed reads and writes, refused values and
\* crashes included (FirestoreContactCardStore._upsert_sync).
THEOREM FirestoreKeepsFields == Spec => KnownStaysKnown
<1> DEFINE Kept == env.backend = "firestore" /\ doc # NoCard
                   => doc' # NoCard /\ \A f \in Fields : Known(doc, f) => Known(doc', f)
<1>1. TypeOK /\ [Next]_vars => [Kept]_vars
  <2> SUFFICES ASSUME TypeOK, [Next]_vars, env.backend = "firestore", doc # NoCard,
                      doc' # doc
               PROVE  /\ doc' # NoCard
                      /\ \A f \in Fields : Known(doc, f) => Known(doc', f)
    BY DEF vars, Known
  <2>1. PICK w \in Workers : card[w] \in Card /\ doc' = Stored(card[w])
    BY WritesCopies
  <2>2. doc' # NoCard
    BY <2>1, StoredTyped, SentinelAssumption DEF TypeOK
  <2>3. ASSUME NEW f \in Fields, Known(doc, f) PROVE Known(doc', f)
    BY <2>1, <2>3, MergeKeepsKnown
  <2> QED
    BY <2>2, <2>3
<1> QED
  BY <1>1, CardTyped, PTL DEF Spec, KnownStaysKnown

-----------------------------------------------------------------------------
(* Turns one after the other.                                               *)

\* At most one turn is under way, and its copy holds what is stored.
OneTurn == \A v, w \in Workers : pc[v] # "idle" /\ pc[w] # "idle" => v = w
CopyCurrent ==
    \A w \in Workers :
        /\ pc[w] = "create" => doc = NoCard /\ card[w] = BlankCard
        /\ pc[w] = "agents" => card[w] = (IF doc = NoCard THEN BlankCard ELSE doc)
        /\ pc[w] = "upsert" => /\ card[w].scored = Score(card[w])
                               /\ Accepted(card[w].scalar)
                               /\ doc # NoCard => Extends(card[w], doc)
DocSound ==
    doc # NoCard => Accepted(doc.scalar) /\ doc.scored = Score(doc)

OInv == Orderly => OneTurn /\ CopyCurrent /\ DocSound

\* A blank card can be read back and its score is right.
LEMMA BlankSound == Accepted(BlankCard.scalar) /\ BlankCard.scored = Score(BlankCard)
BY EmptyFieldAssumption DEF Accepted, BlankCard, Score

\* A copy that holds what is stored replaces it as it is, in either store.
LEMMA StoredCurrent ==
    ASSUME TypeOK, NEW c \in Card, doc # NoCard => Extends(c, doc)
    PROVE  Stored(c) = c
<1>1. CASE env.backend = "redis" \/ doc = NoCard
  BY <1>1 DEF Stored
<1>2. CASE ~(env.backend = "redis" \/ doc = NoCard)
  <2> DEFINE merged == [f \in Fields |-> IF c.scalar[f] # None THEN c.scalar[f] ELSE doc.scalar[f]]
  <2>1. \A f \in Fields : doc.scalar[f] # None => c.scalar[f] # None
    BY <1>2 DEF Extends, Known
  <2>2. doc.scalar \in [Fields -> Value \cup {None}] /\ c.scalar \in [Fields -> Value \cup {None}]
    BY <1>2, CardParts DEF TypeOK
  <2>3. merged = c.scalar
    <3>1. \A f \in Fields : merged[f] = c.scalar[f]
      BY <2>1
    <3> QED
      BY <2>2, <3>1
  <2>4. Stored(c) = [c EXCEPT !.scalar = merged]
    BY <1>2 DEF Stored
  <2> HIDE DEF merged
  <2> QED
    BY <2>3, <2>4 DEF Card
<1> QED
  BY <1>1, <1>2

\* A patch without refused values leaves the copy readable.
LEMMA PatchedAccepted ==
    ASSUME NEW c \in Card, NEW patch \in Patch, Accepted(c.scalar), Accepted(patch.scalar)
    PROVE  Accepted(PatchedScalar(c, patch))
BY DEF Accepted, PatchedScalar

\* A card holds what it holds.
LEMMA ExtendsItself == ASSUME NEW c \in Card PROVE Extends(c, c)
BY DEF Extends, Known

\* The strengthened invariant: at the start, from step to step, always.
LEMMA OInit == Init => OInv
BY DEF Init, OInv, OneTurn, CopyCurrent, DocSound

LEMMA OStep == TypeOK /\ OInv /\ [Next]_vars => OInv'
<1> SUFFICES ASSUME TypeOK, OInv, [Next]_vars, Orderly' PROVE (OneTurn /\ CopyCurrent /\ DocSound)'
  BY DEF OInv
<1>0. env' = env
  BY DEF Next, vars, Get, Create, Extract, Upsert, Stop
<1>1. Orderly /\ OneTurn /\ CopyCurrent /\ DocSound
  BY <1>0 DEF OInv, Orderly, Fault
<1> USE DEF TypeOK
<1>2. ASSUME NEW w \in Workers, Get(w)
      PROVE  (OneTurn /\ CopyCurrent /\ DocSound)'
  <2>1. \A v \in Workers : pc[v] = "idle"
    BY <1>1, <1>2 DEF Get, Orderly
  <2>2. doc' = doc
    BY <1>2 DEF Get
  <2>3. CASE Readable /\ Goto(w, "agents") /\ card' = [card EXCEPT ![w] = doc]
    BY <1>1, <2>1, <2>2, <2>3 DEF OneTurn, CopyCurrent, DocSound, Goto, Readable, Score
  <2>4. CASE ~Readable /\ Goto(w, "create") /\ card' = [card EXCEPT ![w] = BlankCard]
    <3>1. doc = NoCard
      BY <1>1, <2>4 DEF Readable, DocSound
    <3> QED
      BY <1>1, <2>1, <2>2, <2>4, <3>1 DEF OneTurn, CopyCurrent, DocSound, Goto
  <2> QED
    BY <1>1, <1>2, <2>3, <2>4 DEF Get, Orderly
<1>3. ASSUME NEW w \in Workers, Create(w)
      PROVE  (OneTurn /\ CopyCurrent /\ DocSound)'
  <2>1. /\ pc[w] = "create" /\ doc = NoCard /\ card[w] = BlankCard
        /\ \A v \in Workers \ {w} : pc[v] = "idle"
    BY <1>1, <1>3 DEF Create, CopyCurrent, OneTurn
  <2>2. Stored(card[w]) = BlankCard
    BY <2>1 DEF Stored
  <2>3. CASE doc' = Stored(card[w]) /\ Goto(w, "agents") /\ UNCHANGED card
    <3>1. doc' = BlankCard /\ doc' # NoCard
      BY <2>2, <2>3, BlankTyped, SentinelAssumption
    <3> QED
      BY <2>1, <2>3, <3>1, BlankSound
         DEF OneTurn, CopyCurrent, DocSound, Goto, Accepted, Score
  <2>4. CASE Goto(w, "agents") /\ UNCHANGED <<doc, card>>
    BY <2>1, <2>4 DEF OneTurn, CopyCurrent, DocSound, Goto
  <2>5. CASE Release(w) /\ UNCHANGED doc
    BY <2>1, <2>5 DEF OneTurn, CopyCurrent, DocSound, Release, Goto
  <2> QED
    BY <1>3, <2>3, <2>4, <2>5 DEF Create
<1>4. ASSUME NEW w \in Workers, Extract(w)
      PROVE  (OneTurn /\ CopyCurrent /\ DocSound)'
  <2>1. /\ pc[w] = "agents" /\ card[w] \in Card /\ doc' = doc
        /\ card[w] = (IF doc = NoCard THEN BlankCard ELSE doc)
        /\ \A v \in Workers \ {w} : pc[v] = "idle"
    BY <1>1, <1>4 DEF Extract, CopyCurrent, OneTurn
  <2>2. Accepted(card[w].scalar)
    BY <1>1, <2>1, BlankSound DEF DocSound
  <2>3. PICK patch \in Patches :
          /\ Accepted(patch.scalar)
          /\ \E new \in Patched(card[w], patch) :
                \/ Release(w)
                \/ card' = [card EXCEPT ![w] = Rescored(new)] /\ Goto(w, "upsert")
    BY <1>1, <1>4 DEF Extract, Orderly
  <2>4. PICK new \in Patched(card[w], patch) :
                \/ Release(w)
                \/ card' = [card EXCEPT ![w] = Rescored(new)] /\ Goto(w, "upsert")
    BY <2>3
  <2>5. CASE Release(w)
    BY <1>1, <2>1, <2>5 DEF OneTurn, CopyCurrent, DocSound, Release, Goto
  <2>6. CASE card' = [card EXCEPT ![w] = Rescored(new)] /\ Goto(w, "upsert")
    <3>1. patch \in Patch
      BY PatchAssumption
    <3>2. /\ new \in Card /\ new.scalar = PatchedScalar(card[w], patch)
          /\ Extends(new, card[w])
      BY <2>1, <3>1, PatchedTyped
    <3>3. Accepted(new.scalar)
      BY <2>1, <2>2, <2>3, <3>1, <3>2, PatchedAccepted
    <3> DEFINE c == Rescored(new)
    <3>4. /\ c.scalar = new.scalar /\ c.items = new.items /\ c.flag = new.flag
          /\ c.scored = Score(new)
      BY <3>2, RescoredTyped
    <3>5. c.scored = Score(c) /\ Accepted(c.scalar) /\ Extends(c, card[w])
      BY <3>2, <3>3, <3>4 DEF Score, Extends, Known
    <3>6. doc # NoCard => Extends(c, doc)
      BY <2>1, <3>5
    <3>7. card'[w] = c /\ pc' = [pc EXCEPT ![w] = "upsert"]
      BY <2>6 DEF Goto
    <3> HIDE DEF c
    <3>8. CopyCurrent'
      BY <2>1, <3>5, <3>6, <3>7 DEF CopyCurrent, Score, Extends, Known, Accepted
    <3>9. OneTurn' /\ DocSound'
      BY <1>1, <2>1, <3>7 DEF OneTurn, DocSound, Accepted, Score
    <3> QED
      BY <3>8, <3>9
  <2> QED
    BY <2>4, <2>5, <2>6
<1>5. ASSUME NEW w \in Workers, Upsert(w)
      PROVE  (OneTurn /\ CopyCurrent /\ DocSound)'
  <2>1. /\ pc[w] = "upsert" /\ card[w] \in Card /\ card[w].scored = Score(card[w])
        /\ Accepted(card[w].scalar)
        /\ (doc # NoCard => Extends(card[w], doc))
        /\ \A v \in Workers \ {w} : pc[v] = "idle"
    BY <1>1, <1>5 DEF Upsert, CopyCurrent, OneTurn
  <2>2. Stored(card[w]) = card[w]
    BY <2>1, StoredCurrent
  <2>3. pc' = [pc EXCEPT ![w] = "idle"] /\ doc' \in {doc, card[w]}
    BY <1>5, <2>2 DEF Upsert, Release, Goto
  <2>4. \A v \in Workers : pc'[v] = "idle"
    BY <2>1, <2>3
  <2>5. DocSound'
    BY <1>1, <2>1, <2>3 DEF DocSound, Accepted, Score
  <2> QED
    BY <2>4, <2>5 DEF OneTurn, CopyCurrent
<1>6. ASSUME NEW w \in Workers, Stop(w)
      PROVE  (OneTurn /\ CopyCurrent /\ DocSound)'
  <2>1. \A v \in Workers \ {w} : pc[v] = "idle"
    BY <1>1, <1>6 DEF Stop, OneTurn
  <2>2. pc' = [pc EXCEPT ![w] = "idle"] /\ doc' = doc
    BY <1>6 DEF Stop, Release, Goto
  <2> QED
    BY <1>1, <2>1, <2>2 DEF OneTurn, CopyCurrent, DocSound, Accepted, Score
<1>7. CASE UNCHANGED vars
  <2>1. doc' = doc /\ pc' = pc /\ card' = card
    BY <1>7 DEF vars
  <2> QED
    BY <1>1, <2>1 DEF OneTurn, CopyCurrent, DocSound, Accepted, Score, Extends, Known
<1> QED
  BY <1>2, <1>3, <1>4, <1>5, <1>6, <1>7 DEF Next

LEMMA OAlways == Spec => [](TypeOK /\ OInv)
BY TypeInit, TypeStep, OInit, OStep, PTL DEF Spec

\* Where the turns of a sender follow each other and stored cards can be
\* read, the stored score is the score of the stored fields.
THEOREM ScoreStaysCurrent == Spec => []OrderlyScoreCurrent
<1>1. TypeOK /\ OInv => OrderlyScoreCurrent
  BY DEF OInv, DocSound, OrderlyScoreCurrent
<1> QED
  BY <1>1, OAlways, PTL

\* Under the same premise no write forgets: filled fields stay as they are,
\* lists and flags only grow, although writes fail and turns stop anywhere.
THEOREM OrderlyTurnsRemember == Spec => OrderlyRemembers
<1> DEFINE Kept == Orderly /\ doc # NoCard => doc' # NoCard /\ Extends(doc', doc)
<1>1. TypeOK /\ OInv /\ [Next]_vars => [Kept]_vars
  <2> SUFFICES ASSUME TypeOK, OInv, [Next]_vars, Orderly, doc # NoCard
               PROVE  doc' # NoCard /\ Extends(doc', doc)
    OBVIOUS
  <2>1. doc \in Card
    BY DEF TypeOK
  <2>2. CASE doc' = doc
    BY <2>1, <2>2, ExtendsItself
  <2>3. CASE \E w \in Workers : /\ pc[w] \in {"create", "upsert"} /\ card[w] \in Card
                               /\ doc' = Stored(card[w])
    <3>1. PICK w \in Workers : /\ pc[w] \in {"create", "upsert"} /\ card[w] \in Card
                              /\ doc' = Stored(card[w])
      BY <2>3
    <3>2. Extends(card[w], doc)
      BY <3>1 DEF OInv, CopyCurrent
    <3>3. Stored(card[w]) = card[w]
      BY <3>1, <3>2, StoredCurrent
    <3> QED
      BY <3>1, <3>2, <3>3, SentinelAssumption
  <2> QED
    BY <2>2, <2>3, WritesCopies
<1> QED
  BY <1>1, OAlways, PTL DEF Spec, OrderlyRemembers
=============================================================================

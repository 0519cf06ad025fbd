----------------------------- MODULE MemoryProofs -----------------------------
(***************************************************************************)
(* Theorems about what is remembered of a conversation: about the cache and *)
(* the contexts of PromptContext, for any files, indexes, messages and      *)
(* limits, and about the history and the lead of Conversation, for any      *)
(* tenants, limits and messages.                                           *)
(***************************************************************************)
EXTENDS PromptContext, Conversation, FoldLemmas, SequenceTheorems, TLAPS

----------------------------------------------------------------------------
(* The texts of a prompt.  Each fold keeps its sequence within the files it *)
(* is fed with.                                                            *)

\* The files in a text are among those it is cut from.
LEMMA WithinOf ==
  ASSUME NEW X \in SUBSET Paths, NEW s \in Seq(X), NEW n
  PROVE  Within(s, n) \in Seq(X)
<1> DEFINE A == [open : BOOLEAN, used : Nat, seq : Seq(X)]
           Fits(acc, p) ==
              IF acc.open /\ acc.used + Files[p].size <= n
              THEN [acc EXCEPT !.used = acc.used + Files[p].size + 2, !.seq = Append(acc.seq, p)]
              ELSE [acc EXCEPT !.open = FALSE]
           start == [open |-> TRUE, used |-> 0, seq |-> <<>>]
           Fold(f) == f = [T \in SUBSET DOMAIN s |->
              IF T = {} THEN start ELSE LET x == Max(T) IN Fits(f[T \ {x}], s[x])]
           Folded == CHOOSE f : Fold(f)
           op == [q \in A \X (1..Len(s)) |-> Fits(q[1], s[q[2]])]
<1>1. Within(s, n) = Folded[DOMAIN s].seq
  BY DEF Within, FoldLeft, MapThenFoldSet
<1>2. DOMAIN s = 1..Len(s) /\ Len(s) \in Nat /\ \A i \in 1..Len(s) : s[i] \in X
  OBVIOUS
<1>3. ASSUME NEW acc \in A, NEW p \in X PROVE Fits(acc, p) \in A
  <2>1. Files[p].size \in Nat
    BY PromptContextAssumption DEF PromptContextAssumption
  <2>2. Append(acc.seq, p) \in Seq(X)
    OBVIOUS
  <2>3. acc.used + Files[p].size + 2 \in Nat
    BY <2>1
  <2> QED
    BY <2>2, <2>3
<1>4. start \in A
  OBVIOUS
<1> HIDE DEF A, Fits, start
<1>5. op \in [A \X (1..Len(s)) -> A]
  BY <1>2, <1>3
<1>6. PICK f \in [SUBSET (1..Len(s)) -> A] : LeftFold(f, Len(s), start, op)
  <2> HIDE DEF op
  <2> QED
    BY <1>2, <1>4, <1>5, LeftFoldExists
<1>7. Fold(f)
  <2>1. \A T \in SUBSET (1..Len(s)) : T # {} =>
          op[<<f[T \ {Max(T)}], Max(T)>>] = Fits(f[T \ {Max(T)}], s[Max(T)])
    BY <1>2, MaxOfIndices
  <2> HIDE DEF op
  <2> QED
    BY <1>2, <1>6, <2>1 DEF LeftFold
<1>8. Fold(Folded)
  <2> HIDE DEF Fold
  <2> QED
    BY <1>7
<1> HIDE DEF Folded
<1>9. Folded[{}] \in A /\ \A T \in SUBSET (1..Len(s)) :
         T # {} /\ Folded[T \ {Max(T)}] \in A => Folded[T] \in A
  BY <1>2, <1>3, <1>4, <1>8, MaxOfIndices
<1>10. Folded[1..Len(s)] \in A
  BY <1>2, <1>9, LeftFoldIn
<1> QED
  BY <1>1, <1>2, <1>10 DEF A

LEMMA UniqueOf ==
  ASSUME NEW X, NEW s \in Seq(X)
  PROVE  Unique(s) \in Seq(X)
<1> DEFINE Add(acc, p) == IF Contains(acc, p) THEN acc ELSE Append(acc, p)
           Fold(f) == f = [T \in SUBSET DOMAIN s |->
              IF T = {} THEN <<>> ELSE LET x == Max(T) IN Add(f[T \ {x}], s[x])]
           Folded == CHOOSE f : Fold(f)
           op == [q \in Seq(X) \X (1..Len(s)) |-> Add(q[1], s[q[2]])]
<1>1. Unique(s) = Folded[DOMAIN s]
  BY DEF Unique, FoldLeft, MapThenFoldSet
<1>2. DOMAIN s = 1..Len(s) /\ Len(s) \in Nat /\ \A i \in 1..Len(s) : s[i] \in X
  OBVIOUS
<1>3. \A acc \in Seq(X), p \in X : Add(acc, p) \in Seq(X)
  OBVIOUS
<1>4. <<>> \in Seq(X)
  OBVIOUS
<1> HIDE DEF Add
<1>5. op \in [Seq(X) \X (1..Len(s)) -> Seq(X)]
  BY <1>2, <1>3
<1>6. PICK f \in [SUBSET (1..Len(s)) -> Seq(X)] : LeftFold(f, Len(s), <<>>, op)
  <2> HIDE DEF op
  <2> QED
    BY <1>2, <1>4, <1>5, LeftFoldExists
<1>7. Fold(f)
  <2>1. \A T \in SUBSET (1..Len(s)) : T # {} =>
          op[<<f[T \ {Max(T)}], Max(T)>>] = Add(f[T \ {Max(T)}], s[Max(T)])
    BY <1>2, MaxOfIndices
  <2> HIDE DEF op
  <2> QED
    BY <1>2, <1>6, <2>1 DEF LeftFold
<1>8. Fold(Folded)
  <2> HIDE DEF Fold
  <2> QED
    BY <1>7
<1> HIDE DEF Folded
<1>9. Folded[{}] \in Seq(X) /\ \A T \in SUBSET (1..Len(s)) :
         T # {} /\ Folded[T \ {Max(T)}] \in Seq(X) => Folded[T] \in Seq(X)
  BY <1>2, <1>3, <1>4, <1>8, MaxOfIndices
<1>10. Folded[1..Len(s)] \in Seq(X)
  BY <1>2, <1>9, LeftFoldIn
<1> QED
  BY <1>1, <1>2, <1>10

LEMMA InOrderOf ==
  ASSUME NEW paths
  PROVE  InOrder(paths) \in Seq(paths)
<1> DEFINE s == Order
           Add(acc, p) == IF p \in paths THEN Append(acc, p) ELSE acc
           Fold(f) == f = [T \in SUBSET DOMAIN s |->
              IF T = {} THEN <<>> ELSE LET x == Max(T) IN Add(f[T \ {x}], s[x])]
           Folded == CHOOSE f : Fold(f)
           op == [q \in Seq(paths) \X (1..Len(s)) |-> Add(q[1], s[q[2]])]
<1>1. InOrder(paths) = Folded[DOMAIN s]
  BY DEF InOrder, FoldLeft, MapThenFoldSet
<1>2. DOMAIN s = 1..Len(s) /\ Len(s) \in Nat
  BY PromptContextAssumption DEF PromptContextAssumption
<1>3. \A acc \in Seq(paths) : \A p : Add(acc, p) \in Seq(paths)
  OBVIOUS
<1>4. <<>> \in Seq(paths)
  OBVIOUS
<1> HIDE DEF Add, s
<1>5. op \in [Seq(paths) \X (1..Len(s)) -> Seq(paths)]
  BY <1>2, <1>3
<1>6. PICK f \in [SUBSET (1..Len(s)) -> Seq(paths)] : LeftFold(f, Len(s), <<>>, op)
  <2> HIDE DEF op
  <2> QED
    BY <1>2, <1>4, <1>5, LeftFoldExists
<1>7. Fold(f)
  <2>1. \A T \in SUBSET (1..Len(s)) : T # {} =>
          op[<<f[T \ {Max(T)}], Max(T)>>] = Add(f[T \ {Max(T)}], s[Max(T)])
    BY <1>2, MaxOfIndices
  <2> HIDE DEF op
  <2> QED
    BY <1>2, <1>6, <2>1 DEF LeftFold
<1>8. Fold(Folded)
  <2> HIDE DEF Fold
  <2> QED
    BY <1>7
<1> HIDE DEF Folded
<1>9. Folded[{}] \in Seq(paths) /\ \A T \in SUBSET (1..Len(s)) :
         T # {} /\ Folded[T \ {Max(T)}] \in Seq(paths) => Folded[T] \in Seq(paths)
  BY <1>2, <1>3, <1>4, <1>8, MaxOfIndices
<1>10. Folded[1..Len(s)] \in Seq(paths)
  BY <1>2, <1>9, LeftFoldIn
<1> QED
  BY <1>1, <1>2, <1>10

----------------------------------------------------------------------------
(* The cache.  What is cached was on the disk no longer ago than the entry  *)
(* is old; what is on the disk now left it zero ticks ago.                  *)

CacheTyped ==
    /\ cache \in [Indexed -> [content : Contents \cup {"none"}, age : 0..TTL]]
    /\ since \in [Indexed -> [Contents -> 0..TTL]]
    /\ index \in [Indexed -> {"cases", "broken", "gone"}]

DiskIsNow == \A f \in Indexed : since[f][HeldBy(index[f])] = 0

NotOlder == \A f \in Indexed :
    cache[f].content # "none" => since[f][cache[f].content] <= cache[f].age

CacheInv == CacheTyped /\ DiskIsNow /\ NotOlder

LEMMA HeldByContents == \A state : HeldBy(state) \in Contents
  BY DEF HeldBy, Contents

LEMMA CacheInit == PromptInit => CacheInv
<1> SUFFICES ASSUME PromptInit PROVE CacheInv
  OBVIOUS
<1>1. /\ cache = [f \in Indexed |-> NoEntry]
      /\ index = [f \in Indexed |-> "cases"]
      /\ since = [f \in Indexed |-> [c \in Contents |-> IF c = "cases" THEN 0 ELSE TTL]]
  BY DEF PromptInit
<1>2. NoEntry \in [content : Contents \cup {"none"}, age : 0..TTL] /\ NoEntry.content = "none"
  BY PromptContextAssumption DEF NoEntry, PromptContextAssumption
<1>3. CacheTyped
  <2>1. cache \in [Indexed -> [content : Contents \cup {"none"}, age : 0..TTL]]
    BY <1>1, <1>2
  <2>2. since \in [Indexed -> [Contents -> 0..TTL]]
    BY <1>1, PromptContextAssumption DEF PromptContextAssumption
  <2>3. index \in [Indexed -> {"cases", "broken", "gone"}]
    BY <1>1
  <2> QED
    BY <2>1, <2>2, <2>3 DEF CacheTyped
<1>4. DiskIsNow
  BY <1>1 DEF DiskIsNow, HeldBy, Contents
<1>5. NotOlder
  BY <1>1, <1>2 DEF NotOlder
<1> QED
  BY <1>3, <1>4, <1>5 DEF CacheInv

\* The entry a look-up leaves is as young as what it holds.
LEMMA EntryNotOlder ==
  ASSUME CacheInv, NEW f \in Indexed
  PROVE  /\ EntryAfter(f) \in [content : Contents \cup {"none"}, age : 0..TTL]
         /\ EntryAfter(f).content # "none" =>
               since[f][EntryAfter(f).content] <= EntryAfter(f).age
<1>1. CASE Hit(f)
  BY <1>1 DEF CacheInv, CacheTyped, NotOlder, EntryAfter, LoadYamlCached
<1>2. CASE ~Hit(f)
  <2>1. LoadYamlFromDisk(f) = HeldBy(index[f])
    BY DEF LoadYamlFromDisk, HeldBy
  <2>2. EntryAfter(f) = [content |-> HeldBy(index[f]), age |-> 0]
    BY <1>2, <2>1 DEF EntryAfter, LoadYamlCached
  <2>3. HeldBy(index[f]) \in Contents /\ since[f][HeldBy(index[f])] = 0 /\ 0 \in 0..TTL
    BY HeldByContents, PromptContextAssumption
       DEF CacheInv, DiskIsNow, PromptContextAssumption
  <2> QED
    BY <2>2, <2>3
<1> QED
  BY <1>1, <1>2

LEMMA LookUpCache ==
  ASSUME CacheInv, Decide
  PROVE  CacheInv'
<1>1. index' = index /\ since' = since
  BY DEF Decide, disk
<1>2. PICK f : cache' = IF f \in Indexed /\ ReadsIndex(f, turn.words)
                        THEN [cache EXCEPT ![f] = EntryAfter(f)] ELSE cache
  BY DEF Decide, ReadsIndex
<1>3. CASE f \in Indexed /\ ReadsIndex(f, turn.words)
  BY <1>1, <1>2, <1>3, EntryNotOlder DEF CacheInv, CacheTyped, DiskIsNow, NotOlder
<1>4. CASE ~(f \in Indexed /\ ReadsIndex(f, turn.words))
  BY <1>1, <1>2, <1>4 DEF CacheInv, CacheTyped, DiskIsNow, NotOlder
<1> QED
  BY <1>3, <1>4

\* An entry that is dropped holds nothing.
LEMMA DropCache ==
  ASSUME CacheInv, index' = index, since' = since,
         ClearCache \/ \E f \in Indexed : InvalidateKey(f)
  PROVE  CacheInv'
<1>1. NoEntry \in [content : Contents \cup {"none"}, age : 0..TTL] /\ NoEntry.content = "none"
  BY PromptContextAssumption DEF NoEntry, PromptContextAssumption
<1>2. CASE ClearCache
  BY <1>1, <1>2 DEF ClearCache, CacheInv, CacheTyped, DiskIsNow, NotOlder
<1>3. CASE \E f \in Indexed : InvalidateKey(f)
  BY <1>1, <1>3 DEF InvalidateKey, CacheInv, CacheTyped, DiskIsNow, NotOlder
<1> QED
  BY <1>2, <1>3

LEMMA ReplaceCache ==
  ASSUME CacheInv, NEW f \in Indexed, NEW state \in {"cases", "broken", "gone"},
         Replace(f, state)
  PROVE  CacheInv'
<1> DEFINE old == HeldBy(index[f])  new == HeldBy(state)
<1>1. /\ cache' = cache /\ index' = [index EXCEPT ![f] = state]
      /\ since' = [since EXCEPT ![f][old] = 0, ![f][new] = 0]
  BY DEF Replace
<1>2. old \in Contents /\ new \in Contents
  BY HeldByContents
<1>3. \A g \in Indexed, c \in Contents : since'[g][c] \in {0, since[g][c]}
  BY <1>1, <1>2 DEF CacheInv, CacheTyped
<1>4. since'[f][new] = 0
  BY <1>1, <1>2 DEF CacheInv, CacheTyped
<1>5. since' \in [Indexed -> [Contents -> 0..TTL]]
  <2>1. 0 \in 0..TTL
    BY PromptContextAssumption DEF PromptContextAssumption
  <2> QED
    BY <1>1, <1>2, <2>1 DEF CacheInv, CacheTyped
<1>6. \A g \in Indexed : index'[g] = IF g = f THEN state ELSE index[g]
  BY <1>1 DEF CacheInv, CacheTyped
<1>7. CacheTyped'
  BY <1>1, <1>5 DEF CacheInv, CacheTyped
<1>8. DiskIsNow'
  <2> SUFFICES ASSUME NEW g \in Indexed PROVE since'[g][HeldBy(index'[g])] = 0
    BY DEF DiskIsNow, HeldBy
  <2>1. CASE g = f
    BY <1>4, <1>6, <2>1
  <2>2. CASE g # f
    <3>1. since[g][HeldBy(index[g])] = 0 /\ HeldBy(index[g]) \in Contents
      BY HeldByContents DEF CacheInv, DiskIsNow
    <3> QED
      BY <1>3, <1>6, <2>2, <3>1
  <2> QED
    BY <2>1, <2>2
<1>9. NotOlder'
  <2> SUFFICES ASSUME NEW g \in Indexed, cache[g].content # "none"
               PROVE  since'[g][cache[g].content] <= cache[g].age
    BY <1>1 DEF NotOlder
  <2>1. cache[g].content \in Contents /\ cache[g].age \in 0..TTL
    BY DEF CacheInv, CacheTyped
  <2>2. since[g][cache[g].content] <= cache[g].age
    BY DEF CacheInv, NotOlder
  <2> QED
    BY <1>3, <2>1, <2>2
<1> QED
  BY <1>7, <1>8, <1>9 DEF CacheInv

LEMMA TickCache ==
  ASSUME CacheInv, Tick
  PROVE  CacheInv'
<1>1. /\ index' = index
      /\ cache' = [f \in Indexed |-> [cache[f] EXCEPT !.age = Older(@)]]
      /\ since' = [f \in Indexed |-> [c \in Contents |->
                     IF c = HeldBy(index[f]) THEN 0 ELSE Older(since[f][c])]]
  BY DEF Tick
<1>2. \A m, n \in 0..TTL : Older(n) \in 0..TTL /\ (m <= n => Older(m) <= Older(n))
  BY PromptContextAssumption DEF Older, PromptContextAssumption
<1>3. CacheTyped'
  <2>1. cache' \in [Indexed -> [content : Contents \cup {"none"}, age : 0..TTL]]
    BY <1>1, <1>2 DEF CacheInv, CacheTyped
  <2>2. since' \in [Indexed -> [Contents -> 0..TTL]]
    <3>1. 0 \in 0..TTL
      BY PromptContextAssumption DEF PromptContextAssumption
    <3>2. \A f \in Indexed, c \in Contents : since[f][c] \in 0..TTL
      BY DEF CacheInv, CacheTyped
    <3> QED
      BY <1>1, <1>2, <3>1, <3>2
  <2>3. index' \in [Indexed -> {"cases", "broken", "gone"}]
    BY <1>1 DEF CacheInv, CacheTyped
  <2> QED
    BY <2>1, <2>2, <2>3 DEF CacheTyped
<1>4. DiskIsNow'
  <2> SUFFICES ASSUME NEW f \in Indexed PROVE since'[f][HeldBy(index'[f])] = 0
    BY DEF DiskIsNow, HeldBy
  <2> QED
    BY <1>1, HeldByContents
<1>5. NotOlder'
  <2> SUFFICES ASSUME NEW f \in Indexed, cache'[f].content # "none"
               PROVE  since'[f][cache'[f].content] <= cache'[f].age
    BY DEF NotOlder
  <2>1. cache[f].content \in Contents \cup {"none"} /\ cache[f].age \in 0..TTL
    BY DEF CacheInv, CacheTyped
  <2>2. cache'[f].content = cache[f].content /\ cache'[f].age = Older(cache[f].age)
    BY <1>1 DEF CacheInv, CacheTyped
  <2>3. since[f][cache[f].content] <= cache[f].age /\ since[f][cache[f].content] \in 0..TTL
    BY <2>1, <2>2 DEF CacheInv, CacheTyped, NotOlder
  <2>4. since'[f][cache[f].content] \in {0, Older(since[f][cache[f].content])}
    BY <1>1, <2>1, <2>2
  <2> QED
    BY <1>2, <2>1, <2>2, <2>3, <2>4
<1> QED
  BY <1>3, <1>4, <1>5 DEF CacheInv

LEMMA CacheNext == CacheInv /\ [PromptNext]_promptVars => CacheInv'
<1> SUFFICES ASSUME CacheInv, [PromptNext]_promptVars PROVE CacheInv'
  OBVIOUS
<1>1. CASE index' = index /\ since' = since /\ cache' = cache
  BY <1>1 DEF CacheInv, CacheTyped, DiskIsNow, NotOlder
<1>2. CASE \E msg \in Messages : SendFixedReply(msg)
  BY <1>1, <1>2 DEF SendFixedReply, disk
<1>3. CASE \E msg \in Messages, sig \in Signals : Begin(msg, sig)
  BY <1>1, <1>3 DEF Begin, disk
<1>4. CASE Decide
  BY <1>4, LookUpCache
<1>5. CASE TimeOut \/ Fail
  BY <1>1, <1>5 DEF TimeOut, Fail, disk
<1>6. CASE \E found \in PrimaryInterests \cup {""}, closes \in BOOLEAN : Update(found, closes)
  BY <1>1, <1>6 DEF Update, disk
<1>7. CASE Refresh
  BY <1>7, DropCache DEF Refresh, disk
<1>8. CASE Tick
  BY <1>8, TickCache
<1>9. CASE \E f \in Indexed, state \in {"cases", "broken", "gone"} : Replace(f, state)
  BY <1>9, ReplaceCache
<1>10. CASE \E absent \in SUBSET Removable : Restart(Paths \ absent)
  BY <1>10, DropCache DEF Restart
<1>11. CASE UNCHANGED promptVars
  BY <1>1, <1>11 DEF promptVars
<1> QED
  BY <1>2, <1>3, <1>4, <1>5, <1>6, <1>7, <1>8, <1>9, <1>10, <1>11 DEF PromptNext

\* Whatever is replaced, looked up, dropped or restarted in between, the cache answers with
\* what the disk held less than a TTL ago (load_yaml_cached of context_cache.py).
THEOREM CacheStaysFresh == PromptSpec => []FreshEnough
<1>1. CacheInv => FreshEnough
  BY DEF CacheInv, NotOlder, FreshEnough, Hit
<1> QED
  BY <1>1, CacheInit, CacheNext, PTL DEF PromptSpec

----------------------------------------------------------------------------
(* The contexts.  What a turn has loaded is of its vertical, and holds what *)
(* the session had of that vertical when the turn began.                   *)

\* Whatever an agent names is a file of the folder that is there.
Here(f) == {p \in present : p[1] = f}

LEMMA AgentFiles ==
  ASSUME NEW f, NEW words, NEW conf, NEW sig
  PROVE  /\ ObjectionAgent(f, words, conf) \in Seq(Here(f))
         /\ CaseAgent(f, words, sig) \in Seq(Here(f))
         /\ RoiAgent(f, words, sig) \in Seq(Here(f))
<1>1. ASSUME NEW name PROVE IfExists(<<f, name>>) \in Seq(Here(f))
  <2>1. CASE <<f, name>> \in present
    <3>1. <<f, name>> \in Here(f)
      BY <2>1 DEF Here
    <3> QED
      BY <2>1, <3>1 DEF IfExists, ContextExists
  <2>2. CASE <<f, name>> \notin present
    BY <2>2 DEF IfExists, ContextExists
  <2> QED
    BY <2>1, <2>2
<1>2. <<>> \in Seq(Here(f))
  OBVIOUS
<1> QED
  BY <1>1, <1>2 DEF ObjectionAgent, CaseAgent, RoiAgent

LEMMA MicroAgentFiles ==
  ASSUME NEW f, NEW words, NEW conf, NEW sig
  PROVE  RunPromptMicroAgents(f, words, conf, sig) \in Seq(Here(f))
<1> DEFINE o == ObjectionAgent(f, words, conf)
           c == CaseAgent(f, words, sig)
           r == RoiAgent(f, words, sig)
<1>1. RunPromptMicroAgents(f, words, conf, sig) \in {<<>>, o \o c \o r}
  BY DEF RunPromptMicroAgents
<1>2. o \in Seq(Here(f)) /\ c \in Seq(Here(f)) /\ r \in Seq(Here(f))
  BY AgentFiles
<1> HIDE DEF o, c, r
<1>3. o \o c \o r \in Seq(Here(f)) /\ <<>> \in Seq(Here(f))
  BY <1>2
<1> QED
  BY <1>1, <1>3

LEMMA MembersOf == ASSUME NEW X, NEW s \in Seq(X) PROVE ToSet(s) \subseteq X
  BY DEF ToSet

\* A turn of a vertical loads files of that vertical, and drops none that was loaded.
LEMMA LoadedOfFolder ==
  ASSUME NEW f, NEW words, NEW conf, NEW sig, NEW loaded,
         f # NoFolder
  PROVE  LET built == BuildFullPrompt(f, words, conf, sig, loaded)
         IN  /\ \A p \in built.loaded : p[1] = f
             /\ \A p \in loaded : p[1] = f => p \in built.loaded
<1> DEFINE extra == RunPromptMicroAgents(f, words, conf, sig)
           dynamic == ResolveDynamicContexts(f, words, conf, loaded)
<1>1. \A p \in ToSet(extra) : p[1] = f
  BY MicroAgentFiles, MembersOf DEF Here
<1>2. \A p \in dynamic.loaded : p[1] = f
  BY DEF ResolveDynamicContexts, FilterLoaded
<1>3. \A p \in loaded : p[1] = f => p \in dynamic.loaded
  BY DEF ResolveDynamicContexts, FilterLoaded
<1>4. BuildFullPrompt(f, words, conf, sig, loaded).loaded = dynamic.loaded \cup ToSet(extra)
  BY DEF BuildFullPrompt, MergedLoaded
<1> HIDE DEF extra, dynamic
<1> QED
  BY <1>1, <1>2, <1>3, <1>4

LEMMA NothingLoaded ==
  \A words, conf, sig, loaded : BuildFullPrompt(NoFolder, words, conf, sig, loaded).loaded = {}
  BY DEF BuildFullPrompt

Shapes ==
    /\ session = [vertical |-> session.vertical, contexts |-> session.contexts]
    /\ turn = [pc |-> turn.pc, words |-> turn.words, sig |-> turn.sig, intent |-> turn.intent,
               conf |-> turn.conf, loaded |-> turn.loaded, prompt |-> turn.prompt,
               again |-> turn.again]

Folder == NormalizeTenantIntent(turn.intent)

Named == \A p \in session.contexts \cup turn.loaded : p[1] # NoFolder

SessionOfOneVertical == \A p, q \in session.contexts : p[1] = q[1]

Carried == turn.pc \in {"decide", "call"} =>
    \A p \in session.contexts : p[1] = Folder => p \in turn.loaded

LoadedOfOneVertical == turn.pc = "call" => \A p \in turn.loaded : p[1] = Folder

ContextInv == Shapes /\ Named /\ SessionOfOneVertical /\ Carried /\ LoadedOfOneVertical

LEMMA FreshAndIdle ==
  /\ Fresh = [vertical |-> Fresh.vertical, contexts |-> Fresh.contexts]
  /\ Fresh.contexts = {}
  /\ Idle = [pc |-> Idle.pc, words |-> Idle.words, sig |-> Idle.sig, intent |-> Idle.intent,
             conf |-> Idle.conf, loaded |-> Idle.loaded, prompt |-> Idle.prompt,
             again |-> Idle.again]
  /\ Idle.pc = "idle" /\ Idle.loaded = {}
  BY DEF Fresh, Idle

LEMMA ContextInit == PromptInit => ContextInv
  BY FreshAndIdle
     DEF PromptInit, ContextInv, Shapes, Named, SessionOfOneVertical, Carried, LoadedOfOneVertical

LEMMA BeginContexts ==
  ASSUME ContextInv, NEW msg, NEW sig, Begin(msg, sig)
  PROVE  ContextInv'
<1>1. /\ session' = session
      /\ turn'.pc = "decide"
      /\ turn'.loaded = session.contexts
      /\ Shapes'
  BY DEF Begin, ContextInv, Shapes, Idle
<1> QED
  BY <1>1 DEF ContextInv, Named, SessionOfOneVertical, Carried, LoadedOfOneVertical

LEMMA DecideContexts ==
  ASSUME ContextInv, Decide
  PROVE  ContextInv'
<1> DEFINE built == BuildFullPrompt(Folder, turn.words, turn.conf, turn.sig, turn.loaded)
<1>1. /\ turn.pc = "decide" /\ session' = session
      /\ \/ turn' = [turn EXCEPT !.pc = "failed"]
         \/ \E prompt : turn' = [turn EXCEPT !.pc = "call", !.loaded = built.loaded,
                                             !.prompt = prompt]
  BY DEF Decide, Folder
<1>2. CASE turn' = [turn EXCEPT !.pc = "failed"]
  <2>1. Shapes' /\ turn'.pc = "failed" /\ turn'.loaded = turn.loaded
    BY <1>1, <1>2 DEF ContextInv, Shapes
  <2> QED
    BY <1>1, <2>1 DEF ContextInv, Named, SessionOfOneVertical, Carried, LoadedOfOneVertical
<1>3. ASSUME NEW prompt,
             turn' = [turn EXCEPT !.pc = "call", !.loaded = built.loaded, !.prompt = prompt]
      PROVE  ContextInv'
  <2>1. /\ Shapes' /\ turn'.pc = "call" /\ turn'.loaded = built.loaded
        /\ turn'.intent = turn.intent
    BY <1>1, <1>3 DEF ContextInv, Shapes
  <2>2. Folder' = Folder
    BY <2>1 DEF Folder, NormalizeTenantIntent
  <2>3. CASE Folder = NoFolder
    <3>1. built.loaded = {}
      BY <2>3, NothingLoaded
    <3> QED
      BY <1>1, <2>1, <2>2, <2>3, <3>1
         DEF ContextInv, Named, SessionOfOneVertical, Carried, LoadedOfOneVertical
  <2>4. CASE Folder # NoFolder
    <3>1. /\ \A p \in built.loaded : p[1] = Folder
          /\ \A p \in turn.loaded : p[1] = Folder => p \in built.loaded
      BY <2>4, LoadedOfFolder
    <3> HIDE DEF built
    <3> QED
      BY <1>1, <2>1, <2>2, <2>4, <3>1
         DEF ContextInv, Named, SessionOfOneVertical, Carried, LoadedOfOneVertical
  <2> QED
    BY <2>3, <2>4
<1> QED
  BY <1>1, <1>2, <1>3

LEMMA UpdateContexts ==
  ASSUME ContextInv, NEW found, NEW closes \in BOOLEAN, Update(found, closes)
  PROVE  ContextInv'
<1>1. /\ turn.pc = "call" /\ turn' = Idle
      /\ \/ session' = Fresh
         \/ session'.contexts = turn.loaded /\ Shapes'
  BY FreshAndIdle DEF Update, Shapes
<1> QED
  BY <1>1, FreshAndIdle
     DEF ContextInv, Shapes, Named, SessionOfOneVertical, Carried, LoadedOfOneVertical

LEMMA ContextNext == ContextInv /\ [PromptNext]_promptVars => ContextInv'
<1> SUFFICES ASSUME ContextInv, [PromptNext]_promptVars PROVE ContextInv'
  OBVIOUS
<1> USE DEF ContextInv, Shapes, Named, SessionOfOneVertical, Carried, LoadedOfOneVertical
<1>1. CASE session' = session /\ turn' = turn
  BY <1>1 DEF Folder, NormalizeTenantIntent
<1>2. CASE session' = session /\ turn' = Idle
  BY <1>2, FreshAndIdle
<1>3. ASSUME NEW msg, SendFixedReply(msg) PROVE ContextInv'
  <2>1. /\ turn' = turn /\ turn.pc = "idle"
        /\ \E v : session' = [session EXCEPT !.vertical = v]
    BY <1>3 DEF SendFixedReply
  <2> QED
    BY <2>1
<1>4. CASE \E msg \in Messages, sig \in Signals : Begin(msg, sig)
  BY <1>4, BeginContexts
<1>5. CASE Decide
  BY <1>5, DecideContexts
<1>6. CASE TimeOut
  <2>1. /\ session' = session /\ turn.pc = "call" /\ Shapes' /\ turn'.pc = "decide"
        /\ turn'.loaded = turn.loaded /\ turn'.intent = turn.intent
    BY <1>6 DEF TimeOut
  <2> QED
    BY <2>1 DEF Folder, NormalizeTenantIntent
<1>7. CASE Fail
  BY <1>2, <1>7 DEF Fail
<1>8. CASE \E found \in PrimaryInterests \cup {""}, closes \in BOOLEAN : Update(found, closes)
  BY <1>8, UpdateContexts
<1>9. CASE Refresh
  BY <1>1, <1>9 DEF Refresh
<1>10. CASE Tick
  BY <1>1, <1>10 DEF Tick
<1>11. CASE \E f \in Indexed, state \in {"cases", "broken", "gone"} : Replace(f, state)
  BY <1>1, <1>11 DEF Replace
<1>12. CASE \E absent \in SUBSET Removable : Restart(Paths \ absent)
  BY <1>2, <1>12 DEF Restart
<1>13. CASE UNCHANGED promptVars
  BY <1>1, <1>13 DEF promptVars
<1> QED
  BY <1>3, <1>4, <1>5, <1>6, <1>7, <1>8, <1>9, <1>10, <1>11, <1>12, <1>13 DEF PromptNext

LEMMA ContextAlways == PromptSpec => []ContextInv
  BY ContextInit, ContextNext, PTL DEF PromptSpec

\* A turn drops a context only with its vertical or with its session, whatever the agents
\* and the keywords load and however often the turn runs (resolve_dynamic_contexts).
THEOREM ContextsStay == PromptSpec => ContextsKept
<1> DEFINE Kept == turn.pc = "call" /\ turn'.pc = "idle" /\ session' # Fresh =>
                       \A p \in session.contexts : p[1] = Folder => p \in session'.contexts
<1>1. ContextInv /\ [PromptNext]_promptVars => [Kept]_promptVars
  <2> SUFFICES ASSUME ContextInv, PromptNext, turn.pc = "call", turn'.pc = "idle", session' # Fresh,
                      NEW p \in session.contexts, p[1] = Folder
               PROVE  p \in session'.contexts
    OBVIOUS
  <2>1. p \in turn.loaded
    BY DEF ContextInv, Carried
  <2>2. ASSUME NEW found, NEW closes \in BOOLEAN, Update(found, closes)
        PROVE  p \in session'.contexts
    BY <2>1, <2>2 DEF Update
  <2>3. CASE session' = session
    BY <2>3
  <2> QED
    BY <2>2, <2>3
       DEF PromptNext, SendFixedReply, Begin, Decide, TimeOut, Fail, Refresh, Tick, Replace, Restart
<1> QED
  BY <1>1, ContextAlways, PTL DEF PromptSpec, ContextsKept, Folder

\* The texts of a prompt are the core, what the session had loaded and what is there.
Sources(f, loaded) == {<<f, "core">>} \cup {p \in loaded \cup present : p[1] = f}

LEMMA ChunksOf ==
  ASSUME NEW f, NEW words, NEW conf, NEW sig, NEW loaded, f # NoFolder
  PROVE  BuildFullPrompt(f, words, conf, sig, loaded).chunks \in Seq(Sources(f, loaded))
<1> DEFINE extra == RunPromptMicroAgents(f, words, conf, sig)
           existing == FilterLoaded(loaded, f)
           injected == {p \in Paths : p[1] = f /\ ShouldInject(p, words, conf)}
           lasting == {p \in injected : Files[p].persist} \ existing
           passing == {p \in injected : ~Files[p].persist}
           core == <<<<f, "core">>>>
           X == Sources(f, loaded)
<1>1. BuildFullPrompt(f, words, conf, sig, loaded).chunks
        = core \o (InOrder(existing) \o InOrder(lasting) \o InOrder(passing \ existing)) \o extra
  BY DEF BuildFullPrompt, ResolveDynamicContexts
<1>2. existing \subseteq X /\ lasting \subseteq X /\ passing \ existing \subseteq X /\ Here(f) \subseteq X
  BY DEF FilterLoaded, ShouldInject, Sources, Here
<1>3. core \in Seq(X)
  BY DEF Sources
<1>4. extra \in Seq(Here(f))
  BY MicroAgentFiles
<1> HIDE DEF extra, existing, lasting, passing, core, X
<1>5. \A Y \in SUBSET X : Seq(Y) \subseteq Seq(X)
  OBVIOUS
<1>6. /\ InOrder(existing) \in Seq(X) /\ InOrder(lasting) \in Seq(X)
      /\ InOrder(passing \ existing) \in Seq(X) /\ extra \in Seq(X)
  BY <1>2, <1>4, <1>5, InOrderOf
<1>7. \A s, t \in Seq(X) : s \o t \in Seq(X)
  OBVIOUS
<1>8. InOrder(existing) \o InOrder(lasting) \o InOrder(passing \ existing) \in Seq(X)
  BY <1>6, <1>7
<1>9. core \o (InOrder(existing) \o InOrder(lasting) \o InOrder(passing \ existing)) \o extra
        \in Seq(X)
  BY <1>3, <1>6, <1>7, <1>8
<1> QED
  BY <1>1, <1>9 DEF X

\* A prompt that could be put together is cut from files of its vertical.
LEMMA PromptFiles ==
  ASSUME NEW f, NEW words, NEW conf, NEW sig, NEW loaded, present \subseteq Paths,
         NEW chunks, chunks = BuildFullPrompt(f, words, conf, sig, loaded).chunks,
         \A p \in ToSet(chunks) : Loadable(p)
  PROVE  \A p \in ToSet(FormatOttoPrompt(BuildTenantContext(chunks))) : p[1] = f
<1>1. chunks \in Seq(Here(f))
  <2>1. CASE f = NoFolder
    BY <2>1 DEF BuildFullPrompt
  <2>2. CASE f # NoFolder
    <3>1. chunks \in Seq(Sources(f, loaded))
      BY <2>2, ChunksOf
    <3>2. \A i \in 1..Len(chunks) : chunks[i] \in Sources(f, loaded) /\ chunks[i] \in present
      BY <3>1 DEF ToSet, Loadable
    <3>3. \A i \in 1..Len(chunks) : chunks[i] \in Here(f)
      BY <3>2 DEF Sources, Here
    <3> QED
      BY <3>1, <3>3
  <2> QED
    BY <2>1, <2>2
<1>2. Here(f) \in SUBSET Paths
  BY DEF Here
<1>3. Unique(chunks) \in Seq(Here(f))
  BY <1>1, UniqueOf
<1>4. BuildTenantContext(chunks) \in Seq(Here(f))
  BY <1>2, <1>3, WithinOf DEF BuildTenantContext
<1>5. FormatOttoPrompt(BuildTenantContext(chunks)) \in Seq(Here(f))
  BY <1>2, <1>4, WithinOf DEF FormatOttoPrompt
<1> QED
  BY <1>5, MembersOf DEF Here

PromptOfOneVertical == turn.pc = "call" => \A p \in ToSet(turn.prompt) : p[1] = Folder

PromptInv == present \subseteq Paths /\ PromptOfOneVertical /\ FailsOnlyWhenGone

LEMMA PromptInvInit == PromptInit => PromptInv
  BY FreshAndIdle DEF PromptInit, PromptInv, PromptOfOneVertical, FailsOnlyWhenGone

LEMMA DecidePrompt ==
  ASSUME ContextInv, PromptInv, Decide
  PROVE  PromptInv'
<1> DEFINE built == BuildFullPrompt(Folder, turn.words, turn.conf, turn.sig, turn.loaded)
           prompt == FormatOttoPrompt(BuildTenantContext(built.chunks))
<1>1. /\ turn.pc = "decide" /\ present' = present
      /\ turn' = IF \E p \in ToSet(built.chunks) : ~Loadable(p) THEN [turn EXCEPT !.pc = "failed"]
                 ELSE [turn EXCEPT !.pc = "call", !.loaded = built.loaded, !.prompt = prompt]
  BY DEF Decide, Folder, disk
<1>2. turn'.intent = turn.intent
  BY <1>1 DEF ContextInv, Shapes
<1>3. Folder' = Folder
  BY <1>2 DEF Folder, NormalizeTenantIntent
<1>4. ASSUME NEW p \in ToSet(built.chunks), ~Loadable(p) PROVE PromptInv'
  <2>1. turn'.pc = "failed" /\ turn'.loaded = turn.loaded
    BY <1>1, <1>4 DEF ContextInv, Shapes
  <2>2. Folder # NoFolder
    <3>1. Folder = NoFolder => built.chunks = <<>>
      BY DEF BuildFullPrompt
    <3> HIDE DEF built
    <3> QED
      BY <1>4, <3>1 DEF ToSet
  <2>3. built.chunks \in Seq(Sources(Folder, turn.loaded))
    BY <2>2, ChunksOf
  <2> HIDE DEF built
  <2>4. p \in Sources(Folder, turn.loaded)
    BY <1>4, <2>3, MembersOf
  <2>5. p \in turn.loaded \cup {<<Folder, "core">>} /\ p \notin present
    BY <1>4, <2>4 DEF Sources, Loadable
  <2>6. FailsOnlyWhenGone'
    BY <1>1, <1>3, <2>1, <2>5 DEF FailsOnlyWhenGone, Folder
  <2> QED
    BY <1>1, <2>1, <2>6 DEF PromptInv, PromptOfOneVertical
<1>5. CASE \A p \in ToSet(built.chunks) : Loadable(p)
  <2>1. \A p \in ToSet(prompt) : p[1] = Folder
    BY <1>5, PromptFiles DEF PromptInv
  <2> HIDE DEF prompt
  <2>2. turn'.pc = "call" /\ turn'.prompt = prompt
    BY <1>1, <1>5 DEF ContextInv, Shapes
  <2> QED
    BY <1>1, <1>3, <2>1, <2>2 DEF PromptInv, PromptOfOneVertical, FailsOnlyWhenGone
<1> QED
  BY <1>4, <1>5

LEMMA PromptInvNext == ContextInv /\ PromptInv /\ [PromptNext]_promptVars => PromptInv'
<1> SUFFICES ASSUME ContextInv, PromptInv, [PromptNext]_promptVars PROVE PromptInv'
  OBVIOUS
<1> USE DEF PromptInv, PromptOfOneVertical, FailsOnlyWhenGone, Folder, NormalizeTenantIntent
<1>1. CASE turn' = turn /\ present' = present
  BY <1>1
<1>2. CASE turn'.pc \in {"idle", "decide"} /\ present' \subseteq Paths
  BY <1>2
<1>3. CASE \E msg \in Messages : SendFixedReply(msg)
  BY <1>1, <1>3 DEF SendFixedReply, disk
<1>4. CASE \E msg \in Messages, sig \in Signals : Begin(msg, sig)
  BY <1>2, <1>4 DEF Begin, disk, Idle
<1>5. CASE Decide
  BY <1>5, DecidePrompt
<1>6. CASE TimeOut \/ Fail
  BY <1>2, <1>6, FreshAndIdle DEF TimeOut, Fail, disk, ContextInv, Shapes
<1>7. CASE \E found \in PrimaryInterests \cup {""}, closes \in BOOLEAN : Update(found, closes)
  BY <1>2, <1>7, FreshAndIdle DEF Update, disk
<1>8. CASE Refresh \/ Tick
  BY <1>1, <1>8 DEF Refresh, Tick, disk
<1>9. CASE \E f \in Indexed, state \in {"cases", "broken", "gone"} : Replace(f, state)
  BY <1>1, <1>9 DEF Replace
<1>10. CASE \E absent \in SUBSET Removable : Restart(Paths \ absent)
  BY <1>2, <1>10, FreshAndIdle DEF Restart
<1>11. CASE UNCHANGED promptVars
  BY <1>1, <1>11 DEF promptVars
<1> QED
  BY <1>3, <1>4, <1>5, <1>6, <1>7, <1>8, <1>9, <1>10, <1>11 DEF PromptNext

LEMMA PromptAlways == PromptSpec => []PromptInv
  BY PromptInvInit, PromptInvNext, ContextAlways, PTL DEF PromptSpec

\* What a session keeps and what goes into a prompt is of one vertical, the one of the turn
\* (_filter_loaded_contexts, build_full_prompt), for any files, agents and limits.
THEOREM OneVerticalAlways == PromptSpec => []OneVertical
<1>1. ContextInv /\ PromptInv => OneVertical
  BY DEF ContextInv, SessionOfOneVertical, LoadedOfOneVertical, PromptInv, PromptOfOneVertical,
         OneVertical, Folder
<1> QED
  BY <1>1, ContextAlways, PromptAlways, PTL

\* A turn fails for a missing file only if that is the core of its vertical or one the
\* session had loaded (prompt_micro_agents_agents.py), for any files, indexes and releases.
THEOREM FailsForTheGone == PromptSpec => []FailsOnlyWhenGone
<1>1. PromptInv => FailsOnlyWhenGone
  BY DEF PromptInv
<1> QED
  BY <1>1, PromptAlways, PTL

----------------------------------------------------------------------------
(* The lead.  In an orderly run every card in Redis or in the hands of the  *)
(* handler knows at least what the lead in Firestore and the lead on its way *)
(* know: that is why a write can only add to it.                            *)

\* c knows every field that l knows.
Knows(c, l) ==
    /\ l.email # Unknown => c.email # Unknown
    /\ l.interest # Unknown => c.interest # Unknown

Sent == leads \cup {lead}

Bears(s) == s.some /\ s.card # NoCard

\* The card of a session knows all that was sent to Firestore.
Covers(s) == Bears(s) => Valid(s.card) /\ \A l \in Sent : Knows(s.card, l)

LeadsSent ==
    /\ \A l \in Sent : Valid(l)
    /\ \A l \in leads : Knows(l, lead)
    /\ \A l, m \in leads : l = m
    /\ ~lead.some => lead.email = Unknown /\ lead.interest = Unknown
    /\ \A l \in leads : l.some
    /\ ~wired => lead = NoLead /\ leads = {}

LeadInv == orderly => LeadsSent /\ Covers(stored) /\ Covers(held)

----------------------------------------------------------------------------
(* Cards.                                                                  *)

LEMMA CardFields ==
  \A a, b : Card(a, b).email = a /\ Card(a, b).interest = b /\ Card(a, b).some /\ Card(a, b) # NoCard
<1> SUFFICES ASSUME NEW a, NEW b
             PROVE  /\ Card(a, b).email = a /\ Card(a, b).interest = b /\ Card(a, b).some
                    /\ Card(a, b) # NoCard
  OBVIOUS
<1>1. Card(a, b).email = a /\ Card(a, b).interest = b /\ Card(a, b).some
  BY DEF Card
<1>2. ~NoCard.some
  BY DEF NoCard, BareCard, Card
<1> QED
  BY <1>1, <1>2

LEMMA NoCardFields == NoCard.email = Unknown /\ NoCard.interest = Unknown /\ ~NoCard.some
  BY DEF NoCard, BareCard, Card

LEMMA BareCardFields == BareCard.email = Unknown /\ BareCard.interest = Unknown
  BY DEF BareCard, Card

\* What a session of a recovery starts with knows the lead it was made of.
LEMMA RecoveredCard ==
  ASSUME NEW l, NEW msgs, NEW whatsapp \in BOOLEAN, Valid(l),
         ~l.some => l.email = Unknown /\ l.interest = Unknown,
         NEW c, c = CreateWithRecovery(l, msgs, whatsapp).card, c # NoCard
  PROVE  Valid(c) /\ Knows(c, l)
<1>1. ~RecoveryRaises(l, whatsapp)
  BY DEF RecoveryRaises, Valid
<1>2. c = IF BuildContactCardFromLead(l, whatsapp) = NoCard /\ whatsapp
          THEN BareCard ELSE BuildContactCardFromLead(l, whatsapp)
  BY <1>1 DEF CreateWithRecovery
<1>4. CASE l.some /\ whatsapp
  <2>1. PICK i : /\ BuildContactCardFromLead(l, whatsapp) = Card(l.email, i)
                 /\ i = IF l.interest \in ALLOWED_PRIMARY_INTERESTS
                        THEN l.interest ELSE Unknown
    BY <1>4 DEF BuildContactCardFromLead, CardFromLead
  <2>2. c = Card(l.email, i)
    BY <1>2, <2>1, CardFields
  <2>3. i = l.interest
    BY <2>1 DEF Valid
  <2>4. c.email = l.email /\ c.interest = l.interest
    BY <2>2, <2>3, CardFields
  <2> QED
    BY <2>4 DEF Valid, Knows
<1>5. CASE ~(l.some /\ whatsapp)
  <2>1. BuildContactCardFromLead(l, whatsapp) = NoCard
    BY <1>5 DEF BuildContactCardFromLead
  <2>2. whatsapp /\ c = BareCard
    BY <1>2, <2>1
  <2>3. l.email = Unknown /\ l.interest = Unknown
    BY <1>5, <2>2
  <2>4. c.email = Unknown /\ c.interest = Unknown
    BY <2>2, BareCardFields
  <2> QED
    BY <2>3, <2>4 DEF Valid, Knows
<1> QED
  BY <1>4, <1>5

----------------------------------------------------------------------------
(* Sessions.                                                               *)

Session(s) == s = [history |-> s.history, card |-> s.card, closed |-> s.closed, some |-> s.some]

LEMMA NoSessionIs == Session(NoSession) /\ ~NoSession.some
  BY DEF Session, NoSession

LEMMA CreatedIs ==
  ASSUME NEW l, NEW msgs, NEW whatsapp
  PROVE  Session(CreateWithRecovery(l, msgs, whatsapp))
  BY DEF Session, CreateWithRecovery

Sessions == Session(stored) /\ Session(held)

LEMMA SessionsStay == Sessions /\ [Next]_vars => Sessions'
<1> SUFFICES ASSUME Sessions, [Next]_vars PROVE Sessions'
  OBVIOUS
<1> USE DEF Sessions, Session
<1>1. CASE Resume
  BY <1>1 DEF Resume, FromDict
<1>2. ASSUME NEW whatsapp \in BOOLEAN, Create(whatsapp) PROVE Sessions'
  BY <1>2, CreatedIs DEF Create
<1>3. ASSUME NEW size \in Sizes, AddMessage(size) PROVE Sessions'
  BY <1>3, NoSessionIs DEF AddMessage, Saved
<1>4. ASSUME NEW size \in Sizes, NEW reply \in Sizes, NEW closes \in BOOLEAN,
             UpdateSession(size, reply, closes)
      PROVE  Sessions'
  BY <1>4, NoSessionIs DEF UpdateSession, Saved
<1>5. ASSUME NEW email, NEW aim, UpdateContactCard(email, aim) PROVE Sessions'
  BY <1>5, NoSessionIs DEF UpdateContactCard, Saved
<1>6. CASE Close \/ Release \/ Expire \/ Crash
  BY <1>6, NoSessionIs DEF Close, Release, Expire, Crash
<1>7. CASE \/ \E n \in messages : AppendMessage(n) \/ LoseMessage(n)
           \/ \E l \in leads : UpsertLead(l) \/ LoseLead(l)
           \/ UNCHANGED vars
  BY <1>7 DEF AppendMessage, LoseMessage, UpsertLead, LoseLead, vars
<1> QED
  BY <1>1, <1>2, <1>3, <1>4, <1>5, <1>6, <1>7 DEF Next

----------------------------------------------------------------------------
(* The steps.                                                              *)

Inv == Sessions /\ LeadInv

LEMMA LeadInit == Init => Inv
<1> SUFFICES ASSUME Init PROVE Inv
  OBVIOUS
<1>1. lead = NoCard /\ leads = {} /\ stored = NoSession /\ held = NoSession
  BY DEF Init, NoLead
<1>2. LeadsSent
  BY <1>1, NoCardFields DEF LeadsSent, Sent, Valid, NoLead
<1> QED
  BY <1>1, <1>2, NoSessionIs DEF Inv, LeadInv, Covers, Bears, Sessions

\* A step that sends nothing has only to keep what the sessions know.
LEMMA NothingSent ==
  ASSUME LeadInv, orderly' = orderly, wired' = wired, leads' = leads, lead' = lead,
         orderly => /\ Covers(stored) /\ Covers(held) => Covers(stored') /\ Covers(held')
  PROVE  LeadInv'
  BY DEF LeadInv, LeadsSent, Covers, Sent, Bears

LEMMA CreateLead ==
  ASSUME Inv, NEW whatsapp \in BOOLEAN, Create(whatsapp)
  PROVE  LeadInv'
<1>1. /\ orderly' = orderly /\ wired' = wired /\ leads' = leads /\ lead' = lead
      /\ stored' = held'
      /\ orderly => leads = {}
  BY DEF Create, chosen, Settled
<1> SUFFICES ASSUME orderly, LeadsSent PROVE Covers(held')
  BY <1>1, NothingSent DEF Inv, LeadInv
<1>2. PICK msgs : held' = CreateWithRecovery(lead, msgs, whatsapp)
  BY DEF Create, LeadsSent
<1>3. held'.card # NoCard => Valid(held'.card) /\ Knows(held'.card, lead)
  BY <1>2, RecoveredCard DEF LeadsSent, Sent
<1> QED
  BY <1>1, <1>3 DEF Covers, Bears, Sent

LEMMA SaveLead ==
  ASSUME Inv, NEW s, Saved(s), s.card = held.card, s.some = held.some,
         orderly' = orderly, wired' = wired, leads' = leads, lead' = lead
  PROVE  LeadInv'
<1>1. orderly => stored' = s /\ held' = s
  BY DEF Saved
<1>2. Covers(held) => Covers(s)
  BY DEF Covers, Bears
<1> QED
  BY <1>1, <1>2, NothingSent DEF Inv, LeadInv

LEMMA UpdateLead ==
  ASSUME Inv, NEW email, NEW aim, UpdateContactCard(email, aim)
  PROVE  LeadInv'
<1> SUFFICES ASSUME orderly PROVE LeadsSent' /\ Covers(stored)' /\ Covers(held)'
  BY DEF UpdateContactCard, chosen, LeadInv
<1> DEFINE c == Card(Given(email, held.card.email), Given(aim, held.card.interest))
           s == [held EXCEPT !.card = c]
<1>1. /\ held.some /\ held.card # NoCard /\ leads = {}
      /\ email \in WellFormed \cup {Unknown}
      /\ aim \in ALLOWED_PRIMARY_INTERESTS \cup {Unknown}
      /\ wired' = wired /\ lead' = lead /\ stored' = s /\ held' = s
  BY DEF UpdateContactCard, Settled, Saved, chosen
<1>2. Valid(held.card) /\ Knows(held.card, lead) /\ LeadsSent
  BY <1>1 DEF Inv, LeadInv, Covers, Bears, Sent
<1>3. s.card = c /\ s.some
  BY <1>1 DEF Inv, Sessions, Session
<1>4. leads' = IF wired THEN {c} ELSE {}
  BY <1>1, <1>3 DEF UpdateContactCard
<1>5. /\ c.email = Given(email, held.card.email)
      /\ c.interest = Given(aim, held.card.interest)
      /\ c.some
  BY CardFields
<1> HIDE DEF c, s
<1>6. Valid(c)
  BY <1>1, <1>2, <1>5 DEF Valid, Given
<1>7. Knows(c, lead) /\ Knows(c, c)
  BY <1>2, <1>5 DEF Knows, Given
<1>8. LeadsSent'
  BY <1>1, <1>2, <1>4, <1>5, <1>6, <1>7 DEF LeadsSent, Sent
<1>9. \A l \in Sent' : Knows(c, l)
  BY <1>1, <1>4, <1>7 DEF Sent
<1> QED
  BY <1>1, <1>3, <1>6, <1>8, <1>9 DEF Covers

LEMMA UpsertedLead ==
  ASSUME Inv, NEW l \in leads, UpsertLead(l)
  PROVE  LeadInv'
<1> SUFFICES ASSUME orderly PROVE LeadsSent' /\ Covers(stored)' /\ Covers(held)'
  BY DEF UpsertLead, chosen, LeadInv
<1>1. /\ lead' = l /\ leads' = {} /\ wired' = wired /\ stored' = stored /\ held' = held
      /\ LeadsSent
  BY DEF Inv, LeadInv, LeadsSent, UpsertLead, chosen
<1>2. LeadsSent'
  BY <1>1 DEF LeadsSent, Sent
<1>3. Sent' \subseteq Sent
  BY <1>1 DEF Sent
<1> QED
  BY <1>1, <1>2, <1>3 DEF Inv, LeadInv, Covers, Bears

LEMMA LeadNext == Inv /\ [Next]_vars => Inv'
<1> SUFFICES ASSUME Inv, [Next]_vars PROVE LeadInv'
  BY SessionsStay DEF Inv
<1> DEFINE Still == orderly' = orderly /\ wired' = wired /\ leads' = leads /\ lead' = lead
<1>1. CASE Resume
  <2>1. Still /\ stored' = stored
    BY <1>1 DEF Resume, chosen
  <2>2. held' = stored \/ held'.card = NoCard
    BY <1>1 DEF Resume, FromDict, Inv, Sessions, Session
  <2> QED
    BY <2>1, <2>2, NothingSent DEF Inv, Covers, Bears
<1>2. ASSUME NEW whatsapp \in BOOLEAN, Create(whatsapp) PROVE LeadInv'
  BY <1>2, CreateLead
<1>3. ASSUME NEW size \in Sizes, AddMessage(size) PROVE LeadInv'
  <2>1. /\ Still
        /\ Saved([held EXCEPT !.history = Trimmed(Append(@, Len(said'))) ])
    BY <1>3 DEF AddMessage, chosen
  <2> QED
    BY <2>1, SaveLead DEF Inv, Sessions, Session
<1>4. ASSUME NEW size \in Sizes, NEW reply \in Sizes, NEW closes \in BOOLEAN,
             UpdateSession(size, reply, closes)
      PROVE  LeadInv'
  <2>1. /\ Still
        /\ \E h : Saved([held EXCEPT !.history = h, !.closed = closes])
    BY <1>4 DEF UpdateSession, chosen
  <2> QED
    BY <2>1, SaveLead DEF Inv, Sessions, Session
<1>5. ASSUME NEW email, NEW aim, UpdateContactCard(email, aim) PROVE LeadInv'
  BY <1>5, UpdateLead
<1>6. CASE Close \/ Release \/ Expire
  <2>1. Still /\ stored' \in {stored, NoSession} /\ held' \in {held, NoSession}
    BY <1>6 DEF Close, Release, Expire, chosen
  <2> QED
    BY <2>1, NothingSent, NoSessionIs DEF Inv, Covers, Bears
<1>7. CASE Crash
  <2>1. /\ orderly' = orderly /\ wired' = wired /\ leads' = {} /\ lead' = lead
        /\ stored' = stored /\ held' = NoSession
    BY <1>7 DEF Crash, chosen
  <2> QED
    BY <2>1, NoSessionIs DEF Inv, LeadInv, LeadsSent, Covers, Bears, Sent
<1>8. ASSUME NEW n \in messages, AppendMessage(n) \/ LoseMessage(n) PROVE LeadInv'
  <2>1. Still /\ stored' = stored /\ held' = held
    BY <1>8 DEF AppendMessage, LoseMessage, chosen
  <2> QED
    BY <2>1, NothingSent DEF Inv
<1>9. ASSUME NEW l \in leads, UpsertLead(l) PROVE LeadInv'
  BY <1>9, UpsertedLead
<1>10. ASSUME NEW l \in leads, LoseLead(l) PROVE LeadInv'
  BY <1>10 DEF LoseLead, chosen, LeadInv
<1>11. CASE UNCHANGED vars
  <2>1. Still /\ stored' = stored /\ held' = held
    BY <1>11 DEF vars, chosen
  <2> QED
    BY <2>1, NothingSent DEF Inv
<1> QED
  BY <1>2, <1>1, <1>3, <1>4, <1>5, <1>6, <1>7, <1>8, <1>9, <1>10, <1>11 DEF Next

\* In an orderly run no write, by whatever sessions, recoveries and crashes it is preceded,
\* takes from Firestore what it knew of a lead (update_contact_card, manager_storage.py).
THEOREM LeadIsKept == Spec => OrderlyLeadKept
<1> DEFINE Kept == orderly => \A field \in {"email", "interest"} :
                       lead[field] # Unknown => lead'[field] # Unknown
<1>1. Inv /\ [Next]_vars => [Kept]_vars
  <2> SUFFICES ASSUME Inv, Next, orderly PROVE Kept
    OBVIOUS
  <2>1. ASSUME NEW l \in leads, UpsertLead(l) PROVE Kept
    BY <2>1 DEF UpsertLead, Inv, LeadInv, LeadsSent, Knows
  <2>2. CASE lead' = lead
    BY <2>2
  <2> QED
    BY <2>1, <2>2 DEF Next, Resume, Create, AddMessage, UpdateSession, UpdateContactCard,
                      Close, Release, AppendMessage, LoseMessage, LoseLead, Expire, Crash
<1> QED
  BY <1>1, LeadInit, LeadNext, PTL DEF Spec, OrderlyLeadKept

----------------------------------------------------------------------------
(* The history.  Messages are numbered as they are said: what is logged, on *)
(* its way or in a history has a number that was given, and a history goes  *)
(* up.  Only the key of the tenant has a log, and only with a store.        *)

History(h, n) == h \in Seq(1..n) /\ Ascends(h)

Logged ==
    /\ said \in Seq(Sizes)
    /\ messages \subseteq 1..Len(said)
    /\ log \in [Keys -> SUBSET (1..Len(said))]
    /\ \A k \in Keys \ {KeyToWrite} : log[k] = {}
    /\ ~wired => messages = {} /\ log[KeyToWrite] = {}
    /\ tenant \in Tenants

Histories == History(held.history, Len(said)) /\ History(stored.history, Len(said))

HistoryInv == Sessions /\ Logged /\ Histories

LEMMA KeysAreKeys == ASSUME tenant \in Tenants PROVE KeyToWrite \in Keys /\ KeyToRead \in Keys
  BY DEF KeyToWrite, KeyToRead, Keys

LEMMA SeqOfPart == \A S, T, s : S \subseteq T /\ s \in Seq(S) => s \in Seq(T)
<1> SUFFICES ASSUME NEW S, NEW T, NEW s, S \subseteq T, s \in Seq(S) PROVE s \in Seq(T)
  OBVIOUS
<1>1. Len(s) \in Nat /\ DOMAIN s = 1..Len(s) /\ \A i \in 1..Len(s) : s[i] \in T
  BY ElementOfSeq, LenProperties
<1>2. s = [i \in 1..Len(s) |-> s[i]]
  BY LenProperties
<1> QED
  BY <1>1, <1>2, IsASeq

LEMMA OrderedIs ==
  ASSUME NEW n \in Nat, NEW set \in SUBSET (1..n)
  PROVE  /\ History(Ordered(set), n) /\ ToSet(Ordered(set)) = set
         /\ Len(Ordered(set)) = Cardinality(set)
<1>1. IsFiniteSet(1..n)
  BY FS_Interval
<1>2. IsFiniteSet(set)
  BY <1>1, FS_Subset
<1>3. \E s \in SetToSeqs(set) : Ascends(s)
  <2>1. set \in SUBSET Nat
    OBVIOUS
  <2> QED
    BY <1>2, <2>1, AscendingExists
<1>4. Ordered(set) \in SetToSeqs(set) /\ Ascends(Ordered(set))
  BY <1>3 DEF Ordered, Ascends
<1>5. /\ Ordered(set) \in Seq(set) /\ Len(Ordered(set)) = Cardinality(set)
      /\ ToSet(Ordered(set)) = set
  BY <1>2, <1>4, SetToSeqsIs
<1>6. Ordered(set) \in Seq(1..n)
  BY <1>5, SeqOfPart
<1> QED
  BY <1>4, <1>5, <1>6 DEF History

\* Nothing is cut off where there is no more than the limit.
LEMMA WholeLog ==
  ASSUME NEW n \in Nat, NEW set \in SUBSET (1..n), NEW limit \in Nat, Cardinality(set) <= limit
  PROVE  ToSet(FirstOf(Ordered(set), limit)) = set
<1>1. /\ ToSet(Ordered(set)) = set /\ Len(Ordered(set)) = Cardinality(set)
      /\ Ordered(set) \in Seq(1..n)
  BY OrderedIs DEF History
<1> DEFINE s == Ordered(set)
<1> HIDE DEF s
<1>2. s \in Seq(1..n) /\ Len(s) \in Nat /\ Len(s) <= limit
  BY <1>1, LenProperties DEF s
<1>3. (IF limit < Len(s) THEN limit ELSE Len(s)) = Len(s)
  BY <1>2
<1>4. FirstOf(s, limit) = SubSeq(s, 1, Len(s))
  BY <1>3 DEF FirstOf
<1>5. SubSeq(s, 1, Len(s)) = s
  BY <1>2
<1>6. FirstOf(s, limit) = s
  BY <1>4, <1>5
<1> QED
  BY <1>1, <1>6 DEF s

LEMMA NothingLogged == ToSet(<<>>) = {}
  BY DEF ToSet

\* The first and the last of a history are a history, and so is one with a new message.
LEMMA PartOfHistory ==
  ASSUME NEW m \in Nat, NEW h, History(h, m), NEW n \in Nat
  PROVE  History(FirstOf(h, n), m) /\ History(LastOf(h, n), m)
<1>1. h \in Seq(1..m) /\ Len(h) \in Nat /\ \A i, j \in 1..Len(h) : i < j => h[i] < h[j]
  BY DEF History, Ascends
<1>2. ASSUME NEW i \in 1..(Len(h) + 1), NEW j \in 0..Len(h)
      PROVE  History(SubSeq(h, i, j), m)
  <2> DEFINE part == SubSeq(h, i, j)
             length == IF i <= j THEN j - i + 1 ELSE 0
  <2>1. /\ part \in Seq(1..m) /\ Len(part) = length
        /\ \A k \in 1..length : part[k] = h[i + k - 1]
    BY <1>1, <1>2, SubSeqProperties
  <2>2. /\ length \in Nat
        /\ \A k \in 1..length : i + k - 1 \in 1..Len(h)
        /\ \A k, l \in 1..length : k < l => i + k - 1 < i + l - 1
    BY <1>1, <1>2
  <2> HIDE DEF part, length
  <2>3. DOMAIN part = 1..length
    BY <2>1
  <2>4. Ascends(part)
    BY <1>1, <2>1, <2>2, <2>3 DEF Ascends
  <2>5. History(part, m)
    BY <2>1, <2>4 DEF History
  <2> QED
    BY <2>5 DEF part
<1>3. History(FirstOf(h, n), m)
  <2> DEFINE j == IF n < Len(h) THEN n ELSE Len(h)
  <2>1. 1 \in 1..(Len(h) + 1) /\ j \in 0..Len(h)
    BY <1>1
  <2>2. FirstOf(h, n) = SubSeq(h, 1, j)
    BY DEF FirstOf
  <2> HIDE DEF j
  <2> QED
    BY <1>2, <2>1, <2>2
<1>4. History(LastOf(h, n), m)
  <2> DEFINE i == IF n < Len(h) THEN Len(h) - n + 1 ELSE 1
  <2>1. i \in 1..(Len(h) + 1) /\ Len(h) \in 0..Len(h)
    BY <1>1
  <2>2. LastOf(h, n) = SubSeq(h, i, Len(h))
    BY DEF LastOf
  <2> HIDE DEF i
  <2> QED
    BY <1>2, <2>1, <2>2
<1> QED
  BY <1>3, <1>4

LEMMA LongerHistory ==
  ASSUME NEW n \in Nat, NEW h, History(h, n)
  PROVE  History(h, n + 1) /\ History(Append(h, n + 1), n + 1)
<1>1. /\ h \in Seq(1..n) /\ h \in Seq(1..(n + 1)) /\ Append(h, n + 1) \in Seq(1..(n + 1))
      /\ \A i, j \in 1..Len(h) : i < j => h[i] < h[j]
  BY DEF History, Ascends
<1>2. /\ DOMAIN Append(h, n + 1) = 1..(Len(h) + 1) /\ Append(h, n + 1)[Len(h) + 1] = n + 1
      /\ \A i \in 1..Len(h) : Append(h, n + 1)[i] = h[i] /\ h[i] < n + 1
  BY <1>1
<1>3. ASSUME NEW i \in 1..(Len(h) + 1), NEW j \in 1..(Len(h) + 1), i < j
      PROVE  Append(h, n + 1)[i] < Append(h, n + 1)[j]
  <2>1. Len(h) \in Nat /\ i \in 1..Len(h)
    BY <1>1, <1>3
  <2>2. CASE j = Len(h) + 1
    BY <1>2, <2>1, <2>2
  <2>3. CASE j \in 1..Len(h)
    BY <1>1, <1>2, <1>3, <2>1, <2>3
  <2> QED
    BY <2>1, <2>2, <2>3
<1> QED
  BY <1>1, <1>2, <1>3 DEF History, Ascends

LEMMA LoggedIs ==
  ASSUME Logged, NEW k \in Keys PROVE Len(said) \in Nat /\ log[k] \in SUBSET (1..Len(said))
  BY LenProperties DEF Logged

LEMMA HistoryInit == Init => HistoryInv
<1> SUFFICES ASSUME Init PROVE HistoryInv
  OBVIOUS
<1>1. /\ said = <<>> /\ messages = {} /\ log = [k \in Keys |-> {}] /\ tenant \in Tenants
      /\ held = NoSession /\ stored = NoSession
  BY DEF Init
<1>2. KeyToWrite \in Keys
  BY <1>1, KeysAreKeys
<1>3. Logged
  BY <1>1, <1>2 DEF Logged
<1>4. History(<<>>, 0) /\ NoSession.history = <<>>
  BY DEF History, Ascends, NoSession
<1>5. Histories
  BY <1>1, <1>4 DEF Histories
<1> QED
  BY <1>1, <1>3, <1>5, NoSessionIs DEF HistoryInv, Sessions

\* The messages a session is created with.
LEMMA RecoveredHistory ==
  ASSUME Logged, NEW l, NEW msgs \in {GetMessages(KeyToRead), <<>>}, NEW whatsapp
  PROVE  History(CreateWithRecovery(l, msgs, whatsapp).history, Len(said))
<1>1. Len(said) \in Nat
  BY DEF Logged
<1>2. log[KeyToRead] \in SUBSET (1..Len(said))
  BY KeysAreKeys DEF Logged
<1>3. HISTORY_RECOVERY_LIMIT \in Nat
  BY ConversationAssumption DEF ConversationAssumption
<1>4. History(GetMessages(KeyToRead), Len(said))
  BY <1>1, <1>2, <1>3, OrderedIs, PartOfHistory DEF GetMessages
<1>5. History(<<>>, Len(said))
  BY DEF History, Ascends
<1>6. CreateWithRecovery(l, msgs, whatsapp).history \in {<<>>, msgs}
  BY DEF CreateWithRecovery
<1> QED
  BY <1>4, <1>5, <1>6

\* What is said after a history makes it no less a history.
LEMMA MoreIsSaid ==
  ASSUME HistoryInv, NEW n \in Nat, Len(said) <= n
  PROVE  History(held.history, n) /\ History(stored.history, n)
  BY DEF HistoryInv, Logged, Histories, History

\* Where nothing new is said and no session is written to, there is little to check.
LEMMA NothingSaid ==
  ASSUME HistoryInv, said' = said, UNCHANGED chosen,
         held'.history \in {held.history, stored.history, <<>>},
         stored'.history \in {stored.history, <<>>},
         messages' \subseteq messages, log' = log, Sessions'
  PROVE  HistoryInv'
<1>1. History(<<>>, Len(said))
  BY DEF History, Ascends
<1>2. Histories'
  BY <1>1 DEF HistoryInv, Histories
<1>3. KeyToWrite' = KeyToWrite
  BY DEF KeyToWrite, chosen
<1>4. Logged'
  BY <1>3 DEF HistoryInv, Logged, chosen
<1> QED
  BY <1>2, <1>4 DEF HistoryInv

\* The log after messages were said that may be on their way to it.
LEMMA LoggedStill ==
  ASSUME Logged, UNCHANGED chosen, log' = log, NEW n \in Nat,
         said' \in Seq(Sizes), Len(said') = Len(said) + n,
         messages' \subseteq messages \cup (IF wired THEN {Len(said')} ELSE {}),
         n > 0
  PROVE  Logged'
<1>1. KeyToWrite' = KeyToWrite /\ wired' = wired /\ tenant' = tenant
  BY DEF KeyToWrite, chosen
<1>2. Len(said) \in Nat /\ 1..Len(said) \subseteq 1..Len(said') /\ Len(said') \in 1..Len(said')
  BY DEF Logged
<1>3. messages' \subseteq 1..Len(said')
  BY <1>2 DEF Logged
<1>4. log' \in [Keys -> SUBSET (1..Len(said'))]
  BY <1>2 DEF Logged
<1> QED
  BY <1>1, <1>3, <1>4 DEF Logged

LEMMA AddHistory ==
  ASSUME HistoryInv, NEW size \in Sizes, AddMessage(size), Sessions'
  PROVE  HistoryInv'
<1> DEFINE h == Trimmed(Append(held.history, Len(said')))
<1>1. Len(said) \in Nat /\ said' \in Seq(Sizes) /\ Len(said') = Len(said) + 1
  BY DEF HistoryInv, Logged, AddMessage
<1>2. History(held.history, Len(said)) /\ MaxHistory \in Nat
  BY ConversationAssumption DEF HistoryInv, Histories, ConversationAssumption
<1>3. History(Append(held.history, Len(said')), Len(said'))
  BY <1>1, <1>2, LongerHistory
<1>4. History(h, Len(said'))
  BY <1>1, <1>2, <1>3, PartOfHistory DEF Trimmed
<1>5. History(stored.history, Len(said'))
  BY <1>1, MoreIsSaid
<1>6. History(NoSession.history, Len(said'))
  BY DEF History, Ascends, NoSession
<1>7. Saved([held EXCEPT !.history = h])
  BY DEF AddMessage
<1> HIDE DEF h
<1>8. held'.history \in {h, NoSession.history} /\ stored'.history \in {h, stored.history}
  BY <1>7 DEF Saved, HistoryInv, Sessions, Session
<1>9. Histories'
  BY <1>4, <1>5, <1>6, <1>8 DEF Histories
<1>10. Logged'
  <2>1. /\ Logged /\ UNCHANGED chosen /\ log' = log /\ 1 \in Nat /\ 1 > 0
        /\ messages' \subseteq messages \cup (IF wired THEN {Len(said')} ELSE {})
    BY DEF AddMessage, HistoryInv
  <2> QED
    BY <1>1, <2>1, LoggedStill
<1> QED
  BY <1>9, <1>10 DEF HistoryInv

LEMMA UpdateHistory ==
  ASSUME HistoryInv, NEW size \in Sizes, NEW reply \in Sizes, NEW closes \in BOOLEAN,
         UpdateSession(size, reply, closes), Sessions'
  PROVE  HistoryInv'
<1> DEFINE n == Len(said)
           h == held.history \o <<n + 1, n + 2>>
<1>1. n \in Nat /\ said' \in Seq(Sizes) /\ Len(said') = n + 2
  BY DEF HistoryInv, Logged, UpdateSession
<1>2. History(held.history, n)
  BY DEF HistoryInv, Histories
<1>3. History(Append(Append(held.history, n + 1), n + 2), n + 2)
  BY <1>1, <1>2, LongerHistory
<1>4. h = Append(Append(held.history, n + 1), n + 2)
  BY <1>2 DEF History
<1>5. History(stored.history, n + 2)
  BY <1>1, MoreIsSaid
<1>6. History(NoSession.history, n + 2)
  BY DEF History, Ascends, NoSession
<1>7. Saved([held EXCEPT !.history = h, !.closed = closes])
  BY DEF UpdateSession
<1> HIDE DEF h, n
<1>8. held'.history \in {h, NoSession.history} /\ stored'.history \in {h, stored.history}
  BY <1>7 DEF Saved, HistoryInv, Sessions, Session
<1>9. Histories'
  BY <1>1, <1>3, <1>4, <1>5, <1>6, <1>8 DEF Histories
<1>10. Logged'
  <2>1. /\ Logged /\ UNCHANGED chosen /\ log' = log /\ 2 \in Nat /\ 2 > 0
        /\ messages' \subseteq messages \cup (IF wired THEN {Len(said')} ELSE {})
    BY DEF UpdateSession, HistoryInv
  <2>2. said' \in Seq(Sizes) /\ Len(said') = Len(said) + 2
    BY <1>1 DEF n
  <2> QED
    BY <2>1, <2>2, LoggedStill
<1> QED
  BY <1>9, <1>10 DEF HistoryInv

LEMMA AppendedHistory ==
  ASSUME HistoryInv, NEW n \in messages, AppendMessage(n), Sessions'
  PROVE  HistoryInv'
<1>1. /\ messages' \subseteq messages /\ log' = [log EXCEPT ![KeyToWrite] = @ \cup {n}]
      /\ said' = said /\ held' = held /\ stored' = stored /\ UNCHANGED chosen
  BY DEF AppendMessage
<1>2. KeyToWrite \in Keys /\ KeyToWrite' = KeyToWrite /\ wired
  BY <1>1, KeysAreKeys DEF HistoryInv, Logged, KeyToWrite, chosen
<1>3. Logged'
  BY <1>1, <1>2 DEF HistoryInv, Logged, chosen
<1> QED
  BY <1>1, <1>3 DEF HistoryInv, Histories

LEMMA HistoryNext == HistoryInv /\ [Next]_vars => HistoryInv'
<1> SUFFICES ASSUME HistoryInv, [Next]_vars PROVE HistoryInv'
  OBVIOUS
<1>1. Sessions /\ Sessions'
  BY SessionsStay DEF HistoryInv
<1>2. NoSession.history = <<>>
  BY DEF NoSession
<1>3. CASE Resume
  <2>1. held'.history = stored.history
    BY <1>1, <1>3 DEF Resume, FromDict, Sessions, Session
  <2> QED
    BY <1>1, <1>3, <2>1, NothingSaid DEF Resume
<1>4. ASSUME NEW whatsapp \in BOOLEAN, Create(whatsapp) PROVE HistoryInv'
  <2>1. /\ \E l : \E msgs \in {GetMessages(KeyToRead), <<>>} :
              held' = CreateWithRecovery(l, msgs, whatsapp)
        /\ stored' = held' /\ said' = said /\ messages' = messages /\ log' = log
        /\ UNCHANGED chosen
    BY <1>4 DEF Create
  <2>2. History(held'.history, Len(said))
    BY <2>1, RecoveredHistory DEF HistoryInv
  <2>3. KeyToWrite' = KeyToWrite
    BY <2>1 DEF KeyToWrite, chosen
  <2>4. Logged'
    BY <2>1, <2>3 DEF HistoryInv, Logged, chosen
  <2> QED
    BY <1>1, <2>1, <2>2, <2>4 DEF HistoryInv, Histories
<1>5. ASSUME NEW size \in Sizes, AddMessage(size) PROVE HistoryInv'
  BY <1>1, <1>5, AddHistory
<1>6. ASSUME NEW size \in Sizes, NEW reply \in Sizes, NEW closes \in BOOLEAN,
             UpdateSession(size, reply, closes)
      PROVE  HistoryInv'
  BY <1>1, <1>6, UpdateHistory
<1>7. ASSUME NEW email, NEW aim, UpdateContactCard(email, aim) PROVE HistoryInv'
  <2>1. /\ said' = said /\ messages' = messages /\ log' = log /\ UNCHANGED chosen
        /\ \E c : Saved([held EXCEPT !.card = c])
    BY <1>7 DEF UpdateContactCard
  <2>2. held'.history \in {held.history, <<>>} /\ stored'.history \in {held.history, stored.history}
    BY <1>1, <1>2, <2>1 DEF Saved, Sessions, Session
  <2>3. History(<<>>, Len(said))
    BY DEF History, Ascends
  <2>4. Histories'
    BY <2>1, <2>2, <2>3 DEF HistoryInv, Histories
  <2>5. KeyToWrite' = KeyToWrite
    BY <2>1 DEF KeyToWrite, chosen
  <2>6. Logged'
    BY <2>1, <2>5 DEF HistoryInv, Logged, chosen
  <2> QED
    BY <1>1, <2>4, <2>6 DEF HistoryInv
<1>8. CASE Close \/ Release \/ Expire \/ Crash
  <2>1. /\ held'.history \in {held.history, <<>>} /\ stored'.history \in {stored.history, <<>>}
        /\ messages' \subseteq messages /\ log' = log /\ said' = said /\ UNCHANGED chosen
    BY <1>2, <1>8 DEF Close, Release, Expire, Crash
  <2> QED
    BY <1>1, <2>1, NothingSaid
<1>9. ASSUME NEW n \in messages, AppendMessage(n) PROVE HistoryInv'
  BY <1>1, <1>9, AppendedHistory
<1>10. CASE \/ \E n \in messages : LoseMessage(n)
            \/ \E l \in leads : UpsertLead(l) \/ LoseLead(l)
            \/ UNCHANGED vars
  <2>1. /\ held' = held /\ stored' = stored /\ messages' \subseteq messages /\ log' = log
        /\ said' = said /\ UNCHANGED chosen
    BY <1>10 DEF LoseMessage, UpsertLead, LoseLead, vars
  <2> QED
    BY <1>1, <2>1, NothingSaid
<1> QED
  BY <1>3, <1>4, <1>5, <1>6, <1>7, <1>8, <1>9, <1>10 DEF Next

LEMMA HistoryAlways == Spec => []HistoryInv
  BY HistoryInit, HistoryNext, PTL DEF Spec

\* The messages of a history come in their order and each once, whatever was recovered, cut
\* or refused in between (add_to_history, _recover_history), for any limits and tenants.
THEOREM HistoriesAscend == Spec => []HistoryInOrder
<1>1. HistoryInv => HistoryInOrder
  BY DEF HistoryInv, Histories, History, Ascends, HistoryInOrder
<1> QED
  BY <1>1, HistoryAlways, PTL

\* In an orderly run a session that is created anew starts with all that was logged of its
\* sender, as far as the limit goes (create_with_recovery): no key, no error and no
\* message on its way stands between them, as long as the tenant has a name.
THEOREM RecoveryFindsAll ==
  ASSUME "" \notin Tenants
  PROVE  Spec => RecoveryComplete
<1> DEFINE all == UNION {log[k] : k \in Keys}
           Whole == Created /\ orderly =>
                       (Cardinality(all) <= HISTORY_RECOVERY_LIMIT => ToSet(held'.history) = all)
<1>1. Inv /\ HistoryInv /\ [Next]_vars => [Whole]_vars
  <2> SUFFICES ASSUME Inv, HistoryInv, Next, Created, orderly,
                      Cardinality(all) <= HISTORY_RECOVERY_LIMIT
               PROVE  ToSet(held'.history) = all
    OBVIOUS
  <2>1. PICK whatsapp \in BOOLEAN : Create(whatsapp)
    <3>1. ~held.some /\ held'.some /\ (~stored.some \/ stored.closed)
      BY DEF Created
    <3>2. ~Resume /\ ~Close /\ ~Release
      BY <3>1, NoSessionIs DEF Resume, Close, Release
    <3>3. /\ \A size : ~AddMessage(size)
          /\ \A size, reply, closes : ~UpdateSession(size, reply, closes)
          /\ \A email, aim : ~UpdateContactCard(email, aim)
      BY <3>1 DEF AddMessage, UpdateSession, UpdateContactCard
    <3>4. /\ \A n : ~AppendMessage(n) /\ ~LoseMessage(n)
          /\ \A m : ~UpsertLead(m) /\ ~LoseLead(m)
          /\ ~Expire
      BY <3>1 DEF AppendMessage, LoseMessage, UpsertLead, LoseLead, Expire
    <3>5. ~Crash
      BY <3>1, NoSessionIs DEF Crash
    <3> QED
      BY <3>2, <3>3, <3>4, <3>5 DEF Next
  <2> DEFINE l == IF wired THEN lead ELSE NoLead
             msgs == IF wired THEN GetMessages(KeyToRead) ELSE <<>>
  <2>2. held' = CreateWithRecovery(l, msgs, whatsapp)
    BY <2>1 DEF Create
  <2>3. ~RecoveryRaises(l, whatsapp)
    BY NoCardFields DEF RecoveryRaises, Inv, LeadInv, LeadsSent, Sent, Valid, NoLead
  <2>4. held'.history = msgs
    BY <2>2, <2>3 DEF CreateWithRecovery
  <2>5. KeyToRead = KeyToWrite /\ KeyToWrite \in Keys
    BY KeysAreKeys DEF KeyToRead, KeyToWrite, HistoryInv, Logged
  <2>6. all = log[KeyToWrite]
    BY <2>5 DEF HistoryInv, Logged
  <2>7. CASE ~wired
    <3>1. all = {} /\ held'.history = <<>>
      BY <2>4, <2>6, <2>7 DEF HistoryInv, Logged
    <3> QED
      BY <3>1, NothingLogged
  <2>8. CASE wired
    <3>1. Len(said) \in Nat /\ log[KeyToWrite] \in SUBSET (1..Len(said))
      BY <2>5, LoggedIs DEF HistoryInv
    <3>2. Cardinality(log[KeyToWrite]) <= HISTORY_RECOVERY_LIMIT /\ HISTORY_RECOVERY_LIMIT \in Nat
      BY <2>6, ConversationAssumption DEF ConversationAssumption
    <3>3. msgs = FirstOf(Ordered(log[KeyToWrite]), HISTORY_RECOVERY_LIMIT)
      BY <2>5, <2>8 DEF GetMessages
    <3> QED
      BY <2>4, <2>6, <3>1, <3>2, <3>3, WholeLog
  <2> QED
    BY <2>7, <2>8
<1>2. Spec => []Inv
  BY LeadInit, LeadNext, PTL DEF Spec
<1> QED
  BY <1>1, <1>2, HistoryAlways, PTL DEF Spec, RecoveryComplete
=============================================================================

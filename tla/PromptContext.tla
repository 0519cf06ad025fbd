---------------------------- MODULE PromptContext ----------------------------
(***************************************************************************)
(* What the model is told of a vertical: the text files a turn puts into    *)
(* the prompt, those the session keeps for its next turns, and the cached   *)
(* index of cases from which one of them is chosen (otto_prompt.py,         *)
(* dynamic_context_loader.py, prompt_micro_agents*.py, context_cache.py).   *)
(*                                                                         *)
(* A message is what the code reads of it: its command, its whole text and  *)
(* the words it looks for, all normalised.  A file is named by              *)
(* <<folder, name>>.  The texts themselves are not modelled, a  *)
(* prompt is the sequence of the files that are in it as a whole.  An index  *)
(* may be replaced while the process runs (CACHE_USAGE.md), and a release   *)
(* may lack a file that the one before it had.                             *)
(***************************************************************************)
EXTENDS Naturals, FiniteSets, SequencesExt

CONSTANTS
    Order,      \* the files of the verticals in the order of their paths
    Files,      \* file -> [globbed, persist, manual, keywords, min (tenths), size (characters)]
    CaseIndex,  \* folder -> its index of cases, records [id, keywords, default]
    Messages,   \* what a user may say
    Signals,    \* what the card tells the agents: [any, useful, words]
    PrimaryInterests,   \* values of primary_interest in the card
    Removable,  \* files that some releases have and some have not
    TTL,        \* DEFAULT_TTL_SECONDS in ticks of the clock
    MaxTenantContext, MaxPromptContext  \* characters

VARIABLES
    interest,   \* primary_interest of the card, "" for none
    session,    \* [vertical, contexts]: prompt_vertical and prompt_contexts
    turn,       \* the turn under way
    cache,      \* folder -> [content, age] of its index of cases
    index,      \* folder -> its index on the disk: "cases", "broken" or "gone"
    present,    \* files that are on the disk
    since       \* folder -> content -> ticks since the disk last held it, up to TTL

promptVars == <<interest, session, turn, cache, index, present, since>>

Paths == DOMAIN Files
Indexed == DOMAIN CaseIndex
Contents == {"cases", "empty"}

ASSUME PromptContextAssumption ==
    /\ TTL \in Nat /\ Removable \subseteq Paths
    /\ Order \in Seq(Paths) /\ ToSet(Order) = Paths
    /\ \A p \in Paths : Files[p].size \in Nat

----------------------------------------------------------------------------
(* The fixed replies.                                                      *)

Reply(kind, trigger, vertical) == [kind |-> kind, trigger |-> trigger, vertical |-> vertical]

FIXED_REPLIES == {
    Reply("quick_reply", "como funciona a gestao", "gestao_perfis_trafego"),
    Reply("quick_reply", "como funciona a automacao", "automacao_atendimento"),
    Reply("quick_reply", "como funciona o sob medida", "sob_medida"),
    Reply("quick_reply", "o que e o saas", "saas"),
    Reply("command", "/automacao", "automacao_atendimento"),
    Reply("command", "/sobmedida", "sob_medida"),
    Reply("command", "/entregas_servicos", "intermediacao_entregas"),
    Reply("command", "/saas", "saas")}

Matching(kind, text) == {r \in FIXED_REPLIES : r.kind = kind /\ r.trigger = text}

\* A command may be followed by anything, the text of a button stands alone.
MatchFixedReply(msg) ==
    IF Matching("command", msg.command) # {} THEN Matching("command", msg.command)
    ELSE Matching("quick_reply", msg.whole)

----------------------------------------------------------------------------
(* The vertical of a turn.                                                 *)

Aliases == [
    automacao |-> {"automacao", "automacao_atendimento"},
    entregas |-> {"entregas", "intermediacao_entregas"},
    trafego |-> {"trafego", "gestao_perfis_trafego", "gestao_perfis", "trafego_pago"},
    sob_medida |-> {"sistema_sob_medida", "sob_medida"},
    saas |-> {"saas"}]

NoFolder == ""

NormalizeTenantIntent(intent) ==
    IF \E f \in DOMAIN Aliases : intent \in Aliases[f]
    THEN CHOOSE f \in DOMAIN Aliases : intent \in Aliases[f] ELSE NoFolder

DetectIntent(words) ==
    CASE "entrega" \in words -> "entregas"
      [] "entrega" \notin words /\ "bot" \in words -> "automacao"
      [] words \cap {"entrega", "bot"} = {} /\ "trafego" \in words -> "trafego"
      [] OTHER -> ""

\* [intent, confidence in tenths]: the card before the session before the words.
BuildTenantIntent(words) ==
    IF interest # "" THEN [intent |-> interest, conf |-> 9]
    ELSE IF session.vertical # "" THEN [intent |-> session.vertical, conf |-> 7]
    ELSE [intent |-> DetectIntent(words),
          conf |-> IF DetectIntent(words) # "" THEN 6 ELSE 0]

----------------------------------------------------------------------------
(* The cached index of cases.                                              *)

LoadYamlFromDisk(f) == IF index[f] = "cases" THEN "cases" ELSE "empty"

Hit(f) == cache[f].content # "none" /\ cache[f].age < TTL

\* What the caller gets, and the entry the call leaves; an empty dict after a failure is
\* cached like any other.
LoadYamlCached(f) == IF Hit(f) THEN cache[f].content ELSE LoadYamlFromDisk(f)

\* Mutated form: a hit renews the timestamp.
EntryAfterRenewed(f) == [content |-> LoadYamlCached(f), age |-> 0]

EntryAfter(f) ==
    [content |-> LoadYamlCached(f), age |-> IF Hit(f) THEN cache[f].age ELSE 0]

----------------------------------------------------------------------------
(* The micro agents: each names at most one file, which enters the prompt   *)
(* of this turn and is loaded for the next ones.                           *)

\* One word of each pattern: price, trust and timing; proof; return on investment.
ObjectionWords == {"caro", "risco", "demora"}
CaseWords == {"exemplo"}
RoiWords == {"roi", "valor"}

ShouldRunObjection(words, conf) == words \cap ObjectionWords # {} /\ conf >= 4
ShouldRunCase(words) == words \cap CaseWords # {}
ShouldRunRoi(words, sig) == words \cap RoiWords # {} /\ (~sig.any \/ sig.useful)

\* Mutated form: a file that ought to be there is taken for granted.
ContextExistsAlways(p) == TRUE

ContextExists(p) == p \in present

IfExists(p) == IF ContextExists(p) THEN <<p>> ELSE <<>>

ReadsIndex(f, words) == ShouldRunCase(words) /\ f \in Indexed /\ index[f] # "gone"
LoadCases(f, words) ==
    IF ReadsIndex(f, words) /\ LoadYamlCached(f) = "cases" THEN CaseIndex[f] ELSE <<>>

\* The best score, the first of the best; without a score the first default.
SelectCase(cases, words, sig) ==
    LET Score(i) == 2 * Cardinality(cases[i].keywords \cap words)
                    + Cardinality((cases[i].keywords \cap sig.words) \ words)
        best == {i \in DOMAIN cases : Score(i) > 0 /\ \A j \in DOMAIN cases :
                    Score(j) < Score(i) \/ (Score(j) = Score(i) /\ i <= j)}
        default == {i \in DOMAIN cases : cases[i].default /\
                    \A j \in DOMAIN cases : cases[j].default => i <= j}
    IN  {cases[i].id : i \in IF best # {} THEN best ELSE default}

ObjectionAgent(f, words, conf) ==
    IF ShouldRunObjection(words, conf) THEN IfExists(<<f, "objections">>) ELSE <<>>
CaseAgent(f, words, sig) ==
    LET id == SelectCase(LoadCases(f, words), words, sig)
    IN  IF id = {} THEN <<>> ELSE IfExists(<<f, CHOOSE c \in id : TRUE>>)
RoiAgent(f, words, sig) ==
    IF ShouldRunRoi(words, sig) THEN IfExists(<<f, "roi_hints">>) ELSE <<>>

RunPromptMicroAgents(f, words, conf, sig) ==
    IF words = {} THEN <<>>
    ELSE ObjectionAgent(f, words, conf) \o CaseAgent(f, words, sig) \o RoiAgent(f, words, sig)

----------------------------------------------------------------------------
(* The contexts of a vertical.                                             *)

\* A file meant for an agent has no trigger of its own.
ShouldInject(p, words, conf) ==
    /\ Files[p].globbed /\ p \in present /\ ~Files[p].manual
    /\ conf >= Files[p].min
    /\ Files[p].keywords \cap words # {}

\* Mutated form: the contexts of an earlier vertical stay.
FilterLoadedNone(loaded, f) == loaded

FilterLoaded(loaded, f) == {p \in loaded : p[1] = f}

InOrder(paths) ==
    FoldLeft(LAMBDA acc, p : IF p \in paths THEN Append(acc, p) ELSE acc, <<>>, Order)

\* No session in HANDOFF_HUMAN gets here: it is terminal and was replaced.
ResolveDynamicContexts(f, words, conf, loaded) ==
    LET existing == FilterLoaded(loaded, f)
        injected == {p \in Paths : p[1] = f /\ ShouldInject(p, words, conf)}
        lasting == {p \in injected : Files[p].persist} \ existing
        passing == {p \in injected : ~Files[p].persist}
    IN  [prompt |-> InOrder(existing) \o InOrder(lasting) \o InOrder(passing \ existing),
         loaded |-> existing \cup lasting]

Unique(s) == FoldLeft(LAMBDA acc, p : IF Contains(acc, p) THEN acc ELSE Append(acc, p), <<>>, s)

\* The files that are whole in the first n characters; two characters part two files.
Within(s, n) ==
    LET Fits(acc, p) ==
            IF acc.open /\ acc.used + Files[p].size <= n
            THEN [acc EXCEPT !.used = acc.used + Files[p].size + 2, !.seq = Append(acc.seq, p)]
            ELSE [acc EXCEPT !.open = FALSE]
    IN  FoldLeft(Fits, [open |-> TRUE, used |-> 0, seq |-> <<>>], s).seq

BuildTenantContext(chunks) == Within(Unique(chunks), MaxTenantContext)

FormatOttoPrompt(context) == Within(context, MaxPromptContext)

\* Mutated form: what the session had loaded is replaced by what this turn loads.
MergedLoadedLatest(dynamic, extra) == extra

MergedLoaded(dynamic, extra) == dynamic \cup extra

\* load_context_for_prompt raises for a file that is not there.  What it returned once it
\* keeps for the life of the process, and the files change only between two processes.
Loadable(p) == p \in present

\* The files whose text is put together, in order, and the list the session keeps.
BuildFullPrompt(f, words, conf, sig, loaded) ==
    LET extra == RunPromptMicroAgents(f, words, conf, sig)
        dynamic == ResolveDynamicContexts(f, words, conf, loaded)
    IN  IF f = NoFolder THEN [chunks |-> <<>>, loaded |-> {}]
        ELSE [chunks |-> <<<<f, "core">>>> \o dynamic.prompt \o extra,
              loaded |-> MergedLoaded(dynamic.loaded, ToSet(extra))]

----------------------------------------------------------------------------

Fresh == [vertical |-> "", contexts |-> {}]
Idle == [pc |-> "idle", words |-> {}, sig |-> [any |-> FALSE, useful |-> FALSE, words |-> {}],
         intent |-> "", conf |-> 0, loaded |-> {}, prompt |-> <<>>, again |-> FALSE]
NoEntry == [content |-> "none", age |-> 0]

PromptInit ==
    /\ interest = "" /\ session = Fresh /\ turn = Idle
    /\ cache = [f \in Indexed |-> NoEntry]
    /\ index = [f \in Indexed |-> "cases"]
    /\ present = Paths
    /\ since = [f \in Indexed |-> [c \in Contents |-> IF c = "cases" THEN 0 ELSE TTL]]

disk == <<index, present, since>>

\* A fixed reply sets the vertical and leaves the contexts of the former one.
SendFixedReply(msg) ==
    /\ turn.pc = "idle"
    /\ \E reply \in MatchFixedReply(msg) :
          session' = [session EXCEPT !.vertical = reply.vertical]
    /\ UNCHANGED <<interest, turn, cache, disk>>

Begin(msg, sig) ==
    /\ turn.pc = "idle"
    /\ MatchFixedReply(msg) = {}
    /\ LET detected == BuildTenantIntent(msg.words) IN
       turn' = [Idle EXCEPT !.pc = "decide", !.words = msg.words, !.sig = sig,
                            !.intent = detected.intent, !.conf = detected.conf,
                            !.loaded = session.contexts]
    /\ UNCHANGED <<interest, session, cache, disk>>

\* decide up to the call of the model.  It writes the loaded contexts into the request.
Decide ==
    /\ turn.pc = "decide"
    /\ LET f == NormalizeTenantIntent(turn.intent)
           built == BuildFullPrompt(f, turn.words, turn.conf, turn.sig, turn.loaded)
       IN  /\ turn' = IF \E p \in ToSet(built.chunks) : ~Loadable(p) THEN [turn EXCEPT !.pc = "failed"]
                      ELSE [turn EXCEPT !.pc = "call", !.loaded = built.loaded,
                                        !.prompt = FormatOttoPrompt(
                                                       BuildTenantContext(built.chunks))]
           /\ cache' = IF ReadsIndex(f, turn.words)
                       THEN [cache EXCEPT ![f] = EntryAfter(f)] ELSE cache
    /\ UNCHANGED <<interest, session, disk>>

\* The model and the extraction have five seconds together, then decide runs once more,
\* with the same request.
TimeOut ==
    /\ turn.pc = "call" /\ ~turn.again
    /\ turn' = [turn EXCEPT !.pc = "decide", !.again = TRUE]
    /\ UNCHANGED <<interest, session, cache, disk>>

\* The turn ends: the session is saved, and replaced before the next turn if it is closed
\* now; the extraction may have found an interest.
Update(found, closes) ==
    /\ turn.pc = "call"
    /\ turn.again => found = ""
    /\ interest' = IF found # "" THEN found ELSE interest
    /\ session' = IF closes THEN Fresh
                  ELSE [vertical |-> IF turn.intent # "" THEN turn.intent ELSE session.vertical,
                        contexts |-> turn.loaded]
    /\ turn' = Idle
    /\ UNCHANGED <<cache, disk>>

\* The exception leaves the pipeline; the message may come again.
Fail ==
    /\ turn.pc = "failed"
    /\ turn' = Idle
    /\ UNCHANGED <<interest, session, cache, disk>>

----------------------------------------------------------------------------
(* The operator, the clock and the process.                                *)

ClearCache == cache' = [f \in Indexed |-> NoEntry]
InvalidateKey(f) == cache' = [cache EXCEPT ![f] = NoEntry]

Refresh ==
    /\ turn.pc = "idle"
    /\ ClearCache \/ \E f \in Indexed : InvalidateKey(f)
    /\ UNCHANGED <<interest, session, turn, disk>>

HeldBy(state) == IF state = "cases" THEN "cases" ELSE "empty"

\* An operator replaces an index while the process runs.
Replace(f, state) ==
    /\ state # index[f]
    /\ index' = [index EXCEPT ![f] = state]
    /\ since' = [since EXCEPT ![f][HeldBy(index[f])] = 0, ![f][HeldBy(state)] = 0]
    /\ UNCHANGED <<interest, session, turn, cache, present>>

Older(n) == IF n < TTL THEN n + 1 ELSE n

\* A turn is shorter than a tick.  The content the disk holds does not age.
Tick ==
    /\ turn.pc = "idle"
    /\ cache' = [f \in Indexed |-> [cache[f] EXCEPT !.age = Older(@)]]
    /\ since' = [f \in Indexed |-> [c \in Contents |->
                    IF c = HeldBy(index[f]) THEN 0 ELSE Older(since[f][c])]]
    /\ UNCHANGED <<interest, session, turn, index, present>>

\* The process ends and another one starts, with the files of the same release or another.
Restart(files) ==
    /\ turn' = Idle /\ ClearCache /\ present' = files
    /\ UNCHANGED <<interest, session, index, since>>

PromptNext ==
    \/ \E msg \in Messages : SendFixedReply(msg)
    \/ \E msg \in Messages, sig \in Signals : Begin(msg, sig)
    \/ Decide \/ TimeOut \/ Fail
    \/ \E found \in PrimaryInterests \cup {""}, closes \in BOOLEAN : Update(found, closes)
    \/ Refresh \/ Tick
    \/ \E f \in Indexed, state \in {"cases", "broken", "gone"} : Replace(f, state)
    \/ \E absent \in SUBSET Removable : Restart(Paths \ absent)

PromptSpec == PromptInit /\ [][PromptNext]_promptVars

----------------------------------------------------------------------------
(* Properties.                                                             *)

TypeOK ==
    /\ interest \in PrimaryInterests \cup {""} /\ present \subseteq Paths
    /\ turn.pc \in {"idle", "decide", "call", "failed"}
    /\ cache \in [Indexed -> [content : Contents \cup {"none"}, age : 0..TTL]]
    /\ index \in [Indexed -> {"cases", "broken", "gone"}]
    /\ since \in [Indexed -> [Contents -> 0..TTL]]

\* The cache answers with what the disk holds or held less than a TTL ago, however often it
\* is asked in between: neither a replaced index nor the empty answer of a failed load
\* outlives it ("TTL automático invalida entradas antigas", context_cache.py).
FreshEnough ==
    \A f \in Indexed : Hit(f) => since[f][cache[f].content] <= cache[f].age

\* "Se a vertente mudar, descarta contextos anteriores" (dynamic_context_loader.py): what
\* goes into a prompt and what a session keeps is of one vertical, the one of the turn,
\* whatever replies, interests and time-outs lie between the turns.
OneVertical ==
    /\ \A p, q \in session.contexts : p[1] = q[1]
    /\ turn.pc = "call" =>
          \A p \in turn.loaded \cup ToSet(turn.prompt) :
              p[1] = NormalizeTenantIntent(turn.intent)

\* "Contextos com `persist: true` permanecem" (dynamic_context_loader.py): a turn drops a
\* context only with its vertical or with its session.
ContextsKept ==
    [][turn.pc = "call" /\ turn'.pc = "idle" /\ session' # Fresh =>
          \A p \in session.contexts :
              p[1] = NormalizeTenantIntent(turn.intent) => p \in session'.contexts]_promptVars

\* "Resiliente a YAML faltante" (prompt_micro_agents_agents.py): a turn fails for a missing
\* file only if the file is the core of its vertical or one the session had loaded before
\* the file was taken away.
FailsOnlyWhenGone ==
    turn.pc = "failed" =>
        \E p \in turn.loaded \cup {<<NormalizeTenantIntent(turn.intent), "core">>} :
            p \notin present

\* "Contextos com `persist: false` só entram no prompt atual" (dynamic_context_loader.py).
TransientNotKept == \A p \in session.contexts : Files[p].persist

\* "Aplica limite de ~2500 tokens (10k chars)" (otto_prompt.py): a context that is loaded,
\* and within that limit, is in the prompt.
LoadedIsTold ==
    turn.pc = "call" => turn.loaded \subseteq ToSet(turn.prompt)
=============================================================================

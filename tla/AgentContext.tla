---------------------------- MODULE AgentContext ----------------------------
(* What an agent is told: the context packet of mem_bootstrap and the answers of *)
(* mem_query (mcp/tools.rs, mcp/handlers.rs), over records whose quality is      *)
(* computed from their wording (health/quality.rs).                              *)
(*                                                                               *)
(* A packet is assembled one store read at a time under the graph's read lock,   *)
(* while mem_set, reparse and the staleness analysis of other connections write  *)
(* records: edges stand still during a call, records do not. Text is abstracted  *)
(* to the features the scores look at, a line to its cost in tokens.             *)
EXTENDS Integers, FiniteSets, SequencesExt, FiniteSetsExt

CONSTANTS
    Lore,          \* gotcha keys
    CochangeKeys,  \* those under gotcha:cochange:
    CtxFiles, CtxDecisions,
    Texts,         \* wordings: [verb, cause, vague : BOOLEAN, len, hits, cost : Nat]
    CtxBases,      \* the stores a behaviour starts from
    Avail,         \* TOKEN_BUDGET - VECTOR_B_TOKENS
    FallbackLimit, \* DECISION_FALLBACK_LIMIT
    MaxCtxEvents,  \* what a call meets: writes of others, and its own reads that fail
    MaxCtxCalls,
    Hoods,         \* neighbourhoods of a query's seed: per kind of edge, the
                   \* neighbours in order, TRUE for an active record that can be read
    GroupCaps,     \* the cap of each kind, in the order of edge_groups
    DepCap,        \* DECISION_LIMIT, the cap of dependency neighbours
    Scans,         \* what a tag or text query meets, in order: [active, match, told]
    MaxQueryLimit, QueryLimits

Wording == [verb : BOOLEAN, cause : BOOLEAN, vague : BOOLEAN, len : Nat, hits : Nat, cost : Nat]
Life == {"none", "active", "dead"}
Stale == {"fresh", "stale", "liability", "tombstone"}

GotchaRecords ==
    [life : Life, stale : Stale, text : Wording, prio : Nat, ref : BOOLEAN, source : {"dev", "import", "enrich", "static"},
     confirmed : BOOLEAN, auto : BOOLEAN, files : SUBSET CtxFiles, quality : Int]
FileRecords == [life : Life, stale : Stale, keys : SUBSET Lore, purpose : Nat, blast : Nat, reads : Nat]
PlanRecords == [life : Life, conf : Nat, cost : Nat]

ASSUME AgentContextAssumption ==
    /\ IsFiniteSet(Lore) /\ IsFiniteSet(CtxFiles) /\ IsFiniteSet(CtxDecisions)
    /\ Texts \subseteq Wording
    /\ \A b \in CtxBases : /\ b.lore \in [Lore -> GotchaRecords]
                          /\ b.tree \in [CtxFiles -> FileRecords]
                          /\ b.plan \in [CtxDecisions -> PlanRecords]
    /\ Avail \in Nat /\ MaxQueryLimit \in Nat /\ DepCap \in Nat /\ QueryLimits \subseteq Nat
    /\ GroupCaps \in Seq(Nat)
    /\ Hoods \subseteq [1 .. Len(GroupCaps) -> Seq(BOOLEAN)]
    /\ Scans \subseteq Seq([active : BOOLEAN, match : BOOLEAN, told : BOOLEAN])

VARIABLES
    lore,    \* the gotcha records; auto: one under gotcha:cochange:, revert: or ownership:
    tree,    \* the file records
    plan,    \* the decision records
    web,     \* the graph's edges, as <<from, kind, to>>
    draft,   \* the packet being assembled
    packet,  \* the last packet returned
    held,    \* what was due in the packet at every moment of the call so far (history)
    ever,    \* the gotchas linked, and those trusted, at some moment of it (history)
    answer,  \* the last answer of mem_query
    ctxWrites, ctxCalls

acVars == <<lore, tree, plan, web, draft, packet, held, ever, answer, ctxWrites, ctxCalls>>
acData == <<lore, tree, plan, web>>

-----------------------------------------------------------------------------
(* Quality of a record (health/quality.rs), in units of 1/100000. *)

Bool(b) == IF b THEN 1 ELSE 0

LengthScore(len) ==
    IF len < 20 THEN 0 ELSE IF len >= 100 THEN 15000 ELSE (15000 * (len - 20)) \div 80

\* specificity_score: four kinds of identifiers, a quarter each.
SpecificityScore(hits) == 3750 * hits

\* The signals analyze attaches to a gotcha's text.
Signals(t, prio, ref) ==
    UNION {IF t.verb THEN {"imperative"} ELSE {}, IF t.cause THEN {"causality"} ELSE {"no_reason"},
           IF prio # 2 THEN {"severity"} ELSE {}, IF ref THEN {"reference"} ELSE {},
           IF 2 * LengthScore(t.len) >= 15000 THEN {"length"} ELSE {},
           IF t.hits >= 2 THEN {"specific"} ELSE {},
           IF t.vague THEN {"vague"} ELSE {}, IF t.len < 30 THEN {"short"} ELSE {}}

\* analyze: the weighted sum, then the three penalties one after the other.
Analyze(t, prio, ref) ==
    LET sum == 20000 * Bool(t.verb) + 25000 * Bool(t.cause) + 10000 * Bool(prio # 2)
                 + 15000 * Bool(ref) + LengthScore(t.len) + SpecificityScore(t.hits)
        a == IF t.vague THEN (sum * 5) \div 10 ELSE sum
        b == IF t.len < 30 THEN (a * 4) \div 10 ELSE a
    IN  IF ~t.cause THEN (b * 6) \div 10 ELSE b

QualityTier(v) ==
    IF v < 20000 THEN "suppressed" ELSE IF v < 40000 THEN "poor"
    ELSE IF v < 70000 THEN "acceptable" ELSE IF v < 90000 THEN "good" ELSE "excellent"

BelowQualityGate(v) == v < 20000

\* generate_improvement_hints: what the author is told to change.
Hints(sig) ==
    ({"imperative", "causality", "severity", "reference", "length", "specific"} \ sig)
      \cup (sig \cap {"vague", "short"})

Quality(r) == Analyze(r.text, r.prio, r.ref)

\* A behaviour starts from a store whose confirmed gotchas have been scored.
ASSUME BasesScored ==
    \A b \in CtxBases : \A k \in Lore :
        b.lore[k].life = "active" /\ b.lore[k].confirmed => b.lore[k].quality = Quality(b.lore[k])

-----------------------------------------------------------------------------
(* Records as the packet sees them. *)

Conf(source) == CASE source = "dev" -> 80 [] source = "import" -> 70 [] source = "enrich" -> 60 [] OTHER -> 10

\* Mutant: a deleted gotcha is still injected.
IsInjectableDead(r) == /\ r.stale # "tombstone" /\ r.quality >= 40000 /\ (r.confirmed \/ r.auto)

IsInjectable(r) ==
    /\ r.life = "active" /\ r.stale # "tombstone" /\ r.quality >= 40000
    /\ r.confirmed \/ r.auto

\* confidence x priority_weight (prio 1..4 stands for the weights 0.25..1.00).
Score(r) == Conf(r.source) * r.prio

Neighbours(from, kind) == {e[3] : e \in {x \in web : x[1] = from /\ x[2] = kind}}

FileTold(f) == tree[f].life = "active" /\ tree[f].stale # "tombstone"

\* The gotchas one context file brings in: its record's list, its edges and the
\* edges of what it imports. A record that is dead hides the edges as well.
ByEdges(f) ==
    Neighbours(f, "has_gotcha") \cup UNION {Neighbours(i, "has_gotcha") : i \in Neighbours(f, "imports")}
BroughtBy(f) ==
    IF tree[f].life # "none" /\ ~FileTold(f) THEN {}
    ELSE ByEdges(f) \cup IF tree[f].life = "none" THEN {} ELSE tree[f].keys

\* What a developer vouched for, or analysis found, and still holds (history).
Trusted(k) == /\ lore[k].confirmed \/ lore[k].auto
              /\ lore[k].life = "active" /\ lore[k].stale # "tombstone"
              /\ QualityTier(lore[k].quality) \notin {"suppressed", "poor"}

\* The gotchas a packet for fs is made from as the store stands, each with the
\* file that brings it in, and those of them that belong into it (history).
Linked(fs) == IF fs = {} THEN {"store"} \X Lore ELSE UNION {{f} \X BroughtBy(f) : f \in fs}
Due(fs) == {p \in Linked(fs) : Trusted(p[2])}
\* Those a call cannot find for a read that failed: the gotcha's own, or that of the
\* file's record, which the graph's edges do not make up for (history).
Excused(failed, p) == p[2] \in failed \/ (p[1] \in failed /\ p[2] \notin ByEdges(p[1]))
Seen(fs) == [linked |-> {p[2] : p \in Linked(fs)}, trusted |-> {k \in Lore : Trusted(k)}]

-----------------------------------------------------------------------------
(* assemble_context_packet *)

NoDraft == [pc |-> "idle", files |-> {}, left |-> {}, recs |-> {}, keys |-> {}, found |-> {}, decKeys |-> {},
           decs |-> {}, warned |-> {}, nudged |-> {}, stage |-> 0, failed |-> {}]

\* What every step of a call adds to the history.
Joined(a, b) == [linked |-> a.linked \cup b.linked, trusted |-> a.trusted \cup b.trusted]
Unseen == [linked |-> {}, trusted |-> {}]
Watch == /\ held' = held \cap Due(draft.files)
         /\ ever' = Joined(ever, Seen(draft.files))

Begin(fs) ==
    /\ draft.pc = "idle" /\ ctxCalls < MaxCtxCalls
    /\ ctxCalls' = ctxCalls + 1
    /\ \E cost \in {0, 1} : draft' = [NoDraft EXCEPT !.pc = "files", !.files = fs, !.left = fs, !.stage = cost]
    /\ held' = Due(fs) /\ ever' = Seen(fs)
    /\ UNCHANGED <<acData, packet, answer, ctxWrites>>

\* One context file: a stale record is warned about, one read often that carries
\* no gotcha is a candidate for a nudge.
ReadFile(f) ==
    /\ draft.pc = "files" /\ f \in draft.left
    /\ LET r == tree[f] told == FileTold(f)
           dead == r.life # "none" /\ ~told IN
       draft' = [draft EXCEPT
           !.left = @ \ {f},
           !.recs = IF told THEN @ \cup {[file |-> f, cost |-> r.purpose, blast |-> r.blast]} ELSE @,
           !.keys = @ \cup BroughtBy(f),
           !.decKeys = @ \cup IF dead THEN {} ELSE Neighbours(f, "affected_by"),
           !.warned = IF told /\ r.stale \in {"stale", "liability"} THEN @ \cup {f} ELSE @,
           !.nudged = IF told /\ r.reads >= 3 /\ r.keys = {} THEN @ \cup {f} ELSE @]
    /\ Watch /\ UNCHANGED <<acData, packet, answer, ctxWrites, ctxCalls>>

\* A record that cannot be read is passed over in silence; the edges are followed
\* all the same, those of a dead file as well (they count as seen).
MayFail(keys) == ctxWrites + Cardinality(draft.failed \cup keys) <= MaxCtxEvents
ReadFileFails(f) ==
    /\ draft.pc = "files" /\ f \in draft.left /\ MayFail({f})
    /\ draft' = [draft EXCEPT !.left = @ \ {f}, !.failed = @ \cup {f}, !.keys = @ \cup ByEdges(f),
                              !.decKeys = @ \cup Neighbours(f, "affected_by")]
    /\ held' = held \cap Due(draft.files)
    /\ ever' = Joined(Joined(ever, Seen(draft.files)), [Unseen EXCEPT !.linked = ByEdges(f)])
    /\ UNCHANGED <<acData, packet, answer, ctxWrites, ctxCalls>>

\* The stage is read before anything else, and without files the gotchas are scanned:
\* a failure there is the call's answer, and there is no packet.
ContextFails ==
    /\ draft.pc = "files" /\ draft.left = draft.files
    /\ draft' = NoDraft /\ held' = {} /\ ever' = Unseen
    /\ UNCHANGED <<acData, packet, answer, ctxWrites, ctxCalls>>

\* Without context files every gotcha is scanned at once.
ScanGotchas ==
    /\ draft.pc = "files" /\ draft.files = {}
    /\ draft' = [draft EXCEPT !.pc = "review",
                   !.found = {<<k, lore[k]>> : k \in {x \in Lore : IsInjectable(lore[x])}}]
    /\ Watch /\ UNCHANGED <<acData, packet, answer, ctxWrites, ctxCalls>>

FilesRead ==
    /\ draft.pc = "files" /\ draft.files # {} /\ draft.left = {}
    /\ draft' = [draft EXCEPT !.pc = "gotchas", !.left = draft.keys]
    /\ Watch /\ UNCHANGED <<acData, packet, answer, ctxWrites, ctxCalls>>

\* The linked gotchas, one read each, in the order of a hash set.
ReadGotcha(k) ==
    /\ draft.pc = "gotchas" /\ k \in draft.left
    /\ draft' = [draft EXCEPT !.left = @ \ {k},
                   !.found = IF IsInjectable(lore[k]) THEN @ \cup {<<k, lore[k]>>} ELSE @]
    /\ Watch /\ UNCHANGED <<acData, packet, answer, ctxWrites, ctxCalls>>

ReadGotchaFails(k) ==
    /\ draft.pc = "gotchas" /\ k \in draft.left /\ MayFail({k})
    /\ draft' = [draft EXCEPT !.left = @ \ {k}, !.failed = @ \cup {k}]
    /\ Watch /\ UNCHANGED <<acData, packet, answer, ctxWrites, ctxCalls>>

GotchasRead ==
    /\ draft.pc = "gotchas" /\ draft.left = {}
    /\ draft' = [draft EXCEPT !.pc = "review"]
    /\ Watch /\ UNCHANGED <<acData, packet, answer, ctxWrites, ctxCalls>>

\* The stale reviews of today and yesterday add warnings for other files.
ReadReviews(fs) ==
    /\ draft.pc = "review"
    /\ draft' = [draft EXCEPT !.pc = "decisions", !.warned = @ \cup fs]
    /\ Watch /\ UNCHANGED <<acData, packet, answer, ctxWrites, ctxCalls>>

\* Linked decisions whatever their lifecycle; without one that could be read, the
\* most trusted active ones, or none when their scan fails as well.
ReadDecisions ==
    /\ draft.pc = "decisions"
    /\ \E lost \in SUBSET (CtxDecisions \cap draft.decKeys), noScan \in BOOLEAN :
       LET linked == {d \in (CtxDecisions \cap draft.decKeys) \ lost : plan[d].life # "none"}
           live == {d \in CtxDecisions : plan[d].life = "active"} IN
       /\ lost # {} \/ noScan => MayFail(lost \cup IF noScan THEN {"decision:"} ELSE {})
       /\ \E decs \in IF linked # {} THEN {linked} ELSE IF noScan THEN {{}}
                      ELSE {s \in SUBSET live : /\ Cardinality(s) <= FallbackLimit
                                                /\ Cardinality(s) < FallbackLimit => s = live
                                                /\ \A d \in s, e \in live \ s : plan[d].conf >= plan[e].conf} :
          draft' = [draft EXCEPT !.pc = "format", !.decs = {<<d, plan[d].cost>> : d \in decs}]
    /\ Watch /\ UNCHANGED <<acData, packet, answer, ctxWrites, ctxCalls>>

\* A section: lines are added in order until one does not fit.
Spent(used, lines) ==
    LET sum[n \in 0 .. Len(lines)] == IF n = 0 THEN used ELSE sum[n - 1] + lines[n][2]
    IN  sum
Section(used, lines) ==
    LET fit == Max({n \in 0 .. Len(lines) : Spent(used, lines)[n] <= Avail})
    IN  [used |-> Spent(used, lines)[fit], shown |-> {lines[i][1] : i \in 1 .. fit}]

\* The orders of S by a falling score; equal scores are in the order of a hash set.
Falling(S, score) ==
    {s \in [1 .. Cardinality(S) -> S] :
        \A i, j \in 1 .. Cardinality(S) : i < j => s[i] # s[j] /\ score[s[i]] >= score[s[j]]}

Critical(c) == {p \in c.found : QualityTier(p[2].quality) # "suppressed"}

\* The gotcha section: a line per rule, then one line for all co-change partners.
Rules(c) == {p \in Critical(c) : p[1] \notin CochangeKeys}
Rankings(c) == Falling(Rules(c), [p \in Rules(c) |-> Score(p[2])])
RuleSection(c, lines) ==
    LET partners == {p[1] : p \in Critical(c)} \cap CochangeKeys
        s == Section(IF c.stage <= Avail THEN c.stage ELSE 0,
                     [i \in DOMAIN lines |-> <<lines[i][1], lines[i][2].text.cost>>])
        shared == partners # {} /\ s.used + 1 <= Avail
    IN  [used |-> IF shared THEN s.used + 1 ELSE s.used, room |-> Avail - s.used,
         shown |-> s.shown \cup IF shared THEN partners ELSE {}]

\* The purposes of the context files.
FileSection(used, c) == Section(used, SetToSeq({<<r.file, r.cost>> : r \in {x \in c.recs : x.cost > 0}}))

\* The three most depended-upon of them.
ImpactSection(used, c) ==
    LET hit == {r \in c.recs : r.blast > 0}
        ranked == CHOOSE s \in Falling(hit, [r \in hit |-> r.blast]) : TRUE
    IN  Section(used, [i \in 1 .. Min({3, Cardinality(hit)}) |-> <<ranked[i].file, 1>>])

\* Warnings, decisions and nudges, each while there is room.
TailSections(used, c) ==
    LET stale == Section(used, SetToSeq({<<f, 1>> : f \in c.warned}))
        decided == Section(stale.used, SetToSeq(c.decs))
    IN  Section(decided.used, SetToSeq({<<f, 1>> : f \in c.nudged}))

Compose(c, ranked) ==
    LET rules == RuleSection(c, ranked)
        filed == FileSection(rules.used, c)
        impact == ImpactSection(filed.used, c)
    IN  [gotchas |-> Critical(c), shown |-> rules.shown, room |-> rules.room,
         used |-> TailSections(impact.used, c).used]

Format ==
    /\ draft.pc = "format"
    /\ LET seen == Joined(ever, Seen(draft.files)) IN
       \E ranked \in Rankings(draft) :
          packet' = {[told |-> Compose(draft, ranked), due |-> {p[2] : p \in {x \in held \cap Due(draft.files) : ~Excused(draft.failed, x)}},
                      could |-> seen.linked \cap seen.trusted]}
    /\ draft' = NoDraft /\ held' = {} /\ ever' = Unseen
    /\ UNCHANGED <<acData, answer, ctxWrites, ctxCalls>>

-----------------------------------------------------------------------------
(* The writers a call meets: mem_set of other agents, the staleness analysis and *)
(* the developer's `mati improve`.                                               *)

\* The typed command a mem_set request becomes. full: the payload, given as an
\* object or as a string holding one, has the required fields non-empty.
BuildMemSetCommand(p) ==
    CASE p.action \in {"confirm", "delete"} /\ p.kind # "gotcha" -> "error"
      [] p.action = "confirm" -> "gotcha_confirm"
      [] p.action = "delete" -> "gotcha_tombstone"
      [] p.action # "write" \/ p.bare \/ ~p.full -> "error"
      [] p.kind = "gotcha" -> "gotcha_upsert"
      [] p.kind = "decision" -> "decision_upsert"
      [] p.kind = "dev_note" -> "dev_note_upsert"
      [] OTHER -> "error"

MemSetRequests == [action : {"write", "confirm", "delete", "other"}, kind : {"gotcha", "decision", "dev_note", "file"},
                   bare : BOOLEAN, full : BOOLEAN]
MemSetCommands == {BuildMemSetCommand(p) : p \in MemSetRequests}

\* gotcha_upsert: "rule because reason" is the new text, the confirmation is gone,
\* a tombstoned record starts over; its files get the link back.
Upsert(k, t, prio) ==
    LET r == lore[k] old == IF r.life = "active" THEN r ELSE [r EXCEPT !.stale = "fresh", !.ref = FALSE]
        new == [old EXCEPT !.life = "active", !.text = [t EXCEPT !.cause = TRUE], !.prio = prio,
                           !.source = "enrich", !.confirmed = FALSE]
    IN  /\ lore' = [lore EXCEPT ![k] = [new EXCEPT !.quality = Quality(new)]]
        /\ tree' = [f \in CtxFiles |-> IF f \notin r.files THEN tree[f]
                    ELSE IF tree[f].life = "none"
                         THEN [tree[f] EXCEPT !.life = "active", !.stale = "fresh", !.keys = {k}, !.purpose = 0]
                         ELSE [tree[f] EXCEPT !.keys = @ \cup {k}]]

Confirm(k) ==
    /\ lore[k].life = "active"
    /\ lore' = [lore EXCEPT ![k] = [@ EXCEPT !.confirmed = TRUE, !.source = "dev", !.quality = Quality(lore[k])]]
    /\ tree' = [f \in CtxFiles |-> IF f \in lore[k].files /\ tree[f].life # "none"
                                   THEN [tree[f] EXCEPT !.keys = @ \cup {k}] ELSE tree[f]]

Tombstone(k) ==
    /\ lore[k].life # "none"
    /\ lore' = [lore EXCEPT ![k].life = "dead"]
    /\ tree' = [f \in CtxFiles |-> [tree[f] EXCEPT !.keys = @ \ {k}]]

\* A mem_set about a gotcha. Requests about other records, and refused ones,
\* change nothing a packet of gotchas is made of.
MemSet(cmd, k, t) ==
    /\ \/ cmd = "gotcha_upsert" /\ \E prio \in {2, 4} : Upsert(k, t, prio)
       \/ cmd = "gotcha_confirm" /\ Confirm(k)
       \/ cmd = "gotcha_tombstone" /\ Tombstone(k)
    /\ UNCHANGED <<plan, web>>

\* The edges of a written gotcha follow once no call holds the graph's lock.
SettleEdges(k) ==
    /\ draft.pc = "idle"
    /\ web' = {e \in web : e[3] # k \/ e[2] # "has_gotcha"}
                \cup IF lore[k].life = "active" THEN {<<f, "has_gotcha", k>> : f \in lore[k].files} ELSE {}
    /\ web' # web
    /\ UNCHANGED <<lore, tree, plan>>

\* The staleness analysis moves a record or a file to another tier.
Decay ==
    /\ \/ \E k \in Lore, s \in {"fresh", "tombstone"} :
            lore[k].life = "active" /\ lore' = [lore EXCEPT ![k].stale = s] /\ UNCHANGED tree
       \/ \E f \in CtxFiles, s \in {"stale", "tombstone"} :
            tree[f].life = "active" /\ tree' = [tree EXCEPT ![f].stale = s] /\ UNCHANGED lore
    /\ UNCHANGED <<plan, web>>

\* `mati improve`: a new text that passes the gate replaces the old one, whatever
\* the record's lifecycle.
Improve(k, t) ==
    LET new == Analyze(t, lore[k].prio, lore[k].ref) IN
    /\ draft.pc = "idle" /\ lore[k].life # "none"
    /\ ~BelowQualityGate(new)
    /\ lore' = [lore EXCEPT ![k].text = t, ![k].quality = new]
    /\ UNCHANGED <<tree, plan, web>>

ContextWrite ==
    /\ ctxWrites + Cardinality(draft.failed) < MaxCtxEvents /\ ctxWrites' = ctxWrites + 1
    /\ \/ \E cmd \in MemSetCommands, k \in Lore, t \in Texts : MemSet(cmd, k, t)
       \/ Decay
       \/ \E k \in Lore, t \in Texts : Improve(k, t)
    /\ acData' # acData
    /\ UNCHANGED <<draft, packet, answer, ctxCalls>>
    /\ IF draft.pc = "idle" THEN UNCHANGED <<held, ever>>
       ELSE held' = held \cap Due(draft.files)' /\ ever' = Joined(ever, Seen(draft.files)')

-----------------------------------------------------------------------------
(* mem_query *)

GroupNos == 1 .. Len(GroupCaps)
Sizes(hood) == [i \in GroupNos |-> Min({Len(hood[i]), GroupCaps[i]})]
\* f[i] slots of each kind i, as <<round, kind>>.
Slots(f) == UNION {(1 .. f[i]) \X {i} : i \in GroupNos}
Total(f) == Cardinality(Slots(f))

\* Slots are handed out one per kind and round, until none are left or wanted: the
\* r-th slot of kind i comes after every earlier round and the kinds before it.
Quotas(sizes, limit) ==
    LET Turn(r, i) == Cardinality({s \in Slots(sizes) : s[1] < r \/ (s[1] = r /\ s[2] <= i)})
    IN  [i \in GroupNos |-> Cardinality({r \in 1 .. sizes[i] : Turn(r, i) <= limit})]

Actives(seq, n) == Cardinality({j \in 1 .. Min({n, Len(seq)}) : seq[j]})

\* Graph mode: the active ones among the first neighbours of each kind; dependency
\* neighbours take what is left of the limit.
QueryGraph(hood, deps, limit) ==
    LET q == Quotas(Sizes(hood), limit) IN
    [q |-> q, got |-> [i \in GroupNos |-> Actives(hood[i], q[i])],
     deps |-> Actives(deps, Min({DepCap, limit - Total(q)}))]

\* Tag mode scans the namespaces in order until the limit is reached.
QueryTag(scan, limit) ==
    Min({limit, Cardinality({j \in DOMAIN scan : scan[j].active /\ scan[j].match})})

\* The best hits of the search index, dead records and internal ones among them.
TopHits(scan, limit) ==
    {j \in DOMAIN scan : scan[j].match /\ Cardinality({i \in 1 .. j : scan[i].match}) <= limit}

\* Text mode takes them and then leaves out what an agent may not see.
QueryText(scan, limit) == Cardinality({j \in TopHits(scan, limit) : scan[j].active /\ scan[j].told})

\* A request's limit is cut to MAX_QUERY_LIMIT.
MemQuery(want) ==
    LET limit == Min({want, MaxQueryLimit}) IN
    /\ answer = {}
    /\ \/ \E hood \in Hoods : \E deps \in {<<>>, <<TRUE, FALSE, TRUE>>} :
            answer' = {[mode |-> "graph", limit |-> limit, hood |-> hood, told |-> QueryGraph(hood, deps, limit)]}
       \/ \E scan \in Scans : \E mode \in {"tag", "text"} :
            answer' = {[mode |-> mode, limit |-> limit, scan |-> scan,
                        n |-> IF mode = "tag" THEN QueryTag(scan, limit) ELSE QueryText(scan, limit)]}
    /\ UNCHANGED <<acData, draft, packet, held, ever, ctxWrites, ctxCalls>>

-----------------------------------------------------------------------------
AcInit ==
    /\ \E b \in CtxBases : lore = b.lore /\ tree = b.tree /\ plan = b.plan /\ web = b.web
    /\ draft = NoDraft /\ packet = {} /\ held = {} /\ ever = Unseen /\ answer = {}
    /\ ctxWrites = 0 /\ ctxCalls = 0

AcStep ==
    \/ \E fs \in SUBSET CtxFiles : Begin(fs) \/ ReadReviews(fs)
    \/ \E f \in CtxFiles : ReadFile(f) \/ ReadFileFails(f)
    \/ \E k \in Lore : ReadGotcha(k) \/ ReadGotchaFails(k)
    \/ ContextFails \/ ScanGotchas \/ FilesRead \/ GotchasRead \/ ReadDecisions \/ Format
    \/ ContextWrite
    \/ /\ \E k \in Lore : SettleEdges(k)
       /\ UNCHANGED <<draft, packet, held, ever, answer, ctxWrites, ctxCalls>>

\* asking: the behaviour is one query; otherwise it is calls and writers.
AcNext(asking) ==
    IF asking THEN \E want \in QueryLimits : MemQuery(want) ELSE AcStep

AcSpec == AcInit /\ [][\E asking \in BOOLEAN : AcNext(asking)]_acVars

-----------------------------------------------------------------------------
(* Properties *)

\* What mem_bootstrap tells an agent, while other connections write and reads fail. A
\* gotcha in the packet was linked to what is asked about at some moment of the call,
\* and at some moment of it confirmed (or found by analysis), alive and good enough;
\* one that all the time was all that, and linked to the same file, is in the packet,
\* or the call could not read it, or could not read the file's record, the only thing
\* that names it: nothing in the packet says so (tools.rs:562, 642). The lines fit the
\* budget; a gotcha left out for lack of room has no less trusted one shown in its
\* place.
PacketHonest ==
    \A p \in packet :
        LET gs == p.told.gotchas shown == p.told.shown
            keys == {g[1] : g \in gs}
            Left(g) == g[1] \notin CochangeKeys /\ g[1] \notin shown IN
        /\ p.due \subseteq keys /\ keys \subseteq p.could
        /\ p.told.used <= Avail /\ shown \subseteq keys
        /\ \A g, h \in gs : g[1] \in shown \ CochangeKeys /\ Left(h) => Score(h[2]) <= Score(g[2])
        /\ (\E h \in gs : Left(h)) => \E g \in gs : Left(g) /\ g[2].text.cost > p.told.room

\* The score an injected rule is judged by is the score of the wording it has now:
\* every way of confirming or rewriting a gotcha scores it again.
QualityCurrent ==
    \A k \in Lore : lore[k].life = "active" /\ lore[k].confirmed => lore[k].quality = Quality(lore[k])

\* Advice that helps: a text with a hint followed scores no worse, and one with no
\* hint left passes the injection threshold.
HintsHelp ==
    \A t \in Texts, prio \in {2, 4}, ref \in BOOLEAN :
        LET hints == Hints(Signals(t, prio, ref)) v == Analyze(t, prio, ref) IN
        /\ "causality" \in hints => Analyze([t EXCEPT !.cause = TRUE], prio, ref) >= v
        /\ "imperative" \in hints => Analyze([t EXCEPT !.verb = TRUE], prio, ref) >= v
        /\ "vague" \in hints => Analyze([t EXCEPT !.vague = FALSE], prio, ref) >= v
        /\ "length" \in hints => Analyze([t EXCEPT !.len = 100], prio, ref) >= v
        /\ hints = {} => QualityTier(v) \in {"good", "excellent"}

\* mem_query gives no more than was asked for. In graph mode no slot is wasted and a
\* kind of neighbour gets a second slot only when every other kind has had one or
\* has run out, so a file with many gotchas does not hide its imports; a tag query
\* that answers less than the limit has answered with every match.
AnswersFair ==
    \A a \in answer :
        IF a.mode # "graph"
        THEN /\ a.n <= a.limit
             /\ a.mode = "tag" /\ a.n < a.limit =>
                  a.n = Cardinality({j \in DOMAIN a.scan : a.scan[j].active /\ a.scan[j].match})
        ELSE LET sizes == Sizes(a.hood) q == a.told.q IN
             /\ Total(q) = Min({a.limit, Total(sizes)})
             /\ \A i, j \in GroupNos : q[i] < sizes[i] => q[j] <= q[i] + 1
             /\ Total(a.told.got) + a.told.deps <= a.limit

\* What an agent is told, a packet or an answer of mem_query, is true of the store
\* and leaves out the right things (mem_bootstrap, mem_query).
ContextHonest == PacketHonest /\ QualityCurrent /\ AnswersFair /\ HintsHelp
=============================================================================

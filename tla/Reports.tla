------------------------------- MODULE Reports --------------------------------
(* The reports over the knowledge base: status, stats, stale, gaps, ls, explain  *)
(* and doctor's freshness check, each its own computation, four of them with a   *)
(* cached answer that is good while health_write_seq stands still.               *)
(* Keys are numbers: file, gotcha and decision keys in scan order. The bump of   *)
(* the sequence succeeds here; StoreSync has the writes whose bump fails.        *)
EXTENDS Integers, Sequences, FiniteSets, SequencesExt

CONSTANTS FileKeys, GotchaNos, DecisionNos,
          Bases,          \* knowledge bases to start from: [file, gotcha, decision]
          TestFiles,      \* source files with a test file beside them
          NonSource,      \* files whose extension is no source language
          FanIn,          \* files importing each file, from the graph
          FanInThreshold, SnapshotMaxAge, Limits, MinRisks,
          MaxWrites, MaxDay, MaxHooks

VARIABLES file, gotcha, decision,    \* the records
          wseq,                      \* health_write_seq
          day,
          driftMarked,               \* the index-drift marker, an analytics record
          hookEvents,                \* what hooks counted and logged: no knowledge record
          cache,                     \* analytics records: [report -> entry]
          gapsRun,                   \* a direct `mati gaps` that closed the store to load the graph
          initRun,                   \* init between its seeds and its last writes
          cut                        \* history: an init died after it had seeded

FileRecords == [st : {"active", "tombstone"}, purpose : BOOLEAN, hot : BOOLEAN, keys : SUBSET GotchaNos,
                tier : Nat, prop : Nat, reads : Nat, entries : BOOLEAN, freq : Nat]
GotchaRecords == [st : {"active", "tombstone"}, tier : Nat, confirmed : {"yes", "no", "none"}, files : SUBSET FileKeys]
DecisionRecords == [st : {"active", "absent"}, tier : Nat, linked : BOOLEAN, born : Nat]

ASSUME ReportsAssumption ==
    /\ IsFiniteSet(FileKeys) /\ IsFiniteSet(GotchaNos) /\ IsFiniteSet(DecisionNos)
    /\ Bases \subseteq [file : [FileKeys -> FileRecords], gotcha : [GotchaNos -> GotchaRecords],
                        decision : [DecisionNos -> DecisionRecords]]

base == <<file, gotcha, decision>>
unbumped == <<driftMarked, hookEvents>>        \* what changes while the sequence stands still
reportVars == <<file, gotcha, decision, wseq, day, driftMarked, hookEvents, cache, gapsRun, initRun, cut>>

ReportNames == {"status", "stats", "stale", "gaps", "ls"}
NoEntry == [seq |-> -1, at |-> 0, limit |-> 0, seeded |-> FALSE, val |-> <<>>]
NoGapsRun == [on |-> FALSE, seq |-> 0, val |-> {}, at |-> 0]

Live(recs) == {k \in DOMAIN recs : recs[k].st = "active"}
Known(recs) == {k \in DOMAIN recs : recs[k].st # "absent"}
Flagged(recs, ks) == {k \in ks : recs[k].tier >= 1}     \* Stale, Liability or Tombstone tier

-----------------------------------------------------------------------------
(* Knowledge gaps (health/gaps.rs), risks in tenths.                            *)

Testable(f) == f \notin NonSource
Gap(k, type, risk) == [key |-> k, type |-> type, risk |-> risk]

DetectHotFileNoRecord(fs) ==
    {Gap(f, "HotFileNoRecord", 10 * file[f].freq) : f \in {f \in fs :
        Testable(f) /\ file[f].hot /\ ~file[f].purpose /\ file[f].keys = {} /\ ~file[f].entries}}
\* Mutant: also the files DetectHotFileNoRecord has.
DetectHotFileNoPurposeAny(fs) ==
    {Gap(f, "HotFileNoPurpose", 7 * file[f].freq) : f \in {f \in fs :
        Testable(f) /\ file[f].hot /\ ~file[f].purpose}}
DetectHotFileNoPurpose(fs) ==
    {Gap(f, "HotFileNoPurpose", 7 * file[f].freq) : f \in {f \in fs :
        Testable(f) /\ file[f].hot /\ ~file[f].purpose /\ (file[f].keys # {} \/ file[f].entries)}}
DetectHotFileNoGotchas(fs) ==
    {Gap(f, "HotFileNoGotchas", 5 * file[f].freq) : f \in {f \in fs :
        file[f].hot /\ file[f].purpose /\ file[f].keys = {}}}
DetectFrequentlyReadNoEnrich(fs) ==
    {Gap(f, "FrequentlyReadNoEnrich", 8 * file[f].freq) : f \in {f \in fs : file[f].reads > 0 /\ ~file[f].purpose}}
\* The risk of a decision without files grows with its age (30 days make 1.0).
DetectOrphanedDecisions(ds, today) ==
    {Gap(d, "OrphanedDecision", (10 * (today - decision[d].born)) \div 30) : d \in {d \in ds : ~decision[d].linked}}
DetectStaleHotspots(fs) ==
    {Gap(f, "StaleHotspot", 7 * file[f].freq) : f \in {f \in fs : file[f].hot /\ file[f].tier >= 1}}
DetectHotFileNoTests(fs) ==
    {Gap(f, "HotFileNoTests", 10 * file[f].freq) : f \in {f \in fs :
        file[f].hot /\ Testable(f) /\ f \notin TestFiles}}
DetectHighFanIn(fs, fanIn) ==
    {Gap(f, "HighFanInNoContract", 10 * fanIn[f]) : f \in {f \in fs :
        f \in DOMAIN fanIn /\ fanIn[f] >= FanInThreshold /\ file[f].keys = {}}}

NoFanIn == [f \in {} |-> 0]
Analyze(fs, ds, fanIn, today) ==
    DetectHotFileNoRecord(fs) \cup DetectHotFileNoPurpose(fs) \cup DetectHotFileNoGotchas(fs) \cup
    DetectFrequentlyReadNoEnrich(fs) \cup DetectOrphanedDecisions(ds, today) \cup
    DetectStaleHotspots(fs) \cup DetectHotFileNoTests(fs) \cup DetectHighFanIn(fs, fanIn)

TypeRank == [t \in {"HotFileNoRecord", "HotFileNoPurpose", "HotFileNoGotchas", "FrequentlyReadNoEnrich",
                    "OrphanedDecision", "StaleHotspot", "HotFileNoTests", "HighFanInNoContract"} |->
                CASE t = "HotFileNoRecord" -> 1 [] t = "HotFileNoPurpose" -> 2 [] t = "HotFileNoGotchas" -> 3
                  [] t = "FrequentlyReadNoEnrich" -> 4 [] t = "OrphanedDecision" -> 5 [] t = "StaleHotspot" -> 6
                  [] t = "HotFileNoTests" -> 7 [] OTHER -> 8]
\* Sorted by risk; the sort is stable in the order of the detectors.
ByRisk(a, b) == \/ a.risk > b.risk
                \/ a.risk = b.risk /\ TypeRank[a.type] < TypeRank[b.type]
                \/ a.risk = b.risk /\ a.type = b.type /\ a.key < b.key
Shorten(s, n) == IF Len(s) <= n THEN s ELSE SubSeq(s, 1, n)
ShownGaps(gaps, minRisk, limit) ==
    Shorten(SelectSeq(SetToSortSeq(gaps, ByRisk), LAMBDA g : g.risk >= minRisk), limit)

-----------------------------------------------------------------------------
(* The other reports.                                                           *)

\* cli/status.rs: the snapshot.
StatusConfirmed(gs) == {g \in gs : gotcha[g].confirmed = "yes"}
StatusSnapshot ==
    [files |-> Cardinality(Live(file)), gotchas |-> Cardinality(Live(gotcha)),
     decisions |-> Cardinality(Live(decision)), confirmed |-> Cardinality(StatusConfirmed(Live(gotcha))),
     hotspots |-> Cardinality({f \in Live(file) : file[f].hot})]
\* What a status that computes prints besides: the drift warning, the day's
\* allow-after-receipts, and the trust section.
Unconfirmed == {g \in Live(gotcha) : gotcha[g].confirmed = "no"}
TrustView ==
    [unconfirmed |-> Cardinality(Live(gotcha)) - Cardinality(StatusConfirmed(Live(gotcha))),
     onHotspots |-> Cardinality({g \in Unconfirmed : \E f \in gotcha[g].files \cap Live(file) : file[f].hot}),
     stale |-> Cardinality(Flagged(gotcha, Live(gotcha))) + Cardinality(Flagged(decision, Live(decision)))]
StatusView == [snapshot |-> StatusSnapshot, today |-> hookEvents, drift |-> driftMarked, trust |-> TrustView]
\* display_cached_status: no warning and no trust section.
CachedStatusView(snapshot) == [snapshot |-> snapshot, today |-> hookEvents]

\* cli/stats.rs: a payload without the flag counts as confirmed.
StatsConfirmed(gs) == {g \in gs : gotcha[g].confirmed # "no"}
Coverage(part, whole) == IF whole = {} THEN 0 ELSE (100 * Cardinality(part)) \div Cardinality(whole)
\* health/onboarding.rs.
Onboarding(fs, ds) ==
    LET hot == {f \in fs : file[f].hot} IN
    [critical |-> Coverage({f \in hot : file[f].purpose}, hot),
     gotchas |-> Coverage({f \in hot : file[f].keys # {}}, hot)]
EstimatedTenths(o) == 220 - (22 * (o.critical * 40 + o.gotchas * 25)) \div 1000
StatsSnapshot(fs, ds, gaps) ==
    [purpose |-> Cardinality({f \in fs : file[f].purpose}), total |-> Cardinality(fs),
     decisions |-> Cardinality(ds), gaps |-> Cardinality(gaps),
     orphaned |-> Cardinality({g \in gaps : g.type = "OrphanedDecision"}),
     uncovered |-> Cardinality({f \in fs : file[f].hot /\ ~file[f].purpose}),
     minutes |-> EstimatedTenths(Onboarding(fs, ds))]
LiveSnapshot == StatsSnapshot(Live(file), Live(decision), Analyze(Live(file), Live(decision), NoFanIn, day))
\* The snapshot's record has the week's compliance counts beside the base's
\* figures, and it is all that display_cached_stats prints.
StatsRecord == [snapshot |-> LiveSnapshot, compliance |-> hookEvents]
\* seed_snapshot: no gaps, no orphaned decisions and no compliance.
SeededStats == [snapshot |-> StatsSnapshot(Live(file), {}, {}), compliance |-> 0]
\* A stats that computes also prints what no snapshot has.
StatsView ==
    [snapshot |-> LiveSnapshot, compliance |-> hookEvents,
     stale |-> Cardinality(Flagged(gotcha, Live(gotcha))),
     chains |-> Cardinality({f \in Live(file) : file[f].prop > 0}),
     enforcement |-> hookEvents,
     backlog |-> Cardinality(Unconfirmed)]

\* cli/stale.rs: every record of the four namespaces, whatever its lifecycle.
EffectiveStaleness(k) == IF k \in FileKeys /\ file[k].prop > file[k].tier THEN file[k].prop ELSE
                         IF k \in FileKeys THEN file[k].tier
                         ELSE IF k \in GotchaNos THEN gotcha[k].tier ELSE decision[k].tier
\* The scans are chained: gotchas, decisions, files.
ScanRank(k) == IF k \in GotchaNos THEN 0 ELSE IF k \in DecisionNos THEN 1 ELSE 2
Staler(tiers, a, b) == \/ tiers[a] > tiers[b]
                       \/ tiers[a] = tiers[b] /\ ScanRank(a) < ScanRank(b)
                       \/ tiers[a] = tiers[b] /\ ScanRank(a) = ScanRank(b) /\ a < b
ByStaleness(ks, tiers) == SetToSortSeq(ks, LAMBDA a, b : Staler(tiers, a, b))
Tiers(ks) == [k \in ks |-> EffectiveStaleness(k)]
StaleRecords == Flagged(file, Known(file)) \cup Flagged(gotcha, Known(gotcha)) \cup Flagged(decision, Known(decision))
StaleList == ByStaleness(StaleRecords, Tiers(StaleRecords))
SeededStale == LET seen == Flagged(file, Live(file)) IN ByStaleness(seen, Tiers(seen))

\* ls files: printed in key order, cached hotspots first.
InKeyOrder(ks) == SetToSortSeq(ks, <)
HotFiles == {f \in Live(file) : file[f].hot}
HotspotsFirst == InKeyOrder(HotFiles) \o InKeyOrder(Live(file) \ HotFiles)
UpTo(s, limit) == IF limit = 0 THEN s ELSE Shorten(s, limit)
LsFiles(rows, limit) == [total |-> Cardinality(Live(file)), rows |-> UpTo(rows, limit)]

\* explain: the linked active gotchas, or a scan when there are none.
Explain(f) ==
    LET linked == {g \in file[f].keys : gotcha[g].st = "active"} IN
    IF linked # {} THEN linked ELSE {g \in Live(gotcha) : f \in gotcha[g].files}

-----------------------------------------------------------------------------
(* The commands. A command in direct mode holds the store; through the daemon   *)
(* the cache is read and its put refused.                                       *)

CacheEntry(val) == [NoEntry EXCEPT !.seq = wseq, !.at = day, !.val = val]
Hit(report) == cache[report].seq = wseq
YoungHit(report) == Hit(report) /\ day - cache[report].at < SnapshotMaxAge
Cached(report) == cache[report].val
Store(direct, report, entry) == cache' = IF direct THEN [cache EXCEPT ![report] = entry] ELSE cache
Free == ~initRun
Computed == Free /\ UNCHANGED <<base, wseq, day, unbumped, gapsRun, initRun, cut>>

\* What each command prints.
StatusAnswer == IF YoungHit("status") THEN CachedStatusView(Cached("status")) ELSE StatusView
StatsAnswer == IF YoungHit("stats") THEN Cached("stats") ELSE StatsView
StaleAnswer(limit) == Shorten(IF Hit("stale") THEN Cached("stale") ELSE StaleList, limit)
\* doctor's freshness check: nothing is said of a cold cache.
DoctorAnswer == IF Hit("stale") THEN {Len(Cached("stale"))} ELSE {}
\* Mutant: the cached table serves any limit.
LsKeyedAny(limit) == Hit("ls")
LsKeyed(limit) == Hit("ls") /\ cache["ls"].limit = limit
LsAnswer(limit) == IF LsKeyed(limit) THEN Cached("ls") ELSE LsFiles(InKeyOrder(Live(file)), limit)
GapsDue(direct, today) == Analyze(Known(file), Known(decision), IF direct THEN FanIn ELSE NoFanIn, today)
GapsHit == wseq > 0 /\ Hit("gaps")
GapsAnswer(direct, minRisk, limit) ==
    ShownGaps(IF GapsHit THEN Cached("gaps") ELSE GapsDue(direct, day), minRisk, limit)

\* And what a command that found no entry leaves in the cache.
RunStatus(direct) == Computed /\ ~YoungHit("status") /\ Store(direct, "status", CacheEntry(StatusSnapshot))
RunStats(direct) == Computed /\ ~YoungHit("stats") /\ Store(direct, "stats", CacheEntry(StatsRecord))
RunStale(direct) == Computed /\ ~Hit("stale") /\ Store(direct, "stale", CacheEntry(StaleList))
RunLs(direct, limit) ==
    /\ Computed /\ ~LsKeyed(limit) /\ Live(file) # {}
    /\ Store(direct, "ls", [CacheEntry(LsFiles(HotspotsFirst, limit)) EXCEPT !.limit = limit])

\* gaps caches all gaps, unfiltered. The store is closed with the graph and
\* opened again for the cache; through the daemon there is no fan-in and no put.
Gaps ==
    /\ Free /\ ~GapsHit /\ ~gapsRun.on
    /\ gapsRun' = [on |-> TRUE, seq |-> wseq, val |-> GapsDue(TRUE, day), at |-> day]
    /\ UNCHANGED <<base, wseq, day, unbumped, cache, initRun, cut>>
\* Mutant: the entry carries the sequence of the time it is written.
GapsEntryLate == [CacheEntry(gapsRun.val) EXCEPT !.at = gapsRun.at]
GapsEntry == [CacheEntry(gapsRun.val) EXCEPT !.seq = gapsRun.seq, !.at = gapsRun.at]
GapsCaches ==
    /\ Free /\ gapsRun.on /\ gapsRun' = NoGapsRun
    /\ cache' = [cache EXCEPT !["gaps"] = GapsEntry]
    /\ UNCHANGED <<base, wseq, day, unbumped, initRun, cut>>
GapsDies == gapsRun.on /\ gapsRun' = NoGapsRun /\ UNCHANGED <<base, wseq, day, unbumped, cache, initRun, cut>>

-----------------------------------------------------------------------------
(* What changes the base: every write of a knowledge record bumps the sequence. *)

Wrote == /\ Free /\ wseq < MaxWrites /\ wseq' = wseq + 1
         /\ UNCHANGED <<day, unbumped, cache, gapsRun, initRun, cut>>
EnrichFile(f) == /\ Wrote /\ file[f].st = "active"
                 /\ file' = [file EXCEPT ![f].purpose = TRUE] /\ UNCHANGED <<gotcha, decision>>
AgeFile(f) == /\ Wrote /\ file[f].st # "absent" /\ file[f].tier = 0
              /\ file' = [file EXCEPT ![f].tier = 1] /\ UNCHANGED <<gotcha, decision>>
ReadFile(f) == /\ Wrote /\ file[f].st = "active" /\ file[f].reads = 0
               /\ file' = [file EXCEPT ![f].reads = 1] /\ UNCHANGED <<gotcha, decision>>
RemoveGotcha(g) == /\ Wrote /\ gotcha[g].st = "active"
                   /\ gotcha' = [gotcha EXCEPT ![g].st = "tombstone"]
                   /\ file' = [f \in FileKeys |-> [file[f] EXCEPT !.keys = @ \ {g}]] /\ UNCHANGED decision
ConfirmGotcha(g) == /\ Wrote /\ gotcha[g].st = "active" /\ gotcha[g].confirmed # "yes"
                    /\ gotcha' = [gotcha EXCEPT ![g].confirmed = "yes"] /\ UNCHANGED <<file, decision>>
RecordDecision(d) == /\ Wrote /\ decision[d].st = "absent"
                     /\ decision' = [decision EXCEPT ![d].st = "active", ![d].born = day] /\ UNCHANGED <<file, gotcha>>

\* A cold init seeds two caches, then stores the blast radius of every file.
InitSeeds ==
    /\ Free /\ wseq < MaxWrites - 1 /\ wseq' = wseq + 1 /\ initRun' = TRUE
    /\ cache' = [cache EXCEPT
          !["stats"] = [NoEntry EXCEPT !.seq = wseq', !.at = day, !.val = SeededStats, !.seeded = TRUE],
          !["stale"] = [NoEntry EXCEPT !.seq = wseq', !.at = day, !.val = SeededStale, !.seeded = TRUE]]
    /\ UNCHANGED <<base, day, unbumped, gapsRun, cut>>
InitEnds == /\ initRun /\ initRun' = FALSE /\ wseq' = wseq + 1
            /\ UNCHANGED <<base, day, unbumped, cache, gapsRun, cut>>
InitIsCut == /\ initRun /\ initRun' = FALSE /\ cut' = TRUE
            /\ UNCHANGED <<base, wseq, day, unbumped, cache, gapsRun>>
Tomorrow == day < MaxDay /\ day' = day + 1 /\ UNCHANGED <<base, wseq, unbumped, cache, gapsRun, initRun, cut>>

\* Analytics records and enforcement events bump nothing.
Unbumped == Free /\ UNCHANGED <<base, wseq, day, cache, gapsRun, initRun, cut>>
MarkDrift == Unbumped /\ ~driftMarked /\ driftMarked' = TRUE /\ UNCHANGED hookEvents
ClearDrift == Unbumped /\ driftMarked /\ driftMarked' = FALSE /\ UNCHANGED hookEvents
HookRuns == Unbumped /\ hookEvents < MaxHooks /\ hookEvents' = hookEvents + 1 /\ UNCHANGED driftMarked

ReportsInit ==
    /\ \E b \in Bases : file = b.file /\ gotcha = b.gotcha /\ decision = b.decision
    /\ wseq = 0 /\ day = 0 /\ driftMarked = FALSE /\ hookEvents = 0 /\ cache = [r \in ReportNames |-> NoEntry]
    /\ gapsRun = NoGapsRun /\ initRun = FALSE /\ cut = FALSE
\* The caches are independent of each other: a run may ask for some reports only.
ReportsNext(asked) ==
    \/ \E direct \in BOOLEAN :
          \/ "status" \in asked /\ RunStatus(direct)
          \/ "stats" \in asked /\ RunStats(direct)
          \/ "stale" \in asked /\ RunStale(direct)
          \/ "ls" \in asked /\ \E n \in Limits : RunLs(direct, n)
    \/ "gaps" \in asked /\ (Gaps \/ GapsCaches \/ GapsDies)
    \/ {"stats", "stale"} \cap asked # {} /\ (InitSeeds \/ InitEnds \/ InitIsCut)
    \/ Tomorrow
    \/ "status" \in asked /\ (MarkDrift \/ ClearDrift)
    \/ {"status", "stats"} \cap asked # {} /\ HookRuns
    \/ \E f \in FileKeys : EnrichFile(f) \/ AgeFile(f) \/ ReadFile(f)
    \/ \E g \in GotchaNos : RemoveGotcha(g) \/ ConfirmGotcha(g)
    \/ \E d \in DecisionNos : RecordDecision(d)
ReportsSpec == ReportsInit /\ [][ReportsNext(ReportNames)]_reportVars

-----------------------------------------------------------------------------
(* Properties.                                                                  *)

\* A cached answer has every section of the computed one, with the same value.
SameBut(cached, computed, sections) ==
    \A s \in DOMAIN computed \ sections : s \in DOMAIN cached /\ cached[s] = computed[s]

\* An answer taken from a cache is the one the command would compute for its
\* arguments, whatever was asked before with other arguments, in whichever mode,
\* and whatever was written between a gaps run's scan and its cache; the risks of
\* gaps are those of the day they were computed. The exceptions: a seed that an
\* init left which died before its last write; a cached status without the drift
\* warning and the trust section; cached stats without the stale gotchas, the
\* chains, the enforcement section and the review backlog, and with the
\* compliance counts of the time of the snapshot; and a cached ls files that puts
\* the hotspots first, so that a limit cuts other rows off.
CacheTransparent ==
    LET SeedServed(report) == cache[report].seeded /\ Hit(report) IN
    Free =>
    /\ \A r \in DOMAIN cache : SeedServed(r) => cut
    /\ YoungHit("status") => SameBut(StatusAnswer, StatusView, {"drift", "trust"})
    /\ YoungHit("stats") /\ ~SeedServed("stats") =>
          SameBut(StatsAnswer, StatsView, {"stale", "chains", "enforcement", "backlog", "compliance"})
    /\ Hit("stale") /\ ~SeedServed("stale") =>
          /\ \A n \in Limits : StaleAnswer(n) = Shorten(StaleList, n)
          /\ DoctorAnswer = {Len(StaleList)}
    /\ Hit("ls") => \A n \in Limits :
          LsAnswer(n) = LsFiles(IF LsKeyed(n) THEN HotspotsFirst ELSE InKeyOrder(Live(file)), n)
    /\ GapsHit => \A n \in Limits, r \in MinRisks :
          GapsAnswer(TRUE, r, n) = ShownGaps(GapsDue(TRUE, cache["gaps"].at), r, n)

\* The reports agree where they speak of the same thing: a hot source file that
\* lacks a purpose or a gotcha has exactly one of the three gaps for it, stats
\* counts as uncovered the ones without purpose, explain shows the gotchas that
\* ls shows for the file while its links are exact, and the two counts of
\* confirmed gotchas differ by the payloads without the flag.
ReportsAgree ==
    LET gaps == Analyze(Live(file), Live(decision), NoFanIn, day)
        Of(f) == {g \in gaps : g.key = f /\ g.type \in {"HotFileNoRecord", "HotFileNoPurpose", "HotFileNoGotchas"}} IN
    /\ \A f \in Live(file) : file[f].hot /\ Testable(f) =>
          Cardinality(Of(f)) = IF file[f].purpose /\ file[f].keys # {} THEN 0 ELSE 1
    /\ LiveSnapshot.uncovered = Cardinality({g \in gaps : g.type \in {"HotFileNoRecord", "HotFileNoPurpose"}})
                                + Cardinality({f \in Live(file) \cap NonSource : file[f].hot /\ ~file[f].purpose})
    /\ \A f \in Live(file) : LET named == {g \in Live(gotcha) : f \in gotcha[g].files} IN
          file[f].keys = named => Explain(f) = named
    /\ Cardinality(StatsConfirmed(Live(gotcha))) - StatusSnapshot.confirmed
          = Cardinality({g \in Live(gotcha) : gotcha[g].confirmed = "none"})

\* Every answer a report gives is true of the store, out of a cache or not.
ReportsTrue == CacheTransparent /\ ReportsAgree
=============================================================================

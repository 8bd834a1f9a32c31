---------------------------- MODULE RecordHealth -----------------------------
(* The staleness of records: what a reparse after an edit adds, what the         *)
(* analysis of a direct session harvest makes of it (health/staleness.rs), and   *)
(* the stale reviews the harvest collects (store/session.rs). The harvest holds  *)
(* the store, so it reads one state of it. Scores are in ten-thousandths; time   *)
(* is in units of which Window make REPARSE_WINDOW_SECS and Ramp the 90 days.    *)
EXTENDS Naturals, Sequences, FiniteSets, FiniteSetsExt

CONSTANTS SrcFiles,       \* files; records are naturals in the order of their keys
          Notes,         \* gotchas: [note -> affected files]
          Dep,           \* a dependency
          DepOf,         \* files that import it
          Diffs,         \* structural changes of a file: [signals, weight]
          Window, Ramp, MaxSignals,
          ReviewMin, ReviewMax,
          MaxClock, MaxCommits, MaxEvents

ASSUME HealthAssumption ==
    \* Records of the three namespaces have different keys.
    /\ SrcFiles \cap DOMAIN Notes = {} /\ Dep \notin SrcFiles \cup DOMAIN Notes
    /\ IsFiniteSet(SrcFiles) /\ IsFiniteSet(DOMAIN Notes)
    /\ Notes \in [DOMAIN Notes -> SUBSET SrcFiles]
    /\ Ramp \in Nat \ {0} /\ Window \in Nat /\ MaxSignals \in Nat
    \* A diff that is not empty has a signal, and fewer than a record may keep.
    /\ Diffs \subseteq [signals : 1..MaxSignals, weight : Nat]

VARIABLES clock, exists, shape,   \* the files: on disk, and as last edited
          log,                    \* commits: the set of files of each
          rec,                    \* records: files, notes, the dependency
          consulted,              \* session:current, the keys
          reviews,                \* analytics:stale_review_*: [key -> value], 0 none
          bumped,                 \* history: the dependency's version changed
          swept,                  \* history: records the last analysis covered, unchanged since
          events

rhVars == <<clock, exists, shape, log, rec, consulted, reviews, bumped, swept, events>>

NoteKeys == DOMAIN Notes
Records == SrcFiles \cup NoteKeys \cup {Dep}
Linked(f) == {n \in NoteKeys : f \in Notes[n]}
Capped(x, top) == IF x > top THEN top ELSE x

Fresh == [value |-> 0, reparse |-> 0, deleted |-> 0, other |-> 0, computed |-> 0,
          updated |-> 1, accessed |-> 0, sha |-> 0, parsed |-> 1, modified |-> 1]
\* record.staleness.tier, which is always set with the value.
TierOf(v) == CASE v >= 9000 -> "tombstone" [] v >= 7000 -> "liability" [] v >= 4000 -> "stale"
               [] v >= 2000 -> "aging" [] OTHER -> "fresh"

-----------------------------------------------------------------------------
(* Reparse.                                                                     *)

Signals(r) == r.reparse + r.deleted + r.other
\* Of the signals a record has, what n new ones leave: the oldest are drained.
KeptSignals(r, n) ==
    {k \in [reparse : 0..r.reparse, deleted : 0..r.deleted, other : 0..r.other] :
        Signals(k) = Capped(Signals(r), MaxSignals - n)}
\* apply_reparse_staleness.
ApplyReparse(r, d, kept) ==
    [r EXCEPT !.value = Capped(@ + Capped(d.weight, 4000), 10000),
              !.reparse = kept.reparse + d.signals, !.deleted = kept.deleted, !.other = kept.other,
              !.computed = clock, !.updated = clock, !.modified = clock]
\* cascade_staleness_to_gotchas, whatever the lifecycle of the gotcha.
Cascade(r) == [r EXCEPT !.value = Capped(r.value + 1000, 10000),
                        !.other = Capped(r.other + 1, MaxSignals),
                        !.computed = clock, !.updated = clock]

Reparse(f) ==
    /\ events < MaxEvents /\ events' = events + 1
    /\ IF ~exists[f]
       THEN rec' = [rec EXCEPT ![f] = [rec[f] EXCEPT !.value = 10000, !.deleted = rec[f].deleted + 1,
                                                     !.computed = clock, !.updated = clock]]
       ELSE /\ shape[f] # rec[f].parsed    \* an empty diff changes nothing
            /\ \E d \in Diffs : \E kept \in KeptSignals(rec[f], d.signals) :
                  rec' = [r \in Records |->
                            IF r = f THEN [ApplyReparse(rec[f], d, kept) EXCEPT !.parsed = shape[f]]
                            ELSE IF r \in Linked(f) THEN Cascade(rec[r]) ELSE rec[r]]
    /\ swept' = {}
    /\ UNCHANGED <<clock, exists, shape, log, consulted, reviews, bumped>>

-----------------------------------------------------------------------------
(* The analysis.                                                                *)

HeadCommit == Len(log)
LastTouch(r) == IF rec[r].updated > rec[r].accessed THEN rec[r].updated ELSE rec[r].accessed
TimePart(r) == IF LastTouch(r) >= clock THEN 0
               ELSE Capped(((clock - LastTouch(r)) * 2000) \div Ramp, 2000)

\* commits_to_factor, times GIT_WEIGHT. Only files have a blob at HEAD.
CountCommitsSince(f, sha) == Cardinality({i \in (sha + 1)..HeadCommit : f \in log[i]})
CommitsToFactor == <<0, 525, 1050, 1750, 2450, 3500>>
GitPart(r) ==
    IF r \notin SrcFiles \/ HeadCommit = 0 \/ rec[r].sha \in {0, HeadCommit} THEN 0
    ELSE CommitsToFactor[Capped(CountCommitsSince(r, rec[r].sha), 5) + 1]
NewSha(r) == IF HeadCommit = 0 THEN rec[r].sha ELSE HeadCommit

\* A dependency record written since the file was last parsed.
DepPart(r) == IF r \in DepOf /\ rec[Dep].updated > rec[r].modified THEN 1000 ELSE 0

IsStale(r) == rec[r].value >= 4000
CascadePart(r) ==
    LET linked == IF r \in SrcFiles THEN Linked(r) ELSE IF r \in NoteKeys THEN Notes[r] ELSE {} IN
    IF linked = {} THEN 0
    ELSE (Cardinality({x \in linked : IsStale(x)}) * 1000) \div Cardinality(linked)

RawValue(r) == TimePart(r) + GitPart(r) + DepPart(r) + CascadePart(r)

\* Mutant: the window is not consulted.
HadRecentReparseNever(r) == FALSE
HadRecentReparse(r) == rec[r].computed > 0 /\ clock - rec[r].computed < Window /\ rec[r].reparse > 0

\* Mutant: the FileDeleted override of a file that is back is left in place.
ComputeStalenessSticky(r) ==
    IF r \in SrcFiles /\ (~exists[r] \/ rec[r].deleted > 0)
    THEN [rec[r] EXCEPT !.value = 10000, !.computed = clock,
                        !.deleted = IF @ > 0 THEN @ ELSE 1]
    ELSE LET keep == HadRecentReparse(r) IN
         [rec[r] EXCEPT !.value = IF keep /\ RawValue(r) < @ THEN @ ELSE RawValue(r),
                        !.reparse = IF keep THEN Capped(@, 10) ELSE 0, !.deleted = 0,
                        !.other = IF GitPart(r) > 0 THEN 1 ELSE 0,
                        !.computed = clock, !.sha = NewSha(r)]
ComputeStaleness(r) ==
    IF r \in SrcFiles /\ ~exists[r]
    THEN [rec[r] EXCEPT !.value = 10000, !.computed = clock,
                        !.deleted = IF @ > 0 THEN @ ELSE 1]
    ELSE LET keep == HadRecentReparse(r) IN
         [rec[r] EXCEPT !.value = IF keep /\ RawValue(r) < @ THEN @ ELSE RawValue(r),
                        !.reparse = IF keep THEN Capped(@, 10) ELSE 0, !.deleted = 0,
                        !.other = IF GitPart(r) > 0 THEN 1 ELSE 0,
                        !.computed = clock, !.sha = NewSha(r)]

StalenessChanged(old, new) ==
    \/ (IF old.value > new.value THEN old.value - new.value ELSE new.value - old.value) > 100
    \/ TierOf(old.value) # TierOf(new.value)
    \/ Signals(old) # Signals(new)
    \/ old.sha # new.sha

\* Records in the order of the prefixes; the time budget may end the walk anywhere.
KeyPrefixes == {s \in SUBSET Records : \A r \in s, x \in Records : x < r => x \in s}
AnalyzeAll(walked) ==
    [r \in Records |->
        IF r \in walked /\ StalenessChanged(rec[r], ComputeStaleness(r))
        THEN [ComputeStaleness(r) EXCEPT !.updated = clock] ELSE rec[r]]

\* collect_and_store_stale_reviews, merged with today's.
StaleEntries(after) == {r \in consulted : after[r].value >= ReviewMin /\ after[r].value < ReviewMax}

\* session_harvest; the daemon's harvest has no analysis (walked empty).
Harvest(walked) ==
    /\ events < MaxEvents /\ events' = events + 1
    /\ rec' = AnalyzeAll(walked)
    /\ reviews' = [r \in Records |-> IF r \in StaleEntries(rec') THEN rec'[r].value ELSE reviews[r]]
    /\ consulted' = {}
    /\ swept' = walked
    /\ UNCHANGED <<clock, exists, shape, log, bumped>>

-----------------------------------------------------------------------------
(* The repository and the other commands.                                       *)

Step == events < MaxEvents /\ events' = events + 1 /\ swept' = {}
RhTick == /\ clock < MaxClock /\ clock' = clock + 1 /\ swept' = {}
          /\ UNCHANGED <<exists, shape, log, rec, consulted, reviews, bumped, events>>
EditFile(f) == /\ Step /\ exists[f]
               /\ shape' = [shape EXCEPT ![f] = 3 - @]
               /\ UNCHANGED <<clock, exists, log, rec, consulted, reviews, bumped>>
MoveFile(f) == /\ Step /\ exists' = [exists EXCEPT ![f] = ~@]
               /\ UNCHANGED <<clock, shape, log, rec, consulted, reviews, bumped>>
CommitFiles(fs) == /\ Step /\ Len(log) < MaxCommits /\ log' = Append(log, fs)
                   /\ UNCHANGED <<clock, exists, shape, rec, consulted, reviews, bumped>>
\* log_hit: the access and the receipt.
LogHit(r) == /\ Step
             /\ rec' = [rec EXCEPT ![r] = [@ EXCEPT !.accessed = clock]]
             /\ consulted' = consulted \cup {r}
             /\ UNCHANGED <<clock, exists, shape, log, reviews, bumped>>
\* init after a version changed in a manifest.
BumpDep == /\ Step /\ rec' = [rec EXCEPT ![Dep] = [@ EXCEPT !.updated = clock]]
           /\ bumped' = TRUE
           /\ UNCHANGED <<clock, exists, shape, log, consulted, reviews>>

RhInit == /\ clock = 1 /\ exists = [f \in SrcFiles |-> TRUE] /\ shape = [f \in SrcFiles |-> 1]
          /\ log = <<>> /\ rec = [r \in Records |-> Fresh]
          /\ consulted = {} /\ reviews = [r \in Records |-> 0]
          /\ bumped = FALSE /\ swept = {} /\ events = 0

RhNext == \/ RhTick \/ BumpDep
          \/ \E f \in SrcFiles : Reparse(f) \/ EditFile(f) \/ MoveFile(f)
          \/ \E fs \in (SUBSET SrcFiles) \ {{}} : CommitFiles(fs)
          \/ \E r \in SrcFiles \cup NoteKeys : LogHit(r)
          \/ \E walked \in KeyPrefixes : Harvest(walked)

RhSpec == RhInit /\ [][RhNext]_rhVars

-----------------------------------------------------------------------------
(* Properties.                                                                  *)

\* After an analysis a file it covered is a tombstone exactly when it is gone,
\* and one that came back has lost its FileDeleted signal; only a reparse of the
\* last day can leave a file that exists with the score of a deleted one.
DeletedIsTombstone ==
    \A f \in swept \cap SrcFiles :
        /\ ~exists[f] => rec[f].value = 10000 /\ rec[f].deleted > 0
        /\ exists[f] => rec[f].deleted = 0
        /\ exists[f] /\ TierOf(rec[f].value) \in {"liability", "tombstone"} =>
              \/ rec[f].reparse > 0
              \/ rec[f].value <= 7500     \* all the factors together

\* An analysis within a day of a reparse never lowers the score the reparse gave
\* a file that exists, and never touches the record of a file it did not reach.
ReparseOutlastsAnalysis ==
    [][\A w \in KeyPrefixes : Harvest(w) =>
          \A r \in Records : /\ r \notin w => rec'[r] = rec[r]
                             /\ r \in SrcFiles /\ exists[r] /\ rec[r].reparse > 0 /\ rec[r].computed > 0
                                /\ clock < rec[r].computed + Window => rec'[r].value >= rec[r].value]_rhVars

\* "checks if any imports ... reference dependencies whose versions have been
\* bumped": without a bump no file is charged for its dependency.
DepChargeIsBump == ~bumped => \A f \in SrcFiles : DepPart(f) = 0
=============================================================================

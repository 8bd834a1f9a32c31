----------------------------- MODULE ProjectInit -----------------------------
(* `mati init` (cli/init.rs, analysis/): walk the tree, parse what changed since *)
(* the saved modification times, mine git history, and write file records,       *)
(* candidate gotchas, dependency records and graph edges. One process holds the  *)
(* store; it may be killed between any two writes, and the tree is edited and    *)
(* committed to all the time. Most reads and writes of a run may fail and leave   *)
(* it running (a warning, an unwrap_or_default, a skipped record): each has its   *)
(* failing branch. Between two runs other commands change records.                *)
EXTENDS Naturals, Sequences, FiniteSets

CONSTANTS Files,          \* paths, 1..n in path order
          Bodies,         \* file contents
          LinesOf,        \* [Bodies -> line count]
          ImportsOf,      \* [Bodies -> files that content imports]
          Manual,         \* developer gotchas
          ManualFiles,    \* [Manual -> their affected_files]
          Owned,          \* files CODEOWNERS lists
          Sections,       \* gotcha sections of CLAUDE.md
          Deps,           \* dependency names
          Commits,        \* commits that may happen: [files, revert, author]
          MinCount, MinReverts, MinCommits, MaxPerFile, MaxCommitFiles,
          MaxTime, MaxHistory, MaxInits, MaxUserOps,
          MaxInitFaults    \* failures that the runs survive

ASSUME InitAssumption == Files \subseteq Nat /\ IsFiniteSet(Files) /\ MaxPerFile \in Nat

VARIABLES now, disk, history, manifest,    \* the repository
          mtimes, recs, got, edges,        \* mtime_index.json and the store
          searchStale,
          run,                             \* the init process
          settled,   \* the last init ran to its end, with what it mined
          torn,      \* history: indexed by a run that died before its records
          blind,     \* history: changed without a new modification time
          unlinked,  \* history: recorded while the scan for developer gotchas failed
          inits, userOps, initFaults

initVars == <<now, disk, history, manifest, mtimes, recs, got, edges, searchStale,
              run, settled, torn, blind, unlinked, inits, userOps, initFaults>>

-----------------------------------------------------------------------------
(* Git history (analysis/git.rs) and the candidates drawn from it.              *)

Touching(h, f) == {i \in DOMAIN h : f \in h[i].files}
ChangeFrequency(h, f) == Cardinality(Touching(h, f))
\* Pairs are counted in commits of 2..MAX_COMMIT_FILES files.
Together(h, f, g) == {i \in Touching(h, f) \cap Touching(h, g) :
                         Cardinality(h[i].files) \in 2..MaxCommitFiles}
PairCount(h, f, g) == Cardinality(Together(h, f, g))
Percent(n, of, p) == 100 * n >= p * of
MinOf(a, b) == IF a < b THEN a ELSE b

CoChangePairs(h) ==
    {p \in Files \X Files :
        /\ p[1] < p[2] /\ PairCount(h, p[1], p[2]) > 0
        /\ Percent(PairCount(h, p[1], p[2]),
                   MinOf(ChangeFrequency(h, p[1]), ChangeFrequency(h, p[2])), 70)}
Paired(h, f, g) == <<f, g>> \in CoChangePairs(h) \/ <<g, f>> \in CoChangePairs(h)

\* compute_hotspots: the most changed tenth, at least one.
Changed(h) == {f \in Files : ChangeFrequency(h, f) > 0}
Hotter(h, f, g) == \/ ChangeFrequency(h, f) > ChangeFrequency(h, g)
                   \/ ChangeFrequency(h, f) = ChangeFrequency(h, g) /\ f < g
HotspotCutoff(n) == (n + 9) \div 10
Hotspots(h) == {f \in Changed(h) : Cardinality({g \in Changed(h) : Hotter(h, g, f)})
                                      < HotspotCutoff(Cardinality(Changed(h)))}

\* build_cochange_gotchas: the MaxPerFile most frequent partners of a file.
Partners(h, f) == {g \in Files \ {f} : Paired(h, f, g) /\ PairCount(h, f, g) >= MinCount
                                       /\ Percent(PairCount(h, f, g), ChangeFrequency(h, f), 70)}
Better(h, f, x, y) == \/ PairCount(h, f, x) > PairCount(h, f, y)
                      \/ PairCount(h, f, x) = PairCount(h, f, y) /\ x < y
BuildCochange(h) ==
    {<<"cochange", p[1], p[2]>> : p \in
        {q \in Files \X Files : /\ q[2] \in Partners(h, q[1])
                                /\ Cardinality({x \in Partners(h, q[1]) : Better(h, q[1], x, q[2])})
                                      < MaxPerFile}}

Reverts(h, f) == Cardinality({i \in Touching(h, f) : h[i].revert})
BuildRevert(h) == {<<"revert", f>> : f \in {x \in Changed(h) :
                      Reverts(h, x) >= MinReverts /\ Percent(Reverts(h, x), ChangeFrequency(h, x), 5)}}

Authored(h, f, a) == Cardinality({i \in Touching(h, f) : h[i].author = a})
BuildOwnership(h) == {<<"ownership", f>> : f \in {x \in Hotspots(h) :
                         /\ ChangeFrequency(h, x) >= MinCommits
                         /\ \E i \in Touching(h, x) :
                               Percent(Authored(h, x, h[i].author), ChangeFrequency(h, x), 80)}}

Mined(h) == BuildCochange(h) \cup BuildRevert(h) \cup BuildOwnership(h)

-----------------------------------------------------------------------------
(* Records.                                                                     *)

IsAuto(k) == k[1] \in {"cochange", "revert", "ownership"}
AutoKeys == {<<"cochange", f, g>> : f, g \in Files} \cup {<<"revert", f>> : f \in Files}
            \cup {<<"ownership", f>> : f \in Files}
ManualKeys == {<<"manual", m>> : m \in Manual}
OwnerKeys == {<<"codeowners", f>> : f \in Owned}
SectionKeys == {<<"section", s>> : s \in Sections}
DepKeys == {<<"dep", d>> : d \in Deps}
Keys == AutoKeys \cup ManualKeys \cup OwnerKeys \cup SectionKeys \cup DepKeys

\* affected_files; a section of CLAUDE.md has no payload.
AffectedFiles(k) == IF IsAuto(k) \/ k[1] = "codeowners" THEN {k[2]}
                    ELSE IF k[1] = "manual" THEN ManualFiles[k[2]] ELSE {}
Active(k) == got[k] \in {"candidate", "confirmed"}

NoRec == [there |-> FALSE, body |-> 0, keys |-> {}, enriched |-> FALSE, flags |-> {}]

\* layer0_file_stub with the links of 8b and 8c: mined candidates of the file and,
\* when the scan for them worked, the developer gotchas of the store.
Stub(f, body, mined, linked) ==
    [NoRec EXCEPT !.there = TRUE, !.body = body,
                  !.keys = {k \in mined : f \in AffectedFiles(k)} \cup
                           {k \in Keys : linked /\ ~IsAuto(k) /\ Active(k) /\ f \in AffectedFiles(k)}]

-----------------------------------------------------------------------------
(* The run. Its extra records are the sections and dependencies it will write;   *)
(* the others are what failed: linked, the scan of 8c; kept, what could not be    *)
(* pruned; unscanned, the scan for CODEOWNERS candidates; missed, the skipped     *)
(* files whose links could not be brought up to date.                             *)

Quiet == [pc |-> "idle", walked |-> <<>>, index |-> <<>>, parsed |-> <<>>, skipped |-> {},
          mined |-> {}, pairs |-> {}, extra |-> {}, linked |-> TRUE, big |-> {}, todo |-> {}, kept |-> {},
          unscanned |-> FALSE, missed |-> {}]
NotSettled == [on |-> FALSE, mined |-> {}, cold |-> FALSE, parsed |-> {}, kept |-> {}, missed |-> {}]
Cold == run.skipped = {}
Parsed == DOMAIN run.parsed

\* n of the operations of a step fail, and the run goes on.
Fails(n) == initFaults + n <= MaxInitFaults /\ initFaults' = initFaults + n

\* The index is empty when it cannot be read.
NoIndex == [f \in Files |-> 0]
InitWalk ==
    /\ run.pc = "idle" /\ inits < MaxInits
    /\ \E index \in {mtimes, NoIndex} :
        /\ IF index = mtimes THEN Fails(0) ELSE Fails(1)
        /\ run' = [Quiet EXCEPT !.pc = "parse", !.index = index,
                     !.walked = [f \in {x \in Files : disk[x].here} |-> disk[f].mtime]]
    /\ inits' = inits + 1
    /\ settled' = NotSettled
    /\ UNCHANGED <<now, disk, history, manifest, mtimes, recs, got, edges, searchStale, torn,
                   blind, unlinked, userOps>>

\* hash_and_parse_parallel: a file that cannot be read is left out.
Skips(f) == run.walked[f] # 0 /\ run.index[f] = run.walked[f]
InitParse ==
    /\ run.pc = "parse"
    /\ LET walked == DOMAIN run.walked
           here   == {f \in walked : ~Skips(f) /\ disk[f].here} IN
       \E unread \in SUBSET here :
           /\ Fails(Cardinality(unread))
           /\ run' = [run EXCEPT !.pc = "mine", !.skipped = {f \in walked : Skips(f)},
                                 !.parsed = [f \in here \ unread |-> disk[f].body]]
    /\ UNCHANGED <<now, disk, history, manifest, mtimes, recs, got, edges, searchStale, settled,
                   torn, blind, unlinked, inits, userOps>>

\* Lines changed by a tenth, on incremental runs.
Significant(f) == /\ ~Cold /\ recs[f].there /\ recs[f].body # run.parsed[f]
                  /\ LET a == LinesOf[recs[f].body]  b == LinesOf[run.parsed[f]] IN
                     a > 0 /\ 10 * (IF a > b THEN a - b ELSE b - a) >= a

\* mine_git_history skips files the walk did not see.
WalkedOnly(h) == [i \in DOMAIN h |-> [h[i] EXCEPT !.files = @ \cap DOMAIN run.walked]]
\* What comes of git, the manifests and CLAUDE.md: a source that fails is left out.
\* Then the scan of 8c, and one read for each parsed file's old content.
InitMine ==
    /\ run.pc = "mine"
    /\ \E failed \in SUBSET {"git", "deps", "sections", "links"},
            unread \in SUBSET {f \in Parsed : Significant(f)} :
        LET h == IF "git" \in failed THEN <<>> ELSE WalkedOnly(history) IN
        /\ Fails(Cardinality(failed) + Cardinality(unread))
        /\ run' = [run EXCEPT !.pc = "index", !.mined = Mined(h), !.pairs = CoChangePairs(h),
                       !.extra = (IF "sections" \in failed THEN {} ELSE SectionKeys) \cup
                                 {k \in DepKeys : "deps" \notin failed /\ k[2] \in manifest},
                       !.linked = "links" \notin failed,
                       !.big = {f \in Parsed : Significant(f)} \ unread]
    /\ UNCHANGED <<now, disk, history, manifest, mtimes, recs, got, edges, searchStale, settled,
                   torn, blind, unlinked, inits, userOps>>

\* Stale candidates and dependencies, on cold runs.
Unwritten == IF Cold THEN {k \in AutoKeys \ run.mined : got[k] # "none"} \cup
                          {k \in DepKeys \ run.extra : got[k] # "none"}
             ELSE {}
\* mtime_index.json is written in place, before the records: a write that fails
\* leaves the old index or none. Then each kind is scanned for what is stale.
Index(saved) ==
    /\ run.pc = "index"
    /\ \E kinds \in SUBSET {k[1] : k \in Unwritten} :
        /\ \/ mtimes' = saved /\ Fails(Cardinality(kinds))
           \/ mtimes' \in {mtimes, NoIndex} /\ Fails(1 + Cardinality(kinds))
        /\ run' = [run EXCEPT !.pc = "prune", !.todo = {k \in Unwritten : k[1] \notin kinds},
                              !.kept = {k \in Unwritten : k[1] \in kinds}]
    /\ UNCHANGED <<now, disk, history, manifest, recs, got, edges, searchStale, settled, torn,
                   blind, unlinked, inits, userOps>>
\* Mutant: the modification time is read again when it is saved.
InitIndexRereads == Index([f \in Files |-> IF f \in Parsed THEN disk[f].mtime ELSE run.index[f]])
InitIndex == Index([f \in Files |-> IF f \in Parsed THEN run.walked[f] ELSE run.index[f]])

\* They are deleted one at a time; a delete that fails is only logged.
InitPrune ==
    /\ run.pc = "prune"
    /\ \E k \in run.todo :
        \/ /\ got' = [got EXCEPT ![k] = "none"] /\ Fails(0)
           /\ run' = [run EXCEPT !.todo = @ \ {k}]
        \/ /\ got' = got /\ Fails(1)
           /\ run' = [run EXCEPT !.todo = @ \ {k}, !.kept = @ \cup {k}]
    /\ UNCHANGED <<now, disk, history, manifest, mtimes, recs, edges, searchStale, settled, torn,
                   blind, unlinked, inits, userOps>>

\* build_codeowners_candidates writes only keys the store does not have.
\* Mutant: all of them.
NewOwnerKeysAll == OwnerKeys
NewOwnerKeys == {k \in OwnerKeys : got[k] = "none"}
\* When the scan for those fails, the store has none; CODEOWNERS may be unreadable.
OwnersToWrite(owners, unscanned) ==
    \/ owners = NewOwnerKeys /\ ~unscanned /\ Fails(0)
    \/ owners = OwnerKeys /\ unscanned /\ Fails(1)
    \/ owners = {} /\ ~unscanned /\ Fails(1)

InitPut ==
    /\ run.pc = "prune" /\ run.todo = {}
    /\ \E owners \in SUBSET OwnerKeys, unscanned \in BOOLEAN :
        /\ OwnersToWrite(owners, unscanned)
        /\ got' = [k \in Keys |-> IF k \in run.mined \cup run.extra \cup owners THEN "candidate"
                                  ELSE got[k]]
        /\ run' = [run EXCEPT !.pc = "patch", !.unscanned = unscanned]
    /\ recs' = [f \in Files |-> IF f \in Parsed THEN Stub(f, run.parsed[f], run.mined, run.linked)
                                ELSE recs[f]]
    /\ torn' = torn \ Parsed
    /\ blind' = blind \ {f \in Parsed : run.parsed[f] = disk[f].body}
    /\ unlinked' = IF run.linked THEN unlinked \ Parsed ELSE unlinked \cup Parsed
    /\ UNCHANGED <<now, disk, history, manifest, mtimes, edges, searchStale, settled, inits,
                   userOps>>

\* Records of files that were not parsed get what was mined and the candidates of
\* the store, those of kinds whose scan failed left out.
PatchKeys(f, kinds) ==
    LET auto == {k \in run.mined \cup {a \in AutoKeys : Active(a) /\ a[1] \notin kinds} :
                    f \in AffectedFiles(k)} IN
    IF auto = {} THEN recs[f].keys ELSE {k \in recs[f].keys : ~IsAuto(k)} \cup auto
\* A record that cannot be read stays as it is, and all do when the one write fails.
Patchable == {f \in Files \ Parsed : recs[f].there}
InitPatch ==
    /\ run.pc = "patch"
    /\ IF Cold THEN recs' = recs /\ run' = [run EXCEPT !.pc = "flag"] /\ Fails(0)
       ELSE \E kinds \in SUBSET {"cochange", "revert", "ownership"}, missed \in SUBSET Patchable :
               /\ \/ Fails(Cardinality(kinds) + Cardinality(missed))
                  \/ missed = Patchable /\ kinds = {} /\ Fails(1)
               /\ recs' = [f \in Files |-> IF f \in Patchable \ missed
                                           THEN [recs[f] EXCEPT !.keys = PatchKeys(f, kinds)]
                                           ELSE recs[f]]
               /\ run' = [run EXCEPT !.pc = "flag", !.missed = missed]
    /\ UNCHANGED <<now, disk, history, manifest, mtimes, got, edges, searchStale, settled, torn,
                   blind, unlinked, inits, userOps>>

\* LinkedFileChanged on the co-change partners of a file that changed much, but
\* for partners whose record cannot be read or written.
Flags(f) == {g \in run.big : f \notin run.big /\ (<<f, g>> \in run.pairs \/ <<g, f>> \in run.pairs)}
InitFlag ==
    /\ run.pc = "flag"
    /\ \E lost \in SUBSET {f \in Files : Flags(f) # {}} :
        /\ Fails(Cardinality(lost))
        /\ recs' = [f \in Files |-> IF recs[f].there /\ f \notin lost
                                    THEN [recs[f] EXCEPT !.flags = @ \cup Flags(f)] ELSE recs[f]]
    /\ run' = [run EXCEPT !.pc = "edges"]
    /\ UNCHANGED <<now, disk, history, manifest, mtimes, got, edges, searchStale, settled, torn,
                   blind, unlinked, inits, userOps>>

\* build_edges: the file index holds the parsed files only. 9c adds the candidates.
ImportEdges == UNION {{<<f, "imports", g>> : g \in (ImportsOf[run.parsed[f]] \cap Parsed) \ {f}} :
                      f \in Parsed}
CoChangeEdges == UNION {{<<p[1], "cochanges", p[2]>>, <<p[2], "cochanges", p[1]>>} :
                        p \in {q \in run.pairs : {q[1], q[2]} \subseteq Parsed}}
GotchaEdges == UNION {{<<f, "has_gotcha", k>> : f \in AffectedFiles(k)} : k \in run.mined}
NewEdges == ImportEdges \cup CoChangeEdges \cup GotchaEdges
InitEdges ==
    /\ run.pc = "edges"
    /\ edges' = edges \cup NewEdges
    /\ run' = [run EXCEPT !.pc = "close"]
    /\ UNCHANGED <<now, disk, history, manifest, mtimes, recs, got, searchStale, settled, torn,
                   blind, unlinked, inits, userOps, initFaults>>

InitClose ==
    /\ run.pc = "close"
    /\ searchStale' = (searchStale \/ Cold)
    /\ settled' = [on |-> TRUE, mined |-> run.mined, cold |-> Cold, parsed |-> Parsed,
                   kept |-> run.kept, missed |-> run.missed]
    /\ run' = Quiet
    /\ UNCHANGED <<now, disk, history, manifest, mtimes, recs, got, edges, torn, blind,
                   unlinked, inits, userOps, initFaults>>

\* Killed, the index half written or not, or a failure that ends the run.
InitDies ==
    /\ run.pc # "idle"
    /\ torn' = IF run.pc = "prune" THEN torn \cup Parsed ELSE torn
    /\ mtimes' \in IF run.pc = "index" THEN {mtimes, NoIndex} ELSE {mtimes}
    /\ run' = Quiet
    /\ UNCHANGED <<now, disk, history, manifest, recs, got, edges, searchStale, settled,
                   blind, unlinked, inits, userOps, initFaults>>

-----------------------------------------------------------------------------
(* The repository and the other commands (which need the store's lock).         *)

UserOp == userOps < MaxUserOps /\ userOps' = userOps + 1
Tick == /\ now < MaxTime /\ now' = now + 1
        /\ UNCHANGED <<disk, history, manifest, mtimes, recs, got, edges, searchStale, run, settled,
                       torn, blind, unlinked, inits, userOps, initFaults>>
Edit(f, b) ==
    /\ UserOp /\ b # disk[f].body
    /\ disk' = [disk EXCEPT ![f] = [here |-> TRUE, body |-> b, mtime |-> now]]
    /\ blind' = IF disk[f].mtime = now THEN blind \cup {f} ELSE blind \ {f}
    /\ UNCHANGED <<now, history, manifest, mtimes, recs, got, edges, searchStale, run, settled, torn,
                   unlinked, inits, initFaults>>
Delete(f) ==
    /\ UserOp /\ disk[f].here
    /\ disk' = [disk EXCEPT ![f].here = FALSE]
    /\ UNCHANGED <<now, history, manifest, mtimes, recs, got, edges, searchStale, run, settled, torn,
                   blind, unlinked, inits, initFaults>>
Commit(c) ==
    /\ UserOp /\ Len(history) < MaxHistory
    /\ history' = Append(history, c)
    /\ UNCHANGED <<now, disk, manifest, mtimes, recs, got, edges, searchStale, run, settled, torn,
                   blind, unlinked, inits, initFaults>>
Manifest(d) ==
    /\ UserOp
    /\ manifest' = (manifest \ {d}) \cup ({d} \ manifest)
    /\ UNCHANGED <<now, disk, history, mtimes, recs, got, edges, searchStale, run, settled, torn,
                   blind, unlinked, inits, initFaults>>

\* gotcha add / confirm / delete with its link on the records that exist.
GotchaCommand(k, s) ==
    /\ run.pc = "idle" /\ UserOp /\ s # got[k]
    /\ got[k] # "none" \/ (k \in ManualKeys /\ s = "candidate")
    /\ got' = [got EXCEPT ![k] = s]
    /\ recs' = [f \in Files |->
                  IF ~recs[f].there \/ f \notin AffectedFiles(k) THEN recs[f]
                  ELSE [recs[f] EXCEPT !.keys = IF s = "tombstoned" THEN @ \ {k} ELSE @ \cup {k}]]
    /\ settled' = [settled EXCEPT !.on = FALSE]
    /\ UNCHANGED <<now, disk, history, manifest, mtimes, edges, searchStale, run, torn, blind,
                   unlinked, inits, initFaults>>
Enrich(f) ==
    /\ run.pc = "idle" /\ UserOp /\ recs[f].there
    /\ recs' = [recs EXCEPT ![f].enriched = TRUE]
    /\ UNCHANGED <<now, disk, history, manifest, mtimes, got, edges, searchStale, run, settled, torn,
                   blind, unlinked, inits, initFaults>>

-----------------------------------------------------------------------------

PiInit ==
    /\ now = 1 /\ history = <<>> /\ manifest = Deps
    /\ disk = [f \in Files |-> [here |-> TRUE, body |-> CHOOSE b \in Bodies : \A c \in Bodies : b <= c,
                                mtime |-> 1]]
    /\ mtimes = [f \in Files |-> 0] /\ recs = [f \in Files |-> NoRec]
    /\ got = [k \in Keys |-> "none"] /\ edges = {} /\ searchStale = FALSE
    /\ run = Quiet /\ settled = NotSettled
    /\ torn = {} /\ blind = {} /\ unlinked = {} /\ inits = 0 /\ userOps = 0 /\ initFaults = 0

InitStep == \/ InitWalk \/ InitParse \/ InitMine \/ InitIndex \/ InitPrune \/ InitPut \/ InitPatch
            \/ InitFlag \/ InitEdges \/ InitClose \/ InitDies

PiNext == \/ InitStep \/ Tick
          \/ \E f \in Files : (\E b \in Bodies : Edit(f, b)) \/ Delete(f) \/ Enrich(f)
          \/ \E c \in Commits : Commit(c)
          \/ \E d \in Deps : Manifest(d)
          \/ \E k \in ManualKeys \cup OwnerKeys \cup AutoKeys :
                \E s \in {"candidate", "confirmed", "tombstoned"} : GotchaCommand(k, s)

PiSpec == PiInit /\ [][PiNext]_initVars

-----------------------------------------------------------------------------
(* Properties.                                                                  *)

\* A file the next run will skip as unchanged has a record of the content it
\* has: an incremental run never leaves a file behind, whatever was edited while
\* the last one ran. The exceptions are an edit within the second the file was
\* last modified in, and the files of a run that died after it saved the
\* modification times and before it stored the records.
SkippedIsRecorded ==
    run.pc = "idle" =>
        \A f \in Files : disk[f].here /\ mtimes[f] = disk[f].mtime /\ f \notin torn \cup blind
                            => recs[f].there /\ recs[f].body = disk[f].body

\* After a run that ended, every file record links the developer gotchas of its
\* file and the candidates that were mined for it, parsed or skipped, and each
\* candidate has its edge; after a cold run no other candidate is left. A run that
\* got to its end though something failed may miss: the developer gotchas of a
\* record written while the scan for them failed (until the file is parsed again),
\* the candidates of a skipped file whose record could not be read or written, and
\* the removal of candidates it could not scan for or delete. And a file that
\* vanished, or could not be read, between the walk and the parse of a cold run is
\* not linked to what was mined for it.
InitLinks ==
    settled.on =>
        /\ \A f \in Files : recs[f].there =>
              /\ f \notin unlinked =>
                    {k \in ManualKeys : Active(k) /\ f \in AffectedFiles(k)} \subseteq recs[f].keys
              /\ f \in settled.parsed \/ (~settled.cold /\ f \notin settled.missed) =>
                    {k \in settled.mined : f \in AffectedFiles(k)} \subseteq recs[f].keys
        /\ \A k \in settled.mined : \A f \in AffectedFiles(k) : <<f, "has_gotcha", k>> \in edges
        /\ settled.cold =>
              {k \in AutoKeys : got[k] # "none"} = settled.mined \cup (settled.kept \cap AutoKeys)

\* A run that ended has left nothing behind but what failed.
InitComplete == SkippedIsRecorded /\ InitLinks

\* No step of a run changes what a developer decided about a gotcha of theirs or
\* a CODEOWNERS candidate ("skipping any key that already exists so a re-init never
\* resets a confirmation/edit") but one: when the scan for the candidates that
\* exist fails, none seems to, and all of them are written anew, unconfirmed.
DecisionsKept == [][InitStep => \A k \in ManualKeys \cup OwnerKeys : got[k] # "none" =>
                       \/ got'[k] = got[k]
                       \/ k \in OwnerKeys /\ run.pc = "prune" /\ run'.unscanned]_initVars
=============================================================================

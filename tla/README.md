# mati: verification project

mati keeps a project's knowledge (gotchas, decisions, notes, records of files) in a
SurrealKV store, gates an AI agent's reads and edits of files through hooks, and
writes a tamper-evident log of what it enforced. This directory holds TLA+ models of
the parts where that can go wrong, the TLC runs that check them and the proofs.
Paths below are relative to the repository; line numbers are those of `PROJECT.json`.

## 1. Inventory

### Processes

- `mati daemon` owns the store lock, the in-memory graph and the tantivy index.
  Each connection is a tokio task (at most 64); the handlers take the read side of
  the graph lock only, so they interleave at every await. At boot it opens the
  store, deletes the consultation receipts, loads the graph, drains the dirty
  marker and serves; it stops when idle, or drains for 5 s and aborts its tasks.
- `mati serve` is a thin MCP proxy that starts the daemon and forwards to it.
- CLI commands talk to the daemon if it answers, and otherwise open the store
  themselves (direct mode), one at a time under the store lock.
- `mati hook-decide` is one short process per tool call of an agent. It has 2.5 s
  and fails open: whatever it cannot find out, it allows, with an entry in
  `fail_open.log`.

### Components

| Component | State | Operations | What is hard | What makes it correct |
|---|---|---|---|---|
| Enforcement log (`store/enforcement.rs`) | counter, installation id, events, mode, retention; one cached writer per process | record_event, set_enforcement_mode, set_retention_days, enforce_retention, verify_chain, metrics | racing first events, a failed write or a crash between counter and event, a clock that steps back | the chain is linked, nothing is overwritten, each hole has a cause, the figures follow from the log |
| Gotchas, direct mode (`store/gotcha_ops.rs`, `cli/gotcha.rs`) | gotcha records, `gotcha_keys` of file records, HasGotcha edges, dirty marker | add, edit, delete, confirm | a kill or a failing write between the record and its indexes | indexes agree with the records, or the marker says which do not |
| Reconciliation (`store/repair.rs`, `cli/init.rs`, boot drain) | the same | full and fast repair, back-fill | failing half way | never harms a healthy link |
| Knowledge handlers (`mcp/handlers.rs`) | the same | GotchaUpsert, GotchaConfirm, GotchaTombstone, FileEnrich | interleaving of reads and commits, conflicts and retries, edges synced after the commit | links agree with records; every request returns |
| Dispatch (`mcp/dispatch_v2.rs`, `mcp/protocol.rs`) | every record, audit rows, session keys, deferred writes | all command classes of the protocol | two trees, deferred writes of old copies, an import in chunks, kills | a change and its audit row go together; a rejection leaves nothing |
| Command-line routes (`cli/proxy.rs`, `cli/gotcha.rs`, `cli/review.rs`) | none of their own | add, edit, delete, confirm, review, export, import | two implementations of each command; a session that acts on what it read long ago | both routes leave the same knowledge; a summary is true |
| Hook decisions (`cli/hook_decide.rs`, `hooks/decide.rs`, `mcp/server.rs` hook_evaluate) | locals of the hook process | read, bash, edit, shell and patch variants, post-edit, post-memget | lookups that fail, the deadline, symbolic links, records that change while they are read | a gotcha in force is not passed without a consultation or a recorded fail-open |
| Receipts (`store/session.rs`) | `session:consulted:*`, `session:current` | mint, check, sweep, flush, harvest | receipts that outlive what they stand for | "consulted" implies "knows"; nobody is locked out |
| Context and queries (`mcp/tools.rs`, `mcp/handlers.rs`, `health/quality.rs`) | none | mem_bootstrap, mem_query | records change between the reads, a token budget, one limit for five kinds | what is due is told, the least trusted is cut first |
| Store and search (`store/db.rs`, `search/index.rs`) | two trees, the index, fence files, write sequence | put, put_batch, delete, transact, rebuild | crash or failure between store and index, lost increments | the index agrees, or a marker or a named cause says why not |
| Daemon lifecycle (`cli/daemon.rs`, `mcp/daemon_lifecycle.rs`, `mcp/metadata.rs`) | sentinel, pid and metadata files, socket, store lock | start, ensure, stale cleanup, idle stop, kill | racing starts, cleanup after a stale check | the socket leads to the owner of the store |
| Proxy (`mcp/server.rs`, `cli/proxy.rs`) | none | send, retry, restart, fall back to direct mode | a retry of a request that was executed | executions are bounded, calls return |
| Agent-host files (`scaffold/*`, `cli/check.rs`) | settings, hooks, servers, scripts, CLAUDE.md block | install, check | files shared with the user, kills, half an installation | success means check passes; the user's part survives |
| Sandbox floor (`cli/sandbox.rs`) | deny rules in a file of the user | compile, protect, unprotect, clear | rules computed from records that change | the floor is what the gotchas call for |
| Init (`cli/init.rs`, `analysis/git.rs`) | file, dependency, candidate records, edges, mtime index | cold and incremental run | kills, edits while it runs | what was skipped is recorded, decisions of people are kept |
| Static scan (`analysis/walker.rs`, `parser`, `resolvers`, `edges.rs`, `deps.rs`) | buffers of the visitors | walk, parse, resolve, dependencies | threads, files that vanish, name resolution of twelve languages | nothing is lost, edges lead where imports mean |
| Migrations (`store/migrations.rs`) | schema version, sentinel, backup | versioned steps | kills between steps | exact and restartable, with a backup |
| Graph analysis (`graph/*`, `analysis/blast_radius.rs`, `propagation.rs`, `clusters.rs`) | values on file records | traversals, blast radius, propagation, clusters | cycles, several implementations and writers | agree with their definitions |
| Staleness (`health/staleness.rs`, `analysis/reparse.rs`) | scores of records | reparse, analysis, harvest | the two write the same value | a deleted file is a tombstone, a reparse outlasts the analysis |
| Reports (`cli/status.rs`, `stats.rs`, `stale.rs`, `gaps.rs`, `show.rs`, `explain.rs`, `health/gaps.rs`) | caches | status, stats, stale, gaps, ls, explain | caches validated by one counter; the same figure counted twice | a cached answer is the live one; the reports agree |

Components interact through the store (all of them), through the daemon's socket
(hooks, proxy, CLI) and through marker files. The gate reads what the gotcha
mutations write (records and links) and what the session operations write
(receipts); every one of them appends to the enforcement log.

## 2. Modules

| Module | Models |
|---|---|
| `EnforcementLog` | the writer of `store/enforcement.rs` |
| `AuditLog` | what the log promises its readers; `EnforcementLog` implements it |
| `EnforcementLogProofs` | theorems on `EnforcementLog`, `Evidence`, `AgentContext`, `SourceScan`, `SandboxFloor` and `Scaffold` |
| `GotchaIndex` | records, derived indexes, drift, both repair modes |
| `GotchaOps` (extends `GotchaIndex`) | direct-mode mutations, kills, repair, drain, init |
| `GotchaHandlers` (extends `GotchaIndex`) | the daemon's concurrent mutations |
| `ConsultGate` | hook decisions, hook_evaluate, receipts |
| `StoreSync` | store, index, fence, rebuild, write sequence |
| `DaemonLifecycle` | daemon processes, runtime files, proxied calls, stop |
| `Dispatch` | the daemon's commands, their audit rows and deferred writes |
| `Scaffold`, `SandboxFloor`, `AgentContext` | installer and check; sandbox; what an agent is told |
| `ImportResolution`, `SourceScan` (extends it), `ScanWorlds` | import resolvers; walk, parsers, manifests, edges; the repositories TLC scans |
| `ProjectInit`, `DerivedGraph`, `RecordHealth` | init; values computed from the graph; staleness |
| `SchemaMigration` | migrations |
| `KnowledgeProofs` | theorems on `SchemaMigration`, `RecordHealth`, `ProjectInit`, `ClientRoutes`, `Reports`, `DerivedGraph` |
| `GotchaOpsProofs`, `GotchaHandlersProofs`, `ConsultGateProofs`, `StoreSyncProofs`, `DispatchProofs`, `DaemonLifecycleProofs` | theorems on the module each is named after |
| `Evidence`, `Reports`, `ClientRoutes` | the log read back; reports and caches; the two routes and review |
| `MCKnowledge`, `MCAgentConfig` | several small machines in one run: a behaviour picks one (`part`) and the others keep still |
| other `MC*` | constants and symmetry for TLC |

### EnforcementLog

`seqKey`, `instKey`, `events`, `mode`, `retention` are store keys; `owner` is the
process holding the store lock, `registry` the writer each process has cached,
`pc`, `call` and `built` the tasks and their locals. An action is one store read or
write of `record_event_with_session` and of what it calls: read the mode, look the
writer up, build one on the slow path (counter, installation id, last hash), insert
it unless one is there, take its lock, persist the counter, put the event. Each
write has an action in which it fails. A hash or UUID is a fresh number. Two flags
switch on behaviour that the proofs exclude: `ReadFaults` (a failed read is taken
for an absent key) and `ReopenInProcess` (a process closes the store, lives on and
reopens it).

### GotchaIndex, GotchaOps, GotchaHandlers

A gotcha record is the truth; `file[f].keys` and `edges` are derived from it;
`marker` is the dirty marker. `Desired` is what derive_desired_state computes and
`LinkDrift`, `EdgeDrift` what check_gotcha_indexes reports.

`GotchaOps` runs one command at a time (the store lock), one step per store write:
the record, the marker (`PreArm`), links, edges, `Disarm`. A write may fail and the
command may be killed anywhere. `tainted` and `lost` are history: the keys whose
mutation did not complete, and those that drifted without being on the marker.

`GotchaHandlers` interleaves connections: a handler reads the gotcha, reads each
file record, commits all of them in one transaction, and syncs the edges one by
one. The transaction is write-only and begins after the reads, so a conflict is
reported only for commits that overlap (`CommitConflict`), and the attempt starts
again, at most `Retries` times. `stale`, `contended`, `raced` are history.

### ConsultGate

A receipt belongs to a scope (the main thread, or a subagent) and a file. An agent
thread makes one tool call at a time: `StartAccess` is the hook process; for each
key of the queue (first path, its symbolic-link target, the other paths; or the paths of
a patch) the daemon reads the file record (`HookRecords`), each linked gotcha by a get of
its own (`HookGotcha`, in any order: the code goes by key, the model's gotchas have no
order), and the receipt (`HookReceipt`), and other connections work between any two of
these; `FireEvents` are the events awaited before the verdict. `owed` is history: the pairs of a file and a gotcha
that have wanted a consultation since the hook began. A denied agent consults what it
was told to (`MemGetRead`, `MemGetMint`, `PostMemGet`) and tries again. `Admins` are
connections that confirm, rewrite and delete gotchas, compact, flush and harvest.
`covers` and `sound` in a receipt are history: what the agent was shown, and whether
that was everything then. Scores are abstracted to the tier that `evaluate`
distinguishes, and `Rescore` changes it at any time. Links are taken as exact here:
hook_evaluate unites three sources for them.

### StoreSync, Dispatch, DaemonLifecycle

`StoreSync` has writers that commit, write the fence, stage and commit the index, read and
write the sequence file and lift the fence, each a step; a step may fail, the process may
be killed and the index be corrupted on disk. A record is its version number and `doc` is
what the index holds. `skipped`, `torn` and `drift` are history: commits without a
successful bump so far, a sequence file set back, and keys whose index entry a named cause
explains. A report is one scan; `GapsScan`/`GapsStore` is the one that closes the store
between its scan and its cache.

`Dispatch` has connections that issue any command of the protocol. A record is a
tuple of stamps, one per field, so that a field going back is seen as such.
`effects` says which trees a request changed, `audits` which of them hold its row;
mem_get's access count and the other spawned writes run at any later time. `truth`
is what the records would hold had every commit read what it overwrote.

`DaemonLifecycle` takes `run_daemon_start` apart between any two looks at the file
system: the stat and the read of the metadata, the cleanup decided on them, the
sentinel, the flock, bind, publish, unmark; then serving with a job per connection,
shutdown when idle or by signal, the panic hook, unlinks and close. A client pings,
kills, spawns, waits and retries as `proxy_daemon_v2` does. A process identifier is
used once, so it also stands for the session UUID.

### Scaffold, SandboxFloor, AgentContext, SourceScan

`Scaffold` keeps each shared file as its form, its sections' shapes and the entries
it holds, each with its owner. The installer reads, merges and writes them one at a
time, CLAUDE.md as the others, and the user edits between the two. Every write is in
place: one that fails, or in which the command is killed, may leave the file short
(`CutCfg`, `CutNotes`, `CutShort`). The backup of a codex file that does not parse is a step
of its own that may fail and is then gone without (`InstallBackup`). `mine` is what the
user put there; `excused` is what some step has lost in a way the module names (`Lossy`,
`InstallWriteNotes`, `CutShort`, an older backup under a newer one), all of them told in
section 5. `CheckHost` is what `mati check` looks at.

`SandboxFloor` has two command processes that read gotchas, write tags and merge the
settings file in steps of their own; `daemon` chooses what a put does.

`AgentContext` assembles a packet one store read at a time while other connections write;
`held` is what was due throughout the call (a gotcha with the file that brings it in),
`ever` what was linked, and what was trusted, at some moment of it. Any read of a file or
a gotcha may fail and then leaves the record out of the packet without a word
(`ReadFileFails`, `ReadGotchaFails`; `draft.failed`), and one that the code does not pass
over ends the call (`ContextFails`). Gotchas of equal score come in any order (the code
sorts what came out of a hash set). Wordings are the features the quality score looks at;
costs are tokens.

`SourceScan` scans a repository (`world`): visitors get entries in any order, buffer
and send them, the list is sorted and parsed, edges and dependencies come out. A
file is its sequence of syntax nodes (the grammars are tree-sitter's); a path is a
tuple of segments and a segment a tuple of characters where spelling matters
(CamelCase to snake_case, the order of the walk). A use tree is followed
`UseDepth` lists deep, more than any repository of the run nests. `ImportResolution`
has one resolver per language.

### ProjectInit, SchemaMigration, DerivedGraph, RecordHealth

`ProjectInit` is one run of init as a sequence of writes, killed anywhere, over a
tree that is edited and committed to; `settled`, `torn` and `blind` say which files
the saved modification times can be trusted for. The run goes on over most failures, and
each of them is a disjunct that counts against `MaxInitFaults`: a mtime index that cannot
be read or written, a file that cannot be parsed, git, dependencies or sections that
cannot be had, the back-fill's scan of gotchas, the scans and deletes of pruning, the scan
for CODEOWNERS candidates, the reads and the write of the patches, the flags of hidden
coupling. `settled` tells what an ended run has kept that it meant to prune (`kept`) and
which skipped files it could not patch (`missed`); `unlinked` are files put while the
back-fill's scan failed. What init computes on the graph is in `DerivedGraph`.

`SchemaMigration` has a step per write of `migrate` and a copy of the tree that may
be cut short; `since` and `origin` are history.

`DerivedGraph` has the two blast-radius computations, propagation with its writers, the
union-find clusters, and edge keys. `InitRun` computes the files it parsed, on the graph if
it wrote an edge or is a first run and on an empty one otherwise; `RepairRun` takes every
record; `EditHook` goes around one file. Each may fail to read or to put a record, or a
whole batch, and goes on. `by` says who wrote a file's blast radius last (nobody since its
edges changed, one computation, the other, or an init on the empty graph), `exact` that
the inherited staleness comes from a full pass without failures. The files begin as a
chain of imports, to which the runs add edges. `EditHook` is
the `edit_hook` arm of `mcp/server.rs`, which today's clients no longer reach
(`command_to_v1` does not produce it); it stays because the arm writes the same
fields.

`RecordHealth` has reparse, the analysis of a harvest and its factors in
ten-thousandths, with time in units of the reparse window.

### Evidence, Reports, ClientRoutes

`Evidence` is the log as its readers see it: a hash is the tuple it is computed from.
Retention deletes one event at a time; someone may alter or remove a stored event;
binaries of both schema versions write. `touched`, `skewed` and `newer` are history.

`Reports` has each report's own computation and its cache entry; a day counter makes
entries old. What a report prints (`StatusView`, `StatsView`) and what its snapshot holds
(`CachedStatusView`, `StatsRecord`) are separate definitions, each with the sections that
function prints. `driftMarked` and `hookEvents` change without a bump of the write
sequence (`Unbumped`). Not modelled: `stats --json`, which does not look at the cache, and
the "No gotchas yet" guidance of an empty project.

`ClientRoutes` gives the same command to two worlds, one written directly and one by
the daemon's handlers. A review session works on one of them. Its candidates, read once,
come as one list of cards or, in triage, by type (`KindOf`, the first tag a candidate has):
a group is gone through card by card, skipped, or accepted, and then stays in the menu.
Accepting is one confirmation after the other in one opened store, so that directly no
other command comes between, while other terminals do between cards. A confirmation in
an accepted group that is refused, because another terminal deleted the gotcha first,
gives its candidate the fate `failed`, and the session counts it with the confirmed.

## 3. Runs

| Run | Bounds | Checks |
|---|---|---|
| EnfSafety | 2 tasks, 3 calls, 2 failed writes, 1 crash | TypeOK, WriterInv, ChainIntact, HolesAccounted, AppendOnly, ImplementsAuditLog, CallsReturn |
| OpsSafety | 2 gotchas, 2 files, 3 mutations, 1 failed write, 1 kill | CompleteOpsExact, DriftMarked, RepairMonotone |
| HandlersSafety | 2 connections, 2 gotchas, 1 file, 2 requests, 2 retries, 1 failed access, 1 crash | HandlersExact, RequestsReturn |
| GateHook | a subagent, a file with 2 gotchas and a mandated link to it, calls by bash, edit or patch, 2 calls against 1 change or 1 call against 2, 1 fault | GateHolds |
| GateReceipts | main thread and subagent, 2 edits or consultations, 1 change, 1 fault | ReceiptsStaySound, NoLockout |
| StoreSync | 3 keys, 2 writers, 2 writes, 1 failure (a bump's among them), 1 kill | DriftExplained, ReportsFresh, RebuildExact |
| Lifecycle | 2 daemon processes, 1 client, a stop, a direct command, 1 fault | SocketLeadsToOwner, ExecutionsBounded, CallsReturn, LostSocketReleasesStore |
| Dispatch | 2 connections, 2 requests of any class, 1 failed access, 1 kill | AuditMatches, SerialOutcome |
| AgentConfig | installer: 2 runs, 2 user edits, 1 fault, 4 of these in all; sandbox: 2 processes, 3 operations; context: 1 call, 2 writes or failed reads; queries; scan: 14 repositories, 2 visitors | InstalledChecks, UserKept, FloorExact, ContextHonest, FilesCollected, SourceMapped |
| SandboxDaemon (violation) | the sandbox part alone | ProtectDenies |
| Knowledge | init: 2 files, 2 runs, 2 operations between, 1 swallowed failure; migration: 2 changes; graph: 4 files, 2 changes, 1 failed read or write; health: 1 file, 5 events; evidence: 3 events, 1 fault; reports: 3 writes, 1 hook event, 2 bases; routes: 4 commands; review: 1 command of another terminal, 2 groups picked | InitComplete, MigrationSafe, DerivedExact, DeletedIsTombstone, EvidenceTrue, ReportsTrue, RoutesAgree, ReviewHonest, DecisionsKept, ReparseOutlastsAnalysis |
| Routes (violation) | the routes part | RoutesTransparent |

GateReceipts has edits alone: the receipt that an allowed edit leaves (`PostEdit`) has
the covers and the scope of the one an advisory read leaves (`FireEvents`) and is
written later, so a change can overtake it in every way it can overtake the other.
GateHook has a single agent but fires both.

GateHook checks states up to what a receipt covers (`MCView`), which is history that no
step and no part of `GateHolds` reads, and up to exchanging the two gotchas
(`MCSymmetry`), which are linked to the same file. Its constraint `MCBudget` leaves out
two calls against two changes. The shell variant is left to the proof: it reads as bash
does and is allowed by a recent receipt as an edit is, which both are in the run.

What the less obvious ones show:

- `HandlersExact`: `UncontendedExact` (links and records agree in every state, but
  for files written from an overtaken copy) and `QuietEdgesExact` (edges agree
  between requests, but for overlapping ones).
- `DriftExplained`: an index that differs from the store with no marker raised does
  so only for keys in `drift`, whose causes the module names.
- `AuditMatches`: effects and audit rows go together per tree; a rejected request has
  no effects, but for the import's earlier chunks; an accepted one is audited.
- `SerialOutcome`: a field goes back to an older value only where a write was computed
  from a copy another commit had overtaken.
- `ReportsFresh`: a cached report whose tag is the current sequence is the store's, unless
  a write is between its commit and its bump or its bump never succeeded (`skipped`).
- `UserKept`: over any number of installations, edits, failures and kills, what the user
  put into a shared file stays, there or in a backup, but for the losses the module names.
- `InitComplete`: a file a run skips has a record of the contents on disk, unless the saved
  times cannot be trusted for it; an ended run has linked all it mined and pruned the rest,
  but for the files it could not patch and the records it could not delete.
- `DecisionsKept`: no step of a run changes a decision about a developer's or a CODEOWNERS
  gotcha but the one in which the scan for the existing candidates failed.
- `ContextHonest`: a packet tells every gotcha that was due throughout the call, if no
  read failed that would have brought it in, or cuts it for one at least as trusted, and
  none that was never linked or never trusted; a query's limit is shared among the kinds
  of neighbours; the score of an injected rule is that of its wording, and following a
  hint never lowers it.
- `FilesCollected`: `WalkComplete` (each accepted entry once, in order, and no other),
  `OwnAnalysis` (lists and analyses stay side by side when a file vanishes).
- `SourceMapped`: `EdgesMeant` (Rust against an independent walk of the module tree; the
  other languages: the target carries the name the import speaks; Go: lies in or below
  the package's directory), `EdgesStand` (no edge needs a third file),
  `NearestManifest`.
- `MigrationSafe`: `MigratedExactly` (at the current version the confirmed candidates are
  those confirmed since) and `BackupFirst` (migrated data has a backup of the tree as the
  first attempt found it).
- `DerivedExact`: a stored blast radius is that of the import paths, whichever of the two
  computations wrote it, but for files nobody computed since their edges changed and those
  an incremental init computed on an empty graph, which are said to have no importer;
  inherited staleness is the maximum over the sources after a full pass, clusters are the
  connected components, an edge key is read back as it was written.
- `EvidenceTrue`: `verify_chain` finds every alteration and only those, a log mati
  alone wrote verifies, and the figures follow from the log.
- `ReportsTrue`: a cached answer has every section of the computed one, with the same
  value, for its arguments, but for sections named one by one (drift warning and trust of
  status; stale gotchas, chains, enforcement, backlog and compliance of stats), the rows a
  cached `ls` with a limit shows, and a seed of an init that died; status, stats, gaps, ls
  and explain agree where they speak of the same thing.
- `RoutesAgree`: after the same commands both routes leave the same gotchas, links,
  edges, exemplars and outcomes; a confirmation may be missing on the daemon's side
  only (that it is, is the finding of `Routes`).
- `ReviewHonest`: unless a group was picked twice, the figures of a session's summary are
  the numbers of candidates deleted, skipped, and confirmed or refused in an accepted group
  (the code counts these two together, see section 5); while no other terminal writes,
  nothing is refused, each candidate is in the store what it was counted as, and no action
  fails.

Why the bounds suffice for the cases in question. Two tasks race through the slow
path while a third call finds the writer cached; a failed counter write, a failed
event write and a crash fall into the same history. Three direct mutations are an
add, a second operation on what the first left behind, and a third on another key.
Two requests on two connections are one that commits inside the other's window, on
any consistent initial records. In the gate, two calls are a consultation and an
access (or two accesses), one change a confirmation or a sweep, two changes against one
call are what can come between the daemon's reads of two gotchas, and one fault is any
single failed lookup, write, missed deadline or restart. Two writers of the store
cover each order of commit, index update and bump; the third key is one no index
holds. Two daemon processes are a predecessor and a successor, or two racing starters;
the client's retries reach both. The repositories of the scan have one or two files
per resolver case: manifests at three depths, a workspace, nested modules, refused
entries, an empty tree; `FlushThreshold` is 2, so that a visitor flushes once and
keeps a tail, which larger thresholds only do with more files. One file of each
repository may vanish at the walk, at the parse or before the manifests are read, and
any one file may be unchanged.

`CHECK_DEADLOCK FALSE` is set where the system may stop: agents make no more calls,
commands end, all daemons are dead, a scan is done.

Fairness. `WF` of every task's own steps: tokio polls every task that is ready, and
a hook, client or daemon process runs on. `SF` of taking the writer's lock: a tokio
mutex is FIFO. No fairness is assumed of new calls, faults, repairs, crashes, sweeps
or user actions. Faults and changes are finite in every liveness run: NoLockout says
that an agent gets through once the receipts it is given stop being taken away;
LostSocketReleasesStore that a daemon nobody can reach gives the store back in the end.

## 4. Proofs

Eight modules hold theorems; TLAPS checks every leaf. All hold for any processes,
tasks, files, gotchas, keys and bounds: the bounds of the runs are constants that need
only be naturals. A theorem needs no more of its constants than the named ASSUME of the
module says, and TLC evaluates each of them in a run.

| Theorem | States | Of the constants |
|---|---|---|
| `EnforcementLogProofs`: `TypeCorrect`, `WriterCorrect`, `ChainCorrect`, `AppendOnlyCorrect`, `HolesCorrect`, `Implementation` | `TypeOK`, `WriterInv`, `ChainIntact`, `AppendOnly`, `HolesAccounted`, the refinement of `AuditLog` | `NoProc` is no process; all but the first: `Reliable == ~ReadFaults /\ ~ReopenInProcess` |
| `EvidenceCorrect` | `EvidenceTrue` | a deny and a receipt are kinds of event |
| `ContextCorrect` | `ContextHonest` | finitely many gotchas, files and decisions; the bases are records of these types, with confirmed gotchas scored |
| `ScanCorrect` | `FilesCollected` | there is a visitor; a repository has finitely many entries, each with a path of its own, written in the alphabet the sort compares by |
| `FloorCorrect` | `FloorExact` | a path is inside or outside of the repository; the user's entries are none of them |
| `InstalledCorrect`, `UserCorrect` | `InstalledChecks`, `UserKept` | finitely many scripts, none named like a shared file |
| `GotchaOpsProofs`: `CompleteOpsCorrect`, `MarkerCorrect`, `RepairCorrect` | `CompleteOpsExact`, `DriftMarked`, `RepairMonotone` | there is a gotcha |
| `GotchaHandlersProofs`: `HandlersCorrect` | `HandlersExact` | there is a gotcha, no key is both file and gotcha, `Retries` > 0 |
| `ConsultGateProofs`: `TypeCorrect`, `GateCorrect`, `ReceiptsCorrect` | types, `GateHolds`, `ReceiptsStaySound` | no connection is both agent and administrator; each agent has a scope; `Memory` is no gotcha |
| `StoreSyncProofs`: `TypeCorrect`, `DriftCorrect`, `ReportsCorrect`, `RebuildCorrect` | types, `DriftExplained`, `ReportsFresh`, `RebuildExact` | a key's phrase query finds at least the key; every key is in some namespace |
| `DaemonLifecycleProofs`: `TypeCorrect`, `SocketCorrect`, `ExecutionsCorrect` | types, `SocketLeadsToOwner`, `ExecutionsBounded` | `None` and `Cli` are no daemon processes |
| `DispatchProofs`: `TypeCorrect`, `AuditCorrect`, `SerialCorrect` | types, `AuditMatches`, `SerialOutcome` | `Cmds` are commands of the protocol |
| `KnowledgeProofs`: `MigrationTypes`, `MigrationCorrect` | types, `MigrationSafe` (`MigratedExactly` and `BackupFirst`, each with its own theorem) | finitely many files in the tree |
| `TombstonesCorrect`, `ReparseCorrect` | `DeletedIsTombstone`, `ReparseOutlastsAnalysis` | finitely many records, of distinct keys; a nonempty diff has a signal and fewer than a record keeps |
| `InitCorrect`, `DecisionsCorrect` | `InitComplete`, `DecisionsKept` | finitely many files |
| `RoutesCorrect`, `ReviewCorrect` | `RoutesAgree`, `ReviewHonest` | finitely many rules; the stores the worlds start from have exact links (`mati init` leaves them so) |
| `DerivedCorrect` | `DerivedExact` | finitely many files, which are numbers; an import joins two files, a pair is in path order; a traversal is at least one edge deep; no kind of edge is a namespace |
| `AnswersCorrect` | `ReportsTrue` | finitely many records; the bases are records of these types |

None of the properties but the types is inductive. What each proof adds, and why:

- `EnforcementLog`. `ChainIntact` says nothing of the writer in memory. `WriterInv` does: no
  event lies beyond the persisted counter and no two share a number (`StreamInv`), one
  task at most holds the lock and only the owner has a writer (`LockInv`), and the cached
  head is the stored head (`HeadInv`), which is why a writer built by a losing slow path
  does no harm. `Reliable` is needed: with `ReopenInProcess` TLC violates `AppendOnly`.
  `HolesCorrect` counts: `HolesInv` bounds the numbers up to the counter that have no
  event by the failed writes, the crashes and the number being written.
- `Evidence`. `TraceInv`: an event as written carries its own hash and links to no event or
  to an earlier one; `LogInv`: a stored event is the written one but for what hands have
  changed. Both speak of the history (`trace`), which is what gives "altered" a meaning.
  `ClockInv`: the log is in the order of its times while the clock runs forward; `ChainInv`:
  the doomed events are the oldest, neighbours left in the log link up, and the next write
  will link to the last. `ChainInv` fails after a clock step (retention then deletes out of
  the middle), as `OwnLogVerifies` says. The rest is about reading: a strict total order
  arranges a finite set and all of it (`Arrangement`), equal hashes have equal numbers
  (`HashNumber`), so a link is right exactly when the numbers are (`Links`).
- `GotchaOps`. Drift of a key depends on how far its command is. `PlanInv`: before the
  record is put every change of claim is planned; `SenseInv`: what is to be added the
  record claims, what is to be removed it does not; `WorkInv`: from then on only the work
  left is off; `TaintInv` and `MarkInv` say the same of the other keys.
- `GotchaHandlers`. `Sound(t)` ties the locals of each handler to its phase: planned
  changes, buffered copies, edges still to sync. `StaleInv` names the files a handler has
  read and another has written since, `AloneInv` that two requests on a key make it
  `raced`; `EdgeInv` and `ExactInv` then say what may be off.
- `ConsultGate`. `AgentInv`: a hook that has not failed open has each file it owes a
  refusal (a pair of a file and a gotcha in `owed`) still in its queue, or the gotcha
  still to be read (`left`) or read as it was then (`saw`), or has denied something;
  `ReceiptInv`: a sound receipt covers what is needed (`Needed`), or an administrator is
  scanning or has it on its list (`Doomed`); `AdminInv`: administrators are in phases of
  theirs, and a drop is of receipts of the main thread.
- `StoreSync`. `CoverInv`: each document is the stored one, or its key is under way in a
  writer, owed by a marker, or explained; `OwedInv`: what is owed has its marker until a
  rebuild pays it; `RebuiltInv`: the namespaces a rebuild has passed are exact;
  `Fresh(cache)`, `Fresh(pending)`: a report is as old as its tag, unless a commit since
  has had no successful bump.
- `DaemonLifecycle`. `OwnInv` (from the open to the end a daemon holds the lock) and
  `SockInv` (the socket's process listens until it dies) give the first;
  `BudgetInv` gives the second: executions, attempts that may still run and attempts that
  may still be sent are never more than two, since a third is only sent when the second
  never got as far as a daemon.
- `Dispatch`. `ConnInv` (a working connection has an open request of its own, its copy of
  a record fits its phase, and what it has logged so far agrees with what it has placed)
  and `JobInv` (a deferred write puts back a record that was there).
- `SchemaMigration`. `OpenIsCurrent` (a confirmation is only recorded as "since" at the
  current version) and `BackupOfOrigin` (before the data changes the tree still is the
  origin, so a copy begun again copies the same thing; after it none is begun).
- `SandboxFloor`. `SyncInv` relates the settings file to each command's locals, `RulesInv`
  the denies of mati to the gotchas, `UserInv` the user's.
- `RecordHealth`. `ScoreInv` bounds a score by its factors; the proof needs that a drain
  of the signals takes the joint maximum (`signals` and `weight` come from one diff).
- `ProjectInit`. `TimeInv` (saved times are at most walked times, those at most the
  disk's), `BodyInv` (equal times mean the recorded content), `LinkInv`, `MinedInv` and
  `SettledInv` (what the run has mined so far, and what a finished one has left). Each
  carries what a failure leaves: files put without their developer gotchas (`unlinked`),
  skipped ones not patched (`missed`), records not deleted (`kept`).
- `Scaffold`. `ProgressInv`: the files behind the installer are installed unless touched
  since, and a done host has all of them; `UserKept` is kept beside it. A write loses no
  more than `Lossy` says of the shape it read and of what changed since (`inst.copy`,
  `inst.seen`), and a backup that was written holds what the file held.
- `ClientRoutes`. `WorldsInv`: the stores are alike, the links of the direct one are exact
  and the exported dumps are alike. Without exact links a confirmation would mend a link
  in one world only. Each piece the commands share (`SyncIs`, `PutIs`, ...) is described
  field by field once; a command is then two chains of these that end alike
  (`WrittenAlike`, `ConfirmedAlike`, `TombstonedAlike`). `MinIs` (a nonempty set of
  naturals has its minimum) comes from the library's theorem on well-founded relations.
  For `ReviewHonest`, `ReviewInv`: the summary's figures count the fates of the
  candidates, `failed` with `confirmed` (`Figures`), the cards still to come are the open
  ones (`Table`), the groups not yet picked are untouched (`Groups`), and, while no other
  terminal writes, each candidate is in the store what its fate says and none has failed
  (`Alone`). The last needs that an action on one gotcha leaves the links, edges and
  record of every other as they are (`OthersSame`), and that a file list does not change
  while its card waits, since an edit writes the card's copy.
- `Reports`. `CacheInv`: an entry whose tag is the current sequence holds what the base
  says, since nothing was written meanwhile; of the stats that is the snapshot only
  (`HasSnapshot`), since the compliance counts move without a bump. `GapsRunInv`: a gaps
  run carries the tag of its scan. `GapsTimeless`: the number of gaps does not depend on
  the day, which is why a cached one may be served on a later day.
- `DerivedGraph`. The graph's part is functional, with the stored radius described by who
  wrote it last (`by`): either search has seen exactly the files
  with a path of so many edges (`AllSeen`, `SearchStep`), and the calls of propagation are
  the paths of one and of two edges (`CallsAre`). Of the trees, `Forest` (a parent that is
  another file has the greater rank) gives termination: a walk as long as there are
  files would otherwise meet one twice with ever greater ranks (`RootIs`). `Find` is then
  the one function that is kept along parents and names the roots (`FindUnique`), so path
  compression does not change it (`ShortensKeeps`) and a union merges two of its values
  (`UnionIs`). `PairsJoined` is the rest: a pair has one root, and a set that no pair leaves
  holds whole trees.
- `AgentContext`. `CtxInv`: besides the types, `Tracked` says where a gotcha that was due
  throughout is, at each stage of the call (still to be read, found, or lost to a read
  that failed), and that whatever was met was linked and whatever was found trusted; a
  writer at any point keeps it (`Interrupted`). A section of the packet is the lines up to
  the first that does not fit: a running sum exists and has a greatest place within the
  budget (`RunningSum`, `SectionIs`), so a rule is left out only after every better one
  was shown (`RulesShown`). The slots of a query are ordered by round and kind (`Places`,
  `Turn`), from which `QuotasFair` follows. `NoWorse`: a text that says no less in every
  respect scores no worse; truncating division is monotone (`Tenths`).

- `SourceScan`. `WalkInv`: a file is not yet visited, or in one buffer once, or sent once
  (`InOnePlace`); what the walk accepts is in one of these places, and what is buffered or
  sent was accepted (`NoneLost`); a visitor that is gone has left nothing ahead
  (`ScanTypes`), which is why the last one leaves nothing behind. A flush and the end of a
  visitor are the same step of this argument (`Delivered`). The order of the paths is strict
  and total (`BeforeTransitive`, `BeforeTotal`), so the ranks of n files are the numbers below
  n (`SortLists`).

What proving changed in the models: a deferred write of `Dispatch` ends when its record is
gone; `RecordHealth` drains signals jointly; `ProjectInit` excuses a file that vanished
between walk and parse of a first run (see section 5); `SUBSET S \ T` and `UNION S \ T`
are parenthesised, since the two tools read them differently; `DerivedGraph` searches with
recursive functions, and compresses paths, which it first left out; `Reports` and
`Evidence` sort by operators of their own, as TLC's built-in sort is opaque to the prover.
`SourceScan` ordered its walk by paths without their extensions and two files of one name
as they came; the sort now compares whole paths, as the code does, and use trees are taken
apart level by level instead of by a RECURSIVE operator. `ContextHonest` once claimed that
every gotcha of a packet was linked and trusted at one and the same moment: the inductive
invariant could not be proved, and TLC with a third write found why. The links are read
before the gotcha is, so one unlinked in between and only then confirmed is told all the
same. The property now says what the code keeps, and `AgentContext` ranks gotchas in every
order their scores allow instead of in one. `ReviewHonest` once said without a condition
that a confirmed candidate has all its links and edges. An import before the session may
have left stale ones, which no run of four commands reached; the property now asks that
they were in order at the start (`sound`). Accepting a group was one step, a fold over the
chosen; it is now a step for each, as the code has it, and the menu of triage is modelled
with it.

Only model-checked:

- All liveness: `CallsReturn` (of the log and of the daemon's callers), `RequestsReturn`,
  `NoLockout`, `LostSocketReleasesStore`. Fairness and ENABLED are outside the prover's
  reach.
- `SourceMapped`: what the resolvers and the manifest parsers compute is folds over
  segments and lines, and needs induction over data. TLC compares it with reference
  definitions. What the scan does before (`FilesCollected`) is proved.

## 5. Where code and comments disagree

Shown by a run (`findings` in `PROJECT.json`):

- SandboxDaemon: with a daemon running, `mati sandbox protect` resets the confirmation
  of the gotcha it protects, and then leaves its file out of the floor.
- Routes: `mati gotcha add` and `edit` leave a confirmed gotcha when they write the store
  themselves and an unconfirmed one when a daemon runs, although the proxy calls its
  routing transparent.

Seen while modelling, without a run of their own:

Enforcement log and evidence
- Two first events can each persist an installation id; `mati review` reopens the store
  in one process and its cached writer overwrites events written in between; a failed
  put leaves a gap with no crash; a failed read of the counter restarts it; two racing
  mode changes can be recorded in an order other than the stored one.
- record_event reads the mode before it waits for the lock, so that a switch in between
  applies from the next event on (`enforcement.rs:1107`). set_retention_days writes no
  event.
- `canonicalize_file_key`, `detect_startup_gap`, `enforce_retention` and
  `count_events_by_type` have no caller outside `enforcement.rs`, although comments say
  they run in init and repair and that gaps produce a RecordingGap event on recovery.
- `doctor.rs:596` shows a failed scan as "intact". `Store::history` cuts to the limit
  before it sorts newest first.

Gotchas and handlers
- The boot drain clears the marker of a gotcha whose file has no record.
  `clear_dirty_key_if_solo` also clears a key an earlier failure left. A command killed
  between record and marker leaves unmarked drift. A full repair creates no record for a
  file that has none. A failed edge sync of a handler sets no marker.
- A handler writes back a file record read before another's commit (links are lost). A
  confirmation writes a file record twice in one transaction, and the second copy lacks a
  link that the first restored.
- `protocol.rs` says every mutating command produces an audit entry; SessionClearConsults,
  ConfigSet, SandboxAudit, an empty import and an edit hook whose reparse failed do not.
  A failed mem_bootstrap still mints receipts. Several files' hits in one bootstrap: the
  last staged aggregate wins. The mutating arms of `socket_dispatch` and handle_mem_set
  are reached by tests only. A reparse of a restored file of the same structure leaves it
  a tombstone.

Gate and receipts
- "Fire events (non-blocking)" are awaited before the verdict, so an event that stalls
  past the deadline turns a decided deny into an allow (logged). A confirmation drops the
  receipt of the main thread, not those of subagents. A subagent's mem_get and an
  advisory hit mint the receipt of the main thread; a liability hit mints one although
  the gotchas are not shown; a confirmation between mem_get's read and its receipt leaves
  a receipt that lacks the gotcha. A harvest without `session:current` promotes gotchas
  and sweeps nothing. A patch is judged without mandates and without resolving links, and
  on its first 50 files (`hook_decide.rs:281`).

Store, daemon
- `Store::open_and_rebuild` has no caller outside tests: markers that init, a failed
  index update or a kill leave are not acted upon when the daemon starts
  (`daemon.rs:300`), although ARCHITECTURE.md says so. Records are fsynced, markers and
  edges are not (`db.rs:330`). A failed bump does not make the next stats recompute, as the
  comment says (`db.rs:1049`): the old number stays and the stale cache is served until a
  bump succeeds, which is what `ReportsFresh` leaves out by `skipped` (and by `torn`, where
  the file was cut short or read as 0 and the numbers start again).
- Between reading the runtime files and cleaning them up another daemon may take over;
  its socket is then unlinked, and it leaves when it is idle.

Installed files, sandbox
- A malformed or non-object settings.json is replaced without a backup; a user's command
  inside a shared entry is dropped; a missing end marker in CLAUDE.md drops the text
  after it. The files are written in place (`claude_md.rs:262`, 275, 280), so that a kill
  leaves them short, and an edit made after the read (`claude_md.rs:236`) is overwritten. A
  codex file that does not parse is replaced even if its backup fails (`codex.rs:348`,
  438), and a `features` or `skills` entry of another shape always (`codex.rs:454`, 485).
- protect of one file removes drifted protections of others; protect of a
  gotcha whose file resolves outside of the repository reports success; two commands
  through the daemon may undo each other.

Context and queries
- A file or gotcha that cannot be read is left out of a packet without a word
  (`tools.rs:562`, 642).
- A packet can exceed 2000 tokens (headers and rounding are not counted). A text query
  filters after its limit, so deleted hits shrink the answer. Not every non-empty kind of
  neighbour surfaces one record when the first ones are deleted (`handlers.rs:1513`).
  Related decisions reached by edges are not filtered by lifecycle. `mati improve` changes
  the value but not the payload's rule.

Init, scan, graph, staleness
- Init again resets confirmations of automatic gotchas and revives deleted ones, and
  overwrites the enriched record of a changed file. Modification times are saved before
  the records, in whole seconds. A file that vanishes between the walk and the parse of a
  first run keeps its old record, without links to what that run mined. Edges of an
  incremental run exist only among the files changed, stale edges are never removed, and
  an import of an unchanged module falls back to a shallower changed one.
- An incremental run that adds no edge computes on an empty graph (`init.rs:880`) and stores
  "No files import this file. Safe to modify in isolation." (`blast_radius.rs:40`) for every
  file it parsed, whoever imports it. Puts of computed values that fail are passed over
  (`init.rs:923`, 1053; `repair.rs:111`, 205; `server.rs:1160`, 1196).
- "skipping any key that already exists so a re-init never resets a confirmation/edit"
  (`init.rs:1320`): when the scan for the existing candidates fails, none is taken to exist
  (`init.rs:1340`) and every CODEOWNERS confirmation is reset.
- An init reports success over failures that leave its work undone: the back-fill's scan
  (`init.rs:407`), the saved times (553), the scans and deletes of pruning (583-645), the
  reads and the write of the patches (709, 733, 762). On a first run git that fails counts
  as a history without commits (243), and all automatic candidates are pruned.
- Imports: `use super::super::*` leads to the parent instead of the grandparent; items of
  lib.rs never get an edge; `use child::x` counts as external; what follows `*` in a
  workspace pattern is ignored; relative paths with `..` are not normalised for C and
  Ruby although `c.rs` says they resolve; a Go import matches files of subpackages (the
  comment says "in the target directory") and the hash order chooses; nested go.mod files
  look up from the repository's root; Python's `from . import x` and Java's `import a.b.*`
  never resolve; a project's own `Control.Monad.*` counts as Haskell's library.
- Manifests: keys after `version` in `[dependencies.foo]` become dependencies of their own;
  inline tables without version and target-specific sections are dropped. Markers in `//!`
  comments are not seen; `pub(crate)` counts as public; Rust's `for` is no branch.
- A torn copy of the tree is taken for the backup by the next open
  (`migrations.rs:602`); a kill after the last commit leaves the sentinel for good.
- Propagation counts paths instead of sources and keeps the last value when no source is
  left; the edit hook sees the sources near one file only; a repair without drift returns
  before it recomputes; the two blast radii differ on import cycles.
- The analysis writes a dependency's updated_at, so that importers are charged without a
  change of version (`staleness.rs:690`); FileRenamed and DependencyBumped are never
  produced; a cascade to gotchas is wiped by the next analysis.

Reports, command line
- The first `mati stats` after init is not served from the cache (`stats.rs:728`). "Output is
  identical to the live computation path except for a small annotation" (`stats.rs:868`,
  shortened): cached stats leave out the stale gotchas, the propagation chains, the
  enforcement section and the review backlog, and their compliance counts are those of
  the snapshot, since no hook event bumps the write sequence. A cached status
  (`status.rs:226`) has neither the drift warning nor the trust section. A cached `ls files`
  has the hotspots first, so that a limit cuts other rows.
- Cached gaps never expire by age; a failed load of the graph caches a list without
  fan-in; `gaps` and `stale` do not filter by lifecycle while `stats` and `status` do; the
  two count a gotcha without payload differently; explain shows deleted candidates.
- Through the daemon, editing a deleted gotcha revives it and confirming does not mend a
  missing link; directly, confirming keeps consultation receipts that the daemon deletes.
  An import of an old dump drops links added since, edges are not exported, and a partial
  import over the socket reports nothing imported. A review's edit writes the card's old
  list of files, any error ends it without a summary, bulk confirmation counts failures as
  confirmed (`review.rs:1086`, 417), and "above quality 0.40" filters nothing. A group of
  triage that is picked again counts its candidates again, and a candidate deleted before,
  by the session or by another terminal, and accepted then counts as confirmed.

## 6. Plan

Models: handlers and gate composed, so that links may drift under the gate; the
confidence score; the compliance hooks after a command; larger instances of `StoreSync`
and `Lifecycle` (a third starter) outside of the five-minute budget of a run.

The modules to be proved about declare no RECURSIVE operator and state their invariants in
parts.

## 7. Not modelled

SurrealKV, tantivy, tree-sitter and git (external; used through get, put, scan, commit,
the nodes of a file, the commits of a log), the parsing of shell commands, terminal
output and formats, the texts of hook scripts and service units, confidence and
enrichment depth (arithmetic on one record), the enrichment signals, policy files (their
effect is `Mandated`), the inspection commands that only print, the evaluation harness.
A power loss that drops acknowledged but unsynced writes is not modelled: a crash keeps
every acknowledged write. Process identifiers are not reused. `PROJECT.json` lists every
component with its reason.

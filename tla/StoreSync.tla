------------------------------ MODULE StoreSync ------------------------------
(***************************************************************************)
(* The write path of src/store/db.rs and its three shadows: the tantivy    *)
(* index of src/search/index.rs, the crash fence that guards it, and the   *)
(* write-sequence file that validates the cached reports of `mati stats`,  *)
(* `gaps`, `stale`, `status` and `ls`.                                     *)
(*                                                                         *)
(* A writer commits to the key-value tree, drops the fence file, updates   *)
(* the index, bumps the sequence file and lifts the fence, with no lock    *)
(* across these steps: the daemon runs several writers on several threads. *)
(* A record is its version number, 0 for none; the index keeps per key the *)
(* version of the document it holds.                                       *)
(***************************************************************************)
EXTENDS Naturals, Sequences, FiniteSets

CONSTANTS
    Keys,            \* keys of the knowledge namespaces
    Unsearchable,    \* file records whose extension has no grammar
    Namespaces,      \* the sets of keys a rebuild scans, in its order
    Touched,         \* Touched[k]: keys whose tokens contain those of k as a phrase
    Writers,         \* threads of the daemon; a command uses one of them
    MaxWrites,       \* bound: operations started
    MaxFails,        \* bound: index or file operations that fail
    MaxCrashes       \* bound: processes killed, indexes corrupted

ASSUME KeyAssumption ==
    /\ Unsearchable \subseteq Keys
    /\ Touched \in [Keys -> SUBSET Keys] /\ \A k \in Keys : k \in Touched[k]
    /\ Namespaces \in Seq(SUBSET Keys)
    \* KNOWLEDGE_NAMESPACES names every namespace whose records are indexed.
    /\ \A k \in Keys : \E i \in 1..Len(Namespaces) : k \in Namespaces[i]

ASSUME SyncBounds == MaxWrites \in Nat /\ MaxFails \in Nat /\ MaxCrashes \in Nat

VARIABLES
    kv,       \* the two SurrealKV trees
    doc,      \* the committed documents of the index
    staged,   \* keys whose staged deletion no commit or rollback has settled
    dir,      \* search_index/ on disk: "absent", "ok" or "corrupt"
    fence,    \* the file search_sync_pending
    stale,    \* the file search_stale
    seq,      \* the number in health_write_seq
    cache,    \* a cached report: the sequence it is tagged with, what it saw
    owner,    \* who holds the store's lock
    ready,    \* the lazily opened index of this process is open
    rb,       \* namespaces a rebuild has left to scan, or NotRebuilding
    wr,       \* the writers
    pending,  \* the report of a `mati gaps` that has released the store
    writes, fails, crashes,
    owed,     \* history: keys the index missed and the fence still covers
    drift,    \* history: keys the index missed and nothing covers
    skipped,  \* history: a commit that no successful bump has followed
    torn      \* history: the sequence file was cut short or read as 0

disk    == <<kv, doc, dir, fence, stale, seq, cache>>
memory  == <<staged, owner, ready, rb, wr, pending>>
bounds  == <<writes, fails, crashes>>
history == <<owed, drift, skipped, torn>>
vars    == <<disk, memory, bounds, history>>

NotRebuilding == Len(Namespaces) + 1
NoReport      == [tag |-> 0, view |-> [k \in Keys |-> 0], any |-> FALSE]
Versions      == 0..MaxWrites

Idle == [pc |-> "idle", del |-> FALSE, keys |-> {}, ver |-> 0,
         fenced |-> FALSE, synced |-> FALSE, seen |-> 0]

PCs    == {"idle", "fence", "index", "bump", "bumped", "clear"}
Writer == [pc : PCs, del : BOOLEAN, keys : SUBSET Keys, ver : Versions,
           fenced : BOOLEAN, synced : BOOLEAN, seen : Nat]
Saved  == [tag : Nat, view : [Keys -> Versions], any : BOOLEAN]

TypeOK ==
    /\ kv \in [Keys -> Versions] /\ doc \in [Keys -> Versions]
    /\ staged \subseteq Keys
    /\ dir \in {"absent", "ok", "corrupt"}
    /\ fence \in BOOLEAN /\ stale \in BOOLEAN /\ ready \in BOOLEAN
    /\ skipped \in BOOLEAN /\ torn \in BOOLEAN
    /\ seq \in Nat /\ cache \in Saved /\ pending \in Saved
    /\ owner \in {"none", "command", "daemon"}
    /\ rb \in 1..NotRebuilding
    /\ wr \in [Writers -> Writer]
    /\ writes \in 0..MaxWrites /\ fails \in 0..MaxFails /\ crashes \in 0..MaxCrashes
    /\ owed \subseteq Keys /\ drift \subseteq Keys

Init ==
    /\ kv = [k \in Keys |-> 0] /\ doc = [k \in Keys |-> 0]
    /\ staged = {} /\ dir = "absent" /\ fence = FALSE /\ stale = FALSE
    /\ seq = 0 /\ cache = NoReport
    /\ owner = "none" /\ ready = FALSE /\ rb = NotRebuilding
    /\ wr = [w \in Writers |-> Idle] /\ pending = NoReport
    /\ writes = 0 /\ fails = 0 /\ crashes = 0
    /\ owed = {} /\ drift = {} /\ skipped = FALSE /\ torn = FALSE

\* What the index should hold: is_searchable leaves some file records out.
Expected(k) == IF k \in Unsearchable THEN 0 ELSE kv[k]

Fails == fails < MaxFails /\ fails' = fails + 1

-----------------------------------------------------------------------------
(* Opening and closing.                                                    *)

AllIdle == \A w \in Writers : wr[w].pc = "idle"

\* Store::open: the lock of the trees excludes every other process.  Neither
\* marker is looked at and the index is left for its first use.
Open(who) ==
    /\ owner = "none"
    /\ owner' = who
    /\ ready' = FALSE
    /\ staged' = {}
    /\ UNCHANGED <<disk, rb, wr, pending, bounds, history>>

\* The index directory, opened: absent, it is created empty; corrupt, it is
\* wiped and created empty.  What it should have held is missing from it.
OpenedDoc  == IF ready \/ dir = "ok" THEN doc ELSE [k \in Keys |-> 0]
WipedDrift == IF ready \/ dir = "ok" THEN drift
              ELSE drift \cup {k \in Keys : Expected(k) # 0}

\* Mutant: a marker does not wipe the index first.
OpenRebuildKeepsIndex ==
    /\ owner = "none"
    /\ owner' = "daemon" /\ ready' = TRUE /\ dir' = "ok" /\ staged' = {}
    /\ doc' = OpenedDoc
    /\ drift' = WipedDrift
    /\ rb' = IF fence \/ stale \/ dir = "corrupt" THEN 1 ELSE NotRebuilding
    /\ UNCHANGED <<kv, fence, stale, seq, cache, wr, pending, bounds, owed,
                   skipped, torn>>

\* open_and_rebuild: either marker wipes the index; the index is opened at
\* once; a marker or a corrupt index calls for a rebuild, an absent one does
\* not.
OpenAndRebuild ==
    /\ owner = "none"
    /\ owner' = "daemon" /\ ready' = TRUE /\ dir' = "ok" /\ staged' = {}
    /\ doc' = IF fence \/ stale THEN [k \in Keys |-> 0] ELSE OpenedDoc
    /\ drift' = IF fence \/ stale THEN {} ELSE WipedDrift
    /\ owed' = IF fence \/ stale THEN {k \in Keys : Expected(k) # 0} ELSE owed
    /\ rb' = IF fence \/ stale \/ dir = "corrupt" THEN 1 ELSE NotRebuilding
    /\ UNCHANGED <<kv, fence, stale, seq, cache, wr, pending, bounds, skipped, torn>>

\* A commit of the tantivy writer: the settled deletions, then the documents.
\* Deleting a key deletes every document whose key contains it as a phrase.
Victims(keys)     == staged \cup UNION {Touched[k] : k \in keys}
Committed(d, keys, val) ==
    [k \in Keys |-> IF k \in keys THEN val[k]
                    ELSE IF k \in Victims(keys) THEN 0 ELSE d[k]]
\* Keys a commit for `keys` drops although the store still has them.
Dropped(d, keys)  == {k \in Victims(keys) \ keys : d[k] # 0}

\* Mutant: the markers go before the rebuild instead of after it.
RebuildUnmarked ==
    /\ rb < NotRebuilding
    /\ LET keys == {k \in Namespaces[rb] : kv[k] # 0} IN
       /\ doc' = Committed(doc, keys, [k \in Keys |-> Expected(k)])
       /\ drift' = (drift \ keys) \cup Dropped(doc, keys)
       /\ owed' = owed \ keys
    /\ rb' = rb + 1
    /\ staged' = {} /\ fence' = FALSE /\ stale' = FALSE
    /\ UNCHANGED <<kv, dir, seq, cache, owner, ready, wr, pending, bounds,
                   skipped, torn>>

\* rebuild_search_index: one namespace, one batch, one commit.
RebuildNamespace ==
    /\ rb < NotRebuilding
    /\ LET keys == {k \in Namespaces[rb] : kv[k] # 0} IN
       /\ doc' = Committed(doc, keys, [k \in Keys |-> Expected(k)])
       /\ drift' = (drift \ keys) \cup Dropped(doc, keys)
       /\ owed' = owed \ keys
    /\ rb' = rb + 1
    /\ staged' = {}
    \* The markers go once the last namespace is in.
    /\ IF rb' = NotRebuilding THEN fence' = FALSE /\ stale' = FALSE
                              ELSE UNCHANGED <<fence, stale>>
    /\ UNCHANGED <<kv, dir, seq, cache, owner, ready, wr, pending, bounds,
                   skipped, torn>>

\* close: the index commits what is staged.
Close ==
    /\ owner # "none" /\ AllIdle /\ rb = NotRebuilding
    /\ owner' = "none" /\ ready' = FALSE /\ staged' = {}
    /\ doc' = IF ready THEN Committed(doc, {}, doc) ELSE doc
    /\ drift' = IF ready THEN drift \cup Dropped(doc, {}) ELSE drift
    /\ UNCHANGED <<kv, dir, fence, stale, seq, cache, rb, wr, pending, bounds,
                   owed, skipped, torn>>

-----------------------------------------------------------------------------
(* The writers.                                                            *)

\* A command has one thread, the daemon several.
MayStart(w) ==
    /\ rb = NotRebuilding
    /\ wr[w].pc = "idle"
    /\ \/ owner = "daemon"
       \/ owner = "command" /\ AllIdle

\* Keys a crash or a failure leaves behind go to the fence or to nobody.
Missed(w, keys) ==
    /\ owed'  = IF wr[w].fenced THEN owed \cup keys ELSE owed
    /\ drift' = IF wr[w].fenced THEN drift ELSE drift \cup keys

Begin(w, keys, del, ver, pc) ==
    /\ MayStart(w) /\ writes < MaxWrites
    /\ writes' = writes + 1
    /\ kv' = [k \in Keys |-> IF k \in keys THEN ver ELSE kv[k]]
    /\ wr' = [wr EXCEPT ![w] = [Idle EXCEPT !.pc = pc, !.del = del,
                                            !.keys = keys, !.ver = ver]]
    /\ UNCHANGED <<doc, dir, fence, stale, seq, cache, staged, owner, ready, rb,
                   pending, fails, crashes, skipped, torn, owed>>

\* Mutant: the record's clock is advanced twice.
PutTwice(w, k) == Begin(w, {k}, FALSE, writes + 2, "fence") /\ UNCHANGED drift

\* put, up to the commit.
Put(w, k) == Begin(w, {k}, FALSE, writes + 1, "fence") /\ UNCHANGED drift

\* put_batch: the knowledge tree commits, then the sessions tree.  When the
\* second commit fails the call returns an error, the records stay, and no
\* fence, index update or bump follows.
PutBatch(w, keys) ==
    \/ Begin(w, keys, FALSE, writes + 1, "fence") /\ UNCHANGED drift
    \/ /\ MayStart(w) /\ writes < MaxWrites /\ Fails
       /\ writes' = writes + 1
       /\ kv' = [k \in Keys |-> IF k \in keys THEN writes + 1 ELSE kv[k]]
       /\ drift' = drift \cup keys /\ skipped' = TRUE
       /\ UNCHANGED <<doc, dir, fence, stale, seq, cache, memory, crashes, owed, torn>>

\* transact_knowledge: records and raw audit entries in one transaction of the
\* knowledge tree; a key of the other tree is refused before anything is read.
TransactKnowledge(w, keys) == Begin(w, keys, FALSE, writes + 1, "fence") /\ UNCHANGED drift

\* delete up to the commit.
Delete(w, k) == Begin(w, {k}, TRUE, 0, "fence") /\ UNCHANGED drift

\* put_batch_kv_only: the index is not told and no fence is left.
PutBatchKvOnly(w, keys) ==
    /\ Begin(w, keys, FALSE, writes + 1, "bump")
    /\ drift' = drift \cup keys

\* mark_search_stale, at the end of a cold `mati init`; best effort.
MarkSearchStale ==
    /\ owner = "command" /\ AllIdle
    /\ stale' = TRUE
    /\ UNCHANGED <<kv, doc, dir, fence, seq, cache, memory, bounds, history>>

\* The fence file; its own write is best effort.
WriteFence(w) ==
    /\ wr[w].pc = "fence"
    /\ \/ fence' = TRUE /\ UNCHANGED fails
       \/ Fails /\ UNCHANGED fence
    /\ wr' = [wr EXCEPT ![w].pc = "index", ![w].fenced = fence']
    /\ UNCHANGED <<kv, doc, dir, stale, seq, cache, staged, owner, ready, rb,
                   pending, writes, crashes, history>>

Step(w, pc, synced) == wr' = [wr EXCEPT ![w].pc = pc, ![w].synced = synced]

\* add_record, add_records, delete_key: the index lock makes deletion,
\* addition and commit one step.  The documents are the writer's, which need
\* not be the latest commit's.
IndexOk(w) ==
    /\ wr[w].pc = "index"
    /\ LET keys == wr[w].keys
           val  == [k \in Keys |-> IF k \in Unsearchable THEN 0 ELSE wr[w].ver]
           old  == {k \in keys : kv[k] # wr[w].ver} IN
       /\ doc' = Committed(OpenedDoc, keys, val)
       /\ drift' = (((WipedDrift \cup Dropped(OpenedDoc, keys)) \ keys) \cup old)
       /\ owed' = owed \ (keys \ old)
    /\ dir' = "ok" /\ ready' = TRUE /\ staged' = {}
    /\ Step(w, "bump", TRUE)
    /\ UNCHANGED <<kv, fence, stale, seq, cache, owner, rb, pending, bounds,
                   skipped, torn>>

\* The index update fails or panics: nothing staged, deletions left staged, or
\* all of it rolled back.  A put logs it and goes on; a delete returns, before
\* the bump.
IndexError(w) ==
    /\ wr[w].pc = "index"
    /\ Fails
    /\ \E s \in {staged, staged \cup Victims(wr[w].keys), {}} : staged' = s
    /\ IF ready \/ dir = "ok"
       THEN Missed(w, wr[w].keys)
       ELSE drift' = WipedDrift /\ owed' = IF wr[w].fenced THEN owed \cup wr[w].keys ELSE owed
    /\ IF wr[w].del
       THEN wr' = [wr EXCEPT ![w] = Idle] /\ skipped' = TRUE
       ELSE Step(w, "bump", FALSE) /\ UNCHANGED skipped
    /\ doc' = OpenedDoc /\ dir' = "ok" /\ ready' = TRUE
    /\ UNCHANGED <<kv, fence, stale, seq, cache, owner, rb, pending, writes,
                   crashes, torn>>

\* ensure_search fails: every operation, delete too, goes on without the index.
IndexUnavailable(w) ==
    /\ wr[w].pc = "index" /\ ~ready
    /\ Fails
    /\ Missed(w, wr[w].keys)
    /\ Step(w, "bump", FALSE)
    /\ UNCHANGED <<disk, staged, owner, ready, rb, pending, writes, crashes,
                   skipped, torn>>

\* bump_write_seq reads the file; one that cannot be read counts as 0.
BumpRead(w) ==
    /\ wr[w].pc = "bump"
    /\ \/ wr' = [wr EXCEPT ![w].pc = "bumped", ![w].seen = seq]
          /\ UNCHANGED <<fails, torn>>
       \/ wr' = [wr EXCEPT ![w].pc = "bumped", ![w].seen = 0]
          /\ Fails /\ torn' = TRUE
    /\ UNCHANGED <<disk, staged, owner, ready, rb, pending, writes, crashes, owed,
                   drift, skipped>>

\* Then it writes it, in place and with the result thrown away: a write that
\* fails leaves the old number, or an empty file, and the writer goes on.
BumpWrite(w) ==
    /\ wr[w].pc = "bumped"
    /\ \/ seq' = wr[w].seen + 1 /\ skipped' = FALSE /\ UNCHANGED <<fails, torn>>
       \/ Fails /\ skipped' = TRUE /\ UNCHANGED <<seq, torn>>
       \/ Fails /\ skipped' = TRUE /\ seq' = 0 /\ torn' = TRUE
    /\ wr' = [wr EXCEPT ![w].pc = "clear"]
    /\ UNCHANGED <<kv, doc, dir, fence, stale, cache, staged, owner, ready, rb,
                   pending, writes, crashes, owed, drift>>

\* The fence is one file for all: lifting it uncovers what other writers owe.
\* Only a writer whose index update succeeded lifts it.
ClearFence(w) ==
    /\ wr[w].pc = "clear"
    /\ IF wr[w].synced
       THEN /\ fence' = FALSE
            /\ drift' = drift \cup owed /\ owed' = {}
            /\ wr' = [v \in Writers |-> IF v = w THEN Idle
                                        ELSE [wr[v] EXCEPT !.fenced = FALSE]]
       ELSE /\ UNCHANGED <<fence, drift, owed>>
            /\ wr' = [wr EXCEPT ![w] = Idle]
    /\ UNCHANGED <<kv, doc, dir, stale, seq, cache, staged, owner, ready, rb,
                   pending, bounds, skipped, torn>>

-----------------------------------------------------------------------------
(* Cached reports.                                                         *)

\* A report command that runs directly on the store: served from its cache
\* while the sequence is the cache's, or computed from a scan and cached under
\* the sequence read first.  Through the daemon nothing is cached: the socket
\* refuses writes to analytics keys.
Report ==
    /\ owner = "command" /\ AllIdle
    /\ cache' = IF cache.any /\ cache.tag = seq THEN cache
                ELSE [tag |-> seq, view |-> kv, any |-> TRUE]
    /\ UNCHANGED <<kv, doc, dir, fence, stale, seq, memory, bounds, history>>

\* `mati gaps` closes the store under its graph before it caches.
GapsScan ==
    /\ owner = "command" /\ AllIdle /\ seq > 0
    /\ ~(cache.any /\ cache.tag = seq)
    /\ pending' = [tag |-> seq, view |-> kv, any |-> TRUE]
    /\ owner' = "none" /\ ready' = FALSE /\ staged' = {}
    /\ UNCHANGED <<disk, rb, wr, bounds, history>>

\* Mutant: the report is cached under the sequence of the second opening.
GapsStoreRetagged ==
    /\ pending.any /\ owner = "command" /\ AllIdle
    /\ cache' = [pending EXCEPT !.tag = seq]
    /\ pending' = NoReport
    /\ UNCHANGED <<kv, doc, dir, fence, stale, seq, staged, owner, ready, rb, wr,
                   bounds, history>>

\* It reopens the store, and caches if it got the store and not the daemon.
GapsStore ==
    /\ pending.any
    /\ \/ owner = "command" /\ AllIdle /\ cache' = pending
       \/ owner = "daemon" /\ UNCHANGED cache
    /\ pending' = NoReport
    /\ UNCHANGED <<kv, doc, dir, fence, stale, seq, staged, owner, ready, rb, wr,
                   bounds, history>>

-----------------------------------------------------------------------------
(* Faults.                                                                 *)

InFlight(pcs) == UNION {wr[w].keys : w \in {v \in Writers : wr[v].pc \in pcs}}
Uncovered(pcs) ==
    UNION {wr[w].keys : w \in {v \in Writers : wr[v].pc \in pcs /\ ~wr[v].fenced}}

\* The process is killed.  A sequence file being written may be left empty,
\* which reads as 0.
Crash ==
    /\ owner # "none" /\ crashes < MaxCrashes
    /\ crashes' = crashes + 1
    /\ owner' = "none" /\ ready' = FALSE /\ staged' = {}
    /\ drift' = drift \cup Uncovered({"fence", "index"})
    /\ owed' = owed \cup (InFlight({"index"}) \ Uncovered({"index"}))
    /\ skipped' = (skipped \/ InFlight({"fence", "index", "bump", "bumped"}) # {})
    /\ \/ UNCHANGED <<seq, torn>>
       \/ /\ \E w \in Writers : wr[w].pc = "bumped"
          /\ seq' = 0 /\ torn' = TRUE
    /\ rb' = NotRebuilding
    /\ wr' = [w \in Writers |-> Idle]
    /\ UNCHANGED <<kv, doc, dir, fence, stale, cache, pending, writes, fails>>

\* The index on disk stops opening: damage, or a binary with another schema.
Corrupt ==
    /\ owner = "none" /\ dir = "ok" /\ crashes < MaxCrashes
    /\ crashes' = crashes + 1
    /\ dir' = "corrupt"
    /\ UNCHANGED <<kv, doc, fence, stale, seq, cache, memory, writes, fails,
                   history>>

WriterNext(w) ==
    \/ \E k \in Keys : Put(w, k) \/ Delete(w, k)
    \/ \E keys \in (SUBSET Keys) \ {{}} :
          PutBatch(w, keys) \/ TransactKnowledge(w, keys) \/ PutBatchKvOnly(w, keys)
    \/ WriteFence(w) \/ IndexOk(w) \/ IndexError(w) \/ IndexUnavailable(w)
    \/ BumpRead(w) \/ BumpWrite(w) \/ ClearFence(w)

Next ==
    \/ \E who \in {"command", "daemon"} : Open(who)
    \/ OpenAndRebuild \/ RebuildNamespace \/ Close
    \/ \E w \in Writers : WriterNext(w)
    \/ MarkSearchStale
    \/ Report \/ GapsScan \/ GapsStore
    \/ Crash \/ Corrupt

Spec == Init /\ [][Next]_vars

-----------------------------------------------------------------------------
(* Properties.                                                             *)

\* Whenever no process has the store and neither marker calls for a rebuild,
\* a document that is not what the store holds has one of the known causes:
\* a kill between the commit and the fence, a fence lifted by another writer,
\* two writers whose index updates came in the other order than their commits,
\* a deletion by phrase, a wiped index, or a batch written without the index.
\* put, put_batch, delete and open_and_rebuild leave no other hole.
DriftExplained ==
    owner = "none" /\ ~fence /\ ~stale /\ dir = "ok"
        => \A k \in Keys : doc[k] = Expected(k) \/ k \in drift

\* A rebuild that returns leaves exactly the store's documents, stale versions
\* and deleted keys included, but for keys that a key of a later namespace
\* deletes by phrase (open_and_rebuild, "removed keys and old versions cannot
\* survive restart").
Shadowed == UNION {Touched[k] \ {k} : k \in Keys}
RebuildExact ==
    [][ rb < NotRebuilding /\ rb' = NotRebuilding /\ owner' # "none"
          => \A k \in Keys \ Shadowed : doc'[k] = Expected(k)' ]_vars

\* A report served from a cache is what a scan of the store would report now,
\* unless a write is between its commit and its bump, was killed or returned
\* early there, or its bump failed: until the next bump that succeeds, the old
\* report is served.  (The comment on bump_write_seq says that a failed bump
\* makes the next call recompute.)  Where the file was left empty or could not be
\* read, the numbers start again and may meet a cached one.  Concurrent bumps may
\* lose an increment and still never bring back the sequence of a cached report.
ReportsFresh ==
    cache.any /\ cache.tag = seq /\ ~skipped /\ ~torn
      /\ InFlight({"fence", "index", "bump", "bumped"}) = {}
        => cache.view = kv
=============================================================================

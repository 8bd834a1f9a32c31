--------------------------- MODULE GotchaHandlers ---------------------------
(***************************************************************************)
(* The daemon's gotcha mutations (src/mcp/handlers.rs): GotchaUpsert,      *)
(* GotchaConfirm and GotchaTombstone, and FileEnrich as the handler that   *)
(* rewrites file records beside them.                                      *)
(*                                                                         *)
(* Each connection is a task, and the handlers hold only the shared read   *)
(* lock of the graph, so they interleave at every store access.  A handler *)
(* reads the gotcha, reads each file record it has to change, commits all  *)
(* of them in one transact_knowledge transaction (retried from the first   *)
(* read on a write conflict), and then syncs the graph edges, which live   *)
(* in another tree, one by one and best effort.  The transaction begins    *)
(* after the reads, so the store reports a conflict only for commits that  *)
(* overlap the commit itself.                                              *)
(***************************************************************************)
EXTENDS GotchaIndex

CONSTANTS
    Tasks,        \* concurrent connections
    Retries,      \* WRITE_CONFLICT_RETRIES
    MaxCalls,     \* bound: requests
    MaxFails,     \* bound: store accesses that fail
    MaxCrashes    \* bound: daemon crashes and aborted drains

ASSUME RetriesAssumption == Retries \in Nat \ {0}
ASSUME BoundAssumption   == MaxCalls \in Nat /\ MaxFails \in Nat /\ MaxCrashes \in Nat

\* Records of the two namespaces have different keys.
ASSUME NamespaceAssumption == Files \cap Gotchas = {}

\* The locals of a task that serves nothing name some key.
ASSUME SomeGotcha == Gotchas # {}

VARIABLES
    pc,        \* where each task is in its handler
    loc,       \* the locals of each handler
    calls, fails, crashes,
    stale,     \* history: what a task has read and another has since committed
    contended, \* history: files committed from a stale or failed read
    raced      \* history: gotchas whose edge sync was raced, cut or failed

bounds  == <<calls, fails, crashes>>
history == <<stale, contended, raced>>
vars    == <<index, pc, loc, bounds, history>>

Kinds == {"upsert", "confirm", "tombstone", "enrich"}
PCs   == {"idle", "get", "links", "propagate", "commit", "edges"}
\* key, new: the request (new: the affected files; for an enrich, its path);
\* rec: the gotcha record to write; add, rem: the file records to read and link
\* or unlink still; prop: the ones to read still for confirmation_count;
\* puts, buf: the file records the transaction writes; eadd, erem: the edges to
\* sync still; tries: attempts made.
Locals == [kind : Kinds, key : Gotchas, new : SUBSET Files, rec : GotchaRec,
           add : SUBSET Files, rem : SUBSET Files, prop : SUBSET Files,
           puts : SUBSET Files, buf : [Files -> FileRec],
           eadd : SUBSET Files, erem : SUBSET Files, tries : 0..Retries]

NoFile == [exists |-> FALSE, keys |-> {}]
Request(kind, g, new) ==
    [kind |-> kind, key |-> g, new |-> new, rec |-> NoGotcha,
     add |-> {}, rem |-> {}, prop |-> {}, puts |-> {}, buf |-> [f \in Files |-> NoFile],
     eadd |-> {}, erem |-> {}, tries |-> 0]
NoRequest == Request("enrich", CHOOSE g \in Gotchas : TRUE, {})

TypeOK ==
    /\ IndexTypeOK
    /\ pc \in [Tasks -> PCs]
    /\ loc \in [Tasks -> Locals]
    /\ calls \in 0..MaxCalls /\ fails \in 0..MaxFails /\ crashes \in 0..MaxCrashes
    /\ stale \in [Tasks -> SUBSET (Files \cup Gotchas)]
    /\ contended \subseteq Files /\ raced \subseteq Gotchas

Init ==
    /\ ExactInit
    /\ pc = [t \in Tasks |-> "idle"]
    /\ loc = [t \in Tasks |-> NoRequest]
    /\ calls = 0 /\ fails = 0 /\ crashes = 0
    /\ stale = [t \in Tasks |-> {}]
    /\ contended = {} /\ raced = {}

Goto(t, l) == pc' = [pc EXCEPT ![t] = l]
Set(t, l)  == loc' = [loc EXCEPT ![t] = l]
Return(t)  == Goto(t, "idle") /\ Set(t, NoRequest)
CanFail    == fails < MaxFails /\ fails' = fails + 1 /\ UNCHANGED <<calls, crashes>>
\* t reads a record now, so its copy is the current one.
Fresh(t, r) == stale' = [stale EXCEPT ![t] = @ \ {r}]

-----------------------------------------------------------------------------
(* Requests and reads.                                                     *)

Receive(t, l) ==
    /\ pc[t] = "idle" /\ calls < MaxCalls
    /\ calls' = calls + 1
    /\ Set(t, l)
    /\ stale' = [stale EXCEPT ![t] = {}]

HandleGotcha(t, kind, g, new) ==
    /\ Receive(t, Request(kind, g, new))
    /\ Goto(t, "get")
    /\ raced' = IF \E u \in Tasks \ {t} : pc[u] # "idle" /\ loc[u].key = g
                                          /\ loc[u].kind # "enrich"
                THEN raced \cup {g} ELSE raced
    /\ UNCHANGED <<index, fails, crashes, contended>>

HandleGotchaUpsert(t, g, new) == HandleGotcha(t, "upsert", g, new)
HandleGotchaConfirm(t, g)     == HandleGotcha(t, "confirm", g, {})
HandleGotchaTombstone(t, g)   == HandleGotcha(t, "tombstone", g, {})

\* handle_file_enrich reads the file record and will write all of it back,
\* gotcha_keys as read.  (ConsultationHit and FileReparse do the same.)
HandleFileEnrich(t, f) ==
    /\ file[f].exists
    /\ Receive(t, [Request("enrich", NoRequest.key, {f}) EXCEPT
                      !.puts = {f}, !.buf = [@ EXCEPT ![f] = file[f]]])
    /\ Goto(t, "commit")
    /\ UNCHANGED <<index, fails, crashes, contended, raced>>

\* Plan of an attempt: the record to write, and from which files to which the
\* key moves.
Plan(l, rec, old, new, prop) ==
    [l EXCEPT !.rec = rec, !.add = new \ old, !.rem = old \ new, !.prop = prop,
              !.eadd = new \ old, !.erem = old \ new,
              !.puts = {}, !.buf = [f \in Files |-> NoFile]]

\* Mutant: the files the gotcha named before are forgotten.
PlanUpsertForgetsOld(l, rec) ==
    Plan(l, [life |-> "active", files |-> l.new], {}, l.new, {})
\* Mutant: the edges of a deleted gotcha stay.
PlanTombstoneKeepsEdges(l, rec) ==
    [Plan(l, [rec EXCEPT !.life = "tombstoned"], rec.files, {}, {}) EXCEPT !.erem = {}]

\* upsert_commit_once: a tombstoned record starts over.
PlanUpsert(l, rec) ==
    Plan(l, [life |-> "active", files |-> l.new], AffectedFiles(rec), l.new, {})
PlanConfirm(l, rec)   == Plan(l, rec, {}, rec.files, rec.files)
PlanTombstone(l, rec) ==
    Plan(l, [rec EXCEPT !.life = "tombstoned"], rec.files, {}, {})

\* The first read of an attempt, and its early returns.
GetGotcha(t) ==
    LET l == loc[t]
        r == gotcha[l.key]
    IN  /\ pc[t] = "get"
        /\ \/ /\ l.kind = "upsert"
              /\ Set(t, PlanUpsert(l, r)) /\ Goto(t, "links")
           \/ /\ l.kind = "confirm" /\ r.life = "active"
              /\ Set(t, PlanConfirm(l, r)) /\ Goto(t, "links")
           \/ /\ l.kind = "tombstone" /\ r.life # "none"
              /\ Set(t, PlanTombstone(l, r)) /\ Goto(t, "links")
           \/ /\ l.kind = "confirm" /\ r.life # "active"
              /\ Return(t)
           \/ /\ l.kind = "tombstone" /\ r.life = "none"
              /\ Return(t)
        /\ Fresh(t, l.key)
        /\ UNCHANGED <<index, bounds, contended, raced>>

\* compute_file_link_updates: one file record is read; it is written only when
\* the link is to change.
LinkUpdate(l, f) ==
    LET new == IF f \in l.add THEN Link(file[f], l.key) ELSE Unlink(file[f], l.key)
        l1  == [l EXCEPT !.add = @ \ {f}, !.rem = @ \ {f}]
    IN  IF new = file[f] THEN l1
        ELSE [l1 EXCEPT !.puts = @ \cup {f}, !.buf = [@ EXCEPT ![f] = new]]

ReadForLink(t, f) ==
    /\ pc[t] = "links"
    /\ f \in IF loc[t].add # {} THEN loc[t].add ELSE loc[t].rem
    /\ \/ /\ Set(t, LinkUpdate(loc[t], f))
          /\ UNCHANGED <<bounds, contended>>
       \/ /\ CanFail   \* Err(_) => {}: the file is left out of the transaction
          /\ Set(t, [loc[t] EXCEPT !.add = @ \ {f}, !.rem = @ \ {f}])
          /\ contended' = contended \cup {f}
    /\ Fresh(t, f)
    /\ UNCHANGED <<index, pc, raced>>

LinksRead(t) ==
    /\ pc[t] = "links" /\ loc[t].add = {} /\ loc[t].rem = {}
    /\ Goto(t, "propagate")
    /\ UNCHANGED <<index, loc, bounds, history>>

\* compute_confirmation_propagation: the stored record, with its gotcha_keys as
\* stored, is pushed after the link update of the same file.
ReadForCount(t, f) ==
    LET l == [loc[t] EXCEPT !.prop = @ \ {f}]
    IN  /\ pc[t] = "propagate"
        /\ f \in loc[t].prop
        /\ Set(t, IF file[f].exists
                  THEN [l EXCEPT !.puts = @ \cup {f}, !.buf = [@ EXCEPT ![f] = file[f]]]
                  ELSE l)
        /\ Fresh(t, f)
        /\ UNCHANGED <<index, pc, bounds, contended, raced>>

CountsRead(t) ==
    /\ pc[t] = "propagate" /\ loc[t].prop = {}
    /\ Goto(t, "commit")
    /\ UNCHANGED <<index, loc, bounds, history>>

-----------------------------------------------------------------------------
(* The transaction.                                                        *)

\* Every other task's copy of what t writes is stale from now on.
Commits(t, records) ==
    stale' = [u \in Tasks |-> IF u = t THEN {} ELSE stale[u] \cup records]

PutFiles(l) == file' = [f \in Files |-> IF f \in l.puts THEN l.buf[f] ELSE file[f]]

\* transact_knowledge commits: the gotcha, its file links and the audit entry.
Commit(t) ==
    LET l == loc[t] IN
    /\ pc[t] = "commit" /\ l.kind # "enrich"
    /\ gotcha' = [gotcha EXCEPT ![l.key] = l.rec]
    /\ PutFiles(l)
    /\ Commits(t, l.puts \cup {l.key})
    /\ contended' = contended \cup (l.puts \cap stale[t])
                      \cup (IF l.key \in stale[t]
                            THEN gotcha[l.key].files \cup l.rec.files ELSE {})
    /\ Goto(t, "edges")
    /\ UNCHANGED <<edges, marker, loc, bounds, raced>>

CommitEnrich(t) ==
    LET l == loc[t] IN
    /\ pc[t] = "commit" /\ l.kind = "enrich"
    /\ PutFiles(l)
    /\ Commits(t, l.puts)
    /\ contended' = contended \cup (l.puts \cap stale[t])
    /\ Return(t)
    /\ UNCHANGED <<gotcha, edges, marker, bounds, raced>>

\* Mutant: the attempts are not counted.
RetryForever(t) == [loc[t] EXCEPT !.rec = NoGotcha]

\* The attempt is over; what it had read is dropped.
NextAttempt(t) == [loc[t] EXCEPT !.tries = @ + 1]

\* retry_on_write_conflict: the commit overlapped another task's and lost.
CommitConflict(t) ==
    /\ pc[t] = "commit"
    /\ \E u \in Tasks \ {t} : pc[u] # "idle"
    /\ IF loc[t].kind # "enrich" /\ loc[t].tries + 1 < Retries
       THEN Set(t, NextAttempt(t)) /\ Goto(t, "get")
       ELSE Return(t)
    /\ UNCHANGED <<index, bounds, history>>

\* Any other store error ends the request.
CommitFails(t) ==
    /\ pc[t] = "commit"
    /\ CanFail
    /\ Return(t)
    /\ UNCHANGED <<index, history>>

-----------------------------------------------------------------------------
(* The edges, after the transaction.                                       *)

\* sync_has_gotcha_edges: a failure is logged; the marker is not touched.
SyncEdge(t, f) ==
    LET l == loc[t] IN
    /\ pc[t] = "edges"
    /\ f \in IF l.eadd # {} THEN l.eadd ELSE l.erem
    /\ Set(t, [l EXCEPT !.eadd = @ \ {f}, !.erem = @ \ {f}])
    /\ \/ /\ edges' = IF f \in l.eadd THEN edges \cup {<<f, l.key>>}
                      ELSE edges \ {<<f, l.key>>}
          /\ UNCHANGED <<bounds, raced>>
       \/ /\ CanFail
          /\ raced' = raced \cup {l.key}
          /\ UNCHANGED edges
    /\ UNCHANGED <<gotcha, file, marker, pc, stale, contended>>

Respond(t) ==
    /\ pc[t] = "edges" /\ loc[t].eadd = {} /\ loc[t].erem = {}
    /\ Return(t)
    /\ UNCHANGED <<index, bounds, history>>

\* The daemon dies, or its drain times out and aborts the tasks.
Crash ==
    /\ crashes < MaxCrashes
    /\ crashes' = crashes + 1
    /\ pc' = [t \in Tasks |-> "idle"]
    /\ loc' = [t \in Tasks |-> NoRequest]
    /\ raced' = raced \cup {loc[t].key : t \in {u \in Tasks : pc[u] = "edges"}}
    /\ UNCHANGED <<index, calls, fails, stale, contended>>

Step(t) ==
    \/ GetGotcha(t)
    \/ \E f \in Files : ReadForLink(t, f)
    \/ LinksRead(t)
    \/ \E f \in Files : ReadForCount(t, f)
    \/ CountsRead(t)
    \/ Commit(t)
    \/ CommitEnrich(t)
    \/ CommitConflict(t)
    \/ CommitFails(t)
    \/ \E f \in Files : SyncEdge(t, f)
    \/ Respond(t)

Arrive(t) ==
    \/ \E g \in Gotchas, new \in SUBSET Files : HandleGotchaUpsert(t, g, new)
    \/ \E g \in Gotchas : HandleGotchaConfirm(t, g)
    \/ \E g \in Gotchas : HandleGotchaTombstone(t, g)
    \/ \E f \in Files : HandleFileEnrich(t, f)

Done == (\A t \in Tasks : pc[t] = "idle") /\ calls = MaxCalls /\ UNCHANGED vars

Next == (\E t \in Tasks : Arrive(t) \/ Step(t)) \/ Crash \/ Done

Spec     == Init /\ [][Next]_vars
\* tokio polls every task that is ready.
FairSpec == Spec /\ \A t \in Tasks : WF_vars(Step(t))

-----------------------------------------------------------------------------
(* Properties.                                                             *)

\* In every state, through retries, failed commits and crashes, the gotcha_keys
\* of a file are exactly the active gotchas that name it, unless some handler
\* has committed a copy of that file or of one of its gotchas that another had
\* overwritten since it was read, or failed to read it (transact_knowledge of
\* upsert_, confirm_ and tombstone_commit_once: record and links together).
UncontendedExact == \A f \in Files \ contended : file[f].keys = DesiredKeys(f)

\* The edges of a gotcha agree with it between requests, unless two requests on
\* it overlapped or its edge sync failed or was cut (sync_has_gotcha_edges).
QuietEdgesExact ==
    \A g \in Gotchas \ raced :
        (\A t \in Tasks : pc[t] # "idle" => loc[t].key # g)
            => \A f \in Files : <<f, g>> \notin EdgeDrift

\* What the handlers keep exact together: the links inside their transactions
\* and the edges after them.
HandlersExact == UncontendedExact /\ QuietEdgesExact

\* Every request is answered, the retries of conflicting ones included
\* (retry_on_write_conflict is bounded).
RequestsReturn == \A t \in Tasks : pc[t] # "idle" ~> pc[t] = "idle"

=============================================================================

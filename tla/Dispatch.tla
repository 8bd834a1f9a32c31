------------------------------ MODULE Dispatch ------------------------------
(* The daemon's command dispatcher (mcp/dispatch_v2.rs) with the handlers it *)
(* calls: which tree a command writes, what is committed together with its   *)
(* audit row, and what a failing store access or a kill leaves behind.       *)
(* Connections interleave between any two store accesses.                    *)
(*                                                                           *)
(* A record is a tuple of stamps: each field holds the number of the commit  *)
(* that set it, so a field that goes back to an older stamp is a lost update. *)
EXTENDS Naturals, Sequences

CONSTANTS Conns, Cmds, MaxReqs, MaxFails, MaxCrashes

ASSUME DispatchAssumption ==
    /\ MaxReqs \in Nat /\ MaxFails \in Nat /\ MaxCrashes \in Nat

VARIABLES
    rec,       \* the knowledge records
    day,       \* requests counted in today's aggregate (sessions tree)
    receipts,  \* requests whose consultation receipt is stored (sessions tree)
    current,   \* session:current is stored
    audits,    \* the audit rows of both trees
    conn,      \* what each connection executes
    spawned,   \* deferred writes not yet executed
    clock,     \* number of commits so far
    epoch,     \* the daemon session
    asked,     \* requests issued: command and result (history)
    truth,     \* the records, had every commit read what it overwrote (history)
    raced,     \* keys written from a copy another commit had overtaken (history)
    mute,      \* requests that lost an audit write (history)
    effects,   \* the trees each request has changed (history)
    counted,   \* requests the aggregate should count (history)
    fails, crashes

store   == <<rec, day, receipts, current, audits>>
ghosts  == <<truth, raced, effects, counted>>
history == <<asked, mute, ghosts>>
vars    == <<store, conn, spawned, clock, epoch, history, fails, crashes>>

-----------------------------------------------------------------------------
(* Command classes. *)

SideEffectingReads == {"mem_get", "mem_bootstrap"}
SessionSide == {"session_log", "consultation_hit", "session_flush",
                "session_harvest", "session_clear_consults"}
KnowledgeMutations == {"gotcha_upsert", "gotcha_confirm", "gotcha_tombstone",
                       "file_enrich", "file_reparse", "doc_capture",
                       "decision_upsert", "dev_note_upsert", "record_import"}
Compound == {"file_edit_hook"}
ConfigCommands == {"config_get", "config_set", "sandbox_audit"}

\* The commands the v1 bridge translates, and the native pure read mem_query.
PureReads == {"ping", "metrics", "get", "hook_evaluate", "scan_prefix", "history",
              "history_since", "session_check_consulted",
              "session_check_consulted_recent", "scan_enforcement_events",
              "mem_query"}

\* Anything else fails to decode and reaches no handler.
Command == SideEffectingReads \cup SessionSide \cup KnowledgeMutations
             \cup Compound \cup ConfigCommands \cup PureReads
ASSUME CommandsAssumption == Cmds \subseteq Command

\* Command::is_mutation: a rejection at the fence is audited for these only.
IsMutation(cmd) ==
    cmd \in SideEffectingReads \cup SessionSide \cup KnowledgeMutations
            \cup Compound \cup (ConfigCommands \ {"config_get"})

\* The record each command is about (Command::target_key).
Target(cmd) ==
    CASE cmd \in {"gotcha_upsert", "gotcha_confirm", "gotcha_tombstone"} -> "gotcha"
      [] cmd = "decision_upsert" -> "decision"
      [] cmd = "dev_note_upsert" -> "note"
      [] OTHER -> "file"

\* The store accesses of each command, in order.
Route(cmd) ==
    CASE cmd \in {"file_reparse"}       -> <<"load", "commit", "cload", "cascade">>
      [] cmd = "record_import"          -> <<"commit", "commit">>
      [] cmd \in KnowledgeMutations \ {"file_reparse", "record_import"}
                                        -> <<"load", "commit">>
      [] cmd = "mem_get"                -> <<"load", "sessions">>
      [] cmd = "mem_bootstrap"          -> <<"load", "stage", "sessions">>
      [] cmd = "session_log"            -> <<"stage", "sessions">>
      [] cmd = "consultation_hit"       -> <<"stage", "sessions", "bload", "bump">>
      [] cmd = "file_edit_hook"         -> <<"stage", "sessions", "bload", "bump",
                                             "load", "commit", "cload", "cascade">>
      [] cmd = "session_flush"          -> <<"stage", "sessions">>
      [] cmd = "session_harvest"        -> <<"pload", "promote", "archive", "sweep", "report">>
      [] cmd = "session_clear_consults" -> <<"sweep">>
      [] OTHER                          -> <<>>

-----------------------------------------------------------------------------
(* Records. *)

Keys == {"file", "gotcha", "decision", "note"}
Absent == [life |-> "none", src |-> "static", conf |-> FALSE, text |-> 0,
           shape |-> 0, links |-> 0, hits |-> 0]
Stub == [Absent EXCEPT !.life = "active"]

\* Enrichment keeps the source of a record a developer vouched for.
Enriched(src) == IF src = "dev" THEN "dev" ELSE "agent"

\* upsert_commit_once: any earlier confirmation is reset, a tombstoned record
\* starts over; the file is linked, with a stub if it has no record.
Upserted(s, n) ==
    LET old == IF s["gotcha"].life = "active" THEN s["gotcha"] ELSE Stub
    IN  [s EXCEPT !["gotcha"] = [old EXCEPT !.text = n, !.src = "agent",
                                                   !.conf = FALSE],
                  !["file"] = [(IF @.life = "none" THEN Stub ELSE @)
                               EXCEPT !.links = n]]

Confirmed(s, n) ==
    [s EXCEPT !["gotcha"] = [@ EXCEPT !.src = "dev", !.conf = TRUE],
              !["file"] = [(IF @.life = "none" THEN Stub ELSE @) EXCEPT !.links = n]]

Tombstoned(s, n) ==
    [s EXCEPT !["gotcha"].life = "dead",
              !["file"] = IF @.life = "none" THEN @ ELSE [@ EXCEPT !.links = n]]

\* Mutant: the enrichment rebuilds the payload and forgets the links.
FileEnrichedAnew(s, n) ==
    [s EXCEPT !["file"] = [@ EXCEPT !.text = n, !.links = 0]]

FileEnriched(s, n) ==
    [s EXCEPT !["file"].text = n, !["file"].src = Enriched(@)]

\* reparse_staged: structure and staleness change, enrichment and links stay.
Reparsed(s, n) ==
    [s EXCEPT !["file"] = IF @.life = "none" THEN [Stub EXCEPT !.shape = n]
                          ELSE [@ EXCEPT !.shape = n]]

DocCaptured(s, n) ==
    [s EXCEPT !["file"].text = n, !["file"].src = "hook"]

DecisionUpserted(s, n) ==
    [s EXCEPT !["decision"] = [s["decision"] EXCEPT !.life = "active", !.text = n,
                                                    !.src = Enriched(@)]]

DevNoteUpserted(s, n) ==
    [s EXCEPT !["note"] = [s["note"] EXCEPT !.life = "active", !.text = n,
                           !.src = IF s["note"].life = "none" THEN "dev" ELSE @]]

\* handle_record_import writes the given records over what is there, one
\* chunk after the other.
Imported(s, n, left) ==
    LET whole == [Stub EXCEPT !.src = "import", !.text = n, !.shape = n, !.links = n]
    IN  IF left = 2 THEN [s EXCEPT !["decision"] = whole]
                    ELSE [s EXCEPT !["note"] = whole]

\* What a command makes of the records s it read; n is the number of the commit.
Plan(cmd, s, n, left) ==
    CASE cmd = "gotcha_upsert"    -> Upserted(s, n)
      [] cmd = "gotcha_confirm"   -> Confirmed(s, n)
      [] cmd = "gotcha_tombstone" -> Tombstoned(s, n)
      [] cmd = "file_enrich"      -> FileEnriched(s, n)
      [] cmd \in {"file_reparse", "file_edit_hook"} -> Reparsed(s, n)
      [] cmd = "doc_capture"      -> DocCaptured(s, n)
      [] cmd = "decision_upsert"  -> DecisionUpserted(s, n)
      [] cmd = "dev_note_upsert"  -> DevNoteUpserted(s, n)
      [] cmd = "record_import"    -> Imported(s, n, left)

\* The keys whose records the transaction puts.
Puts(cmd, left) ==
    CASE cmd \in {"gotcha_upsert", "gotcha_confirm", "gotcha_tombstone"} -> {"gotcha", "file"}
      [] cmd = "record_import" -> IF left = 2 THEN {"decision"} ELSE {"note"}
      [] OTHER -> {Target(cmd)}

\* What each command is there to change (the fields its documentation names);
\* everything else of a record it writes has to survive.
Fields == {"life", "src", "conf", "text", "shape", "links", "hits"}
Only(key, fs) == [k \in Keys |-> IF k = key THEN fs ELSE {}]
Owned(cmd) ==
    CASE cmd = "gotcha_upsert"    -> [Only("file", {"life", "links"}) EXCEPT !["gotcha"] = Fields]
      [] cmd = "gotcha_confirm"   -> [Only("file", {"life", "links"}) EXCEPT !["gotcha"] = {"src", "conf"}]
      [] cmd = "gotcha_tombstone" -> [Only("file", {"links"}) EXCEPT !["gotcha"] = {"life"}]
      [] cmd \in {"file_enrich", "doc_capture"} -> Only("file", {"text", "src"})
      [] cmd \in {"file_reparse", "file_edit_hook"} -> Only("file", {"life", "shape"})
      [] cmd = "record_import"    -> [k \in Keys |-> Fields]
      [] OTHER                    -> Only(Target(cmd), {"life", "text", "src"})

\* Errors found in the records read: FileEnrich needs an active record (and a
\* purpose, unless it has one), Confirm an active gotcha, Tombstone a gotcha.
Refused(cmd, s) ==
    \/ cmd = "file_enrich" /\ s["file"].life # "active"
    \/ cmd = "gotcha_confirm" /\ s["gotcha"].life # "active"
    \/ cmd = "gotcha_tombstone" /\ s["gotcha"].life = "none"

\* Nothing to write although the command is accepted: an unchanged or
\* unparsable file, no doc comment, a record that is not StaticAnalysis.
MayBeNoop(cmd, s) == cmd \in {"file_reparse", "file_edit_hook", "doc_capture"}
MustBeNoop(cmd, s) ==
    cmd = "doc_capture" /\ (s["file"].life = "none" \/ s["file"].src # "static")

-----------------------------------------------------------------------------
(* Connections. *)

Idle == [pc |-> "idle", id |-> 0, cmd |-> "none", at |-> 0, left |-> 0,
         snap |-> [k \in Keys |-> Absent], seen |-> {}, agg |-> FALSE]

Row(tree, id, ok) == [tree |-> tree, id |-> id, ok |-> ok]
\* The edit hook reaches a row without record only in its reparse.
TreeOf(cmd) == IF cmd \in KnowledgeMutations \cup Compound THEN "knowledge" ELSE "sessions"

Step(c) == IF conn[c].pc = "run" /\ conn[c].at <= Len(Route(conn[c].cmd))
           THEN Route(conn[c].cmd)[conn[c].at] ELSE "none"

\* Mutant: the handler goes on after it has answered.
AnswerAndGoOn(c, result) ==
    /\ UNCHANGED conn
    /\ asked' = [asked EXCEPT ![conn[c].id].result = result]

\* The response is written and the connection takes its next request.
Answer(c, result) ==
    /\ conn' = [conn EXCEPT ![c] = Idle]
    /\ asked' = [asked EXCEPT ![conn[c].id].result = result]

Goto(c, pc) ==
    /\ conn' = [conn EXCEPT ![c].pc = pc]
    /\ UNCHANGED asked

\* On to the next store access, or to the answer after the last one.
Advance(c, f) ==
    IF conn[c].at = Len(Route(conn[c].cmd)) THEN Answer(c, "ok")
    ELSE /\ conn' = [conn EXCEPT ![c] = [f EXCEPT !.at = @ + 1]]
         /\ UNCHANGED asked

Changes(c, tree) == effects' = effects \cup {[tree |-> tree, id |-> conn[c].id]}

Fail == fails < MaxFails /\ fails' = fails + 1

\* Version check and session fence, then the classes in the order of the code.
\* Pure reads and configuration commands touch none of the state here.
Receive(c) ==
    /\ conn[c].pc = "idle" /\ Len(asked) < MaxReqs
    /\ \E cmd \in Cmds, envelope \in {"ok", "version", "session"} :
        LET id == Len(asked) + 1 IN
        /\ envelope = "session" => epoch > 0
        /\ asked' = Append(asked, [cmd |-> cmd, result |->
               IF envelope # "ok" /\ ~IsMutation(cmd) THEN "err"
               ELSE IF envelope = "ok" /\ Route(cmd) = <<>> THEN "ok" ELSE "open"])
        /\ conn' = IF asked'[id].result # "open" THEN conn
                   ELSE [conn EXCEPT ![c] = [Idle EXCEPT
                       !.pc = IF envelope = "ok" THEN "run" ELSE "fenced",
                       !.id = id, !.cmd = cmd, !.at = 1, !.left = 2]]
    /\ UNCHANGED <<store, spawned, clock, epoch, ghosts, mute, fails, crashes>>

\* A rejection row, best effort, in the tree of the command; then the error.
Reject(c) ==
    /\ conn[c].pc \in {"fenced", "reject"}
    /\ \/ /\ audits' = audits \cup {Row(IF conn[c].pc = "fenced" THEN "sessions"
                                        ELSE TreeOf(conn[c].cmd), conn[c].id, FALSE)}
          /\ UNCHANGED <<fails, mute>>
       \/ Fail /\ mute' = mute \cup {conn[c].id} /\ UNCHANGED audits
    /\ Answer(c, "err")
    /\ UNCHANGED <<rec, day, receipts, current, spawned, clock, epoch, ghosts, crashes>>

\* Where a failed step leads: the edit hook logs and answers, the others reject.
Dropped(c) ==
    IF conn[c].cmd = "file_edit_hook"
    THEN Answer(c, "ok") /\ mute' = mute \cup {conn[c].id}
    ELSE Goto(c, "reject") /\ UNCHANGED mute

\* Validation of the input, before anything is read.
Invalid(c) ==
    /\ Step(c) = "load" /\ conn[c].cmd \in KnowledgeMutations \cup {"mem_get"}
    /\ Goto(c, "reject")
    /\ UNCHANGED <<store, spawned, clock, epoch, ghosts, mute, fails, crashes>>

\* The handler reads its records and decides what it will commit.
Load(c) ==
    /\ Step(c) = "load"
    /\ LET cmd == conn[c].cmd
           got == [conn[c] EXCEPT !.snap = rec] IN
       \/ Refused(cmd, rec) /\ Goto(c, "reject")
       \/ ~Refused(cmd, rec) /\ ~MustBeNoop(cmd, rec) /\ Advance(c, got)
       \/ /\ MayBeNoop(cmd, rec)
          /\ conn' = [conn EXCEPT ![c] = [got EXCEPT !.pc = "noop"]]
          /\ UNCHANGED asked
    /\ UNCHANGED <<store, spawned, clock, epoch, ghosts, mute, fails, crashes>>

LoadFails(c) ==
    /\ Step(c) = "load" /\ Fail
    /\ IF conn[c].cmd = "doc_capture" THEN Goto(c, "noop") /\ UNCHANGED mute
       ELSE IF conn[c].cmd = "mem_bootstrap" THEN Goto(c, "failed") /\ UNCHANGED mute
       ELSE Dropped(c)
    /\ UNCHANGED <<store, spawned, clock, epoch, ghosts, crashes>>

\* Mutant: nothing to write, nothing to record.
NoopSilent(c) ==
    /\ conn[c].pc = "noop"
    /\ Answer(c, "ok")
    /\ UNCHANGED <<store, spawned, clock, epoch, ghosts, mute, fails, crashes>>

\* Accepted without a record to write: the audit row alone. DocCapture ignores
\* a failure of that write, FileReparse does not.
Noop(c) ==
    /\ conn[c].pc = "noop"
    /\ \/ /\ audits' = audits \cup {Row(TreeOf(conn[c].cmd), conn[c].id, TRUE)}
          /\ Answer(c, "ok")
          /\ UNCHANGED <<fails, mute>>
       \/ /\ Fail
          /\ IF conn[c].cmd = "doc_capture"
             THEN Answer(c, "ok") /\ mute' = mute \cup {conn[c].id}
             ELSE Dropped(c)
          /\ UNCHANGED audits
    /\ UNCHANGED <<rec, day, receipts, current, spawned, clock, epoch, ghosts, crashes>>

\* Puts the records of keys ks as computed in w from the copies in s. The
\* history takes over the fields that are the writer's business, no others.
Write(ks, w, s, own) ==
    /\ rec' = [k \in Keys |-> IF k \in ks THEN w[k] ELSE rec[k]]
    /\ truth' = [k \in Keys |-> [f \in Fields |->
                    IF k \in ks /\ f \in own[k] THEN w[k][f] ELSE truth[k][f]]]
    /\ raced' = raced \cup {k \in ks : s[k] # rec[k]}
    /\ clock' = clock + 1

\* Mutant: the record is put on its own, and the audit row after it.
CommitUnaudited(c) ==
    /\ Step(c) = "commit"
    /\ LET cmd == conn[c].cmd
           s   == IF cmd = "record_import" THEN rec ELSE conn[c].snap
       IN  Write(Puts(cmd, conn[c].left), Plan(cmd, s, clock + 1, conn[c].left), s, Owned(cmd))
    /\ Changes(c, "knowledge")
    /\ Goto(c, "noop")
    /\ UNCHANGED <<day, receipts, current, audits, spawned, epoch, mute, counted, fails,
                   crashes>>

\* Mutant: an error after the transaction is reported as if nothing was written.
CommitThenRejects(c) ==
    /\ Step(c) = "commit"
    /\ conn[c].cmd # "record_import"
    /\ LET cmd == conn[c].cmd IN
       Write(Puts(cmd, 2), Plan(cmd, conn[c].snap, clock + 1, 2), conn[c].snap, Owned(cmd))
    /\ audits' = audits \cup {Row("knowledge", conn[c].id, TRUE)}
    /\ Changes(c, "knowledge")
    /\ Goto(c, "reject")
    /\ UNCHANGED <<day, receipts, current, spawned, epoch, mute, counted, fails, crashes>>

\* transact_knowledge: the records and the accepted row, or neither.
Commit(c) ==
    /\ Step(c) = "commit"
    /\ LET cmd == conn[c].cmd
           s   == IF cmd = "record_import" THEN rec ELSE conn[c].snap
       IN  Write(Puts(cmd, conn[c].left), Plan(cmd, s, clock + 1, conn[c].left), s, Owned(cmd))
    /\ audits' = audits \cup {Row("knowledge", conn[c].id, TRUE)}
    /\ Changes(c, "knowledge")
    /\ Advance(c, [conn[c] EXCEPT !.left = @ - 1])
    /\ UNCHANGED <<day, receipts, current, spawned, epoch, mute, counted, fails, crashes>>

CommitFails(c) ==
    /\ Step(c) = "commit" /\ Fail
    /\ Dropped(c)
    /\ UNCHANGED <<store, spawned, clock, epoch, ghosts, crashes>>

\* Best-effort read-modify-writes of one record after the commit: the access
\* count of the file, the staleness of its gotcha, or its promotion.
Reload(c) ==
    /\ Step(c) \in {"bload", "cload", "pload"}
    /\ \/ Advance(c, [conn[c] EXCEPT !.snap = rec]) /\ UNCHANGED fails
       \/ Fail /\ Advance(c, [conn[c] EXCEPT !.snap = [k \in Keys |-> Absent]])
    /\ UNCHANGED <<store, spawned, clock, epoch, ghosts, mute, crashes>>

Bumped(s) == [s EXCEPT !["file"].hits = @ + 1]
Cascaded(s, n) == [s EXCEPT !["gotcha"].shape = n]

\* promote_gotcha_candidates: a gotcha read often enough is confirmed, whatever
\* its lifecycle.
Promoted(s) == [s EXCEPT !["gotcha"].conf = TRUE]

Bump(c) ==
    /\ Step(c) \in {"bump", "cascade"}
    /\ LET k == IF Step(c) = "bump" THEN "file" ELSE "gotcha"
           s == conn[c].snap
       IN  \/ /\ s[k].life # "none"
              /\ IF k = "file" THEN Write({k}, Bumped(s), s, Only("file", {"hits"}))
                 ELSE Write({k}, Cascaded(s, clock + 1), s, Only("gotcha", {"shape"}))
              /\ UNCHANGED fails
           \/ s[k].life = "none" /\ UNCHANGED <<rec, truth, raced, clock, fails>>
           \/ s[k].life # "none" /\ Fail /\ UNCHANGED <<rec, truth, raced, clock>>
    /\ Advance(c, conn[c])
    /\ UNCHANGED <<day, receipts, current, audits, spawned, epoch, mute, effects, counted,
                   crashes>>

-----------------------------------------------------------------------------
(* The sessions tree. *)

Mints(cmd) == cmd \in {"mem_get", "mem_bootstrap", "consultation_hit", "file_edit_hook"}
Counts(cmd) == cmd \in {"session_log", "consultation_hit", "file_edit_hook", "mem_bootstrap"}

\* upsert_daily_agg_staged reads the aggregate; session_flush_staged lists the
\* receipts for the marker it stages.
Stage(c) ==
    /\ Step(c) = "stage"
    /\ \/ /\ Advance(c, [conn[c] EXCEPT !.seen = day, !.agg = Counts(conn[c].cmd)])
          /\ UNCHANGED <<fails, mute>>
       \/ /\ Fail
          /\ IF conn[c].cmd \in {"file_edit_hook", "mem_bootstrap"}
             THEN Advance(c, conn[c]) /\ UNCHANGED mute
             ELSE Dropped(c)
    /\ UNCHANGED <<store, spawned, clock, epoch, ghosts, crashes>>

\* A read that must be repeated by a task of its own after the answer.
Spawn(c) ==
    IF conn[c].cmd \in SideEffectingReads /\ conn[c].snap["file"].life = "active"
    THEN spawned' = spawned \cup
           {[id |-> conn[c].id, pc |-> IF conn[c].cmd = "mem_get" THEN "put" ELSE "get",
             snap |-> conn[c].snap, seen |-> {}]}
    ELSE UNCHANGED spawned

\* The aggregate is written from the copy the request staged.
Tally(yes, seen, id) ==
    /\ counted' = IF yes THEN counted \cup {id} ELSE counted
    /\ raced' = IF yes /\ seen # day THEN raced \cup {"day"} ELSE raced

\* transact_sessions_raw: aggregate, receipt and accepted row, or none of them.
Sessions(c) ==
    /\ Step(c) = "sessions"
    /\ LET cmd == conn[c].cmd
           id  == conn[c].id IN
       /\ day' = IF conn[c].agg THEN conn[c].seen \cup {id} ELSE day
       /\ Tally(conn[c].agg, conn[c].seen, id)
       /\ receipts' = IF Mints(cmd) THEN receipts \cup {id} ELSE receipts
       /\ current' = (current \/ cmd = "session_flush")
       /\ audits' = audits \cup {Row("sessions", id, TRUE)}
    /\ Changes(c, "sessions")
    /\ Spawn(c)
    /\ Advance(c, conn[c])
    /\ UNCHANGED <<rec, clock, epoch, truth, mute, fails, crashes>>

\* mem_get, mem_bootstrap and the edit hook go on without receipt and row.
SessionsFail(c) ==
    /\ Step(c) = "sessions" /\ Fail
    /\ IF Mints(conn[c].cmd) /\ conn[c].cmd # "consultation_hit"
       THEN /\ Spawn(c)
            /\ Advance(c, conn[c])
            /\ mute' = mute \cup {conn[c].id}
       ELSE Dropped(c) /\ UNCHANGED spawned
    /\ UNCHANGED <<store, clock, epoch, ghosts, crashes>>

\* mem_bootstrap whose assembly failed still commits the receipts, with a
\* rejection row, and answers with the error.
BootstrapFailed(c) ==
    /\ conn[c].pc = "failed"
    /\ \/ /\ receipts' = receipts \cup {conn[c].id}
          /\ day' = day \cup {conn[c].id} /\ Tally(TRUE, day, conn[c].id)
          /\ Changes(c, "sessions")
          /\ audits' = audits \cup {Row("sessions", conn[c].id, FALSE)}
          /\ UNCHANGED <<fails, mute>>
       \/ /\ Fail /\ mute' = mute \cup {conn[c].id}
          /\ UNCHANGED <<receipts, day, raced, effects, counted, audits>>
    /\ Answer(c, "err")
    /\ UNCHANGED <<rec, current, spawned, clock, epoch, truth, crashes>>

\* The task spawned by mem_get puts back the record it was given; the one
\* spawned by mem_bootstrap reads it again, if it is there. Then the aggregate.
Background(j) ==
    /\ \/ /\ j.pc = "get"
          /\ spawned' = (spawned \ {j}) \cup
                IF rec["file"].life = "none" THEN {} ELSE {[j EXCEPT !.pc = "put", !.snap = rec]}
          /\ UNCHANGED <<rec, truth, raced, clock, day, counted, fails>>
       \/ /\ j.pc = "put" /\ Write({"file"}, Bumped(j.snap), j.snap, Only("file", {"hits"}))
          /\ spawned' = (spawned \ {j}) \cup
                IF asked[j.id].cmd = "mem_get" THEN {[j EXCEPT !.pc = "agg"]} ELSE {}
          /\ UNCHANGED <<day, counted, fails>>
       \/ /\ j.pc = "agg"
          /\ spawned' = (spawned \ {j}) \cup {[j EXCEPT !.pc = "count", !.seen = day]}
          /\ UNCHANGED <<rec, truth, raced, clock, day, counted, fails>>
       \/ /\ j.pc = "count"
          /\ day' = j.seen \cup {j.id} /\ Tally(TRUE, j.seen, j.id)
          /\ spawned' = spawned \ {j}
          /\ UNCHANGED <<rec, truth, clock, fails>>
       \/ /\ Fail
          /\ spawned' = (spawned \ {j}) \cup
                IF j.pc = "put" /\ asked[j.id].cmd = "mem_get" THEN {[j EXCEPT !.pc = "agg"]} ELSE {}
          /\ UNCHANGED <<rec, truth, raced, clock, day, counted>>
    /\ UNCHANGED <<receipts, current, audits, conn, epoch, asked, mute, effects, crashes>>

-----------------------------------------------------------------------------
(* session_harvest and session_clear_consults. *)

Promote(c) ==
    /\ Step(c) = "promote"
    /\ LET g == conn[c].snap["gotcha"] IN
       \/ /\ g.life # "none" /\ ~g.conf
          /\ Write({"gotcha"}, Promoted(conn[c].snap), conn[c].snap, Only("gotcha", {"conf"}))
          /\ Changes(c, "knowledge") /\ UNCHANGED fails
       \/ UNCHANGED <<rec, truth, raced, clock, effects, fails>>
       \/ Fail /\ UNCHANGED <<rec, truth, raced, clock, effects>>
    /\ Advance(c, conn[c])
    /\ UNCHANGED <<day, receipts, current, audits, spawned, epoch, mute, counted, crashes>>

\* Without session:current there is nothing to archive and nothing is swept.
Archive(c) ==
    /\ Step(c) = "archive"
    /\ \/ current /\ Advance(c, conn[c]) /\ UNCHANGED <<fails, mute>>
       \/ ~current /\ conn' = [conn EXCEPT ![c].at = @ + 2] /\ UNCHANGED <<asked, fails, mute>>
       \/ Fail /\ Dropped(c)
    /\ UNCHANGED <<store, spawned, clock, epoch, ghosts, crashes>>

\* delete_all_receipts, one delete after the other; the first error ends it.
Sweep(c) ==
    /\ Step(c) = "sweep"
    /\ \/ receipts' = {} /\ Advance(c, conn[c]) /\ UNCHANGED <<fails, mute>>
       \/ /\ Fail /\ \E left \in SUBSET receipts : receipts' = left
          /\ IF conn[c].cmd = "session_clear_consults"
             THEN Answer(c, "err") /\ mute' = mute \cup {conn[c].id}
             ELSE Dropped(c)
    /\ UNCHANGED <<rec, day, current, audits, spawned, clock, epoch, ghosts, crashes>>

\* The harvest's audit row is written when everything else is done.
Report(c) ==
    /\ Step(c) = "report"
    /\ \/ audits' = audits \cup {Row("sessions", conn[c].id, TRUE)} /\ UNCHANGED <<fails, mute>>
       \/ Fail /\ mute' = mute \cup {conn[c].id} /\ UNCHANGED audits
    /\ Advance(c, conn[c])
    /\ UNCHANGED <<rec, day, receipts, current, spawned, clock, epoch, ghosts, crashes>>

\* The daemon is killed and a new one starts: a new session, no receipts.
Crash ==
    /\ crashes < MaxCrashes /\ crashes' = crashes + 1
    /\ epoch' = epoch + 1
    /\ conn' = [c \in Conns |-> Idle] /\ spawned' = {}
    /\ asked' = [i \in DOMAIN asked |->
                   IF asked[i].result = "open" THEN [asked[i] EXCEPT !.result = "cut"]
                   ELSE asked[i]]
    /\ receipts' = {}
    /\ UNCHANGED <<rec, day, current, audits, clock, ghosts, mute, fails>>

Init ==
    /\ rec \in {[k \in Keys |-> Absent],
                [k \in Keys |-> [Stub EXCEPT !.src = IF k = "file" THEN "static" ELSE "agent"]]}
    /\ truth = rec
    /\ day = {} /\ receipts = {} /\ current = FALSE /\ audits = {}
    /\ conn = [c \in Conns |-> Idle] /\ spawned = {}
    /\ clock = 0 /\ epoch = 0 /\ asked = <<>> /\ raced = {} /\ mute = {}
    /\ effects = {} /\ counted = {}
    /\ fails = 0 /\ crashes = 0

Next ==
    \/ \E c \in Conns :
         \/ Receive(c) \/ Invalid(c) \/ Reject(c) \/ Load(c) \/ LoadFails(c)
         \/ Noop(c) \/ Commit(c) \/ CommitFails(c) \/ Reload(c) \/ Bump(c)
         \/ Stage(c) \/ Sessions(c) \/ SessionsFail(c) \/ BootstrapFailed(c)
         \/ Promote(c) \/ Archive(c) \/ Sweep(c) \/ Report(c)
    \/ \E j \in spawned : Background(j)
    \/ Crash

Spec == Init /\ [][Next]_vars

-----------------------------------------------------------------------------
(* Properties. *)

Ids == DOMAIN asked
Record == [life : {"none", "active", "dead"},
           src : {"static", "agent", "dev", "hook", "import"}, conf : BOOLEAN,
           text : 0..clock, shape : 0..clock, links : 0..clock, hits : 0..clock]

\* Stamps are those of commits, rows and receipts those of requests, and a
\* connection that works has an open request.
TypeOK ==
    /\ rec \in [Keys -> Record] /\ truth \in [Keys -> Record]
    /\ \A row \in audits : row.id \in Ids
    /\ day \subseteq Ids /\ receipts \subseteq Ids /\ mute \subseteq Ids
    /\ \A c \in Conns : conn[c].pc # "idle" => asked[conn[c].id].result = "open"
    /\ \A j \in spawned : asked[j.id].cmd \in SideEffectingReads

\* Whatever a request has changed in a tree, the accepted audit row of the
\* request is in that tree in the same state: no kill and no failed access
\* separates them. Two commands are built otherwise: a harvest writes its row
\* at the end, and a bootstrap that failed records a rejection.
AuditedEffects ==
    \A e \in effects :
        \/ Row(e.tree, e.id, TRUE) \in audits
        \/ asked[e.id].cmd = "session_harvest"
        \/ asked[e.id].cmd = "mem_bootstrap" /\ Row("sessions", e.id, FALSE) \in audits

\* A request with a rejection row has changed nothing; an import that failed
\* in a later chunk has an accepted row for the earlier one.
RejectedInert ==
    \A row \in audits, e \in effects :
        ~row.ok /\ row.id = e.id =>
            \/ asked[e.id].cmd \in {"session_harvest", "mem_bootstrap"}
            \/ asked[e.id].cmd = "record_import" /\ Row("knowledge", e.id, TRUE) \in audits

\* A caller told "ok" finds the row in the tree of its command (the edit hook
\* in both), unless a store access failed and the command is one that goes on.
Unaudited == ConfigCommands \cup PureReads \cup {"session_clear_consults"}
AnswersAudited ==
    \A i \in Ids :
        asked[i].result = "ok" /\ asked[i].cmd \notin Unaudited /\ i \notin mute =>
            /\ asked[i].cmd \in KnowledgeMutations \cup Compound
                 => Row("knowledge", i, TRUE) \in audits
            /\ asked[i].cmd \notin KnowledgeMutations => Row("sessions", i, TRUE) \in audits

\* The audit log and the effects of the requests tell the same story.
AuditMatches == AuditedEffects /\ RejectedInert /\ AnswersAudited

\* Every field holds what the last request in charge of it wrote: no command
\* takes back a field that is not its business, except where a handler, a bump
\* or a deferred put wrote from a copy another commit had overtaken. Likewise
\* the day's aggregate counts every request it should.
SerialOutcome ==
    /\ \A k \in Keys \ raced : rec[k] = truth[k]
    /\ "day" \notin raced => day = counted
=============================================================================

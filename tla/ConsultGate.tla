----------------------------- MODULE ConsultGate -----------------------------
(***************************************************************************)
(* The consultation gate: the hook process that decides on an agent's      *)
(* access to files (src/cli/hook_decide.rs, src/hooks/decide.rs), the      *)
(* daemon's hook_evaluate (src/mcp/server.rs) and the receipts that open   *)
(* the gate (src/store/session.rs): minted by mem_get, by the post-memget  *)
(* and post-edit hooks and by an advisory hit, dropped by a gotcha's       *)
(* confirmation, by the sweep after a compaction or a harvest, and by the  *)
(* start of the daemon.                                                    *)
(*                                                                         *)
(* A receipt is kept for a scope: Main (session:consulted:<key>) or one    *)
(* subagent (session:consulted:<agent>:<key>).  The links from a file to   *)
(* its gotchas are taken as exact (Affects): their drift is the subject of *)
(* GotchaOps and GotchaHandlers.  A gotcha whose scores are too low to     *)
(* deny stays a draft here.                                                *)
(***************************************************************************)
EXTENDS Naturals, Sequences, FiniteSets

CONSTANTS
    Files, Gotchas,
    Agents,      \* threads of agents, each with at most one tool call at a time
    Admins,      \* connections that mutate gotchas or sweep receipts
    Main,        \* the scope of the main thread
    ScopeOf,     \* the scope of each agent thread: Main or a subagent's id
    Affects,     \* the files a gotcha is about
    Target,      \* where a path leads once its symbolic links are resolved
    Mandated,    \* the files of the consult-required globs
    Variants,    \* the hook variants in use
    Memory,      \* what the agent remembers since its last compaction
    MaxCalls,    \* bound: tool calls
    MaxChanges,  \* bound: mutations, sweeps, expiries and rescorings
    Levels,      \* the levels at which the scores of a file record arrive
    MaxFaults    \* bound: lookups, writes and hooks that fail, restarts of the daemon

Scopes      == {ScopeOf[t] : t \in Agents} \cup {Main}
AllVariants == {"read", "bash", "edit", "shell", "patch"}

ASSUME GateAssumption ==
    /\ Variants \subseteq AllVariants /\ Mandated \subseteq Files
    /\ Affects \in [Gotchas -> SUBSET Files] /\ Target \in [Files -> Files]
    /\ DOMAIN ScopeOf = Agents /\ Memory \notin Gotchas
    /\ Agents \cap Admins = {}
    /\ Levels \subseteq {"weak", "fresh", "liability", "tombstone"}
ASSUME BoundAssumption ==
    MaxCalls \in Nat /\ MaxChanges \in Nat /\ MaxFaults \in Nat

VARIABLES
    gotcha,   \* the status of each gotcha record
    tier,     \* what the scores of each file record amount to
    receipt,  \* the consultation receipts, per scope and file
    flushed,  \* session:current exists
    pc, op,   \* where each thread is, and its locals
    owed,     \* history: what has wanted a consultation throughout the call, a file and why
    calls, changes, faults

store  == <<gotcha, tier, receipt, flushed>>
bounds == <<calls, changes, faults>>
vars   == <<store, pc, op, owed, bounds>>

Status    == {"gone", "draft", "confirmed", "promoted"}
Tier      == {"none", "weak", "fresh", "liability", "tombstone"}
Decisions == {"NoRecord", "Tombstone", "Liability", "Deny", "AlreadyConsulted",
              "Advisory", "Allow"}
\* covers and sound are history: what the consultation behind the receipt
\* showed, and whether that was all there was to show when it was minted.
Receipt   == [held : BOOLEAN, recent : BOOLEAN, covers : SUBSET (Gotchas \cup {Memory}),
              sound : BOOLEAN]
NoReceipt == [held |-> FALSE, recent |-> FALSE, covers |-> {}, sound |-> FALSE]

PCs == {"idle", "eval", "links", "check", "fire", "verdict", "posted", "get", "mint", "post",
        "drop", "scan", "sweep"}

\* v, files: the call; queue: keys to evaluate still; level, left, saw: of the
\* current key the record's level, the linked gotchas to read still, and those
\* read and found in force; dec: the decision on the first key; deny: the
\* keys denied; broken: the answer carried an error; logged, skipped: a lookup
\* failed with an entry in fail_open.log, or without one; allow: the verdict;
\* todo: keys to consult; covers: what the agent was shown; drop: the receipts
\* to delete still.
NoOp ==
    [v |-> "none", files |-> <<>>, queue |-> <<>>, level |-> "none", left |-> {}, saw |-> {}, dec |-> "none", deny |-> {},
     broken |-> FALSE, logged |-> FALSE, skipped |-> FALSE, allow |-> FALSE,
     todo |-> {}, covers |-> {}, drop |-> {}]

OpTypeOK(o) ==
    /\ o.v \in Variants \cup {"none"}
    /\ o.files \in Seq(Files) /\ o.queue \in Seq(Files)
    /\ o.level \in Tier /\ o.left \cup o.saw \subseteq Gotchas /\ o.deny \subseteq Files /\ o.todo \subseteq Files
    /\ o.dec \in Decisions \cup {"none"}
    /\ {o.broken, o.logged, o.skipped, o.allow} \subseteq BOOLEAN
    /\ o.covers \subseteq Gotchas \cup {Memory}
    /\ o.drop \subseteq Scopes \X Files

TypeOK ==
    /\ gotcha \in [Gotchas -> Status] /\ tier \in [Files -> Tier]
    /\ receipt \in [Scopes -> [Files -> Receipt]]
    /\ flushed \in BOOLEAN
    /\ pc \in [Agents \cup Admins -> PCs]
    /\ \A t \in Agents \cup Admins : OpTypeOK(op[t])
    /\ owed \in [Agents -> SUBSET (Files \X Gotchas)]
    /\ calls \in 0..MaxCalls /\ changes \in 0..MaxChanges
    /\ faults \in 0..MaxFaults

Init ==
    /\ gotcha \in [Gotchas -> {"draft", "confirmed"}]
    /\ tier \in [Files -> {"none", "fresh"}]
    /\ receipt = [s \in Scopes |-> [f \in Files |-> NoReceipt]]
    /\ flushed = FALSE
    /\ pc = [t \in Agents \cup Admins |-> "idle"]
    /\ op = [t \in Agents \cup Admins |-> NoOp]
    /\ calls = 0 /\ changes = 0 /\ faults = 0
    /\ owed = [t \in Agents |-> {}]

CanFault == faults < MaxFaults /\ faults' = faults + 1
NoFault  == UNCHANGED faults
Goto(t, l, o) == pc' = [pc EXCEPT ![t] = l] /\ op' = [op EXCEPT ![t] = o]
Finish(t)     == Goto(t, "idle", NoOp)

-----------------------------------------------------------------------------
(* What the gate looks at.                                                 *)

\* The gotchas that deny: confirmed, or promoted by a harvest.
InForce(f) == {g \in Gotchas : gotcha[g] \in {"confirmed", "promoted"} /\ f \in Affects[g]}

\* Edits and Codex commands want a receipt of the last 15 minutes.
Recent(v) == v \in {"edit", "shell", "patch"}
Consulted(s, f, v) ==
    /\ receipt[s][f].held
    /\ Recent(v) => receipt[s][f].recent

\* Mutant of Evaluate: a missing record is an outcome that no adapter knows.
EvaluateFailsOpen(level, saw, consulted) ==
    CASE level = "none"      -> "FailOpen"
      [] level = "tombstone" -> "Tombstone"
      [] level = "liability" -> "Liability"
      [] OTHER -> IF saw = {} THEN "Advisory" ELSE IF consulted THEN "AlreadyConsulted" ELSE "Deny"

\* decide::evaluate: the decision matrix.
Evaluate(level, saw, consulted) ==
    CASE level = "none"      -> "NoRecord"
      [] level = "tombstone" -> "Tombstone"
      [] level = "liability" -> "Liability"
      [] level \in {"weak", "fresh"} /\ saw # {} /\ consulted  -> "AlreadyConsulted"
      [] level \in {"weak", "fresh"} /\ saw # {} /\ ~consulted -> "Deny"
      [] level = "fresh" /\ saw = {} -> "Advisory"
      [] OTHER -> "Allow"

\* apply_consult_mandate, which the apply_patch flow does not call.
Mandate(v, f, consulted, dec) ==
    IF f \in Mandated /\ ~consulted /\ v # "patch" THEN "Deny" ELSE dec

\* Mutant of Queue: only the path as it is written.
QueueLexical(v, files) == IF v = "patch" THEN files ELSE <<Head(files)>>

\* Where a path leads, when that is another file of the repository.
CanonicalRelPath(f) == IF Target[f] # f THEN <<Target[f]>> ELSE <<>>

\* The keys a call is judged by, in order: a patch by its paths; any other call by
\* its first path, the path that one resolves to, and the paths after it (which the
\* paths of a call never repeat; the code skips the first one there).
Queue(v, files) ==
    LET f == Head(files)
    IN  IF v = "patch" THEN files
        ELSE <<f>> \o CanonicalRelPath(f) \o Tail(files)

MultiFile == {<<f, h>> : f \in Files, h \in Files} \ {<<f, f>> : f \in Files}
Calls ==
    [v : Variants, files : {<<f>> : f \in Files}]
      \cup [v : Variants \cap {"bash", "shell", "patch"}, files : MultiFile]

\* What a receipt has to cover: the confirmed gotchas, seen since the last compaction.
Required(f) == {g \in InForce(f) : gotcha[g] = "confirmed"} \cup {Memory}
Mint(s, f, covers) ==
    receipt' = [receipt EXCEPT ![s][f] =
        [held |-> TRUE, recent |-> TRUE, covers |-> covers, sound |-> Required(f) \subseteq covers]]
\* A best-effort write of a receipt: it may be lost.
TryMint(s, f, covers) ==
    \/ Mint(s, f, covers) /\ NoFault
    \/ CanFault /\ UNCHANGED receipt

-----------------------------------------------------------------------------
(* The hook process of an agent's tool call.                               *)

Hook(o) == [NoOp EXCEPT !.v = o.v, !.files = o.files, !.queue = Queue(o.v, o.files),
                        !.covers = {Memory}]

StartAccess(t) ==
    /\ pc[t] = "idle" /\ calls < MaxCalls /\ calls' = calls + 1
    /\ \E c \in Calls : Goto(t, "eval", Hook(c))
    /\ UNCHANGED <<store, changes, faults>>

\* hook_evaluate reads the file record, from which and from the edges it knows the
\* linked gotchas; an error is passed on in the answer.
Linked(f) == {g \in Gotchas : gotcha[g] # "gone" /\ f \in Affects[g]}
Reading(o) == IF o.left = {} THEN "check" ELSE "links"
HookRecords(t) ==
    /\ pc[t] = "eval"
    /\ LET f == Head(op[t].queue)
           o == [op[t] EXCEPT !.level = tier[f], !.left = Linked(f)]
       IN  \/ Goto(t, Reading(o), o) /\ NoFault
           \/ Goto(t, Reading(o), [o EXCEPT !.broken = TRUE]) /\ CanFault
    /\ UNCHANGED <<store, calls, changes>>

\* Mutant of Answered: the gotcha read last is the one that counts.
AnsweredLast(o, g) == [o EXCEPT !.saw = {g} \cap InForce(Head(o.queue))]
Answered(o, g)     == [o EXCEPT !.saw = @ \cup ({g} \cap InForce(Head(o.queue)))]

\* Then it reads the linked gotchas, one awaited get after the other, in the order
\* of their keys, whichever that is. One that is no longer in force is passed over.
HookGotcha(t) ==
    /\ pc[t] = "links"
    /\ \E g \in op[t].left :
         LET o == [op[t] EXCEPT !.left = @ \ {g}]
         IN  \/ Goto(t, Reading(o), Answered(o, g)) /\ NoFault
             \/ Goto(t, Reading(o), [o EXCEPT !.broken = TRUE]) /\ CanFault
    /\ UNCHANGED <<store, calls, changes>>

\* A failed lookup of the first key is logged, as is every one of a patch whose
\* request failed; of the other keys it is passed over in silence.
First(o)  == o.dec = "none"
Judged(o, dec, covers) ==
    LET f    == Head(o.queue)
        deny == IF dec = "Deny" THEN o.deny \cup {f} ELSE o.deny
    IN  [o EXCEPT !.queue = IF deny # {} /\ o.v # "patch" THEN <<>> ELSE Tail(@),
                  !.dec = IF First(o) THEN dec ELSE @,
                  !.deny = deny, !.covers = covers,
                  !.level = "none", !.left = {}, !.saw = {}, !.broken = FALSE,
                  !.logged = @ \/ (o.broken /\ First(o) /\ o.v # "patch"),
                  !.skipped = @ \/ (o.broken /\ ~(First(o) /\ o.v # "patch"))]
Continue(t, o) == Goto(t, IF o.queue = <<>> THEN "fire" ELSE "eval", o)

\* hook_evaluate reads the receipt and answers; the hook decides on the answer.
HookReceipt(t) ==
    /\ pc[t] = "check"
    /\ LET o == op[t]
           f == Head(o.queue)
           s == ScopeOf[t]
           Decide(consulted) ==
               LET base == IF o.broken THEN "Allow" ELSE Evaluate(o.level, o.saw, consulted)
                   dec  == Mandate(o.v, f, consulted, base)
               IN  Continue(t, Judged(o, dec,
                       IF First(o) /\ dec = "AlreadyConsulted"
                       THEN receipt[s][f].covers ELSE o.covers))
       IN  \/ Decide(Consulted(s, f, o.v)) /\ NoFault
           \/ Decide(FALSE) /\ CanFault
    /\ UNCHANGED <<store, calls, changes>>

\* log_fail_open and emit_allow.
FailedOpen(o) == [o EXCEPT !.queue = <<>>, !.allow = TRUE, !.logged = TRUE,
                           !.level = "none", !.left = {}, !.saw = {}, !.broken = FALSE]

\* The daemon does not answer.
Unanswered(o) ==
    IF First(o) /\ o.v # "patch"
    THEN FailedOpen(o)
    ELSE [o EXCEPT !.queue = Tail(@), !.dec = IF First(o) THEN "Allow" ELSE @,
                   !.logged = @ \/ o.v = "patch", !.skipped = @ \/ o.v # "patch",
                   !.level = "none", !.left = {}, !.saw = {}, !.broken = FALSE]
UnansweredPC(o) ==
    IF Unanswered(o).queue # <<>> THEN "eval"
    ELSE IF Unanswered(o).allow THEN "verdict" ELSE "fire"
LookupFails(t) ==
    /\ pc[t] \in {"eval", "links", "check"} /\ CanFault
    /\ Goto(t, UnansweredPC(op[t]), Unanswered(op[t]))
    /\ UNCHANGED <<store, calls, changes>>

\* HOOK_DEADLINE_MS runs out, at whatever the hook is waiting for.
Deadline(t) ==
    /\ pc[t] \in {"eval", "links", "check", "fire"} /\ CanFault
    /\ Goto(t, "verdict", FailedOpen(op[t]))
    /\ UNCHANGED <<store, calls, changes>>

\* fire_events, awaited before the verdict is printed.  An advisory or liability
\* decision of a Claude read mints a receipt for the main thread.
FireEvents(t) ==
    /\ pc[t] = "fire"
    /\ LET o == op[t]
       IN  /\ IF o.deny = {} /\ o.dec \in {"Advisory", "Liability"} /\ o.v \in {"read", "bash"}
              THEN TryMint(Main, Head(o.files), o.covers)
              ELSE NoFault /\ UNCHANGED receipt
           /\ Goto(t, "verdict", [o EXCEPT !.allow = (o.deny = {})])
    /\ UNCHANGED <<gotcha, tier, flushed, calls, changes>>

\* An allowed edit is followed by the post-edit hook; a denied agent consults the
\* files it was told to consult.
Verdict(t) ==
    /\ pc[t] = "verdict"
    /\ LET o == op[t]
       IN  IF ~o.allow THEN Goto(t, "get", [o EXCEPT !.todo = o.deny])
           ELSE IF o.v = "edit" THEN Goto(t, "posted", o)
           ELSE Finish(t)
    /\ UNCHANGED <<store, bounds>>

\* FileEditHook: the consultation substep.
PostEdit(t) ==
    /\ pc[t] = "posted"
    /\ TryMint(Main, Head(op[t].files), op[t].covers)
    /\ Finish(t)
    /\ UNCHANGED <<gotcha, tier, flushed, calls, changes>>

-----------------------------------------------------------------------------
(* Consultation: mem_get and the post-memget hook.                         *)

StartMemGet(t) ==
    /\ pc[t] = "idle" /\ calls < MaxCalls /\ calls' = calls + 1
    /\ \E f \in Files : Goto(t, "get", [NoOp EXCEPT !.todo = {f}])
    /\ UNCHANGED <<store, changes, faults>>

Current(o) == CHOOSE f \in o.todo : TRUE

\* handle_mem_get reads the record first (the agent asks again after an error),
MemGetRead(t) ==
    /\ pc[t] = "get"
    /\ LET f == Current(op[t])
           shown == IF tier[f] = "none" THEN {} ELSE InForce(f)
       IN  \/ Goto(t, "mint", [op[t] EXCEPT !.covers = shown \cup {Memory}]) /\ NoFault
           \/ UNCHANGED <<pc, op>> /\ CanFault
    /\ UNCHANGED <<store, calls, changes>>

\* then commits the receipt of the main thread, whoever asked.
MemGetMint(t) ==
    /\ pc[t] = "mint"
    /\ TryMint(Main, Current(op[t]), op[t].covers)
    /\ Goto(t, "post", op[t])
    /\ UNCHANGED <<gotcha, tier, flushed, calls, changes>>

\* The post-memget hook mints the receipt of the subagent.  The one it mints for
\* the main thread is kept under the session's id, which no gate reads.
AfterPost(t) ==
    LET o == [op[t] EXCEPT !.todo = @ \ {Current(op[t])}, !.covers = {}]
    IN  IF o.todo # {} THEN Goto(t, "get", o)
        ELSE IF o.v = "none" THEN Finish(t)
        ELSE Goto(t, "eval", Hook(o))
\* Mutant of PostMemGet: the receipt goes to the main thread.
PostMemGetUnscoped(t) ==
    /\ pc[t] = "post"
    /\ TryMint(Main, Current(op[t]), op[t].covers)
    /\ AfterPost(t)
    /\ UNCHANGED <<gotcha, tier, flushed, calls, changes>>
PostMemGet(t) ==
    /\ pc[t] = "post"
    /\ IF ScopeOf[t] = Main THEN NoFault /\ UNCHANGED receipt
       ELSE TryMint(ScopeOf[t], Current(op[t]), op[t].covers)
    /\ AfterPost(t)
    /\ UNCHANGED <<gotcha, tier, flushed, calls, changes>>

-----------------------------------------------------------------------------
(* What changes under the agents.                                          *)

Change == changes < MaxChanges /\ changes' = changes + 1 /\ UNCHANGED calls

\* handle_gotcha_confirm commits the record, then drops the main thread's receipts
\* of the affected files, one by one and best effort.
Confirm(d) ==
    /\ pc[d] = "idle" /\ Change /\ NoFault
    /\ \E g \in Gotchas :
        /\ gotcha[g] # "gone"
        /\ gotcha' = [gotcha EXCEPT ![g] = "confirmed"]
        /\ Goto(d, "drop", [NoOp EXCEPT !.drop = {Main} \X Affects[g]])
    /\ UNCHANGED <<tier, receipt, flushed>>

Excused(r)   == [r EXCEPT !.sound = FALSE]
Deleted(D)   == [s \in Scopes |-> [f \in Files |->
                    IF <<s, f>> \in D THEN NoReceipt ELSE receipt[s][f]]]
ExcuseAll(D) == [s \in Scopes |-> [f \in Files |->
                    IF <<s, f>> \in D THEN Excused(receipt[s][f]) ELSE receipt[s][f]]]
Pending(d, D) == IF D = {} THEN Finish(d) ELSE Goto(d, pc[d], [op[d] EXCEPT !.drop = D])

DropReceipt(d) ==
    /\ pc[d] = "drop"
    /\ IF op[d].drop = {} THEN Finish(d) /\ NoFault /\ UNCHANGED receipt
       ELSE \E k \in op[d].drop :
               /\ \/ receipt' = Deleted({k}) /\ NoFault
                  \/ receipt' = ExcuseAll({k}) /\ CanFault
               /\ Pending(d, op[d].drop \ {k})
    /\ UNCHANGED <<gotcha, tier, flushed, calls, changes>>

\* What no agent has seen any longer: the old text of a gotcha, or, after a
\* compaction, anything.
Forget(x) ==
    receipt' = [s \in Scopes |-> [f \in Files |->
            [receipt[s][f] EXCEPT !.covers = @ \ {x}]]]
Forgetting(x, o) == [t \in Agents \cup Admins |-> [o[t] EXCEPT !.covers = @ \ {x}]]

\* GotchaUpsert makes a draft, GotchaTombstone removes the rule.
Rewrite(d) ==
    /\ pc[d] = "idle" /\ Change /\ NoFault
    /\ \E g \in Gotchas, st \in {"draft", "gone"} :
        /\ st = "gone" => gotcha[g] # "gone"
        /\ gotcha' = [gotcha EXCEPT ![g] = st]
        /\ Forget(g) /\ op' = Forgetting(g, op)
    /\ UNCHANGED <<tier, flushed, pc>>

\* The agent's context is compacted and the post-compact hook asks for a sweep.
Compact(d) ==
    /\ pc[d] = "idle" /\ Change /\ NoFault
    /\ Forget(Memory)
    /\ pc' = [pc EXCEPT ![d] = "scan"] /\ op' = Forgetting(Memory, op)
    /\ UNCHANGED <<gotcha, tier, flushed>>

\* SessionHarvest promotes much-read drafts, then sweeps if session:current exists;
\* an error before the sweep ends it.
Harvest(d) ==
    /\ pc[d] = "idle" /\ Change
    /\ \E P \in SUBSET {g \in Gotchas : gotcha[g] = "draft"} :
        gotcha' = [g \in Gotchas |-> IF g \in P THEN "promoted" ELSE gotcha[g]]
    /\ \/ flushed /\ NoFault /\ Goto(d, "scan", NoOp)
       \/ ~flushed /\ NoFault /\ UNCHANGED <<pc, op>>
       \/ flushed /\ CanFault /\ UNCHANGED <<pc, op>>
    /\ UNCHANGED <<tier, receipt, flushed>>

Flush(d) ==
    /\ pc[d] = "idle" /\ ~flushed /\ Change /\ NoFault
    /\ flushed' = TRUE
    /\ UNCHANGED <<gotcha, tier, receipt, pc, op>>

\* delete_all_receipts: list the keys, delete them one by one, stop at an error.
Held == {k \in Scopes \X Files : receipt[k[1]][k[2]].held}
Scan(d) ==
    /\ pc[d] = "scan"
    /\ \/ /\ NoFault /\ UNCHANGED receipt
          /\ IF Held = {} THEN Finish(d) ELSE Goto(d, "sweep", [NoOp EXCEPT !.drop = Held])
       \/ CanFault /\ receipt' = ExcuseAll(Held) /\ Finish(d)
    /\ UNCHANGED <<gotcha, tier, flushed, calls, changes>>
Sweep(d) ==
    /\ pc[d] = "sweep"
    /\ \/ /\ NoFault
          /\ \E k \in op[d].drop : receipt' = Deleted({k}) /\ Pending(d, op[d].drop \ {k})
       \/ CanFault /\ receipt' = ExcuseAll(op[d].drop) /\ Finish(d)
    /\ UNCHANGED <<gotcha, tier, flushed, calls, changes>>

\* A receipt gets older than CONSULTED_RECENT_TTL_SECS.
Expire ==
    /\ Change /\ NoFault
    /\ \E k \in Held :
        /\ receipt[k[1]][k[2]].recent
        /\ receipt' = [receipt EXCEPT ![k[1]][k[2]].recent = FALSE]
    /\ UNCHANGED <<gotcha, tier, flushed, pc, op>>

\* Another part of the program rewrites the scores of a file record.
Rescore ==
    /\ Change /\ NoFault
    /\ \E f \in Files, l \in Levels : l # tier[f] /\ tier' = [tier EXCEPT ![f] = l]
    /\ UNCHANGED <<gotcha, receipt, flushed, pc, op>>

\* Mutant of BootClear: sessions.db is durable and nothing is cleared.
BootKeeps == CanFault /\ UNCHANGED receipt

\* The daemon dies and is started again: what it was doing is lost, hooks that
\* wait for an answer get none, and receipts are cleared before it serves, those
\* kept excepted: their deletes, or the scan for them, failed.
BootClear ==
    /\ CanFault
    /\ \E kept \in SUBSET Held :
        receipt' = [s \in Scopes |-> [f \in Files |->
            IF <<s, f>> \in kept THEN Excused(receipt[s][f]) ELSE NoReceipt]]
Restart ==
    /\ BootClear
    /\ pc' = [t \in Agents \cup Admins |->
                IF t \in Admins THEN "idle"
                ELSE IF pc[t] \in {"links", "check"} THEN UnansweredPC(op[t])
                ELSE IF pc[t] = "mint" THEN "get" ELSE pc[t]]
    /\ op' = [t \in Agents \cup Admins |->
                IF t \in Admins THEN NoOp
                ELSE IF pc[t] \in {"links", "check"} THEN Unanswered(op[t]) ELSE op[t]]
    /\ UNCHANGED <<gotcha, tier, flushed, calls, changes>>

-----------------------------------------------------------------------------
HookStep(t) ==
    \/ HookRecords(t) \/ HookGotcha(t) \/ HookReceipt(t) \/ LookupFails(t) \/ Deadline(t)
    \/ FireEvents(t) \/ Verdict(t) \/ PostEdit(t)
    \/ MemGetRead(t) \/ MemGetMint(t) \/ PostMemGet(t)
AdminStep(d) == DropReceipt(d) \/ Scan(d) \/ Sweep(d)
AdminCall(d) == Confirm(d) \/ Rewrite(d) \/ Compact(d) \/ Harvest(d) \/ Flush(d)
Step ==
    \/ \E t \in Agents : StartAccess(t) \/ StartMemGet(t) \/ HookStep(t)
    \/ \E d \in Admins : AdminCall(d) \/ AdminStep(d)
    \/ Expire \/ Rescore \/ Restart

\* The paths a call really touches, as far as the gate resolves them, and those
\* of them that a consultation is wanted for, each with a gotcha that wants it: the
\* scores let a gotcha deny, this one is in force, and the agent holds no receipt
\* that counts.
Touched(o) == IF o.files = <<>> THEN {}
              ELSE {o.files[i] : i \in DOMAIN o.files}
                     \cup (IF o.v = "patch" THEN {} ELSE {Target[Head(o.files)]})
Wanting(t) == {w \in Touched(op[t]) \X Gotchas :
                 /\ tier[w[1]] \in {"weak", "fresh"} /\ w[2] \in InForce(w[1])
                 /\ ~Consulted(ScopeOf[t], w[1], op[t].v)}
Hooking(t) == pc[t] \in {"eval", "links", "check", "fire", "verdict"}
Watch ==
    owed' = [t \in Agents |->
        IF ~Hooking(t)' THEN {}
        ELSE IF Hooking(t) THEN owed[t] \cap Wanting(t)' ELSE Wanting(t)']

Next == Step /\ Watch
Spec == Init /\ [][Next]_vars

\* A hook process and a connection task run on; Claude Code and tokio schedule each.
Fairness ==
    /\ \A t \in Agents : WF_vars(HookStep(t) /\ Watch)
    /\ \A d \in Admins : WF_vars(AdminStep(d) /\ Watch)
FairSpec == Spec /\ Fairness

-----------------------------------------------------------------------------
(* Properties.                                                             *)

\* A call that touches a file for which one gotcha wanted a consultation from the
\* start of its hook to the verdict, whatever became of the others while the hook
\* read them one by one - through any symbolic link of its first path, and
\* as any one of its files - is denied, or the hook failed open: with an entry in
\* fail_open.log, or at one of the secondary lookups that are passed over.
GateHolds ==
    \A t \in Agents :
        pc[t] = "verdict" /\ op[t].allow /\ owed[t] # {} => op[t].logged \/ op[t].skipped

\* No sweep and no confirmation is about to drop the receipts of f.
Settled(f) ==
    \A d \in Admins : pc[d] \notin {"scan", "sweep"} /\ <<Main, f>> \notin op[d].drop

\* A receipt that stood for all there was to know when it was minted still does,
\* once invalidation is through: after a compaction no receipt of any scope is left
\* from before it, and after a confirmation, one cut short by a crash of the daemon
\* included, no receipt of the main thread is left that does not cover the gotcha.
ReceiptsStaySound ==
    \A s \in Scopes, f \in Files :
        LET r == receipt[s][f]
        IN  r.held /\ Settled(f) =>
              (r.sound => (IF s = Main THEN Required(f) ELSE {Memory}) \subseteq r.covers)

\* An agent that does as it is told - consult the files named, then try again - is
\* let through in the end: it is not denied, sent to consult and denied for ever.
NoLockout == \A t \in Agents : pc[t] = "get" ~> pc[t] = "idle"

=============================================================================

----------------------------- MODULE SandboxFloor -----------------------------
(* `mati sandbox` (cli/sandbox.rs): confirmed gotchas tagged crown-jewel become  *)
(* deny rules in .claude/settings.local.json, a file the user edits too. The     *)
(* commands read gotchas, rewrite tags and merge the file in separate steps; a   *)
(* store opened directly admits one of them at a time, a running daemon any      *)
(* number, and there a put is the daemon's gotcha_upsert.                        *)
EXTENDS Naturals, FiniteSets

CONSTANTS Gotchas,   \* gotcha keys
          Inside,    \* paths that resolve under the repository root
          Outside,   \* paths in affected_files that resolve outside of it
          FileSets,  \* the affected_files the gotchas may have
          FloorProcs, \* processes running a sandbox command
          Daemons,   \* whether a daemon may run: a subset of BOOLEAN
          MaxSbOps   \* commands, gotcha changes and user edits

ASSUME SandboxAssumption == /\ Inside \cap Outside = {} /\ Daemons \subseteq BOOLEAN
                            /\ FileSets \subseteq SUBSET (Inside \cup Outside)
                            /\ "user" \notin Inside /\ "none" \notin FloorProcs

VARIABLES daemon, gotchas, local, sb, synced, promised, lostUser, sbOps
sbVars == <<daemon, gotchas, local, sb, synced, promised, lostUser, sbOps>>

TagKinds == {"write", "read"}      \* crown-jewel, sandbox-deny-read
NoRules == [k \in TagKinds |-> {}]

\* The user's own entry is one outside of the repository.
IsMatiOwned(e) == e \in Inside

GotchaSel == [tags : SUBSET TagKinds, live : BOOLEAN, confirmed : BOOLEAN, files : FileSets]

-----------------------------------------------------------------------------

Enforced(g) == g.live /\ g.confirmed
CompileRelative(gs) ==
    [k \in TagKinds |-> UNION {gs[g].files : g \in {x \in Gotchas : Enforced(gs[x]) /\ k \in gs[x].tags}}]
\* resolve_rules: paths that leave the repository are skipped.
ResolveRules(rel) == [k \in TagKinds |-> rel[k] \cap Inside]
ComputeRules(gs) == ResolveRules(CompileRelative(gs))

\* Mutant: the array is taken over whole.
SetOwnedArrayWhole(old, new) == new
\* Mutant: what mati had written before is not dropped.
SetOwnedArrayMerge(old, new) == old \cup new
SetOwnedArray(old, new) == {e \in old : ~IsMatiOwned(e)} \cup new

ApplyInto(s, rules) == [form |-> "object",
                        deny |-> [k \in TagKinds |-> SetOwnedArray(s.deny[k], rules[k])]]
DriftedRemovals(s, rules) ==
    UNION {{e \in s.deny[k] : IsMatiOwned(e)} \ rules[k] : k \in TagKinds}

-----------------------------------------------------------------------------

Idle == [pc |-> "idle", cmd |-> [kind |-> "none"], todo |-> {}, rules |-> NoRules,
         copy |-> [form |-> "absent", deny |-> NoRules], raced |-> FALSE]
Busy(p) == sb[p].pc # "idle"

\* compile --apply [--force], protect and unprotect <file> [--read] [--yes].
Commands == [kind : {"compile"}, force : BOOLEAN] \cup
            [kind : {"protect", "unprotect"}, file : Inside, read : BOOLEAN, yes : BOOLEAN]

\* A direct store is locked by the process that opened it; clear needs none.
CanOpen == daemon \/ \A q \in FloorProcs : ~Busy(q) \/ sb[q].cmd.kind = "clear"
Count == sbOps < MaxSbOps /\ sbOps' = sbOps + 1
\* What the other processes have read is no longer current.
Race(p) == [q \in FloorProcs |-> IF q # p /\ Busy(q) THEN [sb[q] EXCEPT !.raced = TRUE] ELSE sb[q]]

Matched(f) == {g \in Gotchas : Enforced(gotchas[g]) /\ f \in gotchas[g].files}
BlastRadius(f, g) == gotchas[g].files \ {f}

\* run_protect up to the tags: no match, or a wider match without --yes, ends it.
Start(p, c) ==
    /\ ~Busy(p) /\ Count /\ CanOpen
    /\ c.kind \in {"protect", "unprotect"} =>
          /\ Matched(c.file) # {}
          /\ c.yes \/ \A g \in Matched(c.file) : BlastRadius(c.file, g) = {}
    /\ sb' = [sb EXCEPT ![p] = [Idle EXCEPT !.cmd = c,
                 !.pc = IF c.kind = "compile" THEN "rules" ELSE "tag",
                 !.todo = IF c.kind \in {"protect", "unprotect"} THEN Matched(c.file) ELSE {}]]
    /\ UNCHANGED <<daemon, gotchas, local, synced, promised, lostUser>>

\* run_clear does not open the store before the file is written.
StartClear(p) ==
    /\ ~Busy(p) /\ Count /\ local.form # "absent"
    /\ sb' = [sb EXCEPT ![p] = [Idle EXCEPT !.cmd = [kind |-> "clear"], !.pc = "read"]]
    /\ UNCHANGED <<daemon, gotchas, local, synced, promised, lostUser>>

Retag(tags, c) == IF c.kind = "unprotect" THEN {}
                  ELSE tags \cup {"write"} \cup (IF c.read THEN {"read"} ELSE {})

\* One matched record is read again and stored. gotcha_upsert revives it and
\* resets its confirmation.
Tag(p) ==
    /\ sb[p].pc = "tag"
    /\ \E g \in sb[p].todo :
        LET r == [gotchas[g] EXCEPT !.tags = Retag(@, sb[p].cmd)] IN
        /\ gotchas' = [gotchas EXCEPT ![g] =
                          IF daemon THEN [r EXCEPT !.live = TRUE, !.confirmed = FALSE] ELSE r]
        /\ sb' = [Race(p) EXCEPT ![p].todo = @ \ {g},
                                 ![p].pc = IF sb[p].todo = {g} THEN "rules" ELSE "tag"]
    /\ synced' = "no" /\ promised' = {}
    /\ UNCHANGED <<daemon, local, lostUser, sbOps>>

ComputeStep(p) ==
    /\ sb[p].pc = "rules"
    /\ sb' = [sb EXCEPT ![p].pc = "read", ![p].rules = ComputeRules(gotchas), ![p].raced = FALSE]
    /\ UNCHANGED <<daemon, gotchas, local, synced, promised, lostUser, sbOps>>

\* read_settings refuses what is malformed; compile without --force refuses to
\* remove a protection.
Refuses(p) == \/ local.form = "bad"
              \/ sb[p].cmd.kind = "compile" /\ ~sb[p].cmd.force
                 /\ DriftedRemovals(local, sb[p].rules) # {}
ReadSettings(p) ==
    /\ sb[p].pc = "read"
    /\ sb' = IF Refuses(p) THEN [sb EXCEPT ![p] = Idle]
             ELSE [sb EXCEPT ![p].pc = "write", ![p].copy = local]
    /\ UNCHANGED <<daemon, gotchas, local, synced, promised, lostUser, sbOps>>

\* write_settings_atomic; the entry of the audit trail is Dispatch's.
WriteSettings(p) ==
    /\ sb[p].pc = "write"
    /\ LET c == sb[p].cmd IN
       /\ local' = ApplyInto(sb[p].copy, sb[p].rules)
       /\ lostUser' = (lostUser \/ sb[p].copy # local)
       /\ sb' = [Race(p) EXCEPT ![p] = Idle]
       /\ synced' = IF sb[p].raced THEN "no" ELSE IF c.kind = "clear" THEN "clear" ELSE "rules"
       /\ promised' = IF c.kind = "protect" /\ ~sb[p].raced THEN {c.file} ELSE {}
    /\ UNCHANGED <<daemon, gotchas, sbOps>>

\* Killed, or an error of the store; a temporary file it leaves is overwritten.
Kill(p) ==
    /\ Busy(p)
    /\ sb' = [sb EXCEPT ![p] = Idle]
    /\ UNCHANGED <<daemon, gotchas, local, synced, promised, lostUser, sbOps>>

-----------------------------------------------------------------------------
(* Gotcha commands of other processes, and the user's editor.                   *)

GotchaChanges(g, r) ==
    /\ CanOpen /\ Count
    /\ r # gotchas[g]
    /\ gotchas' = [gotchas EXCEPT ![g] = r]
    /\ sb' = Race("none")
    /\ synced' = "no" /\ promised' = {}
    /\ UNCHANGED <<daemon, local, lostUser>>

UserEdits(s) ==
    /\ Count /\ s # local
    /\ local' = s
    /\ sb' = Race("none")
    /\ synced' = "no" /\ promised' = {}
    /\ lostUser' = (lostUser \/ "user" \notin s.deny["write"])
    /\ UNCHANGED <<daemon, gotchas>>

SbInit ==
    /\ daemon \in Daemons
    /\ gotchas \in [Gotchas -> [tags : {{}}, live : {TRUE}, confirmed : {TRUE}, files : FileSets]]
    /\ local = [form |-> "object", deny |-> [NoRules EXCEPT !["write"] = {"user"}]]
    /\ sb = [p \in FloorProcs |-> Idle]
    /\ synced = "no" /\ promised = {} /\ lostUser = FALSE /\ sbOps = 0

SbNext ==
    \/ \E p \in FloorProcs : \/ \E c \in Commands : Start(p, c)
                             \/ StartClear(p)
                             \/ Tag(p) \/ ComputeStep(p) \/ ReadSettings(p)
                             \/ WriteSettings(p) \/ Kill(p)
    \/ \E g \in Gotchas : \/ GotchaChanges(g, [gotchas[g] EXCEPT !.confirmed = ~@])
                          \/ GotchaChanges(g, [gotchas[g] EXCEPT !.live = FALSE])
    \/ UserEdits([local EXCEPT !.form = IF @ = "bad" THEN "object" ELSE "bad"])
    \/ \E k \in TagKinds, e \in Inside : local.form = "object" /\
                          UserEdits([local EXCEPT !.deny[k] = @ \ {e}])

SbSpec == SbInit /\ [][SbNext]_sbVars

-----------------------------------------------------------------------------
(* Properties.                                                                  *)

\* A sandbox command that ended without error leaves exactly the denies its
\* gotchas call for (none after clear) for as long as nobody changes a gotcha or
\* the file: no protection is missing and none is left over. The user's own
\* denies survive every command, unless an edit fell between a command's read
\* and its write.
FloorExact ==
    /\ lostUser \/ "user" \in local.deny["write"]
    /\ LET owned == [k \in TagKinds |-> {e \in local.deny[k] : IsMatiOwned(e)}] IN
       /\ synced = "rules" => owned = ComputeRules(gotchas)
       /\ synced = "clear" => owned = NoRules

\* `protect` "Mark a file's confirmed gotcha crown-jewel, then write the deny
\* floor" (cli/sandbox.rs): a file it reported as protected is denied to the
\* shell while nothing else has changed.
ProtectDenies == promised \subseteq local.deny["write"]
=============================================================================

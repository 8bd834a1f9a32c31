------------------------------ MODULE GotchaOps ------------------------------
(***************************************************************************)
(* The direct gotcha mutations of src/store/gotcha_ops.rs, the path a CLI  *)
(* command takes when no daemon runs and it holds the store alone:         *)
(* apply_gotcha_write, apply_gotcha_tombstone and apply_gotcha_confirm,    *)
(* with their dirty-marker guard, failing secondary writes, a command that *)
(* is killed anywhere, the boot-time drain of the marker, `mati repair`    *)
(* and `mati init`.                                                        *)
(*                                                                         *)
(* The command is alone on the store, so a read and the write that follows *)
(* it are one step; a step is one store write, which may fail.             *)
(***************************************************************************)
EXTENDS GotchaIndex

CONSTANTS
    MaxCalls,         \* bound: mutations started
    MaxFails,         \* bound: failing store writes (a repair's count as one)
    MaxCrashes        \* bound: commands killed

ASSUME BoundAssumption == MaxCalls \in Nat /\ MaxFails \in Nat /\ MaxCrashes \in Nat

\* The locals of the command that has not run yet name some key.
ASSUME SomeGotcha == Gotchas # {}

VARIABLES
    pc,       \* where the running command is; "closed" when none runs
    op,       \* its locals
    calls, fails, crashes,
    tainted,  \* history: keys a mutation of which was killed or failed in part
    lost      \* history: keys that escaped the marker, by cause (see Escapes)

history == <<tainted, lost>>
vars    == <<index, pc, op, calls, fails, crashes, history>>

PCs == {"closed", "put", "arm", "links", "edges", "disarm"}
\* key: the gotcha; rec: the record to put; add, rem: the files to link and to
\* unlink still; eadd, erem: the same for edges; ok: ~secondary_failed.
Op == [key : Gotchas, rec : GotchaRec, add : SUBSET Files, rem : SUBSET Files,
       eadd : SUBSET Files, erem : SUBSET Files, ok : BOOLEAN]

TypeOK ==
    /\ IndexTypeOK
    /\ pc \in PCs
    /\ op \in Op
    /\ calls \in 0..MaxCalls /\ fails \in 0..MaxFails /\ crashes \in 0..MaxCrashes
    /\ tainted \subseteq Gotchas /\ lost \subseteq Gotchas

NewOp(g, rec, old, new) ==
    [key |-> g, rec |-> rec, add |-> new \ old, rem |-> old \ new,
     eadd |-> new \ old, erem |-> old \ new, ok |-> TRUE]

Init ==
    /\ IndexInit
    /\ pc = "closed"
    /\ op = NewOp(CHOOSE g \in Gotchas : TRUE, NoGotcha, {}, {})
    /\ calls = 0 /\ fails = 0 /\ crashes = 0
    /\ tainted = {} /\ lost = {}

\* The keys leave the cover of the dirty marker.  It happens when a command is
\* killed before the marker is written, when that write fails, when a key that
\* has drifted already is mutated again (the mutation syncs only what it
\* changes and then releases the key), when a deleted gotcha is edited (it is
\* linked to its new files and stays deleted), and when a drain clears the
\* marker after a failed write or without touching a file that has no record.
Escapes(keys) == lost' = lost \cup keys

\* A store write fails.
CanFail == fails < MaxFails /\ fails' = fails + 1

-----------------------------------------------------------------------------
(* The commands, up to the write of the canonical record.                  *)

LinkedDead(g, rec, old, new) ==
    IF rec.life = "tombstoned" /\ new \ old # {} THEN {g} ELSE {}

Start(g, rec, old, new) ==
    /\ pc = "closed" /\ calls < MaxCalls
    /\ calls' = calls + 1
    /\ op' = NewOp(g, rec, old, new)
    /\ pc' = "put"
    /\ Escapes({g} \cap (Drifted \cup LinkedDead(g, rec, old, new)))
    /\ tainted' = tainted \cup LinkedDead(g, rec, old, new)
    /\ UNCHANGED <<index, fails, crashes>>

\* `mati gotcha add`: a key that has a record, tombstoned too, is refused
\* before anything is written.
GotchaAdd(g, new) ==
    /\ gotcha[g].life = "none"
    /\ Start(g, [life |-> "active", files |-> new], {}, new)

\* Mutant: the edit forgets the files the gotcha used to name.
EditForgetsOld(g, new) ==
    /\ gotcha[g].life # "none"
    /\ Start(g, [gotcha[g] EXCEPT !.files = new], {}, new)

\* `mati gotcha edit`: the lifecycle of the record is neither looked at nor
\* changed.
GotchaEdit(g, new) ==
    /\ gotcha[g].life # "none"
    /\ Start(g, [gotcha[g] EXCEPT !.files = new], gotcha[g].files, new)

\* `mati gotcha delete` and `mati review`: any existing record.
GotchaDelete(g) ==
    /\ gotcha[g].life # "none"
    /\ Start(g, [gotcha[g] EXCEPT !.life = "tombstoned"], gotcha[g].files, {})

\* `mati gotcha confirm`: active records only; purely additive.
GotchaConfirm(g) ==
    /\ gotcha[g].life = "active"
    /\ Start(g, gotcha[g], {}, gotcha[g].files)

\* store.put of the record: fails hard.
PutRecord ==
    /\ pc = "put"
    /\ \/ /\ gotcha' = [gotcha EXCEPT ![op.key] = op.rec]
          /\ pc' = "arm"
          /\ UNCHANGED fails
       \/ /\ CanFail
          /\ pc' = "closed"
          /\ UNCHANGED gotcha
    /\ UNCHANGED <<file, edges, marker, op, calls, crashes, history>>

-----------------------------------------------------------------------------
(* The derived indexes, best effort, under the dirty marker.               *)

\* mark_dirty: its own write may fail, and nobody learns of it.
MarkDirty ==
    \/ marker' = Marked(marker, op.key) /\ Escapes({})
    \/ marker' = marker /\ Escapes({op.key} \ marker.keys)

\* The cancellation guard, right after the record.
PreArm ==
    /\ pc = "arm"
    /\ \/ UNCHANGED fails /\ marker' = Marked(marker, op.key) /\ Escapes({})
       \/ CanFail /\ MarkDirty
    /\ pc' = "links"
    /\ UNCHANGED <<gotcha, file, edges, op, calls, crashes, tainted>>

\* sync_gotcha_file_links: additions, then removals, in no particular order;
\* the first failure ends it and marks the key.
SyncLink(f) ==
    /\ pc = "links"
    /\ f \in IF op.add # {} THEN op.add ELSE op.rem
    /\ \/ /\ file' = [file EXCEPT ![f] = IF f \in op.add THEN Link(@, op.key)
                                         ELSE Unlink(@, op.key)]
          /\ op' = [op EXCEPT !.add = @ \ {f}, !.rem = @ \ {f}]
          /\ UNCHANGED <<pc, marker, fails, history>>
       \/ /\ CanFail
          /\ MarkDirty /\ tainted' = tainted \cup {op.key}
          /\ op' = [op EXCEPT !.add = {}, !.rem = {}, !.ok = FALSE]
          /\ pc' = "edges"
          /\ UNCHANGED file
    /\ UNCHANGED <<gotcha, edges, calls, crashes>>

LinksDone ==
    /\ pc = "links" /\ op.add = {} /\ op.rem = {}
    /\ pc' = "edges"
    /\ UNCHANGED <<index, op, calls, fails, crashes, history>>

\* The edge writes: every failure marks the key, and the loop goes on.
SyncEdge(f) ==
    /\ pc = "edges"
    /\ f \in IF op.eadd # {} THEN op.eadd ELSE op.erem
    /\ \/ /\ edges' = IF f \in op.eadd THEN edges \cup {<<f, op.key>>}
                      ELSE edges \ {<<f, op.key>>}
          /\ op' = [op EXCEPT !.eadd = @ \ {f}, !.erem = @ \ {f}]
          /\ UNCHANGED <<marker, fails, history>>
       \/ /\ CanFail
          /\ MarkDirty /\ tainted' = tainted \cup {op.key}
          /\ op' = [op EXCEPT !.eadd = @ \ {f}, !.erem = @ \ {f}, !.ok = FALSE]
          /\ UNCHANGED edges
    /\ UNCHANGED <<gotcha, file, pc, calls, crashes>>

EdgesDone ==
    /\ pc = "edges" /\ op.eadd = {} /\ op.erem = {}
    /\ pc' = "disarm"
    /\ UNCHANGED <<index, op, calls, fails, crashes, history>>

\* The guard is released only when every secondary write succeeded, and only
\* when this key is the marker's only one.
Disarm ==
    /\ pc = "disarm"
    /\ \/ /\ marker' = IF op.ok THEN Disarmed(marker, op.key) ELSE marker
          /\ UNCHANGED fails
       \/ /\ op.ok /\ CanFail
          /\ UNCHANGED marker
    /\ pc' = "closed"
    /\ UNCHANGED <<gotcha, file, edges, op, calls, crashes, history>>

\* The command is killed: what it has written stays.
Crash ==
    /\ pc # "closed" /\ crashes < MaxCrashes
    /\ crashes' = crashes + 1
    /\ pc' = "closed"
    /\ tainted' = IF pc = "put" THEN tainted ELSE tainted \cup {op.key}
    /\ Escapes(IF pc = "arm" THEN {op.key} \ marker.keys ELSE {})
    /\ UNCHANGED <<index, op, calls, fails>>

-----------------------------------------------------------------------------
(* Reconciliation.                                                         *)

AllPairs == Files \X Gotchas

\* `mati repair`; a verified one ends every history.
Repair ==
    /\ pc = "closed"
    /\ \/ UNCHANGED fails /\ RepairFull(Files, AllPairs, TRUE)
       \/ CanFail /\ \E okFiles \in SUBSET Files, okEdges \in SUBSET AllPairs,
                        done \in BOOLEAN : RepairFull(okFiles, okEdges, done)
    /\ IF HasDrift' THEN UNCHANGED history ELSE tainted' = {} /\ lost' = {}
    /\ UNCHANGED <<pc, op, calls, crashes>>

\* A link or an edge of g that a drain does not reach.
Unreached(g) ==
    \E f \in Files : ~file[f].exists /\ <<f, g>> \in Desired \cup edges

\* The daemon's auto-drain at boot, and `mati repair --fast`.
Drain ==
    /\ pc = "closed"
    /\ \/ /\ UNCHANGED fails
          /\ RepairFast(AllPairs, AllPairs, TRUE)
          /\ Escapes({g \in marker.keys \ marker'.keys : Unreached(g)})
       \/ /\ CanFail
          /\ \E okLinks, okEdges \in SUBSET AllPairs, done \in BOOLEAN :
                 RepairFast(okLinks, okEdges, done)
          /\ Escapes(marker.keys \ marker'.keys)
    /\ UNCHANGED <<pc, op, calls, crashes, tainted>>

\* `mati init`
MatiInit ==
    /\ pc = "closed"
    /\ \E fs \in (SUBSET Files) \ {{}} : InitFiles(fs)
    /\ UNCHANGED <<pc, op, calls, fails, crashes, history>>

Next ==
    \/ \E g \in Gotchas, new \in SUBSET Files : GotchaAdd(g, new)
    \/ \E g \in Gotchas, new \in SUBSET Files : GotchaEdit(g, new)
    \/ \E g \in Gotchas : GotchaDelete(g)
    \/ \E g \in Gotchas : GotchaConfirm(g)
    \/ PutRecord
    \/ PreArm
    \/ \E f \in Files : SyncLink(f)
    \/ LinksDone
    \/ \E f \in Files : SyncEdge(f)
    \/ EdgesDone
    \/ Disarm
    \/ Crash
    \/ Repair
    \/ Drain
    \/ MatiInit

Spec == Init /\ [][Next]_vars

-----------------------------------------------------------------------------
(* Properties.                                                             *)

\* A gotcha whose mutations all ran to the end with no failed write has both
\* indexes exact between commands, whatever happened to the other gotchas and
\* however many repairs failed half way (apply_gotcha_write, _tombstone and
\* _confirm sync every file they have to; repair.rs harms no healthy key).
CompleteOpsExact == pc = "closed" => Drifted \subseteq tainted

\* Drift is on the dirty marker, so that a drain will look at it, except for
\* the command's window between its record and its marker write, and for the
\* keys that escaped in one of the ways Escapes lists (the pre-arm guard of
\* gotcha_ops.rs and clear_dirty_key_if_solo).
DriftMarked ==
    Drifted \subseteq marker.keys \cup lost
                     \cup (IF pc = "arm" THEN {op.key} ELSE {})

\* A repair, complete or cut short, and `mati init` only ever remove drift: no
\* link or edge that agreed with the gotcha records stops agreeing
\* (repair_gotcha_indexes, repair_fast, back-fill 8c of init.rs).
RepairMonotone ==
    [][pc = "closed" /\ pc' = "closed" =>
         LinkDrift' \subseteq LinkDrift /\ EdgeDrift' \subseteq EdgeDrift]_vars

=============================================================================

----------------------------- MODULE GotchaIndex -----------------------------
(***************************************************************************)
(* The gotcha records and the two indexes derived from them.               *)
(*                                                                         *)
(* A gotcha record is the canonical truth; the gotcha_keys of a file       *)
(* record (what the read gate looks at) and the HasGotcha graph edges are  *)
(* derived from it, and src/store/repair.rs reconciles them.  This module  *)
(* is the stored state, the desired state, the drift between the two, and  *)
(* both repair modes.  GotchaOps adds the direct (CLI) mutations and       *)
(* GotchaHandlers the daemon's concurrent ones.                            *)
(*                                                                         *)
(* Rule text, severity, confidence and every other payload field are left  *)
(* out: no index depends on them.  A list of keys is a set (the code never *)
(* adds a key twice).                                                      *)
(***************************************************************************)
EXTENDS Naturals, FiniteSets

CONSTANTS Gotchas, Files

VARIABLES
    gotcha,   \* store: the gotcha:* records
    file,     \* store: the file:* records
    edges,    \* store: the graph:edge:file:<f>:has_gotcha:<g> keys
    marker    \* store: analytics:integrity:gotcha_links

index == <<gotcha, file, edges, marker>>

Lives     == {"none", "active", "tombstoned"}
GotchaRec == [life : Lives, files : SUBSET Files]
FileRec   == [exists : BOOLEAN, keys : SUBSET Gotchas]
Marker    == [dirty : BOOLEAN, keys : SUBSET Gotchas]

NoGotcha == [life |-> "none", files |-> {}]
Clean    == [dirty |-> FALSE, keys |-> {}]

IndexTypeOK ==
    /\ gotcha \in [Gotchas -> GotchaRec]
    /\ file \in [Files -> FileRec]
    /\ edges \subseteq Files \X Gotchas
    /\ marker \in Marker
    /\ marker.dirty <=> marker.keys # {}
    /\ \A f \in Files : file[f].keys # {} => file[f].exists

\* Files indexed by an earlier `mati init`, or unknown to it; no gotcha yet.
IndexInit ==
    /\ gotcha = [g \in Gotchas |-> NoGotcha]
    /\ \E known \in SUBSET Files :
           file = [f \in Files |-> [exists |-> f \in known, keys |-> {}]]
    /\ edges = {}
    /\ marker = Clean

-----------------------------------------------------------------------------
(* What the indexes should hold, and how they differ from it.              *)

\* Only an active gotcha claims its affected files.
AffectedFiles(rec) == IF rec.life = "active" THEN rec.files ELSE {}

\* derive_desired_state: links and edges have the same desired set.
Desired == {p \in Files \X Gotchas : p[1] \in AffectedFiles(gotcha[p[2]])}

\* read_actual_file_links
Links == {p \in Files \X Gotchas : p[2] \in file[p[1]].keys}

DesiredKeys(f) == {g \in Gotchas : <<f, g>> \in Desired}

\* A repository in use whose indexes agree with its gotchas.
ExactInit ==
    /\ gotcha \in [Gotchas -> [life : {"active"}, files : SUBSET Files] \cup {NoGotcha}]
    /\ \E known \in SUBSET Files :
           file = [f \in Files |-> [exists |-> f \in known \/ DesiredKeys(f) # {},
                                   keys |-> DesiredKeys(f)]]
    /\ edges = Desired
    /\ marker = Clean

\* diff_file_links and diff_edges: missing and stale entries together.
LinkDrift == (Desired \ Links) \cup (Links \ Desired)
EdgeDrift == (Desired \ edges) \cup (edges \ Desired)
HasDrift  == LinkDrift \cup EdgeDrift # {}
Drifted   == {p[2] : p \in LinkDrift \cup EdgeDrift}

\* Mutant: a file without a record gets the key but no record.
LinkNoStub(rec, g) == [rec EXCEPT !.keys = @ \cup {g}]

\* add_gotcha_key / remove_gotcha_key, and the stub created for a file that
\* `mati init` never indexed.
Link(rec, g)   == [exists |-> TRUE, keys |-> rec.keys \cup {g}]
Unlink(rec, g) == [rec EXCEPT !.keys = @ \ {g}]

\* mark_dirty
Marked(m, g) == [dirty |-> TRUE, keys |-> m.keys \cup {g}]

\* Mutant: the keys are dropped and the flag stays.
DisarmedKeepsFlag(m, g) == [m EXCEPT !.keys = @ \ {g}]
\* Mutant: the other keys of the marker are dropped too.
DisarmedNotSolo(m, g) == Clean

\* clear_dirty_key_if_solo
Disarmed(m, g) == IF m.dirty /\ m.keys = {g} THEN Clean ELSE m

-----------------------------------------------------------------------------
(* Repair.  The caller holds the store alone: `mati repair` refuses to run *)
(* beside a daemon, and a daemon drains the marker before it serves.  A    *)
(* repair is one step whose individual writes succeed or fail: the ok sets *)
(* are the writes that succeeded, and a repair that is killed, times out   *)
(* or meets a read error is one whose remaining writes failed and that     *)
(* never cleared the marker (done = FALSE).                                *)

\* RepairMode::Full.  A file without a record is not created.
RepairFull(okFiles, okEdges, done) ==
    /\ gotcha' = gotcha
    /\ file' = [f \in Files |->
                  IF f \in okFiles /\ file[f].exists
                  THEN [file[f] EXCEPT !.keys = DesiredKeys(f)] ELSE file[f]]
    /\ edges' = (edges \cup ((Desired \ edges) \cap okEdges))
                    \ ((edges \ Desired) \cap okEdges)
    /\ marker' = IF done /\ ~HasDrift' THEN Clean ELSE marker

\* Mutant: the stale scan does not skip the files the gotcha still names.
FastFileUnlinksAll(f, okLinks) ==
    LET ok == {g \in marker.keys : <<f, g>> \in okLinks /\ file[f].exists}
    IN  [file[f] EXCEPT !.keys = @ \ ok]

\* repair_fast, the keys of the marker only: link the gotcha to its desired
\* files that have a record, put every desired edge, and unlink it from (and
\* delete the edges of) the recorded files it no longer names.
FastFile(f, okLinks) ==
    LET ok == {g \in marker.keys : <<f, g>> \in okLinks /\ file[f].exists}
    IN  [file[f] EXCEPT !.keys = (@ \ ok) \cup (DesiredKeys(f) \cap ok)]
FastAdds    == {p \in Desired : p[2] \in marker.keys}
FastDeletes == {p \in edges \ Desired : p[2] \in marker.keys /\ file[p[1]].exists}
\* `repaired`: link writes that changed a record, plus every edge put (a put
\* of an edge that is there already counts); deleted edges do not count.
FastRepaired(okLinks, okEdges) ==
    \/ \E f \in Files : FastFile(f, okLinks) # file[f]
    \/ FastAdds \cap okEdges # {}

RepairFast(okLinks, okEdges, done) ==
    /\ marker.dirty
    /\ gotcha' = gotcha
    /\ file' = [f \in Files |-> FastFile(f, okLinks)]
    /\ edges' = (edges \cup (FastAdds \cap okEdges)) \ (FastDeletes \cap okEdges)
    /\ marker' = IF done /\ FastRepaired(okLinks, okEdges) THEN Clean ELSE marker

\* `mati init`: the records of the changed files fs are rebuilt from analysis
\* in one batch, with the keys of the active gotchas that name them (8c).
InitFiles(fs) ==
    /\ file' = [f \in Files |->
                  IF f \in fs THEN [exists |-> TRUE, keys |-> DesiredKeys(f)]
                  ELSE file[f]]
    /\ UNCHANGED <<gotcha, edges, marker>>
=============================================================================

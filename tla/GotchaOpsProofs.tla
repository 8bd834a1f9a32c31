--------------------------- MODULE GotchaOpsProofs ---------------------------
(***************************************************************************)
(* Proofs about GotchaOps, for any gotchas, files and bounds.              *)
(***************************************************************************)
EXTENDS GotchaOps, TLAPS

\* The link, or the edge, between f and g is not what the record of g asks.
LinkOff(f, g) == ~(f \in AffectedFiles(gotcha[g]) <=> g \in file[f].keys)
EdgeOff(f, g) == ~(f \in AffectedFiles(gotcha[g]) <=> <<f, g>> \in edges)
Off(g)        == \E f \in Files : LinkOff(f, g) \/ EdgeOff(f, g)

\* The running command has met no failure and found its key in order.
Clear == op.key \notin tainted \/ (op.ok /\ op.key \notin lost)

\* Only a key that was interrupted drifts, or the one being worked on.
TaintInv ==
    \A g \in Gotchas : Off(g) =>
        g \in tainted \/ (pc \notin {"closed", "put"} /\ g = op.key)

\* Drift is on the marker, or escaped it.
MarkInv ==
    /\ \A g \in Gotchas : Off(g) =>
          g \in marker.keys \/ g \in lost \/ (pc = "arm" /\ g = op.key)
    /\ pc \in {"links", "edges", "disarm"} => op.key \in marker.keys \cup lost

\* Before the record is put, the command has planned every change of claim.
PlanInv == pc = "put" =>
    /\ op.ok /\ op.eadd = op.add /\ op.erem = op.rem
    /\ \A f \in Files \ (op.add \cup op.rem) :
          f \in AffectedFiles(op.rec) <=> f \in AffectedFiles(gotcha[op.key])
    /\ Clear => ~Off(op.key)

\* What it still has to add the record claims, what it still has to remove the
\* record does not.
SenseInv == pc # "closed" /\ Clear =>
    /\ op.add \cup op.eadd \subseteq AffectedFiles(op.rec)
    /\ \A f \in op.rem \cup op.erem : f \notin AffectedFiles(op.rec)

\* After the record is put, only what the command still has to do is off.
WorkInv == pc \in {"arm", "links", "edges", "disarm"} =>
    /\ gotcha[op.key] = op.rec
    /\ Clear => \A f \in Files : /\ LinkOff(f, op.key) => f \in op.add \cup op.rem
                                 /\ EdgeOff(f, op.key) => f \in op.eadd \cup op.erem
    /\ pc \in {"edges", "disarm"} => op.add = {} /\ op.rem = {}
    /\ pc = "disarm" => op.eadd = {} /\ op.erem = {}

IInv == TypeOK /\ TaintInv /\ MarkInv /\ PlanInv /\ SenseInv /\ WorkInv
-----------------------------------------------------------------------------
(* The index.                                                              *)

\* Drift, pair by pair.
LEMMA PairDrift ==
  IndexTypeOK =>
    /\ \A f \in Files, g \in Gotchas : /\ <<f, g>> \in LinkDrift <=> LinkOff(f, g)
                                       /\ <<f, g>> \in EdgeDrift <=> EdgeOff(f, g)
                                       /\ <<f, g>> \in Desired <=> f \in AffectedFiles(gotcha[g])
    /\ LinkDrift \subseteq Files \X Gotchas /\ EdgeDrift \subseteq Files \X Gotchas
<1> SUFFICES ASSUME IndexTypeOK
    PROVE  /\ \A f \in Files, g \in Gotchas : /\ <<f, g>> \in LinkDrift <=> LinkOff(f, g)
                                              /\ <<f, g>> \in EdgeDrift <=> EdgeOff(f, g)
                                              /\ <<f, g>> \in Desired <=> f \in AffectedFiles(gotcha[g])
           /\ LinkDrift \subseteq Files \X Gotchas /\ EdgeDrift \subseteq Files \X Gotchas
  OBVIOUS
<1>1. edges \subseteq Files \X Gotchas
  BY DEF IndexTypeOK
<1>2. Desired \subseteq Files \X Gotchas /\ Links \subseteq Files \X Gotchas
  BY DEF Desired, Links
<1>3. ASSUME NEW f \in Files, NEW g \in Gotchas
      PROVE  /\ <<f, g>> \in Desired <=> f \in AffectedFiles(gotcha[g])
             /\ <<f, g>> \in Links <=> g \in file[f].keys
  BY <1>3 DEF Desired, Links
<1> QED BY <1>1, <1>2, <1>3 DEF LinkDrift, EdgeDrift, LinkOff, EdgeOff

\* The drifted gotchas are the ones with a pair that is off.
LEMMA OffDrift == IndexTypeOK => \A g : g \in Drifted <=> g \in Gotchas /\ Off(g)
<1> SUFFICES ASSUME IndexTypeOK, NEW g PROVE g \in Drifted <=> g \in Gotchas /\ Off(g)
  OBVIOUS
<1>1. ASSUME g \in Drifted PROVE g \in Gotchas /\ Off(g)
  <2>1. PICK p \in LinkDrift \cup EdgeDrift : p[2] = g
    BY <1>1 DEF Drifted
  <2>2. PICK f \in Files, h \in Gotchas : p = <<f, h>>
    BY <2>1, PairDrift
  <2> QED BY <2>1, <2>2, PairDrift DEF Off
<1>2. ASSUME g \in Gotchas, Off(g) PROVE g \in Drifted
  <2>1. PICK f \in Files : LinkOff(f, g) \/ EdgeOff(f, g)
    BY <1>2 DEF Off
  <2>2. <<f, g>> \in LinkDrift \cup EdgeDrift /\ <<f, g>>[2] = g
    BY <1>2, <2>1, PairDrift
  <2> QED BY <2>2 DEF Drifted
<1> QED BY <1>1, <1>2

\* What a key's pairs are depends on its record, its links and its edges.
LEMMA SameOff ==
  ASSUME NEW g \in Gotchas, gotcha'[g] = gotcha[g],
         \A f \in Files : (g \in file'[f].keys <=> g \in file[f].keys)
                          /\ (<<f, g>> \in edges' <=> <<f, g>> \in edges)
  PROVE  Off(g)' <=> Off(g)
  BY DEF Off, LinkOff, EdgeOff, AffectedFiles
-----------------------------------------------------------------------------
(* Types.                                                                  *)

\* Every index operation keeps the store's types.
LEMMA StoreTypes ==
  ASSUME IndexTypeOK
  PROVE  /\ \A g \in Gotchas : Marked(marker, g) \in Marker /\ Marked(marker, g).dirty
                               /\ Marked(marker, g).keys = marker.keys \cup {g}
         /\ \A g \in Gotchas : /\ Disarmed(marker, g) \in Marker
                               /\ Disarmed(marker, g).dirty <=> Disarmed(marker, g).keys # {}
         /\ Clean \in Marker /\ (Clean.dirty <=> Clean.keys # {}) /\ Clean.keys = {}
         /\ \A f \in Files, g \in Gotchas :
               /\ Link(file[f], g) \in FileRec /\ Link(file[f], g).exists
               /\ Unlink(file[f], g) \in FileRec
               /\ Unlink(file[f], g).exists <=> file[f].exists
               /\ Unlink(file[f], g).keys \subseteq file[f].keys
  BY DEF IndexTypeOK, Marked, Disarmed, Clean, Link, Unlink, Marker, FileRec

\* So does a step of a command.
LEMMA OpTypes ==
  ASSUME NEW g \in Gotchas, NEW rec \in GotchaRec,
         NEW old \in SUBSET Files, NEW new \in SUBSET Files
  PROVE  NewOp(g, rec, old, new) \in Op
  BY DEF NewOp, Op

\* Every step keeps the types.
LEMMA NextTypes == TypeOK /\ [Next]_vars => TypeOK'
<1> SUFFICES ASSUME TypeOK, [Next]_vars PROVE TypeOK'
  OBVIOUS
<1> USE BoundAssumption
<1>0. IndexTypeOK /\ op.key \in Gotchas /\ op.rec \in GotchaRec
  BY DEF TypeOK, Op
<1>f. CanFail \/ UNCHANGED fails => fails' \in 0..MaxFails
  BY DEF CanFail, TypeOK
<1>s. ASSUME NEW g \in Gotchas, NEW rec \in GotchaRec, NEW old \in SUBSET Files,
             NEW new \in SUBSET Files, Start(g, rec, old, new)
      PROVE  TypeOK'
  <2>1. op' \in Op /\ calls' \in 0..MaxCalls
    BY <1>s, OpTypes DEF Start, TypeOK
  <2>2. lost' \subseteq Gotchas /\ tainted' \subseteq Gotchas
    BY <1>s DEF Start, Escapes, LinkedDead, TypeOK
  <2> QED BY <1>s, <2>1, <2>2 DEF Start, index, TypeOK, IndexTypeOK, PCs
<1>r. \A g \in Gotchas : gotcha[g] \in GotchaRec /\ gotcha[g].files \in SUBSET Files
                         /\ gotcha[g].life \in Lives
  BY <1>0 DEF IndexTypeOK, GotchaRec
<1>1. ASSUME NEW g \in Gotchas, NEW new \in SUBSET Files, GotchaAdd(g, new) PROVE TypeOK'
  BY <1>1, <1>s DEF GotchaAdd, GotchaRec, Lives
<1>2. ASSUME NEW g \in Gotchas, NEW new \in SUBSET Files, GotchaEdit(g, new) PROVE TypeOK'
  <2>1. [gotcha[g] EXCEPT !.files = new] \in GotchaRec
    BY <1>r DEF GotchaRec
  <2> QED BY <1>2, <1>r, <1>s, <2>1 DEF GotchaEdit
<1>3. ASSUME NEW g \in Gotchas, GotchaDelete(g) PROVE TypeOK'
  <2>1. [gotcha[g] EXCEPT !.life = "tombstoned"] \in GotchaRec
    BY <1>r DEF GotchaRec, Lives
  <2> QED BY <1>3, <1>r, <1>s, <2>1 DEF GotchaDelete
<1>4. ASSUME NEW g \in Gotchas, GotchaConfirm(g) PROVE TypeOK'
  BY <1>4, <1>r, <1>s DEF GotchaConfirm
<1>5. CASE PutRecord
  <2>1. gotcha' \in [Gotchas -> GotchaRec]
    BY <1>0, <1>5 DEF PutRecord, IndexTypeOK
  <2>2. pc' \in PCs /\ fails' \in 0..MaxFails
    BY <1>5, <1>f DEF PutRecord, PCs
  <2> QED BY <1>5, <2>1, <2>2 DEF PutRecord, history, TypeOK, IndexTypeOK
<1>m. MarkDirty => /\ marker' \in Marker /\ (marker'.dirty <=> marker'.keys # {})
                   /\ lost' \subseteq Gotchas
  BY <1>0, StoreTypes DEF MarkDirty, Escapes, TypeOK, IndexTypeOK
<1>6. CASE PreArm
  <2>1. /\ marker' \in Marker /\ (marker'.dirty <=> marker'.keys # {})
        /\ lost' \subseteq Gotchas
    BY <1>0, <1>6, <1>m, StoreTypes DEF PreArm, Escapes, TypeOK
  <2>2. pc' \in PCs /\ fails' \in 0..MaxFails
    BY <1>6, <1>f DEF PreArm, PCs
  <2> QED BY <1>6, <2>1, <2>2 DEF PreArm, TypeOK, IndexTypeOK
<1>7. ASSUME NEW f \in Files, SyncLink(f) PROVE TypeOK'
  <2>1. /\ marker' \in Marker /\ (marker'.dirty <=> marker'.keys # {})
        /\ lost' \subseteq Gotchas /\ tainted' \subseteq Gotchas
    BY <1>0, <1>7, <1>m DEF SyncLink, history, TypeOK, IndexTypeOK
  <2>2. pc' \in PCs /\ fails' \in 0..MaxFails
    BY <1>7, <1>f DEF SyncLink, PCs, TypeOK
  <2>3. op' \in Op
    BY <1>7 DEF SyncLink, Op, TypeOK
  <2>4. file' \in [Files -> FileRec] /\ \A h \in Files : file'[h].keys # {} => file'[h].exists
    <3>1. \/ file' = file
          \/ file' = [file EXCEPT ![f] = Link(file[f], op.key)]
          \/ file' = [file EXCEPT ![f] = Unlink(file[f], op.key)]
      BY <1>7 DEF SyncLink
    <3>2. file' = file \/ \E r \in FileRec : /\ r.keys # {} => r.exists
                                             /\ file' = [file EXCEPT ![f] = r]
      <4>1. /\ Unlink(file[f], op.key) \in FileRec /\ Link(file[f], op.key) \in FileRec
            /\ Unlink(file[f], op.key).keys # {} => Unlink(file[f], op.key).exists
            /\ Link(file[f], op.key).exists
        <5>1. file[f].keys # {} => file[f].exists
          BY <1>0 DEF IndexTypeOK
        <5> QED BY <1>0, <5>1, StoreTypes
      <4> QED BY <3>1, <4>1
    <3> QED BY <1>0, <3>2 DEF IndexTypeOK
  <2> QED BY <1>7, <2>1, <2>2, <2>3, <2>4 DEF SyncLink, TypeOK, IndexTypeOK
<1>8. CASE LinksDone \/ EdgesDone
  BY <1>8 DEF LinksDone, EdgesDone, index, history, TypeOK, IndexTypeOK, PCs
<1>9. ASSUME NEW f \in Files, SyncEdge(f) PROVE TypeOK'
  <2>1. /\ marker' \in Marker /\ (marker'.dirty <=> marker'.keys # {})
        /\ lost' \subseteq Gotchas /\ tainted' \subseteq Gotchas
    BY <1>0, <1>9, <1>m DEF SyncEdge, history, TypeOK, IndexTypeOK
  <2>2. fails' \in 0..MaxFails
    BY <1>9, <1>f DEF SyncEdge
  <2>3. op' \in Op
    BY <1>9 DEF SyncEdge, Op, TypeOK
  <2>4. edges' \subseteq Files \X Gotchas
    BY <1>0, <1>9 DEF SyncEdge, IndexTypeOK
  <2> QED BY <1>9, <2>1, <2>2, <2>3, <2>4 DEF SyncEdge, TypeOK, IndexTypeOK
<1>10. CASE Disarm
  <2>1. marker' \in Marker /\ (marker'.dirty <=> marker'.keys # {})
    BY <1>0, <1>10, StoreTypes DEF Disarm, IndexTypeOK
  <2>2. pc' \in PCs /\ fails' \in 0..MaxFails
    BY <1>10, <1>f DEF Disarm, PCs
  <2> QED BY <1>10, <2>1, <2>2 DEF Disarm, history, TypeOK, IndexTypeOK
<1>11. CASE Crash
  <2>1. crashes' \in 0..MaxCrashes /\ tainted' \subseteq Gotchas /\ lost' \subseteq Gotchas
    BY <1>0, <1>11 DEF Crash, Escapes, TypeOK
  <2> QED BY <1>11, <2>1 DEF Crash, index, TypeOK, IndexTypeOK, PCs
<1>k. \A f \in Files : DesiredKeys(f) \subseteq Gotchas
  BY DEF DesiredKeys
<1>12. CASE Repair
  <2>1. PICK okFiles \in SUBSET Files, okEdges \in SUBSET AllPairs, done \in BOOLEAN :
           RepairFull(okFiles, okEdges, done)
    BY <1>12 DEF Repair
  <2>2. \A h \in Files : LET r == IF h \in okFiles /\ file[h].exists
                                  THEN [file[h] EXCEPT !.keys = DesiredKeys(h)] ELSE file[h]
                         IN r \in FileRec /\ (r.keys # {} => r.exists)
    BY <1>0, <1>k DEF IndexTypeOK, FileRec
  <2>3. file' \in [Files -> FileRec] /\ \A h \in Files : file'[h].keys # {} => file'[h].exists
    BY <2>1, <2>2 DEF RepairFull
  <2>4. edges' \subseteq Files \X Gotchas /\ gotcha' = gotcha
    BY <1>0, <2>1 DEF RepairFull, IndexTypeOK, Desired
  <2>5. marker' \in Marker /\ (marker'.dirty <=> marker'.keys # {})
    BY <1>0, <2>1, StoreTypes DEF RepairFull, IndexTypeOK
  <2>6. fails' \in 0..MaxFails /\ tainted' \subseteq Gotchas /\ lost' \subseteq Gotchas
    BY <1>12, <1>f DEF Repair, history, TypeOK
  <2> QED BY <1>12, <2>3, <2>4, <2>5, <2>6 DEF Repair, TypeOK, IndexTypeOK
<1>13. CASE Drain
  <2>1. PICK okLinks \in SUBSET AllPairs, okEdges \in SUBSET AllPairs, done \in BOOLEAN :
           RepairFast(okLinks, okEdges, done)
    BY <1>13 DEF Drain
  <2>2. \A h \in Files : /\ FastFile(h, okLinks) \in FileRec
                         /\ FastFile(h, okLinks).keys # {} => FastFile(h, okLinks).exists
    BY <1>0, <1>k DEF IndexTypeOK, FileRec, FastFile
  <2>3. file' \in [Files -> FileRec] /\ \A h \in Files : file'[h].keys # {} => file'[h].exists
    BY <2>1, <2>2 DEF RepairFast
  <2>4. edges' \subseteq Files \X Gotchas /\ gotcha' = gotcha
    BY <1>0, <2>1 DEF RepairFast, IndexTypeOK, FastAdds, Desired
  <2>5. marker' \in Marker /\ (marker'.dirty <=> marker'.keys # {})
    BY <1>0, <2>1, StoreTypes DEF RepairFast, IndexTypeOK
  <2>6. lost' \subseteq Gotchas
    BY <1>0, <1>13 DEF Drain, Escapes, TypeOK, IndexTypeOK, Marker
  <2>7. fails' \in 0..MaxFails
    BY <1>13, <1>f DEF Drain
  <2> QED BY <1>13, <2>3, <2>4, <2>5, <2>6, <2>7 DEF Drain, TypeOK, IndexTypeOK
<1>14. CASE MatiInit
  <2>1. PICK fs \in SUBSET Files : InitFiles(fs)
    BY <1>14 DEF MatiInit
  <2>2. file' \in [Files -> FileRec] /\ \A h \in Files : file'[h].keys # {} => file'[h].exists
    BY <1>0, <1>k, <2>1 DEF InitFiles, IndexTypeOK, FileRec
  <2> QED BY <1>14, <2>1, <2>2 DEF MatiInit, InitFiles, history, TypeOK, IndexTypeOK
<1>15. CASE UNCHANGED vars
  BY <1>15 DEF vars, index, history, TypeOK, IndexTypeOK
<1> QED BY <1>1, <1>2, <1>3, <1>4, <1>5, <1>6, <1>7, <1>8, <1>9, <1>10, <1>11, <1>12,
           <1>13, <1>14, <1>15 DEF Next
-----------------------------------------------------------------------------
(* The invariant.                                                          *)

\* What a command plans agrees with the record it will put.
LEMMA StartStep ==
  ASSUME IInv, NEW g \in Gotchas, NEW rec \in GotchaRec,
         NEW old \in SUBSET Files, NEW new \in SUBSET Files,
         Start(g, rec, old, new),
         \A f \in Files \ ((new \ old) \cup (old \ new)) :
            f \in AffectedFiles(rec) <=> f \in AffectedFiles(gotcha[g]),
         rec.life # "tombstoned" => new \ old \subseteq AffectedFiles(rec),
         \A f \in old \ new : f \notin AffectedFiles(rec)
  PROVE  (TaintInv /\ MarkInv /\ PlanInv /\ SenseInv /\ WorkInv)'
<1>0. /\ IndexTypeOK /\ pc = "closed" /\ pc' = "put"
      /\ UNCHANGED <<gotcha, file, edges, marker>>
      /\ op' = NewOp(g, rec, old, new) /\ tainted \subseteq tainted' /\ lost \subseteq lost'
  BY DEF IInv, TypeOK, Start, Escapes, index
<1>1. \A h \in Gotchas : Off(h)' <=> Off(h)
  BY <1>0, SameOff
<1>2. /\ op'.key = g /\ op'.rec = rec /\ op'.add = new \ old /\ op'.rem = old \ new
      /\ op'.eadd = new \ old /\ op'.erem = old \ new /\ op'.ok
  BY <1>0 DEF NewOp
<1>3. TaintInv'
  BY <1>0, <1>1 DEF IInv, TaintInv
<1>4. MarkInv'
  BY <1>0, <1>1 DEF IInv, MarkInv
<1>5. Clear' => ~Off(g)
  <2>1. g \in Drifted => g \in lost'
    BY DEF Start, Escapes
  <2>2. Off(g) => g \in tainted
    BY <1>0 DEF IInv, TaintInv
  <2> QED BY <1>0, <1>2, <2>1, <2>2, OffDrift DEF Clear
<1>6. PlanInv'
  BY <1>0, <1>1, <1>2, <1>5 DEF PlanInv
<1>7. SenseInv'
  <2>1. rec.life = "tombstoned" /\ new \ old # {} => ~Clear'
    BY <1>2 DEF Start, Escapes, LinkedDead, Clear
  <2> QED BY <1>2, <2>1 DEF SenseInv
<1>8. WorkInv'
  BY <1>0 DEF WorkInv
<1> QED BY <1>3, <1>4, <1>6, <1>7, <1>8

\* A failed secondary write marks the key, or lets it escape.
LEMMA MarkStep ==
  ASSUME TypeOK, MarkDirty \/ (marker' = Marked(marker, op.key) /\ Escapes({}))
  PROVE  /\ marker.keys \subseteq marker'.keys /\ lost \subseteq lost'
         /\ op.key \in marker'.keys \cup lost'
<1>1. op.key \in Gotchas /\ IndexTypeOK
  BY DEF TypeOK, Op
<1> QED BY <1>1, StoreTypes DEF MarkDirty, Escapes

\* The steps of a command keep the invariant.
LEMMA CommandStep ==
  ASSUME IInv,
         \/ PutRecord \/ PreArm \/ (\E f \in Files : SyncLink(f)) \/ LinksDone
         \/ (\E f \in Files : SyncEdge(f)) \/ EdgesDone \/ Disarm \/ Crash
  PROVE  (TaintInv /\ MarkInv /\ PlanInv /\ SenseInv /\ WorkInv)'
<1> DEFINE Goal == (TaintInv /\ MarkInv /\ PlanInv /\ SenseInv /\ WorkInv)'
<1>0. /\ IndexTypeOK /\ TypeOK /\ op \in Op /\ op.key \in Gotchas
      /\ TaintInv /\ MarkInv /\ PlanInv /\ SenseInv /\ WorkInv
  BY DEF IInv, TypeOK, Op
<1>s. UNCHANGED <<gotcha, file, edges>> => \A h \in Gotchas : Off(h)' <=> Off(h)
  BY SameOff
<1>1. CASE PutRecord
  <2>1. CASE pc' = "closed"
    <3>1. UNCHANGED <<gotcha, file, edges, marker, op, tainted, lost>> /\ pc = "put"
      BY <1>1, <2>1 DEF PutRecord, history
    <3> QED BY <1>0, <1>s, <2>1, <3>1 DEF TaintInv, MarkInv, PlanInv, SenseInv, WorkInv
  <2>2. CASE pc' # "closed"
    <3>1. /\ UNCHANGED <<file, edges, marker, op, tainted, lost>>
          /\ pc = "put" /\ pc' = "arm" /\ gotcha' = [gotcha EXCEPT ![op.key] = op.rec]
      BY <1>1, <2>2 DEF PutRecord, history
    <3>2. gotcha'[op.key] = op.rec /\ \A h \in Gotchas \ {op.key} : Off(h)' <=> Off(h)
      <4>1. gotcha'[op.key] = op.rec
            /\ \A h \in Gotchas \ {op.key} : gotcha'[h] = gotcha[h]
        BY <1>0, <3>1 DEF IndexTypeOK
      <4> QED BY <3>1, <4>1, SameOff
    <3>3. TaintInv' /\ MarkInv' /\ PlanInv'
      BY <1>0, <3>1, <3>2 DEF TaintInv, MarkInv, PlanInv
    <3>4. SenseInv'
      BY <1>0, <3>1 DEF SenseInv, Clear
    <3>5. WorkInv'
      <4>1. Clear' => Clear /\ ~Off(op.key)
        BY <1>0, <3>1 DEF Clear, PlanInv
      <4>2. ASSUME Clear', NEW f \in Files, f \notin op.add \cup op.rem
            PROVE  ~LinkOff(f, op.key)' /\ ~EdgeOff(f, op.key)'
        <5>1. f \in AffectedFiles(gotcha'[op.key]) <=> f \in AffectedFiles(gotcha[op.key])
          BY <1>0, <3>1, <3>2, <4>2 DEF PlanInv
        <5>2. ~LinkOff(f, op.key) /\ ~EdgeOff(f, op.key)
          BY <4>1, <4>2 DEF Off
        <5> QED BY <3>1, <5>1, <5>2 DEF LinkOff, EdgeOff
      <4>3. op.eadd = op.add /\ op.erem = op.rem
        BY <1>0, <3>1 DEF PlanInv
      <4> QED BY <3>1, <3>2, <4>2, <4>3 DEF WorkInv
    <3> QED BY <3>3, <3>4, <3>5
  <2> QED BY <2>1, <2>2
<1>2. CASE PreArm
  <2>1. /\ UNCHANGED <<gotcha, file, edges, op, tainted>> /\ pc = "arm" /\ pc' = "links"
        /\ marker.keys \subseteq marker'.keys /\ lost \subseteq lost'
        /\ op.key \in marker'.keys \cup lost'
    BY <1>0, <1>2, MarkStep DEF PreArm
  <2>2. Clear' => Clear
    BY <2>1 DEF Clear
  <2>3. WorkInv'
    BY <1>0, <2>1, <2>2 DEF WorkInv, LinkOff, EdgeOff
  <2> QED BY <1>0, <1>s, <2>1, <2>2, <2>3 DEF TaintInv, MarkInv, PlanInv, SenseInv
<1>3. ASSUME NEW f \in Files, SyncLink(f) PROVE Goal
  <2>0. pc = "links" /\ UNCHANGED <<gotcha, edges>> /\ f \in op.add \cup op.rem
    BY <1>3 DEF SyncLink
  <2>1. CASE UNCHANGED file
    <3>1. CASE pc' = "edges"
      <4>1. /\ marker.keys \subseteq marker'.keys /\ lost \subseteq lost'
            /\ op.key \in marker'.keys \cup lost' /\ tainted' = tainted \cup {op.key}
            /\ op' = [op EXCEPT !.add = {}, !.rem = {}, !.ok = FALSE]
        BY <1>0, <1>3, <2>0, <3>1, MarkStep DEF SyncLink
      <4>2. /\ op'.key = op.key /\ op'.rec = op.rec /\ ~op'.ok
            /\ op'.add = {} /\ op'.rem = {} /\ ~Clear'
        BY <1>0, <4>1 DEF Op, Clear
      <4>3. WorkInv'
        BY <1>0, <2>0, <3>1, <4>2 DEF WorkInv
      <4> QED BY <1>0, <1>s, <2>0, <2>1, <3>1, <4>1, <4>2, <4>3
              DEF TaintInv, MarkInv, PlanInv, SenseInv
    <3>2. CASE pc' # "edges"
      <4>1. /\ UNCHANGED <<pc, marker, tainted, lost>>
            /\ op' = [op EXCEPT !.add = @ \ {f}, !.rem = @ \ {f}]
            /\ file' = [file EXCEPT ![f] = IF f \in op.add THEN Link(@, op.key)
                                           ELSE Unlink(@, op.key)]
        BY <1>3, <3>2 DEF SyncLink, history
      <4>2. /\ op'.key = op.key /\ op'.rec = op.rec /\ op'.ok = op.ok
            /\ op'.add = op.add \ {f} /\ op'.rem = op.rem \ {f}
            /\ op'.eadd = op.eadd /\ op'.erem = op.erem
        BY <1>0, <4>1 DEF Op
      <4>3. Clear' => Clear
        BY <4>1, <4>2 DEF Clear
      <4>4. SenseInv'
        BY <1>0, <4>1, <4>2, <4>3 DEF SenseInv
      <4>5. WorkInv'
        <5>1. f \in op.add => op.key \in file'[f].keys
          BY <1>0, <4>1 DEF IndexTypeOK, Link
        <5>2. f \notin op.add => op.key \notin file'[f].keys
          BY <1>0, <4>1 DEF IndexTypeOK, Unlink, FileRec
        <5>3. Clear' => ~LinkOff(f, op.key)'
          BY <1>0, <2>0, <4>2, <4>3, <5>1, <5>2 DEF SenseInv, WorkInv, LinkOff
        <5> QED BY <1>0, <2>0, <2>1, <4>1, <4>2, <4>3, <5>3 DEF WorkInv, LinkOff, EdgeOff
      <4> QED BY <1>0, <1>s, <2>0, <2>1, <4>1, <4>2, <4>4, <4>5
              DEF TaintInv, MarkInv, PlanInv
    <3> QED BY <3>1, <3>2
  <2>2. CASE ~UNCHANGED file
    <3>1. /\ UNCHANGED <<pc, marker, tainted, lost>>
          /\ op' = [op EXCEPT !.add = @ \ {f}, !.rem = @ \ {f}]
          /\ file' = [file EXCEPT ![f] = IF f \in op.add THEN Link(@, op.key)
                                         ELSE Unlink(@, op.key)]
      BY <1>3, <2>2 DEF SyncLink, history
    <3>2. /\ op'.key = op.key /\ op'.rec = op.rec /\ op'.ok = op.ok
          /\ op'.add = op.add \ {f} /\ op'.rem = op.rem \ {f}
          /\ op'.eadd = op.eadd /\ op'.erem = op.erem
      BY <1>0, <3>1 DEF Op
    <3>3. Clear' => Clear
      BY <3>1, <3>2 DEF Clear
    <3>4. /\ f \in op.add => file'[f].keys = file[f].keys \cup {op.key}
          /\ f \notin op.add => file'[f].keys = file[f].keys \ {op.key}
          /\ \A h \in Files \ {f} : file'[h] = file[h]
      BY <1>0, <3>1 DEF IndexTypeOK, Link, Unlink, FileRec
    <3>5. \A h \in Gotchas \ {op.key} : Off(h)' <=> Off(h)
      BY <2>0, <3>4, SameOff
    <3>6. SenseInv'
      BY <1>0, <3>1, <3>2, <3>3 DEF SenseInv
    <3>7. WorkInv'
      <4>1. Clear' => ~LinkOff(f, op.key)'
        BY <1>0, <2>0, <3>2, <3>3, <3>4 DEF SenseInv, WorkInv, LinkOff
      <4> QED BY <1>0, <2>0, <3>1, <3>2, <3>3, <3>4, <4>1 DEF WorkInv, LinkOff, EdgeOff
    <3> QED BY <1>0, <2>0, <3>1, <3>2, <3>5, <3>6, <3>7 DEF TaintInv, MarkInv, PlanInv
  <2> QED BY <2>1, <2>2
<1>4. CASE LinksDone \/ EdgesDone
  <2>1. UNCHANGED <<gotcha, file, edges, marker, op, tainted, lost>>
    BY <1>4 DEF LinksDone, EdgesDone, index, history
  <2>2. \/ pc = "links" /\ pc' = "edges" /\ op.add = {} /\ op.rem = {}
        \/ pc = "edges" /\ pc' = "disarm" /\ op.eadd = {} /\ op.erem = {}
    BY <1>4 DEF LinksDone, EdgesDone
  <2>3. WorkInv' /\ SenseInv'
    BY <1>0, <2>1, <2>2 DEF WorkInv, SenseInv, Clear, LinkOff, EdgeOff
  <2> QED BY <1>0, <1>s, <2>1, <2>2, <2>3 DEF TaintInv, MarkInv, PlanInv
<1>5. ASSUME NEW f \in Files, SyncEdge(f) PROVE Goal
  <2>0. pc = "edges" /\ pc' = pc /\ UNCHANGED <<gotcha, file>> /\ f \in op.eadd \cup op.erem
    BY <1>5 DEF SyncEdge
  <2>1. CASE MarkDirty /\ tainted' = tainted \cup {op.key} /\ UNCHANGED edges
             /\ op' = [op EXCEPT !.eadd = @ \ {f}, !.erem = @ \ {f}, !.ok = FALSE]
    <3>1. /\ marker.keys \subseteq marker'.keys /\ lost \subseteq lost'
          /\ op.key \in marker'.keys \cup lost'
      BY <1>0, <2>1, MarkStep
    <3>2. /\ op'.key = op.key /\ op'.rec = op.rec /\ ~op'.ok
          /\ op'.add = op.add /\ op'.rem = op.rem /\ ~Clear'
      BY <1>0, <2>1 DEF Op, Clear
    <3>3. WorkInv'
      BY <1>0, <2>0, <3>2 DEF WorkInv
    <3> QED BY <1>0, <1>s, <2>0, <2>1, <3>1, <3>2, <3>3
            DEF TaintInv, MarkInv, PlanInv, SenseInv
  <2>2. CASE /\ edges' = IF f \in op.eadd THEN edges \cup {<<f, op.key>>}
                         ELSE edges \ {<<f, op.key>>}
             /\ op' = [op EXCEPT !.eadd = @ \ {f}, !.erem = @ \ {f}]
             /\ UNCHANGED <<marker, fails, history>>
    <3>1. UNCHANGED <<marker, tainted, lost>>
      BY <2>2 DEF history
    <3>2. /\ op'.key = op.key /\ op'.rec = op.rec /\ op'.ok = op.ok
          /\ op'.eadd = op.eadd \ {f} /\ op'.erem = op.erem \ {f}
          /\ op'.add = op.add /\ op'.rem = op.rem
      BY <1>0, <2>2 DEF Op
    <3>3. Clear' => Clear
      BY <3>1, <3>2 DEF Clear
    <3>4. /\ f \in op.eadd => <<f, op.key>> \in edges'
          /\ f \notin op.eadd => <<f, op.key>> \notin edges'
          /\ \A h \in Files, g \in Gotchas : h # f \/ g # op.key =>
                (<<h, g>> \in edges' <=> <<h, g>> \in edges)
      BY <2>2
    <3>5. \A h \in Gotchas \ {op.key} : Off(h)' <=> Off(h)
      BY <2>0, <3>4, SameOff
    <3>6. SenseInv'
      BY <1>0, <2>0, <3>2, <3>3 DEF SenseInv
    <3>7. WorkInv'
      <4>1. Clear' => ~EdgeOff(f, op.key)'
        BY <1>0, <2>0, <3>2, <3>3, <3>4 DEF SenseInv, WorkInv, EdgeOff
      <4> QED BY <1>0, <2>0, <3>2, <3>3, <3>4, <4>1 DEF WorkInv, LinkOff, EdgeOff
    <3> QED BY <1>0, <2>0, <3>1, <3>2, <3>5, <3>6, <3>7 DEF TaintInv, MarkInv, PlanInv
  <2> QED BY <1>5, <2>1, <2>2 DEF SyncEdge
<1>6. CASE Disarm
  <2>0. /\ UNCHANGED <<gotcha, file, edges, tainted, lost>> /\ pc = "disarm" /\ pc' = "closed"
        /\ marker' = marker \/ (op.ok /\ marker.keys = {op.key})
    BY <1>6 DEF Disarm, Disarmed, history
  <2>1. Clear => ~Off(op.key)
    BY <1>0, <2>0 DEF WorkInv, Off
  <2>2. TaintInv'
    BY <1>0, <1>s, <2>0, <2>1 DEF TaintInv, Clear
  <2>3. MarkInv'
    BY <1>0, <1>s, <2>0, <2>1 DEF MarkInv, Clear
  <2> QED BY <2>0, <2>2, <2>3 DEF PlanInv, SenseInv, WorkInv
<1>7. CASE Crash
  <2>0. /\ UNCHANGED <<gotcha, file, edges, marker>> /\ pc' = "closed" /\ pc # "closed"
        /\ tainted \subseteq tainted' /\ lost \subseteq lost'
        /\ pc # "put" => op.key \in tainted'
        /\ pc = "arm" => op.key \in marker.keys \cup lost'
    BY <1>7 DEF Crash, index, Escapes
  <2> QED BY <1>0, <1>s, <2>0 DEF TaintInv, MarkInv, PlanInv, SenseInv, WorkInv
<1> QED BY <1>1, <1>2, <1>3, <1>4, <1>5, <1>6, <1>7
-----------------------------------------------------------------------------
(* Reconciliation.                                                         *)

\* No pair that agrees with the records stops agreeing.
Mends == /\ gotcha' = gotcha
         /\ \A f \in Files, g \in Gotchas : /\ LinkOff(f, g)' => LinkOff(f, g)
                                            /\ EdgeOff(f, g)' => EdgeOff(f, g)

\* A full repair mends, whichever of its writes succeed.
LEMMA FullMends ==
  ASSUME IndexTypeOK, NEW okFiles, NEW okEdges, NEW done, RepairFull(okFiles, okEdges, done)
  PROVE  Mends
<1>1. gotcha' = gotcha
  BY DEF RepairFull
<1>2. ASSUME NEW f \in Files, NEW g \in Gotchas, LinkOff(f, g)' PROVE LinkOff(f, g)
  <2>1. g \in DesiredKeys(f) <=> f \in AffectedFiles(gotcha[g])
    BY PairDrift DEF DesiredKeys
  <2>2. file'[f] = file[f] \/ file'[f].keys = DesiredKeys(f)
    BY DEF RepairFull, IndexTypeOK, FileRec
  <2> QED BY <1>1, <1>2, <2>1, <2>2 DEF LinkOff
<1>3. ASSUME NEW f \in Files, NEW g \in Gotchas, EdgeOff(f, g)' PROVE EdgeOff(f, g)
  <2>1. <<f, g>> \in Desired <=> f \in AffectedFiles(gotcha[g])
    BY PairDrift
  <2>2. edges' = (edges \cup ((Desired \ edges) \cap okEdges)) \ ((edges \ Desired) \cap okEdges)
    BY DEF RepairFull
  <2> QED BY <1>1, <1>3, <2>1, <2>2 DEF EdgeOff
<1> QED BY <1>1, <1>2, <1>3 DEF Mends

\* So does a fast one.
LEMMA FastMends ==
  ASSUME IndexTypeOK, NEW okLinks, NEW okEdges, NEW done, RepairFast(okLinks, okEdges, done)
  PROVE  Mends
<1>1. gotcha' = gotcha
  BY DEF RepairFast
<1>2. ASSUME NEW f \in Files, NEW g \in Gotchas, LinkOff(f, g)' PROVE LinkOff(f, g)
  <2>1. g \in DesiredKeys(f) <=> f \in AffectedFiles(gotcha[g])
    BY PairDrift DEF DesiredKeys
  <2> DEFINE ok == {h \in marker.keys : <<f, h>> \in okLinks /\ file[f].exists}
  <2>2. file'[f].keys = (file[f].keys \ ok) \cup (DesiredKeys(f) \cap ok)
    BY DEF RepairFast, FastFile, IndexTypeOK, FileRec
  <2> HIDE DEF ok
  <2> QED BY <1>1, <1>2, <2>1, <2>2 DEF LinkOff
<1>3. ASSUME NEW f \in Files, NEW g \in Gotchas, EdgeOff(f, g)' PROVE EdgeOff(f, g)
  <2>1. <<f, g>> \in Desired <=> f \in AffectedFiles(gotcha[g])
    BY PairDrift
  <2>2. edges' = (edges \cup (FastAdds \cap okEdges)) \ (FastDeletes \cap okEdges)
    BY DEF RepairFast
  <2>3. FastAdds \subseteq Desired /\ FastDeletes \subseteq edges \ Desired
    BY DEF FastAdds, FastDeletes
  <2> QED BY <1>1, <1>3, <2>1, <2>2, <2>3 DEF EdgeOff
<1> QED BY <1>1, <1>2, <1>3 DEF Mends

\* And so does `mati init`.
LEMMA InitMends == ASSUME IndexTypeOK, NEW fs, InitFiles(fs) PROVE Mends
<1>1. gotcha' = gotcha /\ edges' = edges
  BY DEF InitFiles
<1>2. ASSUME NEW f \in Files, NEW g \in Gotchas, LinkOff(f, g)' PROVE LinkOff(f, g)
  <2>1. g \in DesiredKeys(f) <=> f \in AffectedFiles(gotcha[g])
    BY PairDrift DEF DesiredKeys
  <2>2. file'[f] = file[f] \/ file'[f].keys = DesiredKeys(f)
    BY DEF InitFiles
  <2> QED BY <1>1, <1>2, <2>1, <2>2 DEF LinkOff
<1> QED BY <1>1, <1>2 DEF Mends, EdgeOff

\* A drain with no failed write leaves off only what has no file record.
LEMMA DrainReaches ==
  ASSUME IndexTypeOK, RepairFast(AllPairs, AllPairs, TRUE),
         NEW g \in Gotchas, g \in marker.keys, Off(g)'
  PROVE  Unreached(g)
<1>1. PICK f \in Files : LinkOff(f, g)' \/ EdgeOff(f, g)'
  BY DEF Off
<1>2. <<f, g>> \in AllPairs /\ (<<f, g>> \in Desired <=> f \in AffectedFiles(gotcha[g]))
      /\ (g \in DesiredKeys(f) <=> f \in AffectedFiles(gotcha[g])) /\ gotcha' = gotcha
  BY PairDrift DEF AllPairs, DesiredKeys, RepairFast
<1>3. CASE LinkOff(f, g)'
  <2> DEFINE ok == {h \in marker.keys : <<f, h>> \in AllPairs /\ file[f].exists}
  <2>1. file'[f].keys = (file[f].keys \ ok) \cup (DesiredKeys(f) \cap ok)
    BY DEF RepairFast, FastFile, IndexTypeOK, FileRec
  <2>2. g \notin ok
    <3> HIDE DEF ok
    <3> QED BY <1>2, <1>3, <2>1 DEF LinkOff
  <2>3. ~file[f].exists
    BY <1>2, <2>2
  <2>4. g \notin file[f].keys
    BY <2>3 DEF IndexTypeOK
  <2>5. g \notin file'[f].keys
    BY <2>1, <2>2, <2>4
  <2> QED BY <1>2, <1>3, <2>3, <2>5 DEF LinkOff, Unreached
<1>4. CASE EdgeOff(f, g)'
  <2>1. edges' = (edges \cup (FastAdds \cap AllPairs)) \ (FastDeletes \cap AllPairs)
    BY DEF RepairFast
  <2>2. <<f, g>> \in Desired => <<f, g>> \in FastAdds
    BY DEF FastAdds
  <2>3. <<f, g>> \in edges \ Desired /\ file[f].exists => <<f, g>> \in FastDeletes
    BY DEF FastDeletes
  <2>4. FastAdds \subseteq Desired /\ FastDeletes \subseteq edges \ Desired
    BY DEF FastAdds, FastDeletes
  <2> QED BY <1>2, <1>4, <2>1, <2>2, <2>3, <2>4 DEF EdgeOff, Unreached
<1> QED BY <1>1, <1>3, <1>4

\* Reconciliation keeps the invariant.
LEMMA ReconcileStep ==
  ASSUME IInv, Repair \/ Drain \/ MatiInit, IndexTypeOK'
  PROVE  (TaintInv /\ MarkInv /\ PlanInv /\ SenseInv /\ WorkInv)' /\ Mends
<1>0. IndexTypeOK /\ TaintInv /\ MarkInv /\ pc = "closed" /\ pc' = "closed"
  BY DEF IInv, TypeOK, Repair, Drain, MatiInit
<1>1. Mends
  BY <1>0, FullMends, FastMends, InitMends DEF Repair, Drain, MatiInit
<1>2. \A g \in Gotchas : Off(g)' => Off(g)
  BY <1>1 DEF Mends, Off
<1>3. PlanInv' /\ SenseInv' /\ WorkInv'
  BY <1>0 DEF PlanInv, SenseInv, WorkInv
<1>4. CASE Repair
  <2>1. PICK okFiles \in SUBSET Files, okEdges \in SUBSET AllPairs, done \in BOOLEAN :
           RepairFull(okFiles, okEdges, done)
    BY <1>4 DEF Repair
  <2>2. CASE HasDrift'
    <3>1. UNCHANGED <<tainted, lost, marker>>
      BY <1>4, <2>1, <2>2 DEF Repair, RepairFull, history
    <3> QED BY <1>0, <1>1, <1>2, <1>3, <3>1 DEF TaintInv, MarkInv
  <2>3. CASE ~HasDrift'
    <3>1. \A g \in Gotchas : ~Off(g)'
      <4>1. IndexTypeOK' => (\A g : g \in Drifted <=> g \in Gotchas /\ Off(g))'
        BY OffDrift, PTL
      <4>2. Drifted' = {}
        BY <2>3 DEF HasDrift, Drifted
      <4> QED BY <4>1, <4>2
    <3> QED BY <1>0, <1>1, <1>3, <3>1 DEF TaintInv, MarkInv
  <2> QED BY <2>2, <2>3
<1>5. CASE Drain
  <2>1. tainted' = tainted /\ lost \subseteq lost'
    BY <1>5 DEF Drain, Escapes
  <2>2. ASSUME NEW g \in Gotchas, Off(g)', g \in marker.keys, g \notin marker'.keys
        PROVE  g \in lost'
    <3>1. CASE RepairFast(AllPairs, AllPairs, TRUE)
               /\ Escapes({h \in marker.keys \ marker'.keys : Unreached(h)})
      <4>1. Unreached(g)
        BY <1>0, <2>2, <3>1, DrainReaches
      <4> QED BY <2>2, <3>1, <4>1 DEF Escapes
    <3>2. CASE Escapes(marker.keys \ marker'.keys)
      BY <2>2, <3>2 DEF Escapes
    <3> QED BY <1>5, <3>1, <3>2 DEF Drain
  <2>3. MarkInv'
    BY <1>0, <1>2, <2>1, <2>2 DEF MarkInv
  <2> QED BY <1>0, <1>1, <1>2, <1>3, <2>1, <2>3 DEF TaintInv
<1>6. CASE MatiInit
  <2>1. UNCHANGED <<tainted, lost, marker>>
    BY <1>6 DEF MatiInit, InitFiles, history
  <2> QED BY <1>0, <1>1, <1>2, <1>3, <2>1 DEF TaintInv, MarkInv
<1> QED BY <1>4, <1>5, <1>6

\* Every step keeps the invariant.
LEMMA NextStep == IInv /\ [Next]_vars => IInv'
<1> SUFFICES ASSUME IInv, [Next]_vars PROVE IInv'
  OBVIOUS
<1> DEFINE Rest == (TaintInv /\ MarkInv /\ PlanInv /\ SenseInv /\ WorkInv)'
<1>t. TypeOK' /\ IndexTypeOK'
  BY NextTypes DEF IInv, TypeOK
<1>r. \A g \in Gotchas : /\ gotcha[g] \in GotchaRec /\ gotcha[g].files \in SUBSET Files
                         /\ gotcha[g].life \in Lives
  BY DEF IInv, TypeOK, IndexTypeOK, GotchaRec
<1>1. ASSUME NEW g \in Gotchas, NEW new \in SUBSET Files, GotchaAdd(g, new) PROVE Rest
  <2> DEFINE rec == [life |-> "active", files |-> new]
  <2>1. rec \in GotchaRec /\ AffectedFiles(rec) = new /\ rec.life = "active"
        /\ AffectedFiles(gotcha[g]) = {} /\ {} \in SUBSET Files
    BY <1>1 DEF GotchaRec, Lives, AffectedFiles, GotchaAdd
  <2>2. Start(g, rec, {}, new)
    BY <1>1 DEF GotchaAdd
  <2> HIDE DEF rec
  <2> QED BY <2>1, <2>2, StartStep
<1>2. ASSUME NEW g \in Gotchas, NEW new \in SUBSET Files, GotchaEdit(g, new) PROVE Rest
  <2> DEFINE rec == [gotcha[g] EXCEPT !.files = new]
             old == gotcha[g].files
  <2>1. rec \in GotchaRec /\ rec.files = new /\ rec.life = gotcha[g].life
        /\ rec.life \in {"active", "tombstoned"} /\ old \in SUBSET Files
    BY <1>2, <1>r DEF GotchaRec, Lives, GotchaEdit
  <2>2. Start(g, rec, old, new)
    BY <1>2 DEF GotchaEdit
  <2>3. AffectedFiles(gotcha[g]) = IF rec.life = "active" THEN old ELSE {}
    BY <2>1 DEF AffectedFiles
  <2>4. AffectedFiles(rec) = IF rec.life = "active" THEN new ELSE {}
    BY <2>1 DEF AffectedFiles
  <2> HIDE DEF rec, old
  <2> QED BY <2>1, <2>2, <2>3, <2>4, StartStep
<1>3. ASSUME NEW g \in Gotchas, GotchaDelete(g) PROVE Rest
  <2> DEFINE rec == [gotcha[g] EXCEPT !.life = "tombstoned"]
             old == gotcha[g].files
  <2>1. rec \in GotchaRec /\ rec.life = "tombstoned" /\ old \in SUBSET Files
        /\ {} \in SUBSET Files
    BY <1>r DEF GotchaRec, Lives
  <2>2. Start(g, rec, old, {})
    BY <1>3 DEF GotchaDelete
  <2>3. AffectedFiles(gotcha[g]) \subseteq old /\ AffectedFiles(rec) = {}
    BY <2>1 DEF AffectedFiles
  <2> HIDE DEF rec, old
  <2> QED BY <2>1, <2>2, <2>3, StartStep
<1>4. ASSUME NEW g \in Gotchas, GotchaConfirm(g) PROVE Rest
  <2>1. Start(g, gotcha[g], {}, gotcha[g].files) /\ {} \in SUBSET Files
        /\ AffectedFiles(gotcha[g]) = gotcha[g].files
    BY <1>4 DEF GotchaConfirm, AffectedFiles
  <2> QED BY <1>r, <2>1, StartStep
<1>5. ASSUME \/ PutRecord \/ PreArm \/ (\E f \in Files : SyncLink(f)) \/ LinksDone
             \/ (\E f \in Files : SyncEdge(f)) \/ EdgesDone \/ Disarm \/ Crash
      PROVE  Rest
  BY <1>5, CommandStep
<1>6. ASSUME Repair \/ Drain \/ MatiInit PROVE Rest
  BY <1>t, <1>6, ReconcileStep
<1>7. ASSUME UNCHANGED vars PROVE Rest
  <2>1. UNCHANGED <<gotcha, file, edges, marker, pc, op, tainted, lost>>
    BY <1>7 DEF vars, index, history
  <2>2. TaintInv /\ MarkInv /\ PlanInv /\ SenseInv /\ WorkInv
    BY DEF IInv
  <2>3. TaintInv' /\ MarkInv'
    BY <2>1, <2>2 DEF TaintInv, MarkInv, Off, LinkOff, EdgeOff
  <2>4. PlanInv' /\ SenseInv' /\ WorkInv'
    BY <2>1, <2>2 DEF PlanInv, SenseInv, WorkInv, Clear, Off, LinkOff, EdgeOff
  <2> QED BY <2>3, <2>4
<1>8. Rest
  BY <1>1, <1>2, <1>3, <1>4, <1>5, <1>6, <1>7 DEF Next
<1> QED BY <1>t, <1>8 DEF IInv
-----------------------------------------------------------------------------
(* The theorems.                                                           *)

\* Initially nothing is linked and no command runs.
LEMMA InitHolds == Init => IInv
<1> SUFFICES ASSUME Init PROVE IInv
  OBVIOUS
<1>1. (CHOOSE g \in Gotchas : TRUE) \in Gotchas /\ NoGotcha \in GotchaRec
      /\ {} \in SUBSET Files
  BY SomeGotcha DEF NoGotcha, GotchaRec, Lives
<1>2. op \in Op
  BY <1>1, OpTypes DEF Init
<1>3. IndexTypeOK
  BY <1>1 DEF Init, IndexInit, IndexTypeOK, FileRec, Marker, Clean
<1>4. TypeOK
  BY <1>2, <1>3, BoundAssumption DEF Init, TypeOK, PCs
<1>5. \A g \in Gotchas : ~Off(g)
  <2>1. /\ \A g \in Gotchas : AffectedFiles(gotcha[g]) = {}
        /\ \A f \in Files : file[f].keys = {}
        /\ edges = {}
    BY DEF Init, IndexInit, AffectedFiles, NoGotcha
  <2> QED BY <2>1 DEF Off, LinkOff, EdgeOff
<1> QED BY <1>4, <1>5 DEF Init, IInv, TaintInv, MarkInv, PlanInv, SenseInv, WorkInv

\* The strengthened invariant.
LEMMA Inductive == Spec => []IInv
BY InitHolds, NextStep, PTL DEF Spec

\* Between commands a gotcha whose mutations all ran to the end with no failed
\* write has both indexes exact, for any other commands, kills, failures and
\* repairs (apply_gotcha_write, _tombstone and _confirm).
THEOREM CompleteOpsCorrect == Spec => []CompleteOpsExact
<1>1. IInv => CompleteOpsExact
  BY OffDrift DEF IInv, TypeOK, TaintInv, CompleteOpsExact
<1> QED BY <1>1, Inductive, PTL

\* Drift is on the dirty marker outside the window between a record and its
\* marker, but for the keys that escaped (the pre-arm guard of gotcha_ops.rs).
THEOREM MarkerCorrect == Spec => []DriftMarked
<1>1. IInv => DriftMarked
  BY OffDrift DEF IInv, TypeOK, MarkInv, DriftMarked
<1> QED BY <1>1, Inductive, PTL

\* No repair, complete or cut short, and no `mati init` undoes a link or an
\* edge that agreed with the records.
THEOREM RepairCorrect == Spec => RepairMonotone
<1>1. IInv /\ [Next]_vars =>
        [ pc = "closed" /\ pc' = "closed" =>
            LinkDrift' \subseteq LinkDrift /\ EdgeDrift' \subseteq EdgeDrift ]_vars
  <2> SUFFICES ASSUME IInv, Next, pc = "closed", pc' = "closed"
               PROVE  LinkDrift' \subseteq LinkDrift /\ EdgeDrift' \subseteq EdgeDrift
    BY DEF vars
  <2>1. Repair \/ Drain \/ MatiInit
    BY DEF Next, GotchaAdd, GotchaEdit, GotchaDelete, GotchaConfirm, Start, PutRecord,
           PreArm, SyncLink, LinksDone, SyncEdge, EdgesDone, Disarm, Crash
  <2>2. IndexTypeOK /\ IndexTypeOK'
    BY NextTypes DEF IInv, TypeOK
  <2>3. Mends
    BY <2>1, <2>2, ReconcileStep
  <2>p. IndexTypeOK' =>
          (/\ \A f \in Files, g \in Gotchas :
                 /\ <<f, g>> \in LinkDrift <=> LinkOff(f, g)
                 /\ <<f, g>> \in EdgeDrift <=> EdgeOff(f, g)
                 /\ <<f, g>> \in Desired <=> f \in AffectedFiles(gotcha[g])
           /\ LinkDrift \subseteq Files \X Gotchas /\ EdgeDrift \subseteq Files \X Gotchas)'
    BY PairDrift, PTL
  <2>4. /\ \A f \in Files, g \in Gotchas : /\ (<<f, g>> \in LinkDrift)' <=> LinkOff(f, g)'
                                           /\ (<<f, g>> \in EdgeDrift)' <=> EdgeOff(f, g)'
        /\ (LinkDrift \subseteq Files \X Gotchas)' /\ (EdgeDrift \subseteq Files \X Gotchas)'
    BY <2>2, <2>p
  <2>5. ASSUME NEW p \in LinkDrift' PROVE p \in LinkDrift
    <3>1. PICK f \in Files, g \in Gotchas : p = <<f, g>>
      BY <2>4, <2>5
    <3> QED BY <2>2, <2>3, <2>4, <2>5, <3>1, PairDrift DEF Mends
  <2>6. ASSUME NEW p \in EdgeDrift' PROVE p \in EdgeDrift
    <3>1. PICK f \in Files, g \in Gotchas : p = <<f, g>>
      BY <2>4, <2>6
    <3> QED BY <2>2, <2>3, <2>4, <2>6, <3>1, PairDrift DEF Mends
  <2> QED BY <2>5, <2>6
<1> QED BY <1>1, Inductive, PTL DEF Spec, RepairMonotone
=============================================================================

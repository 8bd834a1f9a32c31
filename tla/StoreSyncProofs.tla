--------------------------- MODULE StoreSyncProofs ---------------------------
(***************************************************************************)
(* Proofs about StoreSync, for any keys, namespaces, writers and faults.   *)
(***************************************************************************)
EXTENDS StoreSync, TLAPS

\* Only the process that holds the store works on it, and it opens the index
\* lazily.
Alone == owner = "none" => AllIdle /\ rb = NotRebuilding /\ ~ready

\* A rebuild comes before the daemon serves anybody.
RebuildAlone == rb < NotRebuilding => owner = "daemon" /\ AllIdle /\ staged = {}

\* A writer at work has keys, and one that trusts the fence finds it up.
WriterInv == \A w \in Writers :
    /\ wr[w].pc # "idle" => wr[w].keys # {}
    /\ wr[w].pc \in {"idle", "fence"} => ~wr[w].fenced
    /\ wr[w].fenced => fence

\* What is owed has a marker that calls for it, and a rebuild pays it.
OwedInv ==
    /\ owed # {} => fence \/ stale
    /\ rb < NotRebuilding =>
          \A k \in owed : kv[k] # 0 /\ \A j \in 1 .. rb - 1 : k \notin Namespaces[j]

\* A commit of k that has not reached the index yet.
Underway(k) ==
    \E w \in Writers : wr[w].pc \in {"fence", "index"} /\ k \in wr[w].keys

\* Every document is what the store holds, or it is known why not.
CoverInv == \A k \in Keys :
    doc[k] = Expected(k) \/ k \in drift \/ k \in owed \/ Underway(k)

\* A rebuild starts from an empty index and has done the namespaces before rb.
Rebuilt(r) ==
    \A k \in Keys \ Shadowed :
        doc[k] = IF \E j \in 1 .. r - 1 : k \in Namespaces[j]
                   THEN Expected(k) ELSE 0
RebuiltInv == rb < NotRebuilding => Rebuilt(rb)

\* A saved report is as old as its tag: no later commit left the sequence at
\* the tag, unless its bump is still to come.
Fresh(c) == c.any /\ ~torn =>
    /\ c.tag <= seq
    /\ \A w \in Writers : wr[w].pc = "bumped" => c.tag <= wr[w].seen
    /\ \/ c.view = kv \/ c.tag < seq \/ skipped
       \/ \E w \in Writers : wr[w].pc \in {"fence", "index", "bump", "bumped"}

IInv ==
    /\ TypeOK /\ Alone /\ RebuildAlone /\ WriterInv /\ OwedInv
    /\ CoverInv /\ RebuiltInv /\ Fresh(cache) /\ Fresh(pending)
-----------------------------------------------------------------------------
(* Types.                                                                  *)

\* put, delete, put_batch, transact_knowledge and put_batch_kv_only differ in
\* what they leave to do: the fence and the index, or the bump alone.
Commits(w) ==
    \E keys \in (SUBSET Keys) \ {{}}, del \in BOOLEAN, ver \in Versions :
        \/ Begin(w, keys, del, ver, "fence") /\ UNCHANGED drift
        \/ Begin(w, keys, del, ver, "bump") /\ drift' = drift \cup keys

\* put_batch whose second transaction fails.
HalfBatch(w) ==
    \E keys \in (SUBSET Keys) \ {{}} :
       /\ MayStart(w) /\ writes < MaxWrites /\ Fails
       /\ writes' = writes + 1
       /\ kv' = [k \in Keys |-> IF k \in keys THEN writes + 1 ELSE kv[k]]
       /\ drift' = drift \cup keys /\ skipped' = TRUE
       /\ UNCHANGED <<doc, dir, fence, stale, seq, cache, memory, crashes, owed, torn>>

\* The steps of a writer that has committed.
Follows(w) ==
    \/ WriteFence(w) \/ IndexOk(w) \/ IndexError(w) \/ IndexUnavailable(w)
    \/ BumpRead(w) \/ BumpWrite(w) \/ ClearFence(w)

\* Every step of a writer is one of these.
LEMMA WriterCases ==
  ASSUME TypeOK, NEW w \in Writers, WriterNext(w)
  PROVE  Commits(w) \/ HalfBatch(w) \/ Follows(w)
<1>0. writes \in Nat /\ MaxWrites \in Nat /\ 0 \in Versions
      /\ (writes < MaxWrites => writes + 1 \in Versions)
  BY SyncBounds DEF TypeOK, Versions
<1>1. ASSUME NEW k \in Keys, Put(w, k) PROVE Commits(w)
  <2>1. {k} \in (SUBSET Keys) \ {{}} /\ writes + 1 \in Versions
    BY <1>0, <1>1 DEF Put, Begin
  <2>2. Begin(w, {k}, FALSE, writes + 1, "fence") /\ UNCHANGED drift
    BY <1>1 DEF Put
  <2> QED BY <2>1, <2>2 DEF Commits
<1>2. ASSUME NEW k \in Keys, Delete(w, k) PROVE Commits(w)
  <2>1. {k} \in (SUBSET Keys) \ {{}}
    OBVIOUS
  <2>2. Begin(w, {k}, TRUE, 0, "fence") /\ UNCHANGED drift
    BY <1>2 DEF Delete
  <2> QED BY <1>0, <2>1, <2>2 DEF Commits
<1>3. ASSUME NEW keys \in (SUBSET Keys) \ {{}},
             PutBatch(w, keys) \/ TransactKnowledge(w, keys) \/ PutBatchKvOnly(w, keys)
      PROVE  Commits(w) \/ HalfBatch(w)
  <2>1. CASE Begin(w, keys, FALSE, writes + 1, "fence") /\ UNCHANGED drift
    <3>1. writes + 1 \in Versions
      BY <1>0, <2>1 DEF Begin
    <3> QED BY <2>1, <3>1 DEF Commits
  <2>2. CASE Begin(w, keys, FALSE, writes + 1, "bump") /\ drift' = drift \cup keys
    <3>1. writes + 1 \in Versions
      BY <1>0, <2>2 DEF Begin
    <3> QED BY <2>2, <3>1 DEF Commits
  <2> QED BY <1>3, <2>1, <2>2 DEF PutBatch, TransactKnowledge, PutBatchKvOnly, HalfBatch
<1> QED BY <1>1, <1>2, <1>3 DEF WriterNext, Follows

\* The records the model starts from.
LEMMA EmptyTypes == Idle \in Writer /\ NoReport \in Saved /\ NotRebuilding \in 1..NotRebuilding
<1>1. 0 \in Versions /\ MaxWrites \in Nat
  BY SyncBounds DEF Versions
<1>2. Len(Namespaces) \in Nat
  BY KeyAssumption
<1> QED BY <1>1, <1>2 DEF Idle, Writer, PCs, NoReport, Saved, NotRebuilding

\* A commit of the index keeps versions, and drops keys of the store only.
LEMMA CommitTypes ==
  ASSUME staged \subseteq Keys, NEW keys \in SUBSET Keys,
         NEW d \in [Keys -> Versions], NEW v \in [Keys -> Versions]
  PROVE  /\ Committed(d, keys, v) \in [Keys -> Versions]
         /\ Victims(keys) \subseteq Keys /\ Dropped(d, keys) \subseteq Keys
<1>1. 0 \in Versions
  BY SyncBounds DEF Versions
<1>2. Victims(keys) \subseteq Keys
  BY KeyAssumption DEF Victims
<1> QED BY <1>1, <1>2 DEF Committed, Dropped

\* What is expected, and an index as it is opened, are versions.
LEMMA OpenTypes ==
  ASSUME TypeOK
  PROVE  /\ [k \in Keys |-> Expected(k)] \in [Keys -> Versions]
         /\ [k \in Keys |-> 0] \in [Keys -> Versions]
         /\ OpenedDoc \in [Keys -> Versions] /\ WipedDrift \subseteq Keys
<1>1. 0 \in Versions
  BY SyncBounds DEF Versions
<1> QED BY <1>1 DEF TypeOK, Expected, OpenedDoc, WipedDrift

\* A writer's step changes its own place and flags.
LEMMA WriterSteps ==
  ASSUME TypeOK, NEW w \in Writers
  PROVE  /\ \A p \in PCs, b \in BOOLEAN :
               [wr EXCEPT ![w].pc = p, ![w].synced = b] \in [Writers -> Writer]
         /\ \A p \in PCs, b \in BOOLEAN :
               [wr EXCEPT ![w].pc = p, ![w].fenced = b] \in [Writers -> Writer]
         /\ \A p \in PCs, n \in Nat :
               [wr EXCEPT ![w].pc = p, ![w].seen = n] \in [Writers -> Writer]
         /\ \A p \in PCs : [wr EXCEPT ![w].pc = p] \in [Writers -> Writer]
         /\ [wr EXCEPT ![w] = Idle] \in [Writers -> Writer]
<1>1. wr \in [Writers -> Writer] /\ wr[w] \in Writer /\ Idle \in Writer
  BY EmptyTypes DEF TypeOK
<1>2. /\ \A p \in PCs, b \in BOOLEAN : [wr[w] EXCEPT !.pc = p, !.synced = b] \in Writer
      /\ \A p \in PCs, b \in BOOLEAN : [wr[w] EXCEPT !.pc = p, !.fenced = b] \in Writer
      /\ \A p \in PCs, n \in Nat : [wr[w] EXCEPT !.pc = p, !.seen = n] \in Writer
      /\ \A p \in PCs : [wr[w] EXCEPT !.pc = p] \in Writer
  BY <1>1 DEF Writer
<1> QED BY <1>1, <1>2

\* A failure is counted.
LEMMA FailCounts == ASSUME TypeOK, Fails PROVE fails' \in 0..MaxFails
  BY SyncBounds DEF TypeOK, Fails

\* A step of a writer keeps the types.
LEMMA WriterTypes ==
  ASSUME TypeOK, NEW w \in Writers, WriterNext(w)
  PROVE  TypeOK'
<1>b. MaxWrites \in Nat /\ MaxFails \in Nat
  BY SyncBounds
<1>1. ASSUME Commits(w) PROVE TypeOK'
  <2>1. PICK keys \in SUBSET Keys, del \in BOOLEAN, ver \in Versions, pc \in {"fence", "bump"} :
           Begin(w, keys, del, ver, pc) /\ drift' \in {drift, drift \cup keys}
    BY <1>1 DEF Commits
  <2>2. [Idle EXCEPT !.pc = pc, !.del = del, !.keys = keys, !.ver = ver] \in Writer
    BY EmptyTypes DEF Writer, PCs
  <2>3. wr' \in [Writers -> Writer] /\ kv' \in [Keys -> Versions]
    BY <2>1, <2>2 DEF Begin, TypeOK
  <2>4. writes' \in 0..MaxWrites
    BY <1>b, <2>1 DEF Begin, TypeOK
  <2> QED BY <2>1, <2>3, <2>4 DEF Begin, TypeOK
<1>2. ASSUME HalfBatch(w) PROVE TypeOK'
  <2>1. PICK keys \in SUBSET Keys :
           /\ kv' = [k \in Keys |-> IF k \in keys THEN writes + 1 ELSE kv[k]]
           /\ drift' = drift \cup keys
    BY <1>2 DEF HalfBatch
  <2>2. writes + 1 \in Versions /\ writes' \in 0..MaxWrites /\ fails' \in 0..MaxFails
    BY <1>2, <1>b DEF HalfBatch, Versions, Fails, TypeOK
  <2>3. kv' \in [Keys -> Versions]
    BY <2>1, <2>2 DEF TypeOK
  <2> QED BY <1>2, <2>1, <2>2, <2>3 DEF HalfBatch, memory, TypeOK
<1>3. ASSUME WriteFence(w) PROVE TypeOK'
  <2>0. fails' \in 0..MaxFails
    BY <1>3, FailCounts DEF WriteFence, TypeOK
  <2>1. fence' \in BOOLEAN
    BY <1>3 DEF WriteFence, TypeOK
  <2>2. wr' \in [Writers -> Writer]
    BY <1>3, <2>1, WriterSteps DEF WriteFence, PCs
  <2> QED BY <1>3, <2>0, <2>1, <2>2 DEF WriteFence, history, TypeOK
<1>4. ASSUME IndexOk(w) PROVE TypeOK'
  <2> DEFINE val == [k \in Keys |-> IF k \in Unsearchable THEN 0 ELSE wr[w].ver]
             old == {k \in wr[w].keys : kv[k] # wr[w].ver}
  <2>1. wr[w].keys \in SUBSET Keys /\ val \in [Keys -> Versions] /\ staged \subseteq Keys
    BY SyncBounds DEF TypeOK, Writer, Versions
  <2>2. OpenedDoc \in [Keys -> Versions] /\ WipedDrift \subseteq Keys
    BY OpenTypes
  <2>3. /\ doc' = Committed(OpenedDoc, wr[w].keys, val)
        /\ drift' = (((WipedDrift \cup Dropped(OpenedDoc, wr[w].keys)) \ wr[w].keys) \cup old)
        /\ owed' = owed \ (wr[w].keys \ old)
    BY <1>4 DEF IndexOk
  <2>4. doc' \in [Keys -> Versions] /\ drift' \subseteq Keys
    <3> HIDE DEF val
    <3>1. doc' \in [Keys -> Versions] /\ Dropped(OpenedDoc, wr[w].keys) \subseteq Keys
      BY <2>1, <2>2, <2>3, CommitTypes
    <3> QED BY <2>1, <2>2, <2>3, <3>1
  <2>5. wr' \in [Writers -> Writer]
    BY <1>4, WriterSteps DEF IndexOk, Step, PCs
  <2> QED BY <1>4, <2>3, <2>4, <2>5 DEF IndexOk, bounds, TypeOK
<1>5. ASSUME IndexError(w) PROVE TypeOK'
  <2>1. wr[w].keys \in SUBSET Keys /\ WipedDrift \subseteq Keys /\ doc' \in [Keys -> Versions]
    BY <1>5, OpenTypes DEF IndexError, TypeOK, Writer
  <2>2. owed' \subseteq Keys /\ drift' \subseteq Keys
    BY <1>5, <2>1 DEF IndexError, Missed, TypeOK
  <2>3. staged' \subseteq Keys
    <3>1. Victims(wr[w].keys) \subseteq Keys
      BY <2>1, KeyAssumption DEF Victims, TypeOK
    <3> QED BY <1>5, <3>1 DEF IndexError, TypeOK
  <2>4. wr' \in [Writers -> Writer]
    <3>1. /\ [wr EXCEPT ![w] = Idle] \in [Writers -> Writer]
          /\ [wr EXCEPT ![w].pc = "bump", ![w].synced = FALSE] \in [Writers -> Writer]
      BY WriterSteps DEF PCs
    <3>2. \/ wr' = [wr EXCEPT ![w] = Idle]
          \/ wr' = [wr EXCEPT ![w].pc = "bump", ![w].synced = FALSE]
      BY <1>5 DEF IndexError, Step
    <3> QED BY <3>1, <3>2
  <2>5. fails' \in 0..MaxFails
    BY <1>5, FailCounts DEF IndexError
  <2>6. skipped' \in BOOLEAN
    BY <1>5 DEF IndexError, TypeOK
  <2> QED BY <1>5, <2>1, <2>2, <2>3, <2>4, <2>5, <2>6 DEF IndexError, TypeOK
<1>6. ASSUME IndexUnavailable(w) PROVE TypeOK'
  <2>1. owed' \subseteq Keys /\ drift' \subseteq Keys
    BY <1>6 DEF IndexUnavailable, Missed, TypeOK, Writer
  <2>2. wr' \in [Writers -> Writer]
    BY <1>6, WriterSteps DEF IndexUnavailable, Step, PCs
  <2>3. fails' \in 0..MaxFails
    BY <1>6, <1>b DEF IndexUnavailable, Fails, TypeOK
  <2> QED BY <1>6, <2>1, <2>2, <2>3 DEF IndexUnavailable, disk, TypeOK
<1>7. ASSUME BumpRead(w) PROVE TypeOK'
  <2>1. wr' \in [Writers -> Writer]
    <3>1. seq \in Nat /\ 0 \in Nat /\ "bumped" \in PCs
      BY DEF TypeOK, PCs
    <3> QED BY <1>7, <3>1, WriterSteps DEF BumpRead
  <2>2. fails' \in 0..MaxFails /\ torn' \in BOOLEAN
    BY <1>7, FailCounts DEF BumpRead, TypeOK
  <2> QED BY <1>7, <2>1, <2>2 DEF BumpRead, disk, TypeOK
<1>8. ASSUME BumpWrite(w) PROVE TypeOK'
  <2>1. wr' \in [Writers -> Writer]
    BY <1>8, WriterSteps DEF BumpWrite, PCs
  <2>2. seq' \in Nat
    BY <1>8 DEF BumpWrite, TypeOK, Writer
  <2>3. fails' \in 0..MaxFails /\ torn' \in BOOLEAN /\ skipped' \in BOOLEAN
    BY <1>8, FailCounts DEF BumpWrite, TypeOK
  <2> QED BY <1>8, <2>1, <2>2, <2>3 DEF BumpWrite, TypeOK
<1>9. ASSUME ClearFence(w) PROVE TypeOK'
  <2>1. Idle \in Writer /\ \A v \in Writers : [wr[v] EXCEPT !.fenced = FALSE] \in Writer
    BY EmptyTypes DEF TypeOK, Writer
  <2>2. wr' \in [Writers -> Writer]
    BY <1>9, <2>1, WriterSteps DEF ClearFence
  <2> QED BY <1>9, <2>2 DEF ClearFence, bounds, TypeOK
<1> QED
  BY WriterCases, <1>1, <1>2, <1>3, <1>4, <1>5, <1>6, <1>7, <1>8, <1>9 DEF Follows

\* Every step keeps the types.
LEMMA NextTypes == TypeOK /\ [Next]_vars => TypeOK'
<1> SUFFICES ASSUME TypeOK, [Next]_vars PROVE TypeOK'
  OBVIOUS
<1>z. /\ [k \in Keys |-> 0] \in [Keys -> Versions]
      /\ OpenedDoc \in [Keys -> Versions] /\ WipedDrift \subseteq Keys
      /\ 1 \in 1..NotRebuilding /\ NotRebuilding \in 1..NotRebuilding /\ NotRebuilding \in Nat
  <2>1. Len(Namespaces) \in Nat
    BY KeyAssumption
  <2> QED BY <2>1, OpenTypes DEF NotRebuilding
<1>1. ASSUME NEW who \in {"command", "daemon"}, Open(who) PROVE TypeOK'
  BY <1>1 DEF Open, disk, bounds, history, TypeOK
<1>2. CASE OpenAndRebuild
  <2>1. doc' \in [Keys -> Versions] /\ drift' \subseteq Keys /\ owed' \subseteq Keys
        /\ rb' \in 1..NotRebuilding
    BY <1>2, <1>z DEF OpenAndRebuild, TypeOK
  <2> QED BY <1>2, <2>1 DEF OpenAndRebuild, bounds, TypeOK
<1>3. CASE RebuildNamespace
  <2> DEFINE keys == {k \in Namespaces[rb] : kv[k] # 0}
             val  == [k \in Keys |-> Expected(k)]
  <2>1. keys \in SUBSET Keys /\ rb + 1 \in 1..NotRebuilding
    <3>1. rb \in 1..Len(Namespaces) /\ rb + 1 \in 1..NotRebuilding
      BY <1>3, KeyAssumption DEF RebuildNamespace, TypeOK, NotRebuilding
    <3>2. Namespaces[rb] \in SUBSET Keys
      BY <3>1, KeyAssumption
    <3> QED BY <3>1, <3>2
  <2>2. val \in [Keys -> Versions]
    BY OpenTypes
  <2>3. doc' = Committed(doc, keys, val) /\ drift' = (drift \ keys) \cup Dropped(doc, keys)
        /\ owed' = owed \ keys /\ rb' = rb + 1
    BY <1>3 DEF RebuildNamespace
  <2> HIDE DEF keys, val
  <2>4. doc' \in [Keys -> Versions] /\ Dropped(doc, keys) \subseteq Keys
    BY <2>1, <2>2, <2>3, CommitTypes DEF TypeOK
  <2> QED BY <1>3, <2>1, <2>3, <2>4 DEF RebuildNamespace, bounds, TypeOK
<1>4. CASE Close
  <2>1. {} \in SUBSET Keys /\ Committed(doc, {}, doc) \in [Keys -> Versions]
        /\ Dropped(doc, {}) \subseteq Keys
    BY CommitTypes DEF TypeOK
  <2>2. doc' \in [Keys -> Versions] /\ drift' \subseteq Keys
    BY <1>4, <2>1 DEF Close, TypeOK
  <2> QED BY <1>4, <2>2 DEF Close, bounds, TypeOK
<1>5. ASSUME NEW w \in Writers, WriterNext(w) PROVE TypeOK'
  BY <1>5, WriterTypes
<1>6. CASE MarkSearchStale
  BY <1>6 DEF MarkSearchStale, memory, bounds, history, TypeOK
<1>7. CASE Report
  BY <1>7 DEF Report, memory, bounds, history, TypeOK, Saved
<1>8. CASE GapsScan
  BY <1>8 DEF GapsScan, disk, bounds, history, TypeOK, Saved
<1>9. CASE GapsStore
  BY <1>9, EmptyTypes DEF GapsStore, bounds, history, TypeOK
<1>10. CASE Crash
  <2>1. /\ \A v \in Writers : wr[v].keys \subseteq Keys
        /\ [v \in Writers |-> Idle] \in [Writers -> Writer]
    BY EmptyTypes DEF TypeOK, Writer
  <2>2. /\ Uncovered({"fence", "index"}) \subseteq Keys
        /\ InFlight({"index"}) \subseteq Keys
    BY <2>1 DEF Uncovered, InFlight
  <2>3. crashes' \in 0..MaxCrashes
    BY <1>10, SyncBounds DEF Crash, TypeOK
  <2>4. torn' \in BOOLEAN
    BY <1>10 DEF Crash, TypeOK
  <2>5. seq' \in Nat
    BY <1>10 DEF Crash, TypeOK
  <2>6. skipped' \in BOOLEAN
    BY <1>10 DEF Crash, TypeOK
  <2> QED BY <1>10, <1>z, <2>1, <2>2, <2>3, <2>4, <2>5, <2>6 DEF Crash, TypeOK
<1>11. CASE Corrupt
  BY <1>11, SyncBounds DEF Corrupt, memory, history, TypeOK
<1>12. CASE UNCHANGED vars
  BY <1>12 DEF vars, disk, memory, bounds, history, TypeOK
<1> QED
  BY <1>1, <1>2, <1>3, <1>4, <1>5, <1>6, <1>7, <1>8, <1>9, <1>10, <1>11, <1>12 DEF Next

\* The trees, the index, the markers, the writers of db.rs and the saved reports
\* keep their types, whatever fails or is killed between two steps.
THEOREM TypeCorrect == Spec => []TypeOK
<1>1. Init => TypeOK
  <2> SUFFICES ASSUME Init PROVE TypeOK
    OBVIOUS
  <2>1. 0 \in Versions /\ [k \in Keys |-> 0] \in [Keys -> Versions]
    BY SyncBounds DEF Versions
  <2>2. 0 \in 0..MaxWrites /\ 0 \in 0..MaxFails /\ 0 \in 0..MaxCrashes
    BY SyncBounds
  <2> QED BY <2>1, <2>2, EmptyTypes DEF Init, TypeOK
<1> QED BY <1>1, NextTypes, PTL DEF Spec

-----------------------------------------------------------------------------
(* Who is at work.                                                         *)

\* A step of a writer is a step of the process that holds the store, and of
\* one that is not rebuilding.
LEMMA WriterWorks ==
  ASSUME TypeOK, Alone, RebuildAlone, NEW w \in Writers, WriterNext(w)
  PROVE  /\ owner # "none" /\ owner' = owner
         /\ rb = NotRebuilding /\ rb' = rb /\ stale' = stale
<1>0. Len(Namespaces) \in Nat /\ rb \in 1..NotRebuilding
  BY KeyAssumption DEF TypeOK
<1>1. CASE Commits(w)
  BY <1>1 DEF Commits, Begin, MayStart
<1>2. CASE HalfBatch(w)
  BY <1>2 DEF HalfBatch, MayStart, memory
<1>3. CASE Follows(w)
  <2>1. ~AllIdle /\ owner' = owner /\ rb' = rb /\ stale' = stale
    BY <1>3 DEF Follows, WriteFence, IndexOk, IndexError, IndexUnavailable,
                BumpRead, BumpWrite, ClearFence, AllIdle, disk
  <2> QED BY <1>0, <2>1 DEF Alone, RebuildAlone, NotRebuilding
<1> QED BY WriterCases, <1>1, <1>2, <1>3

\* Without the lock of the store a process does nothing.
LEMMA AloneStep == TypeOK /\ Alone /\ RebuildAlone /\ [Next]_vars => Alone'
<1> SUFFICES ASSUME TypeOK, Alone, RebuildAlone, [Next]_vars PROVE Alone'
  OBVIOUS
<1>0. Len(Namespaces) \in Nat /\ rb \in 1..NotRebuilding
  BY KeyAssumption DEF TypeOK
<1>1. ASSUME NEW who \in {"command", "daemon"}, Open(who) PROVE Alone'
  BY <1>1 DEF Open, Alone
<1>2. CASE OpenAndRebuild
  BY <1>2 DEF OpenAndRebuild, Alone
<1>3. CASE RebuildNamespace
  BY <1>3 DEF RebuildNamespace, RebuildAlone, Alone
<1>4. CASE Close
  BY <1>4 DEF Close, Alone, AllIdle
<1>5. ASSUME NEW w \in Writers, WriterNext(w) PROVE Alone'
  BY <1>5, WriterWorks DEF Alone
<1>6. CASE MarkSearchStale \/ Report \/ GapsStore
  BY <1>6 DEF MarkSearchStale, Report, GapsStore, memory, Alone, AllIdle
<1>7. CASE GapsScan
  <2>1. rb = NotRebuilding
    BY <1>0, <1>7 DEF GapsScan, RebuildAlone, NotRebuilding
  <2> QED BY <1>7, <2>1 DEF GapsScan, Alone, AllIdle
<1>8. CASE Crash
  BY <1>8 DEF Crash, Alone, AllIdle, Idle
<1>9. CASE Corrupt \/ UNCHANGED vars
  BY <1>9 DEF Corrupt, vars, memory, Alone, AllIdle
<1> QED BY <1>1, <1>2, <1>3, <1>4, <1>5, <1>6, <1>7, <1>8, <1>9 DEF Next

\* A rebuild is the daemon's, before its first client.
LEMMA RebuildAloneStep == TypeOK /\ Alone /\ RebuildAlone /\ [Next]_vars => RebuildAlone'
<1> SUFFICES ASSUME TypeOK, Alone, RebuildAlone, [Next]_vars PROVE RebuildAlone'
  OBVIOUS
<1>0. Len(Namespaces) \in Nat /\ rb \in 1..NotRebuilding /\ ~(NotRebuilding < NotRebuilding)
  BY KeyAssumption DEF TypeOK, NotRebuilding
<1>1. ASSUME NEW who \in {"command", "daemon"}, Open(who) PROVE RebuildAlone'
  BY <1>0, <1>1 DEF Open, RebuildAlone, Alone
<1>2. CASE OpenAndRebuild
  BY <1>2 DEF OpenAndRebuild, RebuildAlone, Alone, AllIdle
<1>3. CASE RebuildNamespace
  BY <1>3 DEF RebuildNamespace, RebuildAlone, AllIdle
<1>4. CASE Close
  BY <1>0, <1>4 DEF Close, RebuildAlone
<1>5. ASSUME NEW w \in Writers, WriterNext(w) PROVE RebuildAlone'
  BY <1>0, <1>5, WriterWorks DEF RebuildAlone
<1>6. CASE MarkSearchStale \/ Report \/ GapsStore
  BY <1>6 DEF MarkSearchStale, Report, GapsStore, memory, RebuildAlone, AllIdle
<1>7. CASE GapsScan
  BY <1>7 DEF GapsScan, RebuildAlone
<1>8. CASE Crash
  BY <1>0, <1>8 DEF Crash, RebuildAlone
<1>9. CASE Corrupt \/ UNCHANGED vars
  BY <1>9 DEF Corrupt, vars, memory, RebuildAlone, AllIdle
<1> QED BY <1>1, <1>2, <1>3, <1>4, <1>5, <1>6, <1>7, <1>8, <1>9 DEF Next

\* What a writer's step does to the writers.
LEMMA WriterMoves ==
  ASSUME TypeOK, NEW w \in Writers, WriterNext(w)
  PROVE  /\ \A v \in Writers \ {w} :
               /\ wr'[v].pc = wr[v].pc /\ wr'[v].keys = wr[v].keys
               /\ wr'[v].seen = wr[v].seen
               /\ wr'[v].fenced => wr[v].fenced
<1>1. CASE Commits(w)
  BY <1>1 DEF Commits, Begin, TypeOK
<1>2. CASE HalfBatch(w)
  BY <1>2 DEF HalfBatch, memory
<1>3. CASE ClearFence(w)
  BY <1>3 DEF ClearFence, TypeOK, Writer
<1>4. CASE Follows(w) /\ ~ClearFence(w)
  BY <1>4 DEF Follows, WriteFence, IndexOk, IndexError, IndexUnavailable, Step,
              BumpRead, BumpWrite, TypeOK
<1> QED BY WriterCases, <1>1, <1>2, <1>3, <1>4 DEF Follows

\* A writer keeps its keys until it is done, and trusts the fence only while it
\* is up.
LEMMA WriterInvStep ==
  TypeOK /\ Alone /\ RebuildAlone /\ WriterInv /\ [Next]_vars => WriterInv'
<1> SUFFICES ASSUME TypeOK, Alone, RebuildAlone, WriterInv, [Next]_vars PROVE WriterInv'
  OBVIOUS
<1>1. ASSUME NEW who \in {"command", "daemon"}, Open(who) PROVE WriterInv'
  BY <1>1 DEF Open, disk, WriterInv
<1>2. CASE OpenAndRebuild
  BY <1>2 DEF OpenAndRebuild, WriterInv
<1>3. CASE RebuildNamespace
  <2>1. AllIdle
    BY <1>3 DEF RebuildNamespace, RebuildAlone
  <2> QED BY <1>3, <2>1 DEF RebuildNamespace, AllIdle, WriterInv
<1>4. CASE Close
  BY <1>4 DEF Close, WriterInv
<1>5. ASSUME NEW w \in Writers, WriterNext(w) PROVE WriterInv'
  <2>1. CASE Commits(w)
    <3>1. PICK keys \in (SUBSET Keys) \ {{}}, del \in BOOLEAN, ver \in Versions,
               pc \in {"fence", "bump"} : Begin(w, keys, del, ver, pc)
      BY <2>1 DEF Commits
    <3>2. wr'[w].pc = pc /\ wr'[w].keys = keys /\ ~wr'[w].fenced /\ fence' = fence
      BY <3>1 DEF Begin, Idle, TypeOK
    <3> QED BY <1>5, <3>2, WriterMoves DEF WriterInv
  <2>2. CASE HalfBatch(w)
    BY <2>2 DEF HalfBatch, memory, WriterInv
  <2>3. CASE WriteFence(w)
    <3>1. /\ wr'[w].pc = "index" /\ wr'[w].keys = wr[w].keys /\ wr'[w].fenced = fence'
          /\ wr[w].pc = "fence" /\ (fence => fence')
      BY <2>3 DEF WriteFence, TypeOK, Writer
    <3> QED BY <1>5, <3>1, WriterMoves DEF WriterInv
  <2>4. CASE IndexOk(w) \/ IndexUnavailable(w) \/ BumpRead(w) \/ BumpWrite(w)
    <3>1. /\ wr'[w].keys = wr[w].keys /\ wr'[w].fenced = wr[w].fenced
          /\ wr'[w].pc \in {"bump", "bumped", "clear"} /\ wr[w].pc # "idle" /\ fence' = fence
      BY <2>4 DEF IndexOk, IndexUnavailable, BumpRead, BumpWrite, Step, disk, TypeOK, Writer
    <3> QED BY <1>5, <3>1, WriterMoves DEF WriterInv
  <2>5. CASE IndexError(w)
    <3>1. \/ wr'[w] = Idle
          \/ /\ wr'[w].keys = wr[w].keys /\ wr'[w].fenced = wr[w].fenced
             /\ wr'[w].pc = "bump" /\ wr[w].pc # "idle"
      BY <2>5 DEF IndexError, Step, TypeOK, Writer
    <3>2. fence' = fence
      BY <2>5 DEF IndexError
    <3> QED BY <1>5, <3>1, <3>2, WriterMoves DEF WriterInv, Idle
  <2>6. CASE ClearFence(w)
    <3>1. wr'[w] = Idle
      BY <2>6 DEF ClearFence, TypeOK
    <3>2. fence' = fence \/ \A v \in Writers : ~wr'[v].fenced
      BY <2>6 DEF ClearFence, TypeOK, Writer, Idle
    <3> QED BY <1>5, <3>1, <3>2, WriterMoves DEF WriterInv, Idle
  <2> QED BY <1>5, WriterCases, <2>1, <2>2, <2>3, <2>4, <2>5, <2>6 DEF Follows
<1>6. CASE MarkSearchStale \/ Report \/ GapsScan \/ GapsStore
  BY <1>6 DEF MarkSearchStale, Report, GapsScan, GapsStore, memory, disk, WriterInv
<1>8. CASE Crash
  BY <1>8 DEF Crash, WriterInv, Idle
<1>9. CASE Corrupt \/ UNCHANGED vars
  BY <1>9 DEF Corrupt, vars, memory, disk, WriterInv
<1> QED BY <1>1, <1>2, <1>3, <1>4, <1>5, <1>6, <1>8, <1>9 DEF Next

-----------------------------------------------------------------------------
(* The index.                                                              *)

\* A commit that does not name k leaves its document, or drops it and that is
\* counted.
LEMMA CommitKeeps ==
  \A keys \in SUBSET Keys, d, v \in [Keys -> Versions] : \A k \in Keys \ keys :
     \/ Committed(d, keys, v)[k] = d[k]
     \/ Committed(d, keys, v)[k] = 0 /\ k \in Dropped(d, keys)
<1> SUFFICES ASSUME NEW keys \in SUBSET Keys, NEW d \in [Keys -> Versions],
                    NEW v \in [Keys -> Versions], NEW k \in Keys \ keys
             PROVE  \/ Committed(d, keys, v)[k] = d[k]
                    \/ Committed(d, keys, v)[k] = 0 /\ k \in Dropped(d, keys)
  OBVIOUS
<1>1. Committed(d, keys, v)[k] = IF k \in Victims(keys) THEN 0 ELSE d[k]
  BY DEF Committed
<1> QED BY <1>1 DEF Dropped

\* An index that is opened holds what it held, or what it lost is counted.
LEMMA OpenKeeps ==
  ASSUME TypeOK
  PROVE  \A k \in Keys :
           \/ (ready \/ dir = "ok") /\ OpenedDoc[k] = doc[k] /\ WipedDrift = drift
           \/ /\ ~ready /\ dir # "ok" /\ drift \subseteq WipedDrift
              /\ OpenedDoc[k] = Expected(k) \/ k \in WipedDrift
<1>1. CASE ready \/ dir = "ok"
  BY <1>1 DEF OpenedDoc, WipedDrift
<1>2. CASE ~(ready \/ dir = "ok")
  <2>1. OpenedDoc = [k \in Keys |-> 0]
        /\ WipedDrift = drift \cup {k \in Keys : Expected(k) # 0}
    BY <1>2 DEF OpenedDoc, WipedDrift
  <2>2. ASSUME NEW k \in Keys
        PROVE  OpenedDoc[k] = Expected(k) \/ k \in WipedDrift
    BY <2>1
  <2> QED BY <1>2, <2>1, <2>2
<1> QED BY <1>1, <1>2

\* The fence or the stale marker stands while a key is owed, and each namespace
\* a rebuild has done is paid.
LEMMA OwedStep ==
  TypeOK /\ Alone /\ RebuildAlone /\ WriterInv /\ OwedInv /\ [Next]_vars => OwedInv'
<1> SUFFICES ASSUME TypeOK, Alone, RebuildAlone, WriterInv, OwedInv, [Next]_vars
             PROVE  OwedInv'
  OBVIOUS
<1>0. Len(Namespaces) \in Nat /\ rb \in 1..NotRebuilding /\ ~(NotRebuilding < NotRebuilding)
      /\ NotRebuilding = Len(Namespaces) + 1
  BY KeyAssumption DEF TypeOK, NotRebuilding
<1>1. ASSUME NEW who \in {"command", "daemon"}, Open(who) PROVE OwedInv'
  BY <1>1 DEF Open, disk, history, OwedInv
<1>2. CASE OpenAndRebuild
  <2>1. CASE fence \/ stale
    <3>1. rb' = 1 /\ kv' = kv /\ fence' = fence /\ stale' = stale
          /\ owed' = {k \in Keys : Expected(k) # 0}
      BY <1>2, <2>1 DEF OpenAndRebuild
    <3>2. \A k \in owed' : kv'[k] # 0
      BY <3>1 DEF Expected
    <3>3. ~(\E j \in Nat : j \in 1 .. rb' - 1)
      BY <3>1
    <3> QED BY <2>1, <3>1, <3>2, <3>3 DEF OwedInv
  <2>2. CASE ~(fence \/ stale)
    <3>1. owed = {}
      BY <2>2 DEF OwedInv
    <3>2. owed' = {}
      BY <1>2, <2>2, <3>1 DEF OpenAndRebuild
    <3> QED BY <3>2 DEF OwedInv
  <2> QED BY <2>1, <2>2
<1>3. CASE RebuildNamespace
  <2>0. rb \in 1..Len(Namespaces) /\ rb' = rb + 1 /\ kv' = kv
        /\ owed' = owed \ {k \in Namespaces[rb] : kv[k] # 0}
    BY <1>0, <1>3 DEF RebuildNamespace
  <2>1. \A k \in owed' : k \in owed /\ kv[k] # 0 /\ k \notin Namespaces[rb]
                         /\ \A j \in 1 .. rb - 1 : k \notin Namespaces[j]
    BY <1>3, <2>0 DEF RebuildNamespace, OwedInv
  <2>2. ASSUME NEW k \in owed', NEW j \in 1 .. rb PROVE k \notin Namespaces[j]
    <3>1. CASE j = rb
      BY <2>1, <3>1
    <3>2. CASE j # rb
      <4>1. j \in 1 .. rb - 1
        BY <2>0, <3>2
      <4> QED BY <2>1, <4>1
    <3> QED BY <3>1, <3>2
  <2>3. rb' - 1 = rb
    BY <2>0
  <2>4. CASE rb' = NotRebuilding
    <3>1. rb = Len(Namespaces)
      BY <1>0, <2>0, <2>4
    <3>2. owed' = {}
      <4>1. ASSUME NEW k \in owed' PROVE FALSE
        <5>1. k \in Keys
          BY <2>1 DEF TypeOK
        <5>2. PICK i \in 1..Len(Namespaces) : k \in Namespaces[i]
          BY <5>1, KeyAssumption
        <5> QED BY <2>2, <3>1, <5>2
      <4> QED BY <4>1
    <3> QED BY <3>2 DEF OwedInv
  <2>5. CASE rb' # NotRebuilding
    <3>1. fence' = fence /\ stale' = stale
      BY <1>3, <2>5 DEF RebuildNamespace
    <3> QED BY <2>0, <2>1, <2>2, <2>3, <3>1 DEF OwedInv
  <2> QED BY <2>4, <2>5
<1>4. CASE Close
  BY <1>4 DEF Close, OwedInv
<1>5. ASSUME NEW w \in Writers, WriterNext(w) PROVE OwedInv'
  <2>0. ~(rb' < NotRebuilding) /\ stale' = stale
    BY <1>0, <1>5, WriterWorks
  <2>1. CASE Commits(w)
    BY <2>0, <2>1 DEF Commits, Begin, OwedInv
  <2>2. CASE HalfBatch(w)
    BY <2>0, <2>2 DEF HalfBatch, OwedInv
  <2>3. CASE WriteFence(w)
    BY <2>0, <2>3 DEF WriteFence, history, OwedInv
  <2>4. CASE IndexOk(w)
    BY <2>0, <2>4 DEF IndexOk, OwedInv
  <2>5. CASE IndexError(w) \/ IndexUnavailable(w)
    <3>1. fence' = fence /\ (owed' = owed \/ wr[w].fenced)
      BY <2>5 DEF IndexError, IndexUnavailable, Missed, disk
    <3> QED BY <2>0, <3>1 DEF OwedInv, WriterInv
  <2>6. CASE BumpRead(w) \/ BumpWrite(w)
    BY <2>0, <2>6 DEF BumpRead, BumpWrite, disk, history, OwedInv
  <2>7. CASE ClearFence(w)
    BY <2>0, <2>7 DEF ClearFence, OwedInv
  <2> QED BY <1>5, WriterCases, <2>1, <2>2, <2>3, <2>4, <2>5, <2>6, <2>7 DEF Follows
<1>6. CASE MarkSearchStale
  <2>1. ~(rb < NotRebuilding)
    BY <1>6 DEF MarkSearchStale, RebuildAlone
  <2> QED BY <1>6, <2>1 DEF MarkSearchStale, memory, history, OwedInv
<1>7. CASE Report \/ GapsScan \/ GapsStore
  BY <1>7 DEF Report, GapsScan, GapsStore, disk, memory, history, OwedInv
<1>8. CASE Crash
  <2>1. rb' = NotRebuilding /\ fence' = fence /\ stale' = stale
        /\ owed' = owed \cup (InFlight({"index"}) \ Uncovered({"index"}))
    BY <1>8 DEF Crash
  <2>2. InFlight({"index"}) \ Uncovered({"index"}) = {}
        \/ \E w \in Writers : wr[w].fenced
    BY DEF InFlight, Uncovered
  <2> QED BY <1>0, <2>1, <2>2 DEF OwedInv, WriterInv
<1>9. CASE Corrupt \/ UNCHANGED vars
  BY <1>9 DEF Corrupt, vars, disk, memory, history, OwedInv
<1> QED BY <1>1, <1>2, <1>3, <1>4, <1>5, <1>6, <1>7, <1>8, <1>9 DEF Next

\* Whatever a step does to the index, a document that is off has a cause.
LEMMA CoverStep ==
  TypeOK /\ Alone /\ RebuildAlone /\ WriterInv /\ CoverInv /\ [Next]_vars => CoverInv'
<1> SUFFICES ASSUME TypeOK, Alone, RebuildAlone, WriterInv, CoverInv, [Next]_vars,
                    NEW k \in Keys
             PROVE  \/ doc'[k] = Expected(k)' \/ k \in drift' \/ k \in owed'
                    \/ Underway(k)'
  BY DEF CoverInv
<1> DEFINE Covered == \/ doc'[k] = Expected(k)' \/ k \in drift' \/ k \in owed'
                      \/ Underway(k)'
<1>c. doc[k] = Expected(k) \/ k \in drift \/ k \in owed \/ Underway(k)
  BY DEF CoverInv
<1>k. kv'[k] = kv[k] => Expected(k)' = Expected(k)
  BY DEF Expected
<1>q. AllIdle => ~Underway(k)
  BY DEF AllIdle, Underway
<1>1. ASSUME NEW who \in {"command", "daemon"}, Open(who) PROVE Covered
  BY <1>1, <1>c, <1>k DEF Open, disk, history, Underway
<1>2. CASE OpenAndRebuild
  <2>1. ~Underway(k) /\ ~ready /\ kv' = kv
    BY <1>2, <1>q DEF OpenAndRebuild, Alone
  <2>2. CASE fence \/ stale
    BY <1>2, <1>k, <2>1, <2>2 DEF OpenAndRebuild
  <2>3. CASE ~(fence \/ stale)
    <3>1. doc' = OpenedDoc /\ drift' = WipedDrift /\ owed' = owed
      BY <1>2, <2>3 DEF OpenAndRebuild
    <3> QED BY <1>c, <1>k, <2>1, <3>1, OpenKeeps
  <2> QED BY <2>2, <2>3
<1>3. CASE RebuildNamespace
  <2> DEFINE keys == {j \in Namespaces[rb] : kv[j] # 0}
             val  == [j \in Keys |-> Expected(j)]
  <2>1. keys \in SUBSET Keys /\ ~Underway(k) /\ kv' = kv
    <3>1. rb \in 1..Len(Namespaces)
      BY <1>3, KeyAssumption DEF RebuildNamespace, TypeOK, NotRebuilding
    <3> QED BY <1>3, <1>q, <3>1, KeyAssumption DEF RebuildNamespace, RebuildAlone
  <2>2. val \in [Keys -> Versions] /\ doc \in [Keys -> Versions] /\ val[k] = Expected(k)
    BY OpenTypes DEF TypeOK
  <2>3. doc' = Committed(doc, keys, val) /\ drift' = (drift \ keys) \cup Dropped(doc, keys)
        /\ owed' = owed \ keys
    BY <1>3 DEF RebuildNamespace
  <2> HIDE DEF keys, val
  <2>4. CASE k \in keys
    <3>1. doc'[k] = val[k]
      BY <2>3, <2>4 DEF Committed
    <3> QED BY <1>k, <2>1, <2>2, <3>1
  <2>5. CASE k \notin keys
    <3>1. doc'[k] = doc[k] \/ k \in Dropped(doc, keys)
      BY <2>1, <2>2, <2>3, <2>5, CommitKeeps
    <3> QED BY <1>c, <1>k, <2>1, <2>3, <2>5, <3>1
  <2> QED BY <2>4, <2>5
<1>4. CASE Close
  <2>1. kv' = kv /\ owed' = owed /\ ~Underway(k)
    BY <1>4, <1>q DEF Close
  <2>2. (doc'[k] = doc[k] /\ drift \subseteq drift') \/ k \in drift'
    <3>1. Committed(doc, {}, doc)[k] = doc[k] \/ k \in Dropped(doc, {})
      BY CommitKeeps DEF TypeOK
    <3> QED BY <1>4, <3>1 DEF Close
  <2> QED BY <1>c, <1>k, <2>1, <2>2
<1>5. ASSUME NEW w \in Writers, WriterNext(w) PROVE Covered
  <2>0. \A v \in Writers \ {w} : wr'[v].pc = wr[v].pc /\ wr'[v].keys = wr[v].keys
    BY <1>5, WriterMoves
  <2>1. CASE Commits(w)
    <3>1. PICK keys \in (SUBSET Keys) \ {{}}, del \in BOOLEAN, ver \in Versions,
               pc \in {"fence", "bump"} :
             /\ Begin(w, keys, del, ver, pc)
             /\ drift' = IF pc = "fence" THEN drift ELSE drift \cup keys
      BY <2>1 DEF Commits
    <3>2. /\ doc' = doc /\ owed' = owed /\ wr[w].pc = "idle"
          /\ wr'[w].pc = pc /\ wr'[w].keys = keys
          /\ kv'[k] = IF k \in keys THEN ver ELSE kv[k]
      BY <3>1 DEF Begin, MayStart, Idle, TypeOK
    <3>3. CASE k \in keys
      BY <3>1, <3>2, <3>3 DEF Underway
    <3>4. CASE k \notin keys
      <4>1. Underway(k) => Underway(k)'
        BY <2>0, <3>2 DEF Underway
      <4> QED BY <1>c, <1>k, <3>1, <3>2, <3>4, <4>1
    <3> QED BY <3>3, <3>4
  <2>2. CASE HalfBatch(w)
    <3>1. PICK keys \in SUBSET Keys :
             /\ kv' = [j \in Keys |-> IF j \in keys THEN writes + 1 ELSE kv[j]]
             /\ drift' = drift \cup keys
      BY <2>2 DEF HalfBatch
    <3>2. doc' = doc /\ owed' = owed /\ wr' = wr
      BY <2>2 DEF HalfBatch, memory
    <3>3. Underway(k) => Underway(k)'
      BY <3>2 DEF Underway
    <3> QED BY <1>c, <1>k, <3>1, <3>2, <3>3
  <2>3. CASE WriteFence(w)
    <3>1. /\ wr'[w].pc = "index" /\ wr'[w].keys = wr[w].keys
          /\ UNCHANGED <<kv, doc, drift, owed>>
      BY <2>3 DEF WriteFence, history, TypeOK, Writer
    <3>2. Underway(k) => Underway(k)'
      BY <2>0, <3>1 DEF Underway
    <3> QED BY <1>c, <1>k, <3>1, <3>2
  <2>i. CASE wr[w].pc = "index" /\ k \notin wr[w].keys
    <3>1. Underway(k) => Underway(k)'
      BY <2>0, <2>i DEF Underway
    <3> DEFINE val == [j \in Keys |-> IF j \in Unsearchable THEN 0 ELSE wr[w].ver]
               keys == wr[w].keys
    <3>2. keys \in SUBSET Keys /\ OpenedDoc \in [Keys -> Versions] /\ val \in [Keys -> Versions]
      BY OpenTypes, SyncBounds DEF TypeOK, Writer, Versions
    <3>3. CASE IndexOk(w)
      <4>1. /\ kv' = kv /\ (k \in owed => k \in owed')
            /\ (k \in WipedDrift \cup Dropped(OpenedDoc, keys) => k \in drift')
            /\ doc' = Committed(OpenedDoc, keys, val)
        BY <2>i, <3>3 DEF IndexOk
      <4> HIDE DEF val, keys
      <4>2. doc'[k] = OpenedDoc[k] \/ k \in Dropped(OpenedDoc, keys)
        BY <2>i, <3>2, <4>1, CommitKeeps DEF keys
      <4> QED BY <1>c, <1>k, <3>1, <4>1, <4>2, OpenKeeps
    <3>4. CASE IndexError(w)
      <4>1. /\ kv' = kv /\ (k \in owed => k \in owed') /\ doc' = OpenedDoc
            /\ \/ ready \/ dir = "ok"
               \/ drift' = WipedDrift
            /\ drift \subseteq drift'
        BY <3>4 DEF IndexError, Missed, WipedDrift
      <4> QED BY <1>c, <1>k, <3>1, <4>1, OpenKeeps
    <3>5. CASE IndexUnavailable(w)
      <4>1. /\ kv' = kv /\ (k \in owed => k \in owed') /\ doc' = doc
            /\ (k \in drift => k \in drift')
        BY <3>5 DEF IndexUnavailable, Missed, disk
      <4> QED BY <1>c, <1>k, <3>1, <4>1
    <3>6. ~Commits(w) /\ ~HalfBatch(w)
      BY <2>i DEF Commits, Begin, HalfBatch, MayStart
    <3> QED BY <1>5, <2>3, <2>i, <3>3, <3>4, <3>5, <3>6, WriterCases
            DEF Follows, BumpRead, BumpWrite, ClearFence
  <2>4. CASE IndexOk(w) /\ k \in wr[w].keys
    <3>1. wr[w].keys \in SUBSET Keys
      BY DEF TypeOK, Writer
    <3>2. CASE kv[k] = wr[w].ver
      <4>1. doc'[k] = IF k \in Unsearchable THEN 0 ELSE wr[w].ver
        BY <2>4 DEF IndexOk, Committed
      <4>2. kv' = kv
        BY <2>4 DEF IndexOk
      <4> QED BY <3>2, <4>1, <4>2 DEF Expected
    <3>3. CASE kv[k] # wr[w].ver
      BY <2>4, <3>3 DEF IndexOk
    <3> QED BY <3>2, <3>3
  <2>5. CASE IndexError(w) /\ k \in wr[w].keys
    <3>1. CASE ready \/ dir = "ok"
      BY <2>5, <3>1 DEF IndexError, Missed
    <3>2. CASE ~(ready \/ dir = "ok")
      <4>1. kv' = kv /\ doc' = OpenedDoc /\ drift' = WipedDrift
        BY <2>5, <3>2 DEF IndexError
      <4> QED BY <1>k, <3>2, <4>1, OpenKeeps
    <3> QED BY <3>1, <3>2
  <2>6. CASE IndexUnavailable(w) /\ k \in wr[w].keys
    BY <2>6 DEF IndexUnavailable, Missed
  <2>7. CASE BumpRead(w) \/ BumpWrite(w)
    <3>1. UNCHANGED <<kv, doc, drift, owed>> /\ wr[w].pc \in {"bump", "bumped"}
      BY <2>7 DEF BumpRead, BumpWrite, disk, history
    <3>2. Underway(k) => Underway(k)'
      BY <2>0, <3>1 DEF Underway
    <3> QED BY <1>c, <1>k, <3>1, <3>2
  <2>8. CASE ClearFence(w)
    <3>1. /\ UNCHANGED <<kv, doc>> /\ wr[w].pc = "clear"
          /\ drift' = drift \cup owed \/ (drift' = drift /\ owed' = owed)
      BY <2>8 DEF ClearFence
    <3>2. Underway(k) => Underway(k)'
      BY <2>0, <3>1 DEF Underway
    <3> QED BY <1>c, <1>k, <3>1, <3>2
  <2>9. (IndexOk(w) \/ IndexError(w) \/ IndexUnavailable(w)) => wr[w].pc = "index"
    BY DEF IndexOk, IndexError, IndexUnavailable
  <2> QED BY <1>5, WriterCases, <2>1, <2>2, <2>3, <2>i, <2>4, <2>5, <2>6, <2>7, <2>8, <2>9
          DEF Follows
<1>6. CASE MarkSearchStale \/ Report \/ GapsScan \/ GapsStore
  <2>1. UNCHANGED <<kv, doc, drift, owed, wr>>
    BY <1>6 DEF MarkSearchStale, Report, GapsScan, GapsStore, disk, memory, history
  <2> QED BY <1>c, <1>k, <2>1 DEF Underway
<1>8. CASE Crash
  <2>1. UNCHANGED <<kv, doc>> /\ drift' = drift \cup Uncovered({"fence", "index"})
        /\ owed' = owed \cup (InFlight({"index"}) \ Uncovered({"index"}))
    BY <1>8 DEF Crash
  <2>2. ASSUME NEW w \in Writers, wr[w].pc \in {"fence", "index"}, k \in wr[w].keys
        PROVE  \/ k \in Uncovered({"fence", "index"})
               \/ k \in InFlight({"index"}) \ Uncovered({"index"})
    <3>1. Uncovered({"index"}) \subseteq Uncovered({"fence", "index"})
      BY DEF Uncovered
    <3>2. ~wr[w].fenced => k \in Uncovered({"fence", "index"})
      BY <2>2 DEF Uncovered
    <3>3. wr[w].fenced => wr[w].pc = "index"
      BY <2>2 DEF WriterInv
    <3>4. wr[w].pc = "index" => k \in InFlight({"index"})
      BY <2>2 DEF InFlight
    <3> QED BY <3>1, <3>2, <3>3, <3>4
  <2> QED BY <1>c, <1>k, <2>1, <2>2 DEF Underway
<1>9. CASE Corrupt \/ UNCHANGED vars
  <2>1. UNCHANGED <<kv, doc, drift, owed, wr>>
    BY <1>9 DEF Corrupt, vars, disk, memory, history
  <2> QED BY <1>c, <1>k, <2>1 DEF Underway
<1> QED BY <1>1, <1>2, <1>3, <1>4, <1>5, <1>6, <1>8, <1>9 DEF Next

\* One namespace of a rebuild: its keys are what the store holds, and no key
\* outside the reach of a deletion by phrase loses what it had.
LEMMA RebuildNamespaceStep ==
  ASSUME TypeOK, RebuildAlone, RebuiltInv, RebuildNamespace
  PROVE  /\ rb \in 1..Len(Namespaces) /\ rb' = rb + 1
         /\ \A k \in Keys \ Shadowed :
              doc'[k] = IF \E j \in 1 .. rb : k \in Namespaces[j]
                          THEN Expected(k)' ELSE 0
<1> DEFINE keys == {k \in Namespaces[rb] : kv[k] # 0}
           val  == [k \in Keys |-> Expected(k)]
<1>1. rb \in 1..Len(Namespaces) /\ rb' = rb + 1
  BY KeyAssumption DEF RebuildNamespace, TypeOK, NotRebuilding
<1>2. keys \in SUBSET Keys /\ staged = {} /\ kv' = kv
  BY <1>1, KeyAssumption DEF RebuildNamespace, RebuildAlone
<1>3. doc' = Committed(doc, keys, val)
  BY DEF RebuildNamespace
<1>4. ASSUME NEW k \in Keys \ Shadowed
      PROVE  doc'[k] = IF \E j \in 1 .. rb : k \in Namespaces[j]
                         THEN Expected(k)' ELSE 0
  <2>1. doc[k] = IF \E j \in 1 .. rb - 1 : k \in Namespaces[j] THEN Expected(k) ELSE 0
    BY <1>4 DEF RebuildNamespace, RebuiltInv, Rebuilt
  <2>2. Expected(k)' = Expected(k)
    BY <1>2 DEF Expected
  <2>3. k \in Victims(keys) => k \in keys
    BY <1>2, <1>4, KeyAssumption DEF Victims, Shadowed
  <2>4. doc'[k] = IF k \in keys THEN Expected(k) ELSE doc[k]
    BY <1>3, <2>3 DEF Committed
  <2>5. (\E j \in 1 .. rb : k \in Namespaces[j])
          <=> (k \in Namespaces[rb] \/ \E j \in 1 .. rb - 1 : k \in Namespaces[j])
    <3>1. \A j : j \in 1 .. rb <=> j = rb \/ j \in 1 .. rb - 1
      BY <1>1, KeyAssumption
    <3> QED BY <3>1
  <2>6. CASE k \in keys
    BY <2>2, <2>4, <2>5, <2>6
  <2>7. CASE k \in Namespaces[rb] /\ k \notin keys
    <3>1. Expected(k) = 0
      BY <2>7 DEF Expected
    <3> QED BY <2>1, <2>2, <2>4, <2>5, <2>7, <3>1
  <2>8. CASE k \notin Namespaces[rb]
    BY <2>1, <2>2, <2>4, <2>5, <2>8
  <2> QED BY <2>6, <2>7, <2>8
<1> QED BY <1>1, <1>4

\* A rebuild in progress has the namespaces before rb and nothing else.
LEMMA RebuiltStep ==
  TypeOK /\ Alone /\ RebuildAlone /\ RebuiltInv /\ [Next]_vars => RebuiltInv'
<1> SUFFICES ASSUME TypeOK, Alone, RebuildAlone, RebuiltInv, [Next]_vars PROVE RebuiltInv'
  OBVIOUS
<1>0. Len(Namespaces) \in Nat /\ rb \in 1..NotRebuilding /\ ~(NotRebuilding < NotRebuilding)
  BY KeyAssumption DEF TypeOK, NotRebuilding
<1>1. ASSUME NEW who \in {"command", "daemon"}, Open(who) PROVE RebuiltInv'
  BY <1>0, <1>1 DEF Open, Alone, RebuiltInv
<1>2. CASE OpenAndRebuild
  <2>1. rb' \in {1, NotRebuilding}
    BY <1>2 DEF OpenAndRebuild
  <2>2. CASE rb' # NotRebuilding
    <3>1. rb' = 1 /\ (fence \/ stale \/ dir = "corrupt") /\ ~ready
      BY <1>2, <2>1, <2>2 DEF OpenAndRebuild, Alone
    <3>2. \A k \in Keys : doc'[k] = 0
      BY <1>2, <3>1 DEF OpenAndRebuild, OpenedDoc
    <3>3. ~(\E j \in Nat : j \in 1 .. rb' - 1)
      BY <3>1
    <3> QED BY <3>2, <3>3 DEF RebuiltInv, Rebuilt
  <2> QED BY <1>0, <2>1, <2>2 DEF RebuiltInv
<1>3. CASE RebuildNamespace
  <2>1. rb' - 1 = rb
    BY <1>3, RebuildNamespaceStep, KeyAssumption
  <2> QED BY <1>3, <2>1, RebuildNamespaceStep DEF RebuiltInv, Rebuilt
<1>4. CASE Close
  BY <1>0, <1>4 DEF Close, RebuiltInv
<1>5. ASSUME NEW w \in Writers, WriterNext(w) PROVE RebuiltInv'
  BY <1>0, <1>5, WriterWorks DEF RebuiltInv
<1>6. CASE MarkSearchStale \/ Report \/ GapsScan \/ GapsStore
  <2>1. UNCHANGED <<kv, doc, rb>>
    BY <1>6 DEF MarkSearchStale, Report, GapsScan, GapsStore, disk, memory
  <2> QED BY <2>1 DEF RebuiltInv, Rebuilt, Expected
<1>8. CASE Crash
  BY <1>0, <1>8 DEF Crash, RebuiltInv
<1>9. CASE Corrupt \/ UNCHANGED vars
  <2>1. UNCHANGED <<kv, doc, rb>>
    BY <1>9 DEF Corrupt, vars, disk, memory
  <2> QED BY <2>1 DEF RebuiltInv, Rebuilt, Expected
<1> QED BY <1>1, <1>2, <1>3, <1>4, <1>5, <1>6, <1>8, <1>9 DEF Next
-----------------------------------------------------------------------------
(* The saved reports.                                                      *)

\* No writer's step makes a saved report pass for newer than it is.
LEMMA WriterFresh ==
  ASSUME TypeOK, NEW w \in Writers, WriterNext(w)
  PROVE  \A c \in Saved : Fresh(c) => Fresh(c)'
<1> SUFFICES ASSUME NEW c \in Saved, Fresh(c) PROVE Fresh(c)'
  OBVIOUS
<1>0. \A v \in Writers \ {w} : wr'[v].pc = wr[v].pc /\ wr'[v].seen = wr[v].seen
  BY WriterMoves
<1>t. wr \in [Writers -> Writer]
  BY DEF TypeOK
<1>1. CASE Commits(w)
  <2>1. PICK keys \in SUBSET Keys, del \in BOOLEAN, ver \in Versions, pc \in {"fence", "bump"} :
           Begin(w, keys, del, ver, pc)
    BY <1>1 DEF Commits
  <2>2. wr'[w].pc = pc /\ seq' = seq /\ torn' = torn
    BY <1>t, <2>1 DEF Begin, Idle
  <2> QED BY <1>0, <2>2 DEF Fresh
<1>2. CASE HalfBatch(w)
  <2>1. wr' = wr /\ seq' = seq /\ torn' = torn /\ skipped'
    BY <1>2 DEF HalfBatch, memory
  <2> QED BY <2>1 DEF Fresh
<1>3. CASE WriteFence(w) \/ IndexOk(w) \/ IndexUnavailable(w)
  <2>1. wr'[w].pc \in {"index", "bump"}
    BY <1>t, <1>3 DEF WriteFence, IndexOk, IndexUnavailable, Step, Writer
  <2>2. seq' = seq /\ torn' = torn
    BY <1>3 DEF WriteFence, IndexOk, IndexUnavailable, disk, history
  <2> QED BY <1>0, <2>1, <2>2 DEF Fresh
<1>4. CASE IndexError(w)
  <2>1. \/ wr'[w].pc = "idle" /\ skipped'
        \/ wr'[w].pc = "bump"
    BY <1>t, <1>4 DEF IndexError, Step, Idle, Writer
  <2>2. seq' = seq /\ torn' = torn
    BY <1>4 DEF IndexError
  <2> QED BY <1>0, <2>1, <2>2 DEF Fresh
<1>5. CASE BumpRead(w)
  <2>1. \/ torn'
        \/ wr'[w].pc = "bumped" /\ wr'[w].seen = seq /\ seq' = seq /\ torn' = torn
    BY <1>5 DEF BumpRead, disk, TypeOK, Writer
  <2> QED BY <1>0, <2>1 DEF Fresh
<1>6. CASE BumpWrite(w)
  <2>0. wr[w].pc = "bumped" /\ wr'[w].pc = "clear"
    BY <1>t, <1>6 DEF BumpWrite
  <2>1. CASE seq' = wr[w].seen + 1 /\ torn' = torn
    <3>1. wr[w].seen \in Nat /\ c.tag \in Nat
      BY DEF TypeOK, Writer, Saved
    <3>2. ASSUME c.any, ~torn PROVE c.tag < seq'
      BY <2>0, <2>1, <3>1, <3>2 DEF Fresh
    <3>3. ASSUME c.any, ~torn, NEW v \in Writers, wr'[v].pc = "bumped" PROVE c.tag <= wr'[v].seen
      BY <1>0, <2>0, <3>3 DEF Fresh
    <3>4. ASSUME c.any, ~torn PROVE c.tag <= seq'
      BY <2>1, <3>1, <3>2, <3>4
    <3> QED BY <2>0, <2>1, <3>2, <3>3, <3>4 DEF Fresh
  <2>2. CASE skipped' /\ seq' = seq /\ torn' = torn
    BY <1>0, <2>0, <2>2 DEF Fresh
  <2>3. CASE torn'
    BY <2>3 DEF Fresh
  <2> QED BY <1>6, <2>1, <2>2, <2>3 DEF BumpWrite
<1>7. CASE ClearFence(w)
  <2>1. wr[w].pc = "clear" /\ wr'[w].pc = "idle" /\ UNCHANGED <<kv, seq, torn, skipped>>
    BY <1>7 DEF ClearFence, Idle, TypeOK
  <2> QED BY <1>0, <2>1 DEF Fresh
<1> QED BY WriterCases, <1>1, <1>2, <1>3, <1>4, <1>5, <1>6, <1>7 DEF Follows

\* Nor does any other step that leaves the report alone.
LEMMA OtherFresh ==
  ASSUME TypeOK, WriterInv,
         \/ \E who \in {"command", "daemon"} : Open(who)
         \/ OpenAndRebuild \/ RebuildNamespace \/ Close \/ MarkSearchStale
         \/ Report \/ GapsScan \/ GapsStore \/ Crash \/ Corrupt \/ UNCHANGED vars
  PROVE  \A c \in Saved : Fresh(c) => Fresh(c)'
<1> SUFFICES ASSUME NEW c \in Saved, Fresh(c) PROVE Fresh(c)'
  OBVIOUS
<1>1. CASE Crash
  <2>1. CASE UNCHANGED <<seq, torn>>
    <3>1. kv' = kv /\ \A w \in Writers : wr'[w].pc = "idle"
      BY <1>1 DEF Crash, Idle
    <3>2. ASSUME NEW w \in Writers, wr[w].pc \in {"fence", "index", "bump", "bumped"}
          PROVE  skipped'
      <4>1. wr[w].keys # {}
        BY <3>2 DEF WriterInv
      <4>2. InFlight({"fence", "index", "bump", "bumped"}) # {}
        BY <3>2, <4>1 DEF InFlight
      <4> QED BY <1>1, <4>2 DEF Crash
    <3>3. skipped => skipped'
      BY <1>1 DEF Crash
    <3> QED BY <2>1, <3>1, <3>2, <3>3 DEF Fresh
  <2>2. CASE ~UNCHANGED <<seq, torn>>
    BY <1>1, <2>2 DEF Crash, Fresh
  <2> QED BY <2>1, <2>2
<1>2. CASE ~Crash
  <2>1. UNCHANGED <<kv, seq, torn, skipped, wr>>
    BY <1>2 DEF Open, OpenAndRebuild, RebuildNamespace, Close, MarkSearchStale, Report,
                GapsScan, GapsStore, Corrupt, vars, disk, memory, history
  <2> QED BY <2>1 DEF Fresh
<1> QED BY <1>1, <1>2

\* The cached report and the one a `mati gaps` still has to cache stay as old as
\* their tags.
LEMMA FreshStep ==
  TypeOK /\ WriterInv /\ Fresh(cache) /\ Fresh(pending) /\ [Next]_vars
    => Fresh(cache)' /\ Fresh(pending)'
<1> SUFFICES ASSUME TypeOK, WriterInv, Fresh(cache), Fresh(pending), [Next]_vars
             PROVE  Fresh(cache)' /\ Fresh(pending)'
  OBVIOUS
<1>1. \A c \in Saved : Fresh(c) => Fresh(c)'
  BY WriterFresh, OtherFresh DEF Next
<1>2. cache \in Saved /\ pending \in Saved
  BY DEF TypeOK
<1>3. CASE Report \/ GapsScan
  <2>1. /\ AllIdle /\ UNCHANGED <<kv, seq, wr>>
        /\ cache' = cache \/ (cache'.tag = seq /\ cache'.view = kv)
        /\ pending' = pending \/ (pending'.tag = seq /\ pending'.view = kv)
    BY <1>3 DEF Report, GapsScan, memory, disk
  <2>2. seq <= seq /\ ~\E w \in Writers : wr[w].pc = "bumped"
    BY <2>1 DEF AllIdle, TypeOK
  <2> QED BY <1>1, <1>2, <2>1, <2>2 DEF Fresh
<1>4. CASE GapsStore
  <2>1. /\ cache' = cache \/ cache' = pending
        /\ ~pending'.any
    BY <1>4 DEF GapsStore, NoReport
  <2> QED BY <1>1, <1>2, <2>1 DEF Fresh
<1>5. CASE UNCHANGED <<cache, pending>>
  BY <1>1, <1>2, <1>5 DEF Fresh
<1>6. ASSUME NEW w \in Writers, WriterNext(w) PROVE UNCHANGED <<cache, pending>>
  <2>1. CASE Commits(w) \/ HalfBatch(w)
    BY <2>1 DEF Commits, Begin, HalfBatch, memory
  <2>2. CASE Follows(w)
    BY <2>2 DEF Follows, WriteFence, IndexOk, IndexError, IndexUnavailable, BumpRead,
                BumpWrite, ClearFence, disk
  <2> QED BY <1>6, WriterCases, <2>1, <2>2
<1>7. (\/ \E who \in {"command", "daemon"} : Open(who)
       \/ OpenAndRebuild \/ RebuildNamespace \/ Close \/ MarkSearchStale
       \/ Crash \/ Corrupt \/ UNCHANGED vars) => UNCHANGED <<cache, pending>>
  BY DEF Open, OpenAndRebuild, RebuildNamespace, Close, MarkSearchStale, Crash, Corrupt,
         vars, disk, memory
<1> QED BY <1>3, <1>4, <1>5, <1>6, <1>7 DEF Next
-----------------------------------------------------------------------------
(* The theorems.                                                           *)

\* The strengthened invariant.
LEMMA Inductive == Spec => []IInv
<1>1. Init => IInv
  <2> SUFFICES ASSUME Init PROVE IInv
    OBVIOUS
  <2>0. Len(Namespaces) \in Nat /\ ~(NotRebuilding < NotRebuilding)
    BY KeyAssumption DEF NotRebuilding
  <2>1. TypeOK
    <3>1. 0 \in Versions /\ [k \in Keys |-> 0] \in [Keys -> Versions]
      BY SyncBounds DEF Versions
    <3>2. 0 \in 0..MaxWrites /\ 0 \in 0..MaxFails /\ 0 \in 0..MaxCrashes
      BY SyncBounds
    <3> QED BY <3>1, <3>2, EmptyTypes DEF Init, TypeOK
  <2>2. Alone /\ RebuildAlone /\ RebuiltInv
    BY <2>0 DEF Init, Alone, RebuildAlone, RebuiltInv, AllIdle, Idle
  <2>3. WriterInv /\ OwedInv
    BY <2>0 DEF Init, WriterInv, OwedInv, Idle
  <2>4. CoverInv
    BY DEF Init, CoverInv, Expected
  <2>5. Fresh(cache) /\ Fresh(pending)
    BY DEF Init, Fresh, NoReport
  <2> QED BY <2>1, <2>2, <2>3, <2>4, <2>5 DEF IInv
<1>2. IInv /\ [Next]_vars => IInv'
  BY NextTypes, AloneStep, RebuildAloneStep, WriterInvStep, OwedStep, CoverStep,
     RebuiltStep, FreshStep DEF IInv
<1> QED BY <1>1, <1>2, PTL DEF Spec

\* With the store closed and no marker up, a document that is not what the
\* store holds has one of the causes drift records: put, put_batch, delete and
\* open_and_rebuild of db.rs leave no other hole between commit and fence.
THEOREM DriftCorrect == Spec => []DriftExplained
<1>1. IInv => DriftExplained
  <2> SUFFICES ASSUME IInv, owner = "none", ~fence, ~stale, NEW k \in Keys
               PROVE  doc[k] = Expected(k) \/ k \in drift
    BY DEF DriftExplained
  <2>1. owed = {}
    BY DEF IInv, OwedInv
  <2>2. ~Underway(k)
    BY DEF IInv, Alone, AllIdle, Underway
  <2> QED BY <2>1, <2>2 DEF IInv, CoverInv
<1> QED BY <1>1, Inductive, PTL

\* A report served from its cache is what a scan would report: concurrent bumps
\* of health_write_seq lose increments and never bring back a cached sequence.
THEOREM ReportsCorrect == Spec => []ReportsFresh
<1>1. IInv => ReportsFresh
  <2> SUFFICES ASSUME IInv, cache.any, cache.tag = seq, ~skipped, ~torn,
                      InFlight({"fence", "index", "bump", "bumped"}) = {}
               PROVE  cache.view = kv
    BY DEF ReportsFresh
  <2>1. ~\E w \in Writers : wr[w].pc \in {"fence", "index", "bump", "bumped"}
    BY DEF IInv, WriterInv, InFlight
  <2>2. ~(cache.tag < seq)
    BY DEF IInv, TypeOK
  <2> QED BY <2>1, <2>2 DEF IInv, Fresh
<1> QED BY <1>1, Inductive, PTL

\* A rebuild that returns has left exactly the store's documents, but for keys
\* a key of a later namespace deletes by phrase.
THEOREM RebuildCorrect == Spec => RebuildExact
<1>1. IInv /\ [Next]_vars =>
        [ rb < NotRebuilding /\ rb' = NotRebuilding /\ owner' # "none"
            => \A k \in Keys \ Shadowed : doc'[k] = Expected(k)' ]_vars
  <2> SUFFICES ASSUME IInv, [Next]_vars,
                      rb < NotRebuilding, rb' = NotRebuilding, owner' # "none",
                      NEW k \in Keys \ Shadowed
               PROVE  doc'[k] = Expected(k)'
    OBVIOUS
  <2>1. owner = "daemon" /\ TypeOK /\ RebuildAlone /\ RebuiltInv /\ Alone
    BY DEF IInv, RebuildAlone
  <2>2. RebuildNamespace
    <3>0. Len(Namespaces) \in Nat /\ rb # NotRebuilding
      BY KeyAssumption DEF NotRebuilding
    <3>1. ~(\E w \in Writers : WriterNext(w))
      BY <2>1, <3>0, WriterWorks
    <3>2. ~(\E who \in {"command", "daemon"} : Open(who)) /\ ~OpenAndRebuild /\ ~Crash
      BY <2>1 DEF Open, OpenAndRebuild, Crash
    <3>3. (Close \/ MarkSearchStale \/ Report \/ GapsScan \/ GapsStore \/ Corrupt
             \/ UNCHANGED vars) => rb' = rb
      BY DEF Close, MarkSearchStale, Report, GapsScan, GapsStore, Corrupt, vars, memory
    <3> QED BY <3>0, <3>1, <3>2, <3>3 DEF Next
  <2>3. rb = Len(Namespaces)
    BY <2>1, <2>2, RebuildNamespaceStep, KeyAssumption DEF NotRebuilding
  <2>4. PICK i \in 1..Len(Namespaces) : k \in Namespaces[i]
    BY KeyAssumption
  <2> QED BY <2>1, <2>2, <2>3, <2>4, RebuildNamespaceStep
<1> QED BY <1>1, Inductive, PTL DEF Spec, RebuildExact
=============================================================================

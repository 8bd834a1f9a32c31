------------------------ MODULE EnforcementLogProofs ------------------------
(***************************************************************************)
(* Proofs about EnforcementLog, for any number of processes, tasks, calls  *)
(* and faults; about Evidence, which reads its log back; and, with the     *)
(* same lemmas on places, intervals and least numbers, about the packets   *)
(* and answers of AgentContext, the parallel walk of SourceScan, and what  *)
(* is installed for an agent by Scaffold and SandboxFloor.                 *)
(***************************************************************************)
EXTENDS EnforcementLog, Evidence, AgentContext, SourceScan, Scaffold, SandboxFloor,
        SequenceTheorems, FiniteSetTheorems, WellFoundedInduction, TLAPS

\* The writer a task builds, and the calls' locals, are well-typed records.
LEMMA EmptyRecords == NoWriter \in Writer /\ NoCall \in Call
  BY DEF NoWriter, Writer, NoCall, Call, Modes, Kinds

\* What load_last_hash returns is the empty string or a stored event's hash.
LEMMA LastHashType ==
  ASSUME NEW S \in SUBSET Event, S = {} \/ \E e \in S : IsLast(e, S)
  PROVE  LastHash(S) \in Nat
  BY DEF LastHash, IsLast, Event

\* A read returns the stored value or, when it fails, the default.
LEMMA ReadType ==
  ASSUME NEW V, NEW v \in V, NEW d \in V
  PROVE  Read(v, d) \subseteq V
  BY DEF Read

\* The stored events always have a last one, so load_last_hash is defined.
HasLast == events = {} \/ \E e \in events : IsLast(e, events)

\* Only the process that holds the store runs request tasks.
BusyOwner == \A t \in Tasks : pc[t] # "idle" => owner \in Procs

\* A configuration call holds the mode it writes.
ModeCalls == \A t \in Tasks : pc[t] = "putmode" => call[t].kind \in Modes

TypeInv == TypeOK /\ HasLast /\ BusyOwner /\ ModeCalls

\* Overwriting or appending an event leaves a last event.
LEMMA LastAfterPut ==
  ASSUME NEW S \in SUBSET Event, S = {} \/ \E e \in S : IsLast(e, S),
         NEW n \in Event
  PROVE  \E e \in {f \in S : f.seq # n.seq} \cup {n} :
            IsLast(e, {f \in S : f.seq # n.seq} \cup {n})
<1> DEFINE T == {f \in S : f.seq # n.seq} \cup {n}
<1>1. CASE S = {}
  BY <1>1 DEF IsLast, Event
<1>2. CASE \E e \in S : IsLast(e, S)
  <2>1. PICK e \in S : IsLast(e, S)
    BY <1>2
  <2>2. CASE e.seq <= n.seq
    <3>1. IsLast(n, T)
      BY <2>1, <2>2 DEF IsLast, Event
    <3> QED BY <3>1
  <2>3. CASE ~(e.seq <= n.seq)
    <3>1. e \in T /\ IsLast(e, T)
      BY <2>1, <2>3 DEF IsLast, Event
    <3> QED BY <3>1
  <2> QED BY <2>2, <2>3
<1> QED BY <1>1, <1>2

\* A step of a task keeps the types.
LEMMA TaskTypes ==
  ASSUME TypeInv, NEW t \in Tasks, Step(t)
  PROVE  TypeInv'
<1> USE DEF TypeInv, TypeOK, HasLast, BusyOwner, ModeCalls
<1>t. NoWriter \in Writer /\ NoCall \in Call
  BY EmptyRecords
<1>1. CASE PutMode(t)
  BY <1>1 DEF PutMode, Goto, PCs, Call, Modes, Kinds, IsLast
<1>2. CASE PutModeFails(t)
  <2>1. [call[t] EXCEPT !.outcome = "error"] \in Call
    BY DEF Call
  <2> QED BY <1>2, <2>1 DEF PutModeFails, Goto, PCs, store, IsLast
<1>3. CASE GetMode(t)
  BY <1>3 DEF GetMode, Goto, PCs, store, Call, Read, Modes, IsLast
<1>4. CASE Lookup(t)
  BY <1>4 DEF Lookup, Goto, PCs, store, IsLast
<1>5. CASE LoadSeq(t)
  <2>1. \A s \in Nat :
           [NoWriter EXCEPT !.live = TRUE, !.seq = s] \in Writer
    BY <1>t DEF Writer
  <2>2. PICK s \in Nat :
           built' = [built EXCEPT
                       ![t] = [NoWriter EXCEPT !.live = TRUE, !.seq = s]]
    BY <1>5 DEF LoadSeq, Read
  <2>3. built' \in [Tasks -> Writer]
    BY <2>1, <2>2
  <2> QED BY <1>5, <2>3 DEF LoadSeq, Goto, PCs, store, IsLast
<1>6. CASE LoadInst(t)
  <2>1. \A i \in Nat : [built[t] EXCEPT !.inst = i] \in Writer
    BY DEF Writer
  <2>2. built' \in [Tasks -> Writer]
    BY <1>6, <2>1 DEF LoadInst, Read
  <2>3. nextId' \in Nat /\ pc' \in [Tasks -> PCs]
    BY <1>6 DEF LoadInst, Goto, PCs
  <2>4. BusyOwner' /\ ModeCalls'
    BY <1>6 DEF LoadInst, Goto
  <2> QED BY <1>6, <2>2, <2>3, <2>4 DEF LoadInst, store, IsLast
<1>7. CASE PutInst(t)
  BY <1>7 DEF PutInst, Goto, PCs, Writer, IsLast
<1>8. CASE PutInstFails(t)
  BY <1>8, <1>t DEF PutInstFails, Fail, PCs, store, Call, IsLast
<1>9. CASE LoadHash(t)
  <2>1. LastHash(events) \in Nat
    BY LastHashType
  <2> QED BY <1>9, <2>1 DEF LoadHash, Goto, PCs, store, Read, Writer, IsLast
<1>10. CASE Insert(t)
  BY <1>10, <1>t DEF Insert, Goto, PCs, store, IsLast
<1>11. CASE Lock(t)
  BY <1>11 DEF Lock, Goto, PCs, store, IsLast
<1>12. CASE SeqNext(t)
  BY <1>12 DEF SeqNext, Goto, PCs, Writer, IsLast
<1>13. CASE SeqNextFails(t)
  <2>1. registry' \in [Procs -> Writer]
    BY <1>13 DEF SeqNextFails, Writer
  <2>2. call' \in [Tasks -> Call]
    BY <1>13 DEF SeqNextFails, Fail, Call
  <2> QED BY <1>13, <2>1, <2>2, <1>t DEF SeqNextFails, Fail, PCs, store, IsLast
<1>14. CASE PutEvent(t)
  <2>1. owner \in Procs
    BY <1>14 DEF PutEvent
  <2>2. NewEvent(t) \in Event
    BY <2>1 DEF NewEvent, Event, Writer, Call
  <2>3. HasLast'
    BY <1>14, <2>2, LastAfterPut DEF PutEvent
  <2>4. events' \in SUBSET Event
    BY <1>14, <2>2 DEF PutEvent
  <2>5. registry' \in [Procs -> Writer]
    BY <1>14, <2>1 DEF PutEvent, Writer
  <2>6. call' \in [Tasks -> Call] /\ ModeCalls'
    BY <1>14 DEF PutEvent, Goto, Call
  <2>7. BusyOwner'
    BY <1>14 DEF PutEvent, Goto
  <2>8. TypeOK'
    BY <1>14, <2>4, <2>5, <2>6 DEF PutEvent, Goto, PCs
  <2> QED BY <2>3, <2>6, <2>7, <2>8
<1>15. CASE PutEventFails(t)
  BY <1>15, <1>t DEF PutEventFails, Fail, PCs, store, Call, IsLast
<1> QED
  BY <1>1, <1>2, <1>3, <1>4, <1>5, <1>6, <1>7, <1>8, <1>9, <1>10, <1>11,
     <1>12, <1>13, <1>14, <1>15 DEF Step

\* Every step keeps the types.
LEMMA NextTypes ==
  ASSUME TypeInv, [Next]_vars
  PROVE  TypeInv'
<1> USE DEF TypeInv, TypeOK, HasLast, BusyOwner, ModeCalls
<1>t. NoWriter \in Writer /\ NoCall \in Call
  BY EmptyRecords
<1>1. ASSUME NEW t \in Tasks, Record(t) PROVE TypeInv'
  BY <1>1, <1>t, NoProcAssumption DEF Record, Goto, PCs, store, IsLast
<1>2. ASSUME NEW t \in Tasks, NEW m \in Modes, SetMode(t, m) PROVE TypeInv'
  <2>1. \A old \in Modes :
           [NoCall EXCEPT !.kind = m, !.old = old] \in Call
    BY <1>t DEF Call, Kinds
  <2>2. Read(mode, "advisory") \subseteq Modes
    BY DEF Read, Modes
  <2>3. call' \in [Tasks -> Call]
    BY <1>2, <2>1, <2>2 DEF SetMode
  <2>4. BusyOwner' /\ ModeCalls'
    BY <1>2, <1>t, NoProcAssumption DEF SetMode, Goto, store, Call
  <2> QED
    BY <1>2, <2>3, <2>4 DEF SetMode, Goto, PCs, store, IsLast
<1>3. ASSUME NEW t \in Tasks, NEW d \in {30, 365}, SetRetention(t, d)
      PROVE  TypeInv'
  BY <1>3 DEF SetRetention, tasks, IsLast
<1>4. ASSUME NEW t \in Tasks, Step(t) PROVE TypeInv'
  BY <1>4, TaskTypes
<1>5. ASSUME NEW p \in Procs, Open(p) PROVE TypeInv'
  BY <1>5 DEF Open, store, tasks, IsLast
<1>6. CASE Close
  BY <1>6, <1>t DEF Close, store, tasks, IsLast
<1>7. CASE Crash
  BY <1>7, <1>t DEF Crash, store, PCs, IsLast
<1>8. CASE UNCHANGED vars
  BY <1>8 DEF vars, store, tasks, IsLast
<1> QED
  BY <1>1, <1>2, <1>3, <1>4, <1>5, <1>6, <1>7, <1>8 DEF Next

\* Every variable keeps its type, whatever faults happen: the store's keys,
\* the registry of cached writers and the locals of the tasks.
THEOREM TypeCorrect == Spec => []TypeOK
<1>1. Init => TypeInv
  BY EmptyRecords DEF Init, TypeInv, TypeOK, HasLast, BusyOwner, ModeCalls, Modes, PCs
<1>2. TypeInv /\ [Next]_vars => TypeInv'
  BY NextTypes
<1>3. TypeInv => TypeOK
  BY DEF TypeInv
<1> QED BY <1>1, <1>2, <1>3, PTL DEF Spec
-----------------------------------------------------------------------------
(* The writer's invariant.  From here on reads do not fail and a process   *)
(* that closes the store exits: without either, runs of EnforcementLog     *)
(* find the invariant violated.                                            *)

Reliable == ~ReadFaults /\ ~ReopenInProcess

\* Without read faults a read returns what is stored.
LEMMA ReadStored ==
  ASSUME Reliable, NEW v, NEW d
  PROVE  Read(v, d) = {v}
  BY DEF Reliable, Read

\* The last hash of a stream whose newest event is n is n's hash.
LEMMA LastHashOfLast ==
  ASSUME NEW S \in SUBSET Event, NEW n \in S,
         \A e \in S : e # n => e.seq < n.seq
  PROVE  LastHash(S) = n.id
<1>1. IsLast(n, S)
  BY DEF IsLast, Event
<1>2. \A e \in S : IsLast(e, S) => e = n
  BY DEF IsLast, Event
<1> QED BY <1>1, <1>2 DEF LastHash

IInv == TypeInv /\ WriterInv

\* A step of a task that leaves the stream, the registry and the store's
\* owner alone, and takes neither the lock nor a part of the slow path.
LEMMA QuietStep ==
  ASSUME IInv, TypeInv', NEW t \in Tasks, NEW l \in PCs,
         UNCHANGED <<seqKey, events, owner, registry, built>>,
         nextId' = nextId, pc' = [pc EXCEPT ![t] = l],
         l \notin Holding \cup Building \cup {"lock"}
  PROVE  WriterInv'
<1> USE DEF IInv, TypeInv, TypeOK, WriterInv
<1>1. StreamInv'
  BY DEF StreamInv, IsLast
<1>2. LockInv'
  BY DEF LockInv, Holding, Building, BusyOwner
<1>3. HeadInv'
  BY DEF HeadInv, Holding, Building, LastHash, IsLast
<1> QED BY <1>1, <1>2, <1>3

\* What EnforcementEventWriter::write adds to the stream: an event beyond
\* every stored one, linked to the last of them.
LEMMA AppendFacts ==
  ASSUME IInv, NEW t \in Tasks, PutEvent(t)
  PROVE  /\ NewEvent(t) \in Event
         /\ \A e \in events : e.seq < NewEvent(t).seq
         /\ events' = events \cup {NewEvent(t)}
         /\ NewEvent(t).seq = seqKey
         /\ NewEvent(t).prev = LastHash(events)
         /\ NewEvent(t).id = nextId
         /\ LastHash(events') = nextId
         /\ nextId \in Nat
         /\ \A e \in events : 0 < e.id /\ e.id < nextId
<1> DEFINE n == NewEvent(t)
<1> USE DEF IInv, WriterInv, TypeInv
<1>1. owner \in Procs /\ registry[owner].live
  BY DEF PutEvent, LockInv, Holding
<1>2. registry[owner] \in Writer /\ nextId \in Nat /\ call[t] \in Call
  BY <1>1 DEF TypeOK
<1>3. n \in Event
  BY <1>2 DEF NewEvent, Event, Writer, Call
<1>4. n.seq = seqKey /\ n.id = nextId /\ n.prev = LastHash(events)
  BY <1>1, <1>2 DEF NewEvent, PutEvent, HeadInv
<1>5. \A e \in events : e.seq < n.seq
  BY <1>4 DEF PutEvent, HeadInv
<1>6. \A e \in events : e.seq \in Nat
  BY DEF TypeOK, Event
<1>7. events' = events \cup {n}
  <2>1. {e \in events : e.seq # n.seq} = events
    BY <1>3, <1>5, <1>6 DEF Event
  <2> QED BY <2>1 DEF PutEvent
<1>8. LastHash(events') = n.id
  <2>1. events' \in SUBSET Event /\ n \in events'
    BY <1>3, <1>7 DEF TypeOK
  <2>2. \A e \in events' : e # n => e.seq < n.seq
    BY <1>5, <1>7
  <2> QED BY <2>1, <2>2, LastHashOfLast
<1>9. \A e \in events : 0 < e.id /\ e.id < nextId
  BY DEF StreamInv
<1> QED BY <1>2, <1>3, <1>4, <1>5, <1>7, <1>8, <1>9

\* A step of a task keeps the writer's invariant.
LEMMA TaskWriter ==
  ASSUME Reliable, IInv, TypeInv', NEW t \in Tasks, Step(t)
  PROVE  WriterInv'
<1> USE DEF IInv, WriterInv
<1>0. TypeOK /\ BusyOwner /\ HasLast
  BY DEF TypeInv
<1>o. pc[t] # "idle" => owner \in Procs
  BY <1>0 DEF BusyOwner
<1>1. CASE PutMode(t)
  BY <1>1, QuietStep DEF PutMode, Goto, PCs, Holding, Building
<1>2. CASE PutModeFails(t)
  BY <1>2, QuietStep DEF PutModeFails, Goto, PCs, Holding, Building, store
<1>3. CASE GetMode(t)
  BY <1>3, QuietStep DEF GetMode, Goto, PCs, Holding, Building, store
<1>4. CASE Lookup(t)
  <2>1. StreamInv'
    BY <1>4 DEF Lookup, StreamInv, IsLast, store
  <2>2. LockInv'
    BY <1>4, <1>0, <1>o DEF Lookup, LockInv, Goto, Holding, TypeOK
  <2>3. HeadInv'
    BY <1>4, <1>0, <1>o
    DEF Lookup, HeadInv, Goto, Building, TypeOK, LastHash, IsLast, store
  <2> QED BY <2>1, <2>2, <2>3
<1>5. CASE LoadSeq(t)
  <2>0. built' = [built EXCEPT ![t] = [NoWriter EXCEPT !.live = TRUE,
                                                       !.seq = seqKey]]
    <3>1. Read(seqKey, 0) = {seqKey}
      BY ReadStored
    <3> QED BY <1>5, <3>1 DEF LoadSeq
  <2>1. StreamInv'
    BY <1>5 DEF LoadSeq, StreamInv, IsLast, store
  <2>2. LockInv'
    BY <1>5, <1>0, <1>o DEF LoadSeq, LockInv, Goto, Holding, TypeOK
  <2>3. HeadInv'
    BY <1>5, <1>0, <1>o, <2>0
    DEF LoadSeq, HeadInv, Goto, Building, TypeOK, LastHash, IsLast, store,
        NoWriter
  <2> QED BY <2>1, <2>2, <2>3
<1>6. CASE LoadInst(t)
  <2>0. PICK l \in {"loadhash", "putinst"}, i \in Nat :
           /\ pc' = [pc EXCEPT ![t] = l]
           /\ built' = [built EXCEPT ![t].inst = i]
           /\ nextId' \in {nextId, nextId + 1}
    BY <1>6, <1>0, ReadStored DEF LoadInst, Goto, TypeOK
  <2>1. StreamInv'
    BY <1>6, <1>0, <2>0 DEF LoadInst, StreamInv, IsLast, store, TypeOK, Event
  <2>2. LockInv'
    BY <1>6, <1>0, <1>o, <2>0 DEF LoadInst, LockInv, Holding, TypeOK
  <2>3. HeadInv'
    BY <1>6, <1>0, <1>o, <2>0
    DEF LoadInst, HeadInv, Building, TypeOK, LastHash, IsLast, store, Writer
  <2> QED BY <2>1, <2>2, <2>3
<1>7. CASE PutInst(t)
  <2>1. StreamInv'
    BY <1>7 DEF PutInst, StreamInv, IsLast
  <2>2. LockInv'
    BY <1>7, <1>0, <1>o DEF PutInst, LockInv, Goto, Holding, TypeOK
  <2>3. HeadInv'
    BY <1>7, <1>0, <1>o
    DEF PutInst, HeadInv, Goto, Building, TypeOK, LastHash, IsLast
  <2> QED BY <2>1, <2>2, <2>3
<1>8. CASE PutInstFails(t)
  <2>1. StreamInv'
    BY <1>8 DEF PutInstFails, Fail, StreamInv, IsLast, store
  <2>2. LockInv'
    BY <1>8, <1>0, <1>o DEF PutInstFails, Fail, LockInv, Holding, TypeOK
  <2>3. HeadInv'
    BY <1>8, <1>0, <1>o
    DEF PutInstFails, Fail, HeadInv, Building, TypeOK, LastHash, IsLast, store
  <2> QED BY <2>1, <2>2, <2>3
<1>9. CASE LoadHash(t)
  <2>0. built' = [built EXCEPT ![t].prev = LastHash(events)]
    <3>1. Read(LastHash(events), 0) = {LastHash(events)}
      BY ReadStored
    <3> QED BY <1>9, <3>1 DEF LoadHash
  <2>1. StreamInv'
    BY <1>9 DEF LoadHash, StreamInv, IsLast, store
  <2>2. LockInv'
    BY <1>9, <1>0, <1>o DEF LoadHash, LockInv, Goto, Holding, TypeOK
  <2>a. LastHash(events') = LastHash(events)
    BY <1>9 DEF LoadHash, store
  <2>3. HeadInv'
    BY <1>9, <1>0, <1>o, <2>0, <2>a
    DEF LoadHash, HeadInv, Goto, Building, TypeOK, store, Writer
  <2> QED BY <2>1, <2>2, <2>3
<1>10. CASE Insert(t)
  <2>1. StreamInv'
    BY <1>10 DEF Insert, StreamInv, IsLast, store
  <2>2. LockInv'
    BY <1>10, <1>0, <1>o
    DEF Insert, LockInv, HeadInv, Goto, Holding, Building, TypeOK
  <2>3. HeadInv'
    BY <1>10, <1>0, <1>o
    DEF Insert, HeadInv, Goto, Building, TypeOK, LastHash, IsLast, store
  <2> QED BY <2>1, <2>2, <2>3
<1>11. CASE Lock(t)
  <2>1. StreamInv'
    BY <1>11 DEF Lock, StreamInv, IsLast, store
  <2>2. LockInv'
    BY <1>11, <1>0, <1>o DEF Lock, LockFree, LockInv, Goto, Holding, TypeOK
  <2>3. HeadInv'
    BY <1>11, <1>0, <1>o
    DEF Lock, HeadInv, Goto, Building, TypeOK, LastHash, IsLast, store
  <2> QED BY <2>1, <2>2, <2>3
<1>12. CASE SeqNext(t)
  <2>1. StreamInv'
    BY <1>12, <1>0, <1>o
    DEF SeqNext, StreamInv, LockInv, HeadInv, Holding, IsLast, TypeOK, Event,
        Writer
  <2>2. LockInv'
    BY <1>12, <1>0, <1>o DEF SeqNext, LockInv, Goto, Holding, TypeOK
  <2>3. HeadInv'
    BY <1>12, <1>0, <1>o
    DEF SeqNext, HeadInv, LockInv, StreamInv, Goto, Building, Holding, TypeOK,
        LastHash, IsLast, Writer, Event
  <2> QED BY <2>1, <2>2, <2>3
<1>13. CASE SeqNextFails(t)
  <2>1. StreamInv'
    BY <1>13 DEF SeqNextFails, Fail, StreamInv, IsLast, store
  <2>2. LockInv'
    BY <1>13, <1>0, <1>o DEF SeqNextFails, Fail, LockInv, Holding, TypeOK
  <2>3. HeadInv'
    BY <1>13, <1>0, <1>o
    DEF SeqNextFails, Fail, HeadInv, LockInv, Building, Holding, TypeOK,
        LastHash, IsLast, store, Writer
  <2> QED BY <2>1, <2>2, <2>3
<1>14. CASE PutEvent(t)
  <2> DEFINE n == NewEvent(t)
  <2>1. /\ n \in Event /\ n.seq = seqKey /\ n.id = nextId /\ nextId \in Nat
        /\ \A e \in events : e.seq < n.seq
        /\ events' = events \cup {n}
        /\ LastHash(events') = nextId
        /\ \A e \in events : 0 < e.id /\ e.id < nextId
    BY <1>14, AppendFacts
  <2>2. nextId' = nextId + 1 /\ 0 < nextId /\ seqKey' = seqKey
    BY <1>14, <1>0 DEF PutEvent, StreamInv, TypeOK
  <2>3. \A e \in events : e \in Event
    BY <1>0 DEF TypeOK
  <2>4. StreamInv'
    <3>1. IsLast(n, events')
      BY <2>1, <2>3 DEF IsLast, Event
    <3>2. \A e \in events' : e.seq <= seqKey /\ 0 < e.id /\ e.id < nextId + 1
      BY <2>1, <2>2, <2>3 DEF Event
    <3>3. \A e, f \in events' : e.seq = f.seq => e = f
      BY <2>1, <2>3 DEF Event, StreamInv
    <3> QED BY <2>1, <2>2, <3>1, <3>2, <3>3 DEF StreamInv
  <2>5. LockInv'
    BY <1>14, <1>0, <1>o DEF PutEvent, LockInv, Goto, Holding, TypeOK
  <2>6. HeadInv'
    BY <1>14, <1>0, <1>o, <2>1, <2>2
    DEF PutEvent, HeadInv, LockInv, Goto, Building, Holding, TypeOK, Writer
  <2> QED BY <2>4, <2>5, <2>6
<1>15. CASE PutEventFails(t)
  <2>1. StreamInv'
    BY <1>15 DEF PutEventFails, Fail, StreamInv, IsLast, store
  <2>2. LockInv'
    BY <1>15, <1>0, <1>o DEF PutEventFails, Fail, LockInv, Holding, TypeOK
  <2>3. HeadInv'
    BY <1>15, <1>0, <1>o
    DEF PutEventFails, Fail, HeadInv, Building, TypeOK, LastHash, IsLast, store
  <2> QED BY <2>1, <2>2, <2>3
<1> QED
  BY <1>1, <1>2, <1>3, <1>4, <1>5, <1>6, <1>7, <1>8, <1>9, <1>10, <1>11,
     <1>12, <1>13, <1>14, <1>15 DEF Step

\* Every step keeps the writer's invariant.
LEMMA NextWriter ==
  ASSUME Reliable, IInv, [Next]_vars
  PROVE  IInv'
<1> USE DEF IInv, WriterInv
<1>t. TypeInv'
  BY NextTypes
<1>0. TypeOK /\ BusyOwner
  BY DEF TypeInv
<1>1. ASSUME NEW t \in Tasks, Record(t) PROVE WriterInv'
  BY <1>1, <1>t, QuietStep DEF Record, Goto, PCs, Holding, Building, store
<1>2. ASSUME NEW t \in Tasks, NEW m \in Modes, SetMode(t, m) PROVE WriterInv'
  BY <1>2, <1>t, QuietStep DEF SetMode, Goto, PCs, Holding, Building, store
<1>3. ASSUME NEW t \in Tasks, NEW d \in {30, 365}, SetRetention(t, d)
      PROVE  WriterInv'
  <2>1. StreamInv'
    BY <1>3 DEF SetRetention, StreamInv, IsLast
  <2>2. LockInv'
    BY <1>3 DEF SetRetention, LockInv, tasks
  <2>3. HeadInv'
    BY <1>3 DEF SetRetention, HeadInv, LastHash, IsLast, tasks
  <2> QED BY <2>1, <2>2, <2>3
<1>4. ASSUME NEW t \in Tasks, Step(t) PROVE WriterInv'
  BY <1>4, <1>t, TaskWriter
<1>5. ASSUME NEW p \in Procs, Open(p) PROVE WriterInv'
  <2>0. \A t \in Tasks : pc[t] = "idle"
    BY <1>5, <1>0, NoProcAssumption DEF Open, BusyOwner
  <2>1. StreamInv'
    BY <1>5 DEF Open, StreamInv, IsLast, store
  <2>2. LockInv'
    BY <1>5, <2>0, NoProcAssumption DEF Open, LockInv, Holding, tasks
  <2>3. registry[p] = NoWriter
    BY <1>5, NoProcAssumption DEF Open, LockInv
  <2>4. HeadInv'
    BY <1>5, <2>0, <2>3 DEF Open, HeadInv, NoWriter, Building, tasks
  <2> QED BY <2>1, <2>2, <2>4
<1>6. CASE Close
  <2>1. StreamInv'
    BY <1>6 DEF Close, StreamInv, IsLast, store
  <2>2. LockInv'
    BY <1>6, <1>0, EmptyRecords
    DEF Close, LockInv, Holding, tasks, Reliable, TypeOK
  <2>3. HeadInv'
    BY <1>6, NoProcAssumption DEF Close, HeadInv, Building, tasks
  <2> QED BY <1>t, <2>1, <2>2, <2>3
<1>7. CASE Crash
  <2>1. StreamInv'
    BY <1>7 DEF Crash, StreamInv, IsLast, store
  <2>2. LockInv'
    BY <1>7, <1>0, EmptyRecords DEF Crash, LockInv, Holding, TypeOK
  <2>3. HeadInv'
    BY <1>7, NoProcAssumption DEF Crash, HeadInv, Building
  <2> QED BY <1>t, <2>1, <2>2, <2>3
<1>8. CASE UNCHANGED vars
  <2>1. StreamInv'
    BY <1>8 DEF vars, StreamInv, IsLast, store
  <2>2. LockInv'
    BY <1>8 DEF vars, LockInv, tasks
  <2>3. HeadInv'
    BY <1>8 DEF vars, HeadInv, LastHash, IsLast, tasks, store
  <2> QED BY <1>t, <2>1, <2>2, <2>3
<1> QED
  BY <1>t, <1>1, <1>2, <1>3, <1>4, <1>5, <1>6, <1>7, <1>8 DEF Next

\* Initially there is no event and no writer.
LEMMA InitWriter == Init => IInv
<1> SUFFICES ASSUME Init PROVE IInv
  OBVIOUS
<1>1. TypeInv
  BY EmptyRecords DEF Init, TypeInv, TypeOK, HasLast, BusyOwner, ModeCalls, Modes, PCs
<1>2. StreamInv
  BY DEF Init, StreamInv
<1>3. LockInv
  BY NoProcAssumption DEF Init, LockInv, Holding
<1>4. HeadInv
  BY NoProcAssumption DEF Init, HeadInv, Building, NoWriter
<1> QED BY <1>1, <1>2, <1>3, <1>4 DEF IInv, WriterInv

\* The cached head is the stored head in every reachable state: racing slow
\* paths, failed writes and crashes never leave a stale writer in use.
THEOREM WriterCorrect ==
  ASSUME Reliable
  PROVE  Spec => []WriterInv
<1>1. IInv /\ [Next]_vars => IInv'
  BY NextWriter
<1>2. IInv => WriterInv
  BY DEF IInv
<1> QED BY InitWriter, <1>1, <1>2, PTL DEF Spec
-----------------------------------------------------------------------------
(* What follows from it.                                                   *)

\* Only PutEvent touches the stream.
LEMMA OthersKeepEvents ==
  ASSUME [Next]_vars, \A t \in Tasks : ~PutEvent(t)
  PROVE  events' = events
<1>1. ASSUME NEW t \in Tasks, Step(t) PROVE events' = events
  BY <1>1 DEF Step, PutMode, PutModeFails, GetMode, Lookup, LoadSeq, LoadInst,
     PutInst, PutInstFails, LoadHash, Insert, Lock, SeqNext, SeqNextFails,
     PutEventFails, Fail, store
<1> QED
  BY <1>1 DEF Next, Record, SetMode, SetRetention, Open, Close, Crash, vars, store

\* `mati verify-chain` finds every stored event linked to its predecessor,
\* for any number of concurrent tasks, failed writes and crashes.
THEOREM ChainCorrect ==
  ASSUME Reliable
  PROVE  Spec => []ChainIntact
<1>1. Init => IInv /\ ChainIntact
  BY InitWriter DEF Init, ChainIntact, LinkageBreaks
<1>2. IInv /\ ChainIntact /\ [Next]_vars => IInv' /\ ChainIntact'
  <2> SUFFICES ASSUME IInv, ChainIntact, [Next]_vars PROVE IInv' /\ ChainIntact'
    OBVIOUS
  <2>1. IInv'
    BY NextWriter
  <2>2. CASE \A t \in Tasks : ~PutEvent(t)
    <3>1. events' = events
      BY <2>2, OthersKeepEvents
    <3>2. ChainIntact'
      BY <3>1 DEF ChainIntact, LinkageBreaks, Consecutive
    <3> QED BY <2>1, <3>2
  <2>3. ASSUME NEW t \in Tasks, PutEvent(t) PROVE ChainIntact'
    <3> DEFINE n == NewEvent(t)
    <3>1. /\ n \in Event
          /\ \A e \in events : e.seq < n.seq
          /\ events' = events \cup {n}
          /\ n.prev = LastHash(events)
      BY <2>3, AppendFacts
    <3>2. \A e \in events : e \in Event
      BY DEF IInv, TypeInv, TypeOK
    <3> SUFFICES ASSUME NEW f \in events', NEW e \in events',
                        Consecutive(e, f, events')
                 PROVE  f.prev = e.id
      BY DEF ChainIntact, LinkageBreaks
    <3>3. CASE f = n
      <4>1. e \in events
        BY <3>1, <3>3 DEF Consecutive, Event
      <4>2. \A g \in events : g # e => g.seq < e.seq
        <5> SUFFICES ASSUME NEW g \in events, g # e PROVE g.seq < e.seq
          OBVIOUS
        <5>1. g.seq <= e.seq
          BY <3>1, <3>2, <3>3 DEF Consecutive, Event
        <5>2. g.seq # e.seq
          BY <4>1 DEF IInv, WriterInv, StreamInv
        <5> QED BY <5>1, <5>2, <4>1, <3>2 DEF Event
      <4>3. LastHash(events) = e.id
        BY <4>1, <4>2, <3>2, LastHashOfLast
      <4> QED BY <3>1, <3>3, <4>3
    <3>4. CASE f # n
      <4>1. f \in events /\ e \in events
        BY <3>1, <3>2, <3>4 DEF Consecutive, Event
      <4>2. Consecutive(e, f, events)
        BY <3>1 DEF Consecutive
      <4> QED BY <4>1, <4>2 DEF ChainIntact, LinkageBreaks
    <3> QED BY <3>3, <3>4
  <2> QED BY <2>1, <2>2, <2>3
<1> QED BY <1>1, <1>2, PTL DEF Spec

\* No recorded event is ever overwritten or removed: sequence numbers never
\* collide, within a process or across crashes and restarts.
THEOREM AppendOnlyCorrect ==
  ASSUME Reliable
  PROVE  Spec => AppendOnly
<1>1. IInv /\ [Next]_vars => IInv'
  BY NextWriter
<1>2. IInv /\ [Next]_vars => [events \subseteq events']_vars
  <2> SUFFICES ASSUME IInv, [Next]_vars PROVE events \subseteq events'
    OBVIOUS
  <2>1. CASE \A t \in Tasks : ~PutEvent(t)
    BY <2>1, OthersKeepEvents
  <2>2. ASSUME NEW t \in Tasks, PutEvent(t) PROVE events \subseteq events'
    BY <2>2, AppendFacts
  <2> QED BY <2>1, <2>2
<1> QED BY InitWriter, <1>1, <1>2, PTL DEF Spec, AppendOnly

\* The concurrent writer implements the abstract audit log: every step either
\* appends one event linked to the current head or changes nothing a reader
\* of the log can see.
THEOREM Implementation ==
  ASSUME Reliable
  PROVE  Spec => ImplementsAuditLog
<1> DEFINE Entries(S) == {[id |-> e.id, prev |-> e.prev] : e \in S}
<1>1. IInv /\ [Next]_vars => IInv'
  BY NextWriter
<1>2. Init => AuditLog!Init
  BY DEF Init, AuditLog!Init, LastHash
<1>3. IInv /\ [Next]_vars =>
        [AuditLog!Next]_<<Entries(events), LastHash(events)>>
  <2> SUFFICES ASSUME IInv, [Next]_vars
               PROVE  [AuditLog!Next]_<<Entries(events), LastHash(events)>>
    OBVIOUS
  <2>1. CASE \A t \in Tasks : ~PutEvent(t)
    <3>1. events' = events
      BY <2>1, OthersKeepEvents
    <3> QED BY <3>1
  <2>2. ASSUME NEW t \in Tasks, PutEvent(t) PROVE AuditLog!Next
    <3> DEFINE n == NewEvent(t)
    <3>1. /\ events' = events \cup {n}
          /\ n.id = nextId /\ n.prev = LastHash(events)
          /\ LastHash(events') = nextId /\ nextId \in Nat
          /\ \A e \in events : 0 < e.id /\ e.id < nextId
      BY <2>2, AppendFacts
    <3>2. nextId # 0 /\ \A e \in events : e.id # nextId
      BY <3>1 DEF IInv, WriterInv, StreamInv, TypeInv, TypeOK, Event
    <3>3. Entries(events') = Entries(events)
             \cup {[id |-> nextId, prev |-> LastHash(events)]}
      BY <3>1
    <3>4. \A x \in Entries(events) : x.id # nextId
      BY <3>2
    <3> QED BY <3>1, <3>2, <3>3, <3>4 DEF AuditLog!Next, AuditLog!Append
  <2> QED BY <2>1, <2>2
<1> QED BY InitWriter, <1>1, <1>2, <1>3, PTL
        DEF Spec, ImplementsAuditLog, AuditLog!Spec
-----------------------------------------------------------------------------
(* How many numbers are lost.                                              *)

\* The tasks that have taken a number and not yet used it.
Taken == {t \in Tasks : pc[t] = "event"}

\* Numbers the cached counter has passed and the store has not: a persist that
\* failed leaves the counter advanced, and the next one makes holes of them.
Ahead ==
    IF owner \in Procs /\ registry[owner].live
      THEN registry[owner].seq - seqKey ELSE 0

\* HolesAccounted, with the numbers that are going to be holes.
HolesInv ==
    /\ Cardinality(Holes) + Ahead <= fails + crashes + Cardinality(Taken)
    /\ Taken # {} => 0 < seqKey

\* The holes are finitely many.
LEMMA HolesFinite ==
  ASSUME NEW n \in Nat, NEW S
  PROVE  LET H == {s \in 1..n : \A e \in S : e.seq # s}
         IN  IsFiniteSet(H) /\ Cardinality(H) \in Nat
<1> DEFINE H == {s \in 1..n : \A e \in S : e.seq # s}
<1>1. IsFiniteSet(1..n)
  BY FS_Interval
<1>2. IsFiniteSet(H)
  BY <1>1, FS_Subset
<1> QED BY <1>2, FS_CardinalityType

\* The count of a run of numbers, of a disjoint union and of a removal.
LEMMA CountRun ==
  ASSUME NEW n \in Nat, NEW d \in Nat
  PROVE  IsFiniteSet(n + 1 .. n + 1 + d) /\ Cardinality(n + 1 .. n + 1 + d) = d + 1
<1>1. n + 1 \in Int /\ n + 1 + d \in Int /\ ~(n + 1 > n + 1 + d)
  OBVIOUS
<1> QED BY <1>1, FS_Interval

LEMMA CountDisjoint ==
  ASSUME NEW S, NEW T, IsFiniteSet(S), IsFiniteSet(T), S \cap T = {}
  PROVE  Cardinality(S \cup T) = Cardinality(S) + Cardinality(T)
<1>1. Cardinality(S \cap T) = 0
  BY FS_EmptySet
<1>2. Cardinality(S) \in Nat /\ Cardinality(T) \in Nat
  BY FS_CardinalityType
<1>3. Cardinality(S \cup T) = Cardinality(S) + Cardinality(T) - Cardinality(S \cap T)
  BY FS_Union
<1> QED BY <1>1, <1>2, <1>3

\* The lock admits one task at a time, so at most one number is taken.
TakenOne ==
    /\ Cardinality(Taken) \in 0..1
    /\ Taken = {} => Cardinality(Taken) = 0
    /\ Taken # {} => Cardinality(Taken) = 1
LEMMA TakenCount == LockInv => TakenOne
<1> SUFFICES ASSUME LockInv PROVE TakenOne
  OBVIOUS
<1> USE DEF TakenOne
<1>1. CASE Taken = {}
  BY <1>1, FS_EmptySet
<1>2. CASE Taken # {}
  <2>1. PICK t \in Tasks : pc[t] = "event"
    BY <1>2 DEF Taken
  <2>2. Taken = {t}
    BY <2>1 DEF Taken, LockInv, Holding
  <2> QED BY <2>2, FS_Singleton
<1> QED BY <1>1, <1>2

\* Ahead is a natural number: the cached counter never trails the stored one.
LEMMA AheadType == IInv => Ahead \in Nat
  BY DEF IInv, TypeInv, TypeOK, WriterInv, HeadInv, Ahead, Writer

\* The quantities HolesInv compares are numbers, before and after a step.
LEMMA HoleCounts ==
  ASSUME IInv, IInv'
  PROVE  /\ Cardinality(Holes) \in Nat /\ Cardinality(Holes') \in Nat
         /\ TakenOne /\ TakenOne'
         /\ Ahead \in Nat /\ Ahead' \in Nat
         /\ fails \in Nat /\ crashes \in Nat /\ fails' \in Nat /\ crashes' \in Nat
<1>0. TypeOK /\ TypeOK' /\ LockInv /\ LockInv'
  BY DEF IInv, TypeInv, WriterInv
<1>1. Cardinality(Holes) \in Nat /\ Cardinality(Holes') \in Nat
  BY <1>0, HolesFinite DEF Holes, TypeOK
<1>2. LockInv' => TakenOne'
  BY TakenCount, PTL
<1>3. IInv' => (Ahead \in Nat)'
  BY AheadType, PTL
<1> QED BY <1>0, <1>1, <1>2, <1>3, TakenCount, AheadType DEF TypeOK

\* A step that leaves the stream, the cached counter and the taken numbers alone.
LEMMA QuietHoles ==
  ASSUME IInv, IInv', HolesInv,
         UNCHANGED <<seqKey, events>>, Taken' = Taken, Ahead' <= Ahead,
         fails <= fails', crashes <= crashes'
  PROVE  HolesInv'
<1>1. Holes' = Holes
  BY DEF Holes
<1> QED BY <1>1, HoleCounts DEF HolesInv, TakenOne

\* A step of a task keeps the count of the holes.
LEMMA TaskHoles ==
  ASSUME IInv, IInv', HolesInv, NEW t \in Tasks, Step(t)
  PROVE  HolesInv'
<1>0. TypeOK /\ TypeOK' /\ LockInv /\ LockInv' /\ HeadInv /\ HeadInv' /\ BusyOwner
  BY DEF IInv, TypeInv, WriterInv
<1>c. /\ Cardinality(Holes) \in Nat /\ Cardinality(Holes') \in Nat
      /\ TakenOne /\ TakenOne'
      /\ Ahead \in Nat /\ Ahead' \in Nat
      /\ fails \in Nat /\ crashes \in Nat /\ fails' \in Nat
  BY HoleCounts
<1>o. pc[t] # "idle" => owner \in Procs
  BY <1>0 DEF BusyOwner
\* A step from a place, and to a place, other than "event".
<1>p. ASSUME NEW l, pc' = [pc EXCEPT ![t] = l], l # "event", pc[t] # "event"
      PROVE  Taken' = Taken
  BY <1>p, <1>0 DEF Taken, TypeOK
<1>1. CASE \/ PutMode(t) \/ PutModeFails(t) \/ GetMode(t) \/ Lookup(t) \/ LoadSeq(t)
           \/ LoadInst(t) \/ PutInst(t) \/ PutInstFails(t) \/ LoadHash(t) \/ Lock(t)
  <2> DEFINE Quiet == /\ \E l \in PCs \ {"event"} : pc' = [pc EXCEPT ![t] = l]
                      /\ pc[t] # "event"
                      /\ UNCHANGED <<seqKey, events, owner, registry, crashes>>
                      /\ fails' \in {fails, fails + 1}
  <2>1. ASSUME PutMode(t) PROVE Quiet
    BY <2>1 DEF PutMode, Goto, PCs, store
  <2>2. ASSUME PutModeFails(t) PROVE Quiet
    BY <2>2 DEF PutModeFails, Goto, PCs, store
  <2>3. ASSUME GetMode(t) PROVE Quiet
    BY <2>3 DEF GetMode, Goto, PCs, store
  <2>4. ASSUME Lookup(t) PROVE Quiet
    BY <2>4 DEF Lookup, Goto, PCs, store
  <2>5. ASSUME LoadSeq(t) PROVE Quiet
    BY <2>5 DEF LoadSeq, Goto, PCs, store
  <2>6. ASSUME LoadInst(t) PROVE Quiet
    BY <2>6 DEF LoadInst, Goto, PCs, store
  <2>7. ASSUME PutInst(t) PROVE Quiet
    BY <2>7 DEF PutInst, Goto, PCs, store
  <2>8. ASSUME PutInstFails(t) PROVE Quiet
    BY <2>8 DEF PutInstFails, Fail, PCs, store
  <2>9. ASSUME LoadHash(t) PROVE Quiet
    BY <2>9 DEF LoadHash, Goto, PCs, store
  <2>10. ASSUME Lock(t) PROVE Quiet
    BY <2>10 DEF Lock, Goto, PCs, store
  <2>q. Quiet
    BY <1>1, <2>1, <2>2, <2>3, <2>4, <2>5, <2>6, <2>7, <2>8, <2>9, <2>10
  <2>11. Taken' = Taken
    BY <2>q, <1>p
  <2>12. Ahead' = Ahead
    BY <2>q DEF Ahead
  <2> QED BY <2>q, <2>11, <2>12, <1>c, QuietHoles
<1>2. CASE Insert(t)
  <2>1. Taken' = Taken
    BY <1>2, <1>p DEF Insert, Goto
  <2>2. Ahead' <= Ahead
    BY <1>2, <1>0, <1>o, <1>c DEF Insert, Ahead, HeadInv, Building, TypeOK, Writer, store
  <2> QED BY <1>2, <2>1, <2>2, <1>c, QuietHoles DEF Insert, store
<1>3. CASE SeqNext(t)
  <2> DEFINE new == seqKey + 1 .. seqKey + 1 + Ahead
  <2>1. /\ owner \in Procs /\ registry[owner].live /\ registry[owner] \in Writer
        /\ seqKey \in Nat /\ seqKey <= registry[owner].seq
    BY <1>3, <1>0, <1>o DEF SeqNext, LockInv, HeadInv, Holding, TypeOK
  <2>2. seqKey' = seqKey + 1 + Ahead /\ Ahead' = 0
    BY <1>3, <1>0, <2>1 DEF SeqNext, Ahead, TypeOK, Writer
  <2>3. Taken = {} /\ Taken' = {t}
    BY <1>3, <1>0 DEF SeqNext, Goto, Taken, LockInv, Holding, TypeOK
  <2>4. events' = events /\ fails' = fails /\ crashes' = crashes
    BY <1>3 DEF SeqNext
  <2>5. \A e \in events : e.seq \in Nat /\ e.seq <= seqKey
    BY DEF IInv, TypeInv, TypeOK, WriterInv, StreamInv, Event
  <2>6. Holes' = Holes \cup new /\ Holes \cap new = {}
    BY <1>c, <2>1, <2>2, <2>4, <2>5 DEF Holes
  <2>7. IsFiniteSet(new) /\ Cardinality(new) = Ahead + 1
    BY <1>c, <2>1, CountRun
  <2>8. IsFiniteSet(Holes)
    BY <2>1, HolesFinite DEF Holes
  <2>9. Cardinality(Holes') = Cardinality(Holes) + (Ahead + 1)
    <3> HIDE DEF new
    <3> QED BY <2>6, <2>7, <2>8, CountDisjoint
  <2> QED
    BY <1>c, <2>1, <2>2, <2>3, <2>4, <2>9 DEF HolesInv, TakenOne
<1>4. CASE SeqNextFails(t)
  <2>1. Taken' = Taken
    BY <1>4, <1>p DEF SeqNextFails, Fail
  <2>2. Holes' = Holes /\ seqKey' = seqKey
    BY <1>4 DEF SeqNextFails, Fail, Holes, store
  <2>3. Ahead' = Ahead + 1 /\ fails' = fails + 1 /\ crashes' = crashes
    BY <1>4, <1>0, <1>o DEF SeqNextFails, Fail, Ahead, LockInv, HeadInv, Holding,
       TypeOK, Writer, store
  <2> QED BY <2>1, <2>2, <2>3, <1>c DEF HolesInv, TakenOne
<1>5. CASE PutEvent(t)
  <2>1. /\ NewEvent(t).seq = seqKey
        /\ events' = events \cup {NewEvent(t)}
        /\ \A e \in events : e.seq < seqKey
    BY <1>5, AppendFacts
  <2>2. /\ owner \in Procs /\ UNCHANGED <<seqKey, owner, fails, crashes>>
        /\ seqKey = registry[owner].seq /\ registry[owner].live
    BY <1>5, <1>0, <1>o DEF PutEvent, HeadInv, LockInv, Holding
  <2>3. Taken = {t} /\ Taken' = {}
    BY <1>5, <1>0 DEF PutEvent, Goto, Taken, LockInv, Holding, TypeOK
  <2>4. seqKey \in Holes /\ Holes' = Holes \ {seqKey}
    <3>1. seqKey \in Nat /\ 0 < seqKey /\ \A e \in events : e.seq \in Nat
      BY <1>0, <2>3 DEF HolesInv, TypeOK, Event
    <3> QED BY <3>1, <2>1, <2>2 DEF Holes
  <2>5. Cardinality(Holes') = Cardinality(Holes) - 1
    <3>1. IsFiniteSet(Holes)
      BY <1>0, HolesFinite DEF Holes, TypeOK
    <3> QED BY <2>4, <3>1, FS_RemoveElement
  <2>6. Ahead' = 0 /\ Ahead = 0
    BY <1>5, <1>0, <2>2 DEF PutEvent, Ahead, TypeOK, Writer
  <2> QED BY <1>c, <2>2, <2>3, <2>5, <2>6 DEF HolesInv, TakenOne
<1>6. CASE PutEventFails(t)
  <2>1. Taken' = {}
    BY <1>6, <1>0 DEF PutEventFails, Fail, Taken, LockInv, Holding, TypeOK
  <2>2. UNCHANGED <<seqKey, events, owner, registry, crashes>> /\ fails' = fails + 1
    BY <1>6 DEF PutEventFails, Fail, store
  <2>3. Holes' = Holes /\ Ahead' = Ahead
    BY <2>2 DEF Holes, Ahead
  <2> QED BY <1>c, <2>1, <2>2, <2>3 DEF HolesInv, TakenOne
<1> QED BY <1>1, <1>2, <1>3, <1>4, <1>5, <1>6 DEF Step

\* Every step keeps the count of the holes.
LEMMA NextHoles ==
  ASSUME IInv, IInv', HolesInv, Reliable, [Next]_vars
  PROVE  HolesInv'
<1>0. TypeOK /\ TypeOK' /\ LockInv /\ HeadInv /\ NoWriter.live = FALSE
  BY DEF IInv, TypeInv, WriterInv, NoWriter
<1>c. /\ Ahead \in Nat /\ Ahead' \in Nat /\ fails \in Nat /\ crashes \in Nat
      /\ Cardinality(Holes) \in Nat /\ TakenOne /\ TakenOne'
  BY HoleCounts
<1>1. ASSUME NEW t \in Tasks, Step(t) PROVE HolesInv'
  BY <1>1, TaskHoles
<1>2. ASSUME NEW t \in Tasks, Record(t) \/ \E m \in Modes : SetMode(t, m) PROVE HolesInv'
  <2>1. Taken' = Taken
    BY <1>2, <1>0 DEF Record, SetMode, Goto, Taken, TypeOK
  <2>2. UNCHANGED <<seqKey, events, owner, registry, fails, crashes>>
    BY <1>2 DEF Record, SetMode, store
  <2>3. Ahead' = Ahead
    BY <2>2 DEF Ahead
  <2> QED BY <1>c, <2>1, <2>2, <2>3, QuietHoles
<1>3. CASE \/ \E t \in Tasks : \E d \in {30, 365} : SetRetention(t, d)
           \/ UNCHANGED vars
  <2>1. UNCHANGED <<seqKey, events, owner, registry, pc, fails, crashes>>
    BY <1>3 DEF SetRetention, vars, tasks, store
  <2>2. Taken' = Taken /\ Ahead' = Ahead
    BY <2>1 DEF Taken, Ahead
  <2> QED BY <1>c, <2>1, <2>2, QuietHoles
<1>4. CASE (\E p \in Procs : Open(p)) \/ Close
  <2>1. UNCHANGED <<seqKey, events, pc, fails, crashes>>
    BY <1>4 DEF Open, Close, tasks, store
  <2>2. Ahead' = 0
    BY <1>4, <1>0, NoProcAssumption DEF Open, Close, Ahead, LockInv
  <2>3. Taken' = Taken
    BY <2>1 DEF Taken
  <2> QED BY <1>c, <2>1, <2>2, <2>3, QuietHoles
<1>5. CASE Crash
  <2>1. Taken' = {} /\ Ahead' = 0 /\ crashes' = crashes + 1
    BY <1>5, NoProcAssumption DEF Crash, Taken, Ahead
  <2>2. Holes' = Holes /\ fails' = fails
    BY <1>5 DEF Crash, Holes, store
  <2> QED BY <1>c, <2>1, <2>2 DEF HolesInv, TakenOne
<1> QED BY <1>1, <1>2, <1>3, <1>4, <1>5 DEF Next

\* A failed write or a crash costs at most one sequence number: the holes in
\* the stream never outnumber the faults and the one number being written.
THEOREM HolesCorrect ==
  ASSUME Reliable
  PROVE  Spec => []HolesAccounted
<1>1. Init => IInv /\ HolesInv
  <2> SUFFICES ASSUME Init PROVE IInv /\ HolesInv
    OBVIOUS
  <2>1. IInv
    BY InitWriter
  <2>2. Holes = {} /\ Taken = {} /\ Ahead = 0
    BY NoProcAssumption DEF Init, Holes, Taken, Ahead
  <2> QED BY <2>1, <2>2, FS_EmptySet DEF Init, HolesInv
<1>2. IInv /\ HolesInv /\ [Next]_vars => IInv' /\ HolesInv'
  BY NextWriter, NextHoles
<1>3. IInv /\ HolesInv => HolesAccounted
  <2> SUFFICES ASSUME IInv, HolesInv PROVE HolesAccounted
    OBVIOUS
  <2>1. Ahead \in Nat /\ Cardinality(Holes) \in Nat /\ Cardinality(Taken) \in 0..1
    BY AheadType, TakenCount, HolesFinite
    DEF IInv, TypeInv, TypeOK, WriterInv, TakenOne, Holes
  <2> QED BY <2>1 DEF HolesInv, HolesAccounted, Taken, IInv, TypeInv, TypeOK
<1> QED BY <1>1, <1>2, <1>3, PTL DEF Spec

-----------------------------------------------------------------------------
(***************************************************************************)
(* Evidence: the log read back, for any subjects, sessions, ages and any   *)
(* length of the log.                                                      *)
(***************************************************************************)

\* A strict total order arranges a finite set, and all of it.
LEMMA Arrangement ==
    ASSUME NEW S, IsFiniteSet(S), NEW R,
           \A x, y \in S : x # y => <<x, y>> \in R \/ <<y, x>> \in R,
           \A x, y, z \in S : <<x, y>> \in R /\ <<y, z>> \in R => <<x, z>> \in R,
           \A x \in S : <<x, x>> \notin R
    PROVE  LET s == Arranged(S, R) IN
           /\ s \in [1 .. Cardinality(S) -> S]
           /\ \A i, j \in 1 .. Cardinality(S) : i < j => <<s[i], s[j]>> \in R
           /\ \A x \in S : \E i \in 1 .. Cardinality(S) : s[i] = x
<1> PICK n : n = Cardinality(S)
    OBVIOUS
<1>0. n \in Nat
  BY FS_CardinalityType
<1> DEFINE Below(x) == {y \in S : <<y, x>> \in R}
           r == [x \in S |-> Cardinality(Below(x)) + 1]
<1>1. ASSUME NEW x \in S PROVE IsFiniteSet(Below(x)) /\ Cardinality(Below(x)) \in Nat
  <2>1. Below(x) \in SUBSET S
    OBVIOUS
  <2>q. QED BY <2>1, FS_Subset, FS_CardinalityType
<1>2. ASSUME NEW x \in S, NEW y \in S, <<x, y>> \in R PROVE r[x] < r[y]
  <2>1. x \notin Below(x) /\ Below(x) \cup {x} \in SUBSET Below(y)
    BY <1>2
  <2>2. Cardinality(Below(x) \cup {x}) = Cardinality(Below(x)) + 1
    BY <1>1, <2>1, FS_AddElement
  <2>3. Cardinality(Below(x) \cup {x}) <= Cardinality(Below(y))
    BY <1>1, <2>1, FS_Subset
  <2>q. QED BY <1>1, <2>2, <2>3
<1>3. ASSUME NEW x \in S PROVE r[x] \in 1 .. n
  <2>1. x \notin Below(x) /\ Below(x) \cup {x} \in SUBSET S
    OBVIOUS
  <2>2. Cardinality(Below(x) \cup {x}) = Cardinality(Below(x)) + 1
    BY <1>1, <2>1, FS_AddElement
  <2>3. Cardinality(Below(x) \cup {x}) <= n
    BY <2>1, FS_Subset
  <2>q. QED BY <1>0, <1>1, <2>2, <2>3
<1> HIDE DEF r
<1>4. r \in Injection(S, 1 .. n)
  <2>1. r \in [S -> 1 .. n]
    BY <1>3 DEF r
  <2>2. ASSUME NEW x \in S, NEW y \in S, x # y PROVE r[x] # r[y]
    <3>1. r[x] \in Int /\ r[y] \in Int
      BY <1>0, <1>3
    <3>2. r[x] < r[y] \/ r[y] < r[x]
      BY <1>2, <2>2
    <3>q. QED BY <3>1, <3>2
  <2>q. QED BY <2>1, <2>2 DEF Injection, IsInjective
<1>5. IsFiniteSet(1 .. n) /\ Cardinality(1 .. n) = n
  BY <1>0, FS_Interval
<1>6. r \in Surjection(S, 1 .. n)
  BY <1>4, <1>5, FS_Injection
<1>7. \E s \in [1 .. n -> S] : \A i, j \in 1 .. n : i < j => <<s[i], s[j]>> \in R
  <2> DEFINE s == [i \in 1 .. n |-> CHOOSE x \in S : r[x] = i]
  <2>1. \A i \in 1 .. n : s[i] \in S /\ r[s[i]] = i
    BY <1>6 DEF Surjection
  <2>2. s \in [1 .. n -> S]
    BY <2>1
  <2> HIDE DEF s
  <2>3. ASSUME NEW i \in 1 .. n, NEW j \in 1 .. n, i < j PROVE <<s[i], s[j]>> \in R
    <3>1. s[i] # s[j]
      BY <2>1, <2>3
    <3>2. <<s[j], s[i]>> \notin R
      BY <1>0, <1>2, <2>1, <2>3
    <3>q. QED BY <2>1, <3>1, <3>2
  <2>q. QED BY <2>2, <2>3
<1> PICK s : s = Arranged(S, R)
    OBVIOUS
<1>8. s \in [1 .. n -> S] /\ \A i, j \in 1 .. n : i < j => <<s[i], s[j]>> \in R
  BY <1>7 DEF Arranged
<1>9. s \in Injection(1 .. n, S)
  <2>1. ASSUME NEW i \in 1 .. n, NEW j \in 1 .. n, i # j PROVE s[i] # s[j]
    <3>1. i < j \/ j < i
      BY <1>0, <2>1
    <3>q. QED BY <1>8, <3>1
  <2>q. QED BY <1>8, <2>1 DEF Injection, IsInjective
<1>10. s \in Surjection(1 .. n, S)
  BY <1>5, <1>9, FS_Injection
<1>q. QED BY <1>8, <1>10 DEF Surjection

\* A nonempty set of naturals has a least element, a bounded one a greatest.
LEMMA LeastOf ==
    ASSUME NEW T \in SUBSET Nat, T # {}
    PROVE  \E m \in T : \A n \in T : m <= n
<1>1. PICK R : R = {ss \in Nat \X Nat : ss[1] < ss[2]}
  OBVIOUS
<1>2. IsWellFoundedOn(R, Nat)
  BY <1>1, NatLessThanWellFounded DEF OpToRel
<1>3. PICK m \in T : \A n \in T : ~(<<n, m>> \in R)
  BY <1>2, WFMin
<1>4. ASSUME NEW n \in T PROVE m <= n
  <2>1. <<n, m>> \in Nat \X Nat /\ <<n, m>>[1] = n /\ <<n, m>>[2] = m /\ <<n, m>> \notin R
    BY <1>3
  <2>2. ~(n < m)
    BY <2>1, <1>1
  <2>q. QED BY <2>2
<1>q. QED BY <1>4

LEMMA GreatestOf ==
    ASSUME NEW b \in Nat, NEW T \in SUBSET (0 .. b), T # {}
    PROVE  \E m \in T : \A n \in T : n <= m
<1> DEFINE U == {b - n : n \in T}
<1>1. U \in SUBSET Nat /\ U # {}
  <2>1. \A n \in T : b - n \in Nat
    OBVIOUS
  <2>q. QED BY <2>1
<1> HIDE DEF U
<1>2. PICK u \in U : \A v \in U : u <= v
  BY <1>1, LeastOf
<1>3. PICK m \in T : u = b - m
  BY <1>2 DEF U
<1>4. ASSUME NEW n \in T PROVE n <= m
  <2>1. b - n \in U
    BY DEF U
  <2>2. b - m <= b - n
    BY <1>2, <1>3, <2>1
  <2>3. n \in Int /\ m \in Int
    OBVIOUS
  <2>q. QED BY <2>2, <2>3
<1>q. QED BY <1>4

-----------------------------------------------------------------------------
\* What the log is, next to what was written to it.
Fields == {"seq", "schema", "at", "kind", "subject", "session", "prev", "hash", "readable"}
Written(n) == trace[n].event

TraceInv ==
    /\ seqCtr \in Nat /\ evNow \in Nat
    /\ trace = [n \in 1 .. seqCtr |-> trace[n]]
    /\ \A n \in 1 .. seqCtr :
          /\ DOMAIN Written(n) = Fields /\ Written(n).seq = n /\ Written(n).readable
          /\ Written(n).schema \in 1 .. 3 /\ (~newer => Written(n).schema <= 2) /\ Written(n).at \in Nat
          /\ Written(n).hash = ComputeHash(Written(n))
          /\ trace[n].pred = HashOwner(Written(n).prev)
          /\ Written(n).prev # NoHash => \E m \in 1 .. (n - 1) : Written(n).prev = Written(m).hash

\* A stored event is the written one but for what hands have changed in it.
LogInv ==
    /\ \A e \in stored :
          LET w == Written(e.seq) IN
          /\ e.seq \in 1 .. seqCtr /\ DOMAIN e = Fields
          /\ e.schema = w.schema /\ e.at = w.at /\ e.kind = w.kind /\ e.prev = w.prev /\ e.hash = w.hash
          /\ ~touched => e.subject = w.subject /\ e.session = w.session /\ e.readable
    /\ \A e, f \in stored : e.seq = f.seq => e = f
    /\ \A h \in writer : h # NoHash => \E m \in 1 .. seqCtr : h = Written(m).hash

\* While the clock runs forward the log is in the order of its times.
ClockInv ==
    ~skewed => /\ \A n \in 1 .. seqCtr : Written(n).at <= evNow
               /\ \A m, n \in 1 .. seqCtr : m <= n => Written(m).at <= Written(n).at

\* A retention run takes the oldest events, and no other hand takes any: each
\* event left follows the one before it, and so will the next.
ChainInv ==
    ~skewed /\ ~touched =>
    /\ doomed \subseteq stored
    /\ \A e \in doomed, f \in stored : f.seq < e.seq => f \in doomed
    /\ \A e, f \in stored : /\ f.seq < e.seq
                            /\ \A x \in stored : x.seq <= f.seq \/ e.seq <= x.seq
                            => e.prev = f.hash
    /\ \A e \in stored : (\A f \in stored : f.seq <= e.seq) => Prev = e.hash

EvInv == TraceInv /\ LogInv /\ ClockInv /\ ChainInv

\* An event as the writer seals it.
LEMMA Sealing ==
    ASSUME NEW schema \in {1, 2, 3}, NEW kind, NEW subject, NEW session, NEW prev, TraceInv
    PROVE  LET e == SealedEvent(schema, kind, subject, session, prev) IN
           /\ DOMAIN e = Fields /\ e.seq = seqCtr + 1 /\ e.readable /\ e.schema = schema /\ e.at = evNow
           /\ e.kind = kind /\ e.subject = subject /\ e.session = session /\ e.prev = prev
           /\ e.hash = ComputeHash(e)
<1> DEFINE c == [seq |-> seqCtr + 1, schema |-> schema, at |-> evNow, kind |-> kind, subject |-> subject,
                 session |-> session, prev |-> prev, hash |-> NoHash, readable |-> TRUE]
<1> PICK d : d = ComputeHash(c)
    OBVIOUS
<1> PICK e : e = [c EXCEPT !.hash = d]
    OBVIOUS
<1>1. e = SealedEvent(schema, kind, subject, session, prev)
  BY DEF SealedEvent, Sealed
<1>2. /\ DOMAIN e = Fields /\ e.seq = seqCtr + 1 /\ e.readable /\ e.schema = schema /\ e.at = evNow
      /\ e.kind = kind /\ e.subject = subject /\ e.session = session /\ e.prev = prev /\ e.hash = d
  BY DEF Fields
<1>3. ComputeHash(e) = d
  BY <1>2 DEF ComputeHash, CanonicalEvent, CanonicalEventV2
<1>q. QED BY <1>1, <1>2, <1>3

\* Equal hashes, equal contents, the number among them.
LEMMA HashNumber ==
    ASSUME NEW e, e.schema \in Nat
    PROVE  /\ ComputeHash(e) # NoHash /\ HashOwner(ComputeHash(e)) = e.seq
           /\ \A f : f.schema = e.schema /\ ComputeHash(f) = ComputeHash(e) =>
                 /\ f.seq = e.seq /\ f.at = e.at /\ f.kind = e.kind /\ f.prev = e.prev /\ f.subject = e.subject
                 /\ e.schema >= 2 => f.session = e.session
  BY DEF ComputeHash, CanonicalEvent, CanonicalEventV2, NoHash, HashOwner

LEMMA NewestOldest ==
    ASSUME TraceInv, LogInv, NEW S \in SUBSET stored, S # {}
    PROVE  /\ Newest(S) \in S /\ \A f \in S : f.seq <= Newest(S).seq
           /\ Oldest(S) \in S /\ \A f \in S : Oldest(S).seq <= f.seq
<1> DEFINE T == {e.seq : e \in S}
<1>1. T \in SUBSET (0 .. seqCtr) /\ T \in SUBSET Nat /\ T # {} /\ seqCtr \in Nat
  BY DEF LogInv, TraceInv
<1>2. \E m \in T : \A n \in T : m <= n
  <2> HIDE DEF T
  <2>q. QED BY <1>1, LeastOf
<1>3. \E m \in T : \A n \in T : n <= m
  <2> HIDE DEF T
  <2>q. QED BY <1>1, GreatestOf
<1>4. \E e \in S : \A f \in S : f.seq <= e.seq
  BY <1>3
<1>5. \E e \in S : \A f \in S : e.seq <= f.seq
  BY <1>2
<1>q. QED BY <1>4, <1>5 DEF Newest, Oldest

\* The head a write links to: none, or the hash of some event; of the last one,
\* in a log only mati has written.
LEMMA HeadIs ==
    ASSUME EvInv, NEW h \in {Prev, LoadLastHash}
    PROVE  /\ h # NoHash => \E m \in 1 .. seqCtr : h = Written(m).hash
           /\ ~skewed /\ ~touched => \A e \in stored : (\A f \in stored : f.seq <= e.seq) => h = e.hash
<1>1. stored # {} => Newest(stored) \in stored /\ \A f \in stored : f.seq <= Newest(stored).seq
  BY NewestOldest DEF EvInv
<1>2. LoadLastHash # NoHash => \E m \in 1 .. seqCtr : LoadLastHash = Written(m).hash
  BY <1>1 DEF LoadLastHash, EvInv, LogInv
<1>3. Prev # NoHash => \E m \in 1 .. seqCtr : Prev = Written(m).hash
  <2>1. CASE writer = {}
    BY <1>2, <2>1 DEF Prev
  <2>2. CASE writer # {}
    <3>1. Prev \in writer
      BY <2>2 DEF Prev
    <3>q. QED BY <3>1 DEF EvInv, LogInv
  <2>q. QED BY <2>1, <2>2
<1>4. ASSUME ~touched, NEW e \in stored, \A f \in stored : f.seq <= e.seq PROVE LoadLastHash = e.hash
  <2>1. Newest(stored) = e
    <3>1. Newest(stored).seq = e.seq
      <4>1. e.seq \in Int /\ Newest(stored).seq \in Int
        BY <1>1 DEF EvInv, LogInv, TraceInv
      <4>q. QED BY <1>1, <1>4, <4>1
    <3>q. QED BY <1>1, <3>1 DEF EvInv, LogInv
  <2>q. QED BY <1>4, <2>1 DEF LoadLastHash, EvInv, LogInv
<1>q. QED BY <1>2, <1>3, <1>4 DEF EvInv, ChainInv

\* A write, lost or not, keeps what is known of the log.
LEMMA Growing ==
    ASSUME EvInv, NEW schema \in {1, 2, 3}, NEW kind, NEW subject, NEW session, NEW prev \in {Prev, LoadLastHash},
           NEW e, e = SealedEvent(schema, kind, subject, session, prev),
           seqCtr' = e.seq, Traced(e), UNCHANGED <<evNow, skewed, touched>>,
           newer \/ schema = 3 => newer',
           \/ stored' = stored /\ writer' = {prev}
           \/ stored' = stored \cup {e} /\ (writer' = {e.hash} \/ writer' = {}),
           doomed' = doomed \/ doomed' = {}
    PROVE  EvInv'
<1> USE DEF Written
<1>1. /\ DOMAIN e = Fields /\ e.seq = seqCtr + 1 /\ e.readable /\ e.schema = schema /\ e.at = evNow
      /\ e.prev = prev /\ e.hash = ComputeHash(e)
  BY Sealing DEF EvInv
<1>2. seqCtr \in Nat /\ seqCtr' = seqCtr + 1 /\ evNow \in Nat
  BY <1>1 DEF EvInv, TraceInv
<1>3. /\ DOMAIN trace' = 1 .. seqCtr' /\ trace'[e.seq] = [event |-> e, pred |-> HashOwner(prev)]
      /\ \A n \in 1 .. seqCtr : trace'[n] = trace[n]
      /\ trace' = [n \in 1 .. seqCtr' |-> trace'[n]]
  BY <1>1, <1>2 DEF Traced
<1>4. /\ trace'[e.seq].event = e /\ \A n \in 1 .. seqCtr : Written(n)' = Written(n)
  BY <1>2, <1>3, <1>1
<1>5. TraceInv'
  <2> SUFFICES ASSUME NEW n \in 1 .. seqCtr'
               PROVE  /\ DOMAIN Written(n)' = Fields /\ Written(n)'.seq = n /\ Written(n)'.readable
                      /\ Written(n)'.schema \in 1 .. 3 /\ (~newer' => Written(n)'.schema <= 2) /\ Written(n)'.at \in Nat
                      /\ Written(n)'.hash = ComputeHash(Written(n)')
                      /\ trace'[n].pred = HashOwner(Written(n)'.prev)
                      /\ Written(n)'.prev # NoHash => \E m \in 1 .. (n - 1) : Written(n)'.prev = Written(m)'.hash
      BY <1>2, <1>3 DEF TraceInv, ComputeHash, CanonicalEvent, CanonicalEventV2, NoHash, HashOwner
  <2>1. CASE n = seqCtr'
    <3>1. prev # NoHash => \E m \in 1 .. seqCtr : prev = Written(m).hash
      BY HeadIs
    <3>q. QED BY <1>1, <1>2, <1>3, <1>4, <2>1, <3>1
  <2>2. CASE n # seqCtr'
    <3>1. n \in 1 .. seqCtr /\ \A m \in 1 .. (n - 1) : m \in 1 .. seqCtr
      BY <1>2, <2>2
    <3>q. QED BY <1>3, <1>4, <3>1 DEF EvInv, TraceInv
  <2>q. QED BY <2>1, <2>2
<1>6. \A f \in stored : f.seq \in 1 .. seqCtr /\ f.seq < e.seq /\ f.seq \in 1 .. seqCtr' /\ Written(f.seq)' = Written(f.seq)
  BY <1>1, <1>2, <1>4 DEF EvInv, LogInv
<1>7. LogInv'
  <2>1. ASSUME NEW f \in stored'
        PROVE  LET w == Written(f.seq)' IN
               /\ f.seq \in 1 .. seqCtr' /\ DOMAIN f = Fields
               /\ f.schema = w.schema /\ f.at = w.at /\ f.kind = w.kind /\ f.prev = w.prev /\ f.hash = w.hash
               /\ ~touched' => f.subject = w.subject /\ f.session = w.session /\ f.readable
    <3>1. CASE f = e
      BY <1>1, <1>2, <1>4, <3>1
    <3>2. CASE f \in stored
      BY <1>6, <3>2 DEF EvInv, LogInv
    <3>q. QED BY <3>1, <3>2
  <2>2. ASSUME NEW f \in stored', NEW g \in stored', f.seq = g.seq PROVE f = g
    <3>1. (f \in stored /\ g \in stored) \/ (f = e /\ g = e)
      BY <1>2, <1>1, <1>6, <2>2
    <3>q. QED BY <2>2, <3>1 DEF EvInv, LogInv
  <2>3. ASSUME NEW h \in writer', h # NoHash PROVE \E m \in 1 .. seqCtr' : h = Written(m)'.hash
    <3>1. CASE h = prev
      <4>1. \E m \in 1 .. seqCtr : prev = Written(m).hash
        BY <2>3, <3>1, HeadIs
      <4>q. QED BY <1>2, <1>4, <3>1, <4>1
    <3>2. CASE h = e.hash
      BY <1>2, <1>4, <3>2
    <3>q. QED BY <2>3, <3>1, <3>2
  <2>q. QED BY <2>1, <2>2, <2>3 DEF LogInv
<1>8. ClockInv'
  <2> SUFFICES ASSUME ~skewed
               PROVE  /\ \A n \in 1 .. seqCtr' : Written(n)'.at <= evNow
                      /\ \A m, n \in 1 .. seqCtr' : m <= n => Written(m)'.at <= Written(n)'.at
      BY DEF ClockInv
  <2>1. \A n \in 1 .. seqCtr' : Written(n)'.at <= evNow /\ (n = seqCtr' => Written(n)'.at = evNow)
    <3> TAKE n \in 1 .. seqCtr'
    <3>1. CASE n = seqCtr'
      BY <1>1, <1>2, <1>4, <3>1
    <3>2. CASE n # seqCtr'
      BY <1>2, <1>4, <3>2 DEF EvInv, ClockInv
    <3>q. QED BY <3>1, <3>2
  <2>2. ASSUME NEW m \in 1 .. seqCtr', NEW n \in 1 .. seqCtr', m <= n PROVE Written(m)'.at <= Written(n)'.at
    <3>1. CASE n = seqCtr'
      BY <2>1, <3>1
    <3>2. CASE n # seqCtr'
      <4>1. m \in 1 .. seqCtr /\ n \in 1 .. seqCtr
        BY <1>2, <2>2, <3>2
      <4>q. QED BY <1>4, <2>2, <4>1 DEF EvInv, ClockInv
    <3>q. QED BY <3>1, <3>2
  <2>q. QED BY <2>1, <2>2
<1>9. ChainInv'
  <2> SUFFICES ASSUME ~skewed, ~touched
               PROVE  /\ doomed' \subseteq stored'
                      /\ \A x \in doomed', f \in stored' : f.seq < x.seq => f \in doomed'
                      /\ \A x, f \in stored' : /\ f.seq < x.seq
                                               /\ \A y \in stored' : y.seq <= f.seq \/ x.seq <= y.seq
                                               => x.prev = f.hash
                      /\ \A x \in stored' : (\A f \in stored' : f.seq <= x.seq) => Prev' = x.hash
      BY DEF ChainInv
  <2>1. stored \subseteq stored' /\ \A f \in stored' : f \in stored \/ f = e
    OBVIOUS
  <2>2. /\ doomed \subseteq stored
        /\ \A x \in doomed, f \in stored : f.seq < x.seq => f \in doomed
        /\ \A x, f \in stored : /\ f.seq < x.seq
                                /\ \A y \in stored : y.seq <= f.seq \/ x.seq <= y.seq
                                => x.prev = f.hash
    BY DEF EvInv, ChainInv
  <2>3. \A x \in stored : (\A f \in stored : f.seq <= x.seq) => prev = x.hash
    BY HeadIs
  <2>4. ASSUME NEW x \in doomed', NEW f \in stored', f.seq < x.seq PROVE f \in doomed'
    <3>1. x \in doomed /\ x \in stored /\ doomed' = doomed
      BY <2>2
    <3>2. f # e
      BY <1>1, <1>2, <1>6, <2>4, <3>1
    <3>q. QED BY <2>1, <2>2, <2>4, <3>1, <3>2
  <2>5. ASSUME NEW x \in stored', NEW f \in stored', f.seq < x.seq,
               \A y \in stored' : y.seq <= f.seq \/ x.seq <= y.seq
        PROVE  x.prev = f.hash
    <3>1. f \in stored
      <4>1. CASE f = e
        <5>1. x = e \/ x.seq < e.seq
          BY <1>6, <2>1
        <5>q. QED BY <1>1, <1>2, <1>6, <2>1, <2>5, <4>1, <5>1
      <4>q. QED BY <2>1, <4>1
    <3>2. CASE x \in stored
      BY <2>1, <2>2, <2>5, <3>1, <3>2
    <3>3. CASE x = e
      <4>1. \A y \in stored : y.seq <= f.seq
        BY <1>1, <1>2, <1>6, <2>1, <2>5, <3>3
      <4>q. QED BY <1>1, <2>3, <3>1, <3>3, <4>1
    <3>q. QED BY <2>1, <3>2, <3>3
  <2>6. ASSUME NEW x \in stored', \A f \in stored' : f.seq <= x.seq PROVE Prev' = x.hash
    <3>1. CASE stored' = stored /\ writer' = {prev}
      <4>1. Prev' = prev
        BY <3>1 DEF Prev
      <4>q. QED BY <2>3, <2>6, <3>1, <4>1
    <3>2. CASE stored' = stored \cup {e} /\ (writer' = {e.hash} \/ writer' = {})
      <4>1. x = e
        <5>1. e.seq <= x.seq
          BY <2>6, <3>2
        <5>q. QED BY <1>1, <1>2, <1>6, <2>1, <5>1
      <4>2. CASE writer' = {e.hash}
        BY <4>1, <4>2 DEF Prev
      <4>3. CASE writer' = {}
        <5>1. Newest(stored') = e
          <6>1. \A f \in stored' : f.seq <= e.seq
            BY <2>6, <4>1
          <6>2. \A g \in stored' : (\A f \in stored' : f.seq <= g.seq) => g = e
            BY <1>1, <1>2, <1>6, <2>1, <3>2
          <6>q. QED BY <3>2, <6>1, <6>2 DEF Newest
        <5>2. Newest(stored)' = e
          BY <5>1 DEF Newest
        <5>q. QED BY <1>1, <3>2, <4>1, <4>3, <5>2 DEF Prev, LoadLastHash
      <4>q. QED BY <3>2, <4>2, <4>3
    <3>q. QED BY <3>1, <3>2
  <2>7. doomed' \subseteq stored'
    BY <2>1, <2>2
  <2>q. QED BY <2>4, <2>5, <2>6, <2>7
<1>q. QED BY <1>5, <1>7, <1>8, <1>9 DEF EvInv

\* Steps that write nothing leave what was written, and the order of its times.
LEMMA Standing ==
    ASSUME EvInv, UNCHANGED <<seqCtr, trace, newer>>,
           \/ UNCHANGED <<evNow, skewed>>
           \/ evNow' = evNow + 1 /\ skewed' = skewed
           \/ evNow > 1 /\ evNow' = evNow - 1 /\ skewed'
    PROVE  TraceInv' /\ ClockInv'
<1>1. \A n : trace'[n] = trace[n]
  OBVIOUS
<1>2. evNow' \in Nat
  BY DEF EvInv, TraceInv
<1>3. TraceInv'
  BY <1>1, <1>2 DEF EvInv, TraceInv, Written, ComputeHash, CanonicalEvent, CanonicalEventV2, NoHash, HashOwner
<1>4. ClockInv'
  <2> SUFFICES ASSUME ~skewed, evNow <= evNow' PROVE ClockInv'
    BY <1>2 DEF EvInv, TraceInv, ClockInv
  <2>1. \A n \in 1 .. seqCtr : Written(n).at \in Nat /\ Written(n).at <= evNow
    BY DEF EvInv, TraceInv, ClockInv
  <2>2. \A n \in 1 .. seqCtr : Written(n).at <= evNow'
    BY <1>2, <2>1 DEF EvInv, TraceInv
  <2>q. QED BY <2>2 DEF EvInv, ClockInv, Written
<1>q. QED BY <1>3, <1>4

\* Hands that alter, take out or garble an event leave its number and the rest.
LEMMA Touching ==
    ASSUME EvInv, UNCHANGED <<seqCtr, evNow, trace, skewed, newer>>, touched', writer' = {},
           NEW e \in stored, NEW subject, NEW session,
           stored' \in {stored \ {e},
                        (stored \ {e}) \cup {[e EXCEPT !.subject = subject, !.session = session]},
                        (stored \ {e}) \cup {[e EXCEPT !.readable = FALSE]}}
    PROVE  EvInv'
<1>1. TraceInv' /\ ClockInv' /\ ChainInv'
  BY Standing DEF ChainInv
<1>2. PICK g : stored' \subseteq (stored \ {e}) \cup {g} /\
               g \in {[e EXCEPT !.subject = subject, !.session = session], [e EXCEPT !.readable = FALSE]}
  OBVIOUS
<1>3. DOMAIN e = Fields
  BY DEF EvInv, LogInv
<1>4. /\ g.seq = e.seq /\ DOMAIN g = Fields
      /\ g.schema = e.schema /\ g.at = e.at /\ g.kind = e.kind /\ g.prev = e.prev /\ g.hash = e.hash
  BY <1>2, <1>3 DEF Fields
<1>5. LogInv'
  <2>1. ASSUME NEW f \in stored'
        PROVE  LET w == Written(f.seq)' IN
               /\ f.seq \in 1 .. seqCtr' /\ DOMAIN f = Fields
               /\ f.schema = w.schema /\ f.at = w.at /\ f.kind = w.kind /\ f.prev = w.prev /\ f.hash = w.hash
    <3>1. Written(f.seq)' = Written(f.seq) /\ seqCtr' = seqCtr
      BY DEF Written
    <3>2. CASE f = g
      BY <1>4, <3>1, <3>2 DEF EvInv, LogInv
    <3>3. CASE f \in stored
      BY <3>1, <3>3 DEF EvInv, LogInv
    <3>q. QED BY <1>2, <3>2, <3>3
  <2>2. ASSUME NEW f \in stored', NEW h \in stored', f.seq = h.seq PROVE f = h
    BY <1>2, <1>4, <2>2 DEF EvInv, LogInv
  <2>q. QED BY <2>1, <2>2 DEF LogInv
<1>q. QED BY <1>1, <1>5 DEF EvInv

\* Steps that leave the log alone, or a restart, keep the links to the head.
LEMMA Resting ==
    ASSUME EvInv, UNCHANGED <<stored, seqCtr, trace, newer, touched>>,
           \/ UNCHANGED <<evNow, skewed>>
           \/ evNow' = evNow + 1 /\ skewed' = skewed
           \/ evNow > 1 /\ evNow' = evNow - 1 /\ skewed',
           writer' = writer \/ writer' = {},
           \/ doomed' = doomed \/ doomed' = {}
           \/ doomed' = {e \in ScanEvents : e.at < Cutoff} /\ UNCHANGED skewed
    PROVE  EvInv'
<1>1. TraceInv' /\ ClockInv'
  BY Standing
<1>2. LogInv'
  BY DEF EvInv, LogInv, Written
<1>3. ChainInv'
  <2> SUFFICES ASSUME ~skewed, ~touched PROVE ChainInv'
    BY DEF ChainInv
  <2>1. LoadLastHash' = LoadLastHash
    BY DEF LoadLastHash, Newest, NoHash
  <2>2. \A e \in stored : (\A f \in stored : f.seq <= e.seq) => Prev' = e.hash
    <3>1. CASE writer' = {}
      BY <2>1, <3>1, HeadIs DEF Prev
    <3>2. CASE writer' = writer
      <4>1. Prev' = Prev
        BY <2>1, <3>2 DEF Prev
      <4>q. QED BY <4>1, HeadIs
    <3>q. QED BY <3>1, <3>2
  <2>3. doomed' \subseteq stored /\ \A e \in doomed', f \in stored : f.seq < e.seq => f \in doomed'
    <3>1. CASE doomed' = doomed \/ doomed' = {}
      BY <3>1 DEF EvInv, ChainInv
    <3>2. CASE doomed' = {e \in ScanEvents : e.at < Cutoff} /\ UNCHANGED skewed
      <4>1. Cutoff \in Int
        BY EvidenceAssumption DEF Cutoff, EvInv, TraceInv
      <4> SUFFICES ASSUME NEW e \in doomed', NEW f \in stored, f.seq < e.seq PROVE f \in doomed'
        BY <3>2 DEF ScanEvents
      <4>2. e \in stored /\ e.at < Cutoff /\ f.readable
        BY <3>2 DEF ScanEvents, EvInv, LogInv
      <4>3. /\ e.seq \in 1 .. seqCtr /\ f.seq \in 1 .. seqCtr
            /\ e.at = Written(e.seq).at /\ f.at = Written(f.seq).at
        BY <4>2 DEF EvInv, LogInv
      <4>4. f.at <= e.at /\ f.at \in Nat /\ e.at \in Nat
        BY <4>3 DEF EvInv, ClockInv, TraceInv
      <4>q. QED BY <3>2, <4>1, <4>2, <4>4 DEF ScanEvents
    <3>q. QED BY <3>1, <3>2
  <2>q. QED BY <2>2, <2>3 DEF EvInv, ChainInv
<1>q. QED BY <1>1, <1>2, <1>3 DEF EvInv

\* A retention run deletes the oldest event there is.
LEMMA Deleting ==
    ASSUME EvInv, PruneDeletes
    PROVE  EvInv'
<1> PICK d : d = Oldest(doomed)
    OBVIOUS
<1>1. /\ stored' = {x \in stored : x.seq # d.seq} /\ doomed' = doomed \ {d} /\ doomed # {}
      /\ UNCHANGED <<seqCtr, writer, evNow, pruned, trace, skewed, newer, touched, faults>>
  BY DEF PruneDeletes
<1>2. TraceInv' /\ ClockInv'
  BY <1>1, Standing
<1>3. LogInv'
  BY <1>1 DEF EvInv, LogInv, Written
<1>4. ChainInv'
  <2> SUFFICES ASSUME ~skewed, ~touched PROVE ChainInv'
    BY <1>1 DEF ChainInv
  <2>1. d \in doomed /\ doomed \subseteq stored /\ \A x \in doomed : d.seq <= x.seq
    BY <1>1, NewestOldest DEF EvInv, ChainInv
  <2>2. \A x \in stored : x.seq \in Nat /\ (x.seq = d.seq => x = d)
    BY <2>1 DEF EvInv, LogInv, TraceInv
  <2>3. \A x \in stored : d.seq <= x.seq
    BY <2>1, <2>2 DEF EvInv, ChainInv
  <2>4. stored' = stored \ {d}
    BY <1>1, <2>1, <2>2
  <2>5. doomed' \subseteq stored' /\ \A x \in doomed', f \in stored' : f.seq < x.seq => f \in doomed'
    BY <1>1, <2>1, <2>4 DEF EvInv, ChainInv
  <2>6. ASSUME NEW x \in stored', NEW f \in stored', f.seq < x.seq,
               \A y \in stored' : y.seq <= f.seq \/ x.seq <= y.seq
        PROVE  x.prev = f.hash
    <3>1. \A y \in stored : y.seq <= f.seq \/ x.seq <= y.seq
      BY <2>3, <2>4, <2>6
    <3>q. QED BY <2>4, <2>6, <3>1 DEF EvInv, ChainInv
  <2>7. ASSUME NEW x \in stored', \A f \in stored' : f.seq <= x.seq PROVE Prev' = x.hash
    <3>1. \A f \in stored : f.seq <= x.seq
      BY <2>3, <2>4, <2>7
    <3>2. CASE writer = {}
      <4>1. Newest(stored') = x
        <5>1. \A g \in stored' : (\A f \in stored' : f.seq <= g.seq) => g = x
          <6> SUFFICES ASSUME NEW g \in stored', \A f \in stored' : f.seq <= g.seq PROVE g = x
            OBVIOUS
          <6>1. g.seq = x.seq
            BY <2>2, <2>4, <2>7
          <6>q. QED BY <2>4, <6>1 DEF EvInv, LogInv
        <5>q. QED BY <2>7, <5>1 DEF Newest
      <4>2. Newest(stored)' = x
        BY <4>1 DEF Newest
      <4>3. x.readable
        BY <2>4 DEF EvInv, LogInv
      <4>q. QED BY <1>1, <3>2, <4>2, <4>3 DEF Prev, LoadLastHash
    <3>3. CASE writer # {}
      <4>1. Prev' = Prev
        BY <1>1, <3>3 DEF Prev
      <4>q. QED BY <2>4, <3>1, <4>1 DEF EvInv, ChainInv
    <3>q. QED BY <3>2, <3>3
  <2>q. QED BY <2>5, <2>6, <2>7 DEF ChainInv
<1>q. QED BY <1>2, <1>3, <1>4 DEF EvInv

\* A log of one event at most is in order.
LEMMA Beginning ==
    ASSUME NEW e,
           DOMAIN e = Fields, e.seq = 1, e.readable, e.schema = 1, e.at = 1, e.prev = NoHash, e.hash = ComputeHash(e),
           seqCtr \in {0, 1}, stored # {} => seqCtr = 1, stored \subseteq {e}, writer = {}, evNow = 1, doomed = {},
           trace = [n \in 1..seqCtr |-> trace[n]],
           \A n \in 1 .. seqCtr : n = 1 /\ trace[n].event = e /\ trace[n].pred = 0
    PROVE  EvInv
<1>1. TraceInv
  BY DEF TraceInv, Written, HashOwner
<1>2. LogInv
  BY DEF LogInv, Written
<1>3. ClockInv
  BY DEF ClockInv, Written
<1>4. ASSUME NEW x \in stored PROVE Prev = x.hash
  <2>1. stored = {e} /\ x = e
    OBVIOUS
  <2>2. Newest(stored) = e
    BY <2>1 DEF Newest
  <2>q. QED BY <2>1, <2>2 DEF Prev, LoadLastHash
<1>5. \A x, f \in stored : ~(f.seq < x.seq)
  OBVIOUS
<1>6. ChainInv
  BY <1>4, <1>5 DEF ChainInv
<1>q. QED BY <1>1, <1>2, <1>3, <1>6 DEF EvInv

\* Every step keeps what is known of the log.
LEMMA EvInductive == EvSpec => []EvInv
<1>1. ASSUME EvInit PROVE EvInv
  <2> PICK old \in BOOLEAN, s \in Subjects :
        LET e == Sealed([seq |-> 1, schema |-> 1, at |-> 1, kind |-> "deny", subject |-> s,
                         session |-> NoSession, prev |-> NoHash, hash |-> NoHash, readable |-> TRUE]) IN
        /\ stored = IF old THEN {e} ELSE {}
        /\ seqCtr = IF old THEN 1 ELSE 0
        /\ trace = [n \in 1..seqCtr |-> [event |-> e, pred |-> 0]]
    BY <1>1 DEF EvInit
  <2> DEFINE c == [seq |-> 1, schema |-> 1, at |-> 1, kind |-> "deny", subject |-> s,
                   session |-> NoSession, prev |-> NoHash, hash |-> NoHash, readable |-> TRUE]
  <2> PICK d : d = ComputeHash(c)
    OBVIOUS
  <2> PICK e : e = [c EXCEPT !.hash = d]
    OBVIOUS
  <2>1. e = Sealed(c)
    BY DEF Sealed
  <2>2. /\ stored = IF old THEN {e} ELSE {}
        /\ seqCtr = IF old THEN 1 ELSE 0
        /\ trace = [n \in 1..seqCtr |-> [event |-> e, pred |-> 0]]
    BY <2>1
  <2>3. /\ DOMAIN e = Fields /\ e.seq = 1 /\ e.readable /\ e.schema = 1 /\ e.at = 1
        /\ e.kind = "deny" /\ e.subject = s /\ e.session = NoSession /\ e.prev = NoHash /\ e.hash = d
    BY DEF Fields
  <2>4. ComputeHash(e) = d
    BY <2>3 DEF ComputeHash, CanonicalEvent, CanonicalEventV2
  <2>5. trace = [n \in 1..seqCtr |-> trace[n]] /\ \A n \in 1 .. seqCtr : trace[n].event = e /\ trace[n].pred = 0
    <3> PICK w : w = [event |-> e, pred |-> 0]
      OBVIOUS
    <3>1. trace = [n \in 1..seqCtr |-> w]
      BY <2>2
    <3>2. w.event = e /\ w.pred = 0
      OBVIOUS
    <3>q. QED BY <3>1, <3>2
  <2>6. seqCtr \in {0, 1} /\ (stored # {} => seqCtr = 1) /\ stored \subseteq {e}
    BY <2>2
  <2>7. writer = {} /\ evNow = 1 /\ doomed = {}
    BY <1>1 DEF EvInit
  <2>8. \A n \in 1 .. seqCtr : n = 1
    BY <2>6
  <2> HIDE DEF c
  <2>q. QED BY <2>3, <2>4, <2>5, <2>6, <2>7, <2>8, Beginning
<1>2. ASSUME EvInv, NEW kind, NEW subject, NEW session, NEW lost \in BOOLEAN,
             WriteEvent(kind, subject, session, lost), UNCHANGED <<evNow, skewed, newer, touched>>,
             doomed' = doomed
      PROVE  EvInv'
  <2> PICK e : e = SealedEvent(SchemaVersion, kind, subject, session, Prev)
    OBVIOUS
  <2>1. e.prev = Prev /\ e = SealedEvent(2, kind, subject, session, Prev)
    <3>1. e = SealedEvent(2, kind, subject, session, Prev)
      BY SchemaVersion = 2 DEF SchemaVersion
    <3>2. TraceInv
      BY <1>2 DEF EvInv
    <3>q. QED BY <3>1, <3>2, Sealing
  <2>2. /\ seqCtr' = e.seq /\ Traced(e)
        /\ \/ stored' = stored /\ writer' = {Prev}
           \/ stored' = stored \cup {e} /\ writer' = {e.hash}
    BY <1>2 DEF WriteEvent, Appended
  <2>q. QED BY <1>2, <2>1, <2>2, Growing
<1>3. ASSUME EvInv, NewerBinary PROVE EvInv'
  <2> PICK e : e = SealedEvent(SchemaVersion + 1, "deny", CHOOSE s \in Subjects : TRUE, NoSession, LoadLastHash)
    OBVIOUS
  <2>1. e = SealedEvent(3, "deny", CHOOSE s \in Subjects : TRUE, NoSession, LoadLastHash)
    BY SchemaVersion + 1 = 3 DEF SchemaVersion
  <2>2. seqCtr' = e.seq /\ Traced(e) /\ stored' = stored \cup {e} /\ writer' = {} /\ newer'
        /\ UNCHANGED <<evNow, doomed, skewed, touched>>
    BY <1>3 DEF NewerBinary
  <2>q. QED BY <1>3, <2>1, <2>2, Growing
<1>4. ASSUME EvInv, NEW e \in stored, TakeOut(e) PROVE EvInv'
  BY <1>4, Touching DEF TakeOut
<1>5. ASSUME EvInv, NEW e \in stored, Garble(e) PROVE EvInv'
  BY <1>5, Touching DEF Garble
<1>6. ASSUME EvInv, NEW e \in stored, NEW s, NEW a, Alter(e, s, a) PROVE EvInv'
  BY <1>6, Touching DEF Alter
<1>7. ASSUME EvInv, [EvNext]_evVars PROVE EvInv'
  <2>1. CASE \E k \in EvKinds, s \in Subjects, a \in Sessions \cup {NoSession} :
                (k = "receipt" => a = NoSession) /\ RecordEvent(k, s, a)
    BY <1>2, <1>7, <2>1 DEF RecordEvent
  <2>2. CASE PruneStarts
    BY <1>7, <2>2, Resting DEF PruneStarts
  <2>3. CASE PruneDeletes
    BY <1>7, <2>3, Deleting
  <2>4. CASE PruneFails
    BY <1>7, <2>4, Resting DEF PruneFails
  <2>5. CASE PruneRecords
    BY <1>2, <1>7, <2>5 DEF PruneRecords
  <2>6. CASE DetectStartupGap
    BY <1>2, <1>7, <2>6 DEF DetectStartupGap
  <2>7. CASE ProcessEnds
    BY <1>7, <2>7, Resting DEF ProcessEnds
  <2>8. CASE EvTick
    BY <1>7, <2>8, Resting DEF EvTick
  <2>9. CASE ClockStepsBack
    BY <1>7, <2>9, Resting DEF ClockStepsBack
  <2>10. CASE NewerBinary
    BY <1>3, <1>7, <2>10
  <2>11. CASE \E e \in stored : \/ TakeOut(e) \/ Garble(e)
                                \/ \E s \in Subjects : Alter(e, s, e.session)
                                \/ \E a \in Sessions : Alter(e, e.subject, a)
    BY <1>4, <1>5, <1>6, <1>7, <2>11
  <2>12. CASE UNCHANGED evVars
    BY <1>7, <2>12, Resting DEF evVars
  <2>q. QED BY <1>7, <2>1, <2>2, <2>3, <2>4, <2>5, <2>6, <2>7, <2>8, <2>9, <2>10, <2>11, <2>12 DEF EvNext
<1>q. QED BY <1>1, <1>7, PTL DEF EvSpec

-----------------------------------------------------------------------------
(* Reading the log back.                                                       *)

\* The log is finite, and reading it in order shows all of it.
LEMMA LogInOrder ==
    ASSUME EvInv, NEW S \in SUBSET stored
    PROVE  LET n == Cardinality(S) s == InOrder(S) IN
           /\ IsFiniteSet(S) /\ n \in Nat
           /\ s \in [1 .. n -> S]
           /\ \A i, j \in 1 .. n : i < j => s[i].seq < s[j].seq
           /\ \A x \in S : \E i \in 1 .. n : s[i] = x
<1>1. \A e \in S : e.seq \in 1 .. seqCtr
  BY DEF EvInv, LogInv
<1>2. \A e, f \in S : e.seq = f.seq => e = f
  BY DEF EvInv, LogInv
<1>3. seqCtr \in Nat
  BY DEF EvInv, TraceInv
<1>4. IsFiniteSet(S)
  <2> DEFINE r == [e \in S |-> e.seq]
  <2>1. r \in Injection(S, 1 .. seqCtr)
    BY <1>1, <1>2 DEF Injection, IsInjective
  <2>2. IsFiniteSet(1 .. seqCtr)
    BY <1>3, FS_Interval
  <2> HIDE DEF r
  <2>q. QED BY <2>1, <2>2, FS_Injection
<1> PICK R : R = {p \in S \X S : p[1].seq < p[2].seq}
  OBVIOUS
<1>5. \A x, y : <<x, y>> \in R <=> x \in S /\ y \in S /\ x.seq < y.seq
  OBVIOUS
<1>6. \A e \in S : e.seq \in Int
  BY <1>1, <1>3
<1>7. /\ \A x, y \in S : x # y => <<x, y>> \in R \/ <<y, x>> \in R
      /\ \A x, y, z \in S : <<x, y>> \in R /\ <<y, z>> \in R => <<x, z>> \in R
      /\ \A x \in S : <<x, x>> \notin R
  BY <1>2, <1>5, <1>6
<1>8. InOrder(S) = Arranged(S, R)
  BY DEF InOrder
<1> PICK s : s = InOrder(S)
  OBVIOUS
<1> PICK n : n = Cardinality(S)
  OBVIOUS
<1>9. /\ s \in [1 .. n -> S]
      /\ \A i, j \in 1 .. n : i < j => <<s[i], s[j]>> \in R
      /\ \A x \in S : \E i \in 1 .. n : s[i] = x
  <2>1. LET a == Arranged(S, R) IN
        /\ a \in [1 .. Cardinality(S) -> S]
        /\ \A i, j \in 1 .. Cardinality(S) : i < j => <<a[i], a[j]>> \in R
        /\ \A x \in S : \E i \in 1 .. Cardinality(S) : a[i] = x
    BY ONLY <1>4, <1>7, Arrangement
  <2>q. QED BY <1>8, <2>1
<1>10. n \in Nat
  BY <1>4, FS_CardinalityType
<1>q. QED BY <1>4, <1>5, <1>9, <1>10

\* An event links to another by its hash exactly when it was written after it.
LEMMA Links ==
    ASSUME EvInv, NEW e \in stored, NEW f \in stored
    PROVE  e.prev = f.hash <=> trace[e.seq].pred = f.seq
<1> PICK w : w = Written(f.seq)
  OBVIOUS
<1>1. e.seq \in 1 .. seqCtr /\ f.seq \in 1 .. seqCtr /\ e.prev = Written(e.seq).prev /\ f.hash = w.hash
  BY DEF EvInv, LogInv
<1>2. trace[e.seq].pred = HashOwner(e.prev)
  BY <1>1 DEF EvInv, TraceInv
<1>3. \A n \in 1 .. seqCtr : Written(n).hash # NoHash /\ HashOwner(Written(n).hash) = n
  <2> TAKE n \in 1 .. seqCtr
  <2> PICK v : v = Written(n)
    OBVIOUS
  <2>1. v.schema \in Nat /\ v.seq = n /\ v.hash = ComputeHash(v)
    BY DEF EvInv, TraceInv
  <2>q. QED BY <2>1, HashNumber
<1>4. CASE e.prev = NoHash
  BY <1>1, <1>2, <1>3, <1>4 DEF HashOwner, EvInv, TraceInv
<1>5. CASE e.prev # NoHash
  <2> PICK m \in 1 .. seqCtr : e.prev = Written(m).hash
    BY <1>1, <1>5 DEF EvInv, TraceInv
  <2>q. QED BY <1>1, <1>2, <1>3
<1>q. QED BY <1>4, <1>5

\* An event's hash is not the hash of its contents exactly when these are not
\* the ones that were written.
LEMMA Changes ==
    ASSUME EvInv, NEW e \in stored
    PROVE  e.hash # ComputeHash(e) <=> LET w == trace[e.seq].event IN
                                       \/ e.subject # w.subject
                                       \/ e.schema >= 2 /\ e.session # w.session
<1> PICK w : w = Written(e.seq)
  OBVIOUS
<1>1. /\ e.seq = w.seq /\ e.schema = w.schema /\ e.at = w.at /\ e.kind = w.kind /\ e.prev = w.prev /\ e.hash = w.hash
      /\ w.schema \in Nat /\ w.hash = ComputeHash(w)
  BY DEF EvInv, LogInv, TraceInv
<1>2. ComputeHash(e) = ComputeHash(w) <=> e.subject = w.subject /\ (w.schema >= 2 => e.session = w.session)
  <2>1. ASSUME e.subject = w.subject, w.schema >= 2 => e.session = w.session
        PROVE  ComputeHash(e) = ComputeHash(w)
    BY <1>1, <2>1 DEF ComputeHash, CanonicalEvent, CanonicalEventV2
  <2>q. QED BY <1>1, <2>1, HashNumber
<1>q. QED BY <1>1, <1>2 DEF Written

\* What verify_chain reports is what was done to the log.
LEMMA VerifiesExactly == EvInv => VerifyExact
<1> SUFFICES ASSUME EvInv PROVE VerifyExact
  OBVIOUS
<1> PICK L : L = ScanEvents
  OBVIOUS
<1> PICK n : n = Cardinality(L)
  OBVIOUS
<1> PICK s : s = InOrder(L)
  OBVIOUS
<1>1. L \subseteq stored
  BY DEF ScanEvents
<1>2. n \in Nat /\ s \in [1 .. n -> L]
  BY <1>1, LogInOrder
<1>3. {e \in L : e.schema <= SchemaVersion /\ e.hash # ComputeHash(e)} =
      {e \in L : e.schema <= SchemaVersion /\ LET w == trace[e.seq].event IN
                                                \/ e.subject # w.subject
                                                \/ e.schema >= 2 /\ e.session # w.session}
  BY <1>1, Changes
<1>4. \A j \in 2 .. n : s[j].prev # s[j - 1].hash <=> trace[s[j].seq].pred # s[j - 1].seq
  <2> TAKE j \in 2 .. n
  <2>1. s[j] \in stored /\ s[j - 1] \in stored
    BY <1>1, <1>2
  <2>q. QED BY <2>1, Links
<1>5. {s[i] : i \in {j \in 2 .. n : s[j].prev # s[j - 1].hash}} =
      {s[i] : i \in {j \in 2 .. n : trace[s[j].seq].pred # s[j - 1].seq}}
  BY <1>4
<1>6. VerifyChain(L).tampered = {e \in L : e.schema <= SchemaVersion /\ e.hash # ComputeHash(e)}
  BY DEF VerifyChain
<1>7. VerifyChain(L).linkage = {s[i] : i \in {j \in 2 .. n : s[j].prev # s[j - 1].hash}}
  BY DEF VerifyChain
<1>8. VerifyChain(L).tampered =
      {e \in L : e.schema <= SchemaVersion /\ LET w == trace[e.seq].event IN
                                              \/ e.subject # w.subject
                                              \/ e.schema >= 2 /\ e.session # w.session}
  BY <1>3, <1>6
<1>9. VerifyChain(L).linkage = {s[i] : i \in {j \in 2 .. n : trace[s[j].seq].pred # s[j - 1].seq}}
  BY <1>5, <1>7
<1>10. /\ L = ScanEvents /\ s = InOrder(ScanEvents) /\ n = Cardinality(ScanEvents)
  OBVIOUS
<1>11. VerifyChain(ScanEvents).linkage =
      {InOrder(ScanEvents)[i] : i \in {j \in 2 .. Cardinality(ScanEvents) :
           trace[InOrder(ScanEvents)[j].seq].pred # InOrder(ScanEvents)[j - 1].seq}}
  BY <1>9, <1>10
<1>q. QED BY <1>8, <1>10, <1>11 DEF VerifyExact

\* A log nobody touched verifies.
LEMMA OwnVerifies == EvInv => OwnLogVerifies
<1> SUFFICES ASSUME EvInv, ~touched, ~skewed, ~newer PROVE IsValid(VerifyChain(ScanEvents))
  BY DEF OwnLogVerifies
<1> PICK n : n = Cardinality(stored)
  OBVIOUS
<1> PICK s : s = InOrder(stored)
  OBVIOUS
<1>1. /\ n \in Nat /\ s \in [1 .. n -> stored]
      /\ \A i, j \in 1 .. n : i < j => s[i].seq < s[j].seq
      /\ \A x \in stored : \E i \in 1 .. n : s[i] = x
  BY LogInOrder
<1>2. ScanEvents = stored
  BY DEF ScanEvents, EvInv, LogInv
<1>3. \A e \in stored : e.hash = ComputeHash(e) /\ ~(e.schema > 2)
  <2> TAKE e \in stored
  <2>1. e.hash = ComputeHash(e)
    BY Changes DEF EvInv, LogInv, Written
  <2>2. e.schema \in 1 .. 3 /\ e.schema <= 2
    BY DEF EvInv, LogInv, TraceInv
  <2>q. QED BY <2>1, <2>2
<1>4. \A j \in 2 .. n : s[j].prev = s[j - 1].hash
  <2> TAKE j \in 2 .. n
  <2>1. j \in 1 .. n /\ j - 1 \in 1 .. n
    BY <1>1
  <2>2. s[j] \in stored /\ s[j - 1] \in stored /\ s[j - 1].seq < s[j].seq
    BY <1>1, <2>1
  <2>3. \A y \in stored : y.seq <= s[j - 1].seq \/ s[j].seq <= y.seq
    <3> TAKE y \in stored
    <3>1. PICK i \in 1 .. n : s[i] = y
      BY <1>1
    <3>2. i < j - 1 \/ i = j - 1 \/ i = j \/ j < i
      BY <1>1, <2>1
    <3>3. \A x \in stored : x.seq \in Int
      BY DEF EvInv, LogInv, TraceInv
    <3>q. QED BY <1>1, <2>1, <2>2, <3>1, <3>2, <3>3
  <2>q. QED BY <2>2, <2>3 DEF EvInv, ChainInv
<1>q. QED BY <1>2, <1>3, <1>4 DEF IsValid, VerifyChain, SchemaVersion

\* A deny's answer comes at the first of the times of the receipts after it.
LEMMA Answers ==
    ASSUME EvInv, NEW S \in SUBSET stored, NEW d \in S, NEW r \in ReceiptsAfter(d, S)
    PROVE  ToConsult(d, S) \in Nat /\ ToConsult(d, S) <= r.at - d.at
<1> DEFINE T == {x.at : x \in ReceiptsAfter(d, S)}
<1>1. \A x \in S : x.at \in Nat
  BY DEF EvInv, LogInv, TraceInv
<1>2. T \in SUBSET Nat /\ r.at \in T /\ \A t \in T : t >= d.at
  BY <1>1 DEF ReceiptsAfter
<1>3. ToConsult(d, S) = (CHOOSE t \in T : \A u \in T : t <= u) - d.at
  BY DEF ToConsult
<1> HIDE DEF T
<1>4. \E t \in T : \A u \in T : t <= u
  BY <1>2, LeastOf
<1> PICK t : t = CHOOSE x \in T : \A u \in T : x <= u
  OBVIOUS
<1>5. t \in T /\ \A u \in T : t <= u
  BY <1>4
<1>6. ToConsult(d, S) = t - d.at /\ d.at \in Nat
  BY <1>1, <1>3
<1>7. t \in Nat /\ r.at \in Nat /\ d.at <= t /\ t <= r.at
  BY <1>2, <1>5
<1> PICK x : x = ToConsult(d, S)
  OBVIOUS
<1>8. x \in Nat /\ x <= r.at - d.at
  BY <1>6, <1>7
<1>q. QED BY <1>8

\* The waits are in order, the shortest first.
LEMMA WaitsInOrder ==
    ASSUME EvInv, NEW S \in SUBSET stored
    PROVE  LET n == Cardinality(ConsultPairs(S)) s == Deltas(S) IN
           /\ n \in Nat /\ s \in [1 .. n -> Nat]
           /\ \A i, j \in 1 .. n : i < j => s[i] <= s[j]
<1> PICK P : P = ConsultPairs(S)
  OBVIOUS
<1> PICK R : R = Quicker(S)
  OBVIOUS
<1> PICK w : w = [d \in P |-> ToConsult(d, S)]
  OBVIOUS
<1>1. P \subseteq S
  BY DEF ConsultPairs, Denials
<1>2. \A d \in P : w[d] \in Nat
  BY <1>1, Answers DEF ConsultPairs
<1>3. \A d, e \in P : <<d, e>> \in R <=> w[d] < w[e] \/ (w[d] = w[e] /\ d.seq < e.seq)
  BY DEF Quicker
<1>4. \A d \in P : d.seq \in Int
  BY <1>1 DEF EvInv, LogInv, TraceInv
<1>5. \A d, e \in P : d.seq = e.seq => d = e
  BY <1>1 DEF EvInv, LogInv
<1>6. IsFiniteSet(P) /\ Cardinality(P) \in Nat
  BY <1>1, LogInOrder
<1>7. /\ \A x, y \in P : x # y => <<x, y>> \in R \/ <<y, x>> \in R
      /\ \A x, y, z \in P : <<x, y>> \in R /\ <<y, z>> \in R => <<x, z>> \in R
      /\ \A x \in P : <<x, x>> \notin R
  BY <1>2, <1>3, <1>4, <1>5
<1> PICK n : n = Cardinality(P)
  OBVIOUS
<1> PICK ds : ds = Arranged(P, R)
  OBVIOUS
<1>8. /\ ds \in [1 .. n -> P]
      /\ \A i, j \in 1 .. n : i < j => <<ds[i], ds[j]>> \in R
  <2>1. LET a == Arranged(P, R) IN
        /\ a \in [1 .. Cardinality(P) -> P]
        /\ \A i, j \in 1 .. Cardinality(P) : i < j => <<a[i], a[j]>> \in R
    BY ONLY <1>6, <1>7, Arrangement
  <2>q. QED BY <2>1
<1>9. Deltas(S) = [i \in 1 .. n |-> ToConsult(ds[i], S)]
  BY DEF Deltas
<1>10. \A i \in 1 .. n : Deltas(S)[i] = w[ds[i]] /\ ds[i] \in P
  BY <1>8, <1>9
<1>11. ASSUME NEW i \in 1 .. n, NEW j \in 1 .. n, i < j PROVE Deltas(S)[i] <= Deltas(S)[j]
  <2> PICK x : x = ds[i]
    OBVIOUS
  <2> PICK y : y = ds[j]
    OBVIOUS
  <2>1. x \in P /\ y \in P /\ <<x, y>> \in R
    BY <1>8, <1>11
  <2>2. w[x] <= w[y]
    BY <1>2, <1>3, <2>1
  <2>q. QED BY <1>10, <2>2
<1>12. Deltas(S) \in [1 .. n -> Nat]
  BY <1>2, <1>9, <1>10
<1>q. QED BY <1>6, <1>11, <1>12

\* How many numbers there are from one to another.
LEMMA IntervalSize ==
    ASSUME NEW a \in Int, NEW b \in Int, a <= b + 1
    PROVE  IsFiniteSet(a .. b) /\ Cardinality(a .. b) = b - a + 1
<1>1. IsFiniteSet(a .. b) /\ Cardinality(a .. b) = IF a > b THEN 0 ELSE b - a + 1
  BY FS_Interval
<1>q. QED BY <1>1

\* The median has no more values below it than from it on.
LEMMA MedianHalves ==
    ASSUME NEW n \in Nat, n > 0, NEW s \in [1 .. n -> Nat], \A i, j \in 1 .. n : i < j => s[i] <= s[j]
    PROVE  LET m == MedianU64(s, n) IN
           Cardinality({i \in 1..n : s[i] < m}) <= Cardinality({i \in 1..n : s[i] >= m})
<1> PICK h : h = n \div 2
  OBVIOUS
<1> PICK m : m = MedianU64(s, n)
  OBVIOUS
<1>1. h \in Nat /\ h + h <= n /\ h < n /\ (n % 2 # 1 => h >= 1)
  OBVIOUS
<1>2. m \in Nat /\ m <= s[h + 1]
  <2>1. h + 1 \in 1 .. n /\ s[h + 1] \in Nat
    BY <1>1
  <2>2. CASE n % 2 = 1
    BY <2>1, <2>2 DEF MedianU64
  <2>3. CASE n % 2 # 1
    <3>1. h \in 1 .. n /\ s[h] \in Nat /\ s[h] <= s[h + 1]
      BY <1>1, <2>1, <2>3
    <3> PICK a : a = s[h]
      OBVIOUS
    <3> PICK b : b = s[h + 1]
      OBVIOUS
    <3>2. m = (a + b) \div 2
      BY <2>3 DEF MedianU64
    <3>3. a \in Nat /\ b \in Nat /\ a <= b
      BY <2>1, <3>1
    <3>4. (a + b) \div 2 \in Nat /\ (a + b) \div 2 <= b
      BY <3>3
    <3>q. QED BY <3>2, <3>4
  <2>q. QED BY <2>2, <2>3
<1>3. \A i \in (h + 1) .. n : i \in 1 .. n /\ s[i] \in Nat /\ s[h + 1] <= s[i] /\ s[h + 1] \in Nat
  <2> TAKE i \in (h + 1) .. n
  <2>1. i \in 1 .. n /\ h + 1 \in 1 .. n /\ (i = h + 1 \/ h + 1 < i)
    BY <1>1
  <2>q. QED BY <2>1
<1>4. {i \in 1 .. n : s[i] < m} \in SUBSET (1 .. h) /\ (h + 1) .. n \in SUBSET {i \in 1 .. n : s[i] >= m}
  BY <1>1, <1>2, <1>3
<1>5. /\ IsFiniteSet(1 .. h) /\ Cardinality(1 .. h) = h
      /\ IsFiniteSet((h + 1) .. n) /\ Cardinality((h + 1) .. n) = n - h
      /\ IsFiniteSet(1 .. n)
  <2>1. 1 \in Int /\ h \in Int /\ h + 1 \in Int /\ n \in Int /\ 1 <= h + 1 /\ h + 1 <= n + 1 /\ 1 <= n + 1
    BY <1>1
  <2>2. IsFiniteSet(1 .. h) /\ Cardinality(1 .. h) = h - 1 + 1
    BY <2>1, IntervalSize
  <2>3. IsFiniteSet((h + 1) .. n) /\ Cardinality((h + 1) .. n) = n - (h + 1) + 1
    BY <2>1, IntervalSize
  <2>4. IsFiniteSet(1 .. n)
    BY <2>1, IntervalSize
  <2>5. h - 1 + 1 = h /\ n - (h + 1) + 1 = n - h
    BY <2>1
  <2>q. QED BY <2>2, <2>3, <2>4, <2>5
<1>6. Cardinality({i \in 1 .. n : s[i] < m}) <= h /\ Cardinality({i \in 1 .. n : s[i] < m}) \in Nat
  BY <1>4, <1>5, FS_Subset, FS_CardinalityType
<1>7. IsFiniteSet({i \in 1 .. n : s[i] >= m})
  BY <1>5, FS_Subset
<1>8. n - h <= Cardinality({i \in 1 .. n : s[i] >= m}) /\ Cardinality({i \in 1 .. n : s[i] >= m}) \in Nat
  BY <1>4, <1>5, <1>7, FS_Subset, FS_CardinalityType
<1>q. QED BY <1>1, <1>6, <1>8

\* The history shows the latest denies, as many as asked for.
LEMMA HistoryLatest ==
    ASSUME EvInv, NEW limit \in Nat \ {0}
    PROVE  LET shown == Range(EventHistory(0, {"deny"}, limit)) IN
           /\ \A e \in shown, f \in Denials(ScanEvents) : f.seq > e.seq => f \in shown
           /\ Denials(ScanEvents) # {} => shown # {} /\ Cardinality(shown) <= limit
<1> PICK F : F = Denials(ScanEvents)
  OBVIOUS
<1> PICK n : n = Cardinality(F)
  OBVIOUS
<1> PICK s : s = InOrder(F)
  OBVIOUS
<1> PICK k : k = IF n <= limit THEN 0 ELSE n - limit
  OBVIOUS
<1> PICK q : q = n - k
  OBVIOUS
<1> PICK H : H = EventHistory(0, {"deny"}, limit)
  OBVIOUS
<1>1. F \subseteq stored
  BY DEF Denials, ScanEvents
<1>2. /\ n \in Nat /\ IsFiniteSet(F) /\ s \in [1 .. n -> F]
      /\ \A i, j \in 1 .. n : i < j => s[i].seq < s[j].seq
      /\ \A x \in F : \E i \in 1 .. n : s[i] = x
  BY <1>1, LogInOrder
<1>3. F = {e \in ScanEvents : e.at >= 0 /\ e.kind \in {"deny"}}
  <2>1. \A e \in ScanEvents : e.at \in Nat
    BY DEF ScanEvents, EvInv, LogInv, TraceInv
  <2>q. QED BY <2>1 DEF Denials
<1>4. H = [i \in 1 .. q |-> s[k + i]]
  BY <1>3 DEF EventHistory
<1>5. k \in Nat /\ k <= n /\ q = n - k /\ q \in Nat /\ q <= limit /\ (n > 0 => q > 0)
  BY <1>2
<1>6. \A x : x \in Range(H) <=> \E i \in 1 .. q : x = s[k + i]
  <2>1. DOMAIN H = 1 .. q /\ \A i \in 1 .. q : H[i] = s[k + i]
    BY <1>4
  <2>2. Range(H) = {H[i] : i \in 1 .. q}
    BY <2>1 DEF Range
  <2>3. Range(H) = {s[k + i] : i \in 1 .. q}
    BY ONLY <2>1, <2>2
  <2>q. QED BY ONLY <2>3
<1>7. ASSUME NEW e \in Range(H), NEW f \in F, f.seq > e.seq PROVE f \in Range(H)
  <2>1. PICK i \in 1 .. q : e = s[k + i]
    BY <1>6
  <2>2. PICK j \in 1 .. n : s[j] = f
    BY <1>2
  <2>3. k + i \in 1 .. n
    BY <1>2, <1>5
  <2>4. \A x \in F : x.seq \in Int
    BY <1>1 DEF EvInv, LogInv, TraceInv
  <2>5. k + i < j
    <3>1. j < k + i \/ j = k + i \/ k + i < j
      BY <2>3
    <3>2. e \in F /\ e.seq \in Int /\ f.seq \in Int
      BY <1>2, <2>1, <2>3, <2>4
    <3>q. QED BY <1>2, <1>7, <2>1, <2>2, <2>3, <3>1, <3>2
  <2>6. j - k \in 1 .. q /\ k + (j - k) = j
    BY <1>2, <1>5, <2>5
  <2>q. QED BY <1>6, <2>2, <2>6
<1>8. ASSUME F # {} PROVE Range(H) # {} /\ Cardinality(Range(H)) <= limit
  <2>1. n > 0
    BY <1>2, <1>8
  <2>2. 1 \in 1 .. q
    BY <1>5, <2>1
  <2>3. H \in Surjection(1 .. q, Range(H))
    <3>1. DOMAIN H = 1 .. q /\ H = [i \in 1 .. q |-> H[i]]
      BY <1>4
    <3>q. QED BY <3>1 DEF Range, Surjection
  <2>4. IsFiniteSet(1 .. q) /\ Cardinality(1 .. q) = q
    <3>1. 1 \in Int /\ q \in Int /\ 1 <= q + 1
      BY <1>5
    <3>2. Cardinality(1 .. q) = q - 1 + 1 /\ IsFiniteSet(1 .. q)
      BY <3>1, IntervalSize
    <3>q. QED BY <1>5, <3>2
  <2>5. IsFiniteSet(Range(H)) /\ Cardinality(Range(H)) <= q
    BY <2>3, <2>4, FS_Surjection
  <2>6. Cardinality(Range(H)) \in Nat
    BY <2>5, FS_CardinalityType
  <2>7. Range(H) # {}
    BY <1>6, <2>2
  <2> PICK c : c = Cardinality(Range(H))
    OBVIOUS
  <2>8. c <= limit
    BY <1>5, <2>5, <2>6
  <2>q. QED BY <2>7, <2>8
<1>q. QED BY <1>7, <1>8

\* The figures agree with the log.
LEMMA FiguresAgree == EvInv => FiguresMatchLog
<1> SUFFICES ASSUME EvInv PROVE FiguresMatchLog
  OBVIOUS
<1> PICK L : L = ScanEvents
  OBVIOUS
<1>1. L \subseteq stored
  BY DEF ScanEvents
<1>2. \A e \in L : e.at \in Nat /\ e.seq \in 1 .. seqCtr /\ e.at = Written(e.seq).at
  BY <1>1 DEF EvInv, LogInv, TraceInv
<1>3. ASSUME ~skewed, NEW d \in Denials(L), NEW r \in L, r.kind = "receipt", r.subject = d.subject,
             r.seq > d.seq, r.at <= d.at + ConsultWindow
      PROVE  d \in ConsultPairs(L)
  <2>1. d \in L
    BY DEF Denials
  <2>2. d.at <= r.at
    BY <1>2, <1>3, <2>1 DEF EvInv, ClockInv, TraceInv
  <2>3. r \in ReceiptsAfter(d, L)
    BY <1>2, <1>3, <2>1, <2>2 DEF ReceiptsAfter
  <2> PICK x : x = ToConsult(d, L)
    OBVIOUS
  <2>4. x \in Nat /\ x <= r.at - d.at
    BY <1>1, <2>1, <2>3, Answers
  <2>5. x <= ConsultWindow
    BY <1>2, <1>3, <2>1, <2>4, EvidenceAssumption
  <2>q. QED BY <2>3, <2>5 DEF ConsultPairs
<1>4. LET s == Deltas(L) n == Cardinality(ConsultPairs(L)) m == MedianU64(s, n) IN
      n > 0 => Cardinality({i \in 1..n : s[i] < m}) <= Cardinality({i \in 1..n : s[i] >= m})
  <2> PICK n : n = Cardinality(ConsultPairs(L))
    OBVIOUS
  <2> PICK s : s = Deltas(L)
    OBVIOUS
  <2>1. n \in Nat /\ s \in [1 .. n -> Nat] /\ \A i, j \in 1 .. n : i < j => s[i] <= s[j]
    BY <1>1, WaitsInOrder
  <2>2. n > 0 => LET m == MedianU64(s, n) IN
                 Cardinality({i \in 1..n : s[i] < m}) <= Cardinality({i \in 1..n : s[i] >= m})
    BY <2>1, MedianHalves
  <2>q. QED BY <2>2
<1>5. BlockedSessions(L) # {} => Cardinality(BlockedSessions(L)) <= AggregateEventCounts(L)["deny"]
  <2> DEFINE D == {d \in Denials(L) : d.session # NoSession}
             f == [d \in D |-> d.session]
  <2>1. f \in Surjection(D, BlockedSessions(L))
    BY DEF Surjection, BlockedSessions
  <2>2. D \subseteq Denials(L) /\ Denials(L) \subseteq stored
    BY <1>1 DEF Denials
  <2>3. IsFiniteSet(D) /\ IsFiniteSet(Denials(L))
    BY <2>2, LogInOrder
  <2>4. Cardinality(D) \in Nat /\ Cardinality(Denials(L)) \in Nat /\ Cardinality(D) <= Cardinality(Denials(L))
    BY <2>2, <2>3, FS_Subset, FS_CardinalityType
  <2> HIDE DEF f, D
  <2>5. IsFiniteSet(BlockedSessions(L)) /\ Cardinality(BlockedSessions(L)) <= Cardinality(D)
    BY <2>1, <2>3, FS_Surjection
  <2>6. Cardinality(BlockedSessions(L)) \in Nat
    BY <2>5, FS_CardinalityType
  <2>7. AggregateEventCounts(L)["deny"] = Cardinality(Denials(L))
    BY EvidenceAssumption DEF AggregateEventCounts, Denials
  <2>q. QED BY <2>4, <2>5, <2>6, <2>7
<1>6. \A limit \in 1 .. 2 :
         LET shown == Range(EventHistory(0, {"deny"}, limit)) IN
         /\ \A e \in shown, f \in Denials(L) : f.seq > e.seq => f \in shown
         /\ Denials(L) # {} => shown # {} /\ Cardinality(shown) <= limit
  <2>1. \A limit \in 1 .. 2 : limit \in Nat \ {0}
    OBVIOUS
  <2>q. QED BY <2>1, HistoryLatest
<1>q. QED BY <1>3, <1>4, <1>5, <1>6 DEF FiguresMatchLog

\* What is computed from the log of enforcement is true of it, in every
\* behaviour of the log.
THEOREM EvidenceCorrect == EvSpec => []EvidenceTrue
<1>1. EvInv => EvidenceTrue
  BY VerifiesExactly, OwnVerifies, FiguresAgree DEF EvidenceTrue, ChainExact
<1>q. QED BY <1>1, EvInductive, PTL

-----------------------------------------------------------------------------
(***************************************************************************)
(* AgentContext.                                                           *)
(***************************************************************************)

\* A running sum exists: the least place it could not be continued to is none.
Sums(f, m, c, u) == f \in [0 .. m -> Nat] /\ f[0] = u /\ \A n \in 1 .. m : f[n] = f[n - 1] + c[n]
\* The running sums of any list of numbers exist.
LEMMA RunningSum ==
    ASSUME NEW L \in Nat, NEW c, NEW u \in Nat, \A i \in 1 .. L : c[i] \in Nat
    PROVE  \E f : Sums(f, L, c, u)
<1> DEFINE Upto(m) == \E f \in [0 .. m -> Nat] : f[0] = u /\ \A n \in 1 .. m : f[n] = f[n - 1] + c[n]
<1>0. Upto(0)
  <2>1. [x \in 0 .. 0 |-> u] \in [0 .. 0 -> Nat] /\ [x \in 0 .. 0 |-> u][0] = u
    OBVIOUS
  <2>2. PICK f \in [0 .. 0 -> Nat] : f[0] = u
    BY <2>1
  <2>q. QED BY <2>2
<1>1. ASSUME NEW m \in 1 .. L, Upto(m - 1) PROVE Upto(m)
  <2>1. PICK f \in [0 .. m - 1 -> Nat] : f[0] = u /\ \A n \in 1 .. m - 1 : f[n] = f[n - 1] + c[n]
    BY <1>1
  <2>2. PICK v \in Nat : v = f[m - 1] + c[m]
    OBVIOUS
  <2>3. PICK g : g = [n \in 0 .. m |-> IF n = m THEN v ELSE f[n]]
    OBVIOUS
  <2>4. g \in [0 .. m -> Nat]
    BY <2>3
  <2>5. g[0] = u
    BY <2>1, <2>3
  <2>6. ASSUME NEW n \in 1 .. m PROVE g[n] = g[n - 1] + c[n]
    <3>1. n - 1 \in 0 .. m /\ n \in 0 .. m /\ n - 1 # m
      OBVIOUS
    <3>2. g[n - 1] = f[n - 1] /\ g[n] = IF n = m THEN v ELSE f[n]
      BY <2>3, <3>1
    <3>3. n # m => n \in 1 .. m - 1
      OBVIOUS
    <3>q. QED BY <2>1, <2>2, <3>2, <3>3
  <2>q. QED BY <2>4, <2>5, <2>6
<1> HIDE DEF Upto
<1> PICK Bad : Bad = {m \in 0 .. L : ~Upto(m)}
  OBVIOUS
<1>2. ASSUME Bad # {} PROVE FALSE
  <2>1. Bad \in SUBSET Nat
    OBVIOUS
  <2>2. PICK m \in Bad : \A n \in Bad : m <= n
    BY ONLY <1>2, <2>1, LeastOf
  <2>3. m \in 0 .. L /\ ~Upto(m) /\ m # 0
    BY <1>0
  <2>4. m \in 1 .. L /\ m - 1 \in 0 .. L /\ ~(m <= m - 1)
    BY <2>3
  <2>5. m - 1 \notin Bad
    BY <2>2, <2>4
  <2>q. QED BY <1>1, <2>3, <2>4, <2>5
<1>3. L \in 0 .. L /\ L \notin Bad
  BY <1>2
<1>4. Upto(L)
  BY <1>3
<1>q. QED BY <1>4 DEF Upto, Sums

\* What a section has spent after each line.
LEMMA SpentIs ==
    ASSUME NEW u \in Nat, NEW lines, NEW L \in Nat, Len(lines) = L, \A i \in 1 .. L : lines[i][2] \in Nat
    PROVE  /\ Spent(u, lines)[0] = u
           /\ \A n \in 1 .. L : Spent(u, lines)[n] = Spent(u, lines)[n - 1] + lines[n][2]
           /\ \A n \in 0 .. L : Spent(u, lines)[n] \in Nat
<1> PICK sum : sum = Spent(u, lines)
  OBVIOUS
<1>1. \E f : f = [n \in 0 .. L |-> IF n = 0 THEN u ELSE f[n - 1] + lines[n][2]]
  <2> PICK c : c = [n \in 1 .. L |-> lines[n][2]]
    OBVIOUS
  <2>1. \A n \in 1 .. L : c[n] = lines[n][2] /\ c[n] \in Nat
    OBVIOUS
  <2>2. \E f : Sums(f, L, c, u)
    <3>1. \A n \in 1 .. L : c[n] \in Nat
      BY <2>1
    <3>q. QED BY <3>1, RunningSum
  <2>3. PICK f \in [0 .. L -> Nat] : f[0] = u /\ \A n \in 1 .. L : f[n] = f[n - 1] + c[n]
    BY <2>2 DEF Sums
  <2>4. ASSUME NEW n \in 0 .. L PROVE f[n] = IF n = 0 THEN u ELSE f[n - 1] + lines[n][2]
    BY <2>1, <2>3
  <2>q. QED BY <2>3, <2>4
<1>2. sum = [n \in 0 .. L |-> IF n = 0 THEN u ELSE sum[n - 1] + lines[n][2]]
  BY <1>1 DEF Spent
<1>3. sum[0] = u /\ \A n \in 1 .. L : sum[n] = sum[n - 1] + lines[n][2]
  BY <1>2
<1>4. \A n \in 0 .. L : sum[n] \in Nat
  <2> PICK Bad : Bad = {n \in 0 .. L : sum[n] \notin Nat}
    OBVIOUS
  <2>1. SUFFICES ASSUME Bad # {} PROVE FALSE
    OBVIOUS
  <2>2. Bad \in SUBSET Nat
    OBVIOUS
  <2>3. PICK m \in Bad : \A n \in Bad : m <= n
    BY ONLY <2>1, <2>2, LeastOf
  <2>4. m \in 0 .. L /\ sum[m] \notin Nat
    OBVIOUS
  <2>5. m # 0 /\ m \in 1 .. L /\ m - 1 \in 0 .. L
    BY <1>3, <2>4
  <2>6. m - 1 \notin Bad
    BY <2>3, <2>5
  <2>7. sum[m - 1] \in Nat /\ lines[m][2] \in Nat /\ sum[m] = sum[m - 1] + lines[m][2]
    BY <1>3, <2>5, <2>6
  <2>q. QED BY <2>4, <2>7
<1>q. QED BY <1>3, <1>4

\* A section shows the lines up to the first that does not fit.
Filled(s, lines, n, fit) ==
    s.shown = {lines[i][1] : i \in 1 .. fit} /\ (fit < n => s.used + lines[fit + 1][2] > Avail)

\* How much a section spends, and what it shows.
LEMMA SectionIs ==
    ASSUME NEW u \in Nat, u <= Avail, NEW lines, NEW L \in Nat, Len(lines) = L,
           \A i \in 1 .. L : lines[i][2] \in Nat
    PROVE  /\ Section(u, lines).used \in Nat /\ Section(u, lines).used <= Avail
           /\ \E fit \in 0 .. L : Filled(Section(u, lines), lines, L, fit)
<1> PICK sum : sum = Spent(u, lines)
  OBVIOUS
<1>1. /\ sum[0] = u
      /\ \A n \in 1 .. L : sum[n] = sum[n - 1] + lines[n][2]
      /\ \A n \in 0 .. L : sum[n] \in Nat
  <2>1. /\ Spent(u, lines)[0] = u
        /\ \A n \in 1 .. L : Spent(u, lines)[n] = Spent(u, lines)[n - 1] + lines[n][2]
        /\ \A n \in 0 .. L : Spent(u, lines)[n] \in Nat
    <3>1. Len(lines) = L /\ \A i \in 1 .. L : lines[i][2] \in Nat
      OBVIOUS
    <3>q. QED BY <3>1, SpentIs
  <2>q. QED BY ONLY <2>1, sum = Spent(u, lines)
<1> PICK Fits : Fits = {n \in 0 .. L : sum[n] <= Avail}
  OBVIOUS
<1>2. 0 \in Fits /\ Fits \in SUBSET (0 .. L)
  BY <1>1
<1>3. \E m \in Fits : \A n \in Fits : n <= m
  BY <1>2, GreatestOf
<1> PICK fit : fit = Max(Fits)
  OBVIOUS
<1>4. fit \in Fits /\ \A n \in Fits : n <= fit
  BY <1>3 DEF Max
<1>5. Section(u, lines) = [used |-> sum[fit], shown |-> {lines[i][1] : i \in 1 .. fit}]
  BY DEF Section
<1>6. ASSUME fit < L PROVE sum[fit] + lines[fit + 1][2] > Avail
  <2>1. fit + 1 \in 1 .. L /\ fit + 1 \notin Fits
    BY <1>4, <1>6
  <2>2. sum[fit + 1] = sum[fit] + lines[fit + 1][2]
    BY <1>1, <2>1, <1>4
  <2>3. sum[fit + 1] \in Nat /\ Avail \in Nat
    BY <1>1, <2>1, AgentContextAssumption
  <2>q. QED BY <2>1, <2>2, <2>3
<1>7. fit \in 0 .. L /\ sum[fit] \in Nat /\ sum[fit] <= Avail
  BY <1>1, <1>4
<1>8. Section(u, lines).used = sum[fit] /\ Section(u, lines).shown = {lines[i][1] : i \in 1 .. fit}
  BY <1>5
<1>9. Filled(Section(u, lines), lines, L, fit)
  BY <1>6, <1>8 DEF Filled
<1>q. QED BY ONLY <1>7, <1>8, <1>9

\* The length of a list, given by its domain.
LEMMA ListLength ==
    ASSUME NEW n \in Nat, NEW S, NEW f \in [1 .. n -> S]
    PROVE  Len(f) = n
<1>1. f \in Seq(S) /\ DOMAIN f = 1 .. n
  OBVIOUS
<1>2. DOMAIN f = 1 .. Len(f) /\ Len(f) \in Nat
  BY <1>1
<1>3. 1 .. n = 1 .. Len(f)
  BY ONLY <1>1, <1>2
<1>q. QED BY ONLY <1>2, <1>3, n \in Nat

\* The same of a list of the members of a finite set.
LEMMA Listed ==
    ASSUME NEW S, IsFiniteSet(S)
    PROVE  /\ Cardinality(S) \in Nat /\ Len(SetToSeq(S)) = Cardinality(S)
           /\ \A i \in 1 .. Cardinality(S) : SetToSeq(S)[i] \in S
<1> PICK n : n = Cardinality(S)
  OBVIOUS
<1>1. n \in Nat /\ ExistsBijection(1 .. n, S)
  BY FS_CardinalityType
<1>2. \E f \in [1 .. n -> S] : IsInjective(f)
  <2>1. PICK f : f \in Bijection(1 .. n, S)
    BY <1>1 DEF ExistsBijection
  <2>2. f \in [1 .. n -> S] /\ IsInjective(f)
    BY <2>1 DEF Bijection, Injection, IsInjective
  <2>q. QED BY <2>2
<1> PICK s : s = SetToSeq(S)
  OBVIOUS
<1>3. s \in [1 .. n -> S]
  BY <1>2 DEF SetToSeq
<1>4. Len(s) = n
  BY <1>1, <1>3, ListLength
<1>5. \A i \in 1 .. n : s[i] \in S
  BY <1>3
<1>q. QED BY <1>1, <1>4, <1>5

\* A section of the lines of a finite set stays within the budget.
LEMMA ListSection ==
    ASSUME NEW u \in Nat, u <= Avail, NEW S, IsFiniteSet(S), \A x \in S : x[2] \in Nat
    PROVE  Section(u, SetToSeq(S)).used \in Nat /\ Section(u, SetToSeq(S)).used <= Avail
<1> PICK n : n = Cardinality(S)
  OBVIOUS
<1> PICK s : s = SetToSeq(S)
  OBVIOUS
<1>1. n \in Nat /\ Len(s) = n /\ \A i \in 1 .. n : s[i] \in S
  BY Listed
<1>2. \A i \in 1 .. n : s[i][2] \in Nat
  BY <1>1
<1>3. Section(u, s).used \in Nat /\ Section(u, s).used <= Avail
  BY <1>1, <1>2, SectionIs
<1>q. QED BY <1>3

\* A set whose members are told apart by a finite set of names is finite.
LEMMA NamedFinite ==
    ASSUME NEW S, NEW N, IsFiniteSet(N), \A x \in S : x[1] \in N, \A x, y \in S : x[1] = y[1] => x = y
    PROVE  IsFiniteSet(S)
<1> PICK f : f = [x \in S |-> x[1]]
  OBVIOUS
<1>1. f \in [S -> N] /\ \A x, y \in S : x # y => f[x] # f[y]
  OBVIOUS
<1>2. f \in Injection(S, N)
  BY <1>1 DEF Injection, IsInjective
<1>q. QED BY <1>2, FS_Injection

\* A line for each name of a finite set: a finite set of lines.
LEMMA OnesFinite ==
    ASSUME NEW F, IsFiniteSet(F)
    PROVE  IsFiniteSet({<<f, 1>> : f \in F}) /\ \A x \in {<<f, 1>> : f \in F} : x[2] \in Nat
<1> PICK S : S = {<<f, 1>> : f \in F}
  OBVIOUS
<1>1. \A x \in S : x[1] \in F /\ x = <<x[1], 1>> /\ x[2] = 1
  OBVIOUS
<1>2. \A x, y \in S : x[1] = y[1] => x = y
  BY <1>1
<1>3. IsFiniteSet(S)
  BY <1>1, <1>2, NamedFinite
<1>q. QED BY <1>1, <1>3

\* What the sections are made of: finitely many lines, and none of them free of cost
\* or worth less than nothing.
DraftOK(c) ==
    /\ IsFiniteSet(c.recs) /\ \A r \in c.recs : r.cost \in Nat
    /\ IsFiniteSet(c.warned) /\ IsFiniteSet(c.nudged)
    /\ IsFiniteSet(c.decs) /\ \A x \in c.decs : x[2] \in Nat
    /\ c.stage \in Nat
    /\ \A p \in c.found : /\ p = <<p[1], p[2]>> /\ p[1] \in Lore
                          /\ p[2] \in GotchaRecords /\ p[2].quality >= 40000
    /\ \A p, r \in c.found : p[1] = r[1] => p = r

\* The sections keep to the budget: that of the files,
LEMMA FileSectionFits ==
    ASSUME NEW c, DraftOK(c), NEW u \in Nat, u <= Avail
    PROVE  FileSection(u, c).used \in Nat /\ FileSection(u, c).used <= Avail
<1> PICK X : X = {x \in c.recs : x.cost > 0}
  OBVIOUS
<1> PICK S : S = {<<r.file, r.cost>> : r \in X}
  OBVIOUS
<1>1. IsFiniteSet(X) /\ \A r \in X : r.cost \in Nat
  <2>1. X \in SUBSET c.recs /\ IsFiniteSet(c.recs) /\ \A r \in c.recs : r.cost \in Nat
    BY DEF DraftOK
  <2>q. QED BY <2>1, FS_Subset
<1> PICK F : F = [r \in X |-> <<r.file, r.cost>>]
  OBVIOUS
<1>2. F \in Surjection(X, S)
  BY DEF Surjection
<1>3. IsFiniteSet(S)
  BY <1>1, <1>2, FS_Surjection
<1>4. \A x \in S : x[2] \in Nat
  BY <1>1
<1>5. Section(u, SetToSeq(S)).used \in Nat /\ Section(u, SetToSeq(S)).used <= Avail
  BY <1>3, <1>4, ListSection
<1>6. FileSection(u, c) = Section(u, SetToSeq(S))
  BY DEF FileSection
<1>q. QED BY <1>5, <1>6

\* that of the files with the widest impact,
LEMMA ImpactSectionFits ==
    ASSUME NEW c, DraftOK(c), NEW u \in Nat, u <= Avail
    PROVE  ImpactSection(u, c).used \in Nat /\ ImpactSection(u, c).used <= Avail
<1> PICK hit : hit = {r \in c.recs : r.blast > 0}
  OBVIOUS
<1>1. Cardinality(hit) \in Nat
  <2>1. hit \in SUBSET c.recs /\ IsFiniteSet(c.recs)
    BY DEF DraftOK
  <2>q. QED BY <2>1, FS_Subset, FS_CardinalityType
<1> PICK m : m = Min({3, Cardinality(hit)})
  OBVIOUS
<1>2. m \in Nat
  <2>1. \E x \in {3, Cardinality(hit)} : \A y \in {3, Cardinality(hit)} : x <= y
    BY <1>1
  <2>2. m \in {3, Cardinality(hit)}
    BY <2>1 DEF Min
  <2>q. QED BY <1>1, <2>2
<1> PICK ranked : ranked = CHOOSE s \in Falling(hit, [r \in hit |-> r.blast]) : TRUE
  OBVIOUS
<1> PICK lines : lines = [i \in 1 .. m |-> <<ranked[i].file, 1>>]
  OBVIOUS
<1>3. Len(lines) = m
  <2>1. lines \in [1 .. m -> {<<ranked[i].file, 1>> : i \in 1 .. m}]
    OBVIOUS
  <2>q. QED BY <1>2, <2>1, ListLength
<1>4. \A i \in 1 .. m : lines[i][2] \in Nat
  OBVIOUS
<1>5. Section(u, lines).used \in Nat /\ Section(u, lines).used <= Avail
  BY <1>2, <1>3, <1>4, SectionIs
<1>6. ImpactSection(u, c) = Section(u, lines)
  BY DEF ImpactSection
<1>q. QED BY <1>5, <1>6

\* and those of the decisions, the warnings, the nudges and the stage.
LEMMA TailSectionsFit ==
    ASSUME NEW c, DraftOK(c), NEW u \in Nat, u <= Avail
    PROVE  TailSections(u, c).used \in Nat /\ TailSections(u, c).used <= Avail
<1>0. /\ IsFiniteSet(c.warned) /\ IsFiniteSet(c.nudged)
      /\ IsFiniteSet(c.decs) /\ \A x \in c.decs : x[2] \in Nat
  BY DEF DraftOK
<1> PICK W : W = {<<f, 1>> : f \in c.warned}
  OBVIOUS
<1> PICK N : N = {<<f, 1>> : f \in c.nudged}
  OBVIOUS
<1>1. IsFiniteSet(W) /\ \A x \in W : x[2] \in Nat
  BY <1>0, OnesFinite
<1>2. IsFiniteSet(N) /\ \A x \in N : x[2] \in Nat
  BY <1>0, OnesFinite
<1> PICK a : a = Section(u, SetToSeq(W)).used
  OBVIOUS
<1>3. a \in Nat /\ a <= Avail
  BY <1>1, ListSection
<1> PICK b : b = Section(a, SetToSeq(c.decs)).used
  OBVIOUS
<1>4. b \in Nat /\ b <= Avail
  BY <1>0, <1>3, ListSection
<1>5. Section(b, SetToSeq(N)).used \in Nat /\ Section(b, SetToSeq(N)).used <= Avail
  BY <1>2, <1>4, ListSection
<1>6. TailSections(u, c) = Section(b, SetToSeq(N))
  BY DEF TailSections
<1>q. QED BY <1>5, <1>6

\* Every gotcha found is good enough to stay.
LEMMA AllCritical ==
    ASSUME NEW c, DraftOK(c)
    PROVE  Critical(c) = c.found
<1>1. ASSUME NEW p \in c.found PROVE QualityTier(p[2].quality) # "suppressed"
  <2>1. p[2].quality \in Int /\ p[2].quality >= 40000
    BY DEF DraftOK, GotchaRecords
  <2>q. QED BY <2>1 DEF QualityTier
<1>q. QED BY <1>1 DEF Critical

\* A ranking lists every rule once, by falling score.
LEMMA RankingIs ==
    ASSUME NEW c, DraftOK(c), NEW ranked \in Rankings(c)
    PROVE  LET n == Cardinality(Rules(c)) IN
           /\ n \in Nat /\ ranked \in [1 .. n -> Rules(c)]
           /\ \A p \in Rules(c) : \E i \in 1 .. n : ranked[i] = p
           /\ \A i, j \in 1 .. n : i < j => ranked[i] # ranked[j] /\ Score(ranked[j][2]) <= Score(ranked[i][2])
<1> PICK S : S = Rules(c)
  OBVIOUS
<1> PICK n : n = Cardinality(S)
  OBVIOUS
<1>1. IsFiniteSet(S)
  <2>1. \A p \in S : p[1] \in Lore
    BY DEF DraftOK, Rules, Critical
  <2>2. \A p, r \in S : p[1] = r[1] => p = r
    BY DEF DraftOK, Rules, Critical
  <2>q. QED BY <2>1, <2>2, NamedFinite, AgentContextAssumption
<1>2. n \in Nat
  BY <1>1, FS_CardinalityType
<1>3. /\ ranked \in [1 .. n -> S]
      /\ \A i, j \in 1 .. n : i < j => /\ ranked[i] # ranked[j]
                                       /\ [p \in S |-> Score(p[2])][ranked[i]] >= [p \in S |-> Score(p[2])][ranked[j]]
  BY DEF Rankings, Falling
<1>4. \A i, j \in 1 .. n : i < j => Score(ranked[i][2]) >= Score(ranked[j][2])
  <2>1. ASSUME NEW i \in 1 .. n PROVE [p \in S |-> Score(p[2])][ranked[i]] = Score(ranked[i][2])
    BY <1>3
  <2>q. QED BY <1>3, <2>1
<1>5. ranked \in Injection(1 .. n, S)
  <2>1. ASSUME NEW i \in 1 .. n, NEW j \in 1 .. n, i # j PROVE ranked[i] # ranked[j]
    <3>1. i < j \/ j < i
      BY <1>2, <2>1
    <3>q. QED BY <1>3, <3>1
  <2>q. QED BY <1>3, <2>1 DEF Injection, IsInjective
<1>6. ranked \in Surjection(1 .. n, S)
  <2>1. n \in Int /\ 1 \in Int /\ 1 <= n + 1 /\ n - 1 + 1 = n
    BY <1>2
  <2>2. Cardinality(1 .. n) = n
    BY ONLY <2>1, IntervalSize
  <2>q. QED BY <1>1, <1>5, <2>2, FS_Injection
<1>7. \A p \in S : \E i \in 1 .. n : ranked[i] = p
  BY <1>6 DEF Surjection
<1>8. \A i, j \in 1 .. n : i < j => Score(ranked[j][2]) <= Score(ranked[i][2])
  BY <1>4
<1>q. QED BY <1>2, <1>3, <1>7, <1>8

\* The gotcha section: a rule left out has no less trusted one shown in its place, and
\* one is left out only because one did not fit.
LEMMA RulesShown ==
    ASSUME NEW c, DraftOK(c), NEW ranked \in Rankings(c)
    PROVE  LET s == RuleSection(c, ranked)
               keys == {g[1] : g \in c.found}
               Left(g) == g[1] \notin CochangeKeys /\ g[1] \notin s.shown IN
           /\ s.used \in Nat /\ s.used <= Avail
           /\ s.shown \subseteq keys
           /\ \A g, h \in c.found : g[1] \in s.shown \ CochangeKeys /\ Left(h) => Score(h[2]) <= Score(g[2])
           /\ (\E h \in c.found : Left(h)) => \E g \in c.found : Left(g) /\ g[2].text.cost > s.room
<1> PICK n : n = Cardinality(Rules(c))
  OBVIOUS
<1>0. /\ n \in Nat /\ ranked \in [1 .. n -> Rules(c)]
      /\ \A p \in Rules(c) : \E i \in 1 .. n : ranked[i] = p
      /\ \A i, j \in 1 .. n : i < j => ranked[i] # ranked[j] /\ Score(ranked[j][2]) <= Score(ranked[i][2])
  BY RankingIs
<1> USE <1>0
<1>1. DOMAIN ranked = 1 .. n
  OBVIOUS
<1>2. \A g \in c.found : g \in Rules(c) <=> g[1] \notin CochangeKeys
  BY AllCritical DEF Rules
<1>3. /\ Rules(c) \subseteq c.found
      /\ \A g \in c.found : g[1] \in Lore /\ g[2].text.cost \in Nat
      /\ \A g, h \in c.found : g[1] = h[1] => g = h
  <2>1. \A g \in c.found : g[1] \in Lore /\ g[2] \in GotchaRecords
    BY DEF DraftOK
  <2>2. \A g \in c.found : g[2].text.cost \in Nat
    BY <2>1 DEF GotchaRecords, Wording
  <2>3. Rules(c) \subseteq c.found /\ \A g, h \in c.found : g[1] = h[1] => g = h
    BY AllCritical DEF Rules, DraftOK
  <2>q. QED BY <2>1, <2>2, <2>3
<1> PICK lines : lines = [i \in 1 .. n |-> <<ranked[i][1], ranked[i][2].text.cost>>]
  OBVIOUS
<1>4. \A i \in 1 .. n : lines[i][1] = ranked[i][1] /\ lines[i][2] = ranked[i][2].text.cost /\ lines[i][2] \in Nat
  BY <1>3
<1>5. Len(lines) = n
  <2>1. lines \in [1 .. n -> {<<ranked[i][1], ranked[i][2].text.cost>> : i \in 1 .. n}]
    OBVIOUS
  <2>q. QED BY <2>1, ListLength
<1> PICK u : u = IF c.stage <= Avail THEN c.stage ELSE 0
  OBVIOUS
<1>6. u \in Nat /\ u <= Avail
  BY AgentContextAssumption DEF DraftOK
<1> PICK s : s = Section(u, lines)
  OBVIOUS
<1>7. s.used \in Nat /\ s.used <= Avail /\ \E fit \in 0 .. n : Filled(s, lines, n, fit)
  <2>1. \A i \in 1 .. n : lines[i][2] \in Nat
    BY <1>4
  <2>2. /\ Section(u, lines).used \in Nat /\ Section(u, lines).used <= Avail
        /\ \E fit \in 0 .. n : Filled(Section(u, lines), lines, n, fit)
    BY <1>5, <1>6, <2>1, SectionIs
  <2>q. QED BY ONLY <2>2, s = Section(u, lines)
<1> PICK fit \in 0 .. n : Filled(s, lines, n, fit)
  BY <1>7
<1>e. \A i \in 1 .. fit : i \in 1 .. n /\ i < fit + 1 /\ ranked[i] \in c.found
  <2>1. ASSUME NEW i \in 1 .. fit PROVE i \in 1 .. n /\ i < fit + 1
    BY ONLY n \in Nat, fit \in 0 .. n, i \in 1 .. fit
  <2>2. \A i \in 1 .. n : ranked[i] \in c.found
    BY <1>3
  <2>q. QED BY ONLY <2>1, <2>2
<1>f. s.shown = {lines[i][1] : i \in 1 .. fit} /\ (fit < n => s.used + lines[fit + 1][2] > Avail)
  BY DEF Filled
<1> PICK partners : partners = {p[1] : p \in Critical(c)} \cap CochangeKeys
  OBVIOUS
<1> PICK shared \in BOOLEAN : shared = (partners # {} /\ s.used + 1 <= Avail)
  OBVIOUS
<1> PICK used : used = IF shared THEN s.used + 1 ELSE s.used
  OBVIOUS
<1> PICK added : added = IF shared THEN partners ELSE {}
  OBVIOUS
<1> PICK r : r = RuleSection(c, ranked)
  OBVIOUS
<1>8. r = [used |-> used, room |-> Avail - s.used, shown |-> s.shown \cup added]
  BY <1>1 DEF RuleSection
<1>9. r.used \in Nat /\ r.used <= Avail /\ r.room = Avail - s.used
  <2>1. used \in Nat /\ used <= Avail
    <3>1. CASE shared
      <4>1. used = s.used + 1 /\ s.used + 1 <= Avail
        BY ONLY <3>1, shared = (partners # {} /\ s.used + 1 <= Avail), used = IF shared THEN s.used + 1 ELSE s.used, Zenon
      <4>q. QED BY ONLY <1>7, <4>1
    <3>2. CASE ~shared
      <4>1. used = s.used
        BY ONLY <3>2, used = IF shared THEN s.used + 1 ELSE s.used, Zenon
      <4>q. QED BY ONLY <1>7, <4>1
    <3>q. QED BY ONLY <3>1, <3>2
  <2>2. r.used = used /\ r.room = Avail - s.used
    BY ONLY <1>8
  <2>q. QED BY <2>1, <2>2
<1>10. r.shown = s.shown \cup added /\ added \subseteq partners
  BY ONLY <1>8, added = IF shared THEN partners ELSE {}
<1>11. \A x \in r.shown \ CochangeKeys : x \in s.shown
  BY <1>10
<1>12. s.shown \subseteq r.shown
  BY <1>10
<1>13. s.shown = {ranked[i][1] : i \in 1 .. fit}
  <2>1. \A i \in 1 .. fit : lines[i][1] = ranked[i][1]
    BY <1>4
  <2>q. QED BY ONLY <1>f, <2>1
<1>14. r.shown \subseteq {g[1] : g \in c.found}
  <2>1. partners \subseteq {g[1] : g \in c.found}
    BY AllCritical
  <2>2. \A i \in 1 .. fit : ranked[i] \in c.found
    BY <1>e
  <2>3. s.shown \subseteq {g[1] : g \in c.found}
    BY <1>13, <2>2
  <2>q. QED BY <1>10, <2>1, <2>3
<1>15. ASSUME NEW h \in c.found, h[1] \notin CochangeKeys, h[1] \notin r.shown
       PROVE  \E j \in 1 .. n : ranked[j] = h /\ fit < j
  <2>1. PICK j \in 1 .. n : ranked[j] = h
    BY <1>2, <1>15
  <2>2. h[1] \notin s.shown
    BY <1>12, <1>15
  <2>3. j \notin 1 .. fit
    BY <1>13, <2>1, <2>2
  <2>q. QED BY <2>1, <2>3
<1>16. ASSUME NEW g \in c.found, NEW h \in c.found, g[1] \in r.shown \ CochangeKeys,
              h[1] \notin CochangeKeys, h[1] \notin r.shown
       PROVE  Score(h[2]) <= Score(g[2])
  <2>1. PICK j \in 1 .. n : ranked[j] = h /\ fit < j
    BY <1>15, <1>16
  <2>2. PICK i \in 1 .. fit : g[1] = ranked[i][1]
    BY <1>11, <1>13, <1>16
  <2>3. i \in 1 .. n /\ i < j
    BY <2>1, <2>2
  <2>4. ranked[i] = g
    BY <1>3, <2>2, <2>3
  <2>q. QED BY <2>1, <2>3, <2>4
<1>17. ASSUME NEW h \in c.found, h[1] \notin CochangeKeys, h[1] \notin r.shown
       PROVE  \E g \in c.found : g[1] \notin CochangeKeys /\ g[1] \notin r.shown /\ g[2].text.cost > r.room
  <2>1. fit < n /\ fit + 1 \in 1 .. n
    BY <1>15, <1>17
  <2> PICK g : g = ranked[fit + 1]
    OBVIOUS
  <2>2. g \in Rules(c) /\ g \in c.found
    BY <1>3, <2>1
  <2>3. g[1] \notin CochangeKeys
    BY <1>2, <2>2
  <2>4. g[1] \notin s.shown
    <3>1. ASSUME NEW i \in 1 .. fit, g[1] = ranked[i][1] PROVE FALSE
      <4>1. i \in 1 .. n /\ i < fit + 1 /\ ranked[i] \in c.found
        BY <1>e
      <4>2. ranked[i] # g
        BY <2>1, <4>1
      <4>q. QED BY <1>3, <2>2, <3>1, <4>1, <4>2
    <3>q. QED BY <1>13, <3>1
  <2>5. g[1] \notin r.shown
    BY <1>11, <2>3, <2>4
  <2>6. s.used + g[2].text.cost > Avail
    BY <1>4, <1>f, <2>1
  <2>7. g[2].text.cost > r.room
    <3>1. g[2].text.cost \in Int /\ s.used \in Int /\ Avail \in Int
      <4>1. g[2].text.cost \in Nat
        BY <1>3, <2>2
      <4>q. QED BY ONLY <4>1, <1>7, AgentContextAssumption
    <3>q. QED BY ONLY <1>9, <2>6, <3>1
  <2>q. QED BY <2>2, <2>3, <2>5, <2>7
<1>q. QED BY <1>9, <1>14, <1>16, <1>17

\* A packet keeps to the budget and holds the gotchas found.
LEMMA Composed ==
    ASSUME NEW c, DraftOK(c), NEW ranked \in Rankings(c)
    PROVE  LET t == Compose(c, ranked)
               keys == {g[1] : g \in c.found}
               Left(g) == g[1] \notin CochangeKeys /\ g[1] \notin t.shown IN
           /\ t.gotchas = c.found
           /\ t.used <= Avail
           /\ t.shown \subseteq keys
           /\ \A g, h \in c.found : g[1] \in t.shown \ CochangeKeys /\ Left(h) => Score(h[2]) <= Score(g[2])
           /\ (\E h \in c.found : Left(h)) => \E g \in c.found : Left(g) /\ g[2].text.cost > t.room
<1> PICK r : r = RuleSection(c, ranked)
  OBVIOUS
<1>1. /\ r.used \in Nat /\ r.used <= Avail
      /\ r.shown \subseteq {g[1] : g \in c.found}
      /\ \A g, h \in c.found : g[1] \in r.shown \ CochangeKeys /\ h[1] \notin CochangeKeys /\ h[1] \notin r.shown
                               => Score(h[2]) <= Score(g[2])
      /\ (\E h \in c.found : h[1] \notin CochangeKeys /\ h[1] \notin r.shown)
         => \E g \in c.found : g[1] \notin CochangeKeys /\ g[1] \notin r.shown /\ g[2].text.cost > r.room
  BY RulesShown
<1> PICK filed : filed = FileSection(r.used, c).used
  OBVIOUS
<1>2. filed \in Nat /\ filed <= Avail
  BY <1>1, FileSectionFits
<1> PICK impact : impact = ImpactSection(filed, c).used
  OBVIOUS
<1>3. impact \in Nat /\ impact <= Avail
  BY <1>2, ImpactSectionFits
<1>4. TailSections(impact, c).used <= Avail
  BY <1>3, TailSectionsFit
<1>5. Compose(c, ranked) = [gotchas |-> c.found, shown |-> r.shown, room |-> r.room, used |-> TailSections(impact, c).used]
  BY AllCritical DEF Compose
<1>q. QED BY <1>1, <1>4, <1>5

\* The stores hold records of their kinds.
StoreTyped ==
    /\ lore \in [Lore -> GotchaRecords]
    /\ tree \in [CtxFiles -> FileRecords]
    /\ plan \in [CtxDecisions -> PlanRecords]

\* A score is a number, and what a gotcha becomes is a record again.
LEMMA AnalyzeType ==
    ASSUME NEW t \in Wording, NEW prio, NEW ref
    PROVE  Analyze(t, prio, ref) \in Int
<1> PICK sum : sum = 20000 * Bool(t.verb) + 25000 * Bool(t.cause) + 10000 * Bool(prio # 2)
                 + 15000 * Bool(ref) + LengthScore(t.len) + SpecificityScore(t.hits)
  OBVIOUS
<1>1. sum \in Int
  <2>1. Bool(t.verb) \in Int /\ Bool(t.cause) \in Int /\ Bool(prio # 2) \in Int /\ Bool(ref) \in Int
    BY DEF Bool
  <2>2. t.len \in Nat /\ t.hits \in Nat
    BY DEF Wording
  <2>3. LengthScore(t.len) \in Int /\ SpecificityScore(t.hits) \in Int
    BY <2>2 DEF LengthScore, SpecificityScore
  <2> PICK a, b, c, d, e, f : a = Bool(t.verb) /\ b = Bool(t.cause) /\ c = Bool(prio # 2) /\ d = Bool(ref)
                              /\ e = LengthScore(t.len) /\ f = SpecificityScore(t.hits)
    OBVIOUS
  <2>4. a \in Int /\ b \in Int /\ c \in Int /\ d \in Int /\ e \in Int /\ f \in Int
    BY <2>1, <2>3
  <2>5. sum = 20000 * a + 25000 * b + 10000 * c + 15000 * d + e + f
    OBVIOUS
  <2>q. QED BY ONLY <2>4, <2>5
<1> PICK x : x = IF t.vague THEN (sum * 5) \div 10 ELSE sum
  OBVIOUS
<1>2. x \in Int
  BY <1>1
<1> PICK y : y = IF t.len < 30 THEN (x * 4) \div 10 ELSE x
  OBVIOUS
<1>3. y \in Int
  BY <1>2
<1>4. Analyze(t, prio, ref) = IF ~t.cause THEN (y * 6) \div 10 ELSE y
  BY DEF Analyze
<1>q. QED BY <1>3, <1>4

\* What a written gotcha is.
LEMMA Upserted ==
    ASSUME NEW r \in GotchaRecords, NEW t \in Texts, NEW prio \in {2, 4}
    PROVE  LET old == IF r.life = "active" THEN r ELSE [r EXCEPT !.stale = "fresh", !.ref = FALSE]
               new == [old EXCEPT !.life = "active", !.text = [t EXCEPT !.cause = TRUE], !.prio = prio,
                                  !.source = "enrich", !.confirmed = FALSE]
               put == [new EXCEPT !.quality = Quality(new)]
           IN  put \in GotchaRecords /\ ~put.confirmed
<1> PICK old : old = IF r.life = "active" THEN r ELSE [r EXCEPT !.stale = "fresh", !.ref = FALSE]
  OBVIOUS
<1>1. old \in GotchaRecords
  BY DEF GotchaRecords, Stale
<1> PICK w : w = [t EXCEPT !.cause = TRUE]
  OBVIOUS
<1>2. w \in Wording
  <2>1. t \in Wording
    BY AgentContextAssumption
  <2>q. QED BY <2>1 DEF Wording
<1> PICK new : new = [old EXCEPT !.life = "active", !.text = w, !.prio = prio, !.source = "enrich", !.confirmed = FALSE]
  OBVIOUS
<1>3. new \in GotchaRecords /\ new.confirmed = FALSE
  <2>1. prio \in Nat
    OBVIOUS
  <2>q. QED BY ONLY <1>1, <1>2, <2>1,
              new = [old EXCEPT !.life = "active", !.text = w, !.prio = prio, !.source = "enrich", !.confirmed = FALSE]
           DEF GotchaRecords, Life
<1>4. Quality(new) \in Int
  BY <1>3, AnalyzeType DEF Quality, GotchaRecords
<1> PICK q \in Int : q = Quality(new)
  BY <1>4
<1> PICK put : put = [new EXCEPT !.quality = q]
  OBVIOUS
<1>5. put \in GotchaRecords /\ put.confirmed = FALSE
  BY ONLY <1>3, q \in Int, put = [new EXCEPT !.quality = q] DEF GotchaRecords
<1>q. QED BY <1>5

\* A confirmed gotcha and an improved one carry the score of their text.
LEMMA Rescored ==
    ASSUME NEW r \in GotchaRecords
    PROVE  /\ LET put == [r EXCEPT !.confirmed = TRUE, !.source = "dev", !.quality = Quality(r)] IN
              put \in GotchaRecords /\ put.quality = Quality(put)
           /\ \A t \in Texts :
              LET put == [r EXCEPT !.text = t, !.quality = Analyze(t, r.prio, r.ref)] IN
              put \in GotchaRecords /\ put.quality = Quality(put)
<1>1. r.text \in Wording
  BY DEF GotchaRecords
<1>2. Quality(r) \in Int
  BY <1>1, AnalyzeType DEF Quality
<1> PICK q \in Int : q = Quality(r)
  BY <1>2
<1> PICK a : a = [r EXCEPT !.confirmed = TRUE, !.source = "dev", !.quality = q]
  OBVIOUS
<1>3. a \in GotchaRecords /\ a.quality = q /\ a.text = r.text /\ a.prio = r.prio /\ a.ref = r.ref
  BY DEF GotchaRecords
<1>4. Quality(a) = q
  BY <1>3 DEF Quality
<1>5. ASSUME NEW t \in Texts
      PROVE  LET put == [r EXCEPT !.text = t, !.quality = Analyze(t, r.prio, r.ref)] IN
             put \in GotchaRecords /\ put.quality = Quality(put)
  <2>1. t \in Wording
    BY AgentContextAssumption
  <2>2. Analyze(t, r.prio, r.ref) \in Int
    BY <2>1, AnalyzeType
  <2> PICK p \in Int : p = Analyze(t, r.prio, r.ref)
    BY <2>2
  <2> PICK b : b = [r EXCEPT !.text = t, !.quality = p]
    OBVIOUS
  <2>3. b \in GotchaRecords /\ b.quality = p /\ b.text = t /\ b.prio = r.prio /\ b.ref = r.ref
    BY <2>1 DEF GotchaRecords
  <2>4. Quality(b) = p
    BY <2>3 DEF Quality
  <2>q. QED BY <2>3, <2>4
<1>q. QED BY <1>3, <1>4, <1>5

\* One gotcha changed for a record: the store stays one of records, and of scored ones.
LEMMA OneGotcha ==
    ASSUME StoreTyped, QualityCurrent, NEW k \in Lore, NEW put \in GotchaRecords,
           put.life = "active" /\ put.confirmed => put.quality = Quality(put),
           lore' = [lore EXCEPT ![k] = put]
    PROVE  lore' \in [Lore -> GotchaRecords] /\ QualityCurrent'
<1>1. lore' \in [Lore -> GotchaRecords]
  BY DEF StoreTyped
<1>2. ASSUME NEW x \in Lore PROVE lore'[x] = IF x = k THEN put ELSE lore[x]
  BY DEF StoreTyped
<1>3. ASSUME NEW x \in Lore, lore'[x].life = "active", lore'[x].confirmed PROVE lore'[x].quality = Quality(lore'[x])
  <2>1. CASE x = k
    BY <1>2, <1>3, <2>1
  <2>2. CASE x # k
    BY <1>2, <1>3, <2>2 DEF QualityCurrent
  <2>q. QED BY <2>1, <2>2
<1>q. QED BY <1>1, <1>3 DEF QualityCurrent

\* The fields of a file's record.
LEMMA FileFields ==
    ASSUME NEW r \in FileRecords, NEW keys \in SUBSET Lore
    PROVE  /\ r.keys \in SUBSET Lore /\ r.purpose \in Nat
           /\ [r EXCEPT !.keys = keys] \in FileRecords
           /\ [r EXCEPT !.life = "active", !.stale = "fresh", !.keys = keys, !.purpose = 0] \in FileRecords
           /\ \A s \in Stale : [r EXCEPT !.stale = s] \in FileRecords
  BY DEF FileRecords, Stale, Life

\* The fields of a packet being assembled.
DraftFields == {"pc", "files", "left", "recs", "keys", "found", "decKeys", "decs", "warned", "nudged", "stage", "failed"}

\* The due gotchas of a call, wherever it stands: still to be read, or found. What it
\* has met was linked, and what it has found trusted as well.
Met(key) == \E p \in draft.found : p[1] = key
Tracked ==
    /\ draft.pc \in {"idle", "files", "gotchas", "review", "decisions", "format"}
    /\ draft.files \subseteq CtxFiles
    /\ draft.pc = "files" =>
         /\ draft.found = {} /\ draft.left \subseteq draft.files
         /\ draft.files # {} => \A h \in held : h[1] \in draft.left \/ h[2] \in draft.keys \/ Excused(draft.failed, h)
    /\ draft.pc = "gotchas" =>
         /\ draft.left \subseteq ever.linked
         /\ \A h \in held : h[2] \in draft.left \/ Met(h[2]) \/ Excused(draft.failed, h)
         /\ \A p \in draft.found : p[1] \notin draft.left
    /\ draft.pc \in {"review", "decisions", "format"} => \A h \in held : Met(h[2]) \/ Excused(draft.failed, h)
    /\ draft.keys \subseteq ever.linked
    /\ \A p \in draft.found : p[1] \in ever.linked /\ p[1] \in ever.trusted

DraftInv == DOMAIN draft = DraftFields /\ DraftOK(draft) /\ Tracked
\* The inductive invariant: the stores' types, the scores, the draft and what was told.
CtxInv == StoreTyped /\ QualityCurrent /\ DraftInv /\ PacketHonest /\ AnswersFair

\* A pair excused stays so while the edges stand still and no failure is forgotten.
LEMMA ExcusedStays ==
    ASSUME web' = web, draft.failed \subseteq draft'.failed
    PROVE  \A h : Excused(draft.failed, h) => Excused(draft.failed, h)'
<1>1. ASSUME NEW f PROVE ByEdges(f)' = ByEdges(f)
  BY DEF ByEdges, Neighbours
<1>q. QED BY <1>1 DEF Excused

\* What the history of a step of a call holds.
LEMMA WatchIs ==
    ASSUME Watch
    PROVE  /\ held' \subseteq held
           /\ \A h \in held' : h \in Linked(draft.files) /\ Trusted(h[2])
           /\ ever.linked \subseteq ever'.linked /\ ever.trusted \subseteq ever'.trusted
           /\ \A h \in Linked(draft.files) : h[2] \in ever'.linked
           /\ \A k \in Lore : Trusted(k) => k \in ever'.trusted
<1>1. ever' = Joined(ever, Seen(draft.files)) /\ held' = held \cap Due(draft.files)
  BY DEF Watch
<1>2. /\ ever'.linked = ever.linked \cup {p[2] : p \in Linked(draft.files)}
      /\ ever'.trusted = ever.trusted \cup {k \in Lore : Trusted(k)}
  BY <1>1 DEF Joined, Seen
<1>q. QED BY <1>1, <1>2 DEF Due

\* The gate an injected gotcha passes is the trust the packet promises.
LEMMA InjectableIsTrusted ==
    ASSUME StoreTyped, NEW k \in Lore
    PROVE  IsInjectable(lore[k]) <=> Trusted(k)
<1>1. lore[k].quality \in Int
  BY DEF StoreTyped, GotchaRecords
<1>q. QED BY <1>1 DEF IsInjectable, Trusted, QualityTier

\* What is linked to some files is linked to one of them.
LEMMA LinkedOfFile ==
    ASSUME NEW fs, fs # {}
    PROVE  /\ \A h \in Linked(fs) : h[1] \in fs /\ h[2] \in BroughtBy(h[1])
           /\ \A f \in fs : \A k \in BroughtBy(f) : <<f, k>> \in Linked(fs)
  BY DEF Linked

\* Whatever leaves the store, the packets and the answers alone keeps what holds of them.
LEMMA CtxResting ==
    ASSUME CtxInv
    PROVE  /\ UNCHANGED acData => StoreTyped' /\ QualityCurrent'
           /\ UNCHANGED packet => PacketHonest'
           /\ UNCHANGED answer => AnswersFair'
<1>1. UNCHANGED acData => StoreTyped' /\ QualityCurrent'
  BY DEF CtxInv, acData, StoreTyped, QualityCurrent
<1>2. UNCHANGED packet => PacketHonest'
  BY DEF CtxInv, PacketHonest
<1>3. UNCHANGED answer => AnswersFair'
  BY DEF CtxInv, AnswersFair
<1>q. QED BY <1>1, <1>2, <1>3

\* The steps of a call keep the invariant of its draft: its start,
LEMMA BeginInv ==
    ASSUME CtxInv, NEW fs \in SUBSET CtxFiles, Begin(fs)
    PROVE  DraftInv'
<1>1. PICK cost \in {0, 1} : draft' = [NoDraft EXCEPT !.pc = "files", !.files = fs, !.left = fs, !.stage = cost]
  BY DEF Begin
<1>2. draft' = [pc |-> "files", files |-> fs, left |-> fs, recs |-> {}, keys |-> {}, found |-> {}, decKeys |-> {},
                decs |-> {}, warned |-> {}, nudged |-> {}, stage |-> cost, failed |-> {}]
  BY <1>1 DEF NoDraft
<1>3. DOMAIN draft' = DraftFields
  BY <1>2 DEF DraftFields
<1>4. DraftOK(draft')
  BY <1>2, FS_EmptySet DEF DraftOK
<1>5. held' = Due(fs)
  BY DEF Begin
<1>6. fs # {} => \A h \in held' : h[1] \in fs
  BY <1>5, LinkedOfFile DEF Due
<1>7. Tracked'
  BY <1>2, <1>6 DEF Tracked, Met
<1>q. QED BY <1>3, <1>4, <1>7 DEF DraftInv

\* a file and its neighbours read,
LEMMA ReadFileInv ==
    ASSUME CtxInv, NEW f \in CtxFiles, ReadFile(f)
    PROVE  DraftInv'
<1> PICK r : r = tree[f]
  OBVIOUS
<1>0. r.purpose \in Nat
  BY DEF CtxInv, StoreTyped, FileRecords
<1> PICK told \in BOOLEAN : told = FileTold(f)
  BY DEF FileTold
<1> PICK rec : rec = [file |-> f, cost |-> r.purpose, blast |-> r.blast]
  OBVIOUS
<1> PICK dk : dk = draft.decKeys \cup IF r.life # "none" /\ ~told THEN {} ELSE Neighbours(f, "affected_by")
  OBVIOUS
<1> PICK recs : recs = IF told THEN draft.recs \cup {rec} ELSE draft.recs
  OBVIOUS
<1> PICK warned : warned = IF told /\ r.stale \in {"stale", "liability"} THEN draft.warned \cup {f} ELSE draft.warned
  OBVIOUS
<1> PICK nudged : nudged = IF told /\ r.reads >= 3 /\ r.keys = {} THEN draft.nudged \cup {f} ELSE draft.nudged
  OBVIOUS
<1>1. draft' = [draft EXCEPT !.left = @ \ {f}, !.recs = recs, !.keys = @ \cup BroughtBy(f), !.decKeys = dk,
                             !.warned = warned, !.nudged = nudged]
  BY DEF ReadFile
<1>2. DOMAIN draft = DraftFields /\ DraftOK(draft) /\ Tracked
  BY DEF CtxInv, DraftInv
<1>3. /\ draft'.pc = draft.pc /\ draft'.files = draft.files /\ draft'.left = draft.left \ {f}
      /\ draft'.recs = recs /\ draft'.keys = draft.keys \cup BroughtBy(f) /\ draft'.found = draft.found
      /\ draft'.decs = draft.decs /\ draft'.warned = warned /\ draft'.nudged = nudged /\ draft'.stage = draft.stage
      /\ draft'.failed = draft.failed
      /\ DOMAIN draft' = DraftFields
  BY <1>1, <1>2 DEF DraftFields
<1>4. IsFiniteSet(recs) /\ \A x \in recs : x.cost \in Nat
  <2>1. IsFiniteSet(draft.recs) /\ \A x \in draft.recs : x.cost \in Nat
    BY <1>2 DEF DraftOK
  <2>2. rec.cost \in Nat
    BY <1>0
  <2>3. recs = draft.recs \cup {rec} \/ recs = draft.recs
    OBVIOUS
  <2>q. QED BY ONLY <2>1, <2>2, <2>3, FS_AddElement
<1>5. IsFiniteSet(warned) /\ IsFiniteSet(nudged)
  <2>1. IsFiniteSet(draft.warned) /\ IsFiniteSet(draft.nudged)
    BY <1>2 DEF DraftOK
  <2>2. warned = draft.warned \cup {f} \/ warned = draft.warned
    OBVIOUS
  <2>3. nudged = draft.nudged \cup {f} \/ nudged = draft.nudged
    OBVIOUS
  <2>q. QED BY ONLY <2>1, <2>2, <2>3, FS_AddElement
<1>6. DraftOK(draft')
  BY ONLY <1>2, <1>3, <1>4, <1>5 DEF DraftOK
<1>7. draft.pc = "files" /\ f \in draft.left /\ f \in draft.files /\ Watch
  BY <1>2 DEF ReadFile, Tracked
<1>8. /\ held' \subseteq held
      /\ \A h \in held' : h \in Linked(draft.files)
      /\ ever.linked \subseteq ever'.linked /\ ever.trusted \subseteq ever'.trusted
      /\ \A h \in Linked(draft.files) : h[2] \in ever'.linked
  BY <1>7, WatchIs
<1>9. BroughtBy(f) \subseteq ever'.linked
  <2>1. ASSUME NEW k \in BroughtBy(f) PROVE k \in ever'.linked
    <3>1. <<f, k>> \in Linked(draft.files)
      BY <1>7, LinkedOfFile
    <3>q. QED BY <1>8, <3>1
  <2>q. QED BY <2>1
<1>10. ASSUME NEW h \in held' PROVE h[1] \in draft'.left \/ h[2] \in draft'.keys \/ Excused(draft.failed, h)
  <2>1. h[1] \in draft.left \/ h[2] \in draft.keys \/ Excused(draft.failed, h)
    BY <1>2, <1>7, <1>8 DEF Tracked
  <2>2. h[2] \in BroughtBy(h[1])
    BY <1>7, <1>8, LinkedOfFile
  <2>q. QED BY <1>3, <2>1, <2>2
<1>e. \A h : Excused(draft.failed, h) => Excused(draft.failed, h)'
  BY <1>3, ExcusedStays DEF ReadFile, acData
<1>11. Tracked'
  BY ONLY <1>e, <1>2, <1>3, <1>7, <1>8, <1>9, <1>10 DEF Tracked, Met
<1>q. QED BY <1>3, <1>6, <1>11 DEF DraftInv

\* a file whose record could not be read,
LEMMA ReadFileFailsInv ==
    ASSUME CtxInv, NEW f \in CtxFiles, ReadFileFails(f)
    PROVE  DraftInv'
<1>1. draft' = [draft EXCEPT !.left = @ \ {f}, !.failed = @ \cup {f}, !.keys = @ \cup ByEdges(f),
                             !.decKeys = @ \cup Neighbours(f, "affected_by")]
  BY DEF ReadFileFails
<1>2. DOMAIN draft = DraftFields /\ DraftOK(draft) /\ Tracked
  BY DEF CtxInv, DraftInv
<1>3. /\ draft'.pc = draft.pc /\ draft'.files = draft.files /\ draft'.left = draft.left \ {f}
      /\ draft'.recs = draft.recs /\ draft'.keys = draft.keys \cup ByEdges(f) /\ draft'.found = draft.found
      /\ draft'.decs = draft.decs /\ draft'.warned = draft.warned /\ draft'.nudged = draft.nudged
      /\ draft'.stage = draft.stage /\ draft'.failed = draft.failed \cup {f} /\ DOMAIN draft' = DraftFields
  BY <1>1, <1>2 DEF DraftFields
<1>4. DraftOK(draft')
  BY ONLY <1>2, <1>3 DEF DraftOK
<1>5. draft.pc = "files" /\ f \in draft.left /\ f \in draft.files
  BY <1>2 DEF ReadFileFails, Tracked
<1>6. /\ held' \subseteq held
      /\ ever.linked \cup ByEdges(f) \subseteq ever'.linked /\ ever.trusted \subseteq ever'.trusted
  BY DEF ReadFileFails, Joined, Unseen, Seen
<1>e. \A h : Excused(draft.failed, h) => Excused(draft.failed, h)'
  BY <1>3, ExcusedStays DEF ReadFileFails, acData
<1>7. ASSUME NEW h \in held' PROVE h[1] \in draft'.left \/ h[2] \in draft'.keys \/ Excused(draft.failed, h)'
  <2>1. h[1] \in draft.left \/ h[2] \in draft.keys \/ Excused(draft.failed, h)
    BY <1>2, <1>5, <1>6 DEF Tracked
  <2>2. CASE h[1] # f \/ h[2] \in draft.keys \/ Excused(draft.failed, h)
    BY <1>3, <1>e, <2>1, <2>2
  <2>3. CASE h[1] = f
    <3>1. ByEdges(f)' = ByEdges(f)
      BY DEF ReadFileFails, acData, ByEdges, Neighbours
    <3>2. f \in draft'.failed
      BY <1>3
    <3>q. QED BY <1>3, <2>3, <3>1, <3>2 DEF Excused
  <2>q. QED BY <2>2, <2>3
<1>8. Tracked'
  BY ONLY <1>2, <1>3, <1>5, <1>6, <1>7 DEF Tracked, Met
<1>q. QED BY <1>3, <1>4, <1>8 DEF DraftInv

\* all gotchas read at once, for a call that names no file,
LEMMA ScanInv ==
    ASSUME CtxInv, ScanGotchas
    PROVE  DraftInv'
<1> PICK found : found = {<<k, lore[k]>> : k \in {x \in Lore : IsInjectable(lore[x])}}
  OBVIOUS
<1>1. draft' = [draft EXCEPT !.pc = "review", !.found = found]
  BY DEF ScanGotchas
<1>2. DOMAIN draft = DraftFields /\ DraftOK(draft) /\ Tracked /\ StoreTyped
  BY DEF CtxInv, DraftInv
<1>3. /\ draft'.pc = "review" /\ draft'.files = draft.files /\ draft'.left = draft.left
      /\ draft'.recs = draft.recs /\ draft'.keys = draft.keys /\ draft'.found = found
      /\ draft'.decs = draft.decs /\ draft'.warned = draft.warned /\ draft'.nudged = draft.nudged
      /\ draft'.stage = draft.stage /\ draft'.failed = draft.failed /\ DOMAIN draft' = DraftFields
  BY <1>1, <1>2 DEF DraftFields
<1>4. \A p \in found : p = <<p[1], lore[p[1]]>> /\ p[2] = lore[p[1]] /\ p[1] \in Lore /\ IsInjectable(lore[p[1]])
  OBVIOUS
<1>5. \A p \in found : p[2] \in GotchaRecords /\ p[2].quality >= 40000
  BY <1>2, <1>4 DEF StoreTyped, IsInjectable
<1>6. \A p, r \in found : p[1] = r[1] => p = r
  BY <1>4
<1>7. DraftOK(draft')
  BY ONLY <1>2, <1>3, <1>4, <1>5, <1>6 DEF DraftOK
<1>8. draft.files = {} /\ Watch
  BY DEF ScanGotchas
<1>9. /\ held' \subseteq held
      /\ \A h \in held' : h \in Linked(draft.files) /\ Trusted(h[2])
      /\ ever.linked \subseteq ever'.linked /\ ever.trusted \subseteq ever'.trusted
      /\ \A h \in Linked(draft.files) : h[2] \in ever'.linked
      /\ \A k \in Lore : Trusted(k) => k \in ever'.trusted
  BY <1>8, WatchIs
<1>10. ASSUME NEW h \in held' PROVE \E p \in found : p[1] = h[2]
  <2>1. h[2] \in Lore /\ Trusted(h[2])
    BY <1>8, <1>9 DEF Linked
  <2>2. IsInjectable(lore[h[2]])
    BY <1>2, <2>1, InjectableIsTrusted
  <2>3. <<h[2], lore[h[2]]>> \in found
    BY <2>1, <2>2
  <2>q. QED BY <2>3
<1>11. ASSUME NEW p \in found PROVE p[1] \in ever'.linked /\ p[1] \in ever'.trusted
  <2>1. Trusted(p[1])
    BY <1>2, <1>4, InjectableIsTrusted
  <2>2. <<"store", p[1]>> \in Linked(draft.files)
    BY <1>4, <1>8 DEF Linked
  <2>q. QED BY <1>4, <1>9, <2>1, <2>2
<1>e. \A h : Excused(draft.failed, h) => Excused(draft.failed, h)'
  BY <1>3, ExcusedStays DEF ScanGotchas, acData
<1>12. Tracked'
  BY ONLY <1>e, <1>2, <1>3, <1>9, <1>10, <1>11 DEF Tracked, Met
<1>q. QED BY <1>3, <1>7, <1>12 DEF DraftInv

\* the files done,
LEMMA FilesReadInv ==
    ASSUME CtxInv, FilesRead
    PROVE  DraftInv'
<1>1. draft' = [draft EXCEPT !.pc = "gotchas", !.left = draft.keys]
  BY DEF FilesRead
<1>2. DOMAIN draft = DraftFields /\ DraftOK(draft) /\ Tracked
  BY DEF CtxInv, DraftInv
<1>3. /\ draft'.pc = "gotchas" /\ draft'.files = draft.files /\ draft'.left = draft.keys
      /\ draft'.recs = draft.recs /\ draft'.keys = draft.keys /\ draft'.found = draft.found
      /\ draft'.decs = draft.decs /\ draft'.warned = draft.warned /\ draft'.nudged = draft.nudged
      /\ draft'.stage = draft.stage /\ draft'.failed = draft.failed /\ DOMAIN draft' = DraftFields
  BY <1>1, <1>2 DEF DraftFields
<1>4. DraftOK(draft')
  BY ONLY <1>2, <1>3 DEF DraftOK
<1>5. draft.pc = "files" /\ draft.files # {} /\ draft.left = {} /\ Watch
  BY DEF FilesRead
<1>6. held' \subseteq held /\ ever.linked \subseteq ever'.linked /\ ever.trusted \subseteq ever'.trusted
  BY <1>5, WatchIs
<1>e. \A h : Excused(draft.failed, h) => Excused(draft.failed, h)'
  BY <1>3, ExcusedStays DEF FilesRead, acData
<1>7. Tracked'
  BY ONLY <1>e, <1>2, <1>3, <1>5, <1>6 DEF Tracked, Met
<1>q. QED BY <1>3, <1>4, <1>7 DEF DraftInv

\* a gotcha read,
LEMMA ReadGotchaInv ==
    ASSUME CtxInv, NEW k \in Lore, ReadGotcha(k)
    PROVE  DraftInv'
<1> PICK r : r = lore[k]
  OBVIOUS
<1> PICK found : found = IF IsInjectable(r) THEN draft.found \cup {<<k, r>>} ELSE draft.found
  OBVIOUS
<1>1. draft' = [draft EXCEPT !.left = @ \ {k}, !.found = found]
  BY DEF ReadGotcha
<1>2. DOMAIN draft = DraftFields /\ DraftOK(draft) /\ Tracked /\ StoreTyped
  BY DEF CtxInv, DraftInv
<1>3. /\ draft'.pc = draft.pc /\ draft'.files = draft.files /\ draft'.left = draft.left \ {k}
      /\ draft'.recs = draft.recs /\ draft'.keys = draft.keys /\ draft'.found = found
      /\ draft'.decs = draft.decs /\ draft'.warned = draft.warned /\ draft'.nudged = draft.nudged
      /\ draft'.stage = draft.stage /\ draft'.failed = draft.failed /\ DOMAIN draft' = DraftFields
  BY <1>1, <1>2 DEF DraftFields
<1>4. draft.pc = "gotchas" /\ k \in draft.left /\ Watch
  BY DEF ReadGotcha
<1>5. /\ draft.left \subseteq ever.linked
      /\ \A h \in held : h[2] \in draft.left \/ Met(h[2]) \/ Excused(draft.failed, h)
      /\ \A p \in draft.found : p[1] \notin draft.left
      /\ \A p \in draft.found : p[1] \in ever.linked /\ p[1] \in ever.trusted
  BY <1>2, <1>4 DEF Tracked
<1>6. /\ held' \subseteq held
      /\ \A h \in held' : Trusted(h[2])
      /\ ever.linked \subseteq ever'.linked /\ ever.trusted \subseteq ever'.trusted
      /\ \A x \in Lore : Trusted(x) => x \in ever'.trusted
  BY <1>4, WatchIs
<1>7. IsInjectable(r) <=> Trusted(k)
  BY <1>2, InjectableIsTrusted
<1>8. draft.found \subseteq found /\ (IsInjectable(r) => <<k, r>> \in found)
      /\ \A p \in found : p \in draft.found \/ (p = <<k, r>> /\ IsInjectable(r))
  OBVIOUS
<1>9. DraftOK(draft')
  <2>1. r \in GotchaRecords /\ (IsInjectable(r) => r.quality >= 40000)
    BY <1>2 DEF StoreTyped, IsInjectable
  <2>2. \A p \in draft.found : /\ p = <<p[1], p[2]>> /\ p[1] \in Lore
                               /\ p[2] \in GotchaRecords /\ p[2].quality >= 40000
    BY <1>2 DEF DraftOK
  <2>3. \A p, q \in draft.found : p[1] = q[1] => p = q
    BY <1>2 DEF DraftOK
  <2>4. \A p \in found : /\ p = <<p[1], p[2]>> /\ p[1] \in Lore
                         /\ p[2] \in GotchaRecords /\ p[2].quality >= 40000
    BY <1>8, <2>1, <2>2
  <2>5. \A p \in draft.found : p[1] # k
    BY <1>4, <1>5
  <2>6. \A p, q \in found : p[1] = q[1] => p = q
    BY <1>8, <2>3, <2>5
  <2>q. QED BY ONLY <1>2, <1>3, <2>4, <2>6 DEF DraftOK
<1>10. ASSUME NEW h \in held'
       PROVE h[2] \in draft'.left \/ (\E p \in draft'.found : p[1] = h[2]) \/ Excused(draft.failed, h)
  <2>1. h \in held /\ Trusted(h[2])
    BY <1>6
  <2>2. CASE h[2] = k
    <3>1. <<k, r>> \in found /\ <<k, r>>[1] = k
      BY <1>7, <1>8, <2>1, <2>2
    <3>q. QED BY <1>3, <2>2, <3>1
  <2>3. CASE h[2] # k
    BY <1>3, <1>5, <1>8, <2>1, <2>3 DEF Met
  <2>q. QED BY <2>2, <2>3
<1>11. \A p \in found : p[1] \notin draft'.left
  BY <1>3, <1>5, <1>8
<1>12. \A p \in found : p[1] \in ever'.linked /\ p[1] \in ever'.trusted
  BY <1>4, <1>5, <1>6, <1>7, <1>8
<1>e. \A h : Excused(draft.failed, h) => Excused(draft.failed, h)'
  BY <1>3, ExcusedStays DEF ReadGotcha, acData
<1>13. Tracked'
  BY ONLY <1>e, <1>2, <1>3, <1>4, <1>5, <1>6, <1>10, <1>11, <1>12 DEF Tracked, Met
<1>q. QED BY <1>3, <1>9, <1>13 DEF DraftInv

\* one that could not be read,
LEMMA ReadGotchaFailsInv ==
    ASSUME CtxInv, NEW k \in Lore, ReadGotchaFails(k)
    PROVE  DraftInv'
<1>1. draft' = [draft EXCEPT !.left = @ \ {k}, !.failed = @ \cup {k}]
  BY DEF ReadGotchaFails
<1>2. DOMAIN draft = DraftFields /\ DraftOK(draft) /\ Tracked
  BY DEF CtxInv, DraftInv
<1>3. /\ draft'.pc = draft.pc /\ draft'.files = draft.files /\ draft'.left = draft.left \ {k}
      /\ draft'.recs = draft.recs /\ draft'.keys = draft.keys /\ draft'.found = draft.found
      /\ draft'.decs = draft.decs /\ draft'.warned = draft.warned /\ draft'.nudged = draft.nudged
      /\ draft'.stage = draft.stage /\ draft'.failed = draft.failed \cup {k} /\ DOMAIN draft' = DraftFields
  BY <1>1, <1>2 DEF DraftFields
<1>4. DraftOK(draft')
  BY ONLY <1>2, <1>3 DEF DraftOK
<1>5. draft.pc = "gotchas" /\ k \in draft.left /\ Watch
  BY DEF ReadGotchaFails
<1>6. held' \subseteq held /\ ever.linked \subseteq ever'.linked /\ ever.trusted \subseteq ever'.trusted
  BY <1>5, WatchIs
<1>e. \A h : Excused(draft.failed, h) => Excused(draft.failed, h)'
  BY <1>3, ExcusedStays DEF ReadGotchaFails, acData
<1>7. ASSUME NEW h \in held'
      PROVE h[2] \in draft'.left \/ (\E p \in draft'.found : p[1] = h[2]) \/ Excused(draft.failed, h)'
  <2>1. h[2] \in draft.left \/ (\E p \in draft.found : p[1] = h[2]) \/ Excused(draft.failed, h)
    BY <1>2, <1>5, <1>6 DEF Tracked, Met
  <2>2. CASE h[2] # k
    BY <1>3, <1>e, <2>1, <2>2
  <2>3. CASE h[2] = k
    BY <1>3, <2>3 DEF Excused
  <2>q. QED BY <2>2, <2>3
<1>8. Tracked'
  BY ONLY <1>2, <1>3, <1>5, <1>6, <1>7 DEF Tracked, Met
<1>q. QED BY <1>3, <1>4, <1>8 DEF DraftInv

\* the gotchas done,
LEMMA GotchasReadInv ==
    ASSUME CtxInv, GotchasRead
    PROVE  DraftInv'
<1>1. draft' = [draft EXCEPT !.pc = "review"]
  BY DEF GotchasRead
<1>2. DOMAIN draft = DraftFields /\ DraftOK(draft) /\ Tracked
  BY DEF CtxInv, DraftInv
<1>3. /\ draft'.pc = "review" /\ draft'.files = draft.files /\ draft'.left = draft.left
      /\ draft'.recs = draft.recs /\ draft'.keys = draft.keys /\ draft'.found = draft.found
      /\ draft'.decs = draft.decs /\ draft'.warned = draft.warned /\ draft'.nudged = draft.nudged
      /\ draft'.stage = draft.stage /\ draft'.failed = draft.failed /\ DOMAIN draft' = DraftFields
  BY <1>1, <1>2 DEF DraftFields
<1>4. DraftOK(draft')
  BY ONLY <1>2, <1>3 DEF DraftOK
<1>5. draft.pc = "gotchas" /\ draft.left = {} /\ Watch
  BY DEF GotchasRead
<1>6. held' \subseteq held /\ ever.linked \subseteq ever'.linked /\ ever.trusted \subseteq ever'.trusted
  BY <1>5, WatchIs
<1>e. \A h : Excused(draft.failed, h) => Excused(draft.failed, h)'
  BY <1>3, ExcusedStays DEF GotchasRead, acData
<1>7. Tracked'
  BY ONLY <1>e, <1>2, <1>3, <1>5, <1>6 DEF Tracked, Met
<1>q. QED BY <1>3, <1>4, <1>7 DEF DraftInv

\* the review flags read,
LEMMA ReviewsInv ==
    ASSUME CtxInv, NEW fs \in SUBSET CtxFiles, ReadReviews(fs)
    PROVE  DraftInv'
<1>1. draft' = [draft EXCEPT !.pc = "decisions", !.warned = @ \cup fs]
  BY DEF ReadReviews
<1>2. DOMAIN draft = DraftFields /\ DraftOK(draft) /\ Tracked
  BY DEF CtxInv, DraftInv
<1>3. /\ draft'.pc = "decisions" /\ draft'.files = draft.files /\ draft'.left = draft.left
      /\ draft'.recs = draft.recs /\ draft'.keys = draft.keys /\ draft'.found = draft.found
      /\ draft'.decs = draft.decs /\ draft'.warned = draft.warned \cup fs /\ draft'.nudged = draft.nudged
      /\ draft'.stage = draft.stage /\ draft'.failed = draft.failed /\ DOMAIN draft' = DraftFields
  BY <1>1, <1>2 DEF DraftFields
<1>4. IsFiniteSet(draft.warned \cup fs)
  <2>1. IsFiniteSet(fs) /\ IsFiniteSet(draft.warned)
    BY <1>2, FS_Subset, AgentContextAssumption DEF DraftOK
  <2>q. QED BY <2>1, FS_Union
<1>5. DraftOK(draft')
  BY ONLY <1>2, <1>3, <1>4 DEF DraftOK
<1>6. draft.pc = "review" /\ Watch
  BY DEF ReadReviews
<1>7. held' \subseteq held /\ ever.linked \subseteq ever'.linked /\ ever.trusted \subseteq ever'.trusted
  BY <1>6, WatchIs
<1>e. \A h : Excused(draft.failed, h) => Excused(draft.failed, h)'
  BY <1>3, ExcusedStays DEF ReadReviews, acData
<1>8. Tracked'
  BY ONLY <1>e, <1>2, <1>3, <1>6, <1>7 DEF Tracked, Met
<1>q. QED BY <1>3, <1>5, <1>8 DEF DraftInv

\* and the decisions read.
LEMMA DecisionsInv ==
    ASSUME CtxInv, ReadDecisions
    PROVE  DraftInv'
<1>1. PICK decs \in SUBSET CtxDecisions :
          draft' = [draft EXCEPT !.pc = "format", !.decs = {<<d, plan[d].cost>> : d \in decs}]
  <2>1. PICK lost \in SUBSET (CtxDecisions \cap draft.decKeys), noScan \in BOOLEAN :
         LET linked == {d \in (CtxDecisions \cap draft.decKeys) \ lost : plan[d].life # "none"}
             live == {d \in CtxDecisions : plan[d].life = "active"} IN
         \E decs \in IF linked # {} THEN {linked} ELSE IF noScan THEN {{}}
                      ELSE {s \in SUBSET live : /\ Cardinality(s) <= FallbackLimit
                                                /\ Cardinality(s) < FallbackLimit => s = live
                                                /\ \A d \in s, e \in live \ s : plan[d].conf >= plan[e].conf} :
          draft' = [draft EXCEPT !.pc = "format", !.decs = {<<d, plan[d].cost>> : d \in decs}]
    BY DEF ReadDecisions
  <2> PICK linked : linked = {d \in (CtxDecisions \cap draft.decKeys) \ lost : plan[d].life # "none"}
    OBVIOUS
  <2> PICK live : live = {d \in CtxDecisions : plan[d].life = "active"}
    OBVIOUS
  <2>2. PICK decs \in IF linked # {} THEN {linked} ELSE IF noScan THEN {{}}
                   ELSE {s \in SUBSET live : /\ Cardinality(s) <= FallbackLimit
                                             /\ Cardinality(s) < FallbackLimit => s = live
                                             /\ \A d \in s, e \in live \ s : plan[d].conf >= plan[e].conf} :
          draft' = [draft EXCEPT !.pc = "format", !.decs = {<<d, plan[d].cost>> : d \in decs}]
    BY <2>1
  <2>3. decs = linked \/ decs = {} \/ decs \in SUBSET live
    OBVIOUS
  <2>4. decs \in SUBSET CtxDecisions
    BY <2>3
  <2>q. QED BY <2>2, <2>4
<1> PICK D : D = {<<d, plan[d].cost>> : d \in decs}
  OBVIOUS
<1>2. DOMAIN draft = DraftFields /\ DraftOK(draft) /\ Tracked /\ StoreTyped
  BY DEF CtxInv, DraftInv
<1>3. /\ draft'.pc = "format" /\ draft'.files = draft.files /\ draft'.left = draft.left
      /\ draft'.recs = draft.recs /\ draft'.keys = draft.keys /\ draft'.found = draft.found
      /\ draft'.decs = D /\ draft'.warned = draft.warned /\ draft'.nudged = draft.nudged
      /\ draft'.stage = draft.stage /\ draft'.failed = draft.failed /\ DOMAIN draft' = DraftFields
  BY <1>1, <1>2 DEF DraftFields
<1>4. IsFiniteSet(D) /\ \A x \in D : x[2] \in Nat
  <2>1. \A d \in decs : plan[d].cost \in Nat /\ d \in CtxDecisions
    BY <1>2 DEF StoreTyped, PlanRecords
  <2>2. \A x \in D : x[1] \in CtxDecisions /\ x = <<x[1], plan[x[1]].cost>> /\ x[2] \in Nat
    BY <2>1
  <2>3. \A x, y \in D : x[1] = y[1] => x = y
    BY <2>2
  <2>q. QED BY <2>2, <2>3, NamedFinite, AgentContextAssumption
<1>5. DraftOK(draft')
  BY ONLY <1>2, <1>3, <1>4 DEF DraftOK
<1>6. draft.pc = "decisions" /\ Watch
  BY DEF ReadDecisions
<1>7. held' \subseteq held /\ ever.linked \subseteq ever'.linked /\ ever.trusted \subseteq ever'.trusted
  BY <1>6, WatchIs
<1>e. \A h : Excused(draft.failed, h) => Excused(draft.failed, h)'
  BY <1>3, ExcusedStays DEF ReadDecisions, acData
<1>8. Tracked'
  BY ONLY <1>e, <1>2, <1>3, <1>6, <1>7 DEF Tracked, Met
<1>q. QED BY <1>3, <1>5, <1>8 DEF DraftInv

\* A call not begun satisfies it.
LEMMA NoDraftInv ==
    ASSUME draft' = NoDraft, held' = {}
    PROVE  DraftInv'
<1>1. draft' = [pc |-> "idle", files |-> {}, left |-> {}, recs |-> {}, keys |-> {}, found |-> {}, decKeys |-> {},
                decs |-> {}, warned |-> {}, nudged |-> {}, stage |-> 0, failed |-> {}]
  BY DEF NoDraft
<1>2. DOMAIN draft' = DraftFields
  BY <1>1 DEF DraftFields
<1>3. DraftOK(draft')
  BY <1>1, FS_EmptySet DEF DraftOK
<1>4. Tracked'
  BY <1>1 DEF Tracked, Met
<1>q. QED BY <1>2, <1>3, <1>4 DEF DraftInv

\* The packet a call ends in tells the agent what it should.
LEMMA FormatInv ==
    ASSUME CtxInv, Format
    PROVE  DraftInv' /\ PacketHonest'
<1> PICK due : due = {p[2] : p \in {x \in held \cap Due(draft.files) : ~Excused(draft.failed, x)}}
  OBVIOUS
<1> PICK could : could = Joined(ever, Seen(draft.files)).linked \cap Joined(ever, Seen(draft.files)).trusted
  OBVIOUS
<1>1. PICK ranked \in Rankings(draft) : packet' = {[told |-> Compose(draft, ranked), due |-> due, could |-> could]}
  BY DEF Format
<1> PICK t : t = Compose(draft, ranked)
  OBVIOUS
<1>2. DraftOK(draft) /\ Tracked /\ draft.pc = "format"
  BY DEF CtxInv, DraftInv, Format
<1> PICK found : found = draft.found
  OBVIOUS
<1>3. /\ t.gotchas = found /\ t.used <= Avail /\ t.shown \subseteq {g[1] : g \in found}
      /\ \A g, h \in found : g[1] \in t.shown \ CochangeKeys /\ h[1] \notin CochangeKeys /\ h[1] \notin t.shown
                             => Score(h[2]) <= Score(g[2])
      /\ (\E h \in found : h[1] \notin CochangeKeys /\ h[1] \notin t.shown)
         => \E g \in found : g[1] \notin CochangeKeys /\ g[1] \notin t.shown /\ g[2].text.cost > t.room
  BY <1>2, Composed
<1>4. due \subseteq {g[1] : g \in found}
  BY <1>2 DEF Tracked, Met
<1>5. {g[1] : g \in found} \subseteq could
  <2>1. \A p \in found : p[1] \in ever.linked /\ p[1] \in ever.trusted
    BY <1>2 DEF Tracked
  <2>2. ever.linked \cap ever.trusted \subseteq could
    BY DEF Joined
  <2>q. QED BY <2>1, <2>2
<1>6. PacketHonest'
  <2>1. ASSUME NEW p \in packet'
        PROVE LET gs == p.told.gotchas shown == p.told.shown
                  keys == {g[1] : g \in gs}
                  Left(g) == g[1] \notin CochangeKeys /\ g[1] \notin shown IN
              /\ p.due \subseteq keys /\ keys \subseteq p.could
              /\ p.told.used <= Avail /\ shown \subseteq keys
              /\ \A g, h \in gs : g[1] \in shown \ CochangeKeys /\ Left(h) => Score(h[2]) <= Score(g[2])
              /\ (\E h \in gs : Left(h)) => \E g \in gs : Left(g) /\ g[2].text.cost > p.told.room
    <3>1. p.told = t /\ p.due = due /\ p.could = could
      BY <1>1, <2>1
    <3>q. QED BY ONLY <1>3, <1>4, <1>5, <3>1
  <2>q. QED BY <2>1 DEF PacketHonest
<1>7. draft' = NoDraft /\ held' = {}
  BY DEF Format
<1>8. DraftInv'
  BY <1>7, NoDraftInv
<1>q. QED BY <1>6, <1>8

\* What a writer leaves of the call it meets.
LEMMA Interrupted ==
    ASSUME CtxInv, UNCHANGED draft, draft.pc # "idle" => web' = web,
           held' \subseteq held, ever.linked \subseteq ever'.linked, ever.trusted \subseteq ever'.trusted
    PROVE  DraftInv'
<1>1. DOMAIN draft = DraftFields /\ DraftOK(draft) /\ Tracked
  BY DEF CtxInv, DraftInv
<1>2. CASE draft.pc = "idle"
  BY <1>1, <1>2 DEF Tracked, Met, DraftInv
<1>3. CASE draft.pc # "idle"
  <2>1. \A h : Excused(draft.failed, h) => Excused(draft.failed, h)'
    BY <1>3, ExcusedStays
  <2>2. Tracked'
    BY <1>1, <1>3, <2>1 DEF Tracked, Met
  <2>q. QED BY <1>1, <2>2 DEF DraftInv
<1>q. QED BY <1>2, <1>3

\* The stores the writers leave.
LEMMA UpsertStores ==
    ASSUME CtxInv, NEW k \in Lore, NEW t \in Texts, NEW prio \in {2, 4}, Upsert(k, t, prio)
    PROVE  lore' \in [Lore -> GotchaRecords] /\ tree' \in [CtxFiles -> FileRecords] /\ QualityCurrent'
<1>1. StoreTyped /\ QualityCurrent
  BY DEF CtxInv
<1> PICK r : r = lore[k]
  OBVIOUS
<1>2. r \in GotchaRecords
  BY <1>1 DEF StoreTyped
<1> PICK old : old = IF r.life = "active" THEN r ELSE [r EXCEPT !.stale = "fresh", !.ref = FALSE]
  OBVIOUS
<1> PICK new : new = [old EXCEPT !.life = "active", !.text = [t EXCEPT !.cause = TRUE], !.prio = prio,
                                 !.source = "enrich", !.confirmed = FALSE]
  OBVIOUS
<1> PICK put : put = [new EXCEPT !.quality = Quality(new)]
  OBVIOUS
<1>3. put \in GotchaRecords /\ ~put.confirmed
  BY <1>2, Upserted
<1>4. lore' = [lore EXCEPT ![k] = put]
  BY DEF Upsert
<1>5. lore' \in [Lore -> GotchaRecords] /\ QualityCurrent'
  BY ONLY <1>1, <1>3, <1>4, k \in Lore, OneGotcha
<1>6. tree' \in [CtxFiles -> FileRecords]
  <2>1. ASSUME NEW f \in CtxFiles
        PROVE  (IF f \notin r.files THEN tree[f]
                ELSE IF tree[f].life = "none"
                     THEN [tree[f] EXCEPT !.life = "active", !.stale = "fresh", !.keys = {k}, !.purpose = 0]
                     ELSE [tree[f] EXCEPT !.keys = @ \cup {k}]) \in FileRecords
    <3> PICK x : x = tree[f]
      OBVIOUS
    <3>1. x \in FileRecords
      BY <1>1 DEF StoreTyped
    <3>2. x.keys \cup {k} \in SUBSET Lore /\ {k} \in SUBSET Lore
      BY <3>1, FileFields
    <3>3. [x EXCEPT !.keys = x.keys \cup {k}] \in FileRecords
      BY <3>1, <3>2, FileFields
    <3>4. [x EXCEPT !.life = "active", !.stale = "fresh", !.keys = {k}, !.purpose = 0] \in FileRecords
      BY <3>1, <3>2, FileFields
    <3>q. QED BY <3>1, <3>3, <3>4
  <2>q. QED BY <2>1 DEF Upsert
<1>q. QED BY <1>5, <1>6

\* confirmed,
LEMMA ConfirmStores ==
    ASSUME CtxInv, NEW k \in Lore, Confirm(k)
    PROVE  lore' \in [Lore -> GotchaRecords] /\ tree' \in [CtxFiles -> FileRecords] /\ QualityCurrent'
<1>1. StoreTyped /\ QualityCurrent
  BY DEF CtxInv
<1> PICK r : r = lore[k]
  OBVIOUS
<1>2. r \in GotchaRecords
  BY <1>1 DEF StoreTyped
<1> PICK put : put = [r EXCEPT !.confirmed = TRUE, !.source = "dev", !.quality = Quality(r)]
  OBVIOUS
<1>3. put \in GotchaRecords /\ put.quality = Quality(put)
  BY <1>2, Rescored
<1>4. lore' = [lore EXCEPT ![k] = put]
  BY <1>1 DEF Confirm, StoreTyped
<1>5. lore' \in [Lore -> GotchaRecords] /\ QualityCurrent'
  BY ONLY <1>1, <1>3, <1>4, k \in Lore, OneGotcha
<1>6. tree' \in [CtxFiles -> FileRecords]
  <2>1. ASSUME NEW f \in CtxFiles
        PROVE  (IF f \in lore[k].files /\ tree[f].life # "none" THEN [tree[f] EXCEPT !.keys = @ \cup {k}]
                ELSE tree[f]) \in FileRecords
    <3> PICK x : x = tree[f]
      OBVIOUS
    <3>1. x \in FileRecords
      BY <1>1 DEF StoreTyped
    <3>2. x.keys \cup {k} \in SUBSET Lore
      BY <3>1, FileFields
    <3>3. [x EXCEPT !.keys = x.keys \cup {k}] \in FileRecords
      BY <3>1, <3>2, FileFields
    <3>q. QED BY <3>1, <3>3
  <2>q. QED BY <2>1 DEF Confirm
<1>q. QED BY <1>5, <1>6

\* retired,
LEMMA TombstoneStores ==
    ASSUME CtxInv, NEW k \in Lore, Tombstone(k)
    PROVE  lore' \in [Lore -> GotchaRecords] /\ tree' \in [CtxFiles -> FileRecords] /\ QualityCurrent'
<1>1. StoreTyped /\ QualityCurrent
  BY DEF CtxInv
<1> PICK r : r = lore[k]
  OBVIOUS
<1>2. r \in GotchaRecords
  BY <1>1 DEF StoreTyped
<1> PICK put : put = [r EXCEPT !.life = "dead"]
  OBVIOUS
<1>3. put \in GotchaRecords /\ put.life # "active"
  BY <1>2 DEF GotchaRecords, Life
<1>4. lore' = [lore EXCEPT ![k] = put]
  BY <1>1 DEF Tombstone, StoreTyped
<1>5. lore' \in [Lore -> GotchaRecords] /\ QualityCurrent'
  BY ONLY <1>1, <1>3, <1>4, k \in Lore, OneGotcha
<1>6. tree' \in [CtxFiles -> FileRecords]
  <2>1. ASSUME NEW f \in CtxFiles PROVE [tree[f] EXCEPT !.keys = @ \ {k}] \in FileRecords
    <3> PICK x : x = tree[f]
      OBVIOUS
    <3>1. x \in FileRecords
      BY <1>1 DEF StoreTyped
    <3>2. x.keys \ {k} \in SUBSET Lore
      BY <3>1, FileFields
    <3>3. [x EXCEPT !.keys = x.keys \ {k}] \in FileRecords
      BY <3>1, <3>2, FileFields
    <3>q. QED BY <3>3
  <2>q. QED BY <2>1 DEF Tombstone
<1>q. QED BY <1>5, <1>6

\* files and gotchas decayed,
LEMMA DecayStores ==
    ASSUME CtxInv, Decay
    PROVE  StoreTyped' /\ QualityCurrent'
<1>1. StoreTyped /\ QualityCurrent /\ plan' = plan
  BY DEF CtxInv, Decay
<1>2. ASSUME NEW k \in Lore, NEW s \in {"fresh", "tombstone"},
             lore[k].life = "active", lore' = [lore EXCEPT ![k].stale = s], UNCHANGED tree
      PROVE  StoreTyped' /\ QualityCurrent'
  <2> PICK r : r = lore[k]
    OBVIOUS
  <2>1. r \in GotchaRecords
    BY <1>1 DEF StoreTyped
  <2> PICK put : put = [r EXCEPT !.stale = s]
    OBVIOUS
  <2>2. /\ put \in GotchaRecords /\ put.life = r.life /\ put.confirmed = r.confirmed /\ put.quality = r.quality
        /\ put.text = r.text /\ put.prio = r.prio /\ put.ref = r.ref
    BY <2>1 DEF GotchaRecords, Stale
  <2>3. Quality(put) = Quality(r)
    BY <2>2 DEF Quality
  <2>4. put.life = "active" /\ put.confirmed => put.quality = Quality(put)
    BY <1>1, <2>2, <2>3 DEF QualityCurrent
  <2>5. lore' = [lore EXCEPT ![k] = put]
    BY <1>1, <1>2 DEF StoreTyped
  <2>6. lore' \in [Lore -> GotchaRecords] /\ QualityCurrent'
    BY ONLY <1>1, <2>2, <2>4, <2>5, k \in Lore, OneGotcha
  <2>q. QED BY <1>1, <1>2, <2>6 DEF StoreTyped
<1>3. ASSUME NEW f \in CtxFiles, NEW s \in {"stale", "tombstone"},
             tree[f].life = "active", tree' = [tree EXCEPT ![f].stale = s], UNCHANGED lore
      PROVE  StoreTyped' /\ QualityCurrent'
  <2> PICK x : x = tree[f]
    OBVIOUS
  <2>1. x \in FileRecords /\ s \in Stale
    BY <1>1 DEF StoreTyped, Stale
  <2>2. [x EXCEPT !.stale = s] \in FileRecords
    BY <2>1 DEF FileRecords
  <2> PICK put \in FileRecords : put = [x EXCEPT !.stale = s]
    BY <2>2
  <2>3. tree' = [tree EXCEPT ![f] = put]
    BY <1>1, <1>3 DEF StoreTyped
  <2>4. tree' \in [CtxFiles -> FileRecords]
    BY <1>1, <2>3 DEF StoreTyped
  <2>q. QED BY <1>1, <1>3, <2>4 DEF StoreTyped, QualityCurrent
<1>q. QED BY <1>2, <1>3 DEF Decay

\* and a gotcha's text improved.
LEMMA ImproveStores ==
    ASSUME CtxInv, NEW k \in Lore, NEW t \in Texts, Improve(k, t)
    PROVE  StoreTyped' /\ QualityCurrent'
<1>1. StoreTyped /\ QualityCurrent
  BY DEF CtxInv
<1> PICK r : r = lore[k]
  OBVIOUS
<1>2. r \in GotchaRecords
  BY <1>1 DEF StoreTyped
<1> PICK put : put = [r EXCEPT !.text = t, !.quality = Analyze(t, r.prio, r.ref)]
  OBVIOUS
<1>3. put \in GotchaRecords /\ put.quality = Quality(put)
  <2>1. \A x \in Texts : LET new == [r EXCEPT !.text = x, !.quality = Analyze(x, r.prio, r.ref)] IN
                         new \in GotchaRecords /\ new.quality = Quality(new)
    BY ONLY <1>2, Rescored
  <2>q. QED BY ONLY <2>1, t \in Texts, put = [r EXCEPT !.text = t, !.quality = Analyze(t, r.prio, r.ref)]
<1> PICK q : q = Analyze(t, r.prio, r.ref)
  OBVIOUS
<1>4. lore' = [lore EXCEPT ![k].text = t, ![k].quality = q] /\ UNCHANGED <<tree, plan>>
  BY DEF Improve
<1>5. lore' = [lore EXCEPT ![k] = put]
  BY <1>1, <1>4 DEF StoreTyped
<1>6. lore' \in [Lore -> GotchaRecords] /\ QualityCurrent'
  BY ONLY <1>1, <1>3, <1>5, k \in Lore, OneGotcha
<1>q. QED BY <1>1, <1>4, <1>6 DEF StoreTyped

\* How many elements of S come no later than each, in the order R.
PlaceOf(S, R) == [x \in S |-> Cardinality({y \in S : y = x \/ <<y, x>> \in R})]

\* Places in a total order: one each, from the first to the last.
LEMMA Places ==
    ASSUME NEW S, IsFiniteSet(S), NEW R,
           \A x, y \in S : x # y => <<x, y>> \in R \/ <<y, x>> \in R,
           \A x, y, z \in S : <<x, y>> \in R /\ <<y, z>> \in R => <<x, z>> \in R,
           \A x \in S : <<x, x>> \notin R
    PROVE  PlaceOf(S, R) \in Injection(S, 1 .. Cardinality(S))
<1> PICK n : n = Cardinality(S)
    OBVIOUS
<1>0. n \in Nat
  BY FS_CardinalityType
<1> DEFINE Upto(x) == {y \in S : y = x \/ <<y, x>> \in R}
           r == [x \in S |-> Cardinality(Upto(x))]
<1>1. ASSUME NEW x \in S PROVE IsFiniteSet(Upto(x)) /\ Cardinality(Upto(x)) \in Nat
  <2>1. Upto(x) \in SUBSET S
    OBVIOUS
  <2>q. QED BY <2>1, FS_Subset, FS_CardinalityType
<1>2. ASSUME NEW x \in S, NEW y \in S, <<x, y>> \in R PROVE r[x] < r[y]
  <2>1. y \notin Upto(x) /\ Upto(x) \cup {y} \in SUBSET Upto(y)
    BY <1>2
  <2>2. Cardinality(Upto(x) \cup {y}) = Cardinality(Upto(x)) + 1
    BY <1>1, <2>1, FS_AddElement
  <2>3. Cardinality(Upto(x) \cup {y}) <= Cardinality(Upto(y))
    BY <1>1, <2>1, FS_Subset
  <2>4. Cardinality(Upto(x)) + 1 <= Cardinality(Upto(y))
    BY <2>2, <2>3
  <2>5. r[x] = Cardinality(Upto(x)) /\ r[y] = Cardinality(Upto(y))
    OBVIOUS
  <2>6. r[x] \in Nat /\ r[y] \in Nat
    BY <1>1, <2>5
  <2>q. QED BY ONLY <2>4, <2>5, <2>6
<1>3. ASSUME NEW x \in S PROVE r[x] \in 1 .. n
  <2>1. x \in Upto(x) /\ Upto(x) \in SUBSET S
    OBVIOUS
  <2>2. Cardinality(Upto(x)) # 0
    BY <1>1, <2>1, FS_EmptySet
  <2>3. Cardinality(Upto(x)) <= n
    BY <2>1, FS_Subset
  <2>q. QED BY <1>0, <1>1, <2>2, <2>3
<1> HIDE DEF r
<1>4. r \in [S -> 1 .. n]
  BY <1>3 DEF r
<1>5. ASSUME NEW x \in S, NEW y \in S, x # y PROVE r[x] # r[y]
  <2>1. r[x] \in Int /\ r[y] \in Int
    BY <1>0, <1>3
  <2>2. r[x] < r[y] \/ r[y] < r[x]
    BY <1>2, <1>5
  <2>q. QED BY <2>1, <2>2
<1>6. r \in Injection(S, 1 .. n)
  BY <1>4, <1>5 DEF Injection, IsInjective
<1>q. QED BY <1>6 DEF r, PlaceOf

\* As many elements have a place up to the limit as there are, or as the limit says.
LEMMA UptoLimit ==
    ASSUME NEW S, IsFiniteSet(S), NEW place, place \in Injection(S, 1 .. Cardinality(S)), NEW limit \in Nat
    PROVE  LET T == {x \in S : place[x] <= limit} IN
           /\ IsFiniteSet(T)
           /\ Cardinality(T) = IF limit <= Cardinality(S) THEN limit ELSE Cardinality(S)
<1> PICK n : n = Cardinality(S)
    OBVIOUS
<1> PICK T : T = {x \in S : place[x] <= limit}
    OBVIOUS
<1> PICK m : m = IF limit <= n THEN limit ELSE n
    OBVIOUS
<1>1. n \in Nat /\ m \in Nat /\ m <= n /\ m <= limit
  BY FS_CardinalityType
<1>2. IsFiniteSet(1 .. n) /\ Cardinality(1 .. n) = n /\ IsFiniteSet(1 .. m) /\ Cardinality(1 .. m) = m
  <2>1. 1 <= n + 1 /\ 1 <= m + 1 /\ n \in Int /\ m \in Int /\ n - 1 + 1 = n /\ m - 1 + 1 = m
    BY <1>1
  <2>q. QED BY ONLY <2>1, IntervalSize
<1>3. place \in Surjection(S, 1 .. n)
  BY <1>2, FS_Injection
<1>4. place \in [S -> 1 .. n] /\ \A x, y \in S : x # y => place[x] # place[y]
  BY DEF Injection, IsInjective
<1>5. \A i \in 1 .. n : \E x \in S : place[x] = i
  BY <1>3 DEF Surjection
<1>6. T \in SUBSET S /\ IsFiniteSet(T)
  <2>1. T \in SUBSET S
    OBVIOUS
  <2>q. QED BY <2>1, FS_Subset
<1> PICK g : g = [x \in T |-> place[x]]
    OBVIOUS
<1>7. g \in [T -> 1 .. m]
  <2>1. ASSUME NEW x \in T PROVE place[x] \in 1 .. m
    BY <1>1, <1>4
  <2>q. QED BY <2>1
<1>8. g \in Injection(T, 1 .. m)
  <2>1. \A x, y \in T : x # y => g[x] # g[y]
    BY <1>4
  <2>q. QED BY <1>7, <2>1 DEF Injection, IsInjective
<1>9. g \in Surjection(T, 1 .. m)
  <2>1. ASSUME NEW i \in 1 .. m PROVE \E x \in T : g[x] = i
    <3>1. PICK x \in S : place[x] = i
      BY <1>1, <1>5
    <3>2. x \in T
      BY <1>1, <3>1
    <3>q. QED BY <3>1, <3>2
  <2>q. QED BY <1>7, <2>1 DEF Surjection
<1>10. Cardinality(T) = m
  BY <1>2, <1>8, <1>9, FS_Injection
<1>q. QED BY <1>6, <1>10

\* A set of numbers from 1 on without a hole.
LEMMA WithoutHole ==
    ASSUME NEW n \in Nat, NEW D \in SUBSET (1 .. n), \A r \in D : \A s \in 1 .. r : s \in D
    PROVE  D = 1 .. Cardinality(D) /\ Cardinality(D) \in 0 .. n
<1>1. CASE D = {}
  <2>1. Cardinality(D) = 0
    BY <1>1, FS_EmptySet
  <2>q. QED BY <1>1, <2>1
<1>2. CASE D # {}
  <2>1. D \in SUBSET (0 .. n)
    OBVIOUS
  <2>2. PICK m \in D : \A r \in D : r <= m
    BY <1>2, <2>1, GreatestOf
  <2>3. D = 1 .. m
    <3>1. m \in 1 .. n /\ \A s \in 1 .. m : s \in D
      BY <2>2
    <3>2. ASSUME NEW r \in D PROVE r \in 1 .. m
      BY <2>2, <3>1
    <3>q. QED BY <3>1, <3>2
  <2>4. Cardinality(1 .. m) = m
    BY <2>2, IntervalSize
  <2>q. QED BY <2>2, <2>3, <2>4
<1>q. QED BY <1>1, <1>2

\* The least of two numbers.
LEMMA MinOf ==
    ASSUME NEW a \in Int, NEW b \in Int
    PROVE  Min({a, b}) = IF a <= b THEN a ELSE b
<1>1. \E x \in {a, b} : \A y \in {a, b} : x <= y
  OBVIOUS
<1> PICK m : m = Min({a, b})
  OBVIOUS
<1>2. m \in {a, b} /\ \A y \in {a, b} : m <= y
  BY <1>1 DEF Min
<1>q. QED BY <1>2

\* The slots of finitely many kinds are finitely many.
LEMMA SlotsFinite ==
    ASSUME NEW f, \A i \in GroupNos : f[i] \in Nat
    PROVE  IsFiniteSet(Slots(f)) /\ Total(f) \in Nat
<1> DEFINE Kind(i) == (1 .. f[i]) \X {i}
<1>1. IsFiniteSet(GroupNos)
  BY FS_Interval, AgentContextAssumption DEF GroupNos
<1>2. ASSUME NEW i \in GroupNos PROVE IsFiniteSet(Kind(i))
  <2>0. 1 \in Int /\ f[i] \in Int
    OBVIOUS
  <2>1. IsFiniteSet(1 .. f[i]) /\ IsFiniteSet({i})
    BY ONLY <2>0, FS_Interval, FS_Singleton
  <2>q. QED BY <2>1, FS_Product
<1> HIDE DEF Kind
<1> PICK T : T = {Kind(i) : i \in GroupNos}
  OBVIOUS
<1> PICK F : F = [i \in GroupNos |-> Kind(i)]
  OBVIOUS
<1>3. F \in Surjection(GroupNos, T)
  BY DEF Surjection
<1>4. IsFiniteSet(T) /\ \A U \in T : IsFiniteSet(U)
  BY <1>1, <1>2, <1>3, FS_Surjection
<1>5. IsFiniteSet(UNION T)
  BY <1>4, FS_UNION
<1>6. Slots(f) = UNION T
  BY DEF Slots, Kind
<1>q. QED BY <1>5, <1>6, FS_CardinalityType DEF Total

\* The order slots are handed out in.
Sooner(S) == {st \in S \X S : st[1][1] < st[2][1] \/ (st[1][1] = st[2][1] /\ st[1][2] < st[2][2])}

\* A slot is its round and its kind.
LEMMA SlotIs ==
    ASSUME NEW f, \A i \in GroupNos : f[i] \in Nat
    PROVE  /\ \A s \in Slots(f) : /\ s = <<s[1], s[2]>> /\ s[2] \in GroupNos /\ s[1] \in 1 .. f[s[2]]
                                  /\ s[1] \in Int /\ s[2] \in Int
           /\ \A i \in GroupNos : \A r \in 1 .. f[i] : <<r, i>> \in Slots(f)
<1>1. GroupNos \subseteq Int
  BY AgentContextAssumption DEF GroupNos
<1>q. QED BY <1>1 DEF Slots

\* That order is total.
LEMMA SoonerOrders ==
    ASSUME NEW f, \A i \in GroupNos : f[i] \in Nat
    PROVE  /\ \A x, y \in Slots(f) : x # y => <<x, y>> \in Sooner(Slots(f)) \/ <<y, x>> \in Sooner(Slots(f))
           /\ \A x, y, z \in Slots(f) : <<x, y>> \in Sooner(Slots(f)) /\ <<y, z>> \in Sooner(Slots(f)) => <<x, z>> \in Sooner(Slots(f))
           /\ \A x \in Slots(f) : <<x, x>> \notin Sooner(Slots(f))
           /\ \A x, y \in Slots(f) : y = x \/ <<y, x>> \in Sooner(Slots(f)) <=> y[1] < x[1] \/ (y[1] = x[1] /\ y[2] <= x[2])
<1> PICK S : S = Slots(f)
  OBVIOUS
<1>1. \A s \in S : s = <<s[1], s[2]>> /\ s[1] \in Int /\ s[2] \in Int
  BY SlotIs
<1>2. \A x, y \in S : <<x, y>> \in Sooner(S) <=> x[1] < y[1] \/ (x[1] = y[1] /\ x[2] < y[2])
  <2>1. ASSUME NEW x \in S, NEW y \in S PROVE <<x, y>> \in Sooner(S) <=> x[1] < y[1] \/ (x[1] = y[1] /\ x[2] < y[2])
    BY DEF Sooner
  <2>q. QED BY <2>1
<1>3. \A x, y \in S : x[1] = y[1] /\ x[2] = y[2] => x = y
  BY <1>1
<1>4. \A x, y \in S : x # y => <<x, y>> \in Sooner(S) \/ <<y, x>> \in Sooner(S)
  BY <1>1, <1>2, <1>3
<1>5. \A x, y, z \in S : <<x, y>> \in Sooner(S) /\ <<y, z>> \in Sooner(S) => <<x, z>> \in Sooner(S)
  BY <1>1, <1>2
<1>6. \A x \in S : <<x, x>> \notin Sooner(S)
  BY <1>1, <1>2
<1>7. \A x, y \in S : y = x \/ <<y, x>> \in Sooner(S) <=> y[1] < x[1] \/ (y[1] = x[1] /\ y[2] <= x[2])
  BY <1>1, <1>2, <1>3
<1>q. QED BY <1>4, <1>5, <1>6, <1>7

\* The turn of a slot.
Turn(f, s) == Cardinality({t \in Slots(f) : t[1] < s[1] \/ (t[1] = s[1] /\ t[2] <= s[2])})

\* A slot's turn is its place in that order.
LEMMA TurnPlaces ==
    ASSUME NEW f, \A i \in GroupNos : f[i] \in Nat
    PROVE  [s \in Slots(f) |-> Turn(f, s)] \in Injection(Slots(f), 1 .. Total(f))
<1> PICK S : S = Slots(f)
  OBVIOUS
<1> PICK R : R = Sooner(S)
  OBVIOUS
<1>1. /\ \A x, y \in S : x # y => <<x, y>> \in R \/ <<y, x>> \in R
      /\ \A x, y, z \in S : <<x, y>> \in R /\ <<y, z>> \in R => <<x, z>> \in R
      /\ \A x \in S : <<x, x>> \notin R
      /\ \A x, y \in S : y = x \/ <<y, x>> \in R <=> y[1] < x[1] \/ (y[1] = x[1] /\ y[2] <= x[2])
  BY SoonerOrders
<1>2. IsFiniteSet(S)
  BY SlotsFinite
<1>3. PlaceOf(S, R) \in Injection(S, 1 .. Cardinality(S))
  BY ONLY <1>1, <1>2, Places
<1>4. ASSUME NEW x \in S PROVE Cardinality({y \in S : y = x \/ <<y, x>> \in R}) = Turn(f, x)
  <2>1. {y \in S : y = x \/ <<y, x>> \in R} = {t \in S : t[1] < x[1] \/ (t[1] = x[1] /\ t[2] <= x[2])}
    BY <1>1
  <2>q. QED BY <2>1 DEF Turn
<1>5. PlaceOf(S, R) = [s \in S |-> Turn(f, s)]
  BY <1>4 DEF PlaceOf
<1>q. QED BY <1>3, <1>5 DEF Total

\* A slot's turn comes after those of the earlier rounds, and of its kind's.
LEMMA TurnGrows ==
    ASSUME NEW f, \A i \in GroupNos : f[i] \in Nat, NEW s \in Slots(f), NEW t \in Slots(f),
           s[1] < t[1] \/ (s[1] = t[1] /\ s[2] <= t[2])
    PROVE  Turn(f, s) <= Turn(f, t) /\ Turn(f, s) \in Nat /\ Turn(f, t) \in Nat
<1> DEFINE Upto(x) == {y \in Slots(f) : y[1] < x[1] \/ (y[1] = x[1] /\ y[2] <= x[2])}
<1>1. IsFiniteSet(Slots(f))
  BY SlotsFinite
<1>2. \A x \in Slots(f) : x[1] \in Int /\ x[2] \in Int
  BY SlotIs
<1>3. Upto(s) \in SUBSET Upto(t)
  BY <1>2
<1>4. Upto(t) \in SUBSET Slots(f)
  OBVIOUS
<1> HIDE DEF Upto
<1>5. IsFiniteSet(Upto(t))
  BY <1>1, <1>4, FS_Subset
<1>6. IsFiniteSet(Upto(s)) /\ Cardinality(Upto(s)) <= Cardinality(Upto(t))
  BY <1>3, <1>5, FS_Subset
<1>7. Turn(f, s) = Cardinality(Upto(s)) /\ Turn(f, t) = Cardinality(Upto(t))
  BY DEF Turn, Upto
<1>q. QED BY <1>5, <1>6, <1>7, FS_CardinalityType

\* A kind's quota counts the slots of it whose turn comes, the first ones of the kind.
LEMMA QuotaOfKind ==
    ASSUME NEW f, \A i \in GroupNos : f[i] \in Nat, NEW limit \in Nat, NEW i \in GroupNos
    PROVE  /\ Quotas(f, limit)[i] \in 0 .. f[i]
           /\ \A r \in 1 .. f[i] : r <= Quotas(f, limit)[i] <=> Turn(f, <<r, i>>) <= limit
<1> PICK D : D = {r \in 1 .. f[i] : Turn(f, <<r, i>>) <= limit}
  OBVIOUS
<1>1. Quotas(f, limit)[i] = Cardinality(D)
  BY DEF Quotas, Turn
<1>2. \A r \in D : \A s \in 1 .. r : s \in D
  <2>1. SUFFICES ASSUME NEW r \in D, NEW s \in 1 .. r PROVE Turn(f, <<s, i>>) <= limit /\ s \in 1 .. f[i]
    OBVIOUS
  <2>2. r \in 1 .. f[i] /\ Turn(f, <<r, i>>) <= limit /\ s \in 1 .. f[i] /\ i \in Int /\ s <= r
    BY AgentContextAssumption DEF GroupNos
  <2>3. <<s, i>> \in Slots(f) /\ <<r, i>> \in Slots(f)
    BY <2>2, SlotIs
  <2>4. <<s, i>>[1] < <<r, i>>[1] \/ (<<s, i>>[1] = <<r, i>>[1] /\ <<s, i>>[2] <= <<r, i>>[2])
    BY <2>2
  <2>5. Turn(f, <<s, i>>) <= Turn(f, <<r, i>>) /\ Turn(f, <<s, i>>) \in Nat /\ Turn(f, <<r, i>>) \in Nat
    BY <2>3, <2>4, TurnGrows
  <2>q. QED BY <2>2, <2>5
<1>3. D \in SUBSET (1 .. f[i]) /\ f[i] \in Nat
  OBVIOUS
<1>4. D = 1 .. Cardinality(D) /\ Cardinality(D) \in 0 .. f[i]
  BY ONLY <1>2, <1>3, WithoutHole
<1>5. \A r \in 1 .. f[i] : r \in D <=> r <= Cardinality(D)
  BY ONLY <1>3, <1>4
<1>q. QED BY <1>1, <1>4, <1>5

\* No slot is wasted, and a kind is given a second slot only when every other has had
\* one or has run out.
LEMMA QuotasFair ==
    ASSUME NEW f, \A i \in GroupNos : f[i] \in Nat, NEW limit \in Nat
    PROVE  LET q == Quotas(f, limit) IN
           /\ \A i \in GroupNos : q[i] \in Nat
           /\ Total(q) = Min({limit, Total(f)})
           /\ \A i, j \in GroupNos : q[i] < f[i] => q[j] <= q[i] + 1
<1> PICK q : q = Quotas(f, limit)
  OBVIOUS
<1>1. \A i \in GroupNos : /\ q[i] \in 0 .. f[i]
                          /\ \A r \in 1 .. f[i] : r <= q[i] <=> Turn(f, <<r, i>>) <= limit
  BY QuotaOfKind
<1>2. \A i \in GroupNos : q[i] \in Nat /\ q[i] <= f[i] /\ f[i] \in Nat
  BY <1>1
<1>3. Slots(q) = {s \in Slots(f) : Turn(f, s) <= limit}
  <2>1. ASSUME NEW s \in Slots(q) PROVE s \in Slots(f) /\ Turn(f, s) <= limit
    <3>1. s = <<s[1], s[2]>> /\ s[2] \in GroupNos /\ s[1] \in 1 .. q[s[2]]
      BY <1>2, SlotIs
    <3>2. s[1] \in 1 .. f[s[2]] /\ s[1] <= q[s[2]]
      BY <1>2, <3>1
    <3>3. <<s[1], s[2]>> \in Slots(f) /\ Turn(f, <<s[1], s[2]>>) <= limit
      BY <1>1, <3>1, <3>2, SlotIs
    <3>q. QED BY <3>1, <3>3
  <2>2. ASSUME NEW s \in Slots(f), Turn(f, s) <= limit PROVE s \in Slots(q)
    <3>1. s = <<s[1], s[2]>> /\ s[2] \in GroupNos /\ s[1] \in 1 .. f[s[2]]
      BY SlotIs
    <3>2. s[1] <= q[s[2]]
      BY <1>1, <2>2, <3>1
    <3>3. s[1] \in 1 .. q[s[2]]
      BY <1>2, <3>1, <3>2
    <3>4. <<s[1], s[2]>> \in Slots(q)
      BY <1>2, <3>1, <3>3, SlotIs
    <3>q. QED BY <3>1, <3>4
  <2>q. QED BY <2>1, <2>2
<1>4. Total(q) = IF limit <= Total(f) THEN limit ELSE Total(f)
  <2> PICK S : S = Slots(f)
    OBVIOUS
  <2> PICK place : place = [s \in S |-> Turn(f, s)]
    OBVIOUS
  <2>1. place \in Injection(S, 1 .. Cardinality(S)) /\ IsFiniteSet(S)
    BY TurnPlaces, SlotsFinite DEF Total
  <2>2. Cardinality({x \in S : place[x] <= limit}) = IF limit <= Cardinality(S) THEN limit ELSE Cardinality(S)
    BY ONLY <2>1, limit \in Nat, UptoLimit
  <2>3. {x \in S : place[x] <= limit} = Slots(q)
    BY <1>3
  <2>q. QED BY <2>2, <2>3 DEF Total
<1>5. Total(q) = Min({limit, Total(f)})
  BY <1>4, MinOf, SlotsFinite
<1>6. ASSUME NEW i \in GroupNos, NEW j \in GroupNos, q[i] < f[i], ~(q[j] <= q[i] + 1) PROVE FALSE
  <2>1. PICK r \in Nat : r = q[i] + 1
    BY <1>2
  <2>2. r \in 1 .. f[i] /\ ~(r <= q[i]) /\ r + 1 \in 1 .. f[j] /\ r + 1 <= q[j]
    BY <1>2, <1>6, <2>1
  <2>3. ~(Turn(f, <<r, i>>) <= limit) /\ Turn(f, <<r + 1, j>>) <= limit
    BY <1>1, <2>2
  <2>4. <<r, i>> \in Slots(f) /\ <<r + 1, j>> \in Slots(f)
    BY <2>2, SlotIs
  <2>5. <<r, i>>[1] < <<r + 1, j>>[1]
    BY <2>1
  <2>6. Turn(f, <<r, i>>) <= Turn(f, <<r + 1, j>>) /\ Turn(f, <<r, i>>) \in Nat /\ Turn(f, <<r + 1, j>>) \in Nat
    BY <2>4, <2>5, TurnGrows
  <2>q. QED BY <2>3, <2>6
<1>q. QED BY <1>2, <1>5, <1>6

\* What of n neighbours is active is at most n.
LEMMA ActivesBound ==
    ASSUME NEW seq \in Seq(BOOLEAN), NEW n \in Nat
    PROVE  Actives(seq, n) \in 0 .. n
<1> PICK m : m = Min({n, Len(seq)})
  OBVIOUS
<1>1. m \in Nat /\ m <= n
  BY MinOf
<1> PICK T : T = {j \in 1 .. m : seq[j]}
  OBVIOUS
<1>2. IsFiniteSet(1 .. m) /\ Cardinality(1 .. m) = m
  <2>1. 1 <= m + 1 /\ 1 \in Int /\ m \in Int /\ m - 1 + 1 = m
    BY <1>1
  <2>q. QED BY ONLY <2>1, IntervalSize
<1>3. T \in SUBSET (1 .. m)
  OBVIOUS
<1>4. Cardinality(T) \in Nat /\ Cardinality(T) <= m
  BY <1>2, <1>3, FS_Subset, FS_CardinalityType
<1>5. Actives(seq, n) = Cardinality(T)
  BY DEF Actives
<1>q. QED BY <1>1, <1>4, <1>5

\* A query in graph mode hands out its slots fairly, and no more of them.
LEMMA GraphAnswer ==
    ASSUME NEW hood \in Hoods, NEW deps \in Seq(BOOLEAN), NEW limit \in Nat
    PROVE  LET g == QueryGraph(hood, deps, limit) sizes == Sizes(hood) IN
           /\ Total(g.q) = Min({limit, Total(sizes)})
           /\ \A i, j \in GroupNos : g.q[i] < sizes[i] => g.q[j] <= g.q[i] + 1
           /\ Total(g.got) + g.deps <= limit
<1> PICK sizes : sizes = Sizes(hood)
  OBVIOUS
<1>1. \A i \in GroupNos : sizes[i] \in Nat /\ hood[i] \in Seq(BOOLEAN)
  <2>1. ASSUME NEW i \in GroupNos PROVE sizes[i] \in Nat /\ hood[i] \in Seq(BOOLEAN)
    <3>1. hood[i] \in Seq(BOOLEAN) /\ GroupCaps[i] \in Nat
      BY AgentContextAssumption DEF GroupNos
    <3>2. Len(hood[i]) \in Nat
      BY <3>1
    <3>3. sizes[i] = Min({Len(hood[i]), GroupCaps[i]})
      BY DEF Sizes
    <3>q. QED BY <3>1, <3>2, <3>3, MinOf
  <2>q. QED BY <2>1
<1> PICK q : q = Quotas(sizes, limit)
  OBVIOUS
<1>2. /\ \A i \in GroupNos : q[i] \in Nat
      /\ Total(q) = Min({limit, Total(sizes)})
      /\ \A i, j \in GroupNos : q[i] < sizes[i] => q[j] <= q[i] + 1
  BY <1>1, QuotasFair
<1> PICK got : got = [i \in GroupNos |-> Actives(hood[i], q[i])]
  OBVIOUS
<1>3. \A i \in GroupNos : got[i] \in 0 .. q[i]
  BY <1>1, <1>2, ActivesBound
<1>4. Total(q) \in Nat /\ Total(q) <= limit /\ IsFiniteSet(Slots(q))
  <2>1. Total(q) \in Nat /\ Total(sizes) \in Nat /\ IsFiniteSet(Slots(q))
    BY <1>1, <1>2, SlotsFinite
  <2>q. QED BY <1>2, <2>1, MinOf
<1>5. Total(got) \in Nat /\ Total(got) <= Total(q)
  <2>1. \A i \in GroupNos : got[i] \in Nat
    BY <1>2, <1>3
  <2>2. Slots(got) \in SUBSET Slots(q)
    <3>1. ASSUME NEW s \in Slots(got) PROVE s \in Slots(q)
      <4>1. s = <<s[1], s[2]>> /\ s[2] \in GroupNos /\ s[1] \in 1 .. got[s[2]]
        BY <2>1, SlotIs
      <4>2. s[1] \in 1 .. q[s[2]]
        BY <1>2, <1>3, <4>1
      <4>3. <<s[1], s[2]>> \in Slots(q)
        BY <1>2, <4>1, <4>2, SlotIs
      <4>q. QED BY <4>1, <4>3
    <3>q. QED BY <3>1
  <2>3. Cardinality(Slots(got)) <= Cardinality(Slots(q))
    BY <1>4, <2>2, FS_Subset
  <2>q. QED BY <2>1, <2>3, SlotsFinite DEF Total
<1> PICK room : room = Min({DepCap, limit - Total(q)})
  OBVIOUS
<1>6. room \in Nat /\ room <= limit - Total(q)
  <2>1. DepCap \in Nat /\ limit - Total(q) \in Nat
    BY <1>4, AgentContextAssumption
  <2>q. QED BY <2>1, MinOf
<1>7. Actives(deps, room) \in 0 .. room
  BY <1>6, ActivesBound
<1>8. QueryGraph(hood, deps, limit) = [q |-> q, got |-> got, deps |-> Actives(deps, room)]
  BY DEF QueryGraph
<1>9. Total(got) + Actives(deps, room) <= limit
  BY <1>4, <1>5, <1>6, <1>7
<1>q. QED BY <1>2, <1>8, <1>9

\* A tag query that has room left has answered with every match.
LEMMA TagAnswer ==
    ASSUME NEW scan \in Scans, NEW limit \in Nat
    PROVE  LET n == QueryTag(scan, limit) IN
           /\ n <= limit
           /\ n < limit => n = Cardinality({j \in DOMAIN scan : scan[j].active /\ scan[j].match})
<1> PICK T : T = {j \in DOMAIN scan : scan[j].active /\ scan[j].match}
  OBVIOUS
<1>1. IsFiniteSet(DOMAIN scan)
  <2>1. DOMAIN scan = 1 .. Len(scan) /\ Len(scan) \in Nat
    BY AgentContextAssumption
  <2>q. QED BY <2>1, FS_Interval
<1>2. Cardinality(T) \in Nat
  <2>1. T \in SUBSET DOMAIN scan
    OBVIOUS
  <2>q. QED BY <1>1, <2>1, FS_Subset, FS_CardinalityType
<1>3. QueryTag(scan, limit) = IF limit <= Cardinality(T) THEN limit ELSE Cardinality(T)
  BY <1>2, MinOf DEF QueryTag
<1>q. QED BY <1>2, <1>3

\* A text query answers with no more than the best hits it took.
LEMMA TextAnswer ==
    ASSUME NEW scan \in Scans, NEW limit \in Nat
    PROVE  QueryText(scan, limit) <= limit
<1> PICK S : S = {j \in DOMAIN scan : scan[j].match}
  OBVIOUS
<1>1. DOMAIN scan = 1 .. Len(scan) /\ Len(scan) \in Nat
  BY AgentContextAssumption
<1>2. IsFiniteSet(S)
  <2>1. IsFiniteSet(1 .. Len(scan)) /\ S \in SUBSET (1 .. Len(scan))
    BY <1>1, FS_Interval
  <2>q. QED BY <2>1, FS_Subset
<1> PICK R : R = {ij \in S \X S : ij[1] < ij[2]}
  OBVIOUS
<1>3. S \subseteq Int /\ \A x, y \in S : <<x, y>> \in R <=> x < y
  BY <1>1
<1>4. /\ \A x, y \in S : x # y => <<x, y>> \in R \/ <<y, x>> \in R
      /\ \A x, y, z \in S : <<x, y>> \in R /\ <<y, z>> \in R => <<x, z>> \in R
      /\ \A x \in S : <<x, x>> \notin R
  BY <1>3
<1> PICK place : place = PlaceOf(S, R)
  OBVIOUS
<1>5. place \in Injection(S, 1 .. Cardinality(S))
  BY <1>2, <1>4, Places
<1>6. \A j \in S : place[j] = Cardinality({i \in 1 .. j : scan[i].match})
  <2>1. ASSUME NEW j \in S PROVE {y \in S : y = j \/ <<y, j>> \in R} = {i \in 1 .. j : scan[i].match}
    BY <1>1, <1>3
  <2>q. QED BY <2>1 DEF PlaceOf
<1> PICK T : T = {j \in S : place[j] <= limit}
  OBVIOUS
<1>7. IsFiniteSet(T) /\ Cardinality(T) <= limit
  <2>1. /\ IsFiniteSet({x \in S : place[x] <= limit})
        /\ Cardinality({x \in S : place[x] <= limit}) = IF limit <= Cardinality(S) THEN limit ELSE Cardinality(S)
    BY ONLY <1>2, <1>5, limit \in Nat, UptoLimit
  <2>q. QED BY <1>2, <2>1, FS_CardinalityType
<1>8. TopHits(scan, limit) = T
  BY <1>6 DEF TopHits
<1> PICK U : U = {j \in T : scan[j].active /\ scan[j].told}
  OBVIOUS
<1>9. U \in SUBSET T
  OBVIOUS
<1>10. Cardinality(U) <= Cardinality(T) /\ Cardinality(U) \in Nat /\ Cardinality(T) \in Nat
  BY <1>7, <1>9, FS_Subset, FS_CardinalityType
<1>11. QueryText(scan, limit) = Cardinality(U)
  BY <1>8 DEF QueryText
<1>q. QED BY <1>7, <1>10, <1>11

\* What is left of a sum after the penalties: more of a greater sum, and more of the
\* same when a penalty is not due.
After(sum, vague, short, uncaused) ==
    LET a == IF vague THEN (sum * 5) \div 10 ELSE sum
        b == IF short THEN (a * 4) \div 10 ELSE a
    IN  IF uncaused THEN (b * 6) \div 10 ELSE b

\* A share of a greater number is no smaller.
LEMMA Tenths ==
    ASSUME NEW x \in Nat, NEW y \in Nat, x <= y
    PROVE  /\ (x * 5) \div 10 \in Nat /\ (x * 5) \div 10 <= (y * 5) \div 10 /\ (x * 5) \div 10 <= y
           /\ (x * 4) \div 10 \in Nat /\ (x * 4) \div 10 <= (y * 4) \div 10 /\ (x * 4) \div 10 <= y
           /\ (x * 6) \div 10 \in Nat /\ (x * 6) \div 10 <= (y * 6) \div 10 /\ (x * 6) \div 10 <= y
<1>1. (x * 5) \div 10 \in Nat /\ (x * 5) \div 10 <= (y * 5) \div 10 /\ (x * 5) \div 10 <= y
  OBVIOUS
<1>2. (x * 4) \div 10 \in Nat /\ (x * 4) \div 10 <= (y * 4) \div 10 /\ (x * 4) \div 10 <= y
  OBVIOUS
<1>3. (x * 6) \div 10 \in Nat /\ (x * 6) \div 10 <= (y * 6) \div 10 /\ (x * 6) \div 10 <= y
  OBVIOUS
<1>q. QED BY <1>1, <1>2, <1>3

\* The penalties keep the order of two sums.
LEMMA AfterGrows ==
    ASSUME NEW x \in Nat, NEW y \in Nat, x <= y,
           NEW v \in BOOLEAN, NEW w \in BOOLEAN, w => v,
           NEW s \in BOOLEAN, NEW t \in BOOLEAN, t => s,
           NEW u \in BOOLEAN, NEW c \in BOOLEAN, c => u
    PROVE  After(x, v, s, u) \in Nat /\ After(x, v, s, u) <= After(y, w, t, c)
<1> PICK x1 : x1 = IF v THEN (x * 5) \div 10 ELSE x
  OBVIOUS
<1> PICK y1 : y1 = IF w THEN (y * 5) \div 10 ELSE y
  OBVIOUS
<1>1. x1 \in Nat /\ y1 \in Nat /\ x1 <= y1
  BY Tenths
<1> PICK x2 : x2 = IF s THEN (x1 * 4) \div 10 ELSE x1
  OBVIOUS
<1> PICK y2 : y2 = IF t THEN (y1 * 4) \div 10 ELSE y1
  OBVIOUS
<1>2. x2 \in Nat /\ y2 \in Nat /\ x2 <= y2
  BY <1>1, Tenths
<1> PICK x3 : x3 = IF u THEN (x2 * 6) \div 10 ELSE x2
  OBVIOUS
<1> PICK y3 : y3 = IF c THEN (y2 * 6) \div 10 ELSE y2
  OBVIOUS
<1>3. x3 \in Nat /\ y3 \in Nat /\ x3 <= y3
  BY <1>2, Tenths
<1>4. After(x, v, s, u) = x3
  BY DEF After
<1>5. After(y, w, t, c) = y3
  BY DEF After
<1>q. QED BY <1>3, <1>4, <1>5

\* The weighted sum of a text's signals.
Weighed(v, c, p, r, l, h) == 20000 * v + 25000 * c + 10000 * p + 15000 * r + l + h
Weight(t, prio, ref) ==
    Weighed(Bool(t.verb), Bool(t.cause), Bool(prio # 2), Bool(ref), LengthScore(t.len), SpecificityScore(t.hits))

\* The score of a text is its weighted sum after the penalties.
LEMMA AnalyzeIs ==
    ASSUME NEW t, NEW prio, NEW ref
    PROVE  Analyze(t, prio, ref) = After(Weight(t, prio, ref), t.vague, t.len < 30, ~t.cause)
  BY DEF Analyze, After, Weight, Weighed

\* What a text's length adds.
LEMMA LengthBounds ==
    ASSUME NEW n \in Nat
    PROVE  LengthScore(n) \in Nat /\ LengthScore(n) <= 15000
  BY DEF LengthScore

\* A weighted sum grows with each signal.
LEMMA WeighedGrows ==
    ASSUME NEW v \in Nat, NEW c \in Nat, NEW p \in Nat, NEW r \in Nat, NEW l \in Nat, NEW h \in Nat,
           NEW v2 \in Nat, NEW c2 \in Nat, NEW l2 \in Nat, v <= v2, c <= c2, l <= l2
    PROVE  Weighed(v, c, p, r, l, h) \in Nat /\ Weighed(v, c, p, r, l, h) <= Weighed(v2, c2, p, r, l2, h)
  BY DEF Weighed

\* The signals of a text are numbers in their bounds.
LEMMA WeightParts ==
    ASSUME NEW t \in Wording, NEW prio, NEW ref
    PROVE  /\ Bool(t.verb) \in Nat /\ Bool(t.cause) \in Nat /\ Bool(prio # 2) \in Nat /\ Bool(ref) \in Nat
           /\ LengthScore(t.len) \in Nat /\ LengthScore(t.len) <= 15000 /\ SpecificityScore(t.hits) \in Nat
<1>1. Bool(t.verb) \in Nat /\ Bool(t.cause) \in Nat /\ Bool(prio # 2) \in Nat /\ Bool(ref) \in Nat
  BY DEF Bool
<1>2. t.len \in Nat /\ t.hits \in Nat
  BY DEF Wording
<1>3. LengthScore(t.len) \in Nat /\ LengthScore(t.len) <= 15000
  BY ONLY <1>2, LengthBounds
<1>4. SpecificityScore(t.hits) \in Nat
  BY <1>2 DEF SpecificityScore
<1>q. QED BY <1>1, <1>3, <1>4

\* The text with one hint followed is a text, alike in all else.
LEMMA Followed ==
    ASSUME NEW t \in Wording
    PROVE  /\ LET w == [t EXCEPT !.cause = TRUE] IN
              w \in Wording /\ w.cause /\ w.verb = t.verb /\ w.vague = t.vague /\ w.len = t.len /\ w.hits = t.hits
           /\ LET w == [t EXCEPT !.verb = TRUE] IN
              w \in Wording /\ w.verb /\ w.cause = t.cause /\ w.vague = t.vague /\ w.len = t.len /\ w.hits = t.hits
           /\ LET w == [t EXCEPT !.vague = FALSE] IN
              w \in Wording /\ ~w.vague /\ w.cause = t.cause /\ w.verb = t.verb /\ w.len = t.len /\ w.hits = t.hits
           /\ LET w == [t EXCEPT !.len = 100] IN
              w \in Wording /\ w.len = 100 /\ w.cause = t.cause /\ w.verb = t.verb /\ w.vague = t.vague /\ w.hits = t.hits
  BY DEF Wording

\* A text that says no less in every respect scores no worse.
LEMMA NoWorse ==
    ASSUME NEW t \in Wording, NEW w \in Wording, NEW prio, NEW ref,
           t.verb => w.verb, t.cause => w.cause, w.vague => t.vague,
           LengthScore(t.len) <= LengthScore(w.len), w.len < 30 => t.len < 30, t.hits = w.hits
    PROVE  Analyze(w, prio, ref) >= Analyze(t, prio, ref)
<1> PICK x : x = Weight(t, prio, ref)
  OBVIOUS
<1> PICK y : y = Weight(w, prio, ref)
  OBVIOUS
<1>1. Bool(t.verb) <= Bool(w.verb) /\ Bool(t.cause) <= Bool(w.cause)
  BY DEF Bool, Wording
<1>2. x \in Nat /\ x <= y
  <2>1. /\ Bool(t.verb) \in Nat /\ Bool(t.cause) \in Nat /\ Bool(prio # 2) \in Nat /\ Bool(ref) \in Nat
        /\ LengthScore(t.len) \in Nat /\ SpecificityScore(t.hits) \in Nat
    BY ONLY t \in Wording, WeightParts
  <2>2. /\ Bool(w.verb) \in Nat /\ Bool(w.cause) \in Nat /\ LengthScore(w.len) \in Nat
        /\ SpecificityScore(w.hits) = SpecificityScore(t.hits)
    <3>1. Bool(w.verb) \in Nat /\ Bool(w.cause) \in Nat /\ LengthScore(w.len) \in Nat
      BY ONLY w \in Wording, WeightParts
    <3>q. QED BY <3>1
  <2>3. LengthScore(t.len) <= LengthScore(w.len)
    OBVIOUS
  <2>q. QED BY ONLY <1>1, <2>1, <2>2, <2>3, WeighedGrows, x = Weight(t, prio, ref), y = Weight(w, prio, ref) DEF Weight
<1>3. y \in Nat
  <2>1. /\ Bool(w.verb) \in Nat /\ Bool(w.cause) \in Nat /\ Bool(prio # 2) \in Nat /\ Bool(ref) \in Nat
        /\ LengthScore(w.len) \in Nat /\ SpecificityScore(w.hits) \in Nat
    BY ONLY w \in Wording, WeightParts
  <2>q. QED BY ONLY <2>1, y = Weight(w, prio, ref) DEF Weight, Weighed
<1>4. /\ t.vague \in BOOLEAN /\ w.vague \in BOOLEAN /\ (w.vague => t.vague)
      /\ (t.len < 30) \in BOOLEAN /\ (w.len < 30) \in BOOLEAN /\ (w.len < 30 => t.len < 30)
      /\ (~t.cause) \in BOOLEAN /\ (~w.cause) \in BOOLEAN /\ (~w.cause => ~t.cause)
  BY DEF Wording
<1>5. After(x, t.vague, t.len < 30, ~t.cause) <= After(y, w.vague, w.len < 30, ~w.cause)
  BY ONLY <1>2, <1>3, <1>4, AfterGrows
<1>6. Analyze(t, prio, ref) <= Analyze(w, prio, ref)
  BY ONLY <1>5, AnalyzeIs, x = Weight(t, prio, ref), y = Weight(w, prio, ref)
<1>q. QED BY <1>6

\* Advice followed does not lower the score, and a text without advice left is good.
LEMMA HintsCorrect == HintsHelp
<1> SUFFICES ASSUME NEW t \in Texts, NEW prio \in {2, 4}, NEW ref \in BOOLEAN
    PROVE LET hints == Hints(Signals(t, prio, ref)) v == Analyze(t, prio, ref) IN
        /\ "causality" \in hints => Analyze([t EXCEPT !.cause = TRUE], prio, ref) >= v
        /\ "imperative" \in hints => Analyze([t EXCEPT !.verb = TRUE], prio, ref) >= v
        /\ "vague" \in hints => Analyze([t EXCEPT !.vague = FALSE], prio, ref) >= v
        /\ "length" \in hints => Analyze([t EXCEPT !.len = 100], prio, ref) >= v
        /\ hints = {} => QualityTier(v) \in {"good", "excellent"}
  BY DEF HintsHelp
<1> PICK v : v = Analyze(t, prio, ref)
  OBVIOUS
<1>0. t \in Wording /\ t.len \in Nat
  BY AgentContextAssumption DEF Wording
<1> PICK l : l = LengthScore(t.len)
  OBVIOUS
<1>l. l \in Nat /\ l <= 15000 /\ (100 < 30) = FALSE /\ LengthScore(100) = 15000
  BY <1>0, LengthBounds DEF LengthScore
<1>1. Analyze([t EXCEPT !.cause = TRUE], prio, ref) >= v
  <2> PICK w : w = [t EXCEPT !.cause = TRUE]
    OBVIOUS
  <2>1. w \in Wording /\ w.cause /\ w.verb = t.verb /\ w.vague = t.vague /\ w.len = t.len /\ w.hits = t.hits
    BY <1>0, Followed
  <2>2. /\ (t.verb => w.verb) /\ (t.cause => w.cause) /\ (w.vague => t.vague)
        /\ LengthScore(t.len) <= LengthScore(w.len) /\ (w.len < 30 => t.len < 30) /\ t.hits = w.hits
    BY <1>l, <2>1
  <2>q. QED BY <1>0, <2>1, <2>2, NoWorse
<1>2. Analyze([t EXCEPT !.verb = TRUE], prio, ref) >= v
  <2> PICK w : w = [t EXCEPT !.verb = TRUE]
    OBVIOUS
  <2>1. w \in Wording /\ w.verb /\ w.cause = t.cause /\ w.vague = t.vague /\ w.len = t.len /\ w.hits = t.hits
    BY <1>0, Followed
  <2>2. /\ (t.verb => w.verb) /\ (t.cause => w.cause) /\ (w.vague => t.vague)
        /\ LengthScore(t.len) <= LengthScore(w.len) /\ (w.len < 30 => t.len < 30) /\ t.hits = w.hits
    BY <1>l, <2>1
  <2>q. QED BY <1>0, <2>1, <2>2, NoWorse
<1>3. Analyze([t EXCEPT !.vague = FALSE], prio, ref) >= v
  <2> PICK w : w = [t EXCEPT !.vague = FALSE]
    OBVIOUS
  <2>1. w \in Wording /\ ~w.vague /\ w.cause = t.cause /\ w.verb = t.verb /\ w.len = t.len /\ w.hits = t.hits
    BY <1>0, Followed
  <2>2. /\ (t.verb => w.verb) /\ (t.cause => w.cause) /\ (w.vague => t.vague)
        /\ LengthScore(t.len) <= LengthScore(w.len) /\ (w.len < 30 => t.len < 30) /\ t.hits = w.hits
    BY <1>l, <2>1
  <2>q. QED BY <1>0, <2>1, <2>2, NoWorse
<1>4. Analyze([t EXCEPT !.len = 100], prio, ref) >= v
  <2> PICK w : w = [t EXCEPT !.len = 100]
    OBVIOUS
  <2>1. w \in Wording /\ w.len = 100 /\ w.cause = t.cause /\ w.verb = t.verb /\ w.vague = t.vague /\ w.hits = t.hits
    BY <1>0, Followed
  <2>2. /\ (t.verb => w.verb) /\ (t.cause => w.cause) /\ (w.vague => t.vague)
        /\ LengthScore(t.len) <= LengthScore(w.len) /\ (w.len < 30 => t.len < 30) /\ t.hits = w.hits
    BY <1>l, <2>1
  <2>3. t \in Wording /\ w \in Wording
    BY <1>0, <2>1
  <2>4. Analyze(w, prio, ref) >= Analyze(t, prio, ref)
    BY ONLY <2>2, <2>3, NoWorse
  <2>q. QED BY <2>4
<1>5. ASSUME Hints(Signals(t, prio, ref)) = {} PROVE QualityTier(v) \in {"good", "excellent"}
  <2> PICK sig : sig = Signals(t, prio, ref)
    OBVIOUS
  <2>1. /\ "imperative" \in sig /\ "causality" \in sig /\ "severity" \in sig /\ "reference" \in sig
        /\ "length" \in sig /\ "specific" \in sig /\ "vague" \notin sig /\ "short" \notin sig
    BY <1>5 DEF Hints
  <2>2. /\ "imperative" \in sig => t.verb
        /\ "causality" \in sig => t.cause
        /\ "severity" \in sig => prio # 2
        /\ "reference" \in sig => ref
        /\ "length" \in sig => 2 * l >= 15000
        /\ "specific" \in sig => t.hits >= 2
        /\ "vague" \notin sig => ~t.vague
        /\ "short" \notin sig => ~(t.len < 30)
    BY DEF Signals
  <2>3. Bool(t.verb) = 1 /\ Bool(t.cause) = 1 /\ Bool(prio # 2) = 1 /\ Bool(ref) = 1
    BY <2>1, <2>2 DEF Bool
  <2> PICK h : h = SpecificityScore(t.hits)
    OBVIOUS
  <2>4. h \in Nat /\ h >= 7500 /\ 2 * l >= 15000
    BY <1>0, <2>1, <2>2 DEF SpecificityScore, Wording
  <2>5. v = After(Weighed(1, 1, 1, 1, l, h), t.vague, t.len < 30, ~t.cause)
    BY <2>3, AnalyzeIs DEF Weight
  <2>6. v = Weighed(1, 1, 1, 1, l, h)
    BY <2>1, <2>2, <2>5 DEF After
  <2>7. v \in Nat /\ v >= 85000
    BY <1>l, <2>4, <2>6 DEF Weighed
  <2>q. QED BY <2>7 DEF QualityTier
<1>q. QED BY <1>1, <1>2, <1>3, <1>4, <1>5

\* A writer of the stores keeps the invariant, whatever call it meets.
LEMMA WriteInv ==
    ASSUME CtxInv, ContextWrite
    PROVE  CtxInv'
<1>1. StoreTyped' /\ QualityCurrent'
  <2>1. CASE \E cmd \in MemSetCommands, k \in Lore, t \in Texts : MemSet(cmd, k, t)
    <3>1. PICK cmd \in MemSetCommands, k \in Lore, t \in Texts : MemSet(cmd, k, t)
      BY <2>1
    <3>2. plan' = plan /\ plan \in [CtxDecisions -> PlanRecords]
      BY <3>1 DEF MemSet, CtxInv, StoreTyped
    <3>3. \/ \E prio \in {2, 4} : Upsert(k, t, prio)
          \/ Confirm(k)
          \/ Tombstone(k)
      BY <3>1 DEF MemSet
    <3>4. lore' \in [Lore -> GotchaRecords] /\ tree' \in [CtxFiles -> FileRecords] /\ QualityCurrent'
      BY <3>3, UpsertStores, ConfirmStores, TombstoneStores
    <3>q. QED BY <3>2, <3>4 DEF StoreTyped
  <2>2. CASE Decay
    BY <2>2, DecayStores
  <2>3. CASE \E k \in Lore, t \in Texts : Improve(k, t)
    BY <2>3, ImproveStores
  <2>q. QED BY <2>1, <2>2, <2>3 DEF ContextWrite
<1>2. UNCHANGED <<draft, packet, answer>>
  BY DEF ContextWrite
<1>3. held' \subseteq held /\ ever.linked \subseteq ever'.linked /\ ever.trusted \subseteq ever'.trusted
  <2>1. CASE draft.pc = "idle"
    BY <2>1 DEF ContextWrite
  <2>2. CASE draft.pc # "idle"
    <3>1. held' = held \cap Due(draft.files)' /\ ever' = Joined(ever, Seen(draft.files)')
      BY <2>2 DEF ContextWrite
    <3>q. QED BY <3>1 DEF Joined
  <2>q. QED BY <2>1, <2>2
<1>4. DraftInv'
  <2>1. draft.pc # "idle" => web' = web
    BY DEF ContextWrite, MemSet, Decay, Improve
  <2>q. QED BY <1>2, <1>3, <2>1, Interrupted
<1>5. PacketHonest' /\ AnswersFair'
  BY <1>2, CtxResting
<1>q. QED BY <1>1, <1>4, <1>5 DEF CtxInv

\* The lists of a graph's dependents are lists of flags.
LEMMA FlagLists == \A deps \in {<<>>, <<TRUE, FALSE, TRUE>>} : deps \in Seq(BOOLEAN)
<1>1. <<TRUE, FALSE, TRUE>> \in Seq(BOOLEAN)
  OBVIOUS
<1>2. <<>> \in Seq(BOOLEAN)
  OBVIOUS
<1>q. QED BY <1>1, <1>2

\* A query keeps it, and is answered fairly.
LEMMA QueryInv ==
    ASSUME CtxInv, NEW want \in QueryLimits, MemQuery(want)
    PROVE  CtxInv'
<1> PICK limit : limit = Min({want, MaxQueryLimit})
  OBVIOUS
<1>1. limit \in Nat
  <2>1. want \in Nat /\ MaxQueryLimit \in Nat
    BY AgentContextAssumption
  <2>q. QED BY <2>1, MinOf
<1>2. AnswersFair'
  <2>1. CASE \E hood \in Hoods : \E deps \in {<<>>, <<TRUE, FALSE, TRUE>>} :
               answer' = {[mode |-> "graph", limit |-> limit, hood |-> hood, told |-> QueryGraph(hood, deps, limit)]}
    <3>1. PICK hood \in Hoods, deps \in {<<>>, <<TRUE, FALSE, TRUE>>} :
               answer' = {[mode |-> "graph", limit |-> limit, hood |-> hood, told |-> QueryGraph(hood, deps, limit)]}
      BY <2>1
    <3> PICK g : g = QueryGraph(hood, deps, limit)
      OBVIOUS
    <3>2. deps \in Seq(BOOLEAN)
      BY FlagLists
    <3>3. /\ Total(g.q) = Min({limit, Total(Sizes(hood))})
          /\ \A i, j \in GroupNos : g.q[i] < Sizes(hood)[i] => g.q[j] <= g.q[i] + 1
          /\ Total(g.got) + g.deps <= limit
      BY <1>1, <3>2, GraphAnswer
    <3>4. \A a \in answer' : a.mode = "graph" /\ a.limit = limit /\ a.hood = hood /\ a.told = g
      BY <3>1
    <3>q. QED BY ONLY <3>3, <3>4 DEF AnswersFair
  <2>2. CASE \E scan \in Scans : \E how \in {"tag", "text"} :
               answer' = {[mode |-> how, limit |-> limit, scan |-> scan,
                           n |-> IF how = "tag" THEN QueryTag(scan, limit) ELSE QueryText(scan, limit)]}
    <3>1. PICK scan \in Scans, how \in {"tag", "text"} :
               answer' = {[mode |-> how, limit |-> limit, scan |-> scan,
                           n |-> IF how = "tag" THEN QueryTag(scan, limit) ELSE QueryText(scan, limit)]}
      BY <2>2
    <3> PICK n : n = IF how = "tag" THEN QueryTag(scan, limit) ELSE QueryText(scan, limit)
      OBVIOUS
    <3>2. n <= limit
      BY <1>1, TagAnswer, TextAnswer
    <3>3. how = "tag" /\ n < limit => n = Cardinality({j \in DOMAIN scan : scan[j].active /\ scan[j].match})
      BY <1>1, TagAnswer
    <3>4. \A a \in answer' : a.mode = how /\ a.limit = limit /\ a.scan = scan /\ a.n = n
      BY <3>1
    <3>q. QED BY <3>2, <3>3, <3>4 DEF AnswersFair
  <2>q. QED BY <2>1, <2>2 DEF MemQuery
<1>3. UNCHANGED <<acData, draft, packet, held, ever>>
  BY DEF MemQuery
<1>4. DraftInv'
  BY <1>3, Interrupted DEF acData
<1>q. QED BY <1>2, <1>3, <1>4, CtxResting DEF CtxInv

\* It holds of every behaviour.
LEMMA CtxInductive == AcSpec => []CtxInv
<1>1. AcInit => CtxInv
  <2> SUFFICES ASSUME AcInit PROVE CtxInv
    OBVIOUS
  <2>1. StoreTyped /\ QualityCurrent
    BY AgentContextAssumption, BasesScored DEF AcInit, StoreTyped, QualityCurrent
  <2>2. PacketHonest /\ AnswersFair
    BY DEF AcInit, PacketHonest, AnswersFair
  <2>3. draft = [pc |-> "idle", files |-> {}, left |-> {}, recs |-> {}, keys |-> {}, found |-> {}, decKeys |-> {},
                 decs |-> {}, warned |-> {}, nudged |-> {}, stage |-> 0, failed |-> {}] /\ held = {}
    BY DEF AcInit, NoDraft
  <2>4. DOMAIN draft = DraftFields
    BY <2>3 DEF DraftFields
  <2>5. DraftOK(draft)
    BY <2>3, FS_EmptySet DEF DraftOK
  <2>6. Tracked
    BY <2>3 DEF Tracked, Met
  <2>q. QED BY <2>1, <2>2, <2>4, <2>5, <2>6 DEF CtxInv, DraftInv
<1>2. CtxInv /\ [\E asking \in BOOLEAN : AcNext(asking)]_acVars => CtxInv'
  <2> SUFFICES ASSUME CtxInv, [\E asking \in BOOLEAN : AcNext(asking)]_acVars PROVE CtxInv'
    OBVIOUS
  <2>1. ASSUME DraftInv', UNCHANGED acData, UNCHANGED packet, UNCHANGED answer PROVE CtxInv'
    BY <2>1, CtxResting DEF CtxInv
  <2>2. ASSUME NEW fs \in SUBSET CtxFiles, Begin(fs) PROVE CtxInv'
    <3>1. UNCHANGED acData /\ UNCHANGED packet /\ UNCHANGED answer
      BY <2>2 DEF Begin
    <3>q. QED BY <2>1, <2>2, <3>1, BeginInv
  <2>3. ASSUME NEW fs \in SUBSET CtxFiles, ReadReviews(fs) PROVE CtxInv'
    <3>1. UNCHANGED acData /\ UNCHANGED packet /\ UNCHANGED answer
      BY <2>3 DEF ReadReviews
    <3>q. QED BY <2>1, <2>3, <3>1, ReviewsInv
  <2>4. ASSUME NEW f \in CtxFiles, ReadFile(f) PROVE CtxInv'
    <3>1. UNCHANGED acData /\ UNCHANGED packet /\ UNCHANGED answer
      BY <2>4 DEF ReadFile
    <3>q. QED BY <2>1, <2>4, <3>1, ReadFileInv
  <2>4f. ASSUME NEW f \in CtxFiles, ReadFileFails(f) PROVE CtxInv'
    <3>1. UNCHANGED acData /\ UNCHANGED packet /\ UNCHANGED answer
      BY <2>4f DEF ReadFileFails
    <3>q. QED BY <2>1, <2>4f, <3>1, ReadFileFailsInv
  <2>5. ASSUME NEW k \in Lore, ReadGotcha(k) PROVE CtxInv'
    <3>1. UNCHANGED acData /\ UNCHANGED packet /\ UNCHANGED answer
      BY <2>5 DEF ReadGotcha
    <3>q. QED BY <2>1, <2>5, <3>1, ReadGotchaInv
  <2>5f. ASSUME NEW k \in Lore, ReadGotchaFails(k) PROVE CtxInv'
    <3>1. UNCHANGED acData /\ UNCHANGED packet /\ UNCHANGED answer
      BY <2>5f DEF ReadGotchaFails
    <3>q. QED BY <2>1, <2>5f, <3>1, ReadGotchaFailsInv
  <2>6f. CASE ContextFails
    <3>1. UNCHANGED acData /\ UNCHANGED packet /\ UNCHANGED answer
      BY <2>6f DEF ContextFails
    <3>2. DraftInv'
      BY <2>6f, NoDraftInv DEF ContextFails
    <3>q. QED BY <2>1, <3>1, <3>2
  <2>6. CASE ScanGotchas
    <3>1. UNCHANGED acData /\ UNCHANGED packet /\ UNCHANGED answer
      BY <2>6 DEF ScanGotchas
    <3>q. QED BY <2>1, <2>6, <3>1, ScanInv
  <2>7. CASE FilesRead
    <3>1. UNCHANGED acData /\ UNCHANGED packet /\ UNCHANGED answer
      BY <2>7 DEF FilesRead
    <3>q. QED BY <2>1, <2>7, <3>1, FilesReadInv
  <2>8. CASE GotchasRead
    <3>1. UNCHANGED acData /\ UNCHANGED packet /\ UNCHANGED answer
      BY <2>8 DEF GotchasRead
    <3>q. QED BY <2>1, <2>8, <3>1, GotchasReadInv
  <2>9. CASE ReadDecisions
    <3>1. UNCHANGED acData /\ UNCHANGED packet /\ UNCHANGED answer
      BY <2>9 DEF ReadDecisions
    <3>q. QED BY <2>1, <2>9, <3>1, DecisionsInv
  <2>10. CASE Format
    <3>1. UNCHANGED acData /\ UNCHANGED answer
      BY <2>10 DEF Format
    <3>q. QED BY <2>10, <3>1, FormatInv, CtxResting DEF CtxInv
  <2>11. ASSUME NEW k \in Lore, SettleEdges(k), UNCHANGED <<draft, packet, held, ever, answer, ctxWrites, ctxCalls>>
         PROVE CtxInv'
    <3>1. UNCHANGED <<lore, tree, plan>>
      BY <2>11 DEF SettleEdges
    <3>2. StoreTyped' /\ QualityCurrent'
      BY <3>1 DEF CtxInv, StoreTyped, QualityCurrent
    <3>3. DraftInv'
      BY <2>11, Interrupted DEF SettleEdges
    <3>q. QED BY <2>11, <3>2, <3>3, CtxResting DEF CtxInv
  <2>12. CASE UNCHANGED acVars
    <3>1. UNCHANGED acData /\ UNCHANGED <<draft, packet, held, ever, answer>>
      BY <2>12 DEF acVars, acData
    <3>2. DraftInv'
      BY <3>1, Interrupted DEF acData
    <3>q. QED BY <2>1, <3>1, <3>2
  <2>13. ASSUME NEW asking \in BOOLEAN, AcNext(asking) PROVE CtxInv'
    <3>1. CASE \E want \in QueryLimits : MemQuery(want)
      BY <3>1, QueryInv
    <3>2. CASE AcStep
      BY <3>2, <2>2, <2>3, <2>4, <2>4f, <2>5, <2>5f, <2>6, <2>6f, <2>7, <2>8, <2>9, <2>10, <2>11, WriteInv DEF AcStep
    <3>q. QED BY <2>13, <3>1, <3>2 DEF AcNext
  <2>q. QED BY <2>12, <2>13
<1>q. QED BY <1>1, <1>2, PTL DEF AcSpec

\* What an agent is told is true of the store and leaves out the right things: packets
\* that writers interrupted at any point, answers, and the scores and advice they rest
\* on (mem_bootstrap, mem_query), for any store, budget, limits and number of writers.
THEOREM ContextCorrect == AcSpec => []ContextHonest
<1>1. CtxInv => ContextHonest
  BY HintsCorrect DEF CtxInv, ContextHonest
<1>q. QED BY <1>1, CtxInductive, PTL

-----------------------------------------------------------------------------
(* The static scan. Its texts are words over the alphabet, and their order is strict *)
(* and total.                                                                        *)

Words == Seq(ToSet(Alphabet))

\* A letter has a place in the alphabet, and no other letter has that place.
LEMMA LetterPlace ==
    ASSUME NEW s \in ToSet(Alphabet)
    PROVE  At1(s) \in Int /\ Alphabet[At1(s)] = s
<1>1. Alphabet \in Seq(ToSet(Alphabet))
  BY ScanAssumption
<1>2. DOMAIN Alphabet = 1 .. Len(Alphabet) /\ Len(Alphabet) \in Nat
  BY <1>1
<1>3. \E n \in DOMAIN Alphabet : Alphabet[n] = s
  BY DEF ToSet
<1>4. At1(s) \in DOMAIN Alphabet /\ Alphabet[At1(s)] = s
  BY <1>3 DEF At1
<1>q. QED BY <1>2, <1>4

\* Two words are the same up to a place when their letters are.
LEMMA SameStart ==
    ASSUME NEW a \in Words, NEW b \in Words, NEW k \in 1 .. Len(a) + 1, k <= Len(b) + 1
    PROVE  SubSeq(a, 1, k - 1) = SubSeq(b, 1, k - 1) <=> \A i \in 1 .. k - 1 : a[i] = b[i]
<1> PICK L : L = ToSet(Alphabet)
  OBVIOUS
<1>1. a \in Seq(L) /\ b \in Seq(L) /\ Len(a) \in Nat /\ Len(b) \in Nat
  BY DEF Words
<1>2. SubSeq(a, 1, k - 1) = [i \in 1 .. k - 1 |-> a[i]]
  BY <1>1
<1>3. SubSeq(b, 1, k - 1) = [i \in 1 .. k - 1 |-> b[i]]
  BY <1>1
<1>q. QED BY <1>2, <1>3

\* The place where one word falls below another.
Falls(a, b, k) ==
    /\ k \in 1 .. Len(b) /\ k <= Len(a) + 1 /\ \A i \in 1 .. k - 1 : a[i] = b[i]
    /\ k > Len(a) \/ At1(a[k]) < At1(b[k])

LEMMA BeforeFalls ==
    ASSUME NEW a \in Words, NEW b \in Words
    PROVE  TextBefore(a, b) <=> \E k \in Nat : Falls(a, b, k)
<1>1. Len(a) \in Nat /\ Len(b) \in Nat /\ DOMAIN b = 1 .. Len(b)
  BY DEF Words
<1>2. ASSUME TextBefore(a, b) PROVE \E k \in Nat : Falls(a, b, k)
  <2>1. PICK k \in DOMAIN b : /\ k <= Len(a) + 1 /\ SubSeq(a, 1, k - 1) = SubSeq(b, 1, k - 1)
                              /\ k > Len(a) \/ At1(a[k]) < At1(b[k])
    BY <1>2 DEF TextBefore
  <2>2. k \in 1 .. Len(a) + 1 /\ k <= Len(b) + 1 /\ k \in Nat
    BY <1>1, <2>1
  <2>3. \A i \in 1 .. k - 1 : a[i] = b[i]
    BY <2>1, <2>2, SameStart
  <2>4. Falls(a, b, k)
    BY <1>1, <2>1, <2>3 DEF Falls
  <2>q. QED BY <2>2, <2>4
<1>3. ASSUME NEW k \in Nat, Falls(a, b, k) PROVE TextBefore(a, b)
  <2>1. k \in 1 .. Len(a) + 1 /\ k <= Len(b) + 1 /\ k \in DOMAIN b
    BY <1>1, <1>3 DEF Falls
  <2>2. SubSeq(a, 1, k - 1) = SubSeq(b, 1, k - 1)
    BY <1>3, <2>1, SameStart DEF Falls
  <2>q. QED BY <1>3, <2>1, <2>2 DEF Falls, TextBefore
<1>q. QED BY <1>2, <1>3

\* The letters of words have places.
LEMMA WordLetter ==
    ASSUME NEW a \in Words, NEW i \in 1 .. Len(a)
    PROVE  a[i] \in ToSet(Alphabet) /\ At1(a[i]) \in Int
<1>1. a[i] \in ToSet(Alphabet)
  <2> PICK L : L = ToSet(Alphabet)
    OBVIOUS
  <2>1. a \in Seq(L)
    BY DEF Words
  <2>q. QED BY <2>1
<1>q. QED BY <1>1, LetterPlace

LEMMA BeforeIrreflexive ==
    ASSUME NEW a \in Words
    PROVE  ~TextBefore(a, a)
<1>1. ASSUME NEW k \in Nat, Falls(a, a, k) PROVE FALSE
  <2>1. k \in 1 .. Len(a) /\ Len(a) \in Nat
    BY <1>1 DEF Falls, Words
  <2>2. At1(a[k]) \in Int
    BY <2>1, WordLetter
  <2>q. QED BY <1>1, <2>1, <2>2 DEF Falls
<1>q. QED BY <1>1, BeforeFalls

LEMMA BeforeTransitive ==
    ASSUME NEW a \in Words, NEW b \in Words, NEW c \in Words, TextBefore(a, b), TextBefore(b, c)
    PROVE  TextBefore(a, c)
<1>1. Len(a) \in Nat /\ Len(b) \in Nat /\ Len(c) \in Nat
  BY DEF Words
<1>2. PICK k \in Nat : Falls(a, b, k)
  BY BeforeFalls
<1>3. PICK m \in Nat : Falls(b, c, m)
  BY BeforeFalls
<1>4. CASE m < k
  <2>1. m \in 1 .. Len(b) /\ m \in 1 .. Len(c) /\ m <= Len(a) /\ a[m] = b[m]
    BY <1>1, <1>2, <1>3, <1>4 DEF Falls
  <2>2. \A i \in 1 .. m - 1 : a[i] = c[i]
    BY <1>1, <1>2, <1>3, <1>4 DEF Falls
  <2>3. At1(a[m]) < At1(c[m])
    BY <1>1, <1>3, <2>1 DEF Falls
  <2>4. Falls(a, c, m)
    BY <1>1, <2>1, <2>2, <2>3 DEF Falls
  <2>q. QED BY <2>4, BeforeFalls
<1>5. CASE k <= m
  <2>1. k \in 1 .. Len(b) /\ k \in 1 .. Len(c) /\ k <= Len(a) + 1
    BY <1>1, <1>2, <1>3, <1>5 DEF Falls
  <2>2. \A i \in 1 .. k - 1 : a[i] = c[i]
    BY <1>1, <1>2, <1>3, <1>5 DEF Falls
  <2>3. CASE k > Len(a)
    BY <2>1, <2>2, <2>3, BeforeFalls DEF Falls
  <2>4. CASE k <= Len(a)
    <3>1. At1(a[k]) \in Int /\ At1(b[k]) \in Int /\ At1(c[k]) \in Int
      BY <1>1, <2>1, <2>4, WordLetter
    <3>2. At1(a[k]) < At1(b[k])
      BY <1>1, <1>2, <2>4 DEF Falls
    <3>3. At1(b[k]) <= At1(c[k])
      <4>1. CASE k = m
        <5>1. At1(b[k]) < At1(c[k])
          BY <1>1, <1>3, <2>1, <4>1 DEF Falls
        <5>q. QED BY <5>1, <3>1
      <4>2. CASE k < m
        <5>1. b[k] = c[k]
          BY <1>1, <1>3, <2>1, <4>2 DEF Falls
        <5>q. QED BY <5>1, <3>1
      <4>q. QED BY <1>5, <4>1, <4>2
    <3>4. At1(a[k]) < At1(c[k])
      BY <3>1, <3>2, <3>3
    <3>5. Falls(a, c, k)
      BY <2>1, <2>2, <3>4 DEF Falls
    <3>q. QED BY <3>5, BeforeFalls
  <2>q. QED BY <1>1, <2>3, <2>4
<1>q. QED BY <1>4, <1>5

LEMMA BeforeTotal ==
    ASSUME NEW a \in Words, NEW b \in Words, a # b
    PROVE  TextBefore(a, b) \/ TextBefore(b, a)
<1>1. Len(a) \in Nat /\ Len(b) \in Nat
  BY DEF Words
<1> DEFINE Same(k) == k <= Len(a) /\ k <= Len(b) /\ a[k] = b[k]
<1> DEFINE T == {k \in Nat : k > 0 /\ k <= Len(a) + 1 /\ k <= Len(b) + 1 /\ ~Same(k)}
<1>2. T # {}
  <2>1. CASE Len(a) <= Len(b)
    <3>1. Len(a) + 1 \in T
      BY <1>1, <2>1
    <3>q. QED BY <3>1
  <2>2. CASE Len(b) < Len(a)
    <3>1. Len(b) + 1 \in T
      BY <1>1, <2>2
    <3>q. QED BY <3>1
  <2>q. QED BY <1>1, <2>1, <2>2
<1>3. PICK m \in T : \A n \in T : m <= n
  BY <1>2, LeastOf
<1>4. ASSUME NEW i \in 1 .. m - 1 PROVE a[i] = b[i]
  <2>1. i \in Nat /\ i > 0 /\ i < m /\ i <= Len(a) + 1 /\ i <= Len(b) + 1
    BY <1>1, <1>3
  <2>2. i \notin T
    BY <1>1, <1>3, <2>1
  <2>q. QED BY <2>1, <2>2
<1>5. m \in Nat /\ m > 0 /\ m <= Len(a) + 1 /\ m <= Len(b) + 1 /\ ~Same(m)
  BY <1>3
<1>6. CASE m > Len(a) /\ m > Len(b)
  <2>1. Len(a) = m - 1 /\ Len(b) = m - 1
    BY <1>1, <1>5, <1>6
  <2>2. a = b
    <3> PICK L : L = ToSet(Alphabet)
      OBVIOUS
    <3>1. a \in Seq(L) /\ b \in Seq(L)
      BY DEF Words
    <3>q. QED BY <1>4, <2>1, <3>1
  <2>q. QED BY <2>2
<1>7. CASE m > Len(a) /\ m <= Len(b)
  <2>1. Falls(a, b, m)
    BY <1>1, <1>4, <1>5, <1>7 DEF Falls
  <2>q. QED BY <1>5, <2>1, BeforeFalls
<1>8. CASE m <= Len(a) /\ m > Len(b)
  <2>1. Falls(b, a, m)
    BY <1>1, <1>4, <1>5, <1>8 DEF Falls
  <2>q. QED BY <1>5, <2>1, BeforeFalls
<1>9. CASE m <= Len(a) /\ m <= Len(b)
  <2>1. a[m] # b[m] /\ m \in 1 .. Len(a) /\ m \in 1 .. Len(b)
    BY <1>1, <1>5, <1>9
  <2>2. /\ At1(a[m]) \in Int /\ Alphabet[At1(a[m])] = a[m]
        /\ At1(b[m]) \in Int /\ Alphabet[At1(b[m])] = b[m]
    BY <2>1, WordLetter, LetterPlace
  <2>3. At1(a[m]) # At1(b[m])
    BY <2>1, <2>2
  <2>4. At1(a[m]) < At1(b[m]) \/ At1(b[m]) < At1(a[m])
    BY <2>2, <2>3
  <2>5. Falls(a, b, m) \/ Falls(b, a, m)
    BY <1>1, <1>4, <1>5, <2>1, <2>4 DEF Falls
  <2>q. QED BY <1>5, <2>5, BeforeFalls
<1>q. QED BY <1>1, <1>5, <1>6, <1>7, <1>8, <1>9

\* The files before a file in a set.
Earlier(S, f) == {g \in S : TextBefore(RelPath(g), RelPath(f))}

\* Files of a set with texts of their own.
Sortable(S) == /\ IsFiniteSet(S) /\ \A f \in S : RelPath(f) \in Words
               /\ \A f, g \in S : RelPath(f) = RelPath(g) => f = g

\* A file has a rank of its own, and the rank grows along the order.
LEMMA RanksGrow ==
    ASSUME NEW S, Sortable(S), NEW f \in S, NEW g \in S, TextBefore(RelPath(f), RelPath(g))
    PROVE  Cardinality(Earlier(S, f)) < Cardinality(Earlier(S, g))
<1>1. IsFiniteSet(S) /\ \A h \in S : RelPath(h) \in Words
  BY DEF Sortable
<1>2. f \in Earlier(S, g) /\ f \notin Earlier(S, f)
  BY <1>1, BeforeIrreflexive DEF Earlier
<1>3. ASSUME NEW h \in Earlier(S, f) PROVE h \in Earlier(S, g)
  <2>1. h \in S /\ TextBefore(RelPath(h), RelPath(f))
    BY DEF Earlier
  <2>2. TextBefore(RelPath(h), RelPath(g))
    BY <1>1, <2>1, BeforeTransitive
  <2>q. QED BY <2>1, <2>2 DEF Earlier
<1>4. IsFiniteSet(Earlier(S, g)) /\ IsFiniteSet(Earlier(S, f))
  BY <1>1, FS_Subset DEF Earlier
<1>5. Earlier(S, f) \subseteq Earlier(S, g) \ {f}
  BY <1>2, <1>3
<1>6. IsFiniteSet(Earlier(S, g) \ {f}) /\ Cardinality(Earlier(S, g) \ {f}) = Cardinality(Earlier(S, g)) - 1
  BY <1>2, <1>4, FS_RemoveElement
<1>7. Cardinality(Earlier(S, f)) <= Cardinality(Earlier(S, g) \ {f})
  BY <1>5, <1>6, FS_Subset
<1>8. Cardinality(Earlier(S, f)) \in Nat /\ Cardinality(Earlier(S, g)) \in Nat
  BY <1>4, FS_CardinalityType
<1>q. QED BY <1>6, <1>7, <1>8

LEMMA RanksDiffer ==
    ASSUME NEW S, Sortable(S), NEW f \in S, NEW g \in S, f # g
    PROVE  /\ TextBefore(RelPath(f), RelPath(g)) \/ TextBefore(RelPath(g), RelPath(f))
           /\ Cardinality(Earlier(S, f)) # Cardinality(Earlier(S, g))
<1>1. RelPath(f) \in Words /\ RelPath(g) \in Words /\ RelPath(f) # RelPath(g) /\ IsFiniteSet(S)
  BY DEF Sortable
<1>2. TextBefore(RelPath(f), RelPath(g)) \/ TextBefore(RelPath(g), RelPath(f))
  BY <1>1, BeforeTotal
<1>3. IsFiniteSet(Earlier(S, f)) /\ IsFiniteSet(Earlier(S, g))
  BY <1>1, FS_Subset DEF Earlier
<1>4. Cardinality(Earlier(S, f)) \in Nat /\ Cardinality(Earlier(S, g)) \in Nat
  BY <1>3, FS_CardinalityType
<1>q. QED BY <1>2, <1>4, RanksGrow

\* w lists S, each file once, in the order of the texts.
Lists(w, S) ==
    /\ \E n \in Nat : w \in [1 .. n -> S]
    /\ ToSet(w) = S
    /\ \A i, j \in DOMAIN w : i < j => w[i] # w[j] /\ TextBefore(RelPath(w[i]), RelPath(w[j]))

\* The sort of the walk lists its files: Walker::walk.
LEMMA SortLists ==
    ASSUME NEW S, Sortable(S)
    PROVE  Lists(ByRelPath(S), S)
<1> PICK n : n = Cardinality(S)
  OBVIOUS
<1> PICK rank : rank = [f \in S |-> Cardinality(Earlier(S, f))]
  OBVIOUS
<1> PICK w : w = ByRelPath(S)
  OBVIOUS
<1>1. IsFiniteSet(S) /\ n \in Nat
  BY FS_CardinalityType DEF Sortable
<1>2. w = [i \in 1 .. n |-> CHOOSE f \in S : rank[f] = i - 1]
  BY DEF ByRelPath, Earlier
<1>3. ASSUME NEW f \in S PROVE rank[f] \in 0 .. n - 1
  <2>1. f \notin Earlier(S, f)
    BY BeforeIrreflexive DEF Sortable, Earlier
  <2>2. Earlier(S, f) \subseteq S \ {f}
    BY <2>1 DEF Earlier
  <2>3. IsFiniteSet(S \ {f}) /\ Cardinality(S \ {f}) = n - 1
    BY <1>1, FS_RemoveElement
  <2>4. IsFiniteSet(Earlier(S, f)) /\ Cardinality(Earlier(S, f)) <= n - 1
    BY <2>2, <2>3, FS_Subset
  <2>5. Cardinality(Earlier(S, f)) \in Nat
    BY <2>4, FS_CardinalityType
  <2>q. QED BY <1>1, <2>4, <2>5
<1>4. ASSUME NEW f \in S, NEW g \in S, f # g PROVE rank[f] # rank[g]
  BY <1>4, RanksDiffer
<1>5. rank \in Injection(S, 0 .. n - 1)
  BY <1>3, <1>4 DEF Injection, IsInjective
<1>6. IsFiniteSet(0 .. n - 1) /\ Cardinality(0 .. n - 1) = n
  <2>1. 0 \in Int /\ n - 1 \in Int /\ 0 <= (n - 1) + 1 /\ (n - 1) - 0 + 1 = n
    BY <1>1
  <2>2. IsFiniteSet(0 .. n - 1) /\ Cardinality(0 .. n - 1) = (n - 1) - 0 + 1
    BY ONLY <2>1, IntervalSize
  <2>q. QED BY <2>1, <2>2
<1>7. rank \in Surjection(S, 0 .. n - 1)
  BY <1>5, <1>6, FS_Injection
<1>8. ASSUME NEW i \in 1 .. n PROVE w[i] \in S /\ rank[w[i]] = i - 1
  <2>1. i - 1 \in 0 .. n - 1
    BY <1>1
  <2>2. \E f \in S : rank[f] = i - 1
    BY <1>7, <2>1 DEF Surjection
  <2>q. QED BY <1>2, <2>2
<1>9. w \in [1 .. n -> S]
  BY <1>2, <1>8
<1>10. ASSUME NEW f \in S PROVE f \in ToSet(w)
  <2>1. rank[f] + 1 \in 1 .. n /\ rank[f] \in Int
    BY <1>1, <1>3
  <2>2. rank[w[rank[f] + 1]] = rank[f] /\ w[rank[f] + 1] \in S
    BY <1>8, <2>1
  <2>3. w[rank[f] + 1] = f
    BY <1>4, <2>2
  <2>q. QED BY <1>9, <2>1, <2>3 DEF ToSet
<1>11. ToSet(w) = S
  BY <1>9, <1>10 DEF ToSet
<1>12. ASSUME NEW i \in 1 .. n, NEW j \in 1 .. n, i < j
       PROVE  w[i] # w[j] /\ TextBefore(RelPath(w[i]), RelPath(w[j]))
  <2>1. w[i] \in S /\ w[j] \in S /\ rank[w[i]] < rank[w[j]]
    BY <1>1, <1>8, <1>12
  <2>2. w[i] # w[j] /\ ~(rank[w[j]] < rank[w[i]])
    BY <1>1, <1>3, <2>1
  <2>3. ~TextBefore(RelPath(w[j]), RelPath(w[i]))
    BY <2>1, <2>2, RanksGrow
  <2>q. QED BY <2>1, <2>2, <2>3, RanksDiffer
<1>q. QED BY <1>1, <1>9, <1>11, <1>12 DEF Lists

\* The files of the repository that is scanned.
Found == {e.file : e \in repo.entries}
Buffered(f) == \E v \in DOMAIN buffers : \E i \in DOMAIN buffers[v] : buffers[v][i] = f

ScanTypes ==
    /\ world \in DOMAIN Worlds /\ phase \in {"walk", "walked", "parsed", "done"}
    /\ ahead \subseteq repo.entries
    /\ DOMAIN buffers \subseteq Visitors /\ buffers \in [DOMAIN buffers -> Seq(Found)]
    /\ sent \in [Found -> Nat]
    /\ DOMAIN buffers # Visitors => ahead = {}

\* A file is in one place only: not yet visited, in one buffer once, or sent once.
InOnePlace ==
    /\ \A f \in Found : sent[f] <= 1 /\ (Buffered(f) => sent[f] = 0)
    /\ \A e \in ahead : ~Buffered(e.file) /\ sent[e.file] = 0
    /\ \A v, u \in DOMAIN buffers : \A i \in DOMAIN buffers[v], j \in DOMAIN buffers[u] :
           buffers[v][i] = buffers[u][j] => v = u /\ i = j

\* What the walk accepts is somewhere, and nothing else is kept.
Wanted == {e.file : e \in {x \in repo.entries : Accepted(x)}}
NoneLost ==
    /\ \A e \in repo.entries :
           Accepted(e) /\ e.file \notin repo.fragile => e \in ahead \/ Buffered(e.file) \/ sent[e.file] > 0
    /\ \A f \in Found : Buffered(f) \/ sent[f] > 0 => f \in Wanted

\* The walk is over when no visitor is left, and its list is the sorted channel.
ListSorted ==
    /\ phase # "walk" => DOMAIN buffers = {} /\ walked = ByRelPath({f \in DOMAIN sent : sent[f] > 0})
    /\ phase \in {"parsed", "done"} => OwnAnalysis

WalkInv == ScanTypes /\ InOnePlace /\ NoneLost /\ ListSorted

\* The file of an entry is no other entry's, and the files of a repository are finitely
\* many with texts of their own.
LEMMA EntryOwns ==
    ASSUME world \in DOMAIN Worlds, NEW d \in repo.entries, NEW e \in repo.entries, d.file = e.file
    PROVE  d = e
BY ScanAssumption DEF repo

LEMMA FoundSortable ==
    ASSUME world \in DOMAIN Worlds, NEW S \in SUBSET Found
    PROVE  Sortable(S)
<1> PICK E : E = repo.entries
  OBVIOUS
<1>1. IsFiniteSet(E)
  BY ScanAssumption DEF repo
<1> PICK F : F = [e \in E |-> e.file]
  OBVIOUS
<1>2. F \in Surjection(E, Found)
  BY DEF Surjection, Found
<1>3. IsFiniteSet(Found)
  BY <1>1, <1>2, FS_Surjection
<1>4. IsFiniteSet(S)
  BY <1>3, FS_Subset
<1>5. ASSUME NEW f \in S PROVE RelPath(f) \in Words
  <2>1. PICK e \in repo.entries : f = e.file
    BY DEF Found
  <2>2. RelPath(e.file) \in Seq(ToSet(Alphabet))
    BY ScanAssumption DEF repo
  <2>q. QED BY <2>1, <2>2 DEF Words
<1>6. ASSUME NEW f \in S, NEW g \in S, RelPath(f) = RelPath(g) PROVE f = g
  <2>1. PICK d \in repo.entries : f = d.file
    BY DEF Found
  <2>2. PICK e \in repo.entries : g = e.file
    BY DEF Found
  <2>3. d = e
    BY ScanAssumption, <1>6, <2>1, <2>2 DEF repo
  <2>q. QED BY <2>1, <2>2, <2>3
<1>q. QED BY <1>4, <1>5, <1>6 DEF Sortable

\* What a visitor is about to send: files of the walk, each once, that nobody has sent
\* and nobody else holds.
Batch(q, v) ==
    /\ q \in Seq(Found)
    /\ \A i, j \in DOMAIN q : q[i] = q[j] => i = j
    /\ \A i \in DOMAIN q : sent[q[i]] = 0 /\ q[i] \in Wanted
    /\ \A u \in DOMAIN buffers \ {v} : \A i \in DOMAIN q, j \in DOMAIN buffers[u] : q[i] # buffers[u][j]

LEMMA TailBatch ==
    ASSUME ScanTypes, InOnePlace, NoneLost, NEW v \in DOMAIN buffers
    PROVE  Batch(buffers[v], v)
<1>1. buffers[v] \in Seq(Found)
  BY DEF ScanTypes
<1>2. \A i, j \in DOMAIN buffers[v] : buffers[v][i] = buffers[v][j] => i = j
  BY DEF InOnePlace
<1>3. ASSUME NEW i \in DOMAIN buffers[v] PROVE sent[buffers[v][i]] = 0 /\ buffers[v][i] \in Wanted
  <2>1. buffers[v][i] \in Found /\ Buffered(buffers[v][i])
    BY <1>1 DEF Buffered
  <2>q. QED BY <2>1 DEF InOnePlace, NoneLost
<1>4. \A u \in DOMAIN buffers \ {v} : \A i \in DOMAIN buffers[v], j \in DOMAIN buffers[u] : buffers[v][i] # buffers[u][j]
  BY DEF InOnePlace
<1>q. QED BY <1>1, <1>2, <1>3, <1>4 DEF Batch

\* A visitor that keeps an entry still has a batch.
LEMMA AppendBatch ==
    ASSUME ScanTypes, InOnePlace, NoneLost, NEW v \in DOMAIN buffers, NEW e \in ahead, Accepted(e)
    PROVE  Batch(Append(buffers[v], e.file), v)
<1> PICK b : b = buffers[v]
  OBVIOUS
<1> PICK q : q = Append(b, e.file)
  OBVIOUS
<1>1. Batch(b, v)
  BY TailBatch
<1>2. e.file \in Found /\ sent[e.file] = 0 /\ ~Buffered(e.file) /\ e.file \in Wanted
  BY DEF ScanTypes, InOnePlace, Found, Wanted
<1>3. \A u \in DOMAIN buffers : \A j \in DOMAIN buffers[u] : buffers[u][j] # e.file
  BY <1>2 DEF Buffered
<1>4. b \in Seq(Found) /\ Len(b) \in Nat /\ DOMAIN b = 1 .. Len(b)
  BY <1>1 DEF Batch
<1>5. q \in Seq(Found) /\ DOMAIN q = 1 .. Len(b) + 1
  BY <1>2, <1>4
<1>6. \A i \in DOMAIN q : \/ i \in DOMAIN b /\ q[i] = b[i]
                          \/ i = Len(b) + 1 /\ q[i] = e.file
  BY <1>2, <1>4, <1>5
<1>7. \A i, j \in DOMAIN q : q[i] = q[j] => i = j
  BY <1>1, <1>3, <1>4, <1>6 DEF Batch
<1>8. \A i \in DOMAIN q : sent[q[i]] = 0 /\ q[i] \in Wanted
  BY <1>1, <1>2, <1>6 DEF Batch
<1>9. \A u \in DOMAIN buffers \ {v} : \A i \in DOMAIN q, j \in DOMAIN buffers[u] : q[i] # buffers[u][j]
  BY <1>1, <1>3, <1>6 DEF Batch
<1>10. Batch(q, v)
  BY <1>5, <1>7, <1>8, <1>9 DEF Batch
<1>q. QED BY <1>10

\* What the channel holds after a batch: each file of it once more.
LEMMA SendCounts ==
    ASSUME sent \in [Found -> Nat], NEW v, NEW q, Batch(q, v)
    PROVE  /\ Send(q) \in [Found -> Nat]
           /\ \A f \in Found : IF f \in ToSet(q) THEN sent[f] = 0 /\ Send(q)[f] = 1 ELSE Send(q)[f] = sent[f]
<1>1. Send(q) = [f \in Found |-> sent[f] + Cardinality({i \in DOMAIN q : q[i] = f})]
  BY DEF Send
<1>2. ASSUME NEW f \in Found
      PROVE  /\ Send(q)[f] \in Nat
             /\ IF f \in ToSet(q) THEN sent[f] = 0 /\ Send(q)[f] = 1 ELSE Send(q)[f] = sent[f]
  <2> PICK hits : hits = {i \in DOMAIN q : q[i] = f}
    OBVIOUS
  <2>1. Send(q)[f] = sent[f] + Cardinality(hits)
    BY <1>1
  <2>2. CASE f \in ToSet(q)
    <3>1. PICK i \in DOMAIN q : q[i] = f
      BY <2>2 DEF ToSet
    <3>2. hits = {i}
      BY <3>1 DEF Batch
    <3>3. Cardinality(hits) = 1
      BY <3>2, FS_Singleton
    <3>4. sent[f] = 0
      BY <3>1 DEF Batch
    <3>q. QED BY <2>1, <2>2, <3>3, <3>4
  <2>3. CASE f \notin ToSet(q)
    <3>1. hits = {}
      BY <2>3 DEF ToSet
    <3>2. Cardinality(hits) = 0
      BY <3>1, FS_EmptySet
    <3>q. QED BY <2>1, <2>3, <3>2
  <2>q. QED BY <2>2, <2>3
<1>q. QED BY <1>1, <1>2

\* A visitor gives its batch away: what it held is in the channel, once.
Emptied(v) ==
    /\ DOMAIN buffers' \subseteq DOMAIN buffers /\ DOMAIN buffers \ {v} \subseteq DOMAIN buffers'
    /\ \A u \in DOMAIN buffers' : buffers'[u] = IF u = v THEN <<>> ELSE buffers[u]

LEMMA Delivered ==
    ASSUME ScanTypes, InOnePlace, NoneLost, NEW v \in DOMAIN buffers, NEW q, Batch(q, v),
           \A i \in DOMAIN buffers[v] : buffers[v][i] \in ToSet(q), Emptied(v),
           world' = world, ahead' \subseteq ahead, \A e \in ahead' : e.file \notin ToSet(q),
           \A e \in ahead \ ahead' : e.file \in ToSet(q), sent' = Send(q)
    PROVE  sent' \in [Found -> Nat] /\ InOnePlace' /\ NoneLost'
<1>1. sent \in [Found -> Nat] /\ repo' = repo /\ Found' = Found /\ Wanted' = Wanted
  BY DEF ScanTypes, repo, Found, Wanted
<1>2. /\ sent' \in [Found -> Nat]
      /\ \A f \in Found : IF f \in ToSet(q) THEN sent[f] = 0 /\ sent'[f] = 1 ELSE sent'[f] = sent[f]
  BY <1>1, SendCounts
<1>3. \A u \in DOMAIN buffers' : \A i \in DOMAIN buffers'[u] :
          u \in DOMAIN buffers \ {v} /\ i \in DOMAIN buffers[u] /\ buffers'[u][i] = buffers[u][i]
  BY DEF Emptied
<1>4. \A f : Buffered(f)' => Buffered(f) /\ f \notin ToSet(q)
  <2>1. ASSUME NEW f, NEW u \in DOMAIN buffers', NEW i \in DOMAIN buffers'[u], buffers'[u][i] = f
        PROVE  Buffered(f) /\ f \notin ToSet(q)
    <3>1. u \in DOMAIN buffers \ {v} /\ i \in DOMAIN buffers[u] /\ buffers[u][i] = f
      BY <1>3, <2>1
    <3>2. Buffered(f)
      BY <3>1 DEF Buffered
    <3>3. f \notin ToSet(q)
      BY <3>1 DEF Batch, ToSet
    <3>q. QED BY <3>2, <3>3
  <2>q. QED BY <2>1 DEF Buffered
<1>5. ASSUME NEW f, Buffered(f), f \notin ToSet(q) PROVE Buffered(f)'
  <2>1. PICK u \in DOMAIN buffers : \E i \in DOMAIN buffers[u] : buffers[u][i] = f
    BY <1>5 DEF Buffered
  <2>2. u # v
    BY <1>5, <2>1
  <2>3. u \in DOMAIN buffers' /\ buffers'[u] = buffers[u]
    BY <2>2 DEF Emptied
  <2>q. QED BY <2>1, <2>3 DEF Buffered
<1>6. InOnePlace'
  <2>1. ASSUME NEW f \in Found PROVE sent'[f] <= 1 /\ (Buffered(f)' => sent'[f] = 0)
    <3>1. sent[f] <= 1 /\ sent[f] \in Nat /\ (Buffered(f) => sent[f] = 0)
      BY <1>1 DEF InOnePlace
    <3>q. QED BY <1>2, <1>4, <3>1
  <2>2. ASSUME NEW e \in ahead' PROVE ~Buffered(e.file)' /\ sent'[e.file] = 0
    <3>1. e \in ahead /\ e.file \in Found
      BY DEF ScanTypes, Found
    <3>2. ~Buffered(e.file) /\ sent[e.file] = 0
      BY <3>1 DEF InOnePlace
    <3>3. ~Buffered(e.file)'
      BY <1>4, <3>2
    <3>q. QED BY <1>2, <3>1, <3>2, <3>3
  <2>3. ASSUME NEW w \in DOMAIN buffers', NEW u \in DOMAIN buffers', NEW i \in DOMAIN buffers'[w], NEW j \in DOMAIN buffers'[u],
               buffers'[w][i] = buffers'[u][j]
        PROVE  w = u /\ i = j
    <3>1. /\ w \in DOMAIN buffers /\ i \in DOMAIN buffers[w] /\ buffers'[w][i] = buffers[w][i]
          /\ u \in DOMAIN buffers /\ j \in DOMAIN buffers[u] /\ buffers'[u][j] = buffers[u][j]
      BY <1>3
    <3>2. buffers[w][i] = buffers[u][j]
      BY ONLY <2>3, <3>1
    <3>3. \A x, y \in DOMAIN buffers : \A k \in DOMAIN buffers[x], l \in DOMAIN buffers[y] :
              buffers[x][k] = buffers[y][l] => x = y /\ k = l
      BY DEF InOnePlace
    <3>q. QED BY ONLY <3>1, <3>2, <3>3
  <2>4. \A w, u \in DOMAIN buffers' : \A i \in DOMAIN buffers'[w], j \in DOMAIN buffers'[u] :
            buffers'[w][i] = buffers'[u][j] => w = u /\ i = j
    BY <2>3
  <2>5. /\ \A f \in Found : sent'[f] <= 1 /\ (Buffered(f)' => sent'[f] = 0)
        /\ \A e \in ahead' : ~Buffered(e.file)' /\ sent'[e.file] = 0
    BY <2>1, <2>2
  <2>q. QED BY <1>1, <2>4, <2>5 DEF InOnePlace
<1>7. ASSUME NEW e \in repo.entries, Accepted(e), e.file \notin repo.fragile
      PROVE  e \in ahead' \/ Buffered(e.file)' \/ sent'[e.file] > 0
  <2>1. e.file \in Found
    BY DEF Found
  <2>2. e \in ahead \/ Buffered(e.file) \/ sent[e.file] > 0
    BY <1>7 DEF NoneLost
  <2>3. CASE e.file \in ToSet(q)
    BY <1>2, <2>1, <2>3
  <2>4. CASE e.file \notin ToSet(q)
    <3>1. CASE e \in ahead
      BY <2>4, <3>1
    <3>2. CASE Buffered(e.file)
      BY <1>5, <2>4, <3>2
    <3>3. CASE sent[e.file] > 0
      BY <1>2, <2>1, <2>4, <3>3
    <3>q. QED BY <2>2, <3>1, <3>2, <3>3
  <2>q. QED BY <2>3, <2>4
<1>8. ASSUME NEW f \in Found, Buffered(f)' \/ sent'[f] > 0 PROVE f \in Wanted
  <2>1. CASE f \in ToSet(q)
    BY <2>1 DEF Batch, ToSet
  <2>2. CASE f \notin ToSet(q)
    BY <1>2, <1>4, <1>8, <2>2 DEF NoneLost
  <2>q. QED BY <2>1, <2>2
<1>9. NoneLost'
  BY <1>1, <1>7, <1>8 DEF NoneLost
<1>q. QED BY <1>2, <1>6, <1>9

\* A visitor that keeps an entry and does not flush: the entry moves into its buffer.
LEMMA MovedIn ==
    ASSUME ScanTypes, InOnePlace, NoneLost, NEW v \in DOMAIN buffers, NEW e \in ahead, Accepted(e), NEW q, q = Append(buffers[v], e.file),
           buffers' = [buffers EXCEPT ![v] = q], world' = world, ahead' = ahead \ {e}, sent' = sent
    PROVE  InOnePlace' /\ NoneLost'
<1>1. sent \in [Found -> Nat] /\ repo' = repo /\ Found' = Found /\ Wanted' = Wanted
  BY DEF ScanTypes, repo, Found, Wanted
<1>2. Batch(q, v)
  BY AppendBatch
<1>3. /\ DOMAIN buffers' = DOMAIN buffers /\ buffers'[v] = q
      /\ \A u \in DOMAIN buffers : u # v => buffers'[u] = buffers[u]
  OBVIOUS
<1> PICK b : b = buffers[v]
  OBVIOUS
<1>4. /\ e \in repo.entries /\ e.file \in Found /\ sent[e.file] = 0 /\ ~Buffered(e.file)
  BY DEF ScanTypes, InOnePlace, Found
<1>5. /\ b \in Seq(Found) /\ Len(b) \in Nat /\ DOMAIN b = 1 .. Len(b) /\ DOMAIN q = 1 .. Len(b) + 1
      /\ q[Len(b) + 1] = e.file /\ \A i \in DOMAIN b : q[i] = b[i]
  <2>1. b \in Seq(Found) /\ q = Append(b, e.file)
    BY TailBatch DEF Batch
  <2>q. QED BY <1>4, <2>1
<1>6. ASSUME NEW f PROVE Buffered(f)' <=> Buffered(f) \/ f = e.file
  <2>1. ASSUME Buffered(f)' PROVE Buffered(f) \/ f = e.file
    <3>1. PICK u \in DOMAIN buffers : \E i \in DOMAIN buffers'[u] : buffers'[u][i] = f
      BY <1>3, <2>1 DEF Buffered
    <3>2. CASE u = v
      BY <1>3, <1>5, <3>1, <3>2 DEF Buffered
    <3>3. CASE u # v
      BY <1>3, <3>1, <3>3 DEF Buffered
    <3>q. QED BY <3>2, <3>3
  <2>2. ASSUME f = e.file PROVE Buffered(f)'
    <3>1. Len(b) + 1 \in DOMAIN buffers'[v] /\ buffers'[v][Len(b) + 1] = f
      BY <1>3, <1>5, <2>2
    <3>q. QED BY <1>3, <3>1 DEF Buffered
  <2>3. ASSUME Buffered(f) PROVE Buffered(f)'
    <3>1. PICK u \in DOMAIN buffers : \E i \in DOMAIN buffers[u] : buffers[u][i] = f
      BY <2>3 DEF Buffered
    <3>2. \E i \in DOMAIN buffers'[u] : buffers'[u][i] = f
      <4>1. CASE u # v
        BY <1>3, <3>1, <4>1
      <4>2. CASE u = v
        BY <1>3, <1>5, <3>1, <4>2
      <4>q. QED BY <4>1, <4>2
    <3>q. QED BY <1>3, <3>2 DEF Buffered
  <2>q. QED BY <2>1, <2>2, <2>3
<1>7. InOnePlace'
  <2>1. ASSUME NEW f \in Found PROVE sent'[f] <= 1 /\ (Buffered(f)' => sent'[f] = 0)
    BY <1>4, <1>6 DEF InOnePlace
  <2>2. ASSUME NEW d \in ahead' PROVE ~Buffered(d.file)' /\ sent'[d.file] = 0
    <3>1. d \in ahead /\ d # e /\ d \in repo.entries
      BY DEF ScanTypes
    <3>2. d.file # e.file
      BY <1>4, <3>1, EntryOwns DEF ScanTypes
    <3>q. QED BY <1>6, <3>1, <3>2 DEF InOnePlace
  <2>3. ASSUME NEW w \in DOMAIN buffers, NEW u \in DOMAIN buffers, NEW i \in DOMAIN buffers'[w], NEW j \in DOMAIN buffers'[u],
               buffers'[w][i] = buffers'[u][j]
        PROVE  w = u /\ i = j
    <3>1. CASE w = v /\ u = v
      BY <1>2, <1>3, <2>3, <3>1 DEF Batch
    <3>2. CASE w = v /\ u # v
      BY <1>2, <1>3, <2>3, <3>2 DEF Batch
    <3>3. CASE w # v /\ u = v
      BY <1>2, <1>3, <2>3, <3>3 DEF Batch
    <3>4. CASE w # v /\ u # v
      BY <1>3, <2>3, <3>4 DEF InOnePlace
    <3>q. QED BY <3>1, <3>2, <3>3, <3>4
  <2>q. QED BY <1>1, <1>3, <2>1, <2>2, <2>3 DEF InOnePlace
<1>8. ASSUME NEW d \in repo.entries, Accepted(d), d.file \notin repo.fragile
      PROVE  d \in ahead' \/ Buffered(d.file)' \/ sent'[d.file] > 0
  <2>1. d \in ahead \/ Buffered(d.file) \/ sent[d.file] > 0
    BY <1>8 DEF NoneLost
  <2>q. QED BY <1>6, <2>1
<1>9. ASSUME NEW f \in Found, Buffered(f)' \/ sent'[f] > 0 PROVE f \in Wanted
  <2>1. e.file \in Wanted
    BY <1>4 DEF Wanted
  <2>q. QED BY <1>6, <1>9, <2>1 DEF NoneLost
<1>10. NoneLost'
  BY <1>1, <1>8, <1>9 DEF NoneLost
<1>q. QED BY <1>7, <1>10

\* A visitor gets an entry: the file stays where it is, or moves into the visitor's
\* buffer, or is sent with the whole of it.
LEMMA VisitInv ==
    ASSUME WalkInv, NEW v, NEW e \in ahead, Visit(v, e)
    PROVE  WalkInv'
<1> USE DEF WalkInv
<1>1. /\ phase = "walk" /\ v \in DOMAIN buffers /\ ahead' = ahead \ {e}
      /\ world' = world /\ phase' = phase /\ repo' = repo /\ Found' = Found /\ Wanted' = Wanted
  BY DEF Visit, repo, Found, Wanted
<1>2. e \in repo.entries /\ e.file \in Found
  BY DEF ScanTypes, Found
<1>3. PICK kept \in {Accepted(e)} \cup IF e.file \in repo.fragile THEN {FALSE} ELSE {} :
         LET buffer == IF kept THEN Append(buffers[v], e.file) ELSE buffers[v]
             full == kept /\ Len(buffer) >= FlushThreshold IN
         /\ buffers' = [buffers EXCEPT ![v] = IF full THEN <<>> ELSE buffer]
         /\ sent' = IF full THEN Send(buffer) ELSE sent
  BY DEF Visit
<1> PICK q : q = Append(buffers[v], e.file)
  OBVIOUS
<1>4. /\ buffers \in [DOMAIN buffers -> Seq(Found)]
      /\ Accepted(e) => Batch(q, v) /\ q \in Seq(Found)
  BY <1>1, AppendBatch DEF ScanTypes, Batch
<1>5. CASE ~kept
  <2>1. buffers' = buffers /\ sent' = sent
    BY <1>3, <1>4, <1>5
  <2>2. \A f : Buffered(f)' = Buffered(f)
    BY <2>1 DEF Buffered
  <2>3. ~Accepted(e) \/ e.file \in repo.fragile
    BY <1>3, <1>5
  <2>4. ScanTypes'
    BY <1>1, <2>1 DEF ScanTypes
  <2>5. InOnePlace'
    BY <1>1, <2>1, <2>2 DEF InOnePlace
  <2>6. NoneLost'
    BY <1>1, <2>1, <2>2, <2>3 DEF NoneLost
  <2>7. ListSorted'
    BY <1>1 DEF ListSorted
  <2>q. QED BY <2>4, <2>5, <2>6, <2>7
<1>k. kept => Accepted(e)
  BY <1>3
<1>6. CASE kept /\ ~(Len(q) >= FlushThreshold)
  <2>1. buffers' = [buffers EXCEPT ![v] = q] /\ sent' = sent
    BY <1>3, <1>6
  <2>2. InOnePlace' /\ NoneLost'
    BY <1>1, <1>6, <1>k, <2>1, MovedIn
  <2>3. buffers' \in [DOMAIN buffers -> Seq(Found)] /\ DOMAIN buffers' = DOMAIN buffers
    BY <1>4, <1>6, <1>k, <2>1
  <2>4. ScanTypes'
    BY <1>1, <2>1, <2>3 DEF ScanTypes
  <2>5. ListSorted'
    BY <1>1 DEF ListSorted
  <2>q. QED BY <2>2, <2>4, <2>5
<1>7. CASE kept /\ Len(q) >= FlushThreshold
  <2>1. buffers' = [buffers EXCEPT ![v] = <<>>] /\ sent' = Send(q)
    BY <1>3, <1>7
  <2>2. Emptied(v)
    BY <2>1 DEF Emptied
  <2>3. /\ \A i \in DOMAIN buffers[v] : buffers[v][i] \in ToSet(q)
        /\ e.file \in ToSet(q)
        /\ \A f \in ToSet(q) : f = e.file \/ Buffered(f)
    <3> PICK b : b = buffers[v]
      OBVIOUS
    <3>1. b \in Seq(Found) /\ q = Append(b, e.file)
      BY <1>1, <1>4
    <3>2. /\ Len(b) \in Nat /\ DOMAIN b = 1 .. Len(b) /\ DOMAIN q = 1 .. Len(b) + 1
          /\ q[Len(b) + 1] = e.file /\ \A i \in DOMAIN b : q[i] = b[i]
      BY <1>2, <3>1
    <3>3. \A i \in DOMAIN q : i \in DOMAIN b \/ i = Len(b) + 1
      BY <3>2
    <3>q. QED BY <1>1, <3>2, <3>3 DEF ToSet, Buffered
  <2>4. \A d \in ahead' : d.file \notin ToSet(q)
    <3>1. ASSUME NEW d \in ahead' PROVE d.file \notin ToSet(q)
      <4>1. d \in ahead /\ d # e /\ d \in repo.entries
        BY <1>1 DEF ScanTypes
      <4>2. d.file # e.file
        BY <1>2, <4>1, EntryOwns DEF ScanTypes
      <4>3. ~Buffered(d.file)
        BY <4>1 DEF InOnePlace
      <4>q. QED BY <2>3, <4>2, <4>3
    <3>q. QED BY <3>1
  <2>5. ahead' \subseteq ahead /\ \A d \in ahead \ ahead' : d.file \in ToSet(q)
    BY <1>1, <2>3
  <2>6. sent' \in [Found -> Nat] /\ InOnePlace' /\ NoneLost'
    BY <1>1, <1>4, <1>7, <1>k, <2>1, <2>2, <2>3, <2>4, <2>5, Delivered
  <2>7. buffers' \in [DOMAIN buffers -> Seq(Found)] /\ DOMAIN buffers' = DOMAIN buffers
    <3> PICK S : S = Seq(Found)
      OBVIOUS
    <3>1. <<>> \in S
      OBVIOUS
    <3>2. buffers \in [DOMAIN buffers -> S]
      BY <1>4
    <3>q. QED BY ONLY <2>1, <3>1, <3>2, S = Seq(Found)
  <2>8. ScanTypes'
    BY <1>1, <2>6, <2>7 DEF ScanTypes
  <2>9. ListSorted'
    BY <1>1 DEF ListSorted
  <2>q. QED BY <2>6, <2>8, <2>9
<1>q. QED BY <1>5, <1>6, <1>7

\* A visitor ends when nothing is ahead: its tail is sent.
LEMMA DropInv ==
    ASSUME WalkInv, NEW v, DropVisitor(v)
    PROVE  WalkInv'
<1> USE DEF WalkInv
<1>1. /\ phase = "walk" /\ v \in DOMAIN buffers /\ ahead = {} /\ ahead' = ahead /\ sent' = Send(buffers[v])
      /\ world' = world /\ phase' = phase /\ repo' = repo /\ Found' = Found
      /\ buffers' = [u \in DOMAIN buffers \ {v} |-> buffers[u]]
  BY DEF DropVisitor, Restrict, repo, Found
<1>2. Batch(buffers[v], v) /\ buffers \in [DOMAIN buffers -> Seq(Found)]
  BY <1>1, TailBatch DEF ScanTypes
<1>3. Emptied(v)
  BY <1>1 DEF Emptied
<1>4. \A i \in DOMAIN buffers[v] : buffers[v][i] \in ToSet(buffers[v])
  BY DEF ToSet
<1>5. sent' \in [Found -> Nat] /\ InOnePlace' /\ NoneLost'
  BY <1>1, <1>2, <1>3, <1>4, Delivered
<1>6. ScanTypes'
  BY <1>1, <1>2, <1>5 DEF ScanTypes
<1>7. ListSorted'
  BY <1>1 DEF ListSorted
<1>q. QED BY <1>5, <1>6, <1>7

\* No step after the walk touches what the walk found.
LEMMA AfterWalk ==
    ASSUME WalkInv, UNCHANGED <<world, ahead, buffers, sent>>, phase' \in {"walk", "walked", "parsed", "done"}
    PROVE  ScanTypes' /\ InOnePlace' /\ NoneLost'
<1>1. repo' = repo /\ Found' = Found /\ Wanted' = Wanted /\ \A f : Buffered(f)' = Buffered(f)
  BY DEF repo, Found, Wanted, Buffered
<1>2. ScanTypes'
  BY <1>1 DEF WalkInv, ScanTypes
<1>3. InOnePlace'
  BY <1>1 DEF WalkInv, InOnePlace
<1>4. NoneLost'
  BY <1>1 DEF WalkInv, NoneLost
<1>q. QED BY <1>2, <1>3, <1>4

LEMMA ScanInductive == SsSpec => []WalkInv
<1>1. SsInit => WalkInv
  <2> SUFFICES ASSUME SsInit PROVE WalkInv
    OBVIOUS
  <2>1. /\ world \in DOMAIN Worlds /\ phase = "walk" /\ ahead = repo.entries
        /\ buffers = [v \in Visitors |-> <<>>] /\ sent = [f \in Found |-> 0]
    BY DEF SsInit, Found
  <2>2. \A f : ~Buffered(f)
    BY <2>1 DEF Buffered
  <2>3. ScanTypes
    BY <2>1 DEF ScanTypes
  <2>4. InOnePlace
    BY <2>1, <2>2 DEF InOnePlace, Found
  <2>5. NoneLost
    BY <2>1, <2>2 DEF NoneLost
  <2>6. ListSorted
    BY <2>1 DEF ListSorted
  <2>q. QED BY <2>3, <2>4, <2>5, <2>6 DEF WalkInv
<1>2. WalkInv /\ [SsNext]_ssVars => WalkInv'
  <2> SUFFICES ASSUME WalkInv, [SsNext]_ssVars PROVE WalkInv'
    OBVIOUS
  <2>1. ASSUME NEW v \in Visitors, NEW e \in ahead, Visit(v, e) PROVE WalkInv'
    BY <2>1, VisitInv
  <2>2. ASSUME NEW v \in Visitors, DropVisitor(v) PROVE WalkInv'
    BY <2>2, DropInv
  <2>3. CASE CollectWalk
    <3>1. /\ UNCHANGED <<world, ahead, buffers, sent>> /\ phase' = "walked" /\ DOMAIN buffers = {}
          /\ walked' = ByRelPath({f \in DOMAIN sent : sent[f] > 0})
      BY <2>3 DEF CollectWalk
    <3>2. ScanTypes' /\ InOnePlace' /\ NoneLost'
      BY <3>1, AfterWalk
    <3>3. ListSorted'
      BY <3>1 DEF ListSorted
    <3>q. QED BY <3>2, <3>3 DEF WalkInv
  <2>4. CASE HashAndParse
    <3>1. UNCHANGED <<world, ahead, buffers, sent, walked>> /\ phase' = "parsed" /\ phase = "walked"
      BY <2>4 DEF HashAndParse
    <3>2. ScanTypes' /\ InOnePlace' /\ NoneLost'
      BY <3>1, AfterWalk
    <3>3. OwnAnalysis'
      <4>1. PICK same \in repo.same, lost \in SUBSET repo.fragile :
                 LET fresh == SelectSeq(walked, LAMBDA f : f \notin same /\ (Parseable(f) => f \notin lost)) IN
                 /\ parsed' = fresh
                 /\ analyses' = [i \in DOMAIN fresh |-> Parse(DetectLanguage(fresh[i].ext), Content(fresh[i]))]
        BY <2>4 DEF HashAndParse
      <4>2. analyses' = [i \in DOMAIN parsed' |-> Parse(DetectLanguage(parsed'[i].ext), Content(parsed'[i]))]
        BY <4>1
      <4>3. \A f : Content(f)' = Content(f)
        BY <3>1 DEF Content, repo
      <4>q. QED BY <4>2, <4>3 DEF OwnAnalysis
    <3>4. ListSorted'
      BY <3>1, <3>3 DEF ListSorted, WalkInv
    <3>q. QED BY <3>2, <3>4 DEF WalkInv
  <2>5. CASE BuildEdges
    <3>1. UNCHANGED <<world, ahead, buffers, sent, walked, parsed, analyses>> /\ phase' = "done" /\ phase = "parsed"
      BY <2>5 DEF BuildEdges
    <3>2. ScanTypes' /\ InOnePlace' /\ NoneLost'
      BY <3>1, AfterWalk
    <3>3. OwnAnalysis
      BY <3>1 DEF WalkInv, ListSorted
    <3>4. OwnAnalysis'
      BY <3>1, <3>3 DEF OwnAnalysis, Content, repo
    <3>5. ListSorted'
      BY <3>1, <3>4 DEF ListSorted, WalkInv
    <3>q. QED BY <3>2, <3>5 DEF WalkInv
  <2>6. CASE UNCHANGED ssVars
    <3>1. UNCHANGED <<world, phase, ahead, buffers, sent, walked, parsed, analyses>>
      BY <2>6 DEF ssVars
    <3>2. ScanTypes' /\ InOnePlace' /\ NoneLost'
      BY <3>1, AfterWalk DEF WalkInv, ScanTypes
    <3>3. OwnAnalysis => OwnAnalysis'
      BY <3>1 DEF OwnAnalysis, Content, repo
    <3>4. ListSorted'
      BY <3>1, <3>3 DEF ListSorted, WalkInv
    <3>q. QED BY <3>2, <3>4 DEF WalkInv
  <2>q. QED BY <2>1, <2>2, <2>3, <2>4, <2>5, <2>6 DEF SsNext
<1>q. QED BY <1>1, <1>2, PTL DEF SsSpec

\* For any number of visitors, any repository and any flush threshold, however the
\* visitors interleave: the walk's list has every file it accepts, once and in order,
\* and each analysis is that of its own file (Walker::walk, hash_and_parse_parallel).
THEOREM ScanCorrect == SsSpec => []FilesCollected
<1>1. WalkInv => FilesCollected
  <2> SUFFICES ASSUME WalkInv PROVE FilesCollected
    OBVIOUS
  <2>1. ASSUME phase # "walk" PROVE WalkComplete
    <3> PICK S : S = {f \in DOMAIN sent : sent[f] > 0}
      OBVIOUS
    <3>1. /\ DOMAIN buffers = {} /\ walked = ByRelPath(S) /\ world \in DOMAIN Worlds
          /\ DOMAIN sent = Found /\ sent \in [Found -> Nat]
      BY <2>1 DEF WalkInv, ListSorted, ScanTypes
    <3>2. Lists(walked, S)
      BY <3>1, FoundSortable, SortLists
    <3>3. ahead = {}
      BY <3>1, ScanAssumption DEF WalkInv, ScanTypes
    <3>4. ASSUME NEW e \in repo.entries, Accepted(e), e.file \notin repo.fragile PROVE e.file \in ToSet(walked)
      <4>1. e.file \in Found /\ ~Buffered(e.file)
        BY <3>1 DEF Found, Buffered
      <4>2. sent[e.file] > 0
        BY <3>3, <3>4, <4>1 DEF WalkInv, NoneLost
      <4>q. QED BY <3>1, <3>2, <4>1, <4>2 DEF Lists
    <3>5. \A f \in DOMAIN sent : sent[f] <= 1
      BY <3>1 DEF WalkInv, InOnePlace
    <3>6. ToSet(walked) \subseteq Wanted
      BY <3>1, <3>2 DEF Lists, WalkInv, NoneLost
    <3>7. Wanted \ repo.fragile \subseteq ToSet(walked)
      BY <3>4 DEF Wanted
    <3>q. QED BY <3>2, <3>5, <3>6, <3>7 DEF WalkComplete, Lists, Wanted
  <2>q. QED BY <2>1 DEF FilesCollected, WalkInv, ListSorted
<1>q. QED BY <1>1, ScanInductive, PTL
-----------------------------------------------------------------------------
(* SandboxFloor: what a command has read, and whether it still is so.           *)

Settings == [form : {"object", "bad", "absent"}, deny : [TagKinds -> SUBSET (Inside \cup {"user"})]]
SbLocals == [pc : {"idle", "tag", "rules", "read", "write"},
             cmd : Commands \cup {[kind |-> "none"], [kind |-> "clear"]},
             todo : SUBSET Gotchas, rules : [TagKinds -> SUBSET Inside], copy : Settings,
             raced : BOOLEAN]
SbTypeOK ==
    /\ daemon \in BOOLEAN /\ lostUser \in BOOLEAN
    /\ gotchas \in [Gotchas -> GotchaSel]
    /\ local \in Settings
    /\ sb \in [FloorProcs -> SbLocals]

\* The user's entry goes only with an edit that a command overwrote.
UserInv == lostUser \/ "user" \in local.deny["write"]

\* The rules of a command that was not overtaken are those of the gotchas as
\* they are, or none for clear.
RulesInv ==
    \A p \in FloorProcs :
        /\ sb[p].pc \in {"tag", "rules"} => sb[p].cmd.kind # "clear"
        /\ sb[p].pc \in {"read", "write"} /\ ~sb[p].raced =>
              sb[p].rules = IF sb[p].cmd.kind = "clear" THEN NoRules ELSE ComputeRules(gotchas)

OwnedRules(s) == [k \in TagKinds |-> {e \in s.deny[k] : IsMatiOwned(e)}]
SyncInv == /\ synced = "rules" => OwnedRules(local) = ComputeRules(gotchas)
           /\ synced = "clear" => OwnedRules(local) = NoRules

SbInv == SbTypeOK /\ UserInv /\ RulesInv /\ SyncInv
-----------------------------------------------------------------------------

LEMMA RuleTypes ==
  ASSUME NEW gs
  PROVE  ComputeRules(gs) \in [TagKinds -> SUBSET Inside]
BY DEF ComputeRules, ResolveRules

LEMMA NoRuleTypes == NoRules \in [TagKinds -> SUBSET Inside]
BY DEF NoRules

LEMMA IdleTypes == Idle \in SbLocals /\ Idle.pc = "idle"
<1>1. [form |-> "absent", deny |-> NoRules] \in Settings
  BY DEF Settings, NoRules
<1> QED BY <1>1, NoRuleTypes DEF Idle, SbLocals

\* set_owned_array: what it writes is mati's own are exactly the rules, and the
\* entries of others stay.
LEMMA ApplyFacts ==
  ASSUME NEW s \in Settings, NEW r \in [TagKinds -> SUBSET Inside]
  PROVE  /\ ApplyInto(s, r) \in Settings
         /\ OwnedRules(ApplyInto(s, r)) = r
         /\ "user" \in s.deny["write"] => "user" \in ApplyInto(s, r).deny["write"]
<1> DEFINE d == [k \in TagKinds |-> SetOwnedArray(s.deny[k], r[k])]
<1>1. ApplyInto(s, r) = [form |-> "object", deny |-> d]
  BY DEF ApplyInto
<1>2. \A k \in TagKinds : s.deny[k] \subseteq Inside \cup {"user"} /\ r[k] \subseteq Inside
  BY DEF Settings
<1>3. \A k \in TagKinds : d[k] \subseteq Inside \cup {"user"} /\ {e \in d[k] : IsMatiOwned(e)} = r[k]
  BY <1>2 DEF SetOwnedArray, IsMatiOwned
<1>4. d \in [TagKinds -> SUBSET (Inside \cup {"user"})]
  BY <1>3
<1>5. ApplyInto(s, r) \in Settings
  BY <1>1, <1>4 DEF Settings
<1>6. OwnedRules(ApplyInto(s, r)) = r
  <2>1. OwnedRules(ApplyInto(s, r)) = [k \in TagKinds |-> {e \in d[k] : IsMatiOwned(e)}]
    BY <1>1 DEF OwnedRules
  <2>2. [k \in TagKinds |-> {e \in d[k] : IsMatiOwned(e)}] = [k \in TagKinds |-> r[k]]
    BY <1>3
  <2> QED BY <2>1, <2>2
<1>7. "user" \in s.deny["write"] => "user" \in ApplyInto(s, r).deny["write"]
  BY <1>1, SandboxAssumption DEF SetOwnedArray, IsMatiOwned, TagKinds
<1> QED BY <1>5, <1>6, <1>7

\* Another process's step changes nothing of a command but that it is overtaken.
LEMMA RaceTypes ==
  ASSUME NEW p, sb \in [FloorProcs -> SbLocals]
  PROVE  /\ Race(p) \in [FloorProcs -> SbLocals]
         /\ \A q \in FloorProcs : /\ Race(p)[q].pc = sb[q].pc /\ Race(p)[q].cmd = sb[q].cmd
                                  /\ Race(p)[q].rules = sb[q].rules
                                  /\ q # p /\ sb[q].pc # "idle" => Race(p)[q].raced
<1>1. \A q \in FloorProcs : sb[q] \in SbLocals /\ [sb[q] EXCEPT !.raced = TRUE] \in SbLocals
  BY DEF SbLocals
<1>2. \A q \in FloorProcs : Race(p)[q] \in SbLocals
  BY <1>1 DEF Race
<1>3. Race(p) \in [FloorProcs -> SbLocals]
  BY <1>2 DEF Race
<1>4. ASSUME NEW q \in FloorProcs
      PROVE  /\ Race(p)[q].pc = sb[q].pc /\ Race(p)[q].cmd = sb[q].cmd
             /\ Race(p)[q].rules = sb[q].rules
             /\ q # p /\ sb[q].pc # "idle" => Race(p)[q].raced
  BY <1>1 DEF Race, Busy, SbLocals
<1> QED BY <1>3, <1>4

LEMMA SbInitInv == SbInit => SbInv
<1> SUFFICES ASSUME SbInit PROVE SbInv
    OBVIOUS
<1>1. [NoRules EXCEPT !["write"] = {"user"}] \in [TagKinds -> SUBSET (Inside \cup {"user"})]
  BY DEF NoRules, TagKinds
<1>2. local \in Settings /\ "user" \in local.deny["write"]
  BY <1>1 DEF SbInit, Settings, NoRules, TagKinds
<1>3. gotchas \in [Gotchas -> GotchaSel]
  <2>1. \A r \in [tags : {{}}, live : {TRUE}, confirmed : {TRUE}, files : FileSets] : r \in GotchaSel
    BY DEF GotchaSel
  <2> QED BY <2>1 DEF SbInit
<1>4. SbTypeOK
  BY <1>2, <1>3, IdleTypes, SandboxAssumption DEF SbInit, SbTypeOK
<1>5. UserInv /\ RulesInv /\ SyncInv
  BY <1>2, IdleTypes DEF SbInit, UserInv, RulesInv, SyncInv
<1> QED BY <1>4, <1>5 DEF SbInv

\* The part of the invariant about one process.
RulesOf(r) ==
    /\ r.pc \in {"tag", "rules"} => r.cmd.kind # "clear"
    /\ r.pc \in {"read", "write"} /\ ~r.raced =>
          r.rules = IF r.cmd.kind = "clear" THEN NoRules ELSE ComputeRules(gotchas)

\* A process that is reset, or whose rules and kind stay while it moves on.
LEMMA OneProcess ==
  ASSUME SbInv, NEW p \in FloorProcs, NEW r \in SbLocals, sb' = [sb EXCEPT ![p] = r],
         gotchas' = gotchas, RulesOf(r)
  PROVE  sb' \in [FloorProcs -> SbLocals] /\ RulesInv'
<1>1. sb' \in [FloorProcs -> SbLocals]
  BY DEF SbInv, SbTypeOK
<1>2. ComputeRules(gotchas)' = ComputeRules(gotchas)
  OBVIOUS
<1>3. ASSUME NEW q \in FloorProcs
      PROVE  /\ sb'[q].pc \in {"tag", "rules"} => sb'[q].cmd.kind # "clear"
             /\ sb'[q].pc \in {"read", "write"} /\ ~sb'[q].raced =>
                   sb'[q].rules = IF sb'[q].cmd.kind = "clear" THEN NoRules ELSE ComputeRules(gotchas)
  <2>1. CASE q = p
    BY <2>1 DEF SbInv, SbTypeOK, RulesOf
  <2>2. CASE q # p
    BY <2>2 DEF SbInv, SbTypeOK, RulesInv
  <2> QED BY <2>1, <2>2
<1> QED BY <1>1, <1>2, <1>3 DEF RulesInv

\* Everybody else is overtaken.
LEMMA Overtaken ==
  ASSUME SbInv, NEW p, NEW r \in SbLocals, sb' = [Race(p) EXCEPT ![p] = r],
         p \in FloorProcs => r.pc = "idle" \/ (r.pc \in {"tag", "rules"} /\ r.cmd.kind # "clear")
  PROVE  sb' \in [FloorProcs -> SbLocals] /\ RulesInv'
<1>1. /\ Race(p) \in [FloorProcs -> SbLocals]
      /\ \A q \in FloorProcs : /\ Race(p)[q].pc = sb[q].pc /\ Race(p)[q].cmd = sb[q].cmd
                               /\ q # p /\ sb[q].pc # "idle" => Race(p)[q].raced
  BY RaceTypes DEF SbInv, SbTypeOK
<1>2. sb' \in [FloorProcs -> SbLocals]
  BY <1>1
<1>3. ASSUME NEW q \in FloorProcs
      PROVE  /\ sb'[q].pc \in {"tag", "rules"} => sb'[q].cmd.kind # "clear"
             /\ ~(sb'[q].pc \in {"read", "write"} /\ ~sb'[q].raced)
  <2>1. CASE q = p
    BY <1>1, <2>1
  <2>2. CASE q # p
    BY <1>1, <2>2 DEF SbInv, RulesInv
  <2> QED BY <2>1, <2>2
<1> QED BY <1>2, <1>3 DEF RulesInv

LEMMA SbCommandStep ==
  ASSUME SbInv, NEW p \in FloorProcs,
         \/ \E c \in Commands : Start(p, c)
         \/ StartClear(p) \/ ComputeStep(p) \/ ReadSettings(p) \/ Kill(p)
  PROVE  SbInv'
<1> DEFINE same == UNCHANGED <<daemon, gotchas, local, synced, promised, lostUser>>
<1>t. sb[p] \in SbLocals /\ sb \in [FloorProcs -> SbLocals] /\ local \in Settings
  BY DEF SbInv, SbTypeOK
<1>s. ASSUME same, NEW r \in SbLocals, sb' = [sb EXCEPT ![p] = r], RulesOf(r)
      PROVE  SbInv'
  <2>1. sb' \in [FloorProcs -> SbLocals] /\ RulesInv'
    BY <1>s, OneProcess
  <2>2. SbTypeOK' /\ UserInv' /\ SyncInv'
    BY <1>s, <2>1 DEF SbInv, SbTypeOK, UserInv, SyncInv, OwnedRules
  <2> QED BY <2>1, <2>2 DEF SbInv
<1>1. ASSUME NEW c \in Commands, Start(p, c) PROVE SbInv'
  <2> DEFINE r == [Idle EXCEPT !.cmd = c,
                      !.pc = IF c.kind = "compile" THEN "rules" ELSE "tag",
                      !.todo = IF c.kind \in {"protect", "unprotect"} THEN Matched(c.file) ELSE {}]
  <2>1. r \in SbLocals
    <3>1. Idle \in SbLocals /\ Matched(c.file) \in SUBSET Gotchas
      BY IdleTypes DEF Matched
    <3> QED BY <3>1 DEF SbLocals
  <2>2. c.kind # "clear" /\ r.cmd = c /\ r.pc \in {"rules", "tag"}
    BY IdleTypes DEF Commands, SbLocals
  <2> QED BY <1>1, <1>s, <2>1, <2>2 DEF Start, RulesOf
<1>2. CASE StartClear(p)
  <2> DEFINE r == [Idle EXCEPT !.cmd = [kind |-> "clear"], !.pc = "read"]
  <2>1. r \in SbLocals /\ r.pc = "read" /\ r.cmd.kind = "clear" /\ r.rules = NoRules
    BY IdleTypes DEF SbLocals, Idle
  <2>2. RulesOf(r)
    BY <2>1 DEF RulesOf
  <2> HIDE DEF r
  <2>3. sb' = [sb EXCEPT ![p] = r]
    BY <1>2 DEF StartClear, r
  <2> QED BY <1>2, <1>s, <2>1, <2>2, <2>3 DEF StartClear
<1>3. CASE ComputeStep(p)
  <2> DEFINE r == [sb[p] EXCEPT !.pc = "read", !.rules = ComputeRules(gotchas), !.raced = FALSE]
  <2>1. sb' = [sb EXCEPT ![p] = r]
    BY <1>3, <1>t DEF ComputeStep
  <2>2. r \in SbLocals /\ r.pc = "read" /\ r.rules = ComputeRules(gotchas) /\ r.cmd = sb[p].cmd
    BY <1>t, RuleTypes DEF SbLocals
  <2>3. r.cmd.kind # "clear"
    BY <1>3, <2>2 DEF ComputeStep, SbInv, RulesInv
  <2> QED BY <1>3, <1>s, <2>1, <2>2, <2>3 DEF ComputeStep, RulesOf
<1>4. CASE ReadSettings(p)
  <2> DEFINE r == [sb[p] EXCEPT !.pc = "write", !.copy = local]
  <2>1. CASE Refuses(p)
    BY <1>4, <1>s, <2>1, IdleTypes DEF ReadSettings, RulesOf
  <2>2. CASE ~Refuses(p)
    <3>1. sb' = [sb EXCEPT ![p] = r]
      BY <1>4, <1>t, <2>2 DEF ReadSettings
    <3>2. r \in SbLocals /\ r.pc = "write" /\ r.rules = sb[p].rules /\ r.cmd = sb[p].cmd
          /\ r.raced = sb[p].raced
      BY <1>t DEF SbLocals
    <3>3. RulesOf(r)
      BY <1>4, <3>2 DEF ReadSettings, SbInv, RulesInv, RulesOf
    <3> QED BY <1>4, <1>s, <3>1, <3>2, <3>3 DEF ReadSettings
  <2> QED BY <2>1, <2>2
<1>5. CASE Kill(p)
  BY <1>5, <1>s, IdleTypes DEF Kill, RulesOf
<1> QED BY <1>1, <1>2, <1>3, <1>4, <1>5

LEMMA SbTagStep ==
  ASSUME SbInv, NEW p \in FloorProcs, Tag(p)
  PROVE  SbInv'
<1> PICK g \in sb[p].todo :
        LET r == [gotchas[g] EXCEPT !.tags = Retag(@, sb[p].cmd)] IN
        /\ gotchas' = [gotchas EXCEPT ![g] =
                          IF daemon THEN [r EXCEPT !.live = TRUE, !.confirmed = FALSE] ELSE r]
        /\ sb' = [Race(p) EXCEPT ![p].todo = @ \ {g},
                                 ![p].pc = IF sb[p].todo = {g} THEN "rules" ELSE "tag"]
  BY DEF Tag
<1> DEFINE old == Race(p)[p]
           l == [old EXCEPT !.todo = @ \ {g}, !.pc = IF sb[p].todo = {g} THEN "rules" ELSE "tag"]
           r == [gotchas[g] EXCEPT !.tags = Retag(@, sb[p].cmd)]
<1>1. sb \in [FloorProcs -> SbLocals] /\ sb[p] \in SbLocals /\ g \in Gotchas /\ gotchas[g] \in GotchaSel
  <2>1. sb \in [FloorProcs -> SbLocals] /\ sb[p] \in SbLocals
    BY DEF SbInv, SbTypeOK
  <2>2. sb[p].todo \subseteq Gotchas
    BY <2>1 DEF SbLocals
  <2> QED BY <2>1, <2>2 DEF SbInv, SbTypeOK
<1>2. Race(p) \in [FloorProcs -> SbLocals] /\ old \in SbLocals /\ old.cmd = sb[p].cmd
  BY <1>1, RaceTypes
<1>3. l \in SbLocals /\ l.pc \in {"rules", "tag"} /\ l.cmd = sb[p].cmd
  BY <1>2 DEF SbLocals
<1>4. sb' = [Race(p) EXCEPT ![p] = l]
  BY <1>2
<1>5. sb[p].cmd.kind # "clear"
  BY DEF Tag, SbInv, RulesInv
<1>6. sb' \in [FloorProcs -> SbLocals] /\ RulesInv'
  <2> HIDE DEF l
  <2>1. l.pc \in {"tag", "rules"} /\ l.cmd.kind # "clear"
    BY <1>3, <1>5
  <2> QED BY <1>3, <1>4, <2>1, Overtaken
<1>7. r \in GotchaSel /\ [r EXCEPT !.live = TRUE, !.confirmed = FALSE] \in GotchaSel
  <2>1. Retag(gotchas[g].tags, sb[p].cmd) \in SUBSET TagKinds
    BY <1>1 DEF Retag, GotchaSel, TagKinds
  <2>2. r \in GotchaSel
    BY <1>1, <2>1 DEF GotchaSel
  <2> QED BY <2>2 DEF GotchaSel
<1>8. gotchas' \in [Gotchas -> GotchaSel]
  BY <1>7 DEF SbInv, SbTypeOK
<1>9. SbTypeOK' /\ UserInv' /\ SyncInv'
  BY <1>6, <1>8 DEF Tag, SbInv, SbTypeOK, UserInv, SyncInv
<1> QED BY <1>6, <1>9 DEF SbInv

LEMMA SbWriteStep ==
  ASSUME SbInv, NEW p \in FloorProcs, WriteSettings(p)
  PROVE  SbInv'
<1>1. sb \in [FloorProcs -> SbLocals] /\ sb[p] \in SbLocals /\ sb[p].copy \in Settings
      /\ sb[p].rules \in [TagKinds -> SUBSET Inside]
  BY DEF SbInv, SbTypeOK, SbLocals
<1>2. /\ local' \in Settings /\ OwnedRules(local') = sb[p].rules
      /\ "user" \in sb[p].copy.deny["write"] => "user" \in local'.deny["write"]
  BY <1>1, ApplyFacts DEF WriteSettings
<1>3. sb' \in [FloorProcs -> SbLocals] /\ RulesInv'
  BY IdleTypes, Overtaken DEF WriteSettings
<1>4. SbTypeOK'
  BY <1>1, <1>2, <1>3 DEF WriteSettings, SbInv, SbTypeOK
<1>5. UserInv'
  BY <1>2 DEF WriteSettings, SbInv, UserInv, SbTypeOK
<1>6. SyncInv'
  <2>1. OwnedRules(local)' = sb[p].rules /\ ComputeRules(gotchas)' = ComputeRules(gotchas)
    BY <1>2 DEF WriteSettings, OwnedRules
  <2>2. ~sb[p].raced =>
           sb[p].rules = IF sb[p].cmd.kind = "clear" THEN NoRules ELSE ComputeRules(gotchas)
    BY DEF WriteSettings, SbInv, RulesInv
  <2>3. /\ synced' = "rules" => ~sb[p].raced /\ sb[p].cmd.kind # "clear"
        /\ synced' = "clear" => ~sb[p].raced /\ sb[p].cmd.kind = "clear"
    <3>1. CASE sb[p].raced
      BY <3>1 DEF WriteSettings
    <3>2. CASE ~sb[p].raced /\ sb[p].cmd.kind = "clear"
      BY <3>2 DEF WriteSettings
    <3>3. CASE ~sb[p].raced /\ sb[p].cmd.kind # "clear"
      BY <3>3 DEF WriteSettings
    <3> QED BY <3>1, <3>2, <3>3
  <2> QED BY <2>1, <2>2, <2>3 DEF SyncInv
<1> QED BY <1>3, <1>4, <1>5, <1>6 DEF SbInv

\* What happens beside the commands.
LEMMA SbOthersStep ==
  ASSUME SbInv,
         \/ \E g \in Gotchas : \/ GotchaChanges(g, [gotchas[g] EXCEPT !.confirmed = ~@])
                               \/ GotchaChanges(g, [gotchas[g] EXCEPT !.live = FALSE])
         \/ UserEdits([local EXCEPT !.form = IF @ = "bad" THEN "object" ELSE "bad"])
         \/ \E k \in TagKinds, e \in Inside : local.form = "object" /\
                               UserEdits([local EXCEPT !.deny[k] = @ \ {e}])
  PROVE  SbInv'
<1>r. sb' = Race("none") => sb' \in [FloorProcs -> SbLocals] /\ RulesInv'
  <2> SUFFICES ASSUME sb' = Race("none") PROVE sb' \in [FloorProcs -> SbLocals] /\ RulesInv'
    OBVIOUS
  <2>1. /\ sb' \in [FloorProcs -> SbLocals]
        /\ \A q \in FloorProcs : /\ sb'[q].pc = sb[q].pc /\ sb'[q].cmd = sb[q].cmd
                                 /\ sb[q].pc # "idle" => sb'[q].raced
    BY RaceTypes, SandboxAssumption DEF SbInv, SbTypeOK
  <2> QED BY <2>1 DEF SbInv, RulesInv
<1>g. ASSUME NEW g \in Gotchas, NEW r \in GotchaSel, GotchaChanges(g, r) PROVE SbInv'
  <2>1. gotchas' \in [Gotchas -> GotchaSel]
    BY <1>g DEF GotchaChanges, SbInv, SbTypeOK
  <2>2. SbTypeOK' /\ UserInv' /\ SyncInv'
    BY <1>r, <1>g, <2>1 DEF GotchaChanges, SbInv, SbTypeOK, UserInv, SyncInv
  <2> QED BY <1>r, <1>g, <2>2 DEF GotchaChanges, SbInv
<1>u. ASSUME NEW s \in Settings, UserEdits(s) PROVE SbInv'
  <2>1. SbTypeOK' /\ UserInv' /\ SyncInv'
    BY <1>r, <1>u DEF UserEdits, SbInv, SbTypeOK, UserInv, SyncInv
  <2> QED BY <1>r, <1>u, <2>1 DEF UserEdits, SbInv
<1>1. ASSUME NEW g \in Gotchas
      PROVE  /\ [gotchas[g] EXCEPT !.confirmed = ~@] \in GotchaSel
             /\ [gotchas[g] EXCEPT !.live = FALSE] \in GotchaSel
  <2>1. gotchas[g] \in GotchaSel
    BY DEF SbInv, SbTypeOK
  <2> QED BY <2>1 DEF GotchaSel
<1>2. [local EXCEPT !.form = IF @ = "bad" THEN "object" ELSE "bad"] \in Settings
  BY DEF SbInv, SbTypeOK, Settings
<1>3. ASSUME NEW k \in TagKinds, NEW e \in Inside
      PROVE  [local EXCEPT !.deny[k] = @ \ {e}] \in Settings
  <2>1. local \in Settings /\ local.deny \in [TagKinds -> SUBSET (Inside \cup {"user"})]
    BY DEF SbInv, SbTypeOK, Settings
  <2>2. [local.deny EXCEPT ![k] = @ \ {e}] \in [TagKinds -> SUBSET (Inside \cup {"user"})]
    BY <2>1
  <2> QED BY <2>1, <2>2 DEF Settings
<1> QED BY <1>g, <1>u, <1>1, <1>2, <1>3

LEMMA SbNextInv == SbInv /\ [SbNext]_sbVars => SbInv'
<1> SUFFICES ASSUME SbInv, [SbNext]_sbVars PROVE SbInv'
    OBVIOUS
<1>1. CASE UNCHANGED sbVars
  <2>1. SbTypeOK' /\ UserInv' /\ RulesInv'
    BY <1>1 DEF sbVars, SbInv, SbTypeOK, UserInv, RulesInv
  <2>2. SyncInv'
    BY <1>1 DEF sbVars, SbInv, SyncInv, OwnedRules
  <2> QED BY <2>1, <2>2 DEF SbInv
<1>2. ASSUME NEW p \in FloorProcs,
             \/ \E c \in Commands : Start(p, c)
             \/ StartClear(p) \/ Tag(p) \/ ComputeStep(p) \/ ReadSettings(p)
             \/ WriteSettings(p) \/ Kill(p)
      PROVE  SbInv'
  BY <1>2, SbCommandStep, SbTagStep, SbWriteStep
<1> QED BY <1>1, <1>2, SbOthersStep DEF SbNext

\* The rules on disk are those of the confirmed gotchas after every command
\* that no change fell into, and the user's denies outlive them, for any number
\* of commands at once (compute_rules, set_owned_array, write_settings_atomic).
THEOREM FloorCorrect == SbSpec => []FloorExact
<1>1. SbInv => FloorExact
  BY DEF SbInv, UserInv, SyncInv, OwnedRules, FloorExact
<1> QED BY <1>1, SbInitInv, SbNextInv, PTL DEF SbSpec
-----------------------------------------------------------------------------
(* Scaffold: what an installation has still to write, and what it has written.  *)

CmdNames == Scripts("claude") \cup Scripts("codex") \cup {"user"}
EventNames == {Events["claude"][s] : s \in Scripts("claude")} \cup {Events["codex"][s] : s \in Scripts("codex")}
EntryRecs == [event : EventNames, cmds : SUBSET CmdNames]
CfgRecs == [form : {"absent", "object", "other", "broken"}, entries : SUBSET EntryRecs,
            servers : SUBSET {"mati", "user"}, rest : BOOLEAN, odd : SUBSET {"hooks", "servers", "rest"}]
ScriptRecs == [text : {"absent", "current", "other"}, exec : BOOLEAN]
NotesRecs == {n \in [there : BOOLEAN, before : BOOLEAN, block : {"none", "open", "old", "current"}, after : BOOLEAN] :
                  ~n.there => ~n.before /\ ~n.after}
StepNames(h) == (IF h = "claude" THEN {"notes"} ELSE {}) \cup CfgFiles(h) \cup Scripts(h)
InstRecs == [pc : {"none", "next", "read", "backup", "write"}, queue : Seq(Hosts), host : Hosts \cup {"none"},
             left : Seq(StepNames("claude") \cup StepNames("codex")), copy : CfgRecs,
             seen : NotesRecs, saved : BOOLEAN, touched : BOOLEAN]

ScTypeOK ==
    /\ dirs \subseteq Hosts /\ done \subseteq Hosts
    /\ cfg \in [AllCfg -> CfgRecs] /\ bak \in [AllCfg -> CfgRecs]
    /\ scripts = [h \in Hosts |-> scripts[h]]
    /\ \A h \in Hosts : scripts[h] \in [Scripts(h) -> ScriptRecs]
    /\ notes \in NotesRecs
    /\ inst \in InstRecs

\* A file of a host as an installation leaves it.
Installed(h, x) ==
    /\ x \in Scripts(h) => scripts[h][x].text # "absent" /\ scripts[h][x].exec
    /\ x = "settings" =>
          \/ cfg[x].form = "other"
          \/ /\ cfg[x].form \notin {"absent", "broken"}
             /\ \A s \in Scripts("claude") : Mentions(cfg[x], s)
             /\ "mati" \in cfg[x].servers /\ "servers" \notin cfg[x].odd
    /\ x = "hooks" => cfg[x].form \notin {"absent", "broken"} /\ \A s \in Scripts("codex") : Mentions(cfg[x], s)
    /\ x = "config" => cfg[x].form # "absent" /\ "mati" \in cfg[x].servers /\ "servers" \notin cfg[x].odd

Running == inst.pc \in {"read", "backup", "write"}

\* An installer has written every file it does not have before it, unless the
\* user has had a hand in; a host counts as installed when all are written. What
\* an installer takes to be backed up is.
ProgressInv ==
    /\ Running => /\ inst.host \in Hosts \ done
                  /\ Range(inst.left) \subseteq StepNames(inst.host)
                  /\ inst.touched \/ \A x \in StepNames(inst.host) \ Range(inst.left) : Installed(inst.host, x)
    /\ inst.pc \in {"backup", "write"} =>
          /\ inst.left # <<>>
          /\ Head(inst.left) \in AllCfg => ~MergeRefuses(Head(inst.left), inst.copy)
    /\ inst.pc = "backup" => Head(inst.left) \in AllCfg
    /\ inst.saved => inst.pc = "write" /\ bak[Head(inst.left)] = inst.copy
    /\ \A h \in done : \A x \in StepNames(h) : Installed(h, x)

ScInv == ScTypeOK /\ ProgressInv /\ UserKept
-----------------------------------------------------------------------------

LEMMA HostFacts ==
  /\ \A f \in AllCfg : HostOf(f) \in Hosts /\ f \in CfgFiles(HostOf(f))
  /\ \A h \in Hosts : CfgFiles(h) \subseteq AllCfg /\ \A f \in CfgFiles(h) : HostOf(f) = h
  /\ AllCfg = {"settings", "mcp", "hooks", "config"}
<1>1. \A f \in AllCfg : HostOf(f) \in Hosts /\ f \in CfgFiles(HostOf(f))
  <2> SUFFICES ASSUME NEW f \in AllCfg PROVE \E h \in Hosts : f \in CfgFiles(h)
      BY DEF HostOf
  <2> QED BY DEF AllCfg, Hosts
<1>2. \A h, g \in Hosts : \A f : f \in CfgFiles(h) /\ f \in CfgFiles(g) => h = g
  BY DEF CfgFiles, Hosts
<1>3. \A h \in Hosts : CfgFiles(h) \subseteq AllCfg
  BY DEF AllCfg, Hosts
<1>4. AllCfg = {"settings", "mcp", "hooks", "config"}
  BY DEF AllCfg, CfgFiles
<1> QED BY <1>1, <1>2, <1>3, <1>4

LEMMA ScriptFacts ==
  ASSUME NEW h \in Hosts
  PROVE  /\ IsFiniteSet(Scripts(h)) /\ "user" \notin Scripts(h) /\ "notes" \notin Scripts(h)
         /\ \A s \in Scripts(h) : s \notin AllCfg
         /\ Scripts(h) \subseteq CmdNames
         /\ \A s \in Scripts(h) : Events[h][s] \in EventNames
<1>1. IsFiniteSet(Scripts(h)) /\ Scripts(h) \cap {"notes", "settings", "mcp", "hooks", "config", "user"} = {}
  BY ScaffoldAssumption DEF Scripts
<1>2. Scripts(h) \subseteq CmdNames /\ \A s \in Scripts(h) : Events[h][s] \in EventNames
  BY DEF CmdNames, EventNames, Hosts
<1> QED BY <1>1, <1>2, HostFacts

\* The scripts are written one after the other, each of them.
LEMMA OrderFacts == ASSUME NEW h \in Hosts PROVE Order(h) \in Seq(Scripts(h)) /\ Range(Order(h)) = Scripts(h)
<1> DEFINE n == Cardinality(Scripts(h))
           P(q) == \A i, j \in DOMAIN q : q[i] = q[j] => i = j
<1>1. n \in Nat /\ ExistsBijection(1..n, Scripts(h)) /\ IsFiniteSet(Scripts(h))
  BY ScriptFacts, FS_CardinalityType
<1>2. \E q \in [1..n -> Scripts(h)] : P(q)
  BY <1>1 DEF ExistsBijection, Bijection, Injection, IsInjective
<1>3. Order(h) \in [1..n -> Scripts(h)] /\ P(Order(h))
  BY <1>2 DEF Order
<1>4. Order(h) \in Injection(1..n, Scripts(h))
  BY <1>3 DEF Injection, IsInjective
<1>5. Cardinality(1..n) = n /\ IsFiniteSet(1..n)
  BY <1>1, FS_Interval
<1>6. Order(h) \in Surjection(1..n, Scripts(h))
  BY <1>1, <1>4, <1>5, FS_Injection
<1>7. Order(h) \in Seq(Scripts(h)) /\ Len(Order(h)) = n
  BY <1>1, <1>3
<1> QED BY <1>6, <1>7 DEF Surjection, Range

LEMMA StepsFacts == ASSUME NEW h \in Hosts
                    PROVE  /\ Steps(h) \in Seq(StepNames("claude") \cup StepNames("codex"))
                           /\ Range(Steps(h)) = StepNames(h)
<1> DEFINE first == IF h = "claude" THEN <<"notes", "settings", "mcp">> ELSE <<"hooks", "config">>
           names == StepNames("claude") \cup StepNames("codex")
<1>1. first \in Seq(StepNames(h)) /\ Range(first) = StepNames(h) \ Scripts(h)
  <2>1. CASE h = "claude"
    <3>1. Range(<<"notes", "settings", "mcp">>) = {"notes", "settings", "mcp"}
      BY DEF Range
    <3>2. {"notes", "settings", "mcp"} = StepNames(h) \ Scripts(h)
      BY <2>1, ScriptFacts, HostFacts DEF StepNames, CfgFiles
    <3> QED BY <2>1, <3>1, <3>2
  <2>2. CASE h = "codex"
    <3>1. Range(<<"hooks", "config">>) = {"hooks", "config"}
      BY DEF Range
    <3>2. {"hooks", "config"} = StepNames(h) \ Scripts(h)
      BY <2>2, ScriptFacts, HostFacts DEF StepNames, CfgFiles
    <3> QED BY <2>2, <3>1, <3>2
  <2> QED BY <2>1, <2>2 DEF Hosts
<1>2. Order(h) \in Seq(StepNames(h)) /\ Range(Order(h)) = Scripts(h) /\ Scripts(h) \subseteq StepNames(h)
  BY OrderFacts, SeqMonotonic DEF StepNames
<1>3. Steps(h) = first \o Order(h)
  BY DEF Steps
<1> HIDE DEF first
<1>4. Steps(h) \in Seq(StepNames(h)) /\ Range(Steps(h)) = Range(first) \cup Range(Order(h))
  BY <1>1, <1>2, <1>3, RangeConcatenation
<1>5. StepNames(h) \subseteq names
  BY DEF Hosts
<1> QED BY <1>1, <1>2, <1>4, <1>5, SeqMonotonic

LEMMA RangeTail ==
  ASSUME NEW S, NEW q \in Seq(S), q # <<>>
  PROVE  Tail(q) \in Seq(S) /\ Head(q) \in S /\ Range(q) = {Head(q)} \cup Range(Tail(q))
<1>1. Range(q) = {q[i] : i \in 1..Len(q)} /\ Range(Tail(q)) = {Tail(q)[i] : i \in 1..Len(Tail(q))}
      /\ Tail(q) \in Seq(S) /\ Head(q) \in S
  BY HeadTailProperties, RangeEquality
<1>2. Len(q) \in Nat /\ Len(q) >= 1 /\ Len(Tail(q)) = Len(q) - 1 /\ Head(q) = q[1]
      /\ \A i \in 1..Len(Tail(q)) : Tail(q)[i] = q[i + 1]
  OBVIOUS
<1>3. \A i \in 1..Len(q) : q[i] = Head(q) \/ (i - 1 \in 1..Len(Tail(q)) /\ q[i] = Tail(q)[i - 1])
  BY <1>2
<1>4. \A i \in 1..Len(Tail(q)) : i + 1 \in 1..Len(q)
  BY <1>2
<1>5. ASSUME NEW x \in Range(q) PROVE x \in {Head(q)} \cup Range(Tail(q))
  <2>1. PICK i \in 1..Len(q) : x = q[i]
    BY <1>1
  <2> QED BY <1>1, <1>3, <2>1
<1>6. Head(q) \in Range(q)
  BY <1>1, <1>2
<1>7. ASSUME NEW x \in Range(Tail(q)) PROVE x \in Range(q)
  <2>1. PICK i \in 1..Len(Tail(q)) : x = Tail(q)[i]
    BY <1>1
  <2> QED BY <1>1, <1>2, <1>4, <2>1
<1> QED BY <1>1, <1>5, <1>6, <1>7

\* merge_hooks registers every script and leaves the user's entries.
LEMMA MergeHooksFacts ==
  ASSUME NEW h \in Hosts, NEW c \in CfgRecs
  PROVE  /\ MergeHooks(h, c) \in CfgRecs
         /\ MergeHooks(h, c).form = c.form /\ MergeHooks(h, c).servers = c.servers
         /\ MergeHooks(h, c).rest = c.rest /\ MergeHooks(h, c).odd = c.odd \ {"hooks"}
         /\ \A s \in Scripts(h) : Mentions(MergeHooks(h, c), s)
         /\ "hooks" \notin c.odd => \A e \in c.entries : e.cmds = {"user"} => e \in MergeHooks(h, c).entries
<1> DEFINE entries == MatiEntries(h) \cup
                          IF "hooks" \in c.odd THEN {}
                          ELSE {e \in c.entries : e.cmds \cap OwnedAt(h, e.event) = {}}
<1>1. MatiEntries(h) \subseteq EntryRecs
  <2> SUFFICES ASSUME NEW s \in Scripts(h) PROVE Entry(Events[h][s], {s}) \in EntryRecs
      BY DEF MatiEntries
  <2> QED BY ScriptFacts DEF Entry, EntryRecs
<1>2. entries \in SUBSET EntryRecs
  BY <1>1 DEF CfgRecs
<1>3. \A s \in Scripts(h) : \E e \in entries : s \in e.cmds
  <2> SUFFICES ASSUME NEW s \in Scripts(h) PROVE \E e \in MatiEntries(h) : s \in e.cmds
      OBVIOUS
  <2>1. Entry(Events[h][s], {s}) \in MatiEntries(h) /\ s \in Entry(Events[h][s], {s}).cmds
    BY DEF MatiEntries, Entry
  <2> QED BY <2>1
<1>4. "hooks" \notin c.odd => \A e \in c.entries : e.cmds = {"user"} => e \in entries
  BY ScriptFacts DEF OwnedAt
<1>5. MergeHooks(h, c) = [c EXCEPT !.entries = entries, !.odd = c.odd \ {"hooks"}]
  BY DEF MergeHooks
<1> HIDE DEF entries
<1>6. MergeHooks(h, c) \in CfgRecs /\ MergeHooks(h, c).entries = entries
      /\ MergeHooks(h, c).form = c.form /\ MergeHooks(h, c).servers = c.servers
      /\ MergeHooks(h, c).rest = c.rest /\ MergeHooks(h, c).odd = c.odd \ {"hooks"}
  <2>1. c.odd \ {"hooks"} \in SUBSET {"hooks", "servers", "rest"}
    BY DEF CfgRecs
  <2> DEFINE o == c.odd \ {"hooks"}
  <2> HIDE DEF o
  <2>2. MergeHooks(h, c) = [c EXCEPT !.entries = entries, !.odd = o] /\ o \in SUBSET {"hooks", "servers", "rest"}
    BY <1>5, <2>1 DEF o
  <2>3. MergeHooks(h, c) \in CfgRecs
    BY <1>2, <2>2 DEF CfgRecs
  <2> QED BY <2>2, <2>3 DEF CfgRecs, o
<1> QED BY <1>3, <1>4, <1>6 DEF Mentions

LEMMA MergeServerFacts ==
  ASSUME NEW c \in CfgRecs
  PROVE  /\ MergeServer(c) \in CfgRecs
         /\ MergeServer(c).form = c.form /\ MergeServer(c).entries = c.entries
         /\ MergeServer(c).rest = c.rest /\ MergeServer(c).odd = c.odd \ {"servers"}
         /\ "mati" \in MergeServer(c).servers
         /\ "servers" \notin c.odd => c.servers \subseteq MergeServer(c).servers
<1> DEFINE servers == (IF "servers" \in c.odd THEN {} ELSE c.servers) \cup {"mati"}
<1>1. MergeServer(c) = [c EXCEPT !.servers = servers, !.odd = c.odd \ {"servers"}]
  BY DEF MergeServer
<1>2. servers \in SUBSET {"mati", "user"} /\ "mati" \in servers /\ ("servers" \notin c.odd => c.servers \subseteq servers)
  BY DEF CfgRecs
<1> HIDE DEF servers
<1> QED BY <1>1, <1>2 DEF CfgRecs

LEMMA EmptyFacts == Empty \in CfgRecs /\ Empty.form = "object" /\ Missing \in CfgRecs /\ Missing.form = "absent"
BY DEF Empty, Missing, CfgRecs

\* What a merge leaves of what it read.
MergeKeeps(f, c) ==
    LET m == Merged(f, c) IN
    c.form = "object" \/ (f = "settings" /\ c.form = "other") =>
        /\ m.form = c.form /\ ("rest" \notin c.odd \/ f # "config" => m.rest = c.rest)
        /\ "servers" \notin c.odd => c.servers \subseteq m.servers
        /\ "hooks" \notin c.odd => \A e \in c.entries : e.cmds = {"user"} => e \in m.entries
MergeInstalls(f, c) ==
    LET m == Merged(f, c) IN
    /\ f = "settings" => \/ m.form = "other"
                         \/ /\ m.form \notin {"absent", "broken"}
                            /\ \A s \in Scripts("claude") : Mentions(m, s)
                            /\ "mati" \in m.servers /\ "servers" \notin m.odd
    /\ f = "hooks" => m.form \notin {"absent", "broken"} /\ \A s \in Scripts("codex") : Mentions(m, s)
    /\ f = "config" => m.form # "absent" /\ "mati" \in m.servers /\ "servers" \notin m.odd

LEMMA MergedFacts ==
  ASSUME NEW f \in AllCfg, NEW c \in CfgRecs
  PROVE  Merged(f, c) \in CfgRecs /\ MergeKeeps(f, c) /\ MergeInstalls(f, c)
<1> DEFINE d == IF c.form = "object" THEN c ELSE Empty
<1>1. d \in CfgRecs /\ d.form = "object" /\ (c.form = "object" => d = c)
  BY EmptyFacts
<1>2. "claude" \in Hosts /\ "codex" \in Hosts
  BY DEF Hosts
<1>3. CASE f = "settings"
  <2>1. Merged(f, c) = IF c.form = "other" THEN c ELSE MergeServer(MergeHooks("claude", d))
    BY <1>3 DEF Merged, MergeSettings
  <2>2. CASE c.form = "other"
    BY <1>3, <2>1, <2>2 DEF MergeKeeps, MergeInstalls
  <2>3. CASE c.form # "other"
    <3> DEFINE h == MergeHooks("claude", d)
    <3>1. /\ h \in CfgRecs /\ h.form = "object" /\ h.servers = d.servers /\ h.rest = d.rest
          /\ h.odd = d.odd \ {"hooks"} /\ \A s \in Scripts("claude") : Mentions(h, s)
          /\ "hooks" \notin d.odd => \A e \in d.entries : e.cmds = {"user"} => e \in h.entries
      BY <1>1, <1>2, MergeHooksFacts
    <3> HIDE DEF h, d
    <3> DEFINE m == MergeServer(h)
    <3>2. /\ m \in CfgRecs /\ m.form = "object" /\ m.entries = h.entries /\ m.rest = h.rest
          /\ m.odd = h.odd \ {"servers"} /\ "mati" \in m.servers
          /\ "servers" \notin h.odd => h.servers \subseteq m.servers
      BY <3>1, MergeServerFacts
    <3>3. \A s \in Scripts("claude") : Mentions(m, s)
      BY <3>1, <3>2 DEF Mentions
    <3>4. Merged(f, c) = m
      BY <2>1, <2>3 DEF h
    <3> HIDE DEF m
    <3> QED BY <1>1, <1>3, <2>3, <3>1, <3>2, <3>3, <3>4 DEF MergeKeeps, MergeInstalls
  <2> QED BY <2>2, <2>3
<1>4. CASE f = "mcp"
  <2>1. Merged(f, c) = MergeServer(d)
    BY <1>4 DEF Merged, WriteMcpJson
  <2> HIDE DEF d
  <2> QED BY <1>1, <1>4, <2>1, MergeServerFacts DEF MergeKeeps, MergeInstalls
<1>6. CASE f = "config"
  <2> DEFINE e == [d EXCEPT !.rest = d.rest /\ "rest" \notin d.odd, !.odd = d.odd \ {"rest"}]
  <2>1. Merged(f, c) = MergeServer(e)
    BY <1>6 DEF Merged, MergeConfigToml
  <2> HIDE DEF d
  <2>2. e \in CfgRecs /\ e.form = d.form /\ e.entries = d.entries /\ e.servers = d.servers
        /\ e.rest = (d.rest /\ "rest" \notin d.odd) /\ e.odd = d.odd \ {"rest"}
    BY <1>1 DEF CfgRecs
  <2> HIDE DEF e
  <2>3. "rest" \notin d.odd => e.rest = d.rest
    BY <1>1, <2>2 DEF CfgRecs
  <2> QED BY <1>1, <1>6, <2>1, <2>2, <2>3, MergeServerFacts DEF MergeKeeps, MergeInstalls
<1>5. CASE f = "hooks"
  <2>1. Merged(f, c) = MergeHooks("codex", d)
    BY <1>5 DEF Merged, MergeHooksJson
  <2> HIDE DEF d
  <2> QED BY <1>1, <1>2, <1>5, <2>1, MergeHooksFacts DEF MergeKeeps, MergeInstalls
<1> QED BY <1>3, <1>4, <1>5, <1>6, HostFacts

\* Each part of the user's is named after its file, and what a merge may lose of
\* it is listed.
LEMMA HoldsFacts ==
  ASSUME NEW f, NEW c
  PROVE  \A m : m \in Holds(f, c) <=>
                /\ c.form # "absent"
                /\ \/ m = <<f, "entry">> /\ \E e \in c.entries : e.cmds = {"user"}
                   \/ m = <<f, "mixed">> /\ \E e \in c.entries : "user" \in e.cmds /\ e.cmds # {"user"}
                   \/ m = <<f, "server">> /\ "user" \in c.servers
                   \/ m = <<f, "rest">> /\ c.rest
BY DEF Holds

LEMMA MergeLoses ==
  ASSUME NEW f \in AllCfg, NEW c \in CfgRecs, ~MergeRefuses(f, c), NEW m \in Holds(f, c)
  PROVE  \/ m \in Holds(f, Merged(f, c))
         \/ c.form \in {"broken", "other"} /\ ~(f = "settings" /\ c.form = "other")
         \/ m = <<f, "mixed">>
         \/ "hooks" \in c.odd /\ m = <<f, "entry">>
         \/ "servers" \in c.odd /\ m = <<f, "server">>
         \/ "rest" \in c.odd /\ f = "config" /\ m = <<f, "rest">>
<1>1. CASE c.form = "object" \/ (f = "settings" /\ c.form = "other")
  <2>1. MergeKeeps(f, c)
    BY MergedFacts
  <2> QED BY <1>1, <2>1, HoldsFacts DEF MergeKeeps
<1>2. CASE ~(c.form = "object" \/ (f = "settings" /\ c.form = "other"))
  BY <1>2, HoldsFacts DEF CfgRecs
<1> QED BY <1>1, <1>2

\* What is said of a file changes only with that file.
LEMMA InstalledKept ==
  ASSUME NEW h \in Hosts, NEW x, scripts'[h] = scripts[h], x \in AllCfg => cfg'[x] = cfg[x]
  PROVE  Installed(h, x)' <=> Installed(h, x)
BY HostFacts DEF Installed, Mentions

LEMMA StepNamesFacts ==
  /\ \A h \in Hosts : \A x \in StepNames(h) : \/ x = "notes" /\ x \notin AllCfg \cup Scripts(h)
                                              \/ x \in CfgFiles(h) /\ x \in AllCfg /\ HostOf(x) = h
                                              \/ x \in Scripts(h) /\ x \notin AllCfg
  /\ \A h, g \in Hosts : \A x \in StepNames(h) : x \in AllCfg /\ x \in CfgFiles(g) => h = g
  /\ "notes" \notin AllCfg
BY HostFacts, ScriptFacts DEF StepNames

\* What a step may lose is excused; all else it has to keep.
LEMMA LosesNoMore ==
  ASSUME UserKept, NEW S, MayLose(S), mine' = mine, \A m \in mine : Kept(m) /\ m \notin S => Kept(m)'
  PROVE  UserKept'
<1> SUFFICES ASSUME NEW m \in mine, m \notin excused' PROVE Kept(m)'
    BY DEF UserKept
<1>1. m \notin excused /\ (m \in S => Kept(m)')
  BY DEF MayLose
<1> QED BY <1>1 DEF UserKept

LEMMA SameKept == ASSUME UNCHANGED <<cfg, bak, notes>> PROVE \A m : Kept(m)' <=> Kept(m)
BY DEF Kept, Holds, HoldsNotes

\* Steps that touch no file.
LEMMA ScQuietStep ==
  ASSUME ScInv, UNCHANGED <<cfg, bak, scripts, notes, mine, excused>>,
         dirs' \subseteq Hosts, done' \subseteq Hosts, inst' \in InstRecs, ProgressInv'
  PROVE  ScInv'
<1>1. ScTypeOK'
  BY DEF ScInv, ScTypeOK
<1>2. UserKept'
  BY SameKept DEF ScInv, UserKept
<1> QED BY <1>1, <1>2 DEF ScInv

LEMMA NoInstFacts == /\ NoInst \in InstRecs /\ NoInst.pc = "none" /\ NoInst.left = <<>>
                     /\ ~NoInst.saved /\ NoNotes \in NotesRecs
<1>1. NoNotes \in NotesRecs
  BY DEF NoNotes, NotesRecs
<1> QED BY <1>1, EmptyFacts DEF NoInst, InstRecs

LEMMA HostOverFacts == ASSUME ScTypeOK PROVE HostOver \in InstRecs /\ HostOver.pc = "next" /\ ~HostOver.saved
BY NoInstFacts DEF ScTypeOK, InstRecs, HostOver

LEMMA SameInstalled ==
  ASSUME UNCHANGED <<cfg, scripts>>, NEW h \in Hosts
  PROVE  \A x : Installed(h, x)' <=> Installed(h, x)
BY InstalledKept

LEMMA NoLeft == <<>> \in Seq(StepNames("claude") \cup StepNames("codex"))
OBVIOUS

LEMMA ScStartStep == ASSUME ScInv, NEW flags \in SUBSET Hosts, InstallStart(flags) PROVE ScInv'
<1> DEFINE want == IF flags # {} THEN flags ELSE dirs
           q1 == IF "claude" \in want THEN <<"claude">> ELSE <<>>
           q2 == IF "codex" \in want THEN <<"codex">> ELSE <<>>
           q == q1 \o q2
<1>1. q \in Seq(Hosts)
  <2>1. <<"claude">> \in Seq(Hosts) /\ <<"codex">> \in Seq(Hosts) /\ <<>> \in Seq(Hosts)
    BY DEF Hosts
  <2>2. q1 \in Seq(Hosts) /\ q2 \in Seq(Hosts)
    BY <2>1
  <2> HIDE DEF q1, q2
  <2> QED BY <2>2
<1>2. inst' = [NoInst EXCEPT !.pc = "next", !.queue = q]
  BY DEF InstallStart
<1> HIDE DEF q
<1>3. inst' \in InstRecs /\ inst'.pc = "next" /\ ~inst'.saved
  BY <1>1, <1>2, NoInstFacts DEF InstRecs
<1>4. UNCHANGED <<dirs, cfg, bak, scripts, notes, done, mine, excused>>
  BY DEF InstallStart
<1>5. ProgressInv'
  BY <1>3, <1>4, SameInstalled DEF ScInv, ScTypeOK, ProgressInv, Running
<1> QED BY <1>3, <1>4, <1>5, ScQuietStep DEF ScInv, ScTypeOK

LEMMA ScHostStep == ASSUME ScInv, InstallHost PROVE ScInv'
<1>t. ScTypeOK /\ inst \in InstRecs /\ UNCHANGED <<cfg, bak, scripts, notes, mine, excused>>
  BY DEF ScInv, ScTypeOK, InstallHost
<1>1. CASE inst.queue = <<>>
  <2>1. inst' = NoInst /\ UNCHANGED <<dirs, done>>
    BY <1>1 DEF InstallHost
  <2>2. ProgressInv'
    BY <1>t, <2>1, SameInstalled, NoInstFacts DEF ScInv, ScTypeOK, ProgressInv, Running
  <2> QED BY <1>t, <2>1, <2>2, ScQuietStep, NoInstFacts DEF ScTypeOK
<1>2. CASE inst.queue # <<>>
  <2> DEFINE h == Head(inst.queue)
  <2>1. inst' = [NoInst EXCEPT !.pc = "read", !.queue = Tail(inst.queue), !.host = h, !.left = Steps(h)]
        /\ dirs' = dirs \cup {h} /\ done' = done \ {h}
    BY <1>2 DEF InstallHost
  <2>2. h \in Hosts /\ Tail(inst.queue) \in Seq(Hosts)
    BY <1>t, <1>2, HeadTailProperties DEF InstRecs
  <2> HIDE DEF h
  <2>3. Steps(h) \in Seq(StepNames("claude") \cup StepNames("codex")) /\ Range(Steps(h)) = StepNames(h)
    BY <2>2, StepsFacts
  <2>4. inst' \in InstRecs /\ inst'.pc = "read" /\ inst'.host = h /\ inst'.left = Steps(h) /\ ~inst'.saved
    BY <1>t, <2>1, <2>2, <2>3, NoInstFacts DEF InstRecs
  <2>5. ProgressInv'
    BY <1>t, <2>1, <2>2, <2>3, <2>4, SameInstalled DEF ScInv, ScTypeOK, ProgressInv, Running
  <2> QED BY <1>t, <2>1, <2>2, <2>4, <2>5, ScQuietStep DEF ScTypeOK
<1> QED BY <1>1, <1>2

LEMMA ScReadStep == ASSUME ScInv, InstallRead PROVE ScInv'
<1> DEFINE f == Head(inst.left)
<1>t. ScTypeOK /\ inst \in InstRecs /\ inst.pc = "read" /\ inst.left # <<>>
      /\ UNCHANGED <<dirs, cfg, bak, scripts, notes, done, mine, excused>>
  BY DEF ScInv, ScTypeOK, InstallRead
<1>s. ~inst.saved
  BY <1>t DEF ScInv, ProgressInv
<1>1. CASE f \in AllCfg /\ MergeRefuses(f, cfg[f])
  <2>1. inst' = HostOver
    BY <1>1 DEF InstallRead, AtHand
  <2>2. inst' \in InstRecs /\ inst'.pc = "next" /\ ~inst'.saved
    BY <1>t, <2>1, HostOverFacts
  <2>3. ProgressInv'
    BY <1>t, <2>2, SameInstalled DEF ScInv, ScTypeOK, ProgressInv, Running
  <2> QED BY <1>t, <2>2, <2>3, ScQuietStep DEF ScTypeOK
<1>2. CASE ~(f \in AllCfg /\ MergeRefuses(f, cfg[f]))
  <2>1. /\ f \in AllCfg => inst' = [inst EXCEPT !.copy = cfg[f], !.pc = IF BacksUp(f, cfg[f]) THEN "backup" ELSE "write"]
        /\ f \notin AllCfg => inst' = [inst EXCEPT !.pc = "write", !.seen = IF f = "notes" THEN notes ELSE inst.seen]
    BY <1>2 DEF InstallRead, AtHand
  <2>2. inst' \in InstRecs /\ inst'.pc \in {"backup", "write"} /\ inst'.host = inst.host /\ inst'.left = inst.left
        /\ inst'.touched = inst.touched /\ (f \in AllCfg => inst'.copy = cfg[f]) /\ (inst'.pc = "backup" => f \in AllCfg)
        /\ ~inst'.saved
    <3>1. CASE f \in AllCfg
      <4>1. PICK st \in {"backup", "write"} : inst' = [inst EXCEPT !.copy = cfg[f], !.pc = st]
        BY <2>1, <3>1
      <4> QED BY <1>s, <1>t, <3>1, <4>1 DEF InstRecs, ScTypeOK
    <3>2. CASE f \notin AllCfg
      BY <1>s, <1>t, <2>1, <3>2 DEF InstRecs, ScTypeOK
    <3> QED BY <3>1, <3>2
  <2>3. ProgressInv'
    BY <1>t, <1>2, <2>2, SameInstalled DEF ScInv, ScTypeOK, ProgressInv, Running
  <2> QED BY <1>t, <2>2, <2>3, ScQuietStep DEF ScTypeOK
<1> QED BY <1>1, <1>2

LEMMA ScDoneStep == ASSUME ScInv, InstallDone PROVE ScInv'
<1>t. ScTypeOK /\ inst \in InstRecs /\ inst.pc = "read" /\ inst.left = <<>>
      /\ done' = (IF inst.touched THEN done ELSE done \cup {inst.host})
      /\ inst' = HostOver
      /\ UNCHANGED <<dirs, cfg, bak, scripts, notes, mine, excused>>
  BY DEF ScInv, ScTypeOK, InstallDone
<1>1. inst' \in InstRecs /\ inst'.pc = "next" /\ ~inst'.saved
  BY <1>t, HostOverFacts
<1>2. Range(inst.left) = {}
  BY <1>t DEF Range
<1>3. inst.host \in Hosts /\ (inst.touched \/ \A x \in StepNames(inst.host) : Installed(inst.host, x))
  BY <1>t, <1>2 DEF ScInv, ProgressInv, Running
<1>4. ProgressInv'
  BY <1>t, <1>1, <1>3, SameInstalled DEF ScInv, ScTypeOK, ProgressInv, Running
<1> QED BY <1>t, <1>1, <1>3, <1>4, ScQuietStep DEF ScTypeOK

\* A step that has written its file has one file less to write.
LEMMA AdvanceFacts ==
  ASSUME ScInv, inst.pc = "write", inst' = Advance
  PROVE  /\ inst' \in InstRecs /\ inst'.pc = "read" /\ inst'.host = inst.host /\ inst'.touched = inst.touched
         /\ ~inst'.saved
         /\ inst.left # <<>> /\ Head(inst.left) \in StepNames(inst.host) /\ inst.host \in Hosts \ done
         /\ Range(inst.left) = {Head(inst.left)} \cup Range(inst'.left)
         /\ Range(inst.left) \subseteq StepNames(inst.host)
<1>t. inst \in InstRecs /\ inst.left # <<>> /\ inst.host \in Hosts \ done
      /\ Range(inst.left) \subseteq StepNames(inst.host)
  BY DEF ScInv, ScTypeOK, ProgressInv, Running
<1> DEFINE names == StepNames("claude") \cup StepNames("codex")
<1>1. inst.left \in Seq(names)
  BY <1>t DEF InstRecs
<1>2. Tail(inst.left) \in Seq(names) /\ Range(inst.left) = {Head(inst.left)} \cup Range(Tail(inst.left))
  BY <1>t, <1>1, RangeTail
<1>3. inst' = [inst EXCEPT !.pc = "read", !.left = Tail(inst.left), !.copy = Missing, !.seen = NoNotes, !.saved = FALSE]
  BY DEF Advance
<1>4. inst' \in InstRecs /\ inst'.pc = "read" /\ inst'.host = inst.host /\ inst'.touched = inst.touched
      /\ inst'.left = Tail(inst.left) /\ ~inst'.saved
  BY <1>t, <1>2, <1>3, EmptyFacts, NoInstFacts DEF InstRecs
<1> QED BY <1>t, <1>2, <1>4

LEMMA AdvanceProgress ==
  ASSUME ScInv, inst.pc = "write", inst' = Advance, done' = done,
         NEW host \in Hosts, NEW f, host = inst.host, f = Head(inst.left),
         Installed(host, f)',
         \A h \in Hosts : \A x \in StepNames(h) :
             ~(h = host /\ x = f) => (Installed(h, x)' <=> Installed(h, x))
  PROVE  ProgressInv'
<1>1. \A h \in done : \A x \in StepNames(h) : Installed(h, x)'
  BY AdvanceFacts DEF ScInv, ScTypeOK, ProgressInv
<1>2. \A x \in StepNames(host) \ Range(inst'.left) : Installed(host, x)' \/ inst.touched
  BY AdvanceFacts DEF ScInv, ProgressInv, Running
<1>3. Running' /\ inst'.pc = "read" /\ ~inst'.saved /\ inst'.host \in Hosts \ done' /\ Range(inst'.left) \subseteq StepNames(inst'.host)
  BY AdvanceFacts DEF Running
<1> QED BY <1>1, <1>2, <1>3, AdvanceFacts DEF ProgressInv

LEMMA ScWriteCfgStep == ASSUME ScInv, InstallWriteCfg PROVE ScInv'
<1>f. Head(inst.left) \in AllCfg /\ inst.copy \in CfgRecs /\ inst.host \in Hosts
  BY AdvanceFacts DEF ScInv, ScTypeOK, InstRecs, InstallWriteCfg, AtHand
<1> PICK f \in AllCfg, c \in CfgRecs, host \in Hosts : f = Head(inst.left) /\ c = inst.copy /\ host = inst.host
    BY <1>f
<1>t. /\ ScTypeOK /\ inst \in InstRecs /\ inst.pc = "write" /\ f \in AllCfg /\ c \in CfgRecs
      /\ cfg' = [cfg EXCEPT ![f] = Merged(f, c)]
      /\ MayLose(Lossy(f, c))
      /\ inst' = Advance /\ UNCHANGED <<dirs, bak, scripts, notes, done, mine>>
  BY DEF ScInv, ScTypeOK, InstRecs, InstallWriteCfg, AtHand
<1>1. ~MergeRefuses(f, c) /\ (inst.saved => bak[f] = c)
  BY <1>t DEF ScInv, ProgressInv
<1>2. Merged(f, c) \in CfgRecs /\ MergeInstalls(f, c)
  BY <1>t, MergedFacts
<1>3. \A g \in AllCfg : cfg'[g] = IF g = f THEN Merged(f, c) ELSE cfg[g]
  BY <1>t DEF ScTypeOK
<1>4. ScTypeOK'
  BY <1>t, <1>2, AdvanceFacts DEF ScTypeOK
<1>5. ProgressInv'
  <2>1. f \in StepNames(host)
    BY <1>t, AdvanceFacts
  <2>2. f \in CfgFiles(host) /\ f \notin Scripts(host)
    BY <1>t, <2>1, ScriptFacts, StepNamesFacts
  <2>3. Installed(host, f)'
    BY <1>2, <1>3, <1>t, <2>2 DEF Installed, MergeInstalls, Mentions
  <2>4. ASSUME NEW h \in Hosts, NEW x \in StepNames(h), ~(h = host /\ x = f)
        PROVE  Installed(h, x)' <=> Installed(h, x)
    <3>1. x # f
      BY <1>t, <2>2, <2>4, StepNamesFacts
    <3> QED BY <1>t, <1>3, <3>1, InstalledKept
  <2> QED BY <1>t, <2>3, <2>4, AdvanceProgress
<1>6. UserKept'
  <2> SUFFICES ASSUME NEW m \in mine, Kept(m), m \notin Lossy(f, c) PROVE Kept(m)'
      BY <1>t, LosesNoMore DEF ScInv
  <2>2. ASSUME m \in Holds(f, cfg[f]) PROVE m \in Holds(f, cfg'[f]) \cup Holds(f, bak[f])
    <3>1. c = cfg[f]
      BY <2>2 DEF Lossy
    <3>2. m \in Holds(f, c)
      BY <2>2, <3>1
    <3>3. m \in Holds(f, Merged(f, c)) \/ inst.saved
      BY <1>1, <1>t, <3>2, MergeLoses DEF Lossy
    <3> QED BY <1>1, <1>3, <1>t, <3>2, <3>3
  <2> QED BY <1>3, <1>t, <2>2 DEF Kept
<1> QED BY <1>4, <1>5, <1>6 DEF ScInv

\* What a backup overwrites is an older backup.
LEMMA ScBackupStep == ASSUME ScInv, InstallBackup PROVE ScInv'
<1>f. Head(inst.left) \in AllCfg /\ inst.copy \in CfgRecs
  BY DEF ScInv, ScTypeOK, ProgressInv, InstRecs, InstallBackup
<1> PICK f \in AllCfg, c \in CfgRecs : f = Head(inst.left) /\ c = inst.copy
    BY <1>f
<1>t. /\ ScTypeOK /\ inst \in InstRecs /\ inst.pc = "backup" /\ ~inst.saved
      /\ MayLose(Holds(f, bak[f])) /\ UNCHANGED <<dirs, cfg, scripts, notes, done, mine>>
  BY DEF ScInv, ScTypeOK, ProgressInv, InstallBackup, AtHand
<1>1. PICK b \in CfgRecs, ok \in BOOLEAN :
          /\ bak' = [bak EXCEPT ![f] = b] /\ (ok => b = c)
          /\ inst' = [inst EXCEPT !.pc = "write", !.saved = ok]
  <2>1. CASE bak' = [bak EXCEPT ![f] = c] /\ inst' = [inst EXCEPT !.pc = "write", !.saved = TRUE]
    BY <2>1
  <2>2. CASE /\ \E b \in CutCfg(f) \cup {bak[f]} : bak' = [bak EXCEPT ![f] = b]
             /\ inst' = [inst EXCEPT !.pc = "write"]
    <3>1. CutCfg(f) \cup {bak[f]} \subseteq CfgRecs
      <4>1. [Empty EXCEPT !.form = "broken"] \in CfgRecs /\ Empty \in CfgRecs
        BY DEF Empty, CfgRecs
      <4> QED BY <1>t, <4>1 DEF ScTypeOK, CutCfg
    <3>2. inst' = [inst EXCEPT !.pc = "write", !.saved = FALSE]
      BY <1>t, <2>2 DEF InstRecs
    <3> QED BY <2>2, <3>1, <3>2
  <2> QED BY <2>1, <2>2 DEF InstallBackup, AtHand
<1>2. \A g \in AllCfg : bak'[g] = IF g = f THEN b ELSE bak[g]
  BY <1>1, <1>t DEF ScTypeOK
<1>3. inst' \in InstRecs /\ inst'.pc = "write" /\ inst'.saved = ok /\ inst'.copy = c /\ inst'.left = inst.left
      /\ inst'.host = inst.host /\ inst'.touched = inst.touched
  BY <1>1, <1>t DEF InstRecs
<1>4. ScTypeOK'
  BY <1>1, <1>3, <1>t DEF ScTypeOK
<1>5. ProgressInv'
  BY <1>1, <1>2, <1>3, <1>t, SameInstalled DEF ScInv, ScTypeOK, ProgressInv, Running
<1>6. UserKept'
  <2> SUFFICES ASSUME NEW m \in mine, Kept(m), m \notin Holds(f, bak[f]) PROVE Kept(m)'
      BY <1>t, LosesNoMore DEF ScInv
  <2> QED BY <1>2, <1>t DEF Kept
<1> QED BY <1>4, <1>5, <1>6 DEF ScInv

LEMMA NotesFacts ==
  ASSUME NEW n \in NotesRecs
  PROVE  LET w == WriteClaudeMdStub(n) IN
         /\ w \in NotesRecs /\ w.there
         /\ n.before => w.before
         /\ n.after /\ n.block # "open" => w.after
<1>1. CASE ~n.there
  BY <1>1 DEF WriteClaudeMdStub, NoNotes, NotesRecs
<1>2. CASE n.there
  BY <1>2 DEF WriteClaudeMdStub, NotesRecs
<1> QED BY <1>1, <1>2

LEMMA HoldsNotesFacts ==
  ASSUME NEW n
  PROVE  \A m : m \in HoldsNotes(n) <=> \/ m = <<"notes", "before">> /\ n.before
                                        \/ m = <<"notes", "after">> /\ n.after
BY DEF HoldsNotes

LEMMA ScWriteNotesStep == ASSUME ScInv, InstallWriteNotes PROVE ScInv'
<1> DEFINE n == inst.seen
           S == (IF n # notes THEN HoldsNotes(notes) ELSE {}) \cup
                (IF n.block = "open" THEN {<<"notes", "after">>} ELSE {})
<1>t. /\ ScTypeOK /\ inst.pc = "write" /\ Head(inst.left) = "notes" /\ notes \in NotesRecs /\ n \in NotesRecs
      /\ notes' = IF WriteClaudeMdStub(n) = n THEN notes ELSE WriteClaudeMdStub(n)
      /\ MayLose(S)
      /\ inst' = Advance /\ UNCHANGED <<dirs, cfg, bak, scripts, done, mine>>
  BY DEF ScInv, ScTypeOK, InstRecs, InstallWriteNotes, AtHand
<1> HIDE DEF n
<1>1. notes' \in NotesRecs
  BY <1>t, NotesFacts
<1>2. ScTypeOK'
  BY <1>t, <1>1, AdvanceFacts DEF ScTypeOK
<1>3. ProgressInv'
  <2>1. inst.host \in Hosts
    BY <1>t, AdvanceFacts
  <2>2. PICK host \in Hosts : host = inst.host
    BY <2>1
  <2>3. Installed(host, "notes")
    BY ScriptFacts DEF Installed
  <2>4. \A h \in Hosts : \A x : Installed(h, x)' <=> Installed(h, x)
    BY <1>t, SameInstalled
  <2> QED BY <1>t, <2>2, <2>3, <2>4, AdvanceProgress
<1>4. UserKept'
  <2> SUFFICES ASSUME NEW m \in mine, Kept(m), m \notin S PROVE Kept(m)'
      BY <1>t, LosesNoMore DEF ScInv
  <2>1. ASSUME m \in HoldsNotes(notes) PROVE m \in HoldsNotes(notes')
    <3>1. n = notes
      BY <2>1
    <3> QED BY <1>t, <2>1, <3>1, NotesFacts, HoldsNotesFacts
  <2> QED BY <1>t, <2>1 DEF Kept
<1> QED BY <1>2, <1>3, <1>4 DEF ScInv

LEMMA ScriptWritten ==
  ASSUME ScTypeOK, NEW h \in Hosts, NEW s \in Scripts(h), NEW r \in ScriptRecs,
         scripts' = [scripts EXCEPT ![h][s] = r]
  PROVE  /\ scripts' = [g \in Hosts |-> scripts'[g]]
         /\ \A g \in Hosts : scripts'[g] \in [Scripts(g) -> ScriptRecs] /\ (g # h => scripts'[g] = scripts[g])
         /\ \A x \in Scripts(h) : scripts'[h][x] = IF x = s THEN r ELSE scripts[h][x]
<1>1. scripts' = [scripts EXCEPT ![h] = [scripts[h] EXCEPT ![s] = r]]
  OBVIOUS
<1>2. scripts = [g \in Hosts |-> scripts[g]] /\ scripts[h] \in [Scripts(h) -> ScriptRecs]
  BY DEF ScTypeOK
<1>3. scripts' = [g \in Hosts |-> IF g = h THEN [scripts[h] EXCEPT ![s] = r] ELSE scripts[g]]
  BY <1>1, <1>2
<1>4. scripts'[h] = [scripts[h] EXCEPT ![s] = r] /\ \A g \in Hosts : g # h => scripts'[g] = scripts[g]
  BY <1>3
<1>5. scripts' = [g \in Hosts |-> scripts'[g]]
  BY <1>3
<1> QED BY <1>2, <1>4, <1>5 DEF ScTypeOK

LEMMA ScWriteScriptStep == ASSUME ScInv, InstallWriteScript PROVE ScInv'
<1>f. inst.host \in Hosts /\ Head(inst.left) \in Scripts(inst.host)
  BY AdvanceFacts DEF InstallWriteScript
<1> PICK host \in Hosts : host = inst.host
    BY <1>f
<1> PICK s \in Scripts(host) : s = Head(inst.left)
    BY <1>f
<1>t. /\ ScTypeOK /\ inst.pc = "write"
      /\ scripts' = [scripts EXCEPT ![host][s] = FreshScript]
      /\ inst' = Advance /\ UNCHANGED <<dirs, cfg, bak, notes, done, mine, excused>>
  BY DEF ScInv, InstallWriteScript
<1>1. FreshScript \in ScriptRecs
  BY DEF FreshScript, ScriptRecs
<1>2. /\ scripts' = [g \in Hosts |-> scripts'[g]]
      /\ \A g \in Hosts : scripts'[g] \in [Scripts(g) -> ScriptRecs] /\ (g # host => scripts'[g] = scripts[g])
      /\ \A x \in Scripts(host) : scripts'[host][x] = IF x = s THEN FreshScript ELSE scripts[host][x]
  BY <1>t, <1>1, ScriptWritten
<1>3. ScTypeOK'
  BY <1>t, <1>2, AdvanceFacts DEF ScTypeOK
<1>4. ProgressInv'
  <2>1. s \notin AllCfg
    BY <1>t, <1>1, ScriptFacts
  <2>2. Installed(host, s)'
    BY <1>t, <1>2, <2>1, HostFacts DEF Installed, FreshScript
  <2>3. ASSUME NEW h \in Hosts, NEW x \in StepNames(h), ~(h = host /\ x = s)
        PROVE  Installed(h, x)' <=> Installed(h, x)
    <3>1. CASE h = host
      BY <1>t, <1>2, <2>3, <3>1 DEF Installed, Mentions
    <3>2. CASE h # host
      BY <1>t, <1>2, <3>2, InstalledKept
    <3> QED BY <3>1, <3>2
  <2> QED BY <1>t, <2>2, <2>3, AdvanceProgress
<1>5. UserKept'
  BY <1>t, SameKept DEF ScInv, UserKept
<1> QED BY <1>3, <1>4, <1>5 DEF ScInv

LEMMA RunningHead ==
  ASSUME ScInv, inst.pc = "write"
  PROVE  \E h \in Hosts : h = inst.host /\ h \notin done /\ Head(inst.left) \in StepNames(h)
<1>1. /\ inst.left # <<>> /\ inst.host \in Hosts \ done /\ Range(inst.left) \subseteq StepNames(inst.host)
      /\ inst.left \in Seq(StepNames("claude") \cup StepNames("codex"))
  BY DEF ScInv, ScTypeOK, InstRecs, ProgressInv, Running
<1>2. Head(inst.left) \in Range(inst.left)
  BY <1>1, RangeTail
<1> QED BY <1>1, <1>2

\* A write cut short spoils the file at hand only, which no host that counts as
\* installed has.
LEMMA CutFacts ==
  ASSUME ScInv, CutShort, UNCHANGED <<done, mine>>
  PROVE  /\ cfg' \in [AllCfg -> CfgRecs] /\ bak' = bak /\ notes' \in NotesRecs
         /\ scripts' = [h \in Hosts |-> scripts'[h]] /\ \A h \in Hosts : scripts'[h] \in [Scripts(h) -> ScriptRecs]
         /\ UserKept'
         /\ \A h \in done : \A x \in StepNames(h) : Installed(h, x)'
         /\ Head(inst.left) = "notes" => UNCHANGED <<cfg, scripts>>
<1>t. ScTypeOK /\ UserKept /\ inst.pc = "write" /\ inst \in InstRecs /\ notes \in NotesRecs
  BY DEF ScInv, ScTypeOK, CutShort
<1>p. PICK host \in Hosts : host = inst.host /\ host \notin done /\ Head(inst.left) \in StepNames(host)
  BY <1>t, RunningHead
<1>d. \A h \in done : h \in Hosts /\ h # host /\ \A x \in StepNames(h) : Installed(h, x)
  BY <1>t, <1>p DEF ScInv, ScTypeOK, ProgressInv
<1>1. ASSUME NEW f \in AllCfg, f = Head(inst.left), NEW c \in CfgRecs, cfg' = [cfg EXCEPT ![f] = c],
             UNCHANGED <<bak, notes, scripts>>, MayLose(Holds(f, cfg[f]))
      PROVE  /\ cfg' \in [AllCfg -> CfgRecs] /\ UserKept' /\ f # "notes"
             /\ \A h \in done : \A x \in StepNames(h) : Installed(h, x)'
  <2>1. cfg' \in [AllCfg -> CfgRecs] /\ \A g \in AllCfg : g # f => cfg'[g] = cfg[g]
    BY <1>t, <1>1 DEF ScTypeOK
  <2>2. ASSUME NEW h \in done, NEW x \in StepNames(h) PROVE Installed(h, x)'
    <3>1. x # f
      BY <1>p, <1>d, <1>1, <2>2, StepNamesFacts
    <3> QED BY <1>d, <1>1, <2>1, <3>1, InstalledKept
  <2>3. UserKept'
    <3> SUFFICES ASSUME NEW m \in mine, Kept(m), m \notin Holds(f, cfg[f]) PROVE Kept(m)'
        BY <1>t, <1>1, LosesNoMore
    <3> QED BY <1>1, <2>1 DEF Kept
  <2> QED BY <2>1, <2>2, <2>3, StepNamesFacts
<1>2. ASSUME NEW n, n \in NotesRecs, notes' = n, UNCHANGED <<cfg, bak, scripts>>, MayLose(HoldsNotes(notes))
      PROVE  UserKept' /\ \A h \in done : \A x \in StepNames(h) : Installed(h, x)'
  <2>1. UserKept'
    <3> SUFFICES ASSUME NEW m \in mine, Kept(m), m \notin HoldsNotes(notes) PROVE Kept(m)'
        BY <1>t, <1>2, LosesNoMore
    <3> QED BY <1>2 DEF Kept
  <2> QED BY <1>d, <1>2, <2>1, SameInstalled
<1>3. ASSUME NEW s \in Scripts(host), s = Head(inst.left),
             scripts' = [scripts EXCEPT ![host][s].text = "other"], UNCHANGED <<cfg, bak, notes, excused>>
      PROVE  /\ scripts' = [h \in Hosts |-> scripts'[h]] /\ \A h \in Hosts : scripts'[h] \in [Scripts(h) -> ScriptRecs]
             /\ UserKept' /\ s # "notes"
             /\ \A h \in done : \A x \in StepNames(h) : Installed(h, x)'
  <2>1. scripts' = [scripts EXCEPT ![host][s] = [scripts[host][s] EXCEPT !.text = "other"]]
    BY <1>3
  <2>2. [scripts[host][s] EXCEPT !.text = "other"] \in ScriptRecs
    BY <1>t DEF ScTypeOK, ScriptRecs
  <2>3. /\ scripts' = [g \in Hosts |-> scripts'[g]]
        /\ \A g \in Hosts : scripts'[g] \in [Scripts(g) -> ScriptRecs] /\ (g # host => scripts'[g] = scripts[g])
    BY <1>t, <2>1, <2>2, ScriptWritten
  <2>4. UserKept'
    BY <1>t, <1>3, SameKept DEF UserKept
  <2>5. \A h \in done : \A x \in StepNames(h) : Installed(h, x)'
    BY <1>d, <1>3, <2>3, InstalledKept
  <2> QED BY <2>3, <2>4, <2>5, ScriptFacts
<1>4. \A f : CutCfg(f) \subseteq CfgRecs
  <2>1. [Empty EXCEPT !.form = "broken"] \in CfgRecs /\ Empty \in CfgRecs
    BY DEF Empty, CfgRecs
  <2> QED BY <2>1 DEF CutCfg
<1>5. CutNotes(WriteClaudeMdStub(inst.seen)) \subseteq NotesRecs
  <2>1. PICK w \in NotesRecs : w = WriteClaudeMdStub(inst.seen) /\ w.there
    BY <1>t, NotesFacts DEF InstRecs
  <2> QED BY <2>1 DEF CutNotes, NoNotes, NotesRecs
<1>6. CASE Head(inst.left) \in AllCfg
  <2>1. CASE \E c \in CutCfg(Head(inst.left)) :
                /\ cfg' = [cfg EXCEPT ![Head(inst.left)] = c]
                /\ UNCHANGED <<bak, notes, scripts>> /\ MayLose(Holds(Head(inst.left), cfg[Head(inst.left)]))
    <3>1. PICK f \in AllCfg : f = Head(inst.left)
      BY <1>6
    <3>2. PICK c \in CfgRecs : cfg' = [cfg EXCEPT ![f] = c]
      BY <1>4, <2>1, <3>1
    <3> QED BY <1>1, <1>t, <2>1, <3>1, <3>2 DEF ScTypeOK
  <2> QED BY <1>6, <1>p, <2>1, StepNamesFacts, ScriptFacts DEF CutShort, AtHand
<1>7. CASE Head(inst.left) \in Scripts(host)
  <2>1. scripts' = [scripts EXCEPT ![host][Head(inst.left)].text = "other"] /\ UNCHANGED <<cfg, bak, notes, excused>>
    BY <1>7, <1>p, ScriptFacts DEF CutShort, AtHand
  <2> QED BY <1>3, <1>7, <1>t, <2>1 DEF ScTypeOK
<1>8. CASE Head(inst.left) = "notes"
  <2>1. UNCHANGED <<cfg, bak, scripts>> /\ MayLose(HoldsNotes(notes)) /\ notes' \in NotesRecs
    BY <1>5, <1>8, <1>p, StepNamesFacts, ScriptFacts DEF CutShort, AtHand
  <2> QED BY <1>2, <1>t, <2>1 DEF ScTypeOK
<1> QED BY <1>6, <1>7, <1>8, <1>p, StepNamesFacts

LEMMA ScFailsStep == ASSUME ScInv, InstallFails PROVE ScInv'
<1>t. /\ ScTypeOK /\ inst.pc = "write" /\ inst \in InstRecs /\ inst.host \in Hosts
      /\ UNCHANGED <<dirs, done, mine>>
  BY DEF ScInv, ScTypeOK, ProgressInv, Running, InstallFails
<1>1. /\ cfg' \in [AllCfg -> CfgRecs] /\ bak' \in [AllCfg -> CfgRecs] /\ notes' \in NotesRecs
      /\ scripts' = [h \in Hosts |-> scripts'[h]] /\ \A h \in Hosts : scripts'[h] \in [Scripts(h) -> ScriptRecs]
      /\ UserKept'
      /\ \A h \in done : \A x \in StepNames(h) : Installed(h, x)'
      /\ Head(inst.left) = "notes" => UNCHANGED <<cfg, scripts>>
  <2>1. CASE CutShort
    BY <1>t, <2>1, CutFacts DEF ScTypeOK
  <2>2. CASE UNCHANGED <<cfg, bak, notes, scripts, excused>>
    <3>1. UserKept'
      BY <1>t, <2>2, SameKept DEF ScInv, UserKept
    <3>2. \A h \in done : \A x \in StepNames(h) : Installed(h, x)'
      BY <1>t, <2>2, SameInstalled DEF ScInv, ScTypeOK, ProgressInv
    <3> QED BY <1>t, <2>2, <3>1, <3>2 DEF ScTypeOK
  <2> QED BY <2>1, <2>2 DEF InstallFails
<1>2. CASE Head(inst.left) = "notes"
  <2>1. inst' = Advance
    BY <1>2 DEF InstallFails, AtHand
  <2>2. PICK host \in Hosts : host = inst.host
    BY <1>t
  <2>3. Installed(host, "notes")
    BY ScriptFacts DEF Installed
  <2>4. \A h \in Hosts : \A x : Installed(h, x)' <=> Installed(h, x)
    BY <1>1, <1>2, SameInstalled
  <2>5. ProgressInv'
    BY <1>2, <1>t, <2>1, <2>2, <2>3, <2>4, AdvanceProgress
  <2>6. ScTypeOK'
    BY <1>1, <1>t, <2>1, AdvanceFacts DEF ScTypeOK
  <2> QED BY <1>1, <2>5, <2>6 DEF ScInv
<1>3. CASE Head(inst.left) # "notes"
  <2>1. inst' \in InstRecs /\ inst'.pc = "next" /\ ~inst'.saved
    BY <1>3, <1>t, HostOverFacts DEF InstallFails, AtHand
  <2>2. ProgressInv'
    BY <1>1, <1>t, <2>1 DEF ProgressInv, Running
  <2>3. ScTypeOK'
    BY <1>1, <1>t, <2>1 DEF ScTypeOK
  <2> QED BY <1>1, <2>2, <2>3 DEF ScInv
<1> QED BY <1>2, <1>3

\* A kill leaves what other installations have written.
LEMMA ScKilledStep == ASSUME ScInv, InstallKilled PROVE ScInv'
<1>t. /\ ScTypeOK /\ inst' = NoInst /\ NoInst \in InstRecs /\ NoInst.pc = "none" /\ ~NoInst.saved
      /\ UNCHANGED <<dirs, done, mine>>
  BY NoInstFacts DEF ScInv, InstallKilled
<1>d. \A h \in done : h \in Hosts /\ \A x \in StepNames(h) : Installed(h, x)
  BY DEF ScInv, ScTypeOK, ProgressInv
<1>1. CASE UNCHANGED <<cfg, bak, notes, scripts, excused>>
  <2>1. ProgressInv'
    BY <1>d, <1>t, <1>1, SameInstalled DEF ProgressInv, Running
  <2> QED BY <1>t, <1>1, <2>1, ScQuietStep DEF ScTypeOK
<1>2. CASE CutShort
  <2>1. /\ cfg' \in [AllCfg -> CfgRecs] /\ bak' = bak /\ notes' \in NotesRecs
        /\ scripts' = [h \in Hosts |-> scripts'[h]] /\ \A h \in Hosts : scripts'[h] \in [Scripts(h) -> ScriptRecs]
        /\ UserKept' /\ \A h \in done : \A x \in StepNames(h) : Installed(h, x)'
    BY <1>t, <1>2, CutFacts
  <2>2. ScTypeOK'
    BY <1>t, <2>1 DEF ScTypeOK
  <2>3. ProgressInv'
    BY <1>t, <2>1 DEF ProgressInv, Running
  <2> QED BY <2>1, <2>2, <2>3 DEF ScInv
<1>3. CASE /\ inst.pc = "backup"
           /\ \E c \in CutCfg(AtHand) : bak' = [bak EXCEPT ![AtHand] = c]
           /\ UNCHANGED <<cfg, notes, scripts>> /\ MayLose(Holds(AtHand, bak[AtHand]))
  <2>f. AtHand \in AllCfg
    BY <1>3 DEF ScInv, ProgressInv, AtHand
  <2> PICK f \in AllCfg : f = AtHand
      BY <2>f
  <2>c. PICK c \in CutCfg(f) : bak' = [bak EXCEPT ![f] = c]
    BY <1>3
  <2>1. c \in CfgRecs
    <3>1. [Empty EXCEPT !.form = "broken"] \in CfgRecs /\ Empty \in CfgRecs
      BY DEF Empty, CfgRecs
    <3> QED BY <2>c, <3>1 DEF CutCfg
  <2>2. ScTypeOK' /\ \A g \in AllCfg : g # f => bak'[g] = bak[g]
    BY <1>t, <1>3, <2>c, <2>1 DEF ScTypeOK
  <2>3. ProgressInv'
    BY <1>d, <1>t, <1>3, SameInstalled DEF ProgressInv, Running
  <2>4. UserKept'
    <3>1. MayLose(Holds(f, bak[f]))
      BY <1>3
    <3> SUFFICES ASSUME NEW m \in mine, Kept(m), m \notin Holds(f, bak[f]) PROVE Kept(m)'
        BY <1>t, <3>1, LosesNoMore DEF ScInv
    <3> QED BY <1>3, <2>2 DEF Kept
  <2> QED BY <2>2, <2>3, <2>4 DEF ScInv
<1> QED BY <1>1, <1>2, <1>3 DEF InstallKilled

\* Whatever a user edits is no installation of mati's any more.
LEMMA UserEditFacts ==
  ASSUME ScInv, NEW host \in Hosts, UserEdit(host)
  PROVE  /\ inst' \in InstRecs /\ dirs' = dirs /\ bak' = bak /\ done' = done \ {host}
         /\ inst'.pc = inst.pc /\ inst'.host = inst.host /\ inst'.left = inst.left /\ inst'.copy = inst.copy
         /\ inst'.saved = inst.saved /\ inst'.touched = (inst.touched \/ inst.host = host)
<1>1. inst \in InstRecs /\ inst' = [inst EXCEPT !.touched = inst.touched \/ inst.host = host]
  BY DEF ScInv, ScTypeOK, UserEdit
<1>2. inst'.touched \in BOOLEAN /\ inst'.touched = (inst.touched \/ inst.host = host)
  BY <1>1 DEF InstRecs
<1> QED BY <1>1, <1>2 DEF InstRecs, UserEdit

LEMMA UserEditProgress ==
  ASSUME ScInv, NEW host \in Hosts, UserEdit(host),
         \A h \in Hosts : \A x \in StepNames(h) : h # host => (Installed(h, x)' <=> Installed(h, x))
  PROVE  ProgressInv'
<1>1. /\ inst'.pc = inst.pc /\ inst'.host = inst.host /\ inst'.left = inst.left /\ inst'.copy = inst.copy
      /\ inst'.touched = (inst.touched \/ inst.host = host) /\ done' = done \ {host} /\ done \subseteq Hosts
      /\ inst'.saved = inst.saved /\ bak' = bak
  BY UserEditFacts DEF ScInv, ScTypeOK
<1>2. \A h \in done' : \A x \in StepNames(h) : Installed(h, x)'
  BY <1>1 DEF ScInv, ProgressInv
<1>3. ASSUME Running
      PROVE  /\ inst.host \in Hosts \ done' /\ Range(inst.left) \subseteq StepNames(inst.host)
             /\ inst'.touched \/ \A x \in StepNames(inst.host) \ Range(inst.left) : Installed(inst.host, x)'
  <2>1. PICK h \in Hosts : h = inst.host /\ h \notin done
    BY <1>3 DEF ScInv, ProgressInv
  <2>2. /\ Range(inst.left) \subseteq StepNames(h)
        /\ inst.touched \/ \A x \in StepNames(h) \ Range(inst.left) : Installed(h, x)
    BY <1>3, <2>1 DEF ScInv, ProgressInv
  <2>3. inst'.touched \/ \A x \in StepNames(h) \ Range(inst.left) : Installed(h, x)'
    BY <1>1, <2>1, <2>2
  <2>4. inst'.touched \/ \A x \in StepNames(inst.host) \ Range(inst.left) : Installed(h, x)'
    BY <2>1, <2>3
  <2>5. \A x : Installed(inst.host, x)' <=> Installed(h, x)'
    BY <1>1, <2>1 DEF Installed, Mentions
  <2> QED BY <1>1, <2>1, <2>2, <2>4, <2>5
<1> QED BY <1>1, <1>2, <1>3 DEF ScInv, ProgressInv, Running

LEMMA ScEditCfgStep ==
  ASSUME ScInv, NEW f \in AllCfg, NEW c \in CfgRecs, EditCfg(f, c)
  PROVE  ScInv'
<1> PICK host \in Hosts : host = HostOf(f)
    BY HostFacts
<1>t. /\ ScTypeOK /\ UserEdit(host) /\ cfg' = [cfg EXCEPT ![f] = c]
      /\ mine' = (mine \ Holds(f, cfg[f])) \cup Holds(f, c)
      /\ excused' = excused \ Holds(f, c) /\ UNCHANGED <<scripts, notes>>
  BY DEF ScInv, EditCfg
<1>1. \A g \in AllCfg : cfg'[g] = IF g = f THEN c ELSE cfg[g]
  BY <1>t DEF ScTypeOK
<1>2. ScTypeOK'
  BY <1>t, UserEditFacts DEF ScTypeOK
<1>3. ProgressInv'
  <2> SUFFICES ASSUME NEW h \in Hosts, NEW x \in StepNames(h), h # host
               PROVE  Installed(h, x)' <=> Installed(h, x)
      BY <1>t, UserEditProgress
  <2>1. x # f
    BY StepNamesFacts
  <2> QED BY <1>1, <1>t, <2>1, InstalledKept
<1>4. UserKept'
  <2> SUFFICES ASSUME NEW m \in mine', m \notin excused' PROVE Kept(m)'
      BY DEF UserKept
  <2>1. CASE m \in Holds(f, c)
    BY <1>1, <2>1 DEF Kept
  <2>2. CASE m \notin Holds(f, c)
    <3>1. m \in mine /\ m \notin excused /\ m \notin Holds(f, cfg[f]) /\ bak' = bak
      BY <1>t, <2>2, UserEditFacts
    <3> QED BY <1>1, <1>t, <3>1 DEF ScInv, UserKept, Kept
  <2> QED BY <2>1, <2>2
<1> QED BY <1>2, <1>3, <1>4 DEF ScInv

LEMMA ScEditScriptStep ==
  ASSUME ScInv, NEW host \in Hosts, NEW s \in Scripts(host), UserEditsScript(host, s)
  PROVE  ScInv'
<1>t. ScTypeOK /\ UserEdit(host) /\ UNCHANGED <<cfg, notes, mine, excused>>
  BY DEF ScInv, UserEditsScript
<1>1. PICK r \in {NoScript, [scripts[host][s] EXCEPT !.exec = FALSE], [scripts[host][s] EXCEPT !.text = "other"]} :
          scripts' = [scripts EXCEPT ![host][s] = r]
  BY DEF UserEditsScript
<1>o. scripts[host][s] \in ScriptRecs
  BY <1>t DEF ScTypeOK
<1>2. r \in ScriptRecs
  <2> DEFINE t == scripts[host][s]
  <2>1. NoScript \in ScriptRecs
    BY DEF NoScript, ScriptRecs
  <2>2. r \in {NoScript, [t EXCEPT !.exec = FALSE], [t EXCEPT !.text = "other"]} /\ t \in ScriptRecs
    BY <1>1, <1>o
  <2> HIDE DEF t
  <2>3. [t EXCEPT !.exec = FALSE] \in ScriptRecs /\ [t EXCEPT !.text = "other"] \in ScriptRecs
    BY <2>2 DEF ScriptRecs
  <2> QED BY <2>1, <2>2, <2>3
<1>3. /\ scripts' = [g \in Hosts |-> scripts'[g]]
      /\ \A g \in Hosts : scripts'[g] \in [Scripts(g) -> ScriptRecs] /\ (g # host => scripts'[g] = scripts[g])
  BY <1>t, <1>1, <1>2, ScriptWritten
<1>4. ScTypeOK'
  BY <1>t, <1>3, UserEditFacts DEF ScTypeOK
<1>5. ProgressInv'
  <2> SUFFICES ASSUME NEW h \in Hosts, NEW x \in StepNames(h), h # host
               PROVE  Installed(h, x)' <=> Installed(h, x)
      BY <1>t, UserEditProgress
  <2> QED BY <1>t, <1>3, InstalledKept
<1>6. UserKept'
  BY <1>t, UserEditFacts, SameKept DEF ScInv, UserKept
<1> QED BY <1>4, <1>5, <1>6 DEF ScInv

LEMMA ScEditNotesStep == ASSUME ScInv, UserEditsNotes PROVE ScInv'
<1>t. ScTypeOK /\ UserEdit("claude") /\ UNCHANGED <<cfg, scripts>> /\ "claude" \in Hosts /\ notes \in NotesRecs
  BY DEF ScInv, ScTypeOK, UserEditsNotes, Hosts
<1>1. PICK n \in {[notes EXCEPT !.there = TRUE, !.before = TRUE],
                  [notes EXCEPT !.there = TRUE, !.after = notes.after \/ notes.block # "none"],
                  [notes EXCEPT !.before = notes.before \/ notes.after, !.block = "none", !.after = FALSE],
                  [notes EXCEPT !.block = IF notes.block = "current" THEN "open" ELSE notes.block],
                  [notes EXCEPT !.block = IF notes.block = "current" THEN "old" ELSE notes.block]} :
          /\ notes' = n
          /\ mine' = (mine \ HoldsNotes(notes)) \cup HoldsNotes(n)
          /\ excused' = excused \ HoldsNotes(n)
  BY DEF UserEditsNotes
<1>2. n \in NotesRecs
  <2> DEFINE o == notes
  <2>1. n \in {[o EXCEPT !.there = TRUE, !.before = TRUE],
               [o EXCEPT !.there = TRUE, !.after = o.after \/ o.block # "none"],
               [o EXCEPT !.before = o.before \/ o.after, !.block = "none", !.after = FALSE],
               [o EXCEPT !.block = IF o.block = "current" THEN "open" ELSE o.block],
               [o EXCEPT !.block = IF o.block = "current" THEN "old" ELSE o.block]} /\ o \in NotesRecs
    BY <1>t, <1>1
  <2> HIDE DEF o
  <2>2. [o EXCEPT !.there = TRUE, !.before = TRUE] \in NotesRecs
    BY <2>1 DEF NotesRecs
  <2>3. [o EXCEPT !.there = TRUE, !.after = o.after \/ o.block # "none"] \in NotesRecs
    BY <2>1 DEF NotesRecs
  <2>4. [o EXCEPT !.before = o.before \/ o.after, !.block = "none", !.after = FALSE] \in NotesRecs
    BY <2>1 DEF NotesRecs
  <2>5. /\ [o EXCEPT !.block = IF o.block = "current" THEN "open" ELSE o.block] \in NotesRecs
        /\ [o EXCEPT !.block = IF o.block = "current" THEN "old" ELSE o.block] \in NotesRecs
    BY <2>1 DEF NotesRecs
  <2> QED BY <2>1, <2>2, <2>3, <2>4, <2>5
<1>3. ScTypeOK'
  BY <1>t, <1>1, <1>2, UserEditFacts DEF ScTypeOK
<1>4. ProgressInv'
  <2>1. \A h \in Hosts : \A x : Installed(h, x)' <=> Installed(h, x)
    BY <1>t, SameInstalled
  <2> QED BY <1>t, <2>1, UserEditProgress
<1>5. UserKept'
  <2> SUFFICES ASSUME NEW m \in mine', m \notin excused' PROVE Kept(m)'
      BY DEF UserKept
  <2>1. CASE m \in HoldsNotes(n)
    BY <1>1, <2>1 DEF Kept
  <2>2. CASE m \notin HoldsNotes(n)
    <3>1. m \in mine /\ m \notin excused /\ m \notin HoldsNotes(notes)
      BY <1>1, <2>2
    <3> QED BY <1>t, <3>1, UserEditFacts DEF ScInv, UserKept, Kept
  <2> QED BY <2>1, <2>2
<1> QED BY <1>3, <1>4, <1>5 DEF ScInv

LEMMA ScUserStep == ASSUME ScInv, User PROVE ScInv'
<1>1. ASSUME NEW f \in AllCfg, NEW e \in EventNames, UserAddsHook(f, e) PROVE ScInv'
  <2> DEFINE t == There(cfg[f])
             c == [t EXCEPT !.entries = t.entries \cup {Entry(e, {"user"})}]
  <2>1. t \in CfgRecs
    BY EmptyFacts DEF ScInv, ScTypeOK, There
  <2>2. Entry(e, {"user"}) \in EntryRecs
    BY DEF Entry, EntryRecs, CmdNames
  <2>3. EditCfg(f, c)
    BY <1>1 DEF UserAddsHook
  <2> HIDE DEF t
  <2>4. c \in CfgRecs
    BY <2>1, <2>2 DEF CfgRecs
  <2> HIDE DEF c
  <2> QED BY <2>3, <2>4, ScEditCfgStep
<1>2. ASSUME NEW f \in AllCfg, UserSharesEntry(f) PROVE ScInv'
  <2> DEFINE t == cfg[f]
  <2>1. t \in CfgRecs
    BY DEF ScInv, ScTypeOK
  <2>2. PICK e \in t.entries : EditCfg(f, [t EXCEPT !.entries = (t.entries \ {e}) \cup
                                              {[e EXCEPT !.cmds = e.cmds \cup {"user"}]}])
    BY <1>2 DEF UserSharesEntry
  <2> HIDE DEF t
  <2>3. [e EXCEPT !.cmds = e.cmds \cup {"user"}] \in EntryRecs
    BY <2>1, <2>2 DEF CfgRecs, EntryRecs, CmdNames
  <2> DEFINE c == [t EXCEPT !.entries = (t.entries \ {e}) \cup {[e EXCEPT !.cmds = e.cmds \cup {"user"}]}]
  <2>4. c \in CfgRecs
    BY <2>1, <2>3 DEF CfgRecs
  <2> QED BY <2>2, <2>4, ScEditCfgStep
<1>3. ASSUME NEW f \in AllCfg, NEW c \in CfgRecs, EditCfg(f, c) PROVE ScInv'
  BY <1>3, ScEditCfgStep
<1>4. ASSUME NEW f \in AllCfg,
             \/ UserDropsHooks(f) \/ UserAddsServer(f) \/ UserAddsRest(f) \/ UserBreaks(f) \/ UserRepairs(f)
             \/ UserReplaces(f) \/ \E s \in {"hooks", "servers", "rest"} : UserReshapes(f, s)
      PROVE  ScInv'
  <2> DEFINE t == There(cfg[f])
             u == cfg[f]
  <2>1. t \in CfgRecs /\ u \in CfgRecs /\ Empty \in CfgRecs
    BY EmptyFacts DEF ScInv, ScTypeOK, There
  <2>2. \/ EditCfg(f, [u EXCEPT !.entries = {e \in u.entries : "user" \in e.cmds}])
        \/ EditCfg(f, [t EXCEPT !.servers = t.servers \cup {"user"}])
        \/ EditCfg(f, [t EXCEPT !.rest = TRUE])
        \/ EditCfg(f, [u EXCEPT !.form = "broken"])
        \/ EditCfg(f, [u EXCEPT !.form = "object"])
        \/ EditCfg(f, [Empty EXCEPT !.form = "other"])
        \/ \E s \in {"hooks", "servers", "rest"} : EditCfg(f, [u EXCEPT !.odd = u.odd \cup {s}])
    BY <1>4 DEF UserDropsHooks, UserAddsServer, UserAddsRest, UserBreaks, UserRepairs, UserReplaces, UserReshapes
  <2> HIDE DEF t, u
  <2>3. /\ [u EXCEPT !.entries = {e \in u.entries : "user" \in e.cmds}] \in CfgRecs
        /\ [t EXCEPT !.servers = t.servers \cup {"user"}] \in CfgRecs
        /\ [t EXCEPT !.rest = TRUE] \in CfgRecs
        /\ [u EXCEPT !.form = "broken"] \in CfgRecs
        /\ [u EXCEPT !.form = "object"] \in CfgRecs
        /\ [Empty EXCEPT !.form = "other"] \in CfgRecs
        /\ \A s \in {"hooks", "servers", "rest"} : [u EXCEPT !.odd = u.odd \cup {s}] \in CfgRecs
    BY <2>1 DEF CfgRecs
  <2> QED BY <1>3, <2>2, <2>3
<1>5. \A s \in Scripts("claude") : Events["claude"][s] \in EventNames
  BY DEF EventNames
<1> QED BY <1>1, <1>2, <1>4, <1>5, ScEditScriptStep, ScEditNotesStep DEF User

LEMMA ScInitInv == ScInit => ScInv
<1> SUFFICES ASSUME ScInit PROVE ScInv
    OBVIOUS
<1>1. ScTypeOK
  <2>1. NoNotes \in NotesRecs
    BY NoInstFacts
  <2>2. NoScript \in ScriptRecs
    BY DEF NoScript, ScriptRecs
  <2>3. \A h \in Hosts : scripts[h] = [s \in Scripts(h) |-> NoScript]
    BY DEF ScInit
  <2>4. \A h \in Hosts : scripts[h] \in [Scripts(h) -> ScriptRecs]
    BY <2>2, <2>3
  <2>5. scripts = [h \in Hosts |-> scripts[h]]
    BY DEF ScInit
  <2>6. cfg \in [AllCfg -> CfgRecs] /\ bak \in [AllCfg -> CfgRecs]
    BY EmptyFacts DEF ScInit
  <2> QED BY <2>1, <2>4, <2>5, <2>6, NoInstFacts DEF ScInit, ScTypeOK
<1>2. ProgressInv
  BY NoInstFacts DEF ScInit, ProgressInv, Running
<1>3. UserKept
  BY DEF ScInit, UserKept
<1> QED BY <1>1, <1>2, <1>3 DEF ScInv

LEMMA ScNextInv == ScInv /\ [ScNext]_scVars => ScInv'
<1> SUFFICES ASSUME ScInv, [ScNext]_scVars PROVE ScInv'
    OBVIOUS
<1>1. CASE Installer
  BY <1>1, ScStartStep, ScHostStep, ScReadStep, ScBackupStep, ScWriteCfgStep, ScWriteNotesStep, ScWriteScriptStep,
     ScDoneStep, ScFailsStep, ScKilledStep DEF Installer
<1>2. CASE User
  BY <1>2, ScUserStep
<1>3. CASE UNCHANGED scVars
  <2>1. UNCHANGED <<dirs, cfg, bak, scripts, notes, inst, done, mine, excused>>
    BY <1>3 DEF scVars
  <2>2. ProgressInv'
    BY <2>1, SameInstalled DEF ScInv, ScTypeOK, ProgressInv, Running
  <2> QED BY <2>1, <2>2, ScQuietStep DEF ScInv, ScTypeOK
<1> QED BY <1>1, <1>2, <1>3 DEF ScNext

\* An installation that reported success leaves nothing for `mati check` to fail
\* on until somebody touches the files (install_scaffold, cli/check.rs).
THEOREM InstalledCorrect == ScSpec => []InstalledChecks
<1>1. ScInv => InstalledChecks
  <2> SUFFICES ASSUME ScInv, NEW h \in done, h = "claude" => cfg["settings"].form # "other"
               PROVE  CheckHost(h)
      BY DEF InstalledChecks
  <2>1. h \in Hosts /\ \A x \in StepNames(h) : Installed(h, x)
    BY DEF ScInv, ScTypeOK, ProgressInv
  <2>2. CheckHooks(h)
    BY <2>1 DEF CheckHooks, Installed, StepNames
  <2>3. CASE h = "claude"
    <3>1. "settings" \in StepNames(h)
      BY <2>3 DEF StepNames, CfgFiles
    <3> QED BY <2>1, <2>2, <2>3, <3>1 DEF CheckHost, CheckClaudeConfig, Installed
  <2>4. CASE h = "codex"
    <3>1. "hooks" \in StepNames(h) /\ "config" \in StepNames(h)
      BY <2>4 DEF StepNames, CfgFiles
    <3> QED BY <2>1, <2>2, <2>4, <3>1 DEF CheckHost, CheckCodexConfig, Installed
  <2> QED BY <2>1, <2>3, <2>4 DEF Hosts
<1> QED BY <1>1, ScInitInv, ScNextInv, PTL DEF ScSpec

\* Whatever the user has put into a shared file is there, or in its backup, or
\* was lost in one of the listed ways (the merges of scaffold/).
THEOREM UserCorrect == ScSpec => []UserKept
<1>1. ScInv => UserKept
  BY DEF ScInv
<1> QED BY <1>1, ScInitInv, ScNextInv, PTL DEF ScSpec

=============================================================================

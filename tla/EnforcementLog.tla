--------------------------- MODULE EnforcementLog ---------------------------
(***************************************************************************)
(* The tamper-evident enforcement event log of src/store/enforcement.rs.   *)
(*                                                                         *)
(* Every deny, allow-after-receipt, consultation receipt, control change   *)
(* and configuration change is appended, by a concurrent request task of   *)
(* the process that holds the store lock, through one cached writer per    *)
(* process.  The writer holds the head of the chain: the last sequence     *)
(* number it allocated and the hash of the last event it wrote.            *)
(*                                                                         *)
(* A SHA-256 hash or a UUID is a fresh natural number (no collisions); 0   *)
(* stands for the empty string and for a key that is absent.  The          *)
(* granularity is one step per store read or store write: what the code    *)
(* does between two awaits is one action.                                  *)
(***************************************************************************)
EXTENDS Naturals, FiniteSets

CONSTANTS
    Procs,            \* processes that can hold the store lock
    Tasks,            \* request tasks of the process holding it
    NoProc,           \* the lock is free
    MaxCalls,         \* bound: calls of record_event / set_enforcement_mode
    MaxFails,         \* bound: store writes that fail
    MaxCrashes,       \* bound: crashes
    ReadFaults,       \* store reads may fail (the code then takes a default)
    ReopenInProcess   \* a process may close the store, live on, and reopen it

ASSUME NoProcAssumption == NoProc \notin Procs
ASSUME BoundAssumption  == MaxCalls \in Nat /\ MaxFails \in Nat /\ MaxCrashes \in Nat
ASSUME FlagAssumption   == ReadFaults \in BOOLEAN /\ ReopenInProcess \in BOOLEAN

VARIABLES
    seqKey,       \* store: "enforcement:seq", the persisted counter
    instKey,      \* store: "enforcement:installation_id"
    events,       \* store: the records under "enforcement:event:<seq>"
    mode,         \* store: "enforcement:mode"
    retention,    \* store: "enforcement:retention_days"
    owner,        \* the process holding the SurrealKV lock
    registry,     \* ENFORCEMENT_WRITERS of each process, for this store
    pc,           \* where each task is in its call
    call,         \* the locals of each task's call
    built,        \* the writer a task is building on the slow path
    nextId,       \* the next fresh hash or UUID
    calls,        \* calls started so far (bounded)
    fails,        \* store writes that failed so far (bounded)
    crashes       \* crashes so far (bounded)

store == <<seqKey, instKey, events, mode, retention>>
tasks == <<pc, call, built>>
vars  == <<store, owner, registry, tasks, nextId, calls, fails, crashes>>

Modes   == {"advisory", "strict"}
\* What the model tells apart of an event's type: the mode
\* an EnforcementConfigChanged carries, or any other event.
Kinds == Modes \cup {"other"}
Event == [seq : Nat, id : Nat, prev : Nat, inst : Nat, kind : Kinds]

\* EnforcementEventWriter; live = FALSE means "no entry in the registry".
Writer   == [live : BOOLEAN, seq : Nat, inst : Nat, prev : Nat]
NoWriter == [live |-> FALSE, seq |-> 0, inst |-> 0, prev |-> 0]

\* kind: the event to record, or the mode to write; old: the one it read first;
\* seen: the mode record_event read; outcome: what the last call returned.
Call   == [kind : Kinds, old : Modes, seen : Modes,
           outcome : {"none", "ok", "dropped", "error"}]
NoCall == [kind |-> "other", old |-> "advisory", seen |-> "advisory",
           outcome |-> "none"]

PCs == {"idle", "putmode", "begin", "lookup", "loadseq", "loadinst",
        "putinst", "loadhash", "insert", "lock", "seq", "event"}
-----------------------------------------------------------------------------
TypeOK ==
    /\ seqKey \in Nat
    /\ instKey \in Nat
    /\ events \in SUBSET Event
    /\ mode \in Modes
    /\ retention \in Nat
    /\ owner \in Procs \cup {NoProc}
    /\ registry \in [Procs -> Writer]
    /\ pc \in [Tasks -> PCs]
    /\ call \in [Tasks -> Call]
    /\ built \in [Tasks -> Writer]
    /\ nextId \in Nat
    /\ calls \in Nat
    /\ fails \in Nat
    /\ crashes \in Nat

Init ==
    /\ seqKey = 0
    /\ instKey = 0
    /\ events = {}
    /\ mode = "advisory"
    /\ retention = 365
    /\ owner = NoProc
    /\ registry = [p \in Procs |-> NoWriter]
    /\ pc = [t \in Tasks |-> "idle"]
    /\ call = [t \in Tasks |-> NoCall]
    /\ built = [t \in Tasks |-> NoWriter]
    /\ nextId = 1
    /\ calls = 0
    /\ fails = 0
    /\ crashes = 0
-----------------------------------------------------------------------------
(* Store reads.  A failed read is indistinguishable from an absent key.    *)

Read(value, default) == {value} \cup (IF ReadFaults THEN {default} ELSE {})

\* The event with the highest seq_no, as load_last_hash picks it.
IsLast(e, S) == e \in S /\ \A f \in S : f.seq <= e.seq

LastHash(S) == IF S = {} THEN 0 ELSE (CHOOSE e \in S : IsLast(e, S)).id

\* The tokio mutex around the cached writer is held from "lock" to the return.
Holding == {"seq", "event"}

\* Mutation: the writer is shared without its mutex.
LockIgnored == TRUE

LockFree == \A t \in Tasks : pc[t] \notin Holding

Goto(t, l) == pc' = [pc EXCEPT ![t] = l]

\* A store write of task t fails: its call returns, the lock (if held) is
\* released, and the mode it read decides whether the caller sees the error.
Fail(t) ==
    /\ fails < MaxFails
    /\ fails' = fails + 1
    /\ pc' = [pc EXCEPT ![t] = "idle"]
    /\ call' = [call EXCEPT ![t].outcome =
                  IF call[t].seen = "advisory" THEN "dropped" ELSE "error"]
    /\ built' = [built EXCEPT ![t] = NoWriter]
    /\ UNCHANGED <<store, owner, nextId, calls, crashes>>
-----------------------------------------------------------------------------
(* The calls.                                                              *)

\* A request handler calls record_event.
Record(t) ==
    /\ owner # NoProc
    /\ pc[t] = "idle"
    /\ calls < MaxCalls
    /\ calls' = calls + 1
    /\ Goto(t, "begin")
    /\ call' = [call EXCEPT ![t] = NoCall]
    /\ UNCHANGED <<store, owner, registry, built, nextId, fails, crashes>>

\* Mutation: the user-facing label is stored instead of the internal one.
SetModeUserLabel(t, new) ==
    /\ owner # NoProc
    /\ pc[t] = "idle"
    /\ calls < MaxCalls
    /\ calls' = calls + 1
    /\ Goto(t, "putmode")
    /\ call' = [call EXCEPT ![t] = [NoCall EXCEPT !.kind = "best_effort"]]
    /\ UNCHANGED <<store, owner, registry, built, nextId, fails, crashes>>

\* set_enforcement_mode reads the old mode ...
SetMode(t, new) ==
    /\ owner # NoProc
    /\ pc[t] = "idle"
    /\ calls < MaxCalls
    /\ calls' = calls + 1
    /\ Goto(t, "putmode")
    /\ \E old \in Read(mode, "advisory") :
          call' = [call EXCEPT ![t] = [NoCall EXCEPT !.kind = new, !.old = old]]
    /\ UNCHANGED <<store, owner, registry, built, nextId, fails, crashes>>

\* ... writes the new one, and records an event when the two differ.
PutMode(t) ==
    /\ pc[t] = "putmode"
    /\ mode' = call[t].kind
    /\ Goto(t, IF call[t].old # call[t].kind THEN "begin" ELSE "idle")
    /\ UNCHANGED <<seqKey, instKey, events, retention, owner, registry, call,
                   built, nextId, calls, fails, crashes>>

\* The write of the mode fails: the call returns the error, in either mode.
PutModeFails(t) ==
    /\ pc[t] = "putmode"
    /\ fails < MaxFails
    /\ fails' = fails + 1
    /\ Goto(t, "idle")
    /\ call' = [call EXCEPT ![t].outcome = "error"]
    /\ UNCHANGED <<store, owner, registry, built, nextId, calls, crashes>>

\* set_retention_days: one write, no event.
SetRetention(t, days) ==
    /\ owner # NoProc
    /\ pc[t] = "idle"
    /\ calls < MaxCalls
    /\ calls' = calls + 1
    /\ retention' = days
    /\ UNCHANGED <<seqKey, instKey, events, mode, owner, registry, tasks,
                   nextId, fails, crashes>>

\* record_event_with_session reads the mode before anything else.
GetMode(t) ==
    /\ pc[t] = "begin"
    /\ \E m \in Read(mode, "advisory") : call' = [call EXCEPT ![t].seen = m]
    /\ Goto(t, "lookup")
    /\ UNCHANGED <<store, owner, registry, built, nextId, calls, fails, crashes>>
-----------------------------------------------------------------------------
(* shared_writer: the fast path, and the slow path that builds a writer    *)
(* outside the registry lock.                                              *)

Lookup(t) ==
    /\ pc[t] = "lookup"
    /\ Goto(t, IF registry[owner].live THEN "lock" ELSE "loadseq")
    /\ UNCHANGED <<store, owner, registry, call, built, nextId, calls, fails, crashes>>

\* Mutation: the stored counter is taken for the next number, not the last.
LoadSeqOffByOne(t) ==
    /\ pc[t] = "loadseq"
    /\ built' = [built EXCEPT ![t] =
                    [NoWriter EXCEPT !.live = TRUE, !.seq = seqKey + 1]]
    /\ Goto(t, "loadinst")
    /\ UNCHANGED <<store, owner, registry, call, nextId, calls, fails, crashes>>

LoadSeq(t) ==
    /\ pc[t] = "loadseq"
    /\ \E s \in Read(seqKey, 0) :
          built' = [built EXCEPT ![t] = [NoWriter EXCEPT !.live = TRUE, !.seq = s]]
    /\ Goto(t, "loadinst")
    /\ UNCHANGED <<store, owner, registry, call, nextId, calls, fails, crashes>>

\* get_or_create_installation_id: keep the stored id, or make a new one ...
LoadInst(t) ==
    /\ pc[t] = "loadinst"
    /\ \E i \in Read(instKey, 0) :
          IF i # 0
            THEN /\ built' = [built EXCEPT ![t].inst = i]
                 /\ Goto(t, "loadhash")
                 /\ UNCHANGED nextId
            ELSE /\ built' = [built EXCEPT ![t].inst = nextId]
                 /\ nextId' = nextId + 1
                 /\ Goto(t, "putinst")
    /\ UNCHANGED <<store, owner, registry, call, calls, fails, crashes>>

\* ... and persist it.
PutInst(t) ==
    /\ pc[t] = "putinst"
    /\ instKey' = built[t].inst
    /\ Goto(t, "loadhash")
    /\ UNCHANGED <<seqKey, events, mode, retention, owner, registry, call,
                   built, nextId, calls, fails, crashes>>

PutInstFails(t) == pc[t] = "putinst" /\ Fail(t) /\ UNCHANGED registry

\* Mutation: the head is taken from the first event in key order.
LoadHashFirst(t) ==
    /\ pc[t] = "loadhash"
    /\ built' = [built EXCEPT ![t].prev =
          IF events = {} THEN 0
          ELSE (CHOOSE e \in events : \A f \in events : e.seq <= f.seq).id]
    /\ Goto(t, "insert")
    /\ UNCHANGED <<store, owner, registry, call, nextId, calls, fails, crashes>>

LoadHash(t) ==
    /\ pc[t] = "loadhash"
    /\ \E h \in Read(LastHash(events), 0) :
          built' = [built EXCEPT ![t].prev = h]
    /\ Goto(t, "insert")
    /\ UNCHANGED <<store, owner, registry, call, nextId, calls, fails, crashes>>

\* Mutation: `insert` for `or_insert`, the last writer built wins.
InsertReplaces(t) ==
    /\ pc[t] = "insert"
    /\ registry' = [registry EXCEPT ![owner] = built[t]]
    /\ built' = [built EXCEPT ![t] = NoWriter]
    /\ Goto(t, "lock")
    /\ UNCHANGED <<store, owner, call, nextId, calls, fails, crashes>>

\* Mutation: the loser of the race rebuilds its writer instead of taking the
\* one that is there.
InsertRetries(t) ==
    /\ pc[t] = "insert"
    /\ IF registry[owner].live
         THEN Goto(t, "loadseq") /\ UNCHANGED registry
         ELSE Goto(t, "lock") /\ registry' = [registry EXCEPT ![owner] = built[t]]
    /\ built' = [built EXCEPT ![t] = NoWriter]
    /\ UNCHANGED <<store, owner, call, nextId, calls, fails, crashes>>

\* Double-checked insert: a writer inserted in the meantime is kept.
Insert(t) ==
    /\ pc[t] = "insert"
    /\ registry' = IF registry[owner].live
                     THEN registry
                     ELSE [registry EXCEPT ![owner] = built[t]]
    /\ built' = [built EXCEPT ![t] = NoWriter]
    /\ Goto(t, "lock")
    /\ UNCHANGED <<store, owner, call, nextId, calls, fails, crashes>>
-----------------------------------------------------------------------------
(* EnforcementEventWriter::write, under the writer's lock.                 *)

Lock(t) ==
    /\ pc[t] = "lock"
    /\ LockFree
    /\ Goto(t, "seq")
    /\ UNCHANGED <<store, owner, registry, call, built, nextId, calls, fails, crashes>>

\* SeqAllocator::next advances the cached counter, then persists it.
SeqNext(t) ==
    /\ pc[t] = "seq"
    /\ registry' = [registry EXCEPT ![owner].seq = @ + 1]
    /\ seqKey' = registry[owner].seq + 1
    /\ Goto(t, "event")
    /\ UNCHANGED <<instKey, events, mode, retention, owner, call, built,
                   nextId, calls, fails, crashes>>

\* The counter in memory stays advanced when persisting it fails.
SeqNextFails(t) ==
    /\ pc[t] = "seq"
    /\ registry' = [registry EXCEPT ![owner].seq = @ + 1]
    /\ Fail(t)

NewEvent(t) ==
    [seq |-> registry[owner].seq, id |-> nextId, prev |-> registry[owner].prev,
     inst |-> registry[owner].inst, kind |-> call[t].kind]

\* Mutation: prev_hash is not updated after the write.
PutEventKeepsHead(t) ==
    /\ pc[t] = "event"
    /\ events' = {e \in events : e.seq # NewEvent(t).seq} \cup {NewEvent(t)}
    /\ nextId' = nextId + 1
    /\ Goto(t, "idle")
    /\ call' = [call EXCEPT ![t].outcome = "ok"]
    /\ UNCHANGED <<seqKey, instKey, mode, retention, owner, registry, built,
                   calls, fails, crashes>>

\* The event replaces whatever is stored under its sequence number, and only
\* then becomes the head that the next event links to.
PutEvent(t) ==
    /\ pc[t] = "event"
    /\ events' = {e \in events : e.seq # NewEvent(t).seq} \cup {NewEvent(t)}
    /\ registry' = [registry EXCEPT ![owner].prev = nextId]
    /\ nextId' = nextId + 1
    /\ Goto(t, "idle")
    /\ call' = [call EXCEPT ![t].outcome = "ok"]
    /\ UNCHANGED <<seqKey, instKey, mode, retention, owner, built, calls, fails, crashes>>

PutEventFails(t) == pc[t] = "event" /\ Fail(t) /\ UNCHANGED registry
-----------------------------------------------------------------------------
(* Processes.  SurrealKV's exclusive lock admits one at a time.            *)

Open(p) ==
    /\ owner = NoProc
    /\ owner' = p
    /\ UNCHANGED <<store, registry, tasks, nextId, calls, fails, crashes>>

\* The store is closed with no call in flight.  The process then exits, or
\* (mati review) lives on with its registry and may open the store again.
Close ==
    /\ owner # NoProc
    /\ \A t \in Tasks : pc[t] = "idle"
    /\ owner' = NoProc
    /\ registry' = IF ReopenInProcess
                     THEN registry
                     ELSE [registry EXCEPT ![owner] = NoWriter]
    /\ UNCHANGED <<store, tasks, nextId, calls, fails, crashes>>

\* The process dies, or is stopped and aborts its request tasks, between any
\* two steps: memory is lost, what was committed (Immediate durability) stays.
Crash ==
    /\ owner # NoProc
    /\ crashes < MaxCrashes
    /\ crashes' = crashes + 1
    /\ owner' = NoProc
    /\ registry' = [registry EXCEPT ![owner] = NoWriter]
    /\ pc' = [t \in Tasks |-> "idle"]
    /\ call' = [t \in Tasks |-> NoCall]
    /\ built' = [t \in Tasks |-> NoWriter]
    /\ UNCHANGED <<store, nextId, calls, fails>>

Step(t) ==
    \/ PutMode(t) \/ PutModeFails(t) \/ GetMode(t)
    \/ Lookup(t) \/ LoadSeq(t) \/ LoadInst(t)
    \/ PutInst(t) \/ PutInstFails(t) \/ LoadHash(t) \/ Insert(t)
    \/ Lock(t) \/ SeqNext(t) \/ SeqNextFails(t)
    \/ PutEvent(t) \/ PutEventFails(t)

Next ==
    \/ \E t \in Tasks :
          \/ Record(t)
          \/ \E m \in Modes : SetMode(t, m)
          \/ \E d \in {30, 365} : SetRetention(t, d)
          \/ Step(t)
    \/ \E p \in Procs : Open(p)
    \/ Close
    \/ Crash

\* Every task is polled until its call returns; the writer's mutex is a tokio
\* mutex, which is granted in FIFO order, so no waiter is passed over forever.
Fairness == \A t \in Tasks : WF_vars(Step(t)) /\ SF_vars(Lock(t))

Spec == Init /\ [][Next]_vars /\ Fairness
-----------------------------------------------------------------------------
(* verify_chain: consecutive present events must be linked by their hashes.*)

Consecutive(e, f, S) ==
    /\ e.seq < f.seq
    /\ \A g \in S : g.seq <= e.seq \/ f.seq <= g.seq

LinkageBreaks(S) ==
    {f \in S : \E e \in S : Consecutive(e, f, S) /\ f.prev # e.id}

\* Sequence numbers handed out and never filled.
Holes == {s \in 1..seqKey : \A e \in events : e.seq # s}

Quiescent == \A t \in Tasks : pc[t] = "idle"
-----------------------------------------------------------------------------
(* Properties.                                                             *)

\* `mati verify-chain` never reports a linkage break: however tasks
\* interleave, writes fail and processes crash, each stored event links to
\* the stored event before it (enforcement.rs verify_chain, shared_writer).
ChainIntact == LinkageBreaks(events) = {}

\* A recorded event is never overwritten nor lost: no two writes, of one
\* process or of successive ones, ever use the same sequence number.
AppendOnly == [][events \subseteq events']_vars

\* A failed store write or a crash costs at most one sequence number: the
\* holes in the stream never outnumber the faults, plus the one number a
\* task holding the writer's lock has taken and not yet used.
HolesAccounted ==
    Cardinality(Holes) <=
        fails + crashes + Cardinality({t \in Tasks : pc[t] = "event"})

\* Every call of record_event and set_enforcement_mode returns: the writer's
\* lock is released on every path, error paths included.
CallsReturn == \A t \in Tasks : pc[t] # "idle" ~> pc[t] = "idle"

\* What the log promises: a hash-linked list that only grows at its end.
AuditLog == INSTANCE AuditLog WITH
    entries <- {[id |-> e.id, prev |-> e.prev] : e \in events},
    head    <- LastHash(events)

\* The concurrent, fault-prone writer implements that abstract log.
ImplementsAuditLog == AuditLog!Spec
-----------------------------------------------------------------------------
(* Why it holds: the cached writer's head is the stored head.              *)

\* The slow path has read the counter and not yet tried to insert.
Building == {"loadinst", "putinst", "loadhash", "insert"}

\* No stored event lies beyond the persisted counter, no two share a number,
\* and their hashes were all handed out.
StreamInv ==
    /\ 0 < nextId
    /\ \A e \in events : e.seq <= seqKey /\ 0 < e.id /\ e.id < nextId
    /\ \A e, f \in events : e.seq = f.seq => e = f
    /\ events = {} \/ \E e \in events : IsLast(e, events)

\* At most one task holds the lock; it works on a writer that is cached, and
\* only the process holding the store has one.
LockInv ==
    /\ \A t \in Tasks : pc[t] # "idle" => owner \in Procs
    /\ \A t, u \in Tasks : pc[t] \in Holding /\ pc[u] \in Holding => t = u
    /\ \A t \in Tasks : pc[t] \in Holding \cup {"lock"} => registry[owner].live
    /\ \A p \in Procs : p # owner => registry[p] = NoWriter

\* The head cached in memory, or about to be cached, is the head in the
\* store: racing slow paths may build several writers, but until one of them
\* is inserted nobody writes, and the ones inserted later are dropped.
HeadInv ==
    /\ owner \in Procs /\ registry[owner].live =>
          /\ registry[owner].prev = LastHash(events)
          /\ seqKey <= registry[owner].seq
    /\ \A t \in Tasks : pc[t] \in Building =>
          /\ built[t].live
          /\ ~registry[owner].live => built[t].seq = seqKey
    /\ \A t \in Tasks : pc[t] = "insert" /\ ~registry[owner].live =>
          built[t].prev = LastHash(events)
    /\ \A t \in Tasks : pc[t] = "event" =>
          /\ seqKey = registry[owner].seq
          /\ \A e \in events : e.seq < seqKey

\* The conjunction is inductive when reads do not fail and no process
\* reopens a store it closed (shared_writer, EnforcementEventWriter::new).
WriterInv == StreamInv /\ LockInv /\ HeadInv
=============================================================================

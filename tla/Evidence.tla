------------------------------ MODULE Evidence -------------------------------
(* The enforcement log read back as evidence (store/enforcement.rs): the hash    *)
(* contract, verify_chain, retention, gap events, the metrics and the history    *)
(* the commands print. The writer is the sequential one that EnforcementLog      *)
(* shows the process's tasks to share; here the log also meets a clock that may  *)
(* step back, kills, binaries of other versions and hands that alter the store.  *)
(* A hash is the tuple it is computed from: equal hashes, equal contents.        *)
EXTENDS Naturals, Sequences, FiniteSets, Functions

CONSTANTS EvKinds,        \* event types the hooks and handlers record
          Subjects, Sessions,
          RetentionAge, GapThreshold, ConsultWindow,
          MaxLog, MaxNow, MaxFaults

ASSUME EvidenceAssumption ==
    /\ {"deny", "receipt"} \subseteq EvKinds
    /\ RetentionAge \in Nat /\ GapThreshold \in Nat /\ ConsultWindow \in Nat

VARIABLES stored,     \* the events under enforcement:event:
          seqCtr,     \* enforcement:seq
          writer,     \* the process's cached writer: its prev_hash, or none
          evNow,
          doomed,     \* events a retention run has still to delete
          pruned,     \* what the run will report: [count, first, last]
          trace,      \* history: [seq -> the event as written, and its predecessor's seq]
          skewed, newer, touched, faults

evVars == <<stored, seqCtr, writer, evNow, doomed, pruned, trace, skewed, newer, touched, faults>>

Fault == faults < MaxFaults /\ faults' = faults + 1

SchemaVersion == 2
NoHash == <<>>
NoSession == "-"
NoRun == [count |-> 0, first |-> 0, last |-> 0]

Newest(evs) == CHOOSE e \in evs : \A f \in evs : f.seq <= e.seq
Oldest(evs) == CHOOSE e \in evs : \A f \in evs : e.seq <= f.seq
\* The elements of S in the order a relation gives them.
Arranged(S, before) ==
    CHOOSE s \in [1 .. Cardinality(S) -> S] : \A i, j \in 1 .. Cardinality(S) : i < j => <<s[i], s[j]>> \in before
InOrder(evs) == Arranged(evs, {p \in evs \X evs : p[1].seq < p[2].seq})

-----------------------------------------------------------------------------
(* The hash contract and the writer.                                            *)

CanonicalEvent(e) == <<e.schema, e.seq, e.at, e.kind, e.prev, e.subject>>
CanonicalEventV2(e) == <<e.schema, e.seq, e.at, e.kind, e.prev, e.subject, e.session>>

\* Mutant: version 2 events are still hashed in the form of version 1.
ComputeHashV1Only(e) == CanonicalEvent(e)
ComputeHash(e) == IF e.schema >= 2 THEN CanonicalEventV2(e) ELSE CanonicalEvent(e)

\* scan_enforcement_events: corrupt events are skipped.
ScanEvents == {e \in stored : e.readable}

LoadLastHash == IF stored = {} \/ ~Newest(stored).readable THEN NoHash ELSE Newest(stored).hash
\* History: the event that hash stands for, 0 for none.
HashOwner(h) == IF h = NoHash THEN 0 ELSE h[2]

Sealed(e) == [e EXCEPT !.hash = ComputeHash(e)]
SealedEvent(schema, kind, subject, session, prev) ==
    Sealed([seq |-> seqCtr + 1, schema |-> schema, at |-> evNow, kind |-> kind, subject |-> subject,
            session |-> session, prev |-> prev, hash |-> NoHash, readable |-> TRUE])
Prev == IF writer = {} THEN LoadLastHash ELSE CHOOSE h \in writer : TRUE

\* Mutant: the writer keeps the head it was built with.
AppendedStale(e) == stored' = stored \cup {e} /\ writer' = {Prev}
Appended(e) == stored' = stored \cup {e} /\ writer' = {e.hash}
Traced(e) == trace' = [n \in 1 .. e.seq |-> IF n = e.seq THEN [event |-> e, pred |-> HashOwner(e.prev)] ELSE trace[n]]

\* EnforcementEventWriter::write; the counter survives a failed write of the event.
WriteEvent(kind, subject, session, lost) ==
    LET e == SealedEvent(SchemaVersion, kind, subject, session, Prev) IN
    /\ seqCtr < MaxLog /\ seqCtr' = e.seq
    /\ Traced(e)
    /\ IF lost THEN Fault /\ stored' = stored /\ writer' = {Prev}
       ELSE Appended(e) /\ UNCHANGED faults

\* record_event_with_session of a hook or a handler.
RecordEvent(kind, subject, session) ==
    /\ \E lost \in BOOLEAN : WriteEvent(kind, subject, session, lost)
    /\ UNCHANGED <<evNow, doomed, pruned, skewed, newer, touched>>

-----------------------------------------------------------------------------
(* Retention and gaps (exported; no command calls them yet).                    *)

Cutoff == IF evNow > RetentionAge THEN evNow - RetentionAge ELSE 0

PruneStarts ==
    /\ doomed = {}
    /\ doomed' = {e \in ScanEvents : e.at < Cutoff}
    /\ doomed' # {}
    /\ pruned' = [count |-> Cardinality(doomed'), first |-> Oldest(doomed').seq, last |-> Newest(doomed').seq]
    /\ UNCHANGED <<stored, seqCtr, writer, evNow, trace, skewed, newer, touched, faults>>
\* One delete, oldest first; a failed one ends the run with an error.
PruneDeletes ==
    /\ doomed # {}
    /\ LET e == Oldest(doomed) IN
       /\ stored' = {x \in stored : x.seq # e.seq}
       /\ doomed' = doomed \ {e}
    /\ UNCHANGED <<seqCtr, writer, evNow, pruned, trace, skewed, newer, touched, faults>>
PruneFails ==
    /\ Fault /\ doomed # {} /\ doomed' = {} /\ pruned' = NoRun
    /\ UNCHANGED <<stored, seqCtr, writer, evNow, trace, skewed, newer, touched>>
PruneRecords ==
    /\ doomed = {} /\ pruned # NoRun /\ pruned' = NoRun
    /\ WriteEvent("pruned", "enforcement:retention", NoSession, FALSE)
    /\ UNCHANGED <<evNow, doomed, skewed, newer, touched>>

\* detect_startup_gap, detect_and_record_gap.
DetectStartupGap ==
    /\ doomed = {} /\ ScanEvents # {}
    /\ evNow > Newest(ScanEvents).at + GapThreshold
    /\ WriteEvent("gap", "enforcement:stream", NoSession, FALSE)
    /\ UNCHANGED <<evNow, doomed, pruned, skewed, newer, touched>>

-----------------------------------------------------------------------------
(* Around the log.                                                              *)

\* The process ends, in whatever it was doing.
ProcessEnds ==
    /\ writer' = {} /\ doomed' = {} /\ pruned' = NoRun
    /\ UNCHANGED <<stored, seqCtr, evNow, trace, skewed, newer, touched, faults>>
EvTick ==
    /\ evNow < MaxNow /\ evNow' = evNow + 1
    /\ UNCHANGED <<stored, seqCtr, writer, doomed, pruned, trace, skewed, newer, touched, faults>>
ClockStepsBack ==
    /\ Fault /\ evNow > 1 /\ evNow' = evNow - 1 /\ skewed' = TRUE
    /\ UNCHANGED <<stored, seqCtr, writer, doomed, pruned, trace, newer, touched>>
\* A binary of a later version held the store meanwhile.
NewerBinary ==
    /\ doomed = {} /\ pruned = NoRun /\ Fault /\ seqCtr < MaxLog /\ newer' = TRUE
    /\ LET e == SealedEvent(SchemaVersion + 1, "deny", CHOOSE s \in Subjects : TRUE, NoSession, LoadLastHash) IN
       seqCtr' = e.seq /\ stored' = stored \cup {e} /\ Traced(e)
    /\ writer' = {}
    /\ UNCHANGED <<evNow, doomed, pruned, skewed, touched>>
\* Hands on the store file: an event's body, an event, its bytes.
Alter(e, subject, session) ==
    /\ Fault /\ touched' = TRUE
    /\ subject # e.subject \/ session # e.session
    /\ stored' = (stored \ {e}) \cup {[e EXCEPT !.subject = subject, !.session = session]}
    /\ writer' = {} /\ doomed' = {} /\ pruned' = NoRun
    /\ UNCHANGED <<seqCtr, evNow, trace, skewed, newer>>
TakeOut(e) ==
    /\ Fault /\ touched' = TRUE
    /\ stored' = stored \ {e} /\ writer' = {} /\ doomed' = {} /\ pruned' = NoRun
    /\ UNCHANGED <<seqCtr, evNow, trace, skewed, newer>>
Garble(e) ==
    /\ Fault /\ touched' = TRUE
    /\ stored' = (stored \ {e}) \cup {[e EXCEPT !.readable = FALSE]}
    /\ writer' = {} /\ doomed' = {} /\ pruned' = NoRun
    /\ UNCHANGED <<seqCtr, evNow, trace, skewed, newer>>

\* A new log, or one whose first event an older binary wrote.
EvInit ==
    /\ \E old \in BOOLEAN, s \in Subjects :
          LET e == Sealed([seq |-> 1, schema |-> 1, at |-> 1, kind |-> "deny", subject |-> s,
                           session |-> NoSession, prev |-> NoHash, hash |-> NoHash, readable |-> TRUE]) IN
          /\ stored = IF old THEN {e} ELSE {}
          /\ seqCtr = IF old THEN 1 ELSE 0
          /\ trace = [n \in 1..seqCtr |-> [event |-> e, pred |-> 0]]
    /\ writer = {} /\ evNow = 1 /\ doomed = {} /\ pruned = NoRun
    /\ skewed = FALSE /\ newer = FALSE /\ touched = FALSE /\ faults = 0

EvNext ==
    \* Receipts come from MCP calls, which carry no session.
    \/ \E k \in EvKinds, s \in Subjects, a \in Sessions \cup {NoSession} :
          (k = "receipt" => a = NoSession) /\ RecordEvent(k, s, a)
    \/ PruneStarts \/ PruneDeletes \/ PruneFails \/ PruneRecords
    \/ DetectStartupGap \/ ProcessEnds \/ EvTick \/ ClockStepsBack \/ NewerBinary
    \/ \E e \in stored : \/ TakeOut(e) \/ Garble(e)
                         \/ \E s \in Subjects : Alter(e, s, e.session)
                         \/ \E a \in Sessions : Alter(e, e.subject, a)

EvSpec == EvInit /\ [][EvNext]_evVars

-----------------------------------------------------------------------------
(* Reading it back.                                                             *)

\* verify_chain, which verify-chain and doctor print.
VerifyChain(evs) ==
    LET sorted == InOrder(evs) IN
    [tampered |-> {e \in evs : e.schema <= SchemaVersion /\ e.hash # ComputeHash(e)},
     linkage |-> {sorted[i] : i \in {j \in 2..Cardinality(evs) : sorted[j].prev # sorted[j - 1].hash}},
     unknown |-> {e \in evs : e.schema > SchemaVersion}]
IsValid(v) == v.tampered = {} /\ v.linkage = {} /\ v.unknown = {}

AggregateEventCounts(evs) ==
    [k \in EvKinds \cup {"gap", "pruned"} |-> Cardinality({e \in evs : e.kind = k})]

\* derive_enforcement_metrics: a deny and the first receipt on its subject at or after it.
Denials(evs) == {e \in evs : e.kind = "deny"}
BlockedSessions(evs) == {e.session : e \in Denials(evs)} \ {NoSession}
\* Mutant: only a receipt strictly after the deny.
ReceiptsAfterStrict(d, evs) == {r \in evs : r.kind = "receipt" /\ r.subject = d.subject /\ r.at > d.at}
ReceiptsAfter(d, evs) == {r \in evs : r.kind = "receipt" /\ r.subject = d.subject /\ r.at >= d.at}
ToConsult(d, evs) ==
    LET ts == {r.at : r \in ReceiptsAfter(d, evs)} IN (CHOOSE t \in ts : \A u \in ts : t <= u) - d.at
ConsultPairs(evs) ==
    {d \in Denials(evs) : ReceiptsAfter(d, evs) # {} /\ ToConsult(d, evs) <= ConsultWindow}
Quicker(evs) == {p \in ConsultPairs(evs) \X ConsultPairs(evs) :
                    \/ ToConsult(p[1], evs) < ToConsult(p[2], evs)
                    \/ ToConsult(p[1], evs) = ToConsult(p[2], evs) /\ p[1].seq < p[2].seq}
Deltas(evs) ==
    LET ds == Arranged(ConsultPairs(evs), Quicker(evs)) IN
    [i \in 1..Cardinality(ConsultPairs(evs)) |-> ToConsult(ds[i], evs)]
\* Of n values in order.
MedianU64(s, n) ==
    LET mid == n \div 2 IN
    IF n % 2 = 1 THEN s[mid + 1] ELSE (s[mid] + s[mid + 1]) \div 2

\* mati history --enforcement: the last ones of those that match.
EventHistory(since, kinds, limit) ==
    LET found == {e \in ScanEvents : e.at >= since /\ e.kind \in kinds}
        total == Cardinality(found)
        skip == IF total <= limit THEN 0 ELSE total - limit IN
    [i \in 1..(total - skip) |-> InOrder(found)[skip + i]]

-----------------------------------------------------------------------------
(* Properties.                                                                  *)

\* What verify_chain reports is what was done to the log: it finds exactly the
\* events whose hashed contents are not the written ones, and exactly the
\* neighbours of which one was not written after the other; whoever wrote them,
\* whatever was pruned, killed, garbled or removed in between. A session id put
\* on an event of version 1, which has none, is the one change it cannot see.
VerifyExact ==
    LET v == VerifyChain(ScanEvents)
        sorted == InOrder(ScanEvents)
        Changed(e) == LET w == trace[e.seq].event IN
                      \/ e.subject # w.subject
                      \/ e.schema >= 2 /\ e.session # w.session IN
    /\ v.tampered = {e \in ScanEvents : e.schema <= SchemaVersion /\ Changed(e)}
    /\ v.linkage = {sorted[i] : i \in {j \in 2..Cardinality(ScanEvents) : trace[sorted[j].seq].pred # sorted[j - 1].seq}}

\* A log nobody touched verifies, also after kills, lost writes, retention runs
\* that were cut short and restarts, as long as the clock never stepped back (a
\* retention run after such a step deletes out of the middle).
OwnLogVerifies == ~touched /\ ~skewed /\ ~newer => IsValid(VerifyChain(ScanEvents))

\* verify_chain reports every alteration of a hashed field and every wrong
\* neighbour, nothing else, and nothing at all in a log mati alone has written.
ChainExact == VerifyExact /\ OwnLogVerifies

\* The figures agree with the log: every deny answered later in the log by a
\* receipt on its subject within the window feeds the median (while the clock
\* runs forward), the median has as many pairs on either side, the counts add
\* up, and the history shows the latest events that match and no others.
FiguresMatchLog ==
    LET evs == ScanEvents
        answered == {d \in Denials(evs) : \E r \in evs : /\ r.kind = "receipt" /\ r.subject = d.subject
                                                         /\ r.seq > d.seq /\ r.at <= d.at + ConsultWindow} IN
    /\ ~skewed => answered \subseteq ConsultPairs(evs)
    /\ LET s == Deltas(evs) n == Cardinality(ConsultPairs(evs)) m == MedianU64(s, n) IN
       n > 0 => Cardinality({i \in 1..n : s[i] < m}) <= Cardinality({i \in 1..n : s[i] >= m})
    /\ BlockedSessions(evs) # {} => Cardinality(BlockedSessions(evs)) <= AggregateEventCounts(evs)["deny"]
    /\ \A limit \in 1..2 :
          LET shown == Range(EventHistory(0, {"deny"}, limit)) IN
          /\ \A e \in shown, f \in Denials(evs) : f.seq > e.seq => f \in shown
          /\ Denials(evs) # {} => shown # {} /\ Cardinality(shown) <= limit

\* What is computed from the log of enforcement is true of it.
EvidenceTrue == ChainExact /\ FiguresMatchLog
=============================================================================

---------------------------- MODULE DispatchProofs ----------------------------
(***************************************************************************)
(* Proofs about Dispatch, for any connections, commands and bounds.        *)
(***************************************************************************)
EXTENDS Dispatch, Integers, TLAPS

\* A record whose stamps are at most n; one that does not exist has no content.
RecSet(n) == [life : {"none", "active", "dead"},
              src : {"static", "agent", "dev", "hook", "import"}, conf : BOOLEAN,
              text : 0..n, shape : 0..n, links : 0..n, hits : 0..n]
RecAt(n)  == {r \in RecSet(n) : r.life = "none" => r = Absent}

AskRec == [cmd : Cmds, result : {"open", "ok", "err", "cut"}]

\* What a connection may be doing, a command and how far it got, and the
\* deferred writes, with stamps up to n and requests I.
ConnAt(n, I) == [pc : {"idle", "run", "fenced", "reject", "noop", "failed"}, id : Nat,
                 cmd : Cmds \cup {"none"}, at : Nat, left : Int,
                 snap : [Keys -> RecAt(n)], seen : SUBSET I, agg : BOOLEAN]
JobAt(n, I)  == [id : I, pc : {"get", "put", "agg", "count"}, snap : [Keys -> RecAt(n)],
                 seen : SUBSET I]

\* The types of the state, the locals of connections and deferred writes included.
StoreTypes ==
    /\ clock \in Nat
    /\ rec \in [Keys -> RecAt(clock)] /\ truth \in [Keys -> RecSet(clock)]
    /\ day \subseteq Ids /\ receipts \subseteq Ids /\ counted \subseteq Ids
JobTypes ==
    /\ spawned \subseteq JobAt(clock, Ids)
    /\ \A j \in spawned : asked[j.id].cmd \in SideEffectingReads
ConnTypes ==
    /\ asked \in Seq(AskRec)
    /\ conn \in [Conns -> ConnAt(clock, Ids)]
    /\ mute \subseteq Ids
    /\ \A row \in audits : row.id \in Ids
    /\ \A e \in effects : e.id \in Ids

\* A command at a step has committed to the knowledge tree, to the sessions
\* tree, and goes on.
KnowDone(cmd, at) ==
    \/ cmd = "record_import" /\ at = 2
    \/ cmd = "file_reparse" /\ at > 2
    \/ cmd = "file_edit_hook" /\ at > 6
SessDone(cmd, at) == cmd \in {"consultation_hit", "file_edit_hook"} /\ at > 2

\* A connection that works is somewhere in the route of its command; it gives
\* up or finds nothing to write only before the commit, and commits only what
\* it has not refused.
Placed(k) ==
    /\ k.cmd \in Cmds
    /\ k.pc # "fenced" => k.at \in 1..Len(Route(k.cmd))
    /\ k.pc = "fenced" => k.at = 1
    /\ k.pc = "noop" => \/ k.at = 1 /\ k.cmd \in {"file_reparse", "doc_capture"}
                        \/ k.at = 5 /\ k.cmd = "file_edit_hook"
    /\ k.pc = "reject" => /\ ~SessDone(k.cmd, k.at)
                          /\ KnowDone(k.cmd, k.at) => k.cmd = "record_import"
    /\ k.pc = "failed" => k.cmd = "mem_bootstrap" /\ k.at = 1
    /\ k.cmd = "record_import" => k.left = 3 - k.at
    /\ k.pc = "run" /\ Route(k.cmd)[k.at] = "commit" /\ k.cmd # "record_import"
          => ~Refused(k.cmd, k.snap) /\ ~MustBeNoop(k.cmd, k.snap)

\* What the request i has changed so far is in the audit log, and nothing else
\* is: its rows au, effects ef and lost rows mu.
LoggedIn(i, cmd, at, au, ef, mu) ==
    /\ \A row \in au : row.id = i => row.ok
    /\ \A e \in ef : e.id = i =>
          \/ cmd = "session_harvest"
          \/ e.tree = "knowledge" /\ KnowDone(cmd, at)
          \/ e.tree = "sessions" /\ SessDone(cmd, at)
    /\ KnowDone(cmd, at) => Row("knowledge", i, TRUE) \in au
    /\ SessDone(cmd, at) => Row("sessions", i, TRUE) \in au \/ i \in mu

\* A connection that works has an open request of its own.
Working(c) ==
    /\ conn[c].id \in Ids
    /\ asked[conn[c].id].cmd = conn[c].cmd /\ asked[conn[c].id].result = "open"
    /\ Placed(conn[c])
    /\ LoggedIn(conn[c].id, conn[c].cmd, conn[c].at, audits, effects, mute)
ConnInv ==
    /\ \A c \in Conns : conn[c].pc # "idle" => Working(c)
    /\ \A c, d \in Conns :
          conn[c].pc # "idle" /\ conn[d].pc # "idle" /\ conn[c].id = conn[d].id => c = d

\* A deferred write puts back a record that was there.
JobInv == \A j \in spawned : j.pc = "put" => j.snap["file"].life # "none"

IInv == /\ StoreTypes /\ JobTypes /\ ConnTypes
        /\ ConnInv /\ JobInv /\ AuditMatches /\ SerialOutcome
-----------------------------------------------------------------------------
(* The records.                                                            *)

LEMMA RecordAt == Record = RecSet(clock)
BY DEF Record, RecSet

LEMMA RecordGrows ==
  ASSUME NEW n \in Nat, NEW m \in Nat, n <= m
  PROVE  /\ \A r \in RecSet(n) : r \in RecSet(m)
         /\ \A r \in RecAt(n) : r \in RecAt(m)
<1>1. \A r \in RecSet(n) : r \in RecSet(m)
  BY DEF RecSet
<1> QED BY <1>1 DEF RecAt

\* Two records with the same fields are the same.
LEMMA RecordEqual ==
  ASSUME NEW n, NEW r \in RecSet(n), NEW q \in RecSet(n), \A f \in Fields : r[f] = q[f]
  PROVE  r = q
BY DEF RecSet, Fields

\* A record that takes some fields of one and the rest of another.
Mix(F, r, q) == [f \in Fields |-> IF f \in F THEN r[f] ELSE q[f]]

LEMMA RecordMix ==
  ASSUME NEW n, NEW r \in RecSet(n), NEW q \in RecSet(n), NEW F
  PROVE  /\ Mix(F, r, q) \in RecSet(n)
         /\ \A f \in Fields : Mix(F, r, q)[f] = IF f \in F THEN r[f] ELSE q[f]
<1>1. Mix(F, r, q) \in RecSet(n)
  BY DEF RecSet, Fields, Mix
<1> QED BY <1>1 DEF Mix

LEMMA StubFacts ==
  ASSUME NEW n \in Nat
  PROVE  /\ Stub \in RecAt(n) /\ Absent \in RecAt(n)
         /\ Stub.life = "active" /\ \A f \in Fields \ {"life"} : Stub[f] = Absent[f]
<1>1. 0 \in 0..n
  OBVIOUS
<1>2. Absent \in RecSet(n) /\ Stub \in RecSet(n)
  BY <1>1 DEF Stub, Absent, RecSet
<1>3. Stub.life = "active" /\ \A f \in Fields \ {"life"} : Stub[f] = Absent[f]
  BY DEF Stub, Absent, Fields
<1> QED BY <1>2, <1>3 DEF RecAt

\* Every command changes the fields that are its business and no others.
LEMMA PlanFacts ==
  ASSUME NEW n \in Nat, NEW s \in [Keys -> RecAt(n)],
         NEW cmd \in KnowledgeMutations \cup Compound, NEW left,
         NEW k \in Puts(cmd, left),
         cmd # "record_import" => ~Refused(cmd, s) /\ ~MustBeNoop(cmd, s)
  PROVE  LET w == Plan(cmd, s, n + 1, left)[k]
         IN  w \in RecAt(n + 1) /\ \A f \in Fields \ Owned(cmd)[k] : w[f] = s[k][f]
<1> DEFINE w == Plan(cmd, s, n + 1, left)[k]
           same(F) == \A f \in Fields \ F : w[f] = s[k][f]
<1>0. /\ n + 1 \in Nat /\ n + 1 \in 0..(n + 1)
      /\ \A x \in Keys : s[x] \in RecAt(n + 1)
  BY RecordGrows
<1>1. Stub \in RecAt(n + 1) /\ Stub \in RecSet(n + 1)
  BY <1>0, StubFacts DEF RecAt
<1>m. \A x \in Keys : s[x] \in RecSet(n + 1)
  BY <1>0 DEF RecAt
\* A record with content.
<1>r. w \in RecSet(n + 1) /\ w.life # "none" => w \in RecAt(n + 1)
  BY DEF RecAt
<1>k. {"file", "gotcha", "decision", "note"} = Keys
  BY DEF Keys
\* A file without a record gets a stub, with the fields of no record but its life.
<1>l. ASSUME NEW r \in RecAt(n + 1)
      PROVE  LET x == [(IF r.life = "none" THEN Stub ELSE r) EXCEPT !.links = n + 1]
             IN  x \in RecAt(n + 1) /\ \A f \in Fields \ {"life", "links"} : x[f] = r[f]
  <2>1. CASE r.life = "none"
    <3>1. r = Absent /\ Stub \in RecAt(n + 1) /\ Stub.life = "active"
          /\ \A f \in Fields \ {"life"} : Stub[f] = r[f]
      BY <1>0, <2>1, StubFacts DEF RecAt
    <3>2. [Stub EXCEPT !.links = n + 1] \in RecSet(n + 1)
      BY <1>0, <3>1 DEF RecAt, RecSet
    <3>3. /\ [Stub EXCEPT !.links = n + 1].life = "active"
          /\ \A f \in Fields \ {"life", "links"} : [Stub EXCEPT !.links = n + 1][f] = r[f]
      BY <3>1 DEF RecAt, RecSet, Fields
    <3> QED BY <2>1, <3>2, <3>3 DEF RecAt
  <2>2. CASE r.life # "none"
    BY <1>0, <2>2 DEF RecAt, RecSet, Fields
  <2> QED BY <2>1, <2>2
<1>2. CASE cmd = "gotcha_upsert"
  <2>1. CASE k = "gotcha"
    <3>1. PICK old \in RecAt(n + 1) :
             /\ old.life # "none"
             /\ w = [old EXCEPT !.text = n + 1, !.src = "agent", !.conf = FALSE]
      BY <1>0, <1>1, <1>2, <1>k, <2>1, StubFacts DEF Plan, Upserted
    <3>2. w \in RecAt(n + 1)
      <4>1. old \in RecSet(n + 1)
        BY DEF RecAt
      <4>2. w \in RecSet(n + 1) /\ w.life = old.life
        BY <1>0, <3>1, <4>1 DEF RecSet
      <4> QED BY <1>r, <3>1, <4>2
    <3>3. Owned(cmd)[k] = Fields
      BY <1>2, <1>k, <2>1 DEF Owned, Only
    <3> QED BY <3>2, <3>3
  <2>2. CASE k = "file"
    <3>1. w = [(IF s["file"].life = "none" THEN Stub ELSE s["file"]) EXCEPT !.links = n + 1]
      BY <1>2, <1>k, <2>2 DEF Plan, Upserted
    <3>2. Owned(cmd)[k] = {"life", "links"}
      BY <1>2, <1>k, <2>2 DEF Owned, Only
    <3> QED BY <1>0, <1>k, <1>l, <2>2, <3>1, <3>2
  <2>3. k = "gotcha" \/ k = "file"
    BY <1>2 DEF Puts
  <2> QED BY <2>1, <2>2, <2>3
<1>g. cmd = "gotcha_confirm" => s["gotcha"].life # "none"
  BY DEF Refused
<1>3. CASE cmd = "gotcha_confirm"
  <2>1. CASE k = "gotcha"
    <3>1. w = [s["gotcha"] EXCEPT !.src = "dev", !.conf = TRUE]
      BY <1>3, <1>k, <2>1 DEF Plan, Confirmed
    <3>2. Owned(cmd)[k] = {"src", "conf"}
      BY <1>3, <1>k, <2>1 DEF Owned, Only
    <3> HIDE DEF w
    <3>3. s["gotcha"] \in RecSet(n + 1)
      BY <1>k, <1>m
    <3>4. w \in RecSet(n + 1) /\ w.life # "none"
      BY <1>g, <1>3, <3>1, <3>3 DEF RecSet
    <3>5. same(Owned(cmd)[k])
      BY <2>1, <3>1, <3>2, <3>3 DEF RecSet, Fields
    <3> QED BY <1>r, <3>4, <3>5 DEF w
  <2>2. CASE k = "file"
    <3>1. w = [(IF s["file"].life = "none" THEN Stub ELSE s["file"]) EXCEPT !.links = n + 1]
      BY <1>3, <1>k, <2>2 DEF Plan, Confirmed
    <3>2. Owned(cmd)[k] = {"life", "links"}
      BY <1>3, <1>k, <2>2 DEF Owned, Only
    <3> QED BY <1>0, <1>k, <1>l, <2>2, <3>1, <3>2
  <2>3. k = "gotcha" \/ k = "file"
    BY <1>3 DEF Puts
  <2> QED BY <2>1, <2>2, <2>3
<1>4. CASE cmd = "gotcha_tombstone"
  <2>1. CASE k = "gotcha"
    <3>1. w = [s["gotcha"] EXCEPT !.life = "dead"]
      BY <1>4, <1>k, <2>1 DEF Plan, Tombstoned
    <3>2. Owned(cmd)[k] = {"life"}
      BY <1>4, <1>k, <2>1 DEF Owned, Only
    <3> HIDE DEF w
    <3>3. s["gotcha"] \in RecSet(n + 1)
      BY <1>k, <1>m
    <3>4. w \in RecSet(n + 1) /\ w.life # "none"
      BY <3>1, <3>3 DEF RecSet
    <3>5. same(Owned(cmd)[k])
      BY <2>1, <3>1, <3>2, <3>3 DEF RecSet, Fields
    <3> QED BY <1>r, <3>4, <3>5 DEF w
  <2>2. CASE k = "file"
    <3>1. w = IF s["file"].life = "none" THEN s["file"] ELSE [s["file"] EXCEPT !.links = n + 1]
      BY <1>4, <1>k, <2>2 DEF Plan, Tombstoned
    <3>2. Owned(cmd)[k] = {"links"}
      BY <1>4, <1>k, <2>2 DEF Owned, Only
    <3> HIDE DEF w
    <3>3. s["file"] \in RecSet(n + 1) /\ s["file"] \in RecAt(n + 1)
      BY <1>0, <1>k, <1>m
    <3>4. w \in RecAt(n + 1)
      <4>1. CASE s["file"].life # "none"
        <5>1. w \in RecSet(n + 1) /\ w.life # "none"
          BY <1>0, <3>1, <3>3, <4>1 DEF RecSet
        <5> QED BY <1>r, <5>1
      <4> QED BY <3>1, <3>3, <4>1
    <3>5. same(Owned(cmd)[k])
      BY <2>2, <3>1, <3>2, <3>3 DEF RecSet, Fields
    <3> QED BY <3>4, <3>5 DEF w
  <2>3. k = "gotcha" \/ k = "file"
    BY <1>4 DEF Puts
  <2> QED BY <2>1, <2>2, <2>3
<1>5. CASE cmd \in {"file_enrich", "doc_capture"}
  <2>1. k = "file" /\ Owned(cmd)[k] = {"text", "src"}
    BY <1>5, <1>k DEF Puts, Target, Owned, Only
  <2>2. PICK sr \in {"static", "agent", "dev", "hook", "import"} :
           w = [s["file"] EXCEPT !.text = n + 1, !.src = sr]
    <3>1. s["file"] \in RecAt(n)
      BY <1>k
    <3>2. s["file"].src \in {"static", "agent", "dev", "hook", "import"}
      BY <3>1 DEF RecAt, RecSet
    <3>3. CASE cmd = "file_enrich"
      BY <1>k, <2>1, <3>2, <3>3 DEF Plan, FileEnriched, Enriched
    <3>4. CASE cmd = "doc_capture"
      BY <1>k, <2>1, <3>4 DEF Plan, DocCaptured
    <3> QED BY <1>5, <3>3, <3>4
  <2>3. s["file"].life # "none"
    BY <1>5 DEF Refused, MustBeNoop
  <2> HIDE DEF w
  <2>4. s["file"] \in RecSet(n + 1)
    BY <1>k, <1>m
  <2>5. w \in RecSet(n + 1) /\ w.life # "none"
    BY <1>0, <2>2, <2>3, <2>4 DEF RecSet
  <2>6. same(Owned(cmd)[k])
    BY <2>1, <2>2, <2>4 DEF RecSet, Fields
  <2> QED BY <1>r, <2>5, <2>6 DEF w
<1>6. CASE cmd \in {"file_reparse", "file_edit_hook"}
  <2>1. k = "file" /\ Owned(cmd)[k] = {"life", "shape"}
    BY <1>6, <1>k DEF Puts, Target, Owned, Only
  <2>2. w = IF s["file"].life = "none" THEN [Stub EXCEPT !.shape = n + 1]
            ELSE [s["file"] EXCEPT !.shape = n + 1]
    BY <1>6, <1>k, <2>1 DEF Plan, Reparsed
  <2>3. s["file"] \in RecSet(n + 1) /\ s["file"] \in RecAt(n)
    BY <1>k, <1>m
  <2> HIDE DEF w
  <2>4. CASE s["file"].life = "none"
    <3>1. s["file"] = Absent
      BY <2>3, <2>4 DEF RecAt
    <3>2. w \in RecSet(n + 1) /\ w.life # "none"
      BY <1>0, <1>1, <2>2, <2>4, StubFacts DEF RecSet
    <3>3. \A f \in Fields \ {"shape"} : w[f] = Stub[f]
      BY <1>1, <2>2, <2>4 DEF RecSet, Fields
    <3>4. same(Owned(cmd)[k])
      BY <1>0, <2>1, <3>1, <3>3, StubFacts
    <3> QED BY <1>r, <3>2, <3>4 DEF w
  <2>5. CASE s["file"].life # "none"
    <3>1. w \in RecSet(n + 1) /\ w.life # "none"
      BY <1>0, <2>2, <2>3, <2>5 DEF RecSet
    <3>2. same(Owned(cmd)[k])
      BY <2>1, <2>2, <2>3, <2>5 DEF RecSet, Fields
    <3> QED BY <1>r, <3>1, <3>2 DEF w
  <2> QED BY <2>4, <2>5
<1>7. CASE cmd \in {"decision_upsert", "dev_note_upsert"}
  <2>1. k \in {"decision", "note"} /\ Owned(cmd)[k] = {"life", "text", "src"}
    BY <1>7, <1>k DEF Puts, Target, Owned, Only
  <2>2. PICK sr \in {"static", "agent", "dev", "hook", "import"} :
           w = [s[k] EXCEPT !.life = "active", !.text = n + 1, !.src = sr]
    <3>1. s[k].src \in {"static", "agent", "dev", "hook", "import"}
      BY <1>k, <1>m, <2>1 DEF RecSet
    <3>2. CASE cmd = "decision_upsert"
      BY <1>k, <3>1, <3>2 DEF Plan, DecisionUpserted, Enriched, Puts, Target
    <3>3. CASE cmd = "dev_note_upsert"
      BY <1>k, <3>1, <3>3 DEF Plan, DevNoteUpserted, Puts, Target
    <3> QED BY <1>7, <3>2, <3>3
  <2> HIDE DEF w
  <2>3. s[k] \in RecSet(n + 1)
    BY <1>k, <1>m, <2>1
  <2>4. w \in RecSet(n + 1) /\ w.life # "none"
    BY <1>0, <2>2, <2>3 DEF RecSet
  <2>5. same(Owned(cmd)[k])
    BY <2>1, <2>2, <2>3 DEF RecSet, Fields
  <2> QED BY <1>r, <2>4, <2>5 DEF w
<1>8. CASE cmd = "record_import"
  <2>1. Owned(cmd)[k] = Fields /\ k \in {"decision", "note"}
    BY <1>8, <1>k DEF Owned, Puts
  <2>2. w = [Stub EXCEPT !.src = "import", !.text = n + 1, !.shape = n + 1, !.links = n + 1]
    BY <1>8, <1>k DEF Plan, Imported, Puts
  <2> HIDE DEF w
  <2>3. w \in RecSet(n + 1) /\ w.life = Stub.life
    BY <1>0, <1>1, <2>2 DEF RecSet
  <2> QED BY <1>0, <1>r, <2>1, <2>3, StubFacts DEF w
<1> QED BY <1>2, <1>3, <1>4, <1>5, <1>6, <1>7, <1>8 DEF KnowledgeMutations, Compound

\* The records w that are put come from the copies s: what is not the writer's
\* own is as it was there.
FromCopy(ks, w, s, own) ==
    \A k \in ks : /\ w[k] \in RecAt(clock + 1)
                 /\ \A f \in Fields \ own[k] : w[k][f] = s[k][f]

\* A write keeps the records what their commands make of them, unless it raced.
LEMMA WriteKeeps ==
  ASSUME StoreTypes, SerialOutcome, NEW ks \in SUBSET Keys, NEW w, NEW own,
         NEW s \in [Keys -> RecAt(clock)], FromCopy(ks, w, s, own),
         Write(ks, w, s, own), UNCHANGED <<day, counted>>
  PROVE  /\ clock' = clock + 1
         /\ rec' \in [Keys -> RecAt(clock')] /\ truth' \in [Keys -> RecSet(clock')]
         /\ SerialOutcome'
<1> DEFINE n == clock + 1
<1>0. /\ clock \in Nat /\ n \in Nat /\ clock' = n
      /\ rec \in [Keys -> RecAt(clock)] /\ truth \in [Keys -> RecSet(clock)]
  BY DEF StoreTypes, Write
<1>1. /\ \A k \in Keys : rec[k] \in RecAt(n) /\ rec[k] \in RecSet(n) /\ truth[k] \in RecSet(n)
      /\ \A k \in ks : w[k] \in RecAt(n) /\ w[k] \in RecSet(n)
  BY <1>0, RecordGrows DEF RecAt, FromCopy
<1>2. /\ \A k \in Keys : rec'[k] = IF k \in ks THEN w[k] ELSE rec[k]
      /\ rec' = [k \in Keys |-> rec'[k]]
  BY DEF Write
<1>3. ASSUME NEW k \in Keys
      PROVE  /\ truth'[k] \in RecSet(n)
             /\ \A f \in Fields : truth'[k][f] = IF k \in ks /\ f \in own[k] THEN w[k][f]
                                                 ELSE truth[k][f]
  <2>1. truth'[k] = [f \in Fields |-> IF k \in ks /\ f \in own[k] THEN w[k][f] ELSE truth[k][f]]
    BY DEF Write
  <2>2. CASE k \in ks
    <3>1. truth'[k] = Mix(own[k], w[k], truth[k])
      BY <2>1, <2>2 DEF Mix
    <3>2. w[k] \in RecSet(n) /\ truth[k] \in RecSet(n)
      BY <1>1, <2>2
    <3> QED BY <2>2, <3>1, <3>2, RecordMix
  <2>3. CASE k \notin ks
    <3>1. truth'[k] = Mix({}, truth[k], truth[k])
      BY <2>1, <2>3 DEF Mix
    <3> QED BY <1>1, <2>3, <3>1, RecordMix
  <2> QED BY <2>2, <2>3
<1>4. truth' \in [Keys -> RecSet(n)]
  <2>1. truth' = [k \in Keys |-> truth'[k]]
    BY DEF Write
  <2> QED BY <1>3, <2>1
<1>5. ASSUME NEW k \in Keys \ raced' PROVE rec'[k] = truth'[k]
  <2>1. k \notin raced /\ (k \in ks => s[k] = rec[k])
    BY <1>5 DEF Write
  <2>2. rec[k] = truth[k]
    BY <2>1 DEF SerialOutcome
  <2>3. \A f \in Fields : rec'[k][f] = truth'[k][f]
    BY <1>2, <1>3, <2>1, <2>2 DEF FromCopy
  <2>4. rec'[k] \in RecSet(n) /\ truth'[k] \in RecSet(n)
    BY <1>1, <1>2, <1>3
  <2> QED BY <2>3, <2>4, RecordEqual
<1>6. "day" \notin raced' => day' = counted'
  BY DEF Write, SerialOutcome
<1> QED BY <1>0, <1>1, <1>2, <1>4, <1>5, <1>6 DEF SerialOutcome

\* The day's aggregate: written from a copy, with one request more.
LEMMA TallyKeeps ==
  ASSUME SerialOutcome, NEW yes \in BOOLEAN, NEW seen, NEW id, Tally(yes, seen, id),
         day' = IF yes THEN seen \cup {id} ELSE day, UNCHANGED <<rec, truth>>
  PROVE  SerialOutcome'
<1>1. raced \subseteq raced'
  BY DEF Tally
<1>2. \A k \in Keys \ raced' : rec'[k] = truth'[k]
  BY <1>1 DEF SerialOutcome
<1>3. ASSUME "day" \notin raced' PROVE day' = counted'
  <2>1. day = counted /\ (yes => seen = day)
    BY <1>1, <1>3 DEF SerialOutcome, Tally
  <2> QED BY <2>1 DEF Tally
<1> QED BY <1>2, <1>3 DEF SerialOutcome

LEMMA SerialSame ==
  ASSUME SerialOutcome, UNCHANGED <<rec, truth, raced, day, counted>>
  PROVE  SerialOutcome'
BY DEF SerialOutcome

LEMMA LocalGrows ==
  ASSUME NEW n \in Nat, NEW m \in Nat, n <= m, NEW I, NEW J, I \subseteq J
  PROVE  /\ \A s \in [Keys -> RecAt(n)] : s \in [Keys -> RecAt(m)]
         /\ \A k \in ConnAt(n, I) : k \in ConnAt(m, J)
         /\ \A j \in JobAt(n, I) : j \in JobAt(m, J)
<1>1. \A s \in [Keys -> RecAt(n)] : s \in [Keys -> RecAt(m)]
  BY RecordGrows
<1> QED BY <1>1 DEF ConnAt, JobAt

-----------------------------------------------------------------------------
(* The routes.                                                             *)

Plain == KnowledgeMutations \ {"file_reparse", "record_import"}

LEMMA Routes ==
  /\ \A cmd \in Plain : Route(cmd) = <<"load", "commit">>
  /\ Route("file_reparse") = <<"load", "commit", "cload", "cascade">>
  /\ Route("record_import") = <<"commit", "commit">>
  /\ Route("mem_get") = <<"load", "sessions">>
  /\ Route("mem_bootstrap") = <<"load", "stage", "sessions">>
  /\ Route("session_log") = <<"stage", "sessions">>
  /\ Route("consultation_hit") = <<"stage", "sessions", "bload", "bump">>
  /\ Route("file_edit_hook") = <<"stage", "sessions", "bload", "bump",
                                 "load", "commit", "cload", "cascade">>
  /\ Route("session_flush") = <<"stage", "sessions">>
  /\ Route("session_harvest") = <<"pload", "promote", "archive", "sweep", "report">>
  /\ Route("session_clear_consults") = <<"sweep">>
BY DEF Route, Plain, KnowledgeMutations

LEMMA NoRoute ==
  ASSUME NEW cmd \in Cmds, Route(cmd) = <<>>
  PROVE  cmd \in Unaudited
<1>1. /\ <<"load", "commit">> # <<>> /\ <<"load", "commit", "cload", "cascade">> # <<>>
      /\ <<"commit", "commit">> # <<>> /\ <<"load", "sessions">> # <<>>
      /\ <<"load", "stage", "sessions">> # <<>> /\ <<"stage", "sessions">> # <<>>
      /\ <<"stage", "sessions", "bload", "bump">> # <<>>
      /\ <<"stage", "sessions", "bload", "bump", "load", "commit", "cload", "cascade">> # <<>>
      /\ <<"pload", "promote", "archive", "sweep", "report">> # <<>> /\ <<"sweep">> # <<>>
  OBVIOUS
<1> QED BY <1>1, Routes, CommandsAssumption
        DEF Command, Unaudited, Plain, SideEffectingReads, SessionSide, Compound

\* The commands with a route of their own.
Routed == Plain \cup {"file_reparse", "record_import", "mem_get", "mem_bootstrap",
                      "session_log", "consultation_hit", "file_edit_hook",
                      "session_flush", "session_harvest", "session_clear_consults"}

LEMMA RouteStart ==
  ASSUME NEW cmd \in Cmds, Route(cmd) # <<>>
  PROVE  1 \in 1..Len(Route(cmd))
<1>1. cmd \in Routed
  BY DEF Route, Routed, Plain, KnowledgeMutations
<1>2. cmd \in Plain => Route(cmd) = <<"load", "commit">>
  BY Routes
<1>3. Len(Route(cmd)) \in {1, 2, 3, 4, 5, 8}
  BY <1>1, <1>2, Routes DEF Routed
<1> QED BY <1>3

\* Where each store access of a command is in its route.
LEMMA StepFacts ==
  ASSUME NEW cmd \in Cmds, NEW at \in 1..Len(Route(cmd))
  PROVE  LET st == Route(cmd)[at] IN
         /\ st = "load" =>
              \/ at = 1 /\ cmd \in Plain \cup {"file_reparse", "mem_get", "mem_bootstrap"}
              \/ at = 5 /\ cmd = "file_edit_hook"
         /\ st = "commit" =>
              \/ at = 2 /\ cmd \in Plain \cup {"file_reparse"}
              \/ at \in {1, 2} /\ cmd = "record_import"
              \/ at = 6 /\ cmd = "file_edit_hook"
         /\ st = "stage" =>
              \/ at = 2 /\ cmd = "mem_bootstrap"
              \/ at = 1 /\ cmd \in {"session_log", "consultation_hit", "file_edit_hook",
                                    "session_flush"}
         /\ st = "sessions" =>
              \/ at = 3 /\ cmd = "mem_bootstrap"
              \/ at = 2 /\ cmd \in {"mem_get", "session_log", "consultation_hit",
                                    "file_edit_hook", "session_flush"}
         /\ st \in {"bload", "cload", "pload"} =>
              \/ at = 3 /\ cmd \in {"consultation_hit", "file_edit_hook", "file_reparse"}
              \/ at = 7 /\ cmd = "file_edit_hook"
              \/ at = 1 /\ cmd = "session_harvest"
         /\ st \in {"bump", "cascade"} =>
              \/ at = 4 /\ cmd \in {"consultation_hit", "file_edit_hook", "file_reparse"}
              \/ at = 8 /\ cmd = "file_edit_hook"
         /\ st = "promote" => at = 2 /\ cmd = "session_harvest"
         /\ st = "archive" => at = 3 /\ cmd = "session_harvest"
         /\ st = "sweep" => \/ at = 4 /\ cmd = "session_harvest"
                            \/ at = 1 /\ cmd = "session_clear_consults"
         /\ st = "report" => at = 5 /\ cmd = "session_harvest"
<1>1. Len(<<>>) = 0 /\ Route(cmd) # <<>>
  OBVIOUS
<1>2. cmd \in Routed
  BY <1>1 DEF Route, Routed, Plain, KnowledgeMutations
<1>3. CASE cmd \in Plain
  BY <1>3, Routes DEF Plain, KnowledgeMutations
<1>4. CASE cmd = "file_reparse"
  <2>1. Route(cmd) = <<"load", "commit", "cload", "cascade">>
    BY <1>4, Routes
  <2>2. at \in 1..4
    BY <2>1
  <2> QED BY <1>4, <2>1, <2>2
<1>5. CASE cmd = "record_import"
  <2>1. Route(cmd) = <<"commit", "commit">>
    BY <1>5, Routes
  <2>2. at \in 1..2
    BY <2>1
  <2> QED BY <1>5, <2>1, <2>2
<1>6. CASE cmd = "mem_get"
  <2>1. Route(cmd) = <<"load", "sessions">>
    BY <1>6, Routes
  <2>2. at \in 1..2
    BY <2>1
  <2> QED BY <1>6, <2>1, <2>2
<1>7. CASE cmd = "mem_bootstrap"
  <2>1. Route(cmd) = <<"load", "stage", "sessions">>
    BY <1>7, Routes
  <2>2. at \in 1..3
    BY <2>1
  <2> QED BY <1>7, <2>1, <2>2
<1>8. CASE cmd = "session_log"
  <2>1. Route(cmd) = <<"stage", "sessions">>
    BY <1>8, Routes
  <2>2. at \in 1..2
    BY <2>1
  <2> QED BY <1>8, <2>1, <2>2
<1>9. CASE cmd = "consultation_hit"
  <2>1. Route(cmd) = <<"stage", "sessions", "bload", "bump">>
    BY <1>9, Routes
  <2>2. at \in 1..4
    BY <2>1
  <2> QED BY <1>9, <2>1, <2>2
<1>10. CASE cmd = "file_edit_hook"
  <2>1. Route(cmd) = <<"stage", "sessions", "bload", "bump", "load", "commit", "cload", "cascade">>
    BY <1>10, Routes
  <2>2. at \in 1..8
    BY <2>1
  <2> QED BY <1>10, <2>1, <2>2
<1>11. CASE cmd = "session_flush"
  <2>1. Route(cmd) = <<"stage", "sessions">>
    BY <1>11, Routes
  <2>2. at \in 1..2
    BY <2>1
  <2> QED BY <1>11, <2>1, <2>2
<1>12. CASE cmd = "session_harvest"
  <2>1. Route(cmd) = <<"pload", "promote", "archive", "sweep", "report">>
    BY <1>12, Routes
  <2>2. at \in 1..5
    BY <2>1
  <2> QED BY <1>12, <2>1, <2>2
<1>13. CASE cmd = "session_clear_consults"
  BY <1>13, Routes
<1> QED BY <1>2, <1>3, <1>4, <1>5, <1>6, <1>7, <1>8, <1>9, <1>10, <1>11, <1>12, <1>13 DEF Routed
-----------------------------------------------------------------------------
(* The requests and their audit rows.                                      *)

\* One connection moves on or answers; r says which.
LEMMA ActKeeps ==
  ASSUME IInv, NEW c \in Conns, conn[c].pc # "idle",
         NEW m, conn' = [conn EXCEPT ![c] = m],
         NEW r \in {"open", "ok", "err"},
         asked' = [asked EXCEPT ![conn[c].id].result = r],
         clock' \in {clock, clock + 1},
         audits \subseteq audits', effects \subseteq effects',
         mute' \in {mute, mute \cup {conn[c].id}},
         \A row \in audits' \ audits : row.id = conn[c].id,
         \A e \in effects' \ effects : e.id = conn[c].id,
         r # "open" => m = Idle,
         r = "open" => /\ m \in ConnAt(clock', Ids) /\ m.pc # "idle"
                       /\ m.id = conn[c].id /\ m.cmd = conn[c].cmd /\ Placed(m)
                       /\ LoggedIn(m.id, m.cmd, m.at, audits', effects', mute'),
         \A e \in effects' \ effects :
             \/ Row(e.tree, e.id, TRUE) \in audits'
             \/ conn[c].cmd = "session_harvest"
             \/ conn[c].cmd = "mem_bootstrap" /\ Row("sessions", e.id, FALSE) \in audits',
         \A row \in audits', e \in effects' :
             ~row.ok /\ row.id = e.id /\ e.id = conn[c].id =>
                 \/ conn[c].cmd \in {"session_harvest", "mem_bootstrap"}
                 \/ conn[c].cmd = "record_import" /\ Row("knowledge", e.id, TRUE) \in audits',
         r = "ok" /\ conn[c].cmd \notin Unaudited /\ conn[c].id \notin mute' =>
             /\ conn[c].cmd \in KnowledgeMutations \cup Compound
                  => Row("knowledge", conn[c].id, TRUE) \in audits'
             /\ conn[c].cmd \notin KnowledgeMutations
                  => Row("sessions", conn[c].id, TRUE) \in audits'
  PROVE  /\ ConnTypes' /\ ConnInv' /\ AuditMatches'
         /\ Ids' = Ids /\ \A i \in Ids : asked'[i].cmd = asked[i].cmd
<1> DEFINE id == conn[c].id
<1>0. /\ asked \in Seq(AskRec) /\ Ids = 1..Len(asked) /\ Working(c)
      /\ id \in Ids /\ conn \in [Conns -> ConnAt(clock, Ids)] /\ clock \in Nat
  BY DEF IInv, ConnTypes, StoreTypes, ConnInv, Working, Ids
<1>1. /\ asked' \in Seq(AskRec) /\ Ids' = Ids /\ DOMAIN asked' = DOMAIN asked
      /\ \A i \in Ids : /\ asked'[i].cmd = asked[i].cmd
                        /\ i # id => asked'[i] = asked[i]
                        /\ i = id => asked'[i].result = r
  <2>1. \A i \in Ids : asked[i] \in AskRec
    BY <1>0
  <2>2. [asked[id] EXCEPT !.result = r] \in AskRec
    BY <1>0, <2>1 DEF AskRec
  <2>3. asked' \in Seq(AskRec) /\ Len(asked') = Len(asked) /\ DOMAIN asked' = DOMAIN asked
    BY <1>0, <2>1, <2>2 DEF Ids
  <2>4. asked'[id].result = r /\ asked'[id].cmd = asked[id].cmd
    BY <1>0, <2>1 DEF Ids, AskRec
  <2> QED BY <1>0, <2>3, <2>4 DEF Ids
<1>2. /\ conn'[c] = m /\ \A d \in Conns \ {c} : conn'[d] = conn[d]
  BY <1>0
<1> HIDE DEF id
<1>3. ConnTypes'
  <2>1. /\ clock' \in Nat /\ clock <= clock'
        /\ Idle \in ConnAt(clock', Ids)
    <3>1. clock' \in Nat /\ clock <= clock'
      BY <1>0
    <3>2. Absent \in RecAt(clock')
      BY <3>1, StubFacts
    <3> QED BY <3>1, <3>2 DEF Idle, ConnAt
  <2>2. conn' \in [Conns -> ConnAt(clock', Ids')]
    <3>1. m \in ConnAt(clock', Ids)
      BY <2>1
    <3> QED BY <1>0, <1>1, <2>1, <3>1, LocalGrows
  <2>3. /\ mute' \subseteq Ids'
        /\ \A row \in audits' : row.id \in Ids'
        /\ \A e \in effects' : e.id \in Ids'
    BY <1>0, <1>1 DEF IInv, ConnTypes, id
  <2> QED BY <1>1, <2>2, <2>3 DEF ConnTypes
<1>4. ConnInv'
  <2>0. \A d \in Conns \ {c} : conn[d].pc # "idle" => conn[d].id # id
    BY DEF IInv, ConnInv, id
  <2>1. ASSUME NEW d \in Conns, d # c, conn[d].pc # "idle"
        PROVE  Working(d)'
    <3>1. Working(d) /\ conn[d].id # id /\ conn'[d] = conn[d]
      BY <1>2, <2>0, <2>1 DEF IInv, ConnInv
    <3>2. LoggedIn(conn[d].id, conn[d].cmd, conn[d].at, audits', effects', mute')
      BY <3>1 DEF Working, LoggedIn, id
    <3>3. asked'[conn[d].id] = asked[conn[d].id] /\ conn[d].id \in Ids'
      BY <1>1, <3>1 DEF Working
    <3>4. Placed(conn[d]) /\ Placed(conn'[d])
      BY <3>1 DEF Working
    <3>5. /\ conn'[d].id \in Ids' /\ asked'[conn'[d].id].cmd = conn'[d].cmd
          /\ asked'[conn'[d].id].result = "open"
          /\ LoggedIn(conn'[d].id, conn'[d].cmd, conn'[d].at, audits', effects', mute')
      BY <3>1, <3>2, <3>3 DEF Working
    <3> QED BY <3>4, <3>5 DEF Working
  <2>2. r = "open" => Working(c)'
    <3> SUFFICES ASSUME r = "open" PROVE Working(c)'
      OBVIOUS
    <3>1. m.id = id /\ m.cmd = conn[c].cmd /\ asked[id].cmd = conn[c].cmd
      BY <1>0 DEF Working, id
    <3> QED BY <1>0, <1>1, <1>2, <3>1 DEF Working
  <2>3. r # "open" => conn'[c].pc = "idle"
    BY <1>2 DEF Idle
  <2>4. r = "open" => conn'[c].id = id
    BY <1>2 DEF id
  <2>5. \A d \in Conns : conn'[d].pc # "idle" => Working(d)'
    BY <1>2, <2>1, <2>2, <2>3
  <2>6. \A d, e \in Conns :
           conn'[d].pc # "idle" /\ conn'[e].pc # "idle" /\ conn'[d].id = conn'[e].id => d = e
    BY <1>2, <2>0, <2>3, <2>4 DEF IInv, ConnInv
  <2> QED BY <2>5, <2>6 DEF ConnInv
<1>5. AuditMatches'
  <2>0. /\ asked[id].cmd = conn[c].cmd /\ \A row \in audits : row.id = id => row.ok
        /\ \A row \in audits : row.id \in Ids
        /\ \A e \in effects : e.id \in Ids
    BY <1>0 DEF IInv, ConnTypes, Working, LoggedIn, id
  <2>1. AuditedEffects'
    <3> SUFFICES ASSUME NEW e \in effects'
                 PROVE  \/ Row(e.tree, e.id, TRUE) \in audits'
                        \/ asked'[e.id].cmd = "session_harvest"
                        \/ asked'[e.id].cmd = "mem_bootstrap"
                           /\ Row("sessions", e.id, FALSE) \in audits'
      BY DEF AuditedEffects
    <3>1. CASE e \in effects
      <4>1. e.id \in Ids /\ asked'[e.id].cmd = asked[e.id].cmd
        BY <1>1, <2>0, <3>1
      <4> QED BY <3>1, <4>1 DEF IInv, AuditMatches, AuditedEffects
    <3>2. CASE e \notin effects
      <4>1. e.id = id /\ asked'[e.id].cmd = conn[c].cmd
        BY <1>0, <1>1, <2>0, <3>2 DEF id
      <4> QED BY <3>2, <4>1
    <3> QED BY <3>1, <3>2
  <2>2. RejectedInert'
    <3> SUFFICES ASSUME NEW row \in audits', NEW e \in effects', ~row.ok, row.id = e.id
                 PROVE  \/ asked'[e.id].cmd \in {"session_harvest", "mem_bootstrap"}
                        \/ asked'[e.id].cmd = "record_import"
                           /\ Row("knowledge", e.id, TRUE) \in audits'
      BY DEF RejectedInert
    <3>1. CASE e.id = id
      BY <1>0, <1>1, <2>0, <3>1 DEF id
    <3>2. CASE e.id # id
      <4>1. row \in audits /\ e \in effects /\ e.id \in Ids
        BY <2>0, <3>2 DEF id
      <4> QED BY <1>1, <4>1 DEF IInv, AuditMatches, RejectedInert
    <3> QED BY <3>1, <3>2
  <2>3. AnswersAudited'
    <3> SUFFICES ASSUME NEW i \in Ids, asked'[i].result = "ok",
                        asked'[i].cmd \notin Unaudited, i \notin mute'
                 PROVE  /\ asked'[i].cmd \in KnowledgeMutations \cup Compound
                             => Row("knowledge", i, TRUE) \in audits'
                        /\ asked'[i].cmd \notin KnowledgeMutations
                             => Row("sessions", i, TRUE) \in audits'
      BY <1>1 DEF AnswersAudited
    <3>1. CASE i = id
      <4>1. r = "ok" /\ asked'[i].cmd = conn[c].cmd
        BY <1>1, <2>0, <3>1
      <4> QED BY <3>1, <4>1 DEF id
    <3>2. CASE i # id
      <4>1. asked'[i] = asked[i] /\ i \notin mute
        BY <1>1, <3>2
      <4> QED BY <4>1 DEF IInv, AuditMatches, AnswersAudited
    <3> QED BY <3>1, <3>2
  <2> QED BY <2>1, <2>2, <2>3 DEF AuditMatches
<1> QED BY <1>1, <1>3, <1>4, <1>5

\* What a step of one connection leaves in order.
CallsOK ==
    /\ ConnTypes /\ ConnInv /\ AuditMatches

\* A connection goes on to give up, or to answer later.
LEMMA GotoKeeps ==
  ASSUME IInv, NEW c \in Conns, conn[c].pc # "idle", NEW pc \in {"reject", "noop", "failed"},
         Goto(c, pc), UNCHANGED <<clock, audits, effects, mute>>,
         Placed([conn[c] EXCEPT !.pc = pc])
  PROVE  CallsOK' /\ Ids' = Ids /\ asked' = asked
<1> DEFINE m == [conn[c] EXCEPT !.pc = pc]
<1>0. /\ conn[c] \in ConnAt(clock, Ids) /\ Working(c) /\ asked \in Seq(AskRec)
      /\ conn[c].id \in Ids
  BY DEF IInv, ConnTypes, ConnInv, Working
<1>1. asked' = asked /\ conn' = [conn EXCEPT ![c] = m]
  BY DEF Goto, IInv, ConnTypes
<1>2. asked' = [asked EXCEPT ![conn[c].id].result = "open"]
  <2>1. asked[conn[c].id] \in AskRec /\ asked[conn[c].id].result = "open"
    BY <1>0 DEF Working, Ids
  <2> QED BY <1>0, <1>1, <2>1 DEF AskRec, Ids
<1>3. /\ m \in ConnAt(clock, Ids) /\ m.pc = pc /\ m.id = conn[c].id /\ m.cmd = conn[c].cmd
      /\ m.at = conn[c].at
  BY <1>0 DEF ConnAt
<1>4. Placed(m)
  OBVIOUS
<1> HIDE DEF m
<1>5. LoggedIn(m.id, m.cmd, m.at, audits', effects', mute')
  BY <1>0, <1>3 DEF Working
<1>6. \A row \in audits : row.id = conn[c].id => row.ok
  BY <1>0 DEF Working, LoggedIn
<1> QED BY <1>1, <1>2, <1>3, <1>4, <1>5, <1>6, ActKeeps DEF CallsOK

\* The answer.
LEMMA AnswerKeeps ==
  ASSUME IInv, NEW c \in Conns, conn[c].pc # "idle", NEW r \in {"ok", "err"},
         Answer(c, r), clock' \in {clock, clock + 1},
         audits \subseteq audits', effects \subseteq effects',
         mute' \in {mute, mute \cup {conn[c].id}},
         \A row \in audits' \ audits : row.id = conn[c].id,
         \A e \in effects' \ effects : e.id = conn[c].id,
         \A e \in effects' \ effects :
             \/ Row(e.tree, e.id, TRUE) \in audits'
             \/ conn[c].cmd = "session_harvest"
             \/ conn[c].cmd = "mem_bootstrap" /\ Row("sessions", e.id, FALSE) \in audits',
         \A row \in audits', e \in effects' :
             ~row.ok /\ row.id = e.id /\ e.id = conn[c].id =>
                 \/ conn[c].cmd \in {"session_harvest", "mem_bootstrap"}
                 \/ conn[c].cmd = "record_import" /\ Row("knowledge", e.id, TRUE) \in audits',
         r = "ok" /\ conn[c].cmd \notin Unaudited /\ conn[c].id \notin mute' =>
             /\ conn[c].cmd \in KnowledgeMutations \cup Compound
                  => Row("knowledge", conn[c].id, TRUE) \in audits'
             /\ conn[c].cmd \notin KnowledgeMutations
                  => Row("sessions", conn[c].id, TRUE) \in audits'
  PROVE  CallsOK' /\ Ids' = Ids /\ \A i \in Ids : asked'[i].cmd = asked[i].cmd
BY ActKeeps DEF Answer, CallsOK

\* A step of a route that commits nothing.
LEMMA QuietFacts ==
  ASSUME NEW cmd \in Cmds, NEW at \in 1..Len(Route(cmd)),
         Route(cmd)[at] \notin {"commit", "sessions", "report"}
  PROVE  /\ KnowDone(cmd, at + 1) <=> KnowDone(cmd, at)
         /\ SessDone(cmd, at + 1) <=> SessDone(cmd, at)
         /\ cmd # "record_import"
         /\ at = Len(Route(cmd)) =>
              \/ cmd \in {"consultation_hit", "file_edit_hook"} /\ SessDone(cmd, at)
                 /\ (cmd = "file_edit_hook" => KnowDone(cmd, at))
              \/ cmd = "file_reparse" /\ KnowDone(cmd, at)
              \/ cmd = "session_clear_consults"
<1>1. Len(<<>>) = 0 /\ Route(cmd) # <<>> /\ at \in Nat
  OBVIOUS
<1>2. cmd \in Routed
  BY <1>1 DEF Route, Routed, Plain, KnowledgeMutations
<1>3. CASE cmd \in Plain
  <2>1. Route(cmd) = <<"load", "commit">> /\ cmd \in KnowledgeMutations
    BY <1>3, Routes DEF Plain
  <2>2. at = 1
    BY <2>1
  <2>3. cmd \notin {"record_import", "file_reparse", "file_edit_hook", "consultation_hit"}
    BY <1>3 DEF Plain, KnowledgeMutations
  <2> QED BY <2>1, <2>2, <2>3 DEF KnowDone, SessDone
<1>4. CASE cmd = "file_reparse"
  <2>1. Route(cmd) = <<"load", "commit", "cload", "cascade">>
    BY <1>4, Routes
  <2>2. at \in {1, 3, 4} /\ Len(Route(cmd)) = 4
    BY <2>1
  <2> QED BY <1>4, <2>2 DEF KnowDone, SessDone
<1>5. CASE cmd = "record_import"
  <2>1. Route(cmd) = <<"commit", "commit">>
    BY <1>5, Routes
  <2>2. at \in {1, 2}
    BY <2>1
  <2> QED BY <2>1, <2>2
<1>6. CASE cmd = "mem_get"
  <2>1. Route(cmd) = <<"load", "sessions">>
    BY <1>6, Routes
  <2>2. at = 1 /\ Len(Route(cmd)) = 2
    BY <2>1
  <2> QED BY <1>6, <2>2 DEF KnowDone, SessDone
<1>7. CASE cmd = "mem_bootstrap"
  <2>1. Route(cmd) = <<"load", "stage", "sessions">>
    BY <1>7, Routes
  <2>2. at \in {1, 2} /\ Len(Route(cmd)) = 3
    BY <2>1
  <2>3. /\ ~KnowDone(cmd, at) /\ ~KnowDone(cmd, at + 1)
        /\ ~SessDone(cmd, at) /\ ~SessDone(cmd, at + 1)
    BY <1>7 DEF KnowDone, SessDone
  <2> QED BY <1>7, <2>2, <2>3
<1>8. CASE cmd \in {"session_log", "session_flush"}
  <2>1. Route(cmd) = <<"stage", "sessions">>
    BY <1>8, Routes
  <2>2. at = 1 /\ Len(Route(cmd)) = 2
    BY <2>1
  <2> QED BY <1>8, <2>2 DEF KnowDone, SessDone
<1>9. CASE cmd = "consultation_hit"
  <2>1. Route(cmd) = <<"stage", "sessions", "bload", "bump">>
    BY <1>9, Routes
  <2>2. at \in {1, 3, 4} /\ Len(Route(cmd)) = 4
    BY <2>1
  <2> QED BY <1>9, <2>2 DEF KnowDone, SessDone
<1>10. CASE cmd = "file_edit_hook"
  <2>1. Route(cmd) = <<"stage", "sessions", "bload", "bump", "load", "commit", "cload", "cascade">>
    BY <1>10, Routes
  <2>2. at \in {1, 3, 4, 5, 7, 8} /\ Len(Route(cmd)) = 8
    BY <2>1
  <2>3. /\ KnowDone(cmd, at + 1) <=> at \in {7, 8}
        /\ KnowDone(cmd, at) <=> at \in {7, 8}
    BY <1>10, <2>2 DEF KnowDone
  <2>4. /\ SessDone(cmd, at + 1) <=> at \in {3, 4, 5, 7, 8}
        /\ SessDone(cmd, at) <=> at \in {3, 4, 5, 7, 8}
    BY <1>10, <2>2 DEF SessDone
  <2> QED BY <1>10, <2>2, <2>3, <2>4
<1>11. CASE cmd = "session_harvest"
  <2>1. Route(cmd) = <<"pload", "promote", "archive", "sweep", "report">>
    BY <1>11, Routes
  <2>2. at \in {1, 2, 3, 4} /\ Len(Route(cmd)) = 5
    BY <2>1
  <2>3. /\ ~KnowDone(cmd, at) /\ ~KnowDone(cmd, at + 1)
        /\ ~SessDone(cmd, at) /\ ~SessDone(cmd, at + 1)
    BY <1>11 DEF KnowDone, SessDone
  <2> QED BY <1>11, <2>2, <2>3
<1>12. CASE cmd = "session_clear_consults"
  BY <1>12 DEF KnowDone, SessDone
<1> QED BY <1>2, <1>3, <1>4, <1>5, <1>6, <1>7, <1>8, <1>9, <1>10, <1>11, <1>12 DEF Routed

\* A connection takes its next step, or answers after the last one.
LEMMA AdvanceKeeps ==
  ASSUME IInv, NEW c \in Conns, conn[c].pc = "run",
         NEW f \in ConnAt(clock', Ids), f.pc = "run", f.id = conn[c].id,
         f.cmd = conn[c].cmd, f.at = conn[c].at,
         Advance(c, f), clock' \in {clock, clock + 1},
         audits \subseteq audits', effects \subseteq effects',
         mute' \in {mute, mute \cup {conn[c].id}},
         \A row \in audits' \ audits : row.id = conn[c].id /\ row.ok,
         \A e \in effects' \ effects : e.id = conn[c].id,
         \A e \in effects' \ effects :
             Row(e.tree, e.id, TRUE) \in audits' \/ conn[c].cmd = "session_harvest",
         conn[c].cmd = "record_import" => f.left = 2 - conn[c].at,
         conn[c].at < Len(Route(conn[c].cmd)) =>
             /\ LoggedIn(conn[c].id, conn[c].cmd, conn[c].at + 1, audits', effects', mute')
             /\ Route(conn[c].cmd)[conn[c].at + 1] = "commit" /\ conn[c].cmd # "record_import"
                   => ~Refused(conn[c].cmd, f.snap) /\ ~MustBeNoop(conn[c].cmd, f.snap),
         conn[c].at = Len(Route(conn[c].cmd)) /\ conn[c].cmd \notin Unaudited
                /\ conn[c].id \notin mute' =>
             /\ conn[c].cmd \in KnowledgeMutations \cup Compound
                  => Row("knowledge", conn[c].id, TRUE) \in audits'
             /\ conn[c].cmd \notin KnowledgeMutations
                  => Row("sessions", conn[c].id, TRUE) \in audits'
  PROVE  CallsOK' /\ Ids' = Ids /\ \A i \in Ids : asked'[i].cmd = asked[i].cmd
<1>0. /\ conn[c] \in ConnAt(clock, Ids) /\ Working(c) /\ asked \in Seq(AskRec)
      /\ conn[c].id \in Ids /\ conn[c].at \in 1..Len(Route(conn[c].cmd))
      /\ conn[c].at \in Nat /\ Len(Route(conn[c].cmd)) \in Int
  BY DEF IInv, ConnTypes, ConnInv, Working, Placed, ConnAt
<1>1. \A row \in audits' : row.id = conn[c].id => row.ok
  BY <1>0 DEF Working, LoggedIn
<1>2. CASE conn[c].at = Len(Route(conn[c].cmd))
  <2>1. Answer(c, "ok")
    BY <1>2 DEF Advance
  <2> QED BY <1>1, <1>2, <2>1, AnswerKeeps
<1>3. CASE conn[c].at # Len(Route(conn[c].cmd))
  <2> DEFINE m == [f EXCEPT !.at = @ + 1]
  <2>1. asked' = asked /\ conn' = [conn EXCEPT ![c] = m]
    BY <1>3 DEF Advance
  <2>2. asked' = [asked EXCEPT ![conn[c].id].result = "open"]
    <3>1. asked[conn[c].id] \in AskRec /\ asked[conn[c].id].result = "open"
      BY <1>0 DEF Working, Ids
    <3> QED BY <1>0, <2>1, <3>1 DEF AskRec, Ids
  <2>3. /\ m \in ConnAt(clock', Ids) /\ m.pc = "run" /\ m.id = conn[c].id
        /\ m.cmd = conn[c].cmd /\ m.at = conn[c].at + 1 /\ m.snap = f.snap /\ m.left = f.left
    <3>1. f.at + 1 \in Nat
      BY <1>0
    <3>2. m \in ConnAt(clock', Ids)
      BY <3>1 DEF ConnAt
    <3> QED BY <3>2 DEF ConnAt
  <2> HIDE DEF m
  <2>4. conn[c].at < Len(Route(conn[c].cmd)) /\ m.at \in 1..Len(Route(m.cmd))
    <3>1. conn[c].at < Len(Route(conn[c].cmd))
      BY <1>0, <1>3
    <3> QED BY <1>0, <2>3, <3>1
  <2>5. Placed(m)
    <3>1. m.cmd \in Cmds
      BY <1>0, <2>3 DEF Working, Placed
    <3>2. m.cmd = "record_import" => m.left = 3 - m.at
      BY <1>0, <2>3
    <3>3. m.pc = "run" /\ Route(m.cmd)[m.at] = "commit" /\ m.cmd # "record_import"
             => ~Refused(m.cmd, m.snap) /\ ~MustBeNoop(m.cmd, m.snap)
      BY <2>3, <2>4
    <3> QED BY <2>3, <2>4, <3>1, <3>2, <3>3 DEF Placed
  <2>6. LoggedIn(m.id, m.cmd, m.at, audits', effects', mute')
    BY <2>3, <2>4
  <2> QED BY <1>1, <2>1, <2>2, <2>3, <2>5, <2>6, ActKeeps DEF CallsOK
<1> QED BY <1>2, <1>3

\* The next step, after one that wrote no row and put no commit behind it.
LEMMA QuietKeeps ==
  ASSUME IInv, NEW c \in Conns, conn[c].pc = "run",
         NEW f \in ConnAt(clock', Ids), f.pc = "run", f.id = conn[c].id,
         f.cmd = conn[c].cmd, f.at = conn[c].at,
         Advance(c, f), clock' \in {clock, clock + 1},
         Step(c) \notin {"commit", "sessions", "report"},
         audits' = audits, effects \subseteq effects',
         mute' \in {mute, mute \cup {conn[c].id}},
         \A e \in effects' \ effects : e.id = conn[c].id,
         effects' = effects \/ conn[c].cmd = "session_harvest",
         conn[c].at < Len(Route(conn[c].cmd)) =>
            (Route(conn[c].cmd)[conn[c].at + 1] = "commit" /\ conn[c].cmd # "record_import"
                   => ~Refused(conn[c].cmd, f.snap) /\ ~MustBeNoop(conn[c].cmd, f.snap))
  PROVE  CallsOK' /\ Ids' = Ids /\ \A i \in Ids : asked'[i].cmd = asked[i].cmd
<1> DEFINE id == conn[c].id  cmd == conn[c].cmd  at == conn[c].at
<1>0. /\ Working(c) /\ cmd \in Cmds /\ at \in 1..Len(Route(cmd))
      /\ LoggedIn(id, cmd, at, audits, effects, mute)
  BY DEF IInv, ConnInv, Working, Placed
<1>1. Route(cmd)[at] \notin {"commit", "sessions", "report"}
  BY <1>0 DEF Step
<1>2. /\ KnowDone(cmd, at + 1) <=> KnowDone(cmd, at)
      /\ SessDone(cmd, at + 1) <=> SessDone(cmd, at)
      /\ cmd # "record_import"
      /\ at = Len(Route(cmd)) =>
              \/ cmd \in {"consultation_hit", "file_edit_hook"} /\ SessDone(cmd, at)
                 /\ (cmd = "file_edit_hook" => KnowDone(cmd, at))
              \/ cmd = "file_reparse" /\ KnowDone(cmd, at)
              \/ cmd = "session_clear_consults"
  BY <1>0, <1>1, QuietFacts
<1>3. LoggedIn(id, cmd, at + 1, audits', effects', mute')
  BY <1>0, <1>2 DEF LoggedIn
<1>4. at = Len(Route(cmd)) /\ cmd \notin Unaudited /\ id \notin mute' =>
             /\ cmd \in KnowledgeMutations \cup Compound => Row("knowledge", id, TRUE) \in audits'
             /\ cmd \notin KnowledgeMutations => Row("sessions", id, TRUE) \in audits'
  <2> SUFFICES ASSUME at = Len(Route(cmd)), cmd \notin Unaudited, id \notin mute'
               PROVE  /\ cmd \in KnowledgeMutations \cup Compound
                           => Row("knowledge", id, TRUE) \in audits'
                      /\ cmd \notin KnowledgeMutations => Row("sessions", id, TRUE) \in audits'
    OBVIOUS
  <2>1. id \notin mute
    OBVIOUS
  <2>2. /\ KnowDone(cmd, at) => Row("knowledge", id, TRUE) \in audits
        /\ SessDone(cmd, at) => Row("sessions", id, TRUE) \in audits
    BY <1>0, <2>1 DEF LoggedIn
  <2>3. /\ "file_reparse" \in KnowledgeMutations /\ "session_clear_consults" \in Unaudited
        /\ "consultation_hit" \notin KnowledgeMutations \cup Compound
    BY DEF KnowledgeMutations, Unaudited, Compound
  <2> HIDE DEF id, cmd, at
  <2> QED BY <1>2, <2>2, <2>3
<1>5. \A e \in effects' \ effects :
             Row(e.tree, e.id, TRUE) \in audits' \/ conn[c].cmd = "session_harvest"
  OBVIOUS
<1> QED BY <1>2, <1>3, <1>4, <1>5, AdvanceKeeps

\* A failed access makes the handler give up; the edit hook answers all the same.
LEMMA DroppedKeeps ==
  ASSUME IInv, NEW c \in Conns, conn[c].pc \in {"run", "noop"}, Dropped(c),
         UNCHANGED <<clock, audits, effects>>,
         conn[c].cmd # "file_edit_hook" =>
             /\ ~SessDone(conn[c].cmd, conn[c].at)
             /\ KnowDone(conn[c].cmd, conn[c].at) => conn[c].cmd = "record_import"
  PROVE  CallsOK' /\ Ids' = Ids /\ \A i \in Ids : asked'[i].cmd = asked[i].cmd
<1>0. Working(c) /\ \A row \in audits' : row.id = conn[c].id => row.ok
  BY DEF IInv, ConnInv, Working, LoggedIn
<1>1. CASE conn[c].cmd = "file_edit_hook"
  <2>1. Answer(c, "ok") /\ mute' = mute \cup {conn[c].id}
    BY <1>1 DEF Dropped
  <2> QED BY <1>0, <2>1, AnswerKeeps
<1>2. CASE conn[c].cmd # "file_edit_hook"
  <2>1. Goto(c, "reject") /\ mute' = mute
    BY <1>2 DEF Dropped
  <2>2. Placed([conn[c] EXCEPT !.pc = "reject"])
    <3>1. conn[c] \in ConnAt(clock, Ids) /\ Placed(conn[c])
      BY <1>0 DEF IInv, ConnTypes, Working
    <3> DEFINE m == [conn[c] EXCEPT !.pc = "reject"]
    <3>2. m.pc = "reject" /\ m.cmd = conn[c].cmd /\ m.at = conn[c].at /\ m.left = conn[c].left
      BY <3>1 DEF ConnAt
    <3> HIDE DEF m
    <3>3. Placed(m)
      BY <1>2, <3>1, <3>2 DEF Placed
    <3> QED BY <3>3 DEF m
  <2> QED BY <2>1, <2>2, GotoKeeps
<1> QED BY <1>1, <1>2

LEMMA RejectKeeps ==
  ASSUME IInv, NEW c \in Conns, conn[c].pc \in {"run", "noop"}, Goto(c, "reject"),
         UNCHANGED <<clock, audits, effects, mute>>,
         ~SessDone(conn[c].cmd, conn[c].at),
         KnowDone(conn[c].cmd, conn[c].at) => conn[c].cmd = "record_import"
  PROVE  CallsOK' /\ Ids' = Ids /\ asked' = asked
<1> DEFINE m == [conn[c] EXCEPT !.pc = "reject"]
<1>1. conn[c] \in ConnAt(clock, Ids) /\ Placed(conn[c])
  BY DEF IInv, ConnTypes, ConnInv, Working
<1>2. m.pc = "reject" /\ m.cmd = conn[c].cmd /\ m.at = conn[c].at /\ m.left = conn[c].left
  BY <1>1 DEF ConnAt
<1> HIDE DEF m
<1>3. Placed(m)
  BY <1>1, <1>2 DEF Placed
<1> QED BY <1>3, GotoKeeps DEF m
-----------------------------------------------------------------------------
(* The actions.                                                            *)

\* Where a connection is that takes a step of its route.
LEMMA AtStep ==
  ASSUME IInv, NEW c \in Conns, Step(c) # "none"
  PROVE  /\ conn[c].pc = "run" /\ Working(c) /\ conn[c] \in ConnAt(clock, Ids)
         /\ conn[c].cmd \in Cmds /\ conn[c].at \in 1..Len(Route(conn[c].cmd))
         /\ Step(c) = Route(conn[c].cmd)[conn[c].at]
         /\ conn[c].id \in Ids /\ clock \in Nat
BY DEF Step, IInv, StoreTypes, ConnTypes, ConnInv, Working, Placed

\* The deferred writes stay what they are.
LEMMA JobsStay ==
  ASSUME IInv, spawned' = spawned, clock' \in {clock, clock + 1}, Ids' = Ids,
         \A i \in Ids : asked'[i].cmd = asked[i].cmd
  PROVE  JobTypes' /\ JobInv'
<1>0. clock \in Nat /\ clock' \in Nat /\ clock <= clock'
  BY DEF IInv, StoreTypes
<1>1. \A j \in JobAt(clock, Ids) : j \in JobAt(clock', Ids') /\ j.id \in Ids
  BY <1>0, LocalGrows DEF JobAt
<1> QED BY <1>1 DEF IInv, JobTypes, JobInv

\* A step that writes no record, aggregate or receipt.
LEMMA StoreStays ==
  ASSUME IInv, UNCHANGED <<rec, truth, raced, day, counted, clock>>,
         receipts' \subseteq receipts, Ids' = Ids
  PROVE  StoreTypes' /\ SerialOutcome'
<1>1. SerialOutcome'
  BY SerialSame DEF IInv
<1> QED BY <1>1 DEF IInv, StoreTypes

LEMMA NothingWritten ==
  ASSUME IInv, UNCHANGED <<rec, truth, raced, day, counted, clock, spawned>>,
         receipts' \subseteq receipts, CallsOK', Ids' = Ids,
         \A i \in Ids : asked'[i].cmd = asked[i].cmd
  PROVE  IInv'
<1>1. StoreTypes' /\ SerialOutcome' /\ JobTypes' /\ JobInv'
  BY StoreStays, JobsStay
<1> QED BY <1>1 DEF IInv, CallsOK

LEMMA InvalidKeeps ==
  ASSUME IInv, NEW c \in Conns, Invalid(c)
  PROVE  IInv'
<1>1. /\ UNCHANGED <<rec, truth, raced, day, counted, clock, spawned, receipts, audits,
                     effects, mute>>
      /\ Step(c) = "load" /\ Goto(c, "reject")
      /\ conn[c].cmd \in KnowledgeMutations \cup {"mem_get"}
  BY DEF Invalid, store, ghosts
<1>2. conn[c].pc = "run"
  BY <1>1, AtStep
<1>3. conn[c].at = 1 /\ conn[c].cmd # "file_edit_hook"
  <2>1. conn[c].cmd # "file_edit_hook"
    BY <1>1 DEF KnowledgeMutations
  <2> QED BY <1>1, <2>1, AtStep, StepFacts
<1>4. ~SessDone(conn[c].cmd, conn[c].at) /\ ~KnowDone(conn[c].cmd, conn[c].at)
  BY <1>3 DEF SessDone, KnowDone
<1>5. CallsOK' /\ Ids' = Ids /\ asked' = asked
  BY <1>1, <1>2, <1>4, RejectKeeps
<1> QED BY <1>1, <1>5, NothingWritten

LEMMA RejectedKeeps ==
  ASSUME IInv, NEW c \in Conns, Reject(c)
  PROVE  IInv'
<1> DEFINE id == conn[c].id
<1>1. /\ UNCHANGED <<rec, truth, raced, day, counted, clock, spawned, receipts, effects>>
      /\ conn[c].pc \in {"fenced", "reject"} /\ Answer(c, "err")
      /\ mute' \in {mute, mute \cup {id}}
  BY DEF Reject, ghosts
<1>2. audits \subseteq audits' /\ \A row \in audits' \ audits : row.id = id
  <2>1. \A tree, ok : Row(tree, id, ok).id = id
    BY DEF Row
  <2> QED BY <2>1 DEF Reject
<1>3. \A e \in effects : e.id = id =>
         \/ conn[c].cmd = "session_harvest"
         \/ conn[c].cmd = "record_import" /\ Row("knowledge", id, TRUE) \in audits
  <2>1. Placed(conn[c]) /\ LoggedIn(id, conn[c].cmd, conn[c].at, audits, effects, mute)
    BY <1>1 DEF IInv, ConnInv, Working
  <2>2. /\ ~SessDone(conn[c].cmd, conn[c].at)
        /\ KnowDone(conn[c].cmd, conn[c].at) => conn[c].cmd = "record_import"
    BY <1>1, <2>1 DEF Placed, SessDone, KnowDone
  <2> QED BY <2>1, <2>2 DEF LoggedIn
<1>4. \A row \in audits', e \in effects' :
             ~row.ok /\ row.id = e.id /\ e.id = id =>
                 \/ conn[c].cmd \in {"session_harvest", "mem_bootstrap"}
                 \/ conn[c].cmd = "record_import" /\ Row("knowledge", e.id, TRUE) \in audits'
  BY <1>1, <1>2, <1>3
<1>5. CallsOK' /\ Ids' = Ids /\ \A i \in Ids : asked'[i].cmd = asked[i].cmd
  BY <1>1, <1>2, <1>4, AnswerKeeps
<1> QED BY <1>1, <1>5, NothingWritten

LEMMA LoadKeeps ==
  ASSUME IInv, NEW c \in Conns, Load(c)
  PROVE  IInv'
<1> DEFINE cmd == conn[c].cmd  at == conn[c].at  got == [conn[c] EXCEPT !.snap = rec]
<1>1. /\ UNCHANGED <<rec, truth, raced, day, counted, clock, spawned, receipts, audits,
                     effects, mute>>
      /\ Step(c) = "load"
  BY DEF Load, store, ghosts
<1>2. /\ conn[c].pc = "run" /\ Working(c) /\ conn[c] \in ConnAt(clock, Ids)
      /\ rec \in [Keys -> RecAt(clock)]
      /\ \/ at = 1 /\ cmd \in Plain \cup {"file_reparse", "mem_get", "mem_bootstrap"}
         \/ at = 5 /\ cmd = "file_edit_hook"
  BY <1>1, AtStep, StepFacts DEF IInv, StoreTypes
<1>3. /\ got \in ConnAt(clock, Ids) /\ got.pc = "run" /\ got.id = conn[c].id /\ got.cmd = cmd
      /\ got.at = at /\ got.left = conn[c].left /\ got.snap = rec
  BY <1>2 DEF ConnAt
<1>4. ~KnowDone(cmd, at) /\ (SessDone(cmd, at) => cmd = "file_edit_hook")
      /\ cmd # "record_import"
  BY <1>2 DEF KnowDone, SessDone, Plain, KnowledgeMutations
<1>5. CASE Refused(cmd, rec) /\ Goto(c, "reject")
  <2>1. cmd # "file_edit_hook"
    BY <1>5 DEF Refused
  <2>2. CallsOK' /\ Ids' = Ids /\ asked' = asked
    BY <1>1, <1>2, <1>4, <1>5, <2>1, RejectKeeps
  <2> QED BY <1>1, <2>2, NothingWritten
<1>6. CASE ~Refused(cmd, rec) /\ ~MustBeNoop(cmd, rec) /\ Advance(c, got)
  <2> HIDE DEF got
  <2>1. CallsOK' /\ Ids' = Ids /\ \A i \in Ids : asked'[i].cmd = asked[i].cmd
    BY <1>1, <1>2, <1>3, <1>6, QuietKeeps
  <2> QED BY <1>1, <2>1, NothingWritten
<1>7. CASE /\ MayBeNoop(cmd, rec) /\ UNCHANGED asked
           /\ conn' = [conn EXCEPT ![c] = [got EXCEPT !.pc = "noop"]]
  <2> DEFINE m == [got EXCEPT !.pc = "noop"]
  <2>1. /\ m \in ConnAt(clock, Ids) /\ m.pc = "noop" /\ m.id = conn[c].id /\ m.cmd = cmd
        /\ m.at = at /\ m.left = conn[c].left
    <3> HIDE DEF got
    <3> QED BY <1>3 DEF ConnAt
  <2> HIDE DEF got, m
  <2>2. Placed(m)
    <3>1. Placed(conn[c]) /\ conn[c].pc = "run"
      BY <1>2 DEF Working
    <3>2. \/ m.at = 1 /\ m.cmd \in {"file_reparse", "doc_capture"}
          \/ m.at = 5 /\ m.cmd = "file_edit_hook"
      BY <1>2, <1>7, <2>1 DEF MayBeNoop, Plain, KnowledgeMutations
    <3> QED BY <1>4, <2>1, <3>1, <3>2 DEF Placed
  <2>3. asked' = [asked EXCEPT ![conn[c].id].result = "open"]
    <3>1. asked \in Seq(AskRec) /\ conn[c].id \in Ids /\ asked[conn[c].id].result = "open"
      BY <1>2 DEF Working, IInv, ConnTypes
    <3>2. asked[conn[c].id] \in AskRec
      BY <3>1 DEF Ids
    <3> QED BY <1>7, <3>1, <3>2 DEF AskRec, Ids
  <2>4. LoggedIn(m.id, m.cmd, m.at, audits', effects', mute')
    BY <1>1, <1>2, <2>1 DEF Working
  <2>5. \A row \in audits : row.id = conn[c].id => row.ok
    BY <1>2 DEF Working, LoggedIn
  <2>6. conn' = [conn EXCEPT ![c] = m]
    BY <1>7 DEF m
  <2>7. ConnTypes' /\ ConnInv' /\ AuditMatches' /\ Ids' = Ids
    BY <1>1, <1>2, <2>1, <2>2, <2>3, <2>4, <2>5, <2>6, ActKeeps
  <2> QED BY <1>1, <1>7, <2>7, NothingWritten DEF CallsOK
<1> QED BY <1>5, <1>6, <1>7 DEF Load

LEMMA LoadFailsKeeps ==
  ASSUME IInv, NEW c \in Conns, LoadFails(c)
  PROVE  IInv'
<1> DEFINE cmd == conn[c].cmd  at == conn[c].at
<1>1. /\ UNCHANGED <<rec, truth, raced, day, counted, clock, spawned, receipts, audits, effects>>
      /\ Step(c) = "load"
      /\ IF cmd = "doc_capture" THEN Goto(c, "noop") /\ UNCHANGED mute
         ELSE IF cmd = "mem_bootstrap" THEN Goto(c, "failed") /\ UNCHANGED mute
         ELSE Dropped(c)
  BY DEF LoadFails, store, ghosts
<1>2. /\ conn[c].pc = "run" /\ Working(c) /\ conn[c] \in ConnAt(clock, Ids)
      /\ \/ at = 1 /\ cmd \in Plain \cup {"file_reparse", "mem_get", "mem_bootstrap"}
         \/ at = 5 /\ cmd = "file_edit_hook"
  BY <1>1, AtStep, StepFacts
<1>3. ~KnowDone(cmd, at) /\ (SessDone(cmd, at) => cmd = "file_edit_hook")
      /\ (cmd \in {"doc_capture", "mem_bootstrap"} => at = 1) /\ cmd # "record_import"
  BY <1>2 DEF KnowDone, SessDone, Plain, KnowledgeMutations
<1>4. ASSUME NEW pc,
             (pc = "noop" /\ cmd = "doc_capture") \/ (pc = "failed" /\ cmd = "mem_bootstrap"),
             Goto(c, pc), mute' = mute
      PROVE  CallsOK' /\ Ids' = Ids /\ asked' = asked
  <2> DEFINE m == [conn[c] EXCEPT !.pc = pc]
  <2>1. m.pc = pc /\ m.cmd = cmd /\ m.at = at /\ m.left = conn[c].left
    BY <1>2 DEF ConnAt
  <2>2. pc \in {"reject", "noop", "failed"} /\ at = 1 /\ Placed(conn[c])
    BY <1>2, <1>3, <1>4 DEF Working
  <2> HIDE DEF m
  <2>3. Placed(m)
    BY <1>2, <1>3, <1>4, <2>1, <2>2 DEF Placed
  <2>4. Placed([conn[c] EXCEPT !.pc = pc])
    BY <2>3 DEF m
  <2> QED BY <1>1, <1>2, <1>4, <2>2, <2>4, GotoKeeps
<1>5. CASE cmd \in {"doc_capture", "mem_bootstrap"}
  <2>1. CallsOK' /\ Ids' = Ids /\ asked' = asked
    BY <1>1, <1>4, <1>5
  <2> QED BY <1>1, <2>1, NothingWritten
<1>6. CASE cmd \notin {"doc_capture", "mem_bootstrap"}
  <2>1. Dropped(c)
    BY <1>1, <1>6
  <2>2. CallsOK' /\ Ids' = Ids /\ \A i \in Ids : asked'[i].cmd = asked[i].cmd
    BY <1>1, <1>2, <1>3, <2>1, DroppedKeeps
  <2> QED BY <1>1, <2>2, NothingWritten
<1> QED BY <1>5, <1>6

LEMMA NoopKeeps ==
  ASSUME IInv, NEW c \in Conns, Noop(c)
  PROVE  IInv'
<1> DEFINE cmd == conn[c].cmd  at == conn[c].at  id == conn[c].id
<1>1. /\ UNCHANGED <<rec, truth, raced, day, counted, clock, spawned, receipts, effects>>
      /\ conn[c].pc = "noop"
  BY DEF Noop, ghosts
<1>2. /\ Working(c)
      /\ \/ at = 1 /\ cmd \in {"file_reparse", "doc_capture"}
         \/ at = 5 /\ cmd = "file_edit_hook"
      /\ \A row \in audits : row.id = id => row.ok
      /\ SessDone(cmd, at) => Row("sessions", id, TRUE) \in audits \/ id \in mute
  BY <1>1 DEF IInv, ConnInv, Working, Placed, LoggedIn
<1>3. ASSUME audits' = audits \cup {Row(TreeOf(cmd), id, TRUE)}, Answer(c, "ok"), mute' = mute
      PROVE  CallsOK' /\ Ids' = Ids /\ \A i \in Ids : asked'[i].cmd = asked[i].cmd
  <2>1. Row(TreeOf(cmd), id, TRUE) = Row("knowledge", id, TRUE)
    BY <1>2 DEF TreeOf, KnowledgeMutations, Compound
  <2>2. Row("knowledge", id, TRUE).id = id /\ Row("knowledge", id, TRUE).ok
    BY DEF Row
  <2>3. cmd \notin KnowledgeMutations => SessDone(cmd, at)
    BY <1>2 DEF KnowledgeMutations, SessDone
  <2>4. \A row \in audits' : row.id = id => row.ok
    BY <1>2, <1>3, <2>1, <2>2
  <2>5. \A row \in audits' \ audits : row.id = id
    BY <1>3, <2>1, <2>2
  <2>6. id \notin mute' =>
             /\ Row("knowledge", id, TRUE) \in audits'
             /\ cmd \notin KnowledgeMutations => Row("sessions", id, TRUE) \in audits'
    BY <1>2, <1>3, <2>1, <2>3
  <2> QED BY <1>1, <1>3, <2>4, <2>5, <2>6, AnswerKeeps
<1>4. ASSUME audits' = audits, IF cmd = "doc_capture" THEN Answer(c, "ok") /\ mute' = mute \cup {id}
                               ELSE Dropped(c)
      PROVE  CallsOK' /\ Ids' = Ids /\ \A i \in Ids : asked'[i].cmd = asked[i].cmd
  <2>1. CASE cmd = "doc_capture"
    <3>1. Answer(c, "ok") /\ mute' = mute \cup {id}
      BY <1>4, <2>1
    <3> QED BY <1>1, <1>2, <1>4, <3>1, AnswerKeeps
  <2>2. CASE cmd # "doc_capture"
    <3>1. Dropped(c)
      BY <1>4, <2>2
    <3>2. cmd # "file_edit_hook" => ~SessDone(cmd, at) /\ ~KnowDone(cmd, at)
      BY <1>2 DEF SessDone, KnowDone
    <3> QED BY <1>1, <1>4, <3>1, <3>2, DroppedKeeps
  <2> QED BY <2>1, <2>2
<1>5. CallsOK' /\ Ids' = Ids /\ \A i \in Ids : asked'[i].cmd = asked[i].cmd
  BY <1>3, <1>4 DEF Noop
<1> QED BY <1>1, <1>5, NothingWritten

LEMMA CommitFailsKeeps ==
  ASSUME IInv, NEW c \in Conns, CommitFails(c)
  PROVE  IInv'
<1> DEFINE cmd == conn[c].cmd  at == conn[c].at
<1>1. /\ UNCHANGED <<rec, truth, raced, day, counted, clock, spawned, receipts, audits, effects>>
      /\ Step(c) = "commit" /\ Dropped(c)
  BY DEF CommitFails, store, ghosts
<1>2. /\ conn[c].pc = "run"
      /\ \/ at = 2 /\ cmd \in Plain \cup {"file_reparse"}
         \/ at \in {1, 2} /\ cmd = "record_import"
         \/ at = 6 /\ cmd = "file_edit_hook"
  BY <1>1, AtStep, StepFacts
<1>3. cmd # "file_edit_hook" =>
         ~SessDone(cmd, at) /\ (KnowDone(cmd, at) => cmd = "record_import")
  BY <1>2 DEF SessDone, KnowDone, Plain, KnowledgeMutations
<1>4. CallsOK' /\ Ids' = Ids /\ \A i \in Ids : asked'[i].cmd = asked[i].cmd
  BY <1>1, <1>2, <1>3, DroppedKeeps
<1> QED BY <1>1, <1>4, NothingWritten

LEMMA ReloadKeeps ==
  ASSUME IInv, NEW c \in Conns, Reload(c)
  PROVE  IInv'
<1> DEFINE cmd == conn[c].cmd  at == conn[c].at
<1>1. /\ UNCHANGED <<rec, truth, raced, day, counted, clock, spawned, receipts, audits,
                     effects, mute>>
      /\ Step(c) \in {"bload", "cload", "pload"}
  BY DEF Reload, store, ghosts
<1>2. PICK s \in [Keys -> RecAt(clock)] : Advance(c, [conn[c] EXCEPT !.snap = s])
  <2>1. rec \in [Keys -> RecAt(clock)] /\ Absent \in RecAt(clock)
    BY StubFacts DEF IInv, StoreTypes
  <2> QED BY <2>1 DEF Reload
<1> DEFINE f == [conn[c] EXCEPT !.snap = s]
<1>3. /\ conn[c].pc = "run" /\ conn[c] \in ConnAt(clock, Ids) /\ cmd \in Cmds
      /\ \/ at = 3 /\ cmd \in {"consultation_hit", "file_edit_hook", "file_reparse"}
         \/ at = 7 /\ cmd = "file_edit_hook"
         \/ at = 1 /\ cmd = "session_harvest"
  <2>1. Step(c) # "none"
    BY <1>1
  <2>2. /\ conn[c].pc = "run" /\ conn[c] \in ConnAt(clock, Ids) /\ cmd \in Cmds
        /\ at \in 1..Len(Route(cmd)) /\ Route(cmd)[at] \in {"bload", "cload", "pload"}
    BY <1>1, <2>1, AtStep
  <2> QED BY <2>2, StepFacts
<1>4. Route(cmd)[at + 1] # "commit"
  <2>1. CASE cmd = "consultation_hit"
    BY <1>3, <2>1, Routes
  <2>2. CASE cmd = "file_edit_hook"
    BY <1>3, <2>2, Routes
  <2>3. CASE cmd = "file_reparse"
    BY <1>3, <2>3, Routes
  <2>4. CASE cmd = "session_harvest"
    BY <1>3, <2>4, Routes
  <2> QED BY <1>3, <2>1, <2>2, <2>3, <2>4
<1>5. f \in ConnAt(clock', Ids) /\ f.pc = "run" /\ f.id = conn[c].id /\ f.cmd = cmd /\ f.at = at
  BY <1>1, <1>3 DEF ConnAt
<1> HIDE DEF f
<1>6. Advance(c, f)
  BY <1>2 DEF f
<1>7. CallsOK' /\ Ids' = Ids /\ \A i \in Ids : asked'[i].cmd = asked[i].cmd
  BY <1>1, <1>3, <1>4, <1>5, <1>6, QuietKeeps
<1> QED BY <1>1, <1>7, NothingWritten

LEMMA StageKeeps ==
  ASSUME IInv, NEW c \in Conns, Stage(c)
  PROVE  IInv'
<1> DEFINE cmd == conn[c].cmd  at == conn[c].at
<1>1. /\ UNCHANGED <<rec, truth, raced, day, counted, clock, spawned, receipts, audits, effects>>
      /\ Step(c) = "stage"
  BY DEF Stage, store, ghosts
<1>2. /\ conn[c].pc = "run" /\ conn[c] \in ConnAt(clock, Ids) /\ cmd \in Cmds
      /\ \/ at = 2 /\ cmd = "mem_bootstrap"
         \/ at = 1 /\ cmd \in {"session_log", "consultation_hit", "file_edit_hook",
                               "session_flush"}
  BY <1>1, AtStep, StepFacts
<1>3. Route(cmd)[at + 1] # "commit"
  <2>1. CASE cmd = "mem_bootstrap"
    BY <1>2, <2>1, Routes
  <2>2. CASE cmd = "file_edit_hook"
    BY <1>2, <2>2, Routes
  <2>3. CASE cmd = "consultation_hit"
    BY <1>2, <2>3, Routes
  <2>4. CASE cmd \in {"session_log", "session_flush"}
    BY <1>2, <2>4, Routes
  <2> QED BY <1>2, <2>1, <2>2, <2>3, <2>4
<1>4. ASSUME NEW f \in ConnAt(clock', Ids), f.pc = "run", f.id = conn[c].id, f.cmd = cmd,
             f.at = at, Advance(c, f), mute' = mute
      PROVE  CallsOK' /\ Ids' = Ids /\ \A i \in Ids : asked'[i].cmd = asked[i].cmd
  BY <1>1, <1>2, <1>3, <1>4, QuietKeeps
<1>5. CASE Advance(c, [conn[c] EXCEPT !.seen = day, !.agg = Counts(cmd)]) /\ mute' = mute
  <2> DEFINE f == [conn[c] EXCEPT !.seen = day, !.agg = Counts(cmd)]
  <2>1. day \subseteq Ids /\ Counts(cmd) \in BOOLEAN
    BY DEF IInv, StoreTypes, Counts
  <2>2. /\ f \in ConnAt(clock', Ids) /\ f.pc = "run" /\ f.id = conn[c].id /\ f.cmd = cmd
        /\ f.at = at
    BY <1>1, <1>2, <2>1 DEF ConnAt
  <2> HIDE DEF f
  <2>3. Advance(c, f)
    BY <1>5 DEF f
  <2>4. CallsOK' /\ Ids' = Ids /\ \A i \in Ids : asked'[i].cmd = asked[i].cmd
    BY <1>4, <1>5, <2>2, <2>3
  <2> QED BY <1>1, <2>4, NothingWritten
<1>6. CASE Advance(c, conn[c]) /\ mute' = mute
  <2>1. CallsOK' /\ Ids' = Ids /\ \A i \in Ids : asked'[i].cmd = asked[i].cmd
    BY <1>1, <1>2, <1>4, <1>6
  <2> QED BY <1>1, <2>1, NothingWritten
<1>7. CASE cmd # "file_edit_hook" /\ cmd # "mem_bootstrap" /\ Dropped(c)
  <2>1. ~SessDone(cmd, at) /\ ~KnowDone(cmd, at)
    BY <1>2, <1>7 DEF SessDone, KnowDone
  <2>2. CallsOK' /\ Ids' = Ids /\ \A i \in Ids : asked'[i].cmd = asked[i].cmd
    BY <1>1, <1>2, <1>7, <2>1, DroppedKeeps
  <2> QED BY <1>1, <2>2, NothingWritten
<1> QED BY <1>5, <1>6, <1>7 DEF Stage

\* A step that writes records.
LEMMA RecordsWritten ==
  ASSUME IInv, clock' = clock + 1, rec' \in [Keys -> RecAt(clock')],
         truth' \in [Keys -> RecSet(clock')], SerialOutcome',
         UNCHANGED <<day, counted, receipts>>, CallsOK', Ids' = Ids,
         \A i \in Ids : asked'[i].cmd = asked[i].cmd, JobTypes', JobInv'
  PROVE  IInv'
<1>1. clock' \in Nat
  BY DEF IInv, StoreTypes
<1>2. StoreTypes'
  BY <1>1 DEF IInv, StoreTypes
<1> QED BY <1>2 DEF IInv, CallsOK

\* The calls after a commit: the row and the change are in the knowledge tree.
LEMMA CommittedCalls ==
  ASSUME IInv, NEW c \in Conns, Step(c) = "commit", clock' = clock + 1,
         audits' = audits \cup {Row("knowledge", conn[c].id, TRUE)},
         Changes(c, "knowledge"), mute' = mute,
         Advance(c, [conn[c] EXCEPT !.left = @ - 1])
  PROVE  CallsOK' /\ Ids' = Ids /\ \A i \in Ids : asked'[i].cmd = asked[i].cmd
<1> DEFINE id == conn[c].id  cmd == conn[c].cmd  at == conn[c].at
           f == [conn[c] EXCEPT !.left = @ - 1]
<1>0. /\ conn[c].pc = "run" /\ conn[c] \in ConnAt(clock, Ids) /\ cmd \in Cmds /\ Working(c)
      /\ at \in 1..Len(Route(cmd)) /\ Route(cmd)[at] = "commit" /\ clock \in Nat
  BY AtStep
<1>1. \/ at = 2 /\ cmd \in Plain \cup {"file_reparse"}
      \/ at \in {1, 2} /\ cmd = "record_import"
      \/ at = 6 /\ cmd = "file_edit_hook"
  BY <1>0, StepFacts
<1>2. /\ f \in ConnAt(clock', Ids) /\ f.pc = "run" /\ f.id = id /\ f.cmd = cmd /\ f.at = at
      /\ f.left = conn[c].left - 1
  <2>1. conn[c] \in ConnAt(clock', Ids)
    <3>1. clock' \in Nat /\ clock <= clock'
      BY <1>0
    <3> QED BY <1>0, <3>1, LocalGrows
  <2>2. conn[c].left - 1 \in Int
    BY <2>1 DEF ConnAt
  <2> QED BY <1>0, <2>1, <2>2 DEF ConnAt
<1> HIDE DEF f
<1>3. cmd = "record_import" => f.left = 2 - at
  <2>1. cmd = "record_import" => conn[c].left = 3 - at /\ at \in {1, 2}
    BY <1>0, <1>1 DEF Working, Placed, Plain, KnowledgeMutations
  <2> QED BY <1>2, <2>1
<1>4. Row("knowledge", id, TRUE).id = id /\ Row("knowledge", id, TRUE).ok
  BY DEF Row
<1>5. /\ effects' = effects \cup {[tree |-> "knowledge", id |-> id]}
      /\ [tree |-> "knowledge", id |-> id].id = id
      /\ [tree |-> "knowledge", id |-> id].tree = "knowledge"
  BY DEF Changes
<1>6. LoggedIn(id, cmd, at, audits, effects, mute)
  BY <1>0 DEF Working
<1>7. ASSUME at < Len(Route(cmd))
      PROVE  /\ LoggedIn(id, cmd, at + 1, audits', effects', mute')
             /\ cmd # "record_import" => Route(cmd)[at + 1] # "commit"
  <2>1. cmd \notin Plain
    <3> SUFFICES ASSUME cmd \in Plain PROVE FALSE
      OBVIOUS
    <3>1. at = 2
      BY <1>1 DEF Plain, KnowledgeMutations
    <3>2. Route(cmd) = <<"load", "commit">>
      BY Routes
    <3>3. Len(Route(cmd)) = 2
      BY <3>2
    <3> QED BY <1>7, <3>1, <3>3
  <2>2. \/ at = 2 /\ cmd = "file_reparse"
        \/ at = 1 /\ cmd = "record_import"
        \/ at = 6 /\ cmd = "file_edit_hook"
    <3>1. cmd = "record_import" => Len(Route(cmd)) = 2
      BY Routes
    <3>2. ASSUME at = 2, cmd = "record_import" PROVE FALSE
      BY <1>7, <3>1, <3>2
    <3> QED BY <1>1, <2>1, <3>2
  <2>3. /\ KnowDone(cmd, at + 1)
        /\ SessDone(cmd, at + 1) => SessDone(cmd, at)
    BY <2>2 DEF KnowDone, SessDone
  <2>4. cmd # "record_import" => Route(cmd)[at + 1] # "commit"
    <3>1. CASE cmd = "file_reparse"
      BY <2>2, <3>1, Routes
    <3>2. CASE cmd = "file_edit_hook"
      BY <2>2, <3>2, Routes
    <3> QED BY <2>2, <3>1, <3>2
  <2>5. Row("knowledge", id, TRUE) \in audits'
    OBVIOUS
  <2>6. \A row \in audits' : row.id = id => row.ok
    BY <1>4, <1>6 DEF LoggedIn
  <2>7. \A e \in effects' : e.id = id =>
          \/ cmd = "session_harvest"
          \/ e.tree = "knowledge" /\ KnowDone(cmd, at + 1)
          \/ e.tree = "sessions" /\ SessDone(cmd, at + 1)
    <3>1. SessDone(cmd, at) => SessDone(cmd, at + 1)
      BY <2>2 DEF SessDone
    <3> QED BY <1>5, <1>6, <2>3, <3>1 DEF LoggedIn
  <2>8. SessDone(cmd, at + 1) => Row("sessions", id, TRUE) \in audits' \/ id \in mute'
    BY <1>6, <2>3 DEF LoggedIn
  <2> QED BY <2>3, <2>4, <2>5, <2>6, <2>7, <2>8 DEF LoggedIn
<1>8. at = Len(Route(cmd)) => cmd \in KnowledgeMutations
  <2>1. cmd = "file_edit_hook" => Len(Route(cmd)) = 8
    BY Routes
  <2>2. ASSUME cmd = "file_edit_hook" PROVE at # Len(Route(cmd))
    <3>1. at = 6
      BY <1>1, <2>2 DEF Plain, KnowledgeMutations
    <3> QED BY <2>1, <2>2, <3>1
  <2> QED BY <1>1, <2>2 DEF Plain, KnowledgeMutations
<1>9. Advance(c, f)
  BY DEF f
<1>10. \A e \in effects' \ effects : Row(e.tree, e.id, TRUE) \in audits' /\ e.id = id
  BY <1>5
<1>11. \A row \in audits' \ audits : row.id = conn[c].id /\ row.ok
  BY <1>4
<1> QED BY <1>0, <1>2, <1>3, <1>5, <1>7, <1>8, <1>9, <1>10, <1>11, AdvanceKeeps

LEMMA CommitKeeps ==
  ASSUME IInv, NEW c \in Conns, Commit(c)
  PROVE  IInv'
<1> DEFINE cmd == conn[c].cmd  at == conn[c].at  left == conn[c].left
           s == IF cmd = "record_import" THEN rec ELSE conn[c].snap
           w == Plan(cmd, s, clock + 1, left)
<1>1. /\ UNCHANGED <<day, counted, spawned, receipts, mute>>
      /\ Step(c) = "commit" /\ Write(Puts(cmd, left), w, s, Owned(cmd))
  BY DEF Commit
<1>2. clock' = clock + 1
  BY <1>1 DEF Write
<1>3. CallsOK' /\ Ids' = Ids /\ \A i \in Ids : asked'[i].cmd = asked[i].cmd
  BY <1>1, <1>2, CommittedCalls DEF Commit
<1>4. JobTypes' /\ JobInv'
  BY <1>1, <1>2, <1>3, JobsStay
<1>5. /\ conn[c].pc = "run" /\ conn[c] \in ConnAt(clock, Ids) /\ cmd \in Cmds /\ Working(c)
      /\ at \in 1..Len(Route(cmd)) /\ Route(cmd)[at] = "commit" /\ clock \in Nat
  BY <1>1, AtStep
<1>6. cmd \in KnowledgeMutations \cup Compound
  <2>1. cmd \in Plain \cup {"file_reparse", "record_import", "file_edit_hook"}
    BY <1>5, StepFacts
  <2> QED BY <2>1 DEF Plain, KnowledgeMutations, Compound
<1>7. s \in [Keys -> RecAt(clock)]
  BY <1>5 DEF ConnAt, IInv, StoreTypes
<1>8. cmd # "record_import" => ~Refused(cmd, s) /\ ~MustBeNoop(cmd, s)
  BY <1>5 DEF Working, Placed
<1>9. Puts(cmd, left) \in SUBSET Keys
  BY DEF Puts, Keys, Target
<1> HIDE DEF s
<1>10. FromCopy(Puts(cmd, left), w, s, Owned(cmd))
  BY <1>5, <1>6, <1>7, <1>8, PlanFacts DEF FromCopy
<1> HIDE DEF w
<1>11. /\ rec' \in [Keys -> RecAt(clock')] /\ truth' \in [Keys -> RecSet(clock')]
       /\ SerialOutcome'
  <2>1. StoreTypes /\ SerialOutcome
    BY DEF IInv
  <2>2. UNCHANGED <<day, counted>>
    BY <1>1
  <2> QED BY <1>1, <1>7, <1>9, <1>10, <2>1, <2>2, WriteKeeps
<1> QED BY <1>1, <1>2, <1>3, <1>4, <1>11, RecordsWritten

\* The writes of one field: the access count, the staleness, the promotion.
LEMMA OneField ==
  ASSUME clock \in Nat, NEW s \in [Keys -> RecAt(clock)]
  PROVE  /\ s["file"].life # "none"
              => FromCopy({"file"}, Bumped(s), s, Only("file", {"hits"}))
         /\ s["gotcha"].life # "none"
              => /\ FromCopy({"gotcha"}, Cascaded(s, clock + 1), s, Only("gotcha", {"shape"}))
                 /\ FromCopy({"gotcha"}, Promoted(s), s, Only("gotcha", {"conf"}))
<1>0. clock + 1 \in Nat /\ clock + 1 \in 0..(clock + 1) /\ TRUE \in BOOLEAN
      /\ "file" \in Keys /\ "gotcha" \in Keys
  BY DEF Keys
<1>1. /\ \A k \in Keys : s[k] \in RecSet(clock) /\ s[k] \in RecSet(clock + 1)
      /\ \A r \in RecSet(clock + 1) : r.life # "none" => r \in RecAt(clock + 1)
  BY <1>0, RecordGrows DEF RecAt
<1>2. ASSUME s["file"].life # "none"
      PROVE  FromCopy({"file"}, Bumped(s), s, Only("file", {"hits"}))
  <2> DEFINE r == s["file"]  w == Bumped(s)["file"]
  <2>1. r \in RecSet(clock + 1) /\ r.hits + 1 \in 0..(clock + 1)
    BY <1>0, <1>1 DEF RecSet
  <2>2. w = [r EXCEPT !.hits = r.hits + 1]
    BY <1>0 DEF Bumped
  <2>3. Only("file", {"hits"})["file"] = {"hits"}
    BY <1>0 DEF Only
  <2> HIDE DEF r, w
  <2>4. w \in RecSet(clock + 1) /\ w.life = r.life /\ \A f \in Fields \ {"hits"} : w[f] = r[f]
    BY <2>1, <2>2 DEF RecSet, Fields
  <2> QED BY <1>1, <1>2, <2>3, <2>4 DEF FromCopy, r, w
<1>3. ASSUME s["gotcha"].life # "none"
      PROVE  FromCopy({"gotcha"}, Cascaded(s, clock + 1), s, Only("gotcha", {"shape"}))
  <2> DEFINE r == s["gotcha"]  w == Cascaded(s, clock + 1)["gotcha"]
  <2>1. r \in RecSet(clock + 1)
    BY <1>0, <1>1
  <2>2. w = [r EXCEPT !.shape = clock + 1]
    BY <1>0 DEF Cascaded
  <2>3. Only("gotcha", {"shape"})["gotcha"] = {"shape"}
    BY <1>0 DEF Only
  <2> HIDE DEF r, w
  <2>4. w \in RecSet(clock + 1) /\ w.life = r.life /\ \A f \in Fields \ {"shape"} : w[f] = r[f]
    BY <1>0, <2>1, <2>2 DEF RecSet, Fields
  <2> QED BY <1>1, <1>3, <2>3, <2>4 DEF FromCopy, r, w
<1>4. ASSUME s["gotcha"].life # "none"
      PROVE  FromCopy({"gotcha"}, Promoted(s), s, Only("gotcha", {"conf"}))
  <2> DEFINE r == s["gotcha"]  w == Promoted(s)["gotcha"]
  <2>1. r \in RecSet(clock + 1)
    BY <1>0, <1>1
  <2>2. w = [r EXCEPT !.conf = TRUE]
    BY <1>0 DEF Promoted
  <2>3. Only("gotcha", {"conf"})["gotcha"] = {"conf"}
    BY <1>0 DEF Only
  <2> HIDE DEF r, w
  <2>4. w \in RecSet(clock + 1) /\ w.life = r.life /\ \A f \in Fields \ {"conf"} : w[f] = r[f]
    BY <2>1, <2>2 DEF RecSet, Fields
  <2> QED BY <1>1, <1>4, <2>3, <2>4 DEF FromCopy, r, w
<1> QED BY <1>2, <1>3, <1>4

\* A best-effort write of one record, done or not.
MaybeWritten(k, w, s, own) ==
    \/ FromCopy({k}, w, s, own) /\ Write({k}, w, s, own)
    \/ UNCHANGED <<rec, truth, raced, clock>>

LEMMA MaybeKeeps ==
  ASSUME IInv, NEW k \in Keys, NEW w, NEW s \in [Keys -> RecAt(clock)], NEW own,
         MaybeWritten(k, w, s, own), UNCHANGED <<day, counted, receipts>>,
         clock' \in {clock, clock + 1} =>
            /\ CallsOK' /\ Ids' = Ids /\ \A i \in Ids : asked'[i].cmd = asked[i].cmd
            /\ JobTypes' /\ JobInv'
  PROVE  IInv'
<1>1. CASE FromCopy({k}, w, s, own) /\ Write({k}, w, s, own)
  <2>1. {k} \in SUBSET Keys /\ StoreTypes /\ SerialOutcome
    BY DEF IInv
  <2>2. /\ clock' = clock + 1
        /\ rec' \in [Keys -> RecAt(clock')] /\ truth' \in [Keys -> RecSet(clock')]
        /\ SerialOutcome'
    BY <1>1, <2>1, WriteKeeps
  <2> QED BY <2>2, RecordsWritten
<1>2. CASE UNCHANGED <<rec, truth, raced, clock>>
  <2>1. StoreTypes' /\ SerialOutcome'
    BY <1>2, StoreStays
  <2> QED BY <1>2, <2>1 DEF IInv, CallsOK
<1> QED BY <1>1, <1>2 DEF MaybeWritten

LEMMA BumpKeeps ==
  ASSUME IInv, NEW c \in Conns, Bump(c)
  PROVE  IInv'
<1> DEFINE cmd == conn[c].cmd  at == conn[c].at  s == conn[c].snap
           k == IF Step(c) = "bump" THEN "file" ELSE "gotcha"
           w == IF Step(c) = "bump" THEN Bumped(s) ELSE Cascaded(s, clock + 1)
           own == IF Step(c) = "bump" THEN Only("file", {"hits"}) ELSE Only("gotcha", {"shape"})
<1>1. /\ UNCHANGED <<day, counted, spawned, receipts, audits, effects, mute>>
      /\ Step(c) \in {"bump", "cascade"} /\ Advance(c, conn[c])
  BY DEF Bump
<1>2. /\ conn[c].pc = "run" /\ conn[c] \in ConnAt(clock, Ids) /\ cmd \in Cmds /\ clock \in Nat
      /\ at \in 1..Len(Route(cmd)) /\ Route(cmd)[at] = Step(c)
  <2>1. Step(c) # "none"
    BY <1>1
  <2> QED BY <2>1, AtStep
<1>3. \/ at = 4 /\ cmd \in {"consultation_hit", "file_edit_hook", "file_reparse"}
      \/ at = 8 /\ cmd = "file_edit_hook"
  BY <1>1, <1>2, StepFacts
<1>4. at < Len(Route(cmd)) => Route(cmd)[at + 1] # "commit"
  <2>1. CASE cmd = "consultation_hit"
    <3>1. Len(Route(cmd)) = 4
      BY <2>1, Routes
    <3> QED BY <1>3, <2>1, <3>1
  <2>2. CASE cmd = "file_edit_hook"
    <3>1. Len(Route(cmd)) = 8 /\ Route(cmd)[5] = "load"
      BY <2>2, Routes
    <3> QED BY <1>3, <2>2, <3>1
  <2>3. CASE cmd = "file_reparse"
    <3>1. Len(Route(cmd)) = 4
      BY <2>3, Routes
    <3> QED BY <1>3, <2>3, <3>1
  <2> QED BY <1>3, <2>1, <2>2, <2>3
<1>5. s \in [Keys -> RecAt(clock)] /\ k \in Keys
  BY <1>2 DEF ConnAt, Keys
<1>6. MaybeWritten(k, w, s, own)
  <2>1. s[k].life # "none" => FromCopy({k}, w, s, own)
    BY <1>2, <1>5, OneField
  <2>2. \/ s[k].life # "none" /\ Write({k}, w, s, own)
        \/ UNCHANGED <<rec, truth, raced, clock>>
    BY <1>1 DEF Bump
  <2> QED BY <2>1, <2>2 DEF MaybeWritten
<1> HIDE DEF k, w, own
<1>7. ASSUME clock' \in {clock, clock + 1}
      PROVE  /\ CallsOK' /\ Ids' = Ids /\ \A i \in Ids : asked'[i].cmd = asked[i].cmd
             /\ JobTypes' /\ JobInv'
  <2>1. conn[c] \in ConnAt(clock', Ids)
    <3>1. clock' \in Nat /\ clock <= clock'
      BY <1>2, <1>7
    <3> QED BY <1>2, <3>1, LocalGrows
  <2>2. Step(c) \notin {"commit", "sessions", "report"}
    BY <1>1
  <2>3. CallsOK' /\ Ids' = Ids /\ \A i \in Ids : asked'[i].cmd = asked[i].cmd
    BY <1>1, <1>2, <1>4, <1>7, <2>1, <2>2, QuietKeeps
  <2>4. JobTypes' /\ JobInv'
    BY <1>1, <1>7, <2>3, JobsStay
  <2> QED BY <2>3, <2>4
<1>8. UNCHANGED <<day, counted, receipts>>
  BY <1>1
<1> QED BY <1>5, <1>6, <1>7, <1>8, MaybeKeeps

LEMMA PromoteKeeps ==
  ASSUME IInv, NEW c \in Conns, Promote(c)
  PROVE  IInv'
<1> DEFINE cmd == conn[c].cmd  at == conn[c].at  s == conn[c].snap
           w == Promoted(s)  own == Only("gotcha", {"conf"})
<1>1. /\ UNCHANGED <<day, counted, spawned, receipts, audits, mute>>
      /\ Step(c) = "promote" /\ Advance(c, conn[c])
      /\ effects \subseteq effects' /\ \A e \in effects' \ effects : e.id = conn[c].id
  BY DEF Promote, Changes
<1>2. /\ conn[c].pc = "run" /\ conn[c] \in ConnAt(clock, Ids) /\ cmd \in Cmds /\ clock \in Nat
      /\ at = 2 /\ cmd = "session_harvest"
  BY <1>1, AtStep, StepFacts
<1>3. Route(cmd)[at + 1] # "commit"
  BY <1>2, Routes
<1>4. s \in [Keys -> RecAt(clock)] /\ "gotcha" \in Keys
  BY <1>2 DEF ConnAt, Keys
<1>5. MaybeWritten("gotcha", w, s, own)
  <2>1. s["gotcha"].life # "none" => FromCopy({"gotcha"}, w, s, own)
    BY <1>2, <1>4, OneField
  <2>2. \/ s["gotcha"].life # "none" /\ Write({"gotcha"}, w, s, own)
        \/ UNCHANGED <<rec, truth, raced, clock>>
    BY DEF Promote
  <2> QED BY <2>1, <2>2 DEF MaybeWritten
<1> HIDE DEF w, own
<1>6. ASSUME clock' \in {clock, clock + 1}
      PROVE  /\ CallsOK' /\ Ids' = Ids /\ \A i \in Ids : asked'[i].cmd = asked[i].cmd
             /\ JobTypes' /\ JobInv'
  <2>1. conn[c] \in ConnAt(clock', Ids)
    <3>1. clock' \in Nat /\ clock <= clock'
      BY <1>2, <1>6
    <3> QED BY <1>2, <3>1, LocalGrows
  <2>2. CallsOK' /\ Ids' = Ids /\ \A i \in Ids : asked'[i].cmd = asked[i].cmd
    BY <1>1, <1>2, <1>3, <1>6, <2>1, QuietKeeps
  <2>3. JobTypes' /\ JobInv'
    BY <1>1, <1>6, <2>2, JobsStay
  <2> QED BY <2>2, <2>3
<1> QED BY <1>1, <1>4, <1>5, <1>6, MaybeKeeps

LEMMA ArchiveKeeps ==
  ASSUME IInv, NEW c \in Conns, Archive(c)
  PROVE  IInv'
<1> DEFINE cmd == conn[c].cmd  at == conn[c].at  id == conn[c].id
<1>1. /\ UNCHANGED <<rec, truth, raced, day, counted, clock, spawned, receipts, audits, effects>>
      /\ Step(c) = "archive"
  BY DEF Archive, store, ghosts
<1>2. /\ conn[c].pc = "run" /\ conn[c] \in ConnAt(clock, Ids) /\ cmd \in Cmds /\ Working(c)
      /\ at = 3 /\ cmd = "session_harvest"
  BY <1>1, AtStep, StepFacts
<1>3. ASSUME Advance(c, conn[c]), mute' = mute
      PROVE  CallsOK' /\ Ids' = Ids /\ \A i \in Ids : asked'[i].cmd = asked[i].cmd
  <2>1. Route(cmd)[at + 1] # "commit"
    BY <1>2, Routes
  <2> QED BY <1>1, <1>2, <1>3, <2>1, QuietKeeps
<1>4. ASSUME conn' = [conn EXCEPT ![c].at = @ + 2], asked' = asked, mute' = mute
      PROVE  CallsOK' /\ Ids' = Ids /\ \A i \in Ids : asked'[i].cmd = asked[i].cmd
  <2> DEFINE m == [conn[c] EXCEPT !.at = @ + 2]
  <2>1. conn' = [conn EXCEPT ![c] = m]
    BY <1>4
  <2>2. /\ m \in ConnAt(clock', Ids) /\ m.pc = "run" /\ m.id = id /\ m.cmd = cmd /\ m.at = 5
        /\ m.left = conn[c].left
    <3>1. conn[c].at + 2 \in Nat
      BY <1>2
    <3> QED BY <1>1, <1>2, <3>1 DEF ConnAt
  <2> HIDE DEF m
  <2>3. asked' = [asked EXCEPT ![conn[c].id].result = "open"]
    <3>1. asked \in Seq(AskRec) /\ conn[c].id \in Ids /\ asked[conn[c].id].result = "open"
      BY <1>2 DEF Working, IInv, ConnTypes
    <3>2. asked[conn[c].id] \in AskRec
      BY <3>1 DEF Ids
    <3> QED BY <1>4, <3>1, <3>2 DEF AskRec, Ids
  <2>4. Placed(m)
    <3>1. Len(Route(m.cmd)) = 5 /\ Route(m.cmd)[5] = "report"
      BY <1>2, <2>2, Routes
    <3>2. m.cmd # "record_import" /\ m.cmd \in Cmds /\ m.at \in 1..Len(Route(m.cmd))
      BY <1>2, <2>2, <3>1
    <3> QED BY <2>2, <3>1, <3>2 DEF Placed
  <2>5. LoggedIn(m.id, m.cmd, m.at, audits', effects', mute')
    BY <1>1, <1>2, <2>2 DEF Working, LoggedIn, KnowDone, SessDone
  <2>6. \A row \in audits : row.id = conn[c].id => row.ok
    BY <1>2 DEF Working, LoggedIn
  <2>7. ConnTypes' /\ ConnInv' /\ AuditMatches' /\ Ids' = Ids
    BY <1>1, <1>2, <1>4, <2>1, <2>2, <2>3, <2>4, <2>5, <2>6, ActKeeps
  <2> QED BY <1>4, <2>7 DEF CallsOK
<1>5. ASSUME Dropped(c)
      PROVE  CallsOK' /\ Ids' = Ids /\ \A i \in Ids : asked'[i].cmd = asked[i].cmd
  <2>1. ~SessDone(cmd, at) /\ ~KnowDone(cmd, at)
    BY <1>2 DEF SessDone, KnowDone
  <2> QED BY <1>1, <1>2, <1>5, <2>1, DroppedKeeps
<1>6. CallsOK' /\ Ids' = Ids /\ \A i \in Ids : asked'[i].cmd = asked[i].cmd
  BY <1>3, <1>4, <1>5 DEF Archive
<1> QED BY <1>1, <1>6, NothingWritten

LEMMA SweepKeeps ==
  ASSUME IInv, NEW c \in Conns, Sweep(c)
  PROVE  IInv'
<1> DEFINE cmd == conn[c].cmd  at == conn[c].at  id == conn[c].id
<1>1. /\ UNCHANGED <<rec, truth, raced, day, counted, clock, spawned, audits, effects>>
      /\ Step(c) = "sweep" /\ receipts' \subseteq receipts
  BY DEF Sweep, ghosts
<1>2. /\ conn[c].pc = "run" /\ conn[c] \in ConnAt(clock, Ids) /\ cmd \in Cmds /\ Working(c)
      /\ \/ at = 4 /\ cmd = "session_harvest"
         \/ at = 1 /\ cmd = "session_clear_consults"
  BY <1>1, AtStep, StepFacts
<1>3. ASSUME Advance(c, conn[c]), mute' = mute
      PROVE  CallsOK' /\ Ids' = Ids /\ \A i \in Ids : asked'[i].cmd = asked[i].cmd
  <2>1. at < Len(Route(cmd)) => Route(cmd)[at + 1] # "commit"
    <3>1. CASE cmd = "session_harvest"
      BY <1>2, <3>1, Routes
    <3>2. CASE cmd = "session_clear_consults"
      <4>1. Len(Route(cmd)) = 1
        BY <3>2, Routes
      <4> QED BY <1>2, <3>2, <4>1
    <3> QED BY <1>2, <3>1, <3>2
  <2> QED BY <1>1, <1>2, <1>3, <2>1, QuietKeeps
<1>4. ASSUME cmd = "session_clear_consults", Answer(c, "err"), mute' = mute \cup {id}
      PROVE  CallsOK' /\ Ids' = Ids /\ \A i \in Ids : asked'[i].cmd = asked[i].cmd
  <2>1. \A row \in audits : row.id = id => row.ok
    BY <1>2 DEF Working, LoggedIn
  <2> QED BY <1>1, <1>2, <1>4, <2>1, AnswerKeeps
<1>5. ASSUME Dropped(c)
      PROVE  CallsOK' /\ Ids' = Ids /\ \A i \in Ids : asked'[i].cmd = asked[i].cmd
  <2>1. ~SessDone(cmd, at) /\ ~KnowDone(cmd, at)
    BY <1>2 DEF SessDone, KnowDone
  <2> QED BY <1>1, <1>2, <1>5, <2>1, DroppedKeeps
<1>6. CallsOK' /\ Ids' = Ids /\ \A i \in Ids : asked'[i].cmd = asked[i].cmd
  BY <1>3, <1>4, <1>5 DEF Sweep
<1> QED BY <1>1, <1>6, NothingWritten

LEMMA ReportKeeps ==
  ASSUME IInv, NEW c \in Conns, Report(c)
  PROVE  IInv'
<1> DEFINE cmd == conn[c].cmd  at == conn[c].at  id == conn[c].id
<1>1. /\ UNCHANGED <<rec, truth, raced, day, counted, clock, spawned, receipts, effects>>
      /\ Step(c) = "report" /\ Advance(c, conn[c]) /\ mute' \in {mute, mute \cup {id}}
      /\ \/ audits' = audits \cup {Row("sessions", id, TRUE)}
         \/ audits' = audits /\ id \in mute'
  BY DEF Report, ghosts
<1>2. /\ conn[c].pc = "run" /\ conn[c] \in ConnAt(clock, Ids) /\ cmd \in Cmds /\ Working(c)
      /\ at = 5 /\ cmd = "session_harvest"
  BY <1>1, AtStep, StepFacts
<1>3. Len(Route(cmd)) = 5
  BY <1>2, Routes
<1>4. cmd \notin KnowledgeMutations \cup Compound /\ cmd # "record_import"
  BY <1>2 DEF KnowledgeMutations, Compound
<1>5. /\ audits \subseteq audits'
      /\ \A row \in audits' \ audits : row.id = id /\ row.ok
  <2>1. Row("sessions", id, TRUE).id = id /\ Row("sessions", id, TRUE).ok
    BY DEF Row
  <2> QED BY <1>1, <2>1
<1>6. at = Len(Route(cmd)) /\ ~(at < Len(Route(cmd)))
  <2>1. at = 5 /\ Len(Route(cmd)) = 5
    BY <1>2, <1>3
  <2> HIDE DEF at, cmd
  <2> QED BY <2>1
<1>7. CallsOK' /\ Ids' = Ids /\ \A i \in Ids : asked'[i].cmd = asked[i].cmd
  BY <1>1, <1>2, <1>4, <1>5, <1>6, AdvanceKeeps
<1> QED BY <1>1, <1>7, NothingWritten

\* The deferred write a request leaves behind.
LEMMA SpawnKeeps ==
  ASSUME IInv, NEW c \in Conns, conn[c].pc # "idle", Spawn(c), clock' = clock, Ids' = Ids,
         \A i \in Ids : asked'[i].cmd = asked[i].cmd
  PROVE  JobTypes' /\ JobInv'
<1>1. /\ Working(c) /\ conn[c] \in ConnAt(clock, Ids) /\ conn[c].id \in Ids
      /\ asked[conn[c].id].cmd = conn[c].cmd
  BY DEF IInv, ConnTypes, ConnInv, Working
<1>2. CASE spawned' = spawned
  BY <1>2, JobsStay
<1>3. CASE /\ conn[c].cmd \in SideEffectingReads /\ conn[c].snap["file"].life = "active"
           /\ spawned' = spawned \cup
               {[id |-> conn[c].id, pc |-> IF conn[c].cmd = "mem_get" THEN "put" ELSE "get",
                 snap |-> conn[c].snap, seen |-> {}]}
  <2> DEFINE j == [id |-> conn[c].id, pc |-> IF conn[c].cmd = "mem_get" THEN "put" ELSE "get",
                   snap |-> conn[c].snap, seen |-> {}]
  <2>1. conn[c].snap \in [Keys -> RecAt(clock)]
    BY <1>1 DEF ConnAt
  <2>2. j \in JobAt(clock', Ids') /\ j.id = conn[c].id /\ j.snap["file"].life # "none"
    BY <1>1, <1>3, <2>1 DEF JobAt
  <2> HIDE DEF j
  <2>3. spawned' = spawned \cup {j}
    BY <1>3 DEF j
  <2>4. \A k \in spawned : k \in JobAt(clock, Ids) /\ k.id \in Ids
    BY DEF IInv, JobTypes, JobAt
  <2>5. \A k \in spawned' : k \in JobAt(clock', Ids') /\ asked'[k.id].cmd \in SideEffectingReads
    BY <1>1, <1>3, <2>2, <2>3, <2>4 DEF IInv, JobTypes
  <2> QED BY <2>2, <2>3, <2>5 DEF IInv, JobTypes, JobInv
<1> QED BY <1>2, <1>3 DEF Spawn

\* The calls after a commit to the sessions tree, or one that mem_get,
\* mem_bootstrap or the edit hook went on without.
LEMMA SessionCalls ==
  ASSUME IInv, NEW c \in Conns, Step(c) = "sessions", clock' = clock, Advance(c, conn[c]),
         \/ /\ audits' = audits \cup {Row("sessions", conn[c].id, TRUE)}
            /\ Changes(c, "sessions") /\ mute' = mute
         \/ UNCHANGED <<audits, effects>> /\ mute' = mute \cup {conn[c].id}
  PROVE  CallsOK' /\ Ids' = Ids /\ \A i \in Ids : asked'[i].cmd = asked[i].cmd
<1> DEFINE id == conn[c].id  cmd == conn[c].cmd  at == conn[c].at
           row == Row("sessions", id, TRUE)  e == [tree |-> "sessions", id |-> id]
<1>0. /\ conn[c].pc = "run" /\ conn[c] \in ConnAt(clock, Ids) /\ cmd \in Cmds /\ Working(c)
      /\ \/ at = 3 /\ cmd = "mem_bootstrap"
         \/ at = 2 /\ cmd \in {"mem_get", "session_log", "consultation_hit",
                               "file_edit_hook", "session_flush"}
  BY AtStep, StepFacts
<1>1. /\ row.id = id /\ row.ok /\ row = Row(e.tree, e.id, TRUE) /\ e.id = id
      /\ e.tree = "sessions"
  BY DEF Row
<1>2. LoggedIn(id, cmd, at, audits, effects, mute)
  BY <1>0 DEF Working
<1> HIDE DEF row, e
<1>3. /\ audits \subseteq audits' /\ effects \subseteq effects'
      /\ mute' \in {mute, mute \cup {id}}
      /\ audits' \subseteq audits \cup {row} /\ effects' \subseteq effects \cup {e}
      /\ e \in effects' \ effects => row \in audits'
      /\ row \in audits' \/ id \in mute'
  BY DEF Changes, row, e
<1>4. ASSUME at < Len(Route(cmd))
      PROVE  /\ LoggedIn(id, cmd, at + 1, audits', effects', mute')
             /\ Route(cmd)[at + 1] # "commit"
  <2>1. at = 2 /\ cmd \in {"consultation_hit", "file_edit_hook"}
    <3>1. /\ cmd = "mem_bootstrap" => Len(Route(cmd)) = 3
          /\ cmd \in {"mem_get", "session_log", "session_flush"} => Len(Route(cmd)) = 2
      BY Routes
    <3>2. ASSUME cmd = "mem_bootstrap" PROVE FALSE
      <4>1. at = 3 /\ Len(Route(cmd)) = 3
        BY <1>0, <3>1, <3>2
      <4> QED BY <1>4, <4>1
    <3>3. ASSUME cmd \in {"mem_get", "session_log", "session_flush"} PROVE FALSE
      <4>1. at = 2 /\ Len(Route(cmd)) = 2
        BY <1>0, <3>1, <3>3
      <4> QED BY <1>4, <4>1
    <3> QED BY <1>0, <3>2, <3>3
  <2>2. Route(cmd)[at + 1] # "commit"
    <3>1. CASE cmd = "consultation_hit"
      BY <2>1, <3>1, Routes
    <3>2. CASE cmd = "file_edit_hook"
      BY <2>1, <3>2, Routes
    <3> QED BY <2>1, <3>1, <3>2
  <2>3. SessDone(cmd, at + 1) /\ ~KnowDone(cmd, at + 1) /\ ~KnowDone(cmd, at)
    BY <2>1 DEF SessDone, KnowDone
  <2>4. \A q \in audits' : q.id = id => q.ok
    BY <1>1, <1>2, <1>3 DEF LoggedIn
  <2>5. \A q \in effects' : q.id = id =>
          \/ cmd = "session_harvest"
          \/ q.tree = "knowledge" /\ KnowDone(cmd, at + 1)
          \/ q.tree = "sessions" /\ SessDone(cmd, at + 1)
    BY <1>1, <1>2, <1>3, <2>3 DEF LoggedIn
  <2>6. Row("sessions", id, TRUE) \in audits' \/ id \in mute'
    BY <1>3 DEF row
  <2> QED BY <2>2, <2>3, <2>4, <2>5, <2>6 DEF LoggedIn
<1>5. ASSUME at = Len(Route(cmd))
      PROVE  cmd \notin KnowledgeMutations \cup Compound
  <2>1. ASSUME cmd = "file_edit_hook" PROVE FALSE
    <3>1. Len(Route(cmd)) = 8 /\ at = 2
      BY <1>0, <2>1, Routes
    <3> QED BY <1>5, <3>1
  <2> QED BY <1>0, <2>1 DEF KnowledgeMutations, Compound
<1>6. /\ \A q \in audits' \ audits : q.id = id /\ q.ok
      /\ \A q \in effects' \ effects : q.id = id /\ Row(q.tree, q.id, TRUE) \in audits'
  BY <1>1, <1>3
<1>7. at = Len(Route(cmd)) /\ cmd \notin Unaudited /\ id \notin mute' =>
             /\ cmd \in KnowledgeMutations \cup Compound => Row("knowledge", id, TRUE) \in audits'
             /\ cmd \notin KnowledgeMutations => Row("sessions", id, TRUE) \in audits'
  BY <1>3, <1>5 DEF row
<1>8. cmd # "record_import" /\ conn[c] \in ConnAt(clock', Ids)
  BY <1>0
<1> QED BY <1>0, <1>3, <1>4, <1>6, <1>7, <1>8, AdvanceKeeps

LEMMA SessionsKeeps ==
  ASSUME IInv, NEW c \in Conns, Sessions(c)
  PROVE  IInv'
<1> DEFINE cmd == conn[c].cmd  id == conn[c].id  agg == conn[c].agg  seen == conn[c].seen
<1>1. /\ UNCHANGED <<rec, truth, clock, mute>> /\ Step(c) = "sessions"
      /\ day' = (IF agg THEN seen \cup {id} ELSE day) /\ Tally(agg, seen, id)
      /\ receipts' = (IF Mints(cmd) THEN receipts \cup {id} ELSE receipts)
      /\ Spawn(c)
  BY DEF Sessions
<1>2. CallsOK' /\ Ids' = Ids /\ \A i \in Ids : asked'[i].cmd = asked[i].cmd
  BY SessionCalls DEF Sessions
<1>3. conn[c].pc = "run" /\ agg \in BOOLEAN /\ seen \subseteq Ids /\ id \in Ids
  BY <1>1, AtStep DEF ConnAt
<1>4. JobTypes' /\ JobInv'
  BY <1>1, <1>2, <1>3, SpawnKeeps
<1>5. SerialOutcome'
  BY <1>1, <1>3, TallyKeeps DEF IInv
<1>6. counted' \subseteq Ids /\ day' \subseteq Ids /\ receipts' \subseteq Ids
  BY <1>1, <1>3 DEF Tally, IInv, StoreTypes
<1>7. StoreTypes'
  BY <1>1, <1>2, <1>6 DEF IInv, StoreTypes
<1> QED BY <1>2, <1>4, <1>5, <1>7 DEF IInv, CallsOK

LEMMA SessionsFailKeeps ==
  ASSUME IInv, NEW c \in Conns, SessionsFail(c)
  PROVE  IInv'
<1> DEFINE cmd == conn[c].cmd  id == conn[c].id  at == conn[c].at
<1>1. /\ UNCHANGED <<rec, truth, raced, day, counted, clock, receipts, audits, effects>>
      /\ Step(c) = "sessions"
  BY DEF SessionsFail, store, ghosts
<1>2. /\ conn[c].pc = "run" /\ cmd \in Cmds
      /\ \/ at = 3 /\ cmd = "mem_bootstrap"
         \/ at = 2 /\ cmd \in {"mem_get", "session_log", "consultation_hit",
                               "file_edit_hook", "session_flush"}
  BY <1>1, AtStep, StepFacts
<1>3. CASE Spawn(c) /\ Advance(c, conn[c]) /\ mute' = mute \cup {id}
  <2>1. CallsOK' /\ Ids' = Ids /\ \A i \in Ids : asked'[i].cmd = asked[i].cmd
    BY <1>1, <1>3, SessionCalls
  <2>2. JobTypes' /\ JobInv'
    BY <1>1, <1>2, <1>3, <2>1, SpawnKeeps
  <2>3. StoreTypes' /\ SerialOutcome'
    BY <1>1, <2>1, StoreStays
  <2> QED BY <2>1, <2>2, <2>3 DEF IInv, CallsOK
<1>4. CASE cmd # "file_edit_hook" /\ Dropped(c) /\ spawned' = spawned
  <2>1. ~SessDone(cmd, at) /\ ~KnowDone(cmd, at)
    BY <1>2, <1>4 DEF SessDone, KnowDone
  <2>2. CallsOK' /\ Ids' = Ids /\ \A i \in Ids : asked'[i].cmd = asked[i].cmd
    BY <1>1, <1>2, <1>4, <2>1, DroppedKeeps
  <2> QED BY <1>1, <1>4, <2>2, NothingWritten
<1> QED BY <1>3, <1>4 DEF SessionsFail, Mints

LEMMA BootstrapFailedKeeps ==
  ASSUME IInv, NEW c \in Conns, BootstrapFailed(c)
  PROVE  IInv'
<1> DEFINE cmd == conn[c].cmd  id == conn[c].id
           row == Row("sessions", id, FALSE)  e == [tree |-> "sessions", id |-> id]
<1>1. /\ UNCHANGED <<rec, truth, clock, spawned>> /\ conn[c].pc = "failed" /\ Answer(c, "err")
  BY DEF BootstrapFailed
<1>2. id \in Ids /\ cmd = "mem_bootstrap"
  BY <1>1 DEF IInv, ConnInv, Working, Placed
<1>3. row.id = id /\ e.id = id
  BY DEF Row
<1> HIDE DEF row, e
<1>4. \/ /\ receipts' = receipts \cup {id} /\ day' = day \cup {id} /\ Tally(TRUE, day, id)
         /\ effects' = effects \cup {e} /\ audits' = audits \cup {row} /\ mute' = mute
      \/ /\ UNCHANGED <<receipts, day, raced, effects, counted, audits>>
         /\ mute' = mute \cup {id}
  BY DEF BootstrapFailed, Changes, row, e
<1>5. /\ audits \subseteq audits' /\ effects \subseteq effects'
      /\ mute' \in {mute, mute \cup {id}}
      /\ \A q \in audits' \ audits : q.id = id
      /\ \A q \in effects' \ effects : q.id = id /\ Row("sessions", q.id, FALSE) \in audits'
  BY <1>3, <1>4 DEF row
<1>6. CallsOK' /\ Ids' = Ids /\ \A i \in Ids : asked'[i].cmd = asked[i].cmd
  BY <1>1, <1>2, <1>5, AnswerKeeps
<1>7. JobTypes' /\ JobInv'
  BY <1>1, <1>6, JobsStay
<1>8. SerialOutcome'
  <2>1. CASE day' = day \cup {id} /\ Tally(TRUE, day, id)
    <3>1. day' = IF TRUE THEN day \cup {id} ELSE day
      BY <2>1
    <3> QED BY <1>1, <2>1, <3>1, TallyKeeps DEF IInv
  <2>2. CASE UNCHANGED <<day, raced, counted>>
    BY <1>1, <2>2, SerialSame DEF IInv
  <2> QED BY <1>4, <2>1, <2>2
<1>9. counted' \subseteq Ids /\ day' \subseteq Ids /\ receipts' \subseteq Ids
  BY <1>2, <1>4 DEF Tally, IInv, StoreTypes
<1>10. StoreTypes'
  BY <1>1, <1>6, <1>9 DEF IInv, StoreTypes
<1> QED BY <1>6, <1>7, <1>8, <1>10 DEF IInv, CallsOK

\* A request that is received is the last of the requests, and no row or change
\* is its yet.
LEMMA ReceiveKeeps ==
  ASSUME IInv, NEW c \in Conns, Receive(c)
  PROVE  IInv'
<1> DEFINE id == Len(asked) + 1
<1>1. /\ UNCHANGED <<rec, day, receipts, audits, spawned, clock, truth, raced, effects, counted,
                     mute>>
      /\ conn[c].pc = "idle"
  BY DEF Receive, store, ghosts
<1>2. PICK cmd \in Cmds, envelope \in {"ok", "version", "session"},
           res \in {"err", "ok", "open"} :
        /\ res = IF envelope # "ok" /\ ~IsMutation(cmd) THEN "err"
                 ELSE IF envelope = "ok" /\ Route(cmd) = <<>> THEN "ok" ELSE "open"
        /\ asked' = Append(asked, [cmd |-> cmd, result |-> res])
        /\ conn' = IF asked'[id].result # "open" THEN conn
                   ELSE [conn EXCEPT ![c] = [Idle EXCEPT
                       !.pc = IF envelope = "ok" THEN "run" ELSE "fenced",
                       !.id = id, !.cmd = cmd, !.at = 1, !.left = 2]]
  BY DEF Receive
<1>3. /\ asked \in Seq(AskRec) /\ Ids = 1..Len(asked) /\ id \in Nat /\ id \notin Ids
      /\ conn \in [Conns -> ConnAt(clock, Ids)] /\ clock \in Nat /\ Len(asked) \in Nat
  BY DEF IInv, ConnTypes, StoreTypes, Ids
<1> DEFINE q == [cmd |-> cmd, result |-> res]
<1>4. q \in AskRec /\ q.cmd = cmd /\ q.result = res
  BY DEF AskRec
<1> HIDE DEF q
<1>5. /\ asked' \in Seq(AskRec) /\ Ids' = 1..id /\ Ids \subseteq Ids' /\ id \in Ids'
      /\ \A i \in Ids : asked'[i] = asked[i]
      /\ asked'[id] = q
  <2>1. asked' = Append(asked, q)
    BY <1>2 DEF q
  <2>2. asked' \in Seq(AskRec) /\ Len(asked') = id
    BY <1>3, <1>4, <2>1
  <2>3. /\ \A i \in 1..Len(asked) : asked'[i] = asked[i]
        /\ asked'[id] = q
    BY <1>3, <1>4, <2>1
  <2> QED BY <1>3, <2>2, <2>3 DEF Ids
<1>6. Ids' = Ids \cup {id}
  BY <1>3, <1>5
<1> DEFINE m == [Idle EXCEPT !.pc = IF envelope = "ok" THEN "run" ELSE "fenced",
                       !.id = id, !.cmd = cmd, !.at = 1, !.left = 2]
<1>7. conn' = IF res # "open" THEN conn ELSE [conn EXCEPT ![c] = m]
  BY <1>2, <1>4, <1>5
<1>8. /\ m.pc = (IF envelope = "ok" THEN "run" ELSE "fenced") /\ m.id = id /\ m.cmd = cmd
      /\ m.at = 1 /\ m.left = 2 /\ m \in ConnAt(clock', Ids')
  <2>1. Absent \in RecAt(clock')
    BY <1>1, <1>3, StubFacts
  <2>2. Idle \in ConnAt(clock', Ids')
    BY <2>1 DEF Idle, ConnAt
  <2> DEFINE pc == IF envelope = "ok" THEN "run" ELSE "fenced"
  <2>3. pc \in {"run", "fenced"} /\ 1 \in Nat /\ 2 \in Int
    OBVIOUS
  <2>4. m = [Idle EXCEPT !.pc = pc, !.id = id, !.cmd = cmd, !.at = 1, !.left = 2]
    OBVIOUS
  <2> HIDE DEF m, pc
  <2>5. /\ m \in ConnAt(clock', Ids') /\ m.pc = pc /\ m.id = id /\ m.cmd = cmd
        /\ m.at = 1 /\ m.left = 2
    BY <1>3, <2>2, <2>3, <2>4 DEF ConnAt
  <2> QED BY <2>5 DEF pc
<1> HIDE DEF m
<1>9. StoreTypes' /\ SerialOutcome'
  <2>1. SerialOutcome'
    BY <1>1, SerialSame DEF IInv
  <2> QED BY <1>1, <1>5, <2>1 DEF IInv, StoreTypes
<1>10. JobTypes' /\ JobInv'
  <2>1. \A j \in JobAt(clock, Ids) : j \in JobAt(clock', Ids') /\ j.id \in Ids
    BY <1>1, <1>3, <1>5, LocalGrows DEF JobAt
  <2> QED BY <1>1, <1>5, <2>1 DEF IInv, JobTypes, JobInv
<1>11. ConnTypes'
  <2>1. \A d \in Conns : conn[d] \in ConnAt(clock', Ids')
    BY <1>1, <1>3, <1>5, LocalGrows
  <2>2. conn' \in [Conns -> ConnAt(clock', Ids')]
    BY <1>3, <1>7, <1>8, <2>1
  <2> QED BY <1>1, <1>5, <2>2 DEF IInv, ConnTypes
<1>12. res = "open" => Working(c)'
  <2> SUFFICES ASSUME res = "open" PROVE Working(c)'
    OBVIOUS
  <2>1. conn'[c] = m
    BY <1>3, <1>7
  <2>2. Placed(m)
    <3>1. ASSUME m.pc = "run"
          PROVE  /\ 1 \in 1..Len(Route(cmd))
                 /\ Route(cmd)[1] = "commit" => cmd = "record_import"
      <4>1. Route(cmd) # <<>>
        BY <1>2, <1>8, <3>1
      <4>2. 1 \in 1..Len(Route(cmd))
        BY <4>1, RouteStart
      <4>3. Route(cmd)[1] = "commit" => cmd = "record_import"
        BY <4>2, StepFacts
      <4> QED BY <4>2, <4>3
    <3>2. m.pc # "run" => m.pc = "fenced"
      BY <1>8
    <3> QED BY <1>8, <3>1, <3>2 DEF Placed
  <2>3. LoggedIn(m.id, m.cmd, m.at, audits', effects', mute')
    <3>1. /\ \A row \in audits : row.id # id
          /\ \A e \in effects : e.id # id
      BY <1>3 DEF IInv, ConnTypes
    <3>2. ~KnowDone(cmd, 1) /\ ~SessDone(cmd, 1)
      BY DEF KnowDone, SessDone
    <3> QED BY <1>1, <1>8, <3>1, <3>2 DEF LoggedIn
  <2>4. m.id \in Ids' /\ asked'[m.id].cmd = m.cmd /\ asked'[m.id].result = "open"
    BY <1>4, <1>5, <1>8
  <2>5. Placed(conn'[c])
    BY <2>1, <2>2
  <2>6. LoggedIn(conn'[c].id, conn'[c].cmd, conn'[c].at, audits', effects', mute')
    BY <2>1, <2>3
  <2> QED BY <2>1, <2>4, <2>5, <2>6 DEF Working
<1>13. \A d \in Conns \ {c} : /\ conn'[d] = conn[d]
                              /\ conn[d].pc # "idle" => Working(d)' /\ conn[d].id \in Ids
  <2> SUFFICES ASSUME NEW d \in Conns \ {c}
               PROVE  /\ conn'[d] = conn[d]
                      /\ conn[d].pc # "idle" => Working(d)' /\ conn[d].id \in Ids
    OBVIOUS
  <2>1. conn'[d] = conn[d]
    BY <1>3, <1>7
  <2>2. ASSUME conn[d].pc # "idle" PROVE Working(d)' /\ conn[d].id \in Ids
    <3>1. Working(d) /\ conn[d].id \in Ids
      BY <2>2 DEF IInv, ConnInv, Working
    <3>2. asked'[conn[d].id] = asked[conn[d].id] /\ conn[d].id \in Ids'
      BY <1>5, <3>1
    <3>3. Placed(conn'[d])
      BY <2>1, <3>1 DEF Working
    <3>4. LoggedIn(conn'[d].id, conn'[d].cmd, conn'[d].at, audits', effects', mute')
      BY <1>1, <2>1, <3>1 DEF Working
    <3> QED BY <2>1, <3>1, <3>2, <3>3, <3>4 DEF Working
  <2> QED BY <2>1, <2>2
<1>14. ConnInv'
  <2>1. conn'[c].pc # "idle" => res = "open" /\ conn'[c].id = id
    BY <1>1, <1>3, <1>7, <1>8
  <2>2. \A d \in Conns : conn'[d].pc # "idle" => Working(d)'
    BY <1>12, <1>13, <2>1
  <2>3. \A d, e \in Conns :
           conn'[d].pc # "idle" /\ conn'[e].pc # "idle" /\ conn'[d].id = conn'[e].id => d = e
    BY <1>3, <1>13, <2>1 DEF IInv, ConnInv
  <2> QED BY <2>2, <2>3 DEF ConnInv
<1>15. AuditMatches'
  <2>1. \A e \in effects : e.id \in Ids /\ asked'[e.id] = asked[e.id]
    BY <1>5 DEF IInv, ConnTypes
  <2>2. AuditedEffects' /\ RejectedInert'
    <3>1. AuditedEffects /\ RejectedInert /\ effects' = effects /\ audits' = audits
      BY <1>1 DEF IInv, AuditMatches
    <3>2. AuditedEffects'
      BY <2>1, <3>1 DEF AuditedEffects
    <3>3. RejectedInert'
      BY <2>1, <3>1 DEF RejectedInert
    <3> QED BY <3>2, <3>3
  <2>3. AnswersAudited'
    <3>1. res = "ok" => cmd \in Unaudited
      BY <1>2, NoRoute
    <3> QED BY <1>1, <1>4, <1>5, <1>6, <3>1 DEF IInv, AuditMatches, AnswersAudited
  <2> QED BY <2>2, <2>3 DEF AuditMatches
<1> QED BY <1>9, <1>10, <1>11, <1>14, <1>15 DEF IInv

\* The requests and connections, when only deferred writes move.
LEMMA CallsStay ==
  ASSUME IInv, UNCHANGED <<conn, asked, audits, effects, mute>>, clock' \in {clock, clock + 1}
  PROVE  CallsOK' /\ Ids' = Ids
<1>1. Ids' = Ids /\ clock \in Nat /\ clock' \in Nat /\ clock <= clock'
  BY DEF Ids, IInv, StoreTypes
<1>2. conn \in [Conns -> ConnAt(clock', Ids')]
  <2>1. \A k \in ConnAt(clock, Ids) : k \in ConnAt(clock', Ids')
    BY <1>1, LocalGrows
  <2> QED BY <2>1 DEF IInv, ConnTypes
<1>3. ConnTypes'
  BY <1>1, <1>2 DEF IInv, ConnTypes
<1>4. ASSUME NEW c \in Conns, conn[c].pc # "idle" PROVE Working(c)'
  <2>1. Working(c)
    BY <1>4 DEF IInv, ConnInv
  <2>2. Placed(conn'[c]) /\ conn'[c] = conn[c]
    BY <2>1 DEF Working
  <2>3. LoggedIn(conn'[c].id, conn'[c].cmd, conn'[c].at, audits', effects', mute')
    BY <2>1 DEF Working
  <2> QED BY <1>1, <2>1, <2>2, <2>3 DEF Working
<1>5. ConnInv'
  BY <1>4 DEF IInv, ConnInv
<1>6. AuditMatches'
  BY <1>1 DEF IInv, AuditMatches, AuditedEffects, RejectedInert, AnswersAudited
<1> QED BY <1>1, <1>3, <1>5, <1>6 DEF CallsOK

LEMMA BackgroundKeeps ==
  ASSUME IInv, NEW j \in spawned, Background(j)
  PROVE  IInv'
<1>1. /\ UNCHANGED <<conn, asked, audits, effects, mute, receipts>>
      /\ clock \in Nat /\ rec \in [Keys -> RecAt(clock)] /\ j \in JobAt(clock, Ids)
      /\ day \subseteq Ids /\ j.id \in Ids /\ j.seen \subseteq Ids
      /\ asked[j.id].cmd \in SideEffectingReads
  BY DEF Background, IInv, StoreTypes, JobTypes, JobAt
\* The job goes on as another, or ends.
<1>2. ASSUME NEW n \in Nat, clock <= n, clock' = n, Ids' = Ids,
             \A k \in spawned' \ spawned : /\ k \in JobAt(n, Ids) /\ k.id = j.id
                                           /\ k.pc = "put" => k.snap["file"].life # "none"
      PROVE  JobTypes' /\ JobInv'
  <2>1. \A k \in spawned : k \in JobAt(n, Ids) /\ asked[k.id].cmd \in SideEffectingReads
    <3>1. \A k \in JobAt(clock, Ids) : k \in JobAt(n, Ids)
      BY <1>1, <1>2, LocalGrows
    <3> QED BY <3>1 DEF IInv, JobTypes
  <2>2. \A k \in spawned' : /\ k \in JobAt(clock', Ids')
                            /\ asked'[k.id].cmd \in SideEffectingReads
                            /\ k.pc = "put" => k.snap["file"].life # "none"
    BY <1>1, <1>2, <2>1 DEF IInv, JobInv
  <2> QED BY <2>2 DEF JobTypes, JobInv
<1>3. ASSUME clock' \in {clock, clock + 1}
      PROVE  CallsOK' /\ Ids' = Ids /\ clock' \in Nat /\ clock <= clock'
  BY <1>1, <1>3, CallsStay
<1>4. CASE /\ j.pc = "get"
           /\ spawned' = (spawned \ {j}) \cup
                IF rec["file"].life = "none" THEN {} ELSE {[j EXCEPT !.pc = "put", !.snap = rec]}
           /\ UNCHANGED <<rec, truth, raced, clock, day, counted>>
  <2> DEFINE k == [j EXCEPT !.pc = "put", !.snap = rec]
  <2>1. k \in JobAt(clock, Ids) /\ k.id = j.id /\ k.snap = rec
    BY <1>1 DEF JobAt
  <2> HIDE DEF k
  <2>2. spawned' = (spawned \ {j}) \cup IF rec["file"].life = "none" THEN {} ELSE {k}
    BY <1>4 DEF k
  <2>3. \A q \in spawned' \ spawned : /\ q \in JobAt(clock, Ids) /\ q.id = j.id
                                      /\ q.pc = "put" => q.snap["file"].life # "none"
    BY <2>1, <2>2
  <2>4. CallsOK' /\ Ids' = Ids
    BY <1>3, <1>4
  <2>5. JobTypes' /\ JobInv'
    BY <1>1, <1>2, <1>4, <2>3, <2>4
  <2>6. StoreTypes' /\ SerialOutcome'
    BY <1>1, <1>4, <2>4, StoreStays
  <2> QED BY <2>4, <2>5, <2>6 DEF IInv, CallsOK
\* What comes after the put.
<1>5. /\ [j EXCEPT !.pc = "agg"] \in JobAt(clock, Ids)
      /\ [j EXCEPT !.pc = "agg"].id = j.id /\ [j EXCEPT !.pc = "agg"].pc = "agg"
  BY <1>1 DEF JobAt
<1>6. CASE /\ j.pc = "put" /\ Write({"file"}, Bumped(j.snap), j.snap, Only("file", {"hits"}))
           /\ spawned' = (spawned \ {j}) \cup
                IF asked[j.id].cmd = "mem_get" THEN {[j EXCEPT !.pc = "agg"]} ELSE {}
           /\ UNCHANGED <<day, counted>>
  <2> DEFINE s == j.snap  w == Bumped(s)  own == Only("file", {"hits"})  k == [j EXCEPT !.pc = "agg"]
  <2>1. s \in [Keys -> RecAt(clock)] /\ s["file"].life # "none"
    BY <1>1, <1>6 DEF JobAt, IInv, JobInv
  <2>2. FromCopy({"file"}, w, s, own)
    BY <1>1, <2>1, OneField
  <2> HIDE DEF w, own, k
  <2>3. MaybeWritten("file", w, s, own) /\ clock' = clock + 1
    <3>1. Write({"file"}, w, s, own)
      BY <1>6 DEF w, own
    <3> QED BY <2>2, <3>1 DEF MaybeWritten, Write
  <2>4. CallsOK' /\ Ids' = Ids /\ clock' \in Nat /\ clock <= clock'
    BY <1>3, <2>3
  <2>5. /\ k \in JobAt(clock', Ids) /\ k.id = j.id /\ k.pc # "put"
        /\ \A q \in spawned' \ spawned : q = k
    <3>1. k \in JobAt(clock, Ids) /\ k.id = j.id /\ k.pc = "agg"
      BY <1>5 DEF k
    <3>2. k \in JobAt(clock', Ids)
      BY <1>1, <2>4, <3>1, LocalGrows
    <3> QED BY <1>6, <3>1, <3>2 DEF k
  <2>6. JobTypes' /\ JobInv'
    BY <1>2, <2>4, <2>5
  <2>7. "file" \in Keys
    BY DEF Keys
  <2> QED BY <1>1, <1>6, <2>1, <2>3, <2>4, <2>6, <2>7, MaybeKeeps
<1>7. CASE /\ j.pc = "agg"
           /\ spawned' = (spawned \ {j}) \cup {[j EXCEPT !.pc = "count", !.seen = day]}
           /\ UNCHANGED <<rec, truth, raced, clock, day, counted>>
  <2> DEFINE k == [j EXCEPT !.pc = "count", !.seen = day]
  <2>1. k \in JobAt(clock, Ids) /\ k.id = j.id /\ k.pc = "count"
    BY <1>1 DEF JobAt
  <2> HIDE DEF k
  <2>2. \A q \in spawned' \ spawned : q = k
    BY <1>7 DEF k
  <2>3. CallsOK' /\ Ids' = Ids
    BY <1>3, <1>7
  <2>4. JobTypes' /\ JobInv'
    BY <1>1, <1>2, <1>7, <2>1, <2>2, <2>3
  <2>5. StoreTypes' /\ SerialOutcome'
    BY <1>1, <1>7, <2>3, StoreStays
  <2> QED BY <2>3, <2>4, <2>5 DEF IInv, CallsOK
<1>8. CASE /\ day' = j.seen \cup {j.id} /\ Tally(TRUE, j.seen, j.id)
           /\ spawned' = spawned \ {j} /\ UNCHANGED <<rec, truth, clock>>
  <2>1. CallsOK' /\ Ids' = Ids
    BY <1>3, <1>8
  <2>2. JobTypes' /\ JobInv'
    <3>1. spawned' \ spawned = {}
      BY <1>8
    <3> QED BY <1>1, <1>2, <1>8, <2>1, <3>1
  <2>3. SerialOutcome'
    <3>1. day' = IF TRUE THEN j.seen \cup {j.id} ELSE day
      BY <1>8
    <3> QED BY <1>8, <3>1, TallyKeeps DEF IInv
  <2>4. StoreTypes'
    BY <1>1, <1>8, <2>1 DEF IInv, StoreTypes, Tally
  <2> QED BY <2>1, <2>2, <2>3, <2>4 DEF IInv, CallsOK
<1>9. CASE /\ UNCHANGED <<rec, truth, raced, clock, day, counted>>
           /\ spawned' = (spawned \ {j}) \cup
                IF j.pc = "put" /\ asked[j.id].cmd = "mem_get" THEN {[j EXCEPT !.pc = "agg"]} ELSE {}
  <2> DEFINE k == [j EXCEPT !.pc = "agg"]
  <2>1. k \in JobAt(clock, Ids) /\ k.id = j.id /\ k.pc = "agg"
    BY <1>5
  <2> HIDE DEF k
  <2>2. \A q \in spawned' \ spawned : q = k
    BY <1>9 DEF k
  <2>3. CallsOK' /\ Ids' = Ids
    BY <1>3, <1>9
  <2>4. JobTypes' /\ JobInv'
    BY <1>1, <1>2, <1>9, <2>1, <2>2, <2>3
  <2>5. StoreTypes' /\ SerialOutcome'
    BY <1>1, <1>9, <2>3, StoreStays
  <2> QED BY <2>3, <2>4, <2>5 DEF IInv, CallsOK
<1> QED BY <1>4, <1>6, <1>7, <1>8, <1>9 DEF Background

LEMMA CrashKeeps ==
  ASSUME IInv, Crash
  PROVE  IInv'
<1>1. /\ UNCHANGED <<rec, day, audits, clock, truth, raced, effects, counted, mute>>
      /\ conn' = [c \in Conns |-> Idle] /\ spawned' = {} /\ receipts' = {}
      /\ asked' = [i \in DOMAIN asked |->
                   IF asked[i].result = "open" THEN [asked[i] EXCEPT !.result = "cut"]
                   ELSE asked[i]]
  BY DEF Crash, ghosts
<1>2. asked \in Seq(AskRec) /\ Ids = 1..Len(asked) /\ clock \in Nat /\ Len(asked) \in Nat
  BY DEF IInv, StoreTypes, ConnTypes, Ids
<1>3. /\ asked' \in Seq(AskRec) /\ Ids' = Ids
      /\ \A i \in Ids : /\ asked'[i].cmd = asked[i].cmd
                        /\ asked'[i].result = "ok" => asked[i].result = "ok"
  <2>1. \A i \in 1..Len(asked) : asked[i] \in AskRec
    BY <1>2
  <2>2. \A i \in 1..Len(asked) : /\ asked'[i] \in AskRec /\ asked'[i].cmd = asked[i].cmd
                                 /\ asked'[i].result = "ok" => asked[i].result = "ok"
    BY <1>1, <1>2, <2>1 DEF AskRec, Ids
  <2>3. asked' = [i \in 1..Len(asked) |-> asked'[i]]
    BY <1>1, <1>2 DEF Ids
  <2>4. asked' \in Seq(AskRec) /\ DOMAIN asked' = 1..Len(asked)
    BY <1>2, <2>2, <2>3
  <2> QED BY <1>2, <2>2, <2>4 DEF Ids
<1>4. Idle \in ConnAt(clock', Ids') /\ Idle.pc = "idle"
  <2>1. Absent \in RecAt(clock')
    BY <1>1, <1>2, StubFacts
  <2> QED BY <2>1 DEF Idle, ConnAt
<1>5. ConnTypes'
  BY <1>1, <1>3, <1>4 DEF IInv, ConnTypes
<1>6. ConnInv'
  BY <1>1, <1>4 DEF ConnInv
<1>7. AuditMatches'
  <2>1. \A e \in effects : e.id \in Ids
    BY DEF IInv, ConnTypes
  <2>2. AuditedEffects'
    BY <1>1, <1>3, <2>1 DEF IInv, AuditMatches, AuditedEffects
  <2>3. RejectedInert'
    BY <1>1, <1>3, <2>1 DEF IInv, AuditMatches, RejectedInert
  <2>4. AnswersAudited'
    BY <1>1, <1>3 DEF IInv, AuditMatches, AnswersAudited
  <2> QED BY <2>2, <2>3, <2>4 DEF AuditMatches
<1>8. StoreTypes' /\ SerialOutcome'
  BY <1>1, <1>3, StoreStays
<1>9. JobTypes' /\ JobInv'
  BY <1>1 DEF JobTypes, JobInv
<1> QED BY <1>5, <1>6, <1>7, <1>8, <1>9 DEF IInv
-----------------------------------------------------------------------------
(* The theorems.                                                           *)

LEMMA InitIInv == Init => IInv
<1> SUFFICES ASSUME Init PROVE IInv
  OBVIOUS
<1>1. /\ clock = 0 /\ truth = rec /\ day = {} /\ receipts = {} /\ counted = {} /\ audits = {}
      /\ conn = [c \in Conns |-> Idle] /\ spawned = {} /\ asked = <<>> /\ mute = {}
      /\ effects = {} /\ Ids = {}
  BY DEF Init, Ids
<1>2. rec \in [Keys -> RecAt(0)]
  <2>1. Absent \in RecAt(0) /\ Stub \in RecAt(0) /\ Stub.life = "active"
    BY StubFacts
  <2>2. \A src \in {"static", "agent"} : [Stub EXCEPT !.src = src] \in RecAt(0)
    BY <2>1 DEF RecAt, RecSet
  <2>3. CASE rec = [k \in Keys |-> Absent]
    BY <2>1, <2>3
  <2>4. CASE rec = [k \in Keys |-> [Stub EXCEPT !.src = IF k = "file" THEN "static" ELSE "agent"]]
    BY <2>2, <2>4
  <2> QED BY <2>3, <2>4 DEF Init
<1>3. Idle \in ConnAt(clock, Ids) /\ Idle.pc = "idle"
  <2>1. Absent \in RecAt(clock)
    BY <1>1, StubFacts
  <2> QED BY <2>1 DEF Idle, ConnAt
<1>4. StoreTypes
  <2>1. \A r \in RecAt(0) : r \in RecSet(0)
    BY DEF RecAt
  <2> QED BY <1>1, <1>2, <2>1 DEF StoreTypes
<1>5. ConnTypes /\ ConnInv
  BY <1>1, <1>3 DEF ConnTypes, ConnInv
<1>6. JobTypes /\ JobInv
  BY <1>1 DEF JobTypes, JobInv
<1>7. AuditMatches /\ SerialOutcome
  BY <1>1 DEF AuditMatches, AuditedEffects, RejectedInert, AnswersAudited, SerialOutcome
<1> QED BY <1>4, <1>5, <1>6, <1>7 DEF IInv

LEMMA StutterKeeps ==
  ASSUME IInv, UNCHANGED vars
  PROVE  IInv'
<1>1. /\ UNCHANGED <<rec, day, receipts, current, audits, conn, spawned, clock, asked, truth,
                     raced, mute, effects, counted>>
  BY DEF vars, store, history, ghosts
<1>2. CallsOK' /\ Ids' = Ids
  BY <1>1, CallsStay
<1> QED BY <1>1, <1>2, NothingWritten

LEMMA StepKeeps ==
  ASSUME IInv, [Next]_vars
  PROVE  IInv'
<1>1. ASSUME NEW c \in Conns,
             \/ Receive(c) \/ Invalid(c) \/ Reject(c) \/ Load(c) \/ LoadFails(c)
             \/ Noop(c) \/ Commit(c) \/ CommitFails(c) \/ Reload(c) \/ Bump(c)
             \/ Stage(c) \/ Sessions(c) \/ SessionsFail(c) \/ BootstrapFailed(c)
             \/ Promote(c) \/ Archive(c) \/ Sweep(c) \/ Report(c)
      PROVE  IInv'
  BY <1>1, ReceiveKeeps, InvalidKeeps, RejectedKeeps, LoadKeeps, LoadFailsKeeps, NoopKeeps,
     CommitKeeps, CommitFailsKeeps, ReloadKeeps, BumpKeeps, StageKeeps, SessionsKeeps,
     SessionsFailKeeps, BootstrapFailedKeeps, PromoteKeeps, ArchiveKeeps, SweepKeeps, ReportKeeps
<1> QED BY <1>1, BackgroundKeeps, CrashKeeps, StutterKeeps DEF Next

\* The inductive invariant, for every value of the constants.
LEMMA Invariance == Spec => []IInv
BY InitIInv, StepKeeps, PTL DEF Spec

\* Type correctness: the stamps of records are those of commits, rows and
\* receipts belong to requests, and a connection that works has an open request.
THEOREM TypeCorrect == Spec => []TypeOK
<1>1. IInv => TypeOK
  <2> SUFFICES ASSUME IInv PROVE TypeOK
    OBVIOUS
  <2>1. rec \in [Keys -> Record] /\ truth \in [Keys -> Record]
    BY RecordAt DEF IInv, StoreTypes, RecAt
  <2> QED BY <2>1 DEF TypeOK, IInv, StoreTypes, JobTypes, ConnTypes, ConnInv, Working
<1> QED BY <1>1, Invariance, PTL

\* The audit log and what the requests did agree, whatever the connections
\* interleave, whichever store access fails and wherever the daemon is killed:
\* a change is committed with its accepted row, a rejected request changed
\* nothing, and a caller told "ok" finds the row of the request.
THEOREM AuditCorrect == Spec => []AuditMatches
<1>1. IInv => AuditMatches
  BY DEF IInv
<1> QED BY <1>1, Invariance, PTL

\* Every field of every record holds what the last command in charge of it
\* wrote, and the day's aggregate counts every request it should, except where
\* a write from an overtaken copy raced: no command takes back a field that is
\* not its business.
THEOREM SerialCorrect == Spec => []SerialOutcome
<1>1. IInv => SerialOutcome
  BY DEF IInv
<1> QED BY <1>1, Invariance, PTL
=============================================================================

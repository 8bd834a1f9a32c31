------------------------- MODULE GotchaHandlersProofs -------------------------
(***************************************************************************)
(* Proofs about GotchaHandlers, for any gotchas, files, connections,       *)
(* retries and faults.                                                     *)
(***************************************************************************)
EXTENDS GotchaHandlers, TLAPS

Claims(g, f)  == f \in AffectedFiles(gotcha[g])
EdgeOff(f, g) == ~(Claims(g, f) <=> <<f, g>> \in edges)

\* t is serving a gotcha mutation; it has read the gotcha and not yet committed.
Mutates(t) == pc[t] # "idle" /\ loc[t].kind # "enrich"
Reading(t) == pc[t] \in {"links", "propagate", "commit"} /\ loc[t].kind # "enrich"

KindAt(t) ==
    /\ pc[t] \in {"get", "links", "propagate", "edges"} => loc[t].kind # "enrich"
    /\ pc[t] = "links" => loc[t].puts \cap (loc[t].add \cup loc[t].rem) = {}
    /\ pc[t] \in {"propagate", "commit"} /\ loc[t].kind # "enrich" =>
          loc[t].add = {} /\ loc[t].rem = {}
    /\ pc[t] = "commit" /\ loc[t].kind # "enrich" => loc[t].prop = {}

\* What an attempt has planned agrees with the record it will write.
PlanAt(t) == Reading(t) =>
    /\ loc[t].add \cup loc[t].eadd \subseteq AffectedFiles(loc[t].rec)
    /\ \A f \in loc[t].rem \cup loc[t].erem : f \notin AffectedFiles(loc[t].rec)
    /\ loc[t].prop \subseteq AffectedFiles(loc[t].rec)
    /\ loc[t].prop # {} /\ loc[t].key \notin stale[t] => loc[t].rec = gotcha[loc[t].key]

\* A file record the attempt will write is the stored one, but for its key, as
\* long as nobody has committed either since it was read.
BufAt(t) == Reading(t) =>
    \A f \in loc[t].puts \ contended :
       /\ f \notin stale[t] =>
             \A g \in Gotchas \ {loc[t].key} : g \in loc[t].buf[f].keys <=> g \in file[f].keys
       /\ loc[t].key \in loc[t].buf[f].keys => f \in loc[t].rec.files
       /\ loc[t].key \notin stale[t] =>
             (loc[t].key \in loc[t].buf[f].keys <=> f \in AffectedFiles(loc[t].rec))

\* A file the attempt leaves alone is claimed as before.
SkipAt(t) == Reading(t) /\ loc[t].key \notin stale[t] =>
    \A f \in Files \ (contended \cup loc[t].puts \cup loc[t].add \cup loc[t].rem) :
       f \in AffectedFiles(loc[t].rec) <=> Claims(loc[t].key, f)

\* An enrich writes back the file record it has read.
EnrichAt(t) == pc[t] = "commit" /\ loc[t].kind = "enrich" =>
    \A f \in loc[t].puts \ stale[t] : loc[t].buf[f].keys = file[f].keys

\* A request alone on its key finds its plan of the edges still right, before
\* its commit and after it.
EdgesAt(t) == loc[t].key \notin raced =>
    /\ Reading(t) =>
          \A f \in Files \ (loc[t].eadd \cup loc[t].erem) :
             f \in AffectedFiles(loc[t].rec) <=> Claims(loc[t].key, f)
    /\ pc[t] = "edges" =>
          /\ \A f \in loc[t].eadd : Claims(loc[t].key, f)
          /\ \A f \in loc[t].erem : ~Claims(loc[t].key, f)

Sound(t) == KindAt(t) /\ PlanAt(t) /\ BufAt(t) /\ SkipAt(t) /\ EnrichAt(t) /\ EdgesAt(t)

\* What a handler writes exists, and so does what another has written.
Buffered(l) ==
    /\ \A f \in Files : l.buf[f].keys # {} => l.buf[f].exists
    /\ \A f \in l.puts : l.buf[f].exists
StaleInv == \A t \in Tasks, f \in Files : f \in stale[t] => file[f].exists

\* Two requests on a key race.
AloneInv == \A t, u \in Tasks :
    t # u /\ Mutates(t) /\ Mutates(u) /\ loc[t].key = loc[u].key => loc[t].key \in raced

\* Only the edges that a request has still to sync are off.
EdgeInv == \A g \in Gotchas \ raced, f \in Files : EdgeOff(f, g) =>
    \E t \in Tasks : /\ pc[t] = "edges" /\ loc[t].key = g
                     /\ f \in loc[t].eadd \cup loc[t].erem

ExactInv == \A f \in Files \ contended, g \in Gotchas : g \in file[f].keys <=> Claims(g, f)

IInv ==
    /\ TypeOK /\ (\A t \in Tasks : Buffered(loc[t])) /\ StaleInv
    /\ (\A t \in Tasks : Sound(t)) /\ AloneInv /\ EdgeInv /\ ExactInv
-----------------------------------------------------------------------------
(* Types.                                                                  *)

\* The transaction will write r as f.
Enrich(f) == [Request("enrich", NoRequest.key, {f}) EXCEPT
                 !.puts = {f}, !.buf = [@ EXCEPT ![f] = file[f]]]
Buffer(l, f, r) == [l EXCEPT !.puts = @ \cup {f}, !.buf = [@ EXCEPT ![f] = r]]

\* The locals a handler starts from, and what a read makes of them.
LEMMA LocalTypes ==
  /\ \A kind \in Kinds, g \in Gotchas, new \in SUBSET Files : Request(kind, g, new) \in Locals
  /\ NoRequest \in Locals
  /\ \A l \in Locals, rec \in GotchaRec, old, new, prop \in SUBSET Files :
        Plan(l, rec, old, new, prop) \in Locals
  /\ \A l \in Locals, f \in Files, r \in FileRec : Buffer(l, f, r) \in Locals
<1>1. 0 \in 0..Retries /\ NoGotcha \in GotchaRec /\ NoFile \in FileRec
  BY RetriesAssumption DEF NoGotcha, GotchaRec, Lives, NoFile, FileRec
<1>2. [f \in Files |-> NoFile] \in [Files -> FileRec]
  BY <1>1
<1>3. \A kind \in Kinds, g \in Gotchas, new \in SUBSET Files : Request(kind, g, new) \in Locals
  BY <1>1, <1>2 DEF Request, Locals
<1>4. NoRequest \in Locals
  BY <1>3, SomeGotcha DEF NoRequest, Kinds
<1>5. \A l \in Locals, rec \in GotchaRec, old, new, prop \in SUBSET Files :
        Plan(l, rec, old, new, prop) \in Locals
  <2> SUFFICES ASSUME NEW l \in Locals, NEW rec \in GotchaRec, NEW old \in SUBSET Files,
                      NEW new \in SUBSET Files, NEW prop \in SUBSET Files
               PROVE  Plan(l, rec, old, new, prop) \in Locals
    OBVIOUS
  <2> DEFINE none == [f \in Files |-> NoFile]
  <2>1. none \in [Files -> FileRec] /\ new \ old \in SUBSET Files /\ old \ new \in SUBSET Files
    BY <1>2
  <2>2. Plan(l, rec, old, new, prop) =
          [l EXCEPT !.rec = rec, !.add = new \ old, !.rem = old \ new, !.prop = prop,
                    !.eadd = new \ old, !.erem = old \ new, !.puts = {}, !.buf = none]
    BY DEF Plan
  <2> HIDE DEF none
  <2> QED BY <2>1, <2>2 DEF Locals
<1>6. \A l \in Locals, f \in Files, r \in FileRec : Buffer(l, f, r) \in Locals
  BY DEF Buffer, Locals
<1> QED BY <1>3, <1>4, <1>5, <1>6

LEMMA BufferFacts ==
  ASSUME NEW l \in Locals, NEW f \in Files, NEW r \in FileRec
  PROVE  /\ Buffer(l, f, r) \in Locals
         /\ Buffer(l, f, r).puts = l.puts \cup {f}
         /\ Buffer(l, f, r).buf = [l.buf EXCEPT ![f] = r]
         /\ Buffer(l, f, r).kind = l.kind /\ Buffer(l, f, r).key = l.key /\ Buffer(l, f, r).rec = l.rec
         /\ Buffer(l, f, r).prop = l.prop /\ Buffer(l, f, r).add = l.add /\ Buffer(l, f, r).rem = l.rem
         /\ Buffer(l, f, r).eadd = l.eadd /\ Buffer(l, f, r).erem = l.erem
<1>1. Buffer(l, f, r) \in Locals
  BY LocalTypes
<1> QED BY <1>1 DEF Buffer, Locals

\* What the store holds of a gotcha or a file has its type.
LEMMA RecordTypes ==
  ASSUME TypeOK
  PROVE  /\ \A g \in Gotchas : /\ gotcha[g] \in GotchaRec /\ gotcha[g].files \in SUBSET Files
                               /\ gotcha[g].life \in Lives
         /\ \A f \in Files : /\ file[f] \in FileRec
                             /\ file[f].keys # {} => file[f].exists
         /\ \A t \in Tasks : /\ loc[t] \in Locals /\ loc[t].key \in Gotchas
                             /\ loc[t].rec \in GotchaRec /\ loc[t].puts \in SUBSET Files
         /\ \A f \in Files, g \in Gotchas :
               /\ Link(file[f], g) \in FileRec /\ Link(file[f], g).exists
               /\ Unlink(file[f], g) \in FileRec
               /\ Link(file[f], g).keys = file[f].keys \cup {g}
               /\ Unlink(file[f], g).keys = file[f].keys \ {g}
  BY DEF TypeOK, IndexTypeOK, GotchaRec, FileRec, Locals, Link, Unlink

\* A handler's plan, by kind.
LEMMA PlanTypes ==
  ASSUME TypeOK, NEW t \in Tasks, NEW g \in Gotchas
  PROVE  /\ PlanUpsert(loc[t], gotcha[g]) \in Locals
         /\ PlanConfirm(loc[t], gotcha[g]) \in Locals
         /\ PlanTombstone(loc[t], gotcha[g]) \in Locals
<1>1. /\ loc[t] \in Locals /\ loc[t].new \in SUBSET Files
      /\ gotcha[g] \in GotchaRec /\ gotcha[g].files \in SUBSET Files /\ {} \in SUBSET Files
  BY RecordTypes DEF Locals
<1>2. /\ [life |-> "active", files |-> loc[t].new] \in GotchaRec
      /\ [gotcha[g] EXCEPT !.life = "tombstoned"] \in GotchaRec
      /\ AffectedFiles(gotcha[g]) \in SUBSET Files
  BY <1>1 DEF GotchaRec, Lives, AffectedFiles
<1> QED BY <1>1, <1>2, LocalTypes DEF PlanUpsert, PlanConfirm, PlanTombstone

\* The buffers: a linked record exists.
LEMMA BufferStep ==
  TypeOK /\ (\A t \in Tasks : Buffered(loc[t])) /\ [Next]_vars
    => (\A t \in Tasks : Buffered(loc[t]))'
<1> SUFFICES ASSUME TypeOK, \A t \in Tasks : Buffered(loc[t]), [Next]_vars, NEW u \in Tasks
             PROVE  Buffered(loc'[u])
  BY DEF Buffered
<1>0. loc \in [Tasks -> Locals] /\ Buffered(loc[u])
  BY DEF TypeOK
<1>1. /\ \A kind, g, new : Buffered(Request(kind, g, new))
      /\ \A l \in Locals : \A rec, old, new, prop : Buffered(Plan(l, rec, old, new, prop))
      /\ Buffered(NoRequest)
  BY DEF Buffered, Request, Plan, Locals, NoRequest, NoFile
<1>2. \A l \in Locals, f \in Files, r \in FileRec :
         Buffered(l) /\ r.exists =>
            Buffered(Buffer(l, f, r))
  BY DEF Buffer, Buffered, Locals
<1>r. ASSUME NEW t \in Tasks, Return(t) PROVE Buffered(loc'[u])
  BY <1>0, <1>1, <1>r DEF Return, Set
<1>3. ASSUME NEW t \in Tasks, Arrive(t) PROVE Buffered(loc'[u])
  <2>1. ASSUME NEW f \in Files, HandleFileEnrich(t, f) PROVE Buffered(loc'[u])
    <3> DEFINE q == Request("enrich", NoRequest.key, {f})
    <3>1. q \in Locals /\ Buffered(q)
      <4>1. "enrich" \in Kinds /\ NoRequest.key \in Gotchas /\ {f} \in SUBSET Files
        BY LocalTypes DEF Kinds, Locals
      <4> QED BY <1>1, <4>1, LocalTypes
    <3>2. Buffered(Enrich(f))
      <4>1. file[f] \in FileRec /\ file[f].exists
        BY <2>1, RecordTypes DEF HandleFileEnrich
      <4> QED BY <3>1, <4>1 DEF Buffered, Enrich, Locals
    <3>3. loc' = [loc EXCEPT ![t] = Enrich(f)]
      BY <2>1 DEF HandleFileEnrich, Receive, Set, Enrich
    <3> HIDE DEF q
    <3> QED BY <1>0, <3>2, <3>3
  <2>2. ASSUME NEW kind, NEW g, NEW new, HandleGotcha(t, kind, g, new) PROVE Buffered(loc'[u])
    BY <1>0, <1>1, <2>2 DEF HandleGotcha, Receive, Set
  <2> QED BY <1>3, <2>1, <2>2 DEF Arrive, HandleGotchaUpsert, HandleGotchaConfirm,
                                  HandleGotchaTombstone
<1>4. ASSUME NEW t \in Tasks, GetGotcha(t) PROVE Buffered(loc'[u])
  BY <1>0, <1>1, <1>4, <1>r DEF GetGotcha, Set, PlanUpsert, PlanConfirm, PlanTombstone
<1>5. ASSUME NEW t \in Tasks, NEW f \in Files, ReadForLink(t, f) PROVE Buffered(loc'[u])
  <2> DEFINE l1 == [loc[t] EXCEPT !.add = @ \ {f}, !.rem = @ \ {f}]
             new == IF f \in loc[t].add THEN Link(file[f], loc[t].key)
                    ELSE Unlink(file[f], loc[t].key)
  <2>1. l1 \in Locals /\ Buffered(l1)
    BY <1>0 DEF Locals, Buffered
  <2>2. new \in FileRec /\ (new # file[f] => new.exists)
    <3>1. CASE f \in loc[t].add
      BY <3>1, RecordTypes
    <3>2. CASE f \notin loc[t].add
      <4>1. new \in FileRec /\ file[f] \in FileRec
        BY <3>2, RecordTypes
      <4>2. loc[t].key \notin file[f].keys => new = file[f]
        BY <3>2, <4>1 DEF Unlink, FileRec
      <4>3. new.exists = file[f].exists
        BY <3>2, <4>1 DEF Unlink, FileRec
      <4> QED BY <4>1, <4>2, <4>3, RecordTypes
    <3> QED BY <3>1, <3>2
  <2>3. LinkUpdate(loc[t], f) =
          IF new = file[f] THEN l1
          ELSE Buffer(l1, f, new)
    BY DEF LinkUpdate, Buffer
  <2>4. loc' = [loc EXCEPT ![t] = LinkUpdate(loc[t], f)] \/ loc' = [loc EXCEPT ![t] = l1]
    BY <1>5 DEF ReadForLink, Set
  <2> HIDE DEF l1, new
  <2>5. Buffered(LinkUpdate(loc[t], f))
    BY <1>2, <2>1, <2>2, <2>3
  <2> QED BY <1>0, <2>1, <2>4, <2>5
<1>6. ASSUME NEW t \in Tasks, NEW f \in Files, ReadForCount(t, f) PROVE Buffered(loc'[u])
  <2> DEFINE l == [loc[t] EXCEPT !.prop = @ \ {f}]
  <2>1. l \in Locals /\ Buffered(l)
    BY <1>0 DEF Locals, Buffered
  <2>2. loc' = [loc EXCEPT ![t] =
                  IF file[f].exists THEN Buffer(l, f, file[f]) ELSE l]
    BY <1>6 DEF ReadForCount, Set, Buffer
  <2> HIDE DEF l
  <2> QED BY <1>0, <1>2, <2>1, <2>2, RecordTypes
<1>7. ASSUME NEW t \in Tasks,
             LinksRead(t) \/ CountsRead(t) \/ Commit(t) \/ CommitEnrich(t)
             \/ CommitConflict(t) \/ CommitFails(t) \/ Respond(t)
      PROVE  Buffered(loc'[u])
  <2>1. loc' = loc \/ Return(t) \/ loc' = [loc EXCEPT ![t] = NextAttempt(t)]
    BY <1>7 DEF LinksRead, CountsRead, Commit, CommitEnrich, CommitConflict, CommitFails,
                Respond, Set
  <2>2. Buffered(NextAttempt(t))
    BY <1>0 DEF NextAttempt, Buffered, Locals
  <2> QED BY <1>0, <1>r, <2>1, <2>2
<1>8. ASSUME NEW t \in Tasks, NEW f \in Files, SyncEdge(t, f) PROVE Buffered(loc'[u])
  <2> DEFINE l == [loc[t] EXCEPT !.eadd = @ \ {f}, !.erem = @ \ {f}]
  <2>1. Buffered(l)
    BY <1>0 DEF Buffered, Locals
  <2>2. loc' = [loc EXCEPT ![t] = l]
    BY <1>8 DEF SyncEdge, Set
  <2> HIDE DEF l
  <2> QED BY <1>0, <2>1, <2>2
<1>9. CASE Crash
  BY <1>1, <1>9 DEF Crash
<1>10. CASE Done \/ UNCHANGED vars
  BY <1>0, <1>10 DEF Done, vars
<1> QED BY <1>3, <1>4, <1>5, <1>6, <1>7, <1>8, <1>9, <1>10 DEF Next, Step

\* Every step keeps the types.
LEMMA NextTypes == TypeOK /\ (\A t \in Tasks : Buffered(loc[t])) /\ [Next]_vars => TypeOK'
<1> SUFFICES ASSUME TypeOK, \A t \in Tasks : Buffered(loc[t]), [Next]_vars PROVE TypeOK'
  OBVIOUS
<1> USE BoundAssumption
<1>0. IndexTypeOK /\ pc \in [Tasks -> PCs] /\ loc \in [Tasks -> Locals]
  BY DEF TypeOK
<1>i. UNCHANGED index => IndexTypeOK'
  BY <1>0 DEF index, IndexTypeOK
<1>g. ASSUME NEW t \in Tasks, NEW l \in PCs, Goto(t, l) PROVE pc' \in [Tasks -> PCs]
  BY <1>0, <1>g DEF Goto
<1>s. ASSUME NEW t \in Tasks, NEW l \in Locals, Set(t, l) PROVE loc' \in [Tasks -> Locals]
  BY <1>0, <1>s DEF Set
<1>r. ASSUME NEW t \in Tasks, Return(t)
      PROVE  pc' \in [Tasks -> PCs] /\ loc' \in [Tasks -> Locals]
  BY <1>g, <1>r, <1>s, LocalTypes DEF Return, PCs
<1>f. CanFail \/ UNCHANGED bounds =>
        calls' \in 0..MaxCalls /\ fails' \in 0..MaxFails /\ crashes' \in 0..MaxCrashes
  BY DEF CanFail, bounds, TypeOK
<1>h. ASSUME NEW t \in Tasks, NEW r \in Files \cup Gotchas, Fresh(t, r)
      PROVE  stale' \in [Tasks -> SUBSET (Files \cup Gotchas)]
  BY <1>h DEF Fresh, TypeOK
<1>c. ASSUME NEW t \in Tasks, NEW l \in Locals, Receive(t, l)
      PROVE  /\ loc' \in [Tasks -> Locals] /\ calls' \in 0..MaxCalls
             /\ stale' \in [Tasks -> SUBSET (Files \cup Gotchas)]
  <2>1. loc' \in [Tasks -> Locals]
    BY <1>c, <1>s DEF Receive
  <2>2. calls' = calls + 1 /\ calls < MaxCalls /\ calls \in 0..MaxCalls
    BY <1>c DEF Receive, TypeOK
  <2>3. stale' \in [Tasks -> SUBSET (Files \cup Gotchas)]
    BY <1>c DEF Receive, TypeOK
  <2> QED BY <2>1, <2>2, <2>3
<1>1. ASSUME NEW t \in Tasks, NEW kind \in Kinds, NEW g \in Gotchas, NEW new \in SUBSET Files,
             HandleGotcha(t, kind, g, new)
      PROVE  TypeOK'
  <2>1. Request(kind, g, new) \in Locals
    BY LocalTypes
  <2>2. /\ loc' \in [Tasks -> Locals] /\ calls' \in 0..MaxCalls
        /\ stale' \in [Tasks -> SUBSET (Files \cup Gotchas)]
    BY <1>1, <1>c, <2>1 DEF HandleGotcha
  <2>3. pc' \in [Tasks -> PCs]
    BY <1>1, <1>g DEF HandleGotcha, PCs
  <2>4. raced' \subseteq Gotchas
    BY <1>1 DEF HandleGotcha, TypeOK
  <2> QED BY <1>1, <1>i, <2>2, <2>3, <2>4 DEF HandleGotcha, TypeOK
<1>2. ASSUME NEW t \in Tasks, Arrive(t) PROVE TypeOK'
  <2>1. ASSUME NEW f \in Files, HandleFileEnrich(t, f) PROVE TypeOK'
    <3>1. Enrich(f) \in Locals
      <4>1. Request("enrich", NoRequest.key, {f}) \in Locals
        <5>1. "enrich" \in Kinds /\ NoRequest.key \in Gotchas /\ {f} \in SUBSET Files
          BY LocalTypes DEF Kinds, Locals
        <5> QED BY <5>1, LocalTypes
      <4>2. file[f] \in FileRec
        BY RecordTypes
      <4> QED BY <4>1, <4>2 DEF Enrich, Locals
    <3>2. Receive(t, Enrich(f)) /\ Goto(t, "commit")
      BY <2>1 DEF HandleFileEnrich, Enrich
    <3>3. /\ loc' \in [Tasks -> Locals] /\ calls' \in 0..MaxCalls
          /\ stale' \in [Tasks -> SUBSET (Files \cup Gotchas)]
      BY <1>c, <3>1, <3>2
    <3>4. pc' \in [Tasks -> PCs]
      BY <1>g, <3>2 DEF PCs
    <3> QED BY <2>1, <1>i, <3>3, <3>4 DEF HandleFileEnrich, TypeOK
  <2>2. {} \in SUBSET Files /\ {"upsert", "confirm", "tombstone"} \subseteq Kinds
    BY DEF Kinds
  <2> QED BY <1>1, <1>2, <2>1, <2>2 DEF Arrive, HandleGotchaUpsert, HandleGotchaConfirm,
                                        HandleGotchaTombstone
<1>3. ASSUME NEW t \in Tasks, GetGotcha(t) PROVE TypeOK'
  <2>0. loc[t].key \in Gotchas
    BY RecordTypes
  <2>1. pc' \in [Tasks -> PCs] /\ loc' \in [Tasks -> Locals]
    BY <1>3, <1>g, <1>r, <1>s, <2>0, PlanTypes DEF GetGotcha, PCs
  <2>2. stale' \in [Tasks -> SUBSET (Files \cup Gotchas)]
    BY <1>3, <1>h, <2>0 DEF GetGotcha
  <2> QED BY <1>3, <1>f, <1>i, <2>1, <2>2 DEF GetGotcha, TypeOK
<1>4. ASSUME NEW t \in Tasks, NEW f \in Files, ReadForLink(t, f) PROVE TypeOK'
  <2>1. LinkUpdate(loc[t], f) \in Locals
    <3> DEFINE l1 == [loc[t] EXCEPT !.add = @ \ {f}, !.rem = @ \ {f}]
               new == IF f \in loc[t].add THEN Link(file[f], loc[t].key)
                      ELSE Unlink(file[f], loc[t].key)
    <3>1. loc[t] \in Locals
      BY RecordTypes
    <3>2. l1 \in Locals
      BY <3>1 DEF Locals
    <3>3. new \in FileRec
      BY RecordTypes
    <3>4. LinkUpdate(loc[t], f) =
            IF new = file[f] THEN l1
            ELSE Buffer(l1, f, new)
      BY DEF LinkUpdate, Buffer
    <3> HIDE DEF l1, new
    <3> QED BY <3>2, <3>3, <3>4, LocalTypes
  <2>2. [loc[t] EXCEPT !.add = @ \ {f}, !.rem = @ \ {f}] \in Locals
    BY <1>0 DEF Locals
  <2>3. loc' \in [Tasks -> Locals]
    BY <1>4, <1>s, <2>1, <2>2 DEF ReadForLink
  <2>4. stale' \in [Tasks -> SUBSET (Files \cup Gotchas)]
    BY <1>4, <1>h DEF ReadForLink
  <2>5. /\ contended' \subseteq Files
        /\ calls' \in 0..MaxCalls /\ fails' \in 0..MaxFails /\ crashes' \in 0..MaxCrashes
    BY <1>4, <1>f DEF ReadForLink, TypeOK
  <2> QED BY <1>4, <1>i, <2>3, <2>4, <2>5 DEF ReadForLink, TypeOK
<1>5. ASSUME NEW t \in Tasks, LinksRead(t) \/ CountsRead(t) PROVE TypeOK'
  <2>1. pc' \in [Tasks -> PCs]
    BY <1>5, <1>g DEF LinksRead, CountsRead, PCs
  <2> QED BY <1>5, <1>i, <2>1 DEF LinksRead, CountsRead, bounds, history, TypeOK
<1>6. ASSUME NEW t \in Tasks, NEW f \in Files, ReadForCount(t, f) PROVE TypeOK'
  <2> DEFINE l == [loc[t] EXCEPT !.prop = @ \ {f}]
  <2>1. l \in Locals /\ file[f] \in FileRec
    <3>1. loc[t] \in Locals /\ file[f] \in FileRec
      BY RecordTypes
    <3> QED BY <3>1 DEF Locals
  <2>2. Set(t, IF file[f].exists THEN Buffer(l, f, file[f]) ELSE l)
    BY <1>6 DEF ReadForCount, Buffer
  <2> HIDE DEF l
  <2>3. Buffer(l, f, file[f]) \in Locals
    BY <2>1, LocalTypes
  <2>4. loc' \in [Tasks -> Locals]
    BY <1>s, <2>1, <2>2, <2>3
  <2>5. stale' \in [Tasks -> SUBSET (Files \cup Gotchas)]
    BY <1>6, <1>h DEF ReadForCount
  <2> QED BY <1>6, <1>f, <1>i, <2>4, <2>5 DEF ReadForCount, TypeOK
<1>p. ASSUME NEW t \in Tasks, PutFiles(loc[t])
      PROVE  file' \in [Files -> FileRec] /\ \A f \in Files : file'[f].keys # {} => file'[f].exists
  <2>1. loc[t].buf \in [Files -> FileRec]
    BY <1>0 DEF Locals
  <2> QED BY <1>0, <1>p, <2>1 DEF PutFiles, IndexTypeOK, Buffered
<1>m. ASSUME NEW t \in Tasks, NEW r \in SUBSET (Files \cup Gotchas), Commits(t, r)
      PROVE  stale' \in [Tasks -> SUBSET (Files \cup Gotchas)]
  BY <1>m DEF Commits, TypeOK
<1>7. ASSUME NEW t \in Tasks, Commit(t) PROVE TypeOK'
  <2>0. loc[t].key \in Gotchas /\ loc[t].rec \in GotchaRec /\ loc[t].puts \in SUBSET Files
    BY RecordTypes
  <2>1. gotcha' \in [Gotchas -> GotchaRec]
    BY <1>0, <1>7, <2>0 DEF Commit, IndexTypeOK
  <2>2. file' \in [Files -> FileRec] /\ \A f \in Files : file'[f].keys # {} => file'[f].exists
    BY <1>7, <1>p DEF Commit
  <2>3. stale' \in [Tasks -> SUBSET (Files \cup Gotchas)]
    BY <1>7, <1>m, <2>0 DEF Commit
  <2>4. contended' \subseteq Files
    <3>1. gotcha[loc[t].key].files \in SUBSET Files /\ loc[t].rec.files \in SUBSET Files
      BY <2>0, RecordTypes DEF GotchaRec
    <3> QED BY <1>7, <2>0, <3>1 DEF Commit, TypeOK
  <2>5. pc' \in [Tasks -> PCs]
    BY <1>7, <1>g DEF Commit, PCs
  <2> QED BY <1>0, <1>7, <2>1, <2>2, <2>3, <2>4, <2>5 DEF Commit, bounds, TypeOK, IndexTypeOK
<1>8. ASSUME NEW t \in Tasks, CommitEnrich(t) PROVE TypeOK'
  <2>0. loc[t].puts \in SUBSET Files
    BY RecordTypes
  <2>2. file' \in [Files -> FileRec] /\ \A f \in Files : file'[f].keys # {} => file'[f].exists
    BY <1>8, <1>p DEF CommitEnrich
  <2>3. stale' \in [Tasks -> SUBSET (Files \cup Gotchas)]
    BY <1>8, <1>m, <2>0 DEF CommitEnrich
  <2>4. contended' \subseteq Files
    BY <1>8, <2>0 DEF CommitEnrich, TypeOK
  <2>5. pc' \in [Tasks -> PCs] /\ loc' \in [Tasks -> Locals]
    BY <1>8, <1>r DEF CommitEnrich
  <2> QED BY <1>0, <1>8, <2>2, <2>3, <2>4, <2>5 DEF CommitEnrich, bounds, TypeOK, IndexTypeOK
<1>9. ASSUME NEW t \in Tasks, CommitConflict(t) \/ CommitFails(t) \/ Respond(t) PROVE TypeOK'
  <2>1. pc' \in [Tasks -> PCs] /\ loc' \in [Tasks -> Locals]
    <3>1. CASE Return(t)
      BY <1>r, <3>1
    <3>2. CASE Set(t, NextAttempt(t)) /\ Goto(t, "get") /\ loc[t].tries + 1 < Retries
      <4>1. NextAttempt(t) \in Locals
        <5>1. loc[t] \in Locals /\ loc[t].tries + 1 \in 0..Retries
          BY <1>0, <3>2, RetriesAssumption DEF Locals
        <5> QED BY <5>1 DEF NextAttempt, Locals
      <4> QED BY <1>g, <1>s, <3>2, <4>1 DEF PCs
    <3> QED BY <1>9, <3>1, <3>2 DEF CommitConflict, CommitFails, Respond
  <2> QED BY <1>9, <1>f, <1>i, <2>1 DEF CommitConflict, CommitFails, Respond, bounds, history, TypeOK
<1>10. ASSUME NEW t \in Tasks, NEW f \in Files, SyncEdge(t, f) PROVE TypeOK'
  <2>1. loc' \in [Tasks -> Locals]
    <3>1. [loc[t] EXCEPT !.eadd = @ \ {f}, !.erem = @ \ {f}] \in Locals
      BY <1>0 DEF Locals
    <3> QED BY <1>10, <1>s, <3>1 DEF SyncEdge
  <2>2. edges' \subseteq Files \X Gotchas /\ raced' \subseteq Gotchas
    BY <1>0, <1>10, RecordTypes DEF SyncEdge, TypeOK, IndexTypeOK
  <2>3. calls' \in 0..MaxCalls /\ fails' \in 0..MaxFails /\ crashes' \in 0..MaxCrashes
    BY <1>10, <1>f DEF SyncEdge
  <2> QED BY <1>0, <1>10, <2>1, <2>2, <2>3 DEF SyncEdge, TypeOK, IndexTypeOK
<1>11. CASE Crash
  <2>1. pc' \in [Tasks -> PCs] /\ loc' \in [Tasks -> Locals]
    BY <1>11, LocalTypes DEF Crash, PCs
  <2>2. raced' \subseteq Gotchas
    BY <1>11, RecordTypes DEF Crash, TypeOK
  <2>3. crashes' \in 0..MaxCrashes
    BY <1>11 DEF Crash, TypeOK
  <2> QED BY <1>11, <1>i, <2>1, <2>2, <2>3 DEF Crash, TypeOK
<1>12. CASE Done \/ UNCHANGED vars
  BY <1>12, <1>i DEF Done, vars, bounds, history, TypeOK
<1> QED BY <1>2, <1>3, <1>4, <1>5, <1>6, <1>7, <1>8, <1>9, <1>10, <1>11, <1>12 DEF Next, Step
-----------------------------------------------------------------------------
(* Steps of one task, seen by the others.                                  *)

\* A step of t that commits nothing but the records R, and that no other task's
\* request can tell from a step elsewhere unless it is about one of them.
Frame(t, R) ==
    /\ contended \subseteq contended' /\ raced \subseteq raced'
    /\ \A f \in Files : f \notin R => file'[f].keys = file[f].keys
    /\ \A f \in Files : f \in R \/ file[f].exists => file'[f].exists
    /\ \A g \in Gotchas : g \notin R => gotcha'[g] = gotcha[g]
    /\ \A u \in Tasks \ {t} : /\ pc'[u] = pc[u] /\ loc'[u] = loc[u]
                              /\ stale'[u] = stale[u] \cup R
                              /\ Mutates(u) /\ loc[u].key \in R => loc[u].key \in raced'
    /\ stale'[t] \subseteq stale[t]
    /\ Mutates(t)' /\ ~(Mutates(t) /\ loc'[t].key = loc[t].key) =>
          \A u \in Tasks \ {t} :
             Mutates(u) /\ loc[u].key = loc'[t].key => loc[u].key \in raced'

\* ... and that leaves the store and the edges to sync as they are.
Calm(t) ==
    /\ gotcha' = gotcha /\ file' = file /\ edges' = edges
    /\ pc[t] = "edges" => loc[t].eadd \cup loc[t].erem = {}

LEMMA OtherSound ==
  ASSUME IInv, NEW t \in Tasks, NEW R, Frame(t, R), NEW u \in Tasks, u # t
  PROVE  Sound(u)'
<1>1. /\ pc'[u] = pc[u] /\ loc'[u] = loc[u] /\ stale'[u] = stale[u] \cup R
      /\ Mutates(u) /\ loc[u].key \in R => loc[u].key \in raced'
      /\ contended \subseteq contended' /\ raced \subseteq raced'
      /\ loc[u].key \in Gotchas /\ loc[u].puts \subseteq Files
  BY RecordTypes DEF Frame, IInv
<1>2. /\ \A f \in Files : f \notin R => file'[f].keys = file[f].keys
      /\ \A g \in Gotchas : g \notin R => gotcha'[g] = gotcha[g]
  BY DEF Frame
<1>3. Sound(u)
  BY DEF IInv
<1>4. KindAt(u)'
  BY <1>1, <1>3 DEF Sound, KindAt
<1>5. PlanAt(u)'
  BY <1>1, <1>2, <1>3 DEF Sound, PlanAt, Reading
<1>6. BufAt(u)'
  BY <1>1, <1>2, <1>3 DEF Sound, BufAt, Reading
<1>7. SkipAt(u)'
  BY <1>1, <1>2, <1>3 DEF Sound, SkipAt, Reading, Claims
<1>8. EnrichAt(u)'
  BY <1>1, <1>2, <1>3 DEF Sound, EnrichAt
<1>9. EdgesAt(u)'
  <2> SUFFICES ASSUME loc[u].key \notin raced', Reading(u) \/ pc[u] = "edges"
               PROVE  EdgesAt(u)'
    BY <1>1 DEF EdgesAt, Reading
  <2>1. Mutates(u)
    BY <1>3 DEF Sound, KindAt, Reading, Mutates
  <2>2. gotcha'[loc[u].key] = gotcha[loc[u].key] /\ EdgesAt(u) /\ loc[u].key \notin raced
    BY <1>1, <1>2, <1>3, <2>1 DEF Sound
  <2> QED BY <1>1, <2>2 DEF EdgesAt, Reading, Claims
<1> QED BY <1>4, <1>5, <1>6, <1>7, <1>8, <1>9 DEF Sound

LEMMA AloneStep ==
  ASSUME IInv, NEW t \in Tasks, NEW R, Frame(t, R)
  PROVE  AloneInv' /\ StaleInv'
<1>1. AloneInv /\ StaleInv
  BY DEF IInv
<1>2. \A u \in Tasks \ {t} : /\ pc'[u] = pc[u] /\ loc'[u] = loc[u]
                             /\ stale'[u] = stale[u] \cup R
  BY DEF Frame
<1>3. \A u \in Tasks \ {t} : Mutates(u)' <=> Mutates(u)
  BY <1>2 DEF Mutates
<1>4. AloneInv'
  <2> SUFFICES ASSUME NEW u \in Tasks, NEW v \in Tasks, u # v, Mutates(u)', Mutates(v)',
                      loc'[u].key = loc'[v].key
               PROVE  loc'[u].key \in raced'
    BY DEF AloneInv
  <2>1. ASSUME NEW w \in Tasks \ {t}, Mutates(w), Mutates(t)', loc[w].key = loc'[t].key
        PROVE  loc'[t].key \in raced'
    BY <1>1, <2>1 DEF Frame, AloneInv
  <2>2. CASE u = t
    BY <1>2, <1>3, <2>1, <2>2
  <2>3. CASE v = t
    BY <1>2, <1>3, <2>1, <2>3
  <2>4. CASE u # t /\ v # t
    BY <1>1, <1>2, <1>3, <2>4 DEF Frame, AloneInv
  <2> QED BY <2>2, <2>3, <2>4
<1>5. StaleInv'
  <2> SUFFICES ASSUME NEW u \in Tasks, NEW f \in Files, f \in stale'[u]
               PROVE  file'[f].exists
    BY DEF StaleInv
  <2>1. f \in R \/ f \in stale[u]
    BY <1>2 DEF Frame
  <2>2. f \in R \/ file[f].exists
    BY <1>1, <2>1 DEF StaleInv
  <2> QED BY <2>2 DEF Frame
<1> QED BY <1>4, <1>5

LEMMA CalmStep ==
  ASSUME IInv, NEW t \in Tasks, NEW R, Frame(t, R), Calm(t)
  PROVE  EdgeInv' /\ ExactInv'
<1>1. EdgeInv /\ ExactInv /\ raced \subseteq raced' /\ contended \subseteq contended'
  BY DEF IInv, Frame
<1>2. ExactInv'
  BY <1>1 DEF Calm, ExactInv, Claims
<1>3. EdgeInv'
  <2> SUFFICES ASSUME NEW g \in Gotchas, g \notin raced', NEW f \in Files, EdgeOff(f, g)'
               PROVE  \E u \in Tasks : /\ pc'[u] = "edges" /\ loc'[u].key = g
                                       /\ f \in loc'[u].eadd \cup loc'[u].erem
    BY DEF EdgeInv
  <2>1. EdgeOff(f, g)
    BY DEF Calm, EdgeOff, Claims
  <2>2. PICK u \in Tasks : /\ pc[u] = "edges" /\ loc[u].key = g
                           /\ f \in loc[u].eadd \cup loc[u].erem
    BY <1>1, <2>1 DEF EdgeInv
  <2>3. u # t
    BY <2>2 DEF Calm
  <2> QED BY <2>2, <2>3 DEF Frame
<1> QED BY <1>2, <1>3

\* What is left of the step: the task that takes it.
LEMMA FrameStep ==
  ASSUME IInv, NEW t \in Tasks, NEW R, Frame(t, R), Sound(t)', EdgeInv', ExactInv',
         [Next]_vars
  PROVE  IInv'
<1>1. \A u \in Tasks : Sound(u)'
  BY OtherSound
<1>2. TypeOK' /\ (\A u \in Tasks : Buffered(loc[u]))'
  BY NextTypes, BufferStep DEF IInv
<1> QED BY <1>1, <1>2, AloneStep DEF IInv

LEMMA CalmKeeps ==
  ASSUME IInv, NEW t \in Tasks, NEW R, Frame(t, R), Calm(t), Sound(t)', [Next]_vars
  PROVE  IInv'
BY CalmStep, FrameStep

\* A task that serves nothing, or is about to make its first read, is sound.
LEMMA RestSound ==
  ASSUME NEW t \in Tasks,
         pc'[t] = "idle" \/ (pc'[t] = "get" /\ loc'[t].kind # "enrich")
  PROVE  Sound(t)'
BY DEF Sound, KindAt, PlanAt, BufAt, SkipAt, EnrichAt, EdgesAt, Reading
-----------------------------------------------------------------------------
(* The steps, one by one.                                                  *)

\* A step of t that neither commits nor syncs, and that touches only t.
Local(t) ==
    /\ contended \subseteq contended' /\ raced' = raced
    /\ gotcha' = gotcha /\ file' = file /\ edges' = edges
    /\ \A u \in Tasks \ {t} : pc'[u] = pc[u] /\ loc'[u] = loc[u] /\ stale'[u] = stale[u]
    /\ stale'[t] \subseteq stale[t]
    /\ Mutates(t)' => Mutates(t) /\ loc'[t].key = loc[t].key
    /\ pc[t] = "edges" => loc[t].eadd \cup loc[t].erem = {}

LEMMA LocalKeeps ==
  ASSUME IInv, NEW t \in Tasks, Local(t), Sound(t)', [Next]_vars
  PROVE  IInv'
<1>1. Frame(t, {}) /\ Calm(t)
  BY DEF Local, Frame, Calm
<1> QED BY <1>1, CalmKeeps

\* The end of a request, wherever it comes.
LEMMA ReturnKeeps ==
  ASSUME IInv, NEW t \in Tasks, Return(t), UNCHANGED <<index, history>>, [Next]_vars,
         pc[t] = "edges" => loc[t].eadd \cup loc[t].erem = {}
  PROVE  IInv'
<1>0. pc \in [Tasks -> PCs] /\ loc \in [Tasks -> Locals]
  BY DEF IInv, TypeOK
<1>1. pc' = [pc EXCEPT ![t] = "idle"] /\ loc' = [loc EXCEPT ![t] = NoRequest]
  BY DEF Return, Goto, Set
<1>2. pc'[t] = "idle" /\ \A u \in Tasks \ {t} : pc'[u] = pc[u] /\ loc'[u] = loc[u]
  BY <1>0, <1>1
<1>3. Local(t)
  BY <1>2 DEF Local, index, history, Mutates
<1> QED BY <1>2, <1>3, LocalKeeps, RestSound

LEMMA ArriveKeeps ==
  ASSUME IInv, NEW t \in Tasks, Arrive(t), [Next]_vars
  PROVE  IInv'
<1>0. /\ pc \in [Tasks -> PCs] /\ loc \in [Tasks -> Locals]
      /\ stale \in [Tasks -> SUBSET (Files \cup Gotchas)] /\ raced \subseteq Gotchas
  BY DEF IInv, TypeOK
<1>1. ASSUME NEW l, NEW c, Receive(t, l), Goto(t, c)
      PROVE  /\ pc[t] = "idle" /\ pc'[t] = c /\ loc'[t] = l /\ stale'[t] = {}
             /\ \A u \in Tasks \ {t} : /\ pc'[u] = pc[u] /\ loc'[u] = loc[u]
                                       /\ stale'[u] = stale[u]
  BY <1>0, <1>1 DEF Receive, Goto, Set
<1>2. ASSUME NEW f \in Files, HandleFileEnrich(t, f) PROVE IInv'
  <2>1. Receive(t, Enrich(f)) /\ Goto(t, "commit")
    BY <1>2 DEF HandleFileEnrich, Enrich
  <2>2. /\ pc[t] = "idle" /\ pc'[t] = "commit" /\ loc'[t] = Enrich(f) /\ stale'[t] = {}
        /\ \A u \in Tasks \ {t} : pc'[u] = pc[u] /\ loc'[u] = loc[u] /\ stale'[u] = stale[u]
    BY <1>1, <2>1
  <2>3. Enrich(f).kind = "enrich" /\ Enrich(f).puts = {f} /\ Enrich(f).buf[f] = file[f]
    BY DEF Enrich, Request
  <2>4. UNCHANGED <<index, contended, raced>>
    BY <1>2 DEF HandleFileEnrich
  <2>5. Local(t)
    BY <2>2, <2>3, <2>4 DEF Local, index, Mutates
  <2>6. Sound(t)'
    BY <2>2, <2>3, <2>4 DEF Sound, KindAt, PlanAt, BufAt, SkipAt, EnrichAt, EdgesAt, Reading,
                            index
  <2> QED BY <2>5, <2>6, LocalKeeps
<1>3. ASSUME NEW kind \in Kinds \ {"enrich"}, NEW g \in Gotchas, NEW new \in SUBSET Files,
             HandleGotcha(t, kind, g, new)
      PROVE  IInv'
  <2>1. Receive(t, Request(kind, g, new)) /\ Goto(t, "get")
    BY <1>3 DEF HandleGotcha
  <2>2. /\ pc[t] = "idle" /\ pc'[t] = "get" /\ loc'[t] = Request(kind, g, new)
        /\ stale'[t] = {}
        /\ \A u \in Tasks \ {t} : pc'[u] = pc[u] /\ loc'[u] = loc[u] /\ stale'[u] = stale[u]
    BY <1>1, <2>1
  <2>3. loc'[t].kind # "enrich" /\ loc'[t].key = g
    BY <2>2 DEF Request
  <2>4. UNCHANGED <<index, contended>> /\ raced \subseteq raced'
    BY <1>3 DEF HandleGotcha
  <2>5. \A u \in Tasks \ {t} : Mutates(u) /\ loc[u].key = g => g \in raced'
    BY <1>3 DEF HandleGotcha, Mutates
  <2>6. Frame(t, {}) /\ Calm(t)
    BY <2>2, <2>3, <2>4, <2>5 DEF Frame, Calm, index
  <2> QED BY <2>2, <2>3, <2>6, CalmKeeps, RestSound
<1> QED BY <1>2, <1>3 DEF Arrive, HandleGotchaUpsert, HandleGotchaConfirm,
                          HandleGotchaTombstone, Kinds

LEMMA GetKeeps ==
  ASSUME IInv, NEW t \in Tasks, GetGotcha(t), [Next]_vars
  PROVE  IInv'
<1> DEFINE l == loc[t]
           r == gotcha[l.key]
<1>0. /\ pc \in [Tasks -> PCs] /\ loc \in [Tasks -> Locals] /\ l \in Locals
      /\ stale \in [Tasks -> SUBSET (Files \cup Gotchas)]
      /\ r \in GotchaRec
  BY RecordTypes DEF IInv, TypeOK
<1>1. /\ stale'[t] = stale[t] \ {l.key} /\ \A u \in Tasks \ {t} : stale'[u] = stale[u]
      /\ pc[t] = "get" /\ UNCHANGED <<index, contended, raced>> /\ l.kind # "enrich"
  BY <1>0 DEF GetGotcha, Fresh, IInv, Sound, KindAt
<1>2. CASE Return(t)
  <2>1. /\ pc'[t] = "idle" /\ \A u \in Tasks \ {t} : pc'[u] = pc[u] /\ loc'[u] = loc[u]
    BY <1>0, <1>2 DEF Return, Goto, Set
  <2>2. Local(t)
    BY <1>1, <2>1 DEF Local, index, Mutates
  <2> QED BY <2>1, <2>2, LocalKeeps, RestSound
<1>3. ASSUME NEW rec \in GotchaRec, NEW old \in SUBSET Files, NEW new \in SUBSET Files,
             NEW prop \in SUBSET Files,
             Set(t, Plan(l, rec, old, new, prop)), Goto(t, "links"),
             new \subseteq AffectedFiles(rec),
             \A f \in old \ new : f \notin AffectedFiles(rec),
             prop \subseteq AffectedFiles(rec), prop # {} => rec = r,
             \A f \in Files : f \notin new \ old /\ f \notin old \ new =>
                (f \in AffectedFiles(rec) <=> f \in AffectedFiles(r))
      PROVE  IInv'
  <2> DEFINE m == Plan(l, rec, old, new, prop)
  <2>1. /\ pc'[t] = "links" /\ loc'[t] = m
        /\ \A u \in Tasks \ {t} : pc'[u] = pc[u] /\ loc'[u] = loc[u]
    BY <1>0, <1>3 DEF Goto, Set
  <2>2. /\ m.kind = l.kind /\ m.key = l.key /\ m.rec = rec /\ m.add = new \ old
        /\ m.rem = old \ new /\ m.prop = prop /\ m.eadd = new \ old /\ m.erem = old \ new
        /\ m.puts = {}
    BY <1>0 DEF Plan, Locals
  <2> HIDE DEF m
  <2>3. Local(t)
    BY <1>1, <2>1, <2>2 DEF Local, index, Mutates
  <2>4. gotcha' = gotcha /\ gotcha'[m.key] = r /\ pc'[t] = "links" /\ m.kind # "enrich"
    BY <1>1, <2>1, <2>2 DEF index
  <2>5. KindAt(t)' /\ PlanAt(t)' /\ BufAt(t)' /\ EnrichAt(t)'
    BY <1>3, <2>1, <2>2, <2>4 DEF KindAt, PlanAt, BufAt, EnrichAt
  <2>6. SkipAt(t)' /\ EdgesAt(t)'
    BY <1>3, <2>1, <2>2, <2>4 DEF SkipAt, EdgesAt, Claims
  <2> QED BY <2>3, <2>5, <2>6, LocalKeeps DEF Sound
<1>4. r.files \in SUBSET Files /\ l.new \in SUBSET Files /\ {} \in SUBSET Files
  BY <1>0 DEF GotchaRec, Locals
<1>5. CASE Set(t, PlanUpsert(l, r)) /\ Goto(t, "links")
  <2>1. /\ [life |-> "active", files |-> l.new] \in GotchaRec
        /\ AffectedFiles([life |-> "active", files |-> l.new]) = l.new
        /\ AffectedFiles(r) \in SUBSET Files
    BY <1>4 DEF GotchaRec, Lives, AffectedFiles
  <2> QED BY <1>3, <1>4, <1>5, <2>1 DEF PlanUpsert
<1>6. CASE Set(t, PlanConfirm(l, r)) /\ Goto(t, "links") /\ r.life = "active"
  <2>1. AffectedFiles(r) = r.files
    BY <1>6 DEF AffectedFiles
  <2> QED BY <1>0, <1>3, <1>4, <1>6, <2>1 DEF PlanConfirm
<1>7. CASE Set(t, PlanTombstone(l, r)) /\ Goto(t, "links")
  <2> DEFINE d == [r EXCEPT !.life = "tombstoned"]
  <2>1. d \in GotchaRec /\ AffectedFiles(d) = {} /\ AffectedFiles(r) \subseteq r.files
    BY <1>0 DEF GotchaRec, Lives, AffectedFiles
  <2>2. Set(t, Plan(l, d, r.files, {}, {}))
    BY <1>7 DEF PlanTombstone
  <2> HIDE DEF d
  <2> QED BY <1>3, <1>4, <1>7, <2>1, <2>2
<1> QED BY <1>2, <1>5, <1>6, <1>7 DEF GetGotcha

LEMMA LinkKeeps ==
  ASSUME IInv, NEW t \in Tasks, NEW f \in Files, ReadForLink(t, f), [Next]_vars
  PROVE  IInv'
<1> DEFINE l   == loc[t]
           l1  == [l EXCEPT !.add = @ \ {f}, !.rem = @ \ {f}]
           new == IF f \in l.add THEN Link(file[f], l.key) ELSE Unlink(file[f], l.key)
<1>0. /\ pc \in [Tasks -> PCs] /\ loc \in [Tasks -> Locals] /\ l \in Locals
      /\ stale \in [Tasks -> SUBSET (Files \cup Gotchas)] /\ l.key \in Gotchas
      /\ file[f] \in FileRec /\ new \in FileRec /\ l.puts \subseteq Files
  BY RecordTypes DEF IInv, TypeOK
<1>1. /\ pc[t] = "links" /\ pc' = pc /\ UNCHANGED <<index, raced>>
      /\ stale'[t] = stale[t] \ {f} /\ \A u \in Tasks \ {t} : stale'[u] = stale[u]
      /\ f \in l.add \cup l.rem
  BY <1>0 DEF ReadForLink, Fresh
<1>2. f \notin l.puts /\ l.kind # "enrich"
  BY <1>1 DEF IInv, Sound, KindAt
<1>3. l.key # f
  BY <1>0, NamespaceAssumption
\* The locals afterwards, in each case.
<1>4. PICK m \in Locals :
        /\ loc' = [loc EXCEPT ![t] = m]
        /\ m.kind = l.kind /\ m.key = l.key /\ m.rec = l.rec /\ m.prop = l.prop
        /\ m.add = l.add \ {f} /\ m.rem = l.rem \ {f}
        /\ m.eadd = l.eadd /\ m.erem = l.erem
        /\ \/ m.puts = l.puts /\ m.buf = l.buf /\ new = file[f] /\ contended' = contended
           \/ /\ m.puts = l.puts \cup {f} /\ m.buf = [l.buf EXCEPT ![f] = new]
              /\ contended' = contended
           \/ m.puts = l.puts /\ m.buf = l.buf /\ contended' = contended \cup {f}
  <2>1. /\ l1 \in Locals
        /\ l1.kind = l.kind /\ l1.key = l.key /\ l1.rec = l.rec /\ l1.prop = l.prop
        /\ l1.add = l.add \ {f} /\ l1.rem = l.rem \ {f}
        /\ l1.eadd = l.eadd /\ l1.erem = l.erem /\ l1.puts = l.puts /\ l1.buf = l.buf
    BY <1>0 DEF Locals
  <2>2. CASE loc' = [loc EXCEPT ![t] = l1] /\ contended' = contended \cup {f}
    BY <2>1, <2>2
  <2>3. CASE Set(t, LinkUpdate(l, f)) /\ contended' = contended
    <3>1. LinkUpdate(l, f) = IF new = file[f] THEN l1 ELSE Buffer(l1, f, new)
      BY DEF LinkUpdate, Buffer
    <3> HIDE DEF l1, new
    <3>2. /\ Buffer(l1, f, new) \in Locals
          /\ Buffer(l1, f, new).puts = l1.puts \cup {f}
          /\ Buffer(l1, f, new).buf = [l1.buf EXCEPT ![f] = new]
          /\ Buffer(l1, f, new).kind = l1.kind /\ Buffer(l1, f, new).key = l1.key
          /\ Buffer(l1, f, new).rec = l1.rec /\ Buffer(l1, f, new).prop = l1.prop
          /\ Buffer(l1, f, new).add = l1.add /\ Buffer(l1, f, new).rem = l1.rem
          /\ Buffer(l1, f, new).eadd = l1.eadd /\ Buffer(l1, f, new).erem = l1.erem
      BY <1>0, <2>1, BufferFacts
    <3>3. CASE new = file[f]
      BY <2>1, <2>3, <3>1, <3>3 DEF Set
    <3>4. CASE new # file[f]
      BY <2>1, <2>3, <3>1, <3>2, <3>4 DEF Set
    <3> QED BY <3>3, <3>4
  <2> QED BY <2>2, <2>3 DEF ReadForLink, Set, history
<1>5. loc'[t] = m /\ \A u \in Tasks \ {t} : loc'[u] = loc[u]
  BY <1>0, <1>4
<1>6. Local(t)
  BY <1>1, <1>2, <1>4, <1>5 DEF Local, index, Mutates
<1>7. /\ Reading(t) /\ KindAt(t) /\ PlanAt(t) /\ BufAt(t) /\ SkipAt(t) /\ EdgesAt(t)
      /\ ExactInv
  BY <1>1, <1>2 DEF IInv, Sound, Reading
<1>8. /\ new.keys \ {l.key} = file[f].keys \ {l.key}
      /\ l.key \in new.keys <=> f \in l.add
      /\ new = file[f] => (l.key \in file[f].keys <=> f \in l.add)
  <2>1. CASE f \in l.add
    <3>1. new.keys = file[f].keys \cup {l.key}
      BY <1>0, <2>1, RecordTypes DEF IInv
    <3> QED BY <2>1, <3>1
  <2>2. CASE f \notin l.add
    <3>1. new.keys = file[f].keys \ {l.key}
      BY <1>0, <2>2, RecordTypes DEF IInv
    <3> QED BY <2>2, <3>1
  <2> QED BY <2>1, <2>2
<1> HIDE DEF l1, new
<1>9. gotcha' = gotcha /\ file' = file
  BY <1>1 DEF index
<1>10. (f \in l.add <=> f \in AffectedFiles(l.rec)) /\ AffectedFiles(l.rec) \subseteq l.rec.files
  BY <1>1, <1>7 DEF PlanAt, AffectedFiles
<1>11. KindAt(t)'
  BY <1>1, <1>2, <1>4, <1>5, <1>7 DEF KindAt
<1>12. PlanAt(t)'
  BY <1>1, <1>3, <1>4, <1>5, <1>7, <1>9 DEF PlanAt
<1>13. BufAt(t)'
  <2> SUFFICES ASSUME NEW h \in m.puts \ contended'
               PROVE  /\ h \notin stale'[t] =>
                            \A g \in Gotchas \ {m.key} : g \in m.buf[h].keys <=> g \in file[h].keys
                      /\ m.key \in m.buf[h].keys => h \in m.rec.files
                      /\ m.key \notin stale'[t] =>
                            (m.key \in m.buf[h].keys <=> h \in AffectedFiles(m.rec))
    BY <1>5, <1>9 DEF BufAt
  <2>1. CASE h = f
    <3>1. m.buf[f] = new
      BY <1>0, <1>2, <1>4, <2>1 DEF Locals
    <3> QED BY <1>4, <1>8, <1>10, <2>1, <3>1
  <2>2. CASE h # f
    <3>1. h \in l.puts \ contended /\ m.buf[h] = l.buf[h]
      BY <1>0, <1>4, <2>2 DEF Locals
    <3> QED BY <1>1, <1>3, <1>4, <1>7, <2>2, <3>1 DEF BufAt
  <2> QED BY <2>1, <2>2
<1>14. SkipAt(t)'
  <2> SUFFICES ASSUME m.key \notin stale'[t],
                      NEW h \in Files \ (contended' \cup m.puts \cup m.add \cup m.rem)
               PROVE  h \in AffectedFiles(m.rec) <=> h \in AffectedFiles(gotcha[m.key])
    BY <1>5, <1>9 DEF SkipAt, Claims
  <2>1. CASE h = f
    <3>1. new = file[f] /\ f \notin contended
      BY <1>4, <2>1
    <3>2. l.key \in file[f].keys <=> f \in AffectedFiles(gotcha[l.key])
      BY <1>0, <1>7, <3>1 DEF ExactInv, Claims
    <3> QED BY <1>4, <1>8, <1>10, <2>1, <3>1, <3>2
  <2>2. CASE h # f
    BY <1>1, <1>3, <1>4, <1>7, <2>2 DEF SkipAt, Claims
  <2> QED BY <2>1, <2>2
<1>15. EnrichAt(t)'
  BY <1>1 DEF EnrichAt
<1>16. EdgesAt(t)'
  BY <1>1, <1>4, <1>5, <1>7, <1>9 DEF EdgesAt, Claims, Reading
<1> QED BY <1>6, <1>11, <1>12, <1>13, <1>14, <1>15, <1>16, LocalKeeps DEF Sound

LEMMA CountKeeps ==
  ASSUME IInv, NEW t \in Tasks, NEW f \in Files, ReadForCount(t, f), [Next]_vars
  PROVE  IInv'
<1> DEFINE l  == loc[t]
           l1 == [l EXCEPT !.prop = @ \ {f}]
<1>0. /\ pc \in [Tasks -> PCs] /\ loc \in [Tasks -> Locals] /\ l \in Locals
      /\ stale \in [Tasks -> SUBSET (Files \cup Gotchas)] /\ l.key \in Gotchas
      /\ file[f] \in FileRec /\ l.puts \subseteq Files
  BY RecordTypes DEF IInv, TypeOK
<1>1. /\ pc[t] = "propagate" /\ pc' = pc /\ UNCHANGED <<index, contended, raced>>
      /\ stale'[t] = stale[t] \ {f} /\ \A u \in Tasks \ {t} : stale'[u] = stale[u]
      /\ f \in l.prop
  BY <1>0 DEF ReadForCount, Fresh
<1>2. l.kind # "enrich" /\ l.add = {} /\ l.rem = {}
  BY <1>1 DEF IInv, Sound, KindAt
<1>3. l.key # f
  BY <1>0, NamespaceAssumption
<1>4. PICK m \in Locals :
        /\ loc' = [loc EXCEPT ![t] = m]
        /\ m.kind = l.kind /\ m.key = l.key /\ m.rec = l.rec /\ m.prop = l.prop \ {f}
        /\ m.add = l.add /\ m.rem = l.rem /\ m.eadd = l.eadd /\ m.erem = l.erem
        /\ \/ m.puts = l.puts /\ m.buf = l.buf /\ ~file[f].exists
           \/ m.puts = l.puts \cup {f} /\ m.buf = [l.buf EXCEPT ![f] = file[f]]
  <2>1. /\ l1 \in Locals
        /\ l1.kind = l.kind /\ l1.key = l.key /\ l1.rec = l.rec /\ l1.prop = l.prop \ {f}
        /\ l1.add = l.add /\ l1.rem = l.rem
        /\ l1.eadd = l.eadd /\ l1.erem = l.erem /\ l1.puts = l.puts /\ l1.buf = l.buf
    BY <1>0 DEF Locals
  <2>2. loc' = [loc EXCEPT ![t] = IF file[f].exists THEN Buffer(l1, f, file[f]) ELSE l1]
    BY DEF ReadForCount, Set, Buffer
  <2> HIDE DEF l1
  <2>3. /\ Buffer(l1, f, file[f]) \in Locals
        /\ Buffer(l1, f, file[f]).puts = l1.puts \cup {f}
        /\ Buffer(l1, f, file[f]).buf = [l1.buf EXCEPT ![f] = file[f]]
        /\ Buffer(l1, f, file[f]).kind = l1.kind /\ Buffer(l1, f, file[f]).key = l1.key
        /\ Buffer(l1, f, file[f]).rec = l1.rec /\ Buffer(l1, f, file[f]).prop = l1.prop
        /\ Buffer(l1, f, file[f]).add = l1.add /\ Buffer(l1, f, file[f]).rem = l1.rem
        /\ Buffer(l1, f, file[f]).eadd = l1.eadd /\ Buffer(l1, f, file[f]).erem = l1.erem
    BY <1>0, <2>1, BufferFacts
  <2>4. CASE file[f].exists
    BY <2>1, <2>2, <2>3, <2>4
  <2>5. CASE ~file[f].exists
    BY <2>1, <2>2, <2>5
  <2> QED BY <2>4, <2>5
<1> HIDE DEF l1
<1>5. loc'[t] = m /\ \A u \in Tasks \ {t} : loc'[u] = loc[u]
  BY <1>0, <1>4
<1>6. Local(t)
  BY <1>1, <1>2, <1>4, <1>5 DEF Local, index, Mutates
<1>7. /\ Reading(t) /\ KindAt(t) /\ PlanAt(t) /\ BufAt(t) /\ SkipAt(t) /\ EdgesAt(t)
      /\ ExactInv /\ StaleInv
  BY <1>1, <1>2 DEF IInv, Sound, Reading
<1>8. gotcha' = gotcha /\ file' = file /\ contended' = contended
  BY <1>1 DEF index
<1>9. f \in AffectedFiles(l.rec) /\ AffectedFiles(l.rec) \subseteq l.rec.files
  BY <1>1, <1>7 DEF PlanAt, AffectedFiles
<1>10. l.key \notin stale[t] => l.rec = gotcha[l.key]
  BY <1>1, <1>7 DEF PlanAt
<1>11. KindAt(t)'
  BY <1>1, <1>2, <1>4, <1>5 DEF KindAt
<1>12. PlanAt(t)'
  BY <1>1, <1>3, <1>4, <1>5, <1>7, <1>8 DEF PlanAt
<1>13. BufAt(t)'
  <2> SUFFICES ASSUME NEW h \in m.puts \ contended
               PROVE  /\ h \notin stale'[t] =>
                            \A g \in Gotchas \ {m.key} : g \in m.buf[h].keys <=> g \in file[h].keys
                      /\ m.key \in m.buf[h].keys => h \in m.rec.files
                      /\ m.key \notin stale'[t] =>
                            (m.key \in m.buf[h].keys <=> h \in AffectedFiles(m.rec))
    BY <1>5, <1>8 DEF BufAt
  <2>2. CASE h = f /\ m.buf = [l.buf EXCEPT ![f] = file[f]]
    <3>1. m.buf[h] = file[h]
      BY <1>0, <2>2 DEF Locals
    <3>2. l.key \notin stale[t] => l.key \in file[f].keys
      BY <1>0, <1>7, <1>9, <1>10, <2>2 DEF ExactInv, Claims
    <3> QED BY <1>1, <1>3, <1>4, <1>9, <2>2, <3>1, <3>2
  <2>3. CASE h # f \/ (m.buf = l.buf /\ m.puts = l.puts /\ ~file[f].exists)
    <3>1. h \in l.puts \ contended /\ m.buf[h] = l.buf[h]
      BY <1>0, <1>4, <2>3 DEF Locals
    <3>2. h \notin stale'[t] => h \notin stale[t]
      BY <1>1, <1>7, <2>3 DEF StaleInv
    <3> QED BY <1>1, <1>3, <1>4, <1>7, <3>1, <3>2 DEF BufAt
  <2> QED BY <1>4, <2>2, <2>3
<1>14. SkipAt(t)'
  BY <1>1, <1>3, <1>4, <1>5, <1>7, <1>8 DEF SkipAt, Claims
<1>15. EnrichAt(t)'
  BY <1>1 DEF EnrichAt
<1>16. EdgesAt(t)'
  BY <1>1, <1>4, <1>5, <1>7, <1>8 DEF EdgesAt, Claims, Reading
<1> QED BY <1>6, <1>11, <1>12, <1>13, <1>14, <1>15, <1>16, LocalKeeps DEF Sound

LEMMA WaitKeeps ==
  ASSUME IInv, NEW t \in Tasks,
         LinksRead(t) \/ CountsRead(t) \/ CommitConflict(t) \/ CommitFails(t) \/ Respond(t),
         [Next]_vars
  PROVE  IInv'
<1>0. pc \in [Tasks -> PCs] /\ loc \in [Tasks -> Locals] /\ loc[t] \in Locals
  BY DEF IInv, TypeOK
<1>1. CASE LinksRead(t) \/ CountsRead(t)
  <2>1. /\ UNCHANGED <<index, loc, history>> /\ pc[t] \in {"links", "propagate"}
        /\ \A u \in Tasks \ {t} : pc'[u] = pc[u]
    BY <1>0, <1>1 DEF LinksRead, CountsRead, Goto
  <2>2. \/ pc'[t] = "propagate" /\ loc[t].add = {} /\ loc[t].rem = {}
        \/ pc'[t] = "commit" /\ loc[t].prop = {} /\ pc[t] = "propagate"
    BY <1>0, <1>1 DEF LinksRead, CountsRead, Goto
  <2>3. Sound(t) /\ loc[t].kind # "enrich" /\ Reading(t)
    BY <2>1 DEF IInv, Sound, KindAt, Reading
  <2>4. /\ gotcha' = gotcha /\ file' = file /\ loc' = loc /\ stale' = stale
        /\ contended' = contended /\ raced' = raced
    BY <2>1 DEF index, history
  <2>5. Local(t)
    BY <2>1, <2>2, <2>3 DEF Local, index, history, Mutates
  <2>6. KindAt(t)'
    BY <2>2, <2>3, <2>4 DEF Sound, KindAt
  <2>7. PlanAt(t)' /\ BufAt(t)' /\ SkipAt(t)'
    BY <2>3, <2>4 DEF Sound, PlanAt, BufAt, SkipAt, Claims
  <2>8. EnrichAt(t)' /\ EdgesAt(t)'
    BY <2>2, <2>3, <2>4 DEF Sound, EnrichAt, EdgesAt, Claims
  <2> QED BY <2>5, <2>6, <2>7, <2>8, LocalKeeps DEF Sound
<1>2. CASE CommitConflict(t) /\ ~Return(t)
  <2>1. /\ pc' = [pc EXCEPT ![t] = "get"] /\ loc' = [loc EXCEPT ![t] = NextAttempt(t)]
        /\ UNCHANGED <<index, history>> /\ pc[t] = "commit" /\ loc[t].kind # "enrich"
    BY <1>2 DEF CommitConflict, Set, Goto
  <2>2. NextAttempt(t).kind = loc[t].kind /\ NextAttempt(t).key = loc[t].key
    BY <1>0 DEF NextAttempt, Locals
  <2>3. /\ pc'[t] = "get" /\ loc'[t] = NextAttempt(t)
        /\ \A u \in Tasks \ {t} : pc'[u] = pc[u] /\ loc'[u] = loc[u]
    BY <1>0, <2>1
  <2>4. Local(t)
    BY <2>1, <2>2, <2>3 DEF Local, index, history, Mutates
  <2> QED BY <2>1, <2>2, <2>3, <2>4, LocalKeeps, RestSound
<1>3. CASE Return(t) /\ (CommitConflict(t) \/ CommitFails(t) \/ Respond(t))
  BY <1>3, ReturnKeeps DEF CommitConflict, CommitFails, Respond
<1> QED BY <1>1, <1>2, <1>3 DEF CommitFails, Respond

\* The transaction of t, for the other tasks.
LEMMA CommitFrame ==
  ASSUME IInv, NEW t \in Tasks, Commit(t) \/ CommitEnrich(t)
  PROVE  LET R == loc[t].puts \cup (IF loc[t].kind = "enrich" THEN {} ELSE {loc[t].key})
         IN  /\ Frame(t, R)
             /\ stale'[t] = {}
             /\ \A f \in Files : f \in loc[t].puts => file'[f] = loc[t].buf[f]
             /\ \A f \in Files : f \notin loc[t].puts => file'[f] = file[f]
<1> DEFINE l == loc[t]
           R == l.puts \cup (IF l.kind = "enrich" THEN {} ELSE {l.key})
<1>0. /\ pc \in [Tasks -> PCs] /\ loc \in [Tasks -> Locals] /\ l \in Locals
      /\ l.key \in Gotchas /\ gotcha \in [Gotchas -> GotchaRec] /\ l.puts \subseteq Files
  BY RecordTypes DEF IInv, TypeOK, IndexTypeOK
<1>1. /\ stale'[t] = {} /\ \A u \in Tasks \ {t} : stale'[u] = stale[u] \cup R
  BY DEF Commit, CommitEnrich, Commits
<1>2. \A f \in Files : file'[f] = IF f \in l.puts THEN l.buf[f] ELSE file[f]
  BY DEF Commit, CommitEnrich, PutFiles
<1>3. /\ contended \subseteq contended' /\ raced' = raced /\ pc[t] = "commit"
      /\ \A u \in Tasks \ {t} : pc'[u] = pc[u] /\ loc'[u] = loc[u]
  BY <1>0 DEF Commit, CommitEnrich, Goto, Return, Set, bounds
<1>4. \A f \in Files : f \notin R => file'[f].keys = file[f].keys
  BY <1>2
<1>5. \A f \in Files : f \in R \/ file[f].exists => file'[f].exists
  <2>1. \A f \in l.puts : l.buf[f].exists
    BY DEF IInv, Buffered
  <2>2. \A f \in Files : f \in R => f \in l.puts
    BY <1>0, NamespaceAssumption
  <2> QED BY <1>2, <2>1, <2>2
<1>6. \A g \in Gotchas : g \notin R => gotcha'[g] = gotcha[g]
  BY <1>0 DEF Commit, CommitEnrich
<1>7. \A u \in Tasks \ {t} : Mutates(u) /\ loc[u].key \in R => loc[u].key \in raced'
  <2> SUFFICES ASSUME NEW u \in Tasks \ {t}, Mutates(u), loc[u].key \in R
               PROVE  loc[u].key \in raced
    BY <1>3
  <2>1. l.kind # "enrich" /\ loc[u].key = l.key
    BY <1>0, NamespaceAssumption, RecordTypes DEF IInv
  <2>2. Mutates(t)
    BY <1>3, <2>1 DEF Mutates
  <2> QED BY <2>1, <2>2 DEF IInv, AloneInv
<1>8. Mutates(t)' => Mutates(t) /\ loc'[t].key = loc[t].key
  <2>1. CASE Commit(t)
    BY <1>0, <1>3, <2>1 DEF Commit, Mutates
  <2>2. CASE CommitEnrich(t)
    <3>1. pc'[t] = "idle"
      BY <1>0, <2>2 DEF CommitEnrich, Return, Goto
    <3> QED BY <3>1 DEF Mutates
  <2> QED BY <2>1, <2>2
<1>9. Frame(t, R)
  <2> HIDE DEF R
  <2> QED BY <1>1, <1>3, <1>4, <1>5, <1>6, <1>7, <1>8 DEF Frame
<1> QED BY <1>1, <1>2, <1>9

LEMMA EnrichKeeps ==
  ASSUME IInv, NEW t \in Tasks, CommitEnrich(t), [Next]_vars
  PROVE  IInv'
<1> DEFINE l == loc[t]
<1>0. pc[t] = "commit" /\ l.kind = "enrich" /\ l.puts \subseteq Files
  BY RecordTypes DEF CommitEnrich, IInv
<1>1. PICK R : Frame(t, R)
  BY CommitFrame
<1>2. /\ \A f \in Files : f \in l.puts => file'[f] = l.buf[f]
      /\ \A f \in Files : f \notin l.puts => file'[f] = file[f]
  BY CommitFrame
<1>3. pc'[t] = "idle" /\ gotcha' = gotcha /\ edges' = edges /\ raced' = raced
  BY DEF CommitEnrich, Return, Goto, IInv, TypeOK, bounds
<1>4. contended' = contended \cup (l.puts \cap stale[t])
  BY DEF CommitEnrich
<1>5. ExactInv'
  <2> SUFFICES ASSUME NEW f \in Files, f \notin contended', NEW g \in Gotchas
               PROVE  g \in file'[f].keys <=> Claims(g, f)
    BY <1>3 DEF ExactInv, Claims
  <2>1. file'[f].keys = file[f].keys
    BY <1>0, <1>2, <1>4 DEF IInv, Sound, EnrichAt
  <2> QED BY <1>4, <2>1 DEF IInv, ExactInv
<1>6. EdgeInv'
  <2> SUFFICES ASSUME NEW g \in Gotchas, g \notin raced', NEW f \in Files, EdgeOff(f, g)'
               PROVE  \E u \in Tasks : /\ pc'[u] = "edges" /\ loc'[u].key = g
                                       /\ f \in loc'[u].eadd \cup loc'[u].erem
    BY DEF EdgeInv
  <2>1. EdgeOff(f, g) /\ g \notin raced
    BY <1>3 DEF EdgeOff, Claims
  <2>2. PICK u \in Tasks : /\ pc[u] = "edges" /\ loc[u].key = g
                           /\ f \in loc[u].eadd \cup loc[u].erem
    BY <2>1 DEF IInv, EdgeInv
  <2>3. pc'[u] = pc[u] /\ loc'[u] = loc[u]
    BY <1>0, <1>1, <2>2 DEF Frame
  <2> QED BY <2>2, <2>3
<1> QED BY <1>1, <1>3, <1>5, <1>6, FrameStep, RestSound

LEMMA CommitKeeps ==
  ASSUME IInv, NEW t \in Tasks, Commit(t), [Next]_vars
  PROVE  IInv'
<1> DEFINE l == loc[t]
           k == l.key
<1>0. /\ pc[t] = "commit" /\ l.kind # "enrich" /\ l.puts \subseteq Files /\ k \in Gotchas
      /\ gotcha \in [Gotchas -> GotchaRec]
      /\ gotcha' = [gotcha EXCEPT ![k] = l.rec]
  BY RecordTypes DEF Commit, IInv, TypeOK, IndexTypeOK
<1>1. PICK R : Frame(t, R)
  BY CommitFrame
<1>2. /\ \A f \in Files : f \in l.puts => file'[f] = l.buf[f]
      /\ \A f \in Files : f \notin l.puts => file'[f] = file[f]
  BY CommitFrame
<1>3. pc'[t] = "edges" /\ loc' = loc /\ edges' = edges /\ raced' = raced
  BY DEF Commit, Goto, IInv, TypeOK, bounds
<1>4. contended' = contended \cup (l.puts \cap stale[t])
                     \cup (IF k \in stale[t] THEN gotcha[k].files \cup l.rec.files ELSE {})
  BY DEF Commit
<1>5. Reading(t) /\ Mutates(t) /\ Sound(t) /\ l.add = {} /\ l.rem = {}
  BY <1>0 DEF IInv, Sound, KindAt, Reading, Mutates
<1>6. gotcha'[k] = l.rec /\ \A g \in Gotchas : g # k => gotcha'[g] = gotcha[g]
  BY <1>0
<1>7. \A r \in GotchaRec : AffectedFiles(r) \subseteq r.files
  BY DEF AffectedFiles
<1>8. gotcha[k] \in GotchaRec /\ l.rec \in GotchaRec
  BY <1>0, RecordTypes DEF IInv
<1>9. ExactInv'
  <2> SUFFICES ASSUME NEW f \in Files, f \notin contended', NEW g \in Gotchas
               PROVE  g \in file'[f].keys <=> f \in AffectedFiles(gotcha'[g])
    BY DEF ExactInv, Claims
  <2>1. g \in file[f].keys <=> f \in AffectedFiles(gotcha[g])
    BY <1>4 DEF IInv, ExactInv, Claims
  <2>2. k \in stale[t] => f \notin gotcha[k].files /\ f \notin l.rec.files
    BY <1>4
  <2>3. k \in stale[t] => f \notin AffectedFiles(gotcha[k]) /\ f \notin AffectedFiles(l.rec)
    BY <1>7, <1>8, <2>2
  <2>4. CASE f \in l.puts
    <3>1. f \in l.puts \ contended /\ f \notin stale[t]
      BY <1>4, <2>4
    <3>2. /\ \A h \in Gotchas \ {k} : h \in l.buf[f].keys <=> h \in file[f].keys
          /\ k \in l.buf[f].keys => f \in l.rec.files
          /\ k \notin stale[t] => (k \in l.buf[f].keys <=> f \in AffectedFiles(l.rec))
      BY <1>5, <3>1 DEF Sound, BufAt
    <3>3. file'[f] = l.buf[f]
      BY <1>2, <2>4
    <3> HIDE DEF l
    <3>4. CASE g = k
      BY <1>6, <2>2, <2>3, <3>2, <3>3, <3>4
    <3>5. CASE g # k
      BY <1>6, <2>1, <3>2, <3>3, <3>5
    <3> QED BY <3>4, <3>5
  <2>5. CASE f \notin l.puts
    <3>1. file'[f] = file[f]
      BY <1>2, <2>5
    <3>2. CASE g = k
      <4>1. k \notin stale[t] => (f \in AffectedFiles(l.rec) <=> f \in AffectedFiles(gotcha[k]))
        BY <1>4, <1>5, <2>5 DEF Sound, SkipAt, Claims
      <4> QED BY <1>6, <2>1, <2>3, <3>1, <3>2, <4>1
    <3>3. CASE g # k
      BY <1>6, <2>1, <3>1, <3>3
    <3> QED BY <3>2, <3>3
  <2> QED BY <2>4, <2>5
<1>10. EdgeInv'
  <2> SUFFICES ASSUME NEW g \in Gotchas, g \notin raced, NEW f \in Files, EdgeOff(f, g)'
               PROVE  \E u \in Tasks : /\ pc'[u] = "edges" /\ loc'[u].key = g
                                       /\ f \in loc'[u].eadd \cup loc'[u].erem
    BY <1>3 DEF EdgeInv
  <2>1. CASE g = k /\ f \in l.eadd \cup l.erem
    BY <1>3, <2>1
  <2>2. CASE ~(g = k /\ f \in l.eadd \cup l.erem)
    <3>1. Claims(g, f)' <=> Claims(g, f)
      BY <1>5, <1>6, <2>2 DEF Sound, EdgesAt, Claims
    <3>2. EdgeOff(f, g)
      BY <1>3, <3>1 DEF EdgeOff
    <3>3. PICK u \in Tasks : /\ pc[u] = "edges" /\ loc[u].key = g
                             /\ f \in loc[u].eadd \cup loc[u].erem
      BY <3>2 DEF IInv, EdgeInv
    <3>4. u # t
      BY <1>0, <3>3
    <3> QED BY <1>1, <3>3, <3>4 DEF Frame
  <2> QED BY <2>1, <2>2
<1>11. Sound(t)'
  <2>1. KindAt(t)' /\ ~Reading(t)' /\ loc'[t] = l
    BY <1>0, <1>3 DEF KindAt, Reading
  <2>2. PlanAt(t)' /\ BufAt(t)' /\ SkipAt(t)' /\ EnrichAt(t)'
    BY <1>3, <2>1 DEF PlanAt, BufAt, SkipAt, EnrichAt
  <2>3. EdgesAt(t)'
    BY <1>5, <1>6, <2>1 DEF Sound, PlanAt, EdgesAt, Claims
  <2> QED BY <2>1, <2>2, <2>3 DEF Sound
<1> QED BY <1>1, <1>9, <1>10, <1>11, FrameStep

LEMMA SyncKeeps ==
  ASSUME IInv, NEW t \in Tasks, NEW f \in Files, SyncEdge(t, f), [Next]_vars
  PROVE  IInv'
<1> DEFINE l == loc[t]
           m == [l EXCEPT !.eadd = @ \ {f}, !.erem = @ \ {f}]
<1>0. /\ loc \in [Tasks -> Locals] /\ l \in Locals /\ l.key \in Gotchas
      /\ stale \in [Tasks -> SUBSET (Files \cup Gotchas)] /\ edges \subseteq Files \X Gotchas
  BY RecordTypes DEF IInv, TypeOK, IndexTypeOK
<1>1. /\ pc[t] = "edges" /\ pc' = pc /\ gotcha' = gotcha /\ file' = file
      /\ stale' = stale /\ contended' = contended /\ loc' = [loc EXCEPT ![t] = m]
      /\ f \in l.eadd \cup l.erem
  BY DEF SyncEdge, Set
<1>2. /\ m.kind = l.kind /\ m.key = l.key
      /\ m.eadd = l.eadd \ {f} /\ m.erem = l.erem \ {f}
  BY <1>0 DEF Locals
<1>3. loc'[t] = m /\ \A u \in Tasks \ {t} : loc'[u] = loc[u]
  BY <1>0, <1>1
<1> HIDE DEF m
<1>4. \/ /\ raced' = raced
         /\ edges' = IF f \in l.eadd THEN edges \cup {<<f, l.key>>} ELSE edges \ {<<f, l.key>>}
      \/ raced' = raced \cup {l.key} /\ edges' = edges
  BY DEF SyncEdge
<1>5. Sound(t) /\ KindAt(t) /\ EdgesAt(t)
  BY DEF IInv, Sound
<1>6. Frame(t, {})
  <2>1. Mutates(t)' => Mutates(t) /\ loc'[t].key = loc[t].key
    BY <1>1, <1>2, <1>3 DEF Mutates
  <2>2. raced \subseteq raced'
    BY <1>4
  <2> QED BY <1>1, <1>3, <2>1, <2>2 DEF Frame
<1>7. Sound(t)'
  <2>1. ~Reading(t)' /\ KindAt(t)' /\ EnrichAt(t)'
    BY <1>1, <1>2, <1>3, <1>5 DEF Reading, KindAt, EnrichAt
  <2>2. EdgesAt(t)'
    BY <1>1, <1>2, <1>3, <1>4, <1>5, <2>1 DEF EdgesAt, Claims
  <2> QED BY <2>1, <2>2 DEF Sound, PlanAt, BufAt, SkipAt
<1>8. ExactInv'
  BY <1>1 DEF IInv, ExactInv, Claims
<1>9. EdgeInv'
  <2> SUFFICES ASSUME NEW g \in Gotchas, g \notin raced', NEW h \in Files, EdgeOff(h, g)'
               PROVE  \E u \in Tasks : /\ pc'[u] = "edges" /\ loc'[u].key = g
                                       /\ h \in loc'[u].eadd \cup loc'[u].erem
    BY DEF EdgeInv
  <2>1. g \notin raced
    BY <1>4
  <2>2. ~(g = l.key /\ h = f)
    <3> SUFFICES ASSUME g = l.key, h = f PROVE FALSE
      OBVIOUS
    <3>1. edges' = IF f \in l.eadd THEN edges \cup {<<f, l.key>>} ELSE edges \ {<<f, l.key>>}
      BY <1>4
    <3>2. <<f, l.key>> \in edges' <=> f \in l.eadd
      BY <3>1
    <3>3. Claims(l.key, f) <=> f \in l.eadd
      BY <1>1, <1>5, <2>1 DEF EdgesAt
    <3> QED BY <1>1, <3>2, <3>3 DEF EdgeOff, Claims
  <2>3. <<h, g>> \in edges' <=> <<h, g>> \in edges
    <3>1. <<h, g>> # <<f, l.key>>
      BY <2>2
    <3> QED BY <1>4, <3>1
  <2>4. EdgeOff(h, g)
    BY <1>1, <2>3 DEF EdgeOff, Claims
  <2>5. PICK u \in Tasks : /\ pc[u] = "edges" /\ loc[u].key = g
                           /\ h \in loc[u].eadd \cup loc[u].erem
    BY <2>1, <2>4 DEF IInv, EdgeInv
  <2>6. CASE u = t
    BY <1>1, <1>2, <1>3, <2>2, <2>5, <2>6
  <2>7. CASE u # t
    BY <1>1, <1>3, <2>5, <2>7
  <2> QED BY <2>6, <2>7
<1> QED BY <1>6, <1>7, <1>8, <1>9, FrameStep

LEMMA CrashKeeps ==
  ASSUME IInv, Crash, [Next]_vars
  PROVE  IInv'
<1>1. /\ \A t \in Tasks : pc'[t] = "idle"
      /\ gotcha' = gotcha /\ file' = file /\ edges' = edges /\ stale' = stale
      /\ contended' = contended
      /\ raced' = raced \cup {loc[t].key : t \in {u \in Tasks : pc[u] = "edges"}}
  BY DEF Crash, index
<1>2. TypeOK' /\ (\A t \in Tasks : Buffered(loc[t]))'
  BY NextTypes, BufferStep DEF IInv
<1>3. (\A t \in Tasks : Sound(t))'
  BY <1>1, RestSound
<1>4. AloneInv' /\ StaleInv' /\ ExactInv'
  BY <1>1 DEF IInv, AloneInv, StaleInv, ExactInv, Mutates, Claims
<1>5. EdgeInv'
  <2> SUFFICES ASSUME NEW g \in Gotchas, g \notin raced', NEW f \in Files, EdgeOff(f, g)'
               PROVE  FALSE
    BY DEF EdgeInv
  <2>1. EdgeOff(f, g) /\ g \notin raced
    BY <1>1 DEF EdgeOff, Claims
  <2>2. PICK u \in Tasks : pc[u] = "edges" /\ loc[u].key = g
    BY <2>1 DEF IInv, EdgeInv
  <2> QED BY <1>1, <2>2
<1> QED BY <1>2, <1>3, <1>4, <1>5 DEF IInv

LEMMA InitIInv == Init => IInv
<1> SUFFICES ASSUME Init PROVE IInv
  OBVIOUS
<1>1. /\ pc = [t \in Tasks |-> "idle"] /\ loc = [t \in Tasks |-> NoRequest]
      /\ stale = [t \in Tasks |-> {}] /\ contended = {} /\ raced = {}
      /\ calls = 0 /\ fails = 0 /\ crashes = 0
  BY DEF Init
<1>2. /\ gotcha \in [Gotchas -> [life : {"active"}, files : SUBSET Files] \cup {NoGotcha}]
      /\ edges = Desired /\ marker = Clean
  BY DEF Init, ExactInit
<1>3. gotcha \in [Gotchas -> GotchaRec]
  BY <1>2 DEF GotchaRec, Lives, NoGotcha
<1>4. PICK known \in SUBSET Files :
           file = [f \in Files |-> [exists |-> f \in known \/ DesiredKeys(f) # {},
                                    keys |-> DesiredKeys(f)]]
  BY DEF Init, ExactInit
<1>5. \A f \in Files : DesiredKeys(f) \in SUBSET Gotchas
  BY DEF DesiredKeys
<1>6. IndexTypeOK
  <2>1. file \in [Files -> FileRec] /\ \A f \in Files : file[f].keys # {} => file[f].exists
    BY <1>4, <1>5 DEF FileRec
  <2>2. edges \subseteq Files \X Gotchas
    BY <1>2 DEF Desired
  <2>3. marker \in Marker /\ (marker.dirty <=> marker.keys # {})
    BY <1>2 DEF Clean, Marker
  <2> QED BY <1>3, <2>1, <2>2, <2>3 DEF IndexTypeOK
<1>7. TypeOK
  <2>1. pc \in [Tasks -> PCs] /\ loc \in [Tasks -> Locals]
    BY <1>1, LocalTypes DEF PCs
  <2> QED BY <1>1, <1>6, <2>1, BoundAssumption DEF TypeOK
<1>8. \A t \in Tasks : Buffered(loc[t]) /\ Sound(t)
  <2>1. Buffered(NoRequest)
    BY DEF Buffered, NoRequest, Request, NoFile
  <2> QED BY <1>1, <2>1 DEF Sound, KindAt, PlanAt, BufAt, SkipAt, EnrichAt, EdgesAt, Reading
<1>9. StaleInv /\ AloneInv
  BY <1>1 DEF StaleInv, AloneInv, Mutates
<1>10. EdgeInv
  BY <1>2 DEF EdgeInv, EdgeOff, Claims, Desired
<1>11. ExactInv
  BY <1>4 DEF ExactInv, Claims, DesiredKeys, Desired
<1> QED BY <1>7, <1>8, <1>9, <1>10, <1>11 DEF IInv

LEMMA NextIInv == IInv /\ [Next]_vars => IInv'
<1> SUFFICES ASSUME IInv, [Next]_vars PROVE IInv'
  OBVIOUS
<1>1. ASSUME NEW t \in Tasks, Arrive(t) \/ Step(t) PROVE IInv'
  <2>1. CASE \E f \in Files : ReadForLink(t, f) \/ ReadForCount(t, f) \/ SyncEdge(t, f)
    BY <2>1, LinkKeeps, CountKeeps, SyncKeeps
  <2>2. CASE GetGotcha(t) \/ Commit(t) \/ CommitEnrich(t) \/ Arrive(t)
    BY <2>2, GetKeeps, CommitKeeps, EnrichKeeps, ArriveKeeps
  <2>3. CASE \/ LinksRead(t) \/ CountsRead(t) \/ CommitConflict(t) \/ CommitFails(t)
             \/ Respond(t)
    BY <2>3, WaitKeeps
  <2> QED BY <1>1, <2>1, <2>2, <2>3 DEF Step
<1>2. CASE Done \/ UNCHANGED vars
  <2>1. UNCHANGED <<gotcha, file, edges, marker, pc, loc, calls, fails, crashes, stale,
                    contended, raced>>
    BY <1>2 DEF Done, vars, index, bounds, history
  <2>2. TypeOK' /\ (\A t \in Tasks : Buffered(loc[t]))'
    BY NextTypes, BufferStep DEF IInv
  <2>3. AloneInv' /\ StaleInv' /\ EdgeInv' /\ ExactInv'
    BY <2>1 DEF IInv, AloneInv, StaleInv, EdgeInv, ExactInv, Mutates, EdgeOff, Claims
  <2>4. (\A t \in Tasks : Sound(t))'
    BY <2>1 DEF IInv, Sound, KindAt, PlanAt, BufAt, SkipAt, EnrichAt, EdgesAt, Reading, Claims
  <2> QED BY <2>2, <2>3, <2>4 DEF IInv
<1> QED BY <1>1, <1>2, CrashKeeps DEF Next
-----------------------------------------------------------------------------
\* The links of a file are exactly the active gotchas that name it, and the
\* edges of a gotcha at rest agree with it, whatever requests interleave, lose
\* their commit, fail or are cut, and however many there are: what
\* transact_knowledge and sync_has_gotcha_edges keep together.
THEOREM HandlersCorrect == FairSpec => []HandlersExact
<1>1. IInv => HandlersExact
  <2> SUFFICES ASSUME IInv PROVE HandlersExact
    OBVIOUS
  <2>1. \A f \in Files, g \in Gotchas : g \in DesiredKeys(f) <=> Claims(g, f)
    BY DEF DesiredKeys, Desired, Claims
  <2>2. \A f \in Files : file[f].keys \subseteq Gotchas /\ DesiredKeys(f) \subseteq Gotchas
    BY RecordTypes DEF IInv, FileRec, DesiredKeys
  <2>3. UncontendedExact
    BY <2>1, <2>2 DEF UncontendedExact, IInv, ExactInv
  <2>4. QuietEdgesExact
    <3> SUFFICES ASSUME NEW g \in Gotchas, g \notin raced, NEW f \in Files,
                        \A t \in Tasks : pc[t] # "idle" => loc[t].key # g
                 PROVE  <<f, g>> \notin EdgeDrift
      BY DEF QuietEdgesExact
    <3>1. ~EdgeOff(f, g)
      BY DEF IInv, EdgeInv
    <3> QED BY <3>1 DEF EdgeOff, Claims, EdgeDrift, Desired
  <2> QED BY <2>3, <2>4 DEF HandlersExact
<1>2. Spec => []IInv
  BY InitIInv, NextIInv, PTL DEF Spec
<1> QED BY <1>1, <1>2, PTL DEF FairSpec
=============================================================================

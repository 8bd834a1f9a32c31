------------------------- MODULE ConsultGateProofs -------------------------
(***************************************************************************)
(* Proofs about ConsultGate, for any agents, scopes, files, gotchas and    *)
(* bounds.                                                                 *)
(***************************************************************************)
EXTENDS ConsultGate, Integers, TLAPS

Threads  == Agents \cup Admins
Contents == SUBSET (Gotchas \cup {Memory})

OpRec ==
    [v : Variants \cup {"none"}, files : Seq(Files), queue : Seq(Files),
     level : Tier, left : SUBSET Gotchas, saw : SUBSET Gotchas, dec : Decisions \cup {"none"},
     deny : SUBSET Files, broken : BOOLEAN, logged : BOOLEAN, skipped : BOOLEAN,
     allow : BOOLEAN, todo : SUBSET Files, covers : Contents,
     drop : SUBSET (Scopes \X Files)]

\* The types of the state, the locals of the threads included.
StoreTypes ==
    /\ gotcha \in [Gotchas -> Status] /\ tier \in [Files -> Tier]
    /\ receipt \in [Scopes -> [Files -> Receipt]]
    /\ flushed \in BOOLEAN
ThreadTypes == pc \in [Threads -> PCs] /\ op \in [Threads -> OpRec]
OwedTypes   == owed \in [Agents -> SUBSET (Files \X Gotchas)]
BoundTypes  == calls \in 0..MaxCalls /\ changes \in 0..MaxChanges /\ faults \in 0..MaxFaults

\* The hook failed open at one of its lookups.
Out(o) == o.logged \/ o.skipped
In(f, q) == \E i \in 1..Len(q) : q[i] = f

\* A hook that has not failed open and has denied nothing yet has each file that
\* is owed a consultation before it; of the one it is at it has seen the gotcha
\* that is to deny, or is to read it still, or a read of it has failed.
HookOK(p, o, ow) ==
    /\ p \in {"eval", "links", "check"} =>
          o.queue # <<>> /\ \A w \in ow : Out(o) \/ o.deny # {} \/ In(w[1], o.queue)
    /\ p \in {"links", "check"} =>
          \A w \in ow : w[1] = Head(o.queue) =>
              o.broken \/ (o.level \in {"weak", "fresh"} /\ w[2] \in o.left \cup o.saw)
    /\ p = "check" => o.left = {}
    /\ p = "fire" /\ ow # {} => Out(o) \/ o.deny # {}
    /\ p = "verdict" /\ o.allow /\ ow # {} => Out(o)

\* A hook works on a call, and a consultation on a file.
CallOK(p, o) ==
    /\ p \in {"eval", "links", "check", "fire", "verdict", "posted"} => o.v # "none"
    /\ o.v # "none" => o.files # <<>>
    /\ p = "verdict" /\ ~o.allow => o.deny # {}
    /\ p \in {"get", "mint", "post"} => o.todo # {}
    /\ p \notin {"drop", "scan", "sweep"}

\* What deletes receipts knows which.
AdminOK(p, o) ==
    /\ p \in {"idle", "drop", "scan", "sweep"}
    /\ p \in {"idle", "scan"} => o.drop = {}
    /\ p = "drop" => o.drop \subseteq {Main} \X Files

AgentInv == \A t \in Agents : CallOK(pc[t], op[t]) /\ HookOK(pc[t], op[t], owed[t])
AdminInv == \A d \in Admins : AdminOK(pc[d], op[d])

\* A receipt about to be dropped.
Doomed(s, f) == \E d \in Admins : pc[d] = "scan" \/ <<s, f>> \in op[d].drop
Needed(s, f) == IF s = Main THEN Required(f) ELSE {Memory}
ReceiptInv ==
    \A s \in Scopes, f \in Files :
        LET r == receipt[s][f]
        IN  r.held /\ r.sound /\ ~Doomed(s, f) => Needed(s, f) \subseteq r.covers

IInv == /\ StoreTypes /\ ThreadTypes /\ OwedTypes /\ BoundTypes
        /\ AgentInv /\ AdminInv /\ ReceiptInv
-----------------------------------------------------------------------------
(* The keys of a call.                                                     *)

LEMMA SequenceParts ==
  ASSUME NEW q \in Seq(Files), q # <<>>
  PROVE  /\ Head(q) \in Files /\ Tail(q) \in Seq(Files)
         /\ \A f : In(f, q) => f = Head(q) \/ In(f, Tail(q))
<1>1. Len(q) \in Nat /\ Len(q) >= 1 /\ Head(q) = q[1]
  OBVIOUS
<1>4. Head(q) \in Files /\ Tail(q) \in Seq(Files)
  OBVIOUS
<1>2. Len(Tail(q)) = Len(q) - 1 /\ \A i \in 1..Len(Tail(q)) : Tail(q)[i] = q[i + 1]
  OBVIOUS
<1>3. ASSUME NEW f, In(f, q) PROVE f = Head(q) \/ In(f, Tail(q))
  <2>1. PICK i \in 1..Len(q) : q[i] = f
    BY <1>3 DEF In
  <2>2. CASE i = 1
    BY <2>1, <2>2, <1>1
  <2>3. CASE i # 1
    <3>1. i - 1 \in 1..Len(Tail(q)) /\ Tail(q)[i - 1] = q[i]
      <4>1. i - 1 \in 1..Len(Tail(q)) /\ (i - 1) + 1 = i
        BY <2>3, <1>1, <1>2
      <4> QED BY <4>1, <1>2
    <3> QED BY <3>1, <2>1 DEF In
  <2> QED BY <2>2, <2>3
<1> QED BY <1>3, <1>4

\* Every file that a call touches, as far as the gate resolves it, is among the
\* keys it is judged by.
LEMMA QueueFacts ==
  ASSUME NEW o \in OpRec, o.files # <<>>
  PROVE  /\ Queue(o.v, o.files) \in Seq(Files) /\ Queue(o.v, o.files) # <<>>
         /\ \A f \in Touched(o) : f \in Files /\ In(f, Queue(o.v, o.files))
<1> DEFINE q == o.files
           w == Target[Head(q)]
           mid == IF w # Head(q) THEN <<w>> ELSE <<>>
<1>1. q \in Seq(Files) /\ q # <<>> /\ Len(q) \in Nat /\ Len(q) >= 1
  BY DEF OpRec
<1>2. Head(q) = q[1] /\ Head(q) \in Files /\ Tail(q) \in Seq(Files)
  BY <1>1
<1>3. w \in Files
  BY <1>2, GateAssumption
<1>4. mid \in Seq(Files) /\ Len(mid) \in 0..1 /\ (w # Head(q) => Len(mid) = 1 /\ mid[1] = w)
  BY <1>3
<1>5. Len(Tail(q)) = Len(q) - 1 /\ \A i \in 1..Len(Tail(q)) : Tail(q)[i] = q[i + 1]
  BY <1>1
<1>6. \A f \in Touched(o) : (\E i \in 1..Len(q) : q[i] = f) \/ (o.v # "patch" /\ f = w)
  BY <1>1 DEF Touched
<1>7. \A i \in 1..Len(q) : q[i] \in Files
  BY <1>1
<1>8. CASE o.v = "patch"
  <2>1. Queue(o.v, o.files) = q
    BY <1>8 DEF Queue, CanonicalRelPath
  <2> QED BY <2>1, <1>1, <1>6, <1>7, <1>8 DEF In
<1>9. CASE o.v # "patch"
  <2> DEFINE r == Tail(q)
             k == <<Head(q)>> \o mid \o r
  <2>1. Queue(o.v, o.files) = k
    BY <1>9 DEF Queue, CanonicalRelPath
  <2> HIDE DEF w, mid, q
  <2>2. <<Head(q)>> \in Seq(Files) /\ Len(<<Head(q)>>) = 1 /\ <<Head(q)>>[1] = Head(q)
    BY <1>2
  <2>3. <<Head(q)>> \o mid \in Seq(Files) /\ Len(<<Head(q)>> \o mid) = 1 + Len(mid)
    BY <2>2, <1>4
  <2>4. (<<Head(q)>> \o mid)[1] = Head(q)
        /\ (w # Head(q) => (<<Head(q)>> \o mid)[2] = w)
    BY <2>2, <1>4
  <2> DEFINE a == <<Head(q)>> \o mid
  <2> HIDE DEF a, r
  <2>5. r \in Seq(Files) /\ Len(r) = Len(q) - 1 /\ \A i \in 1..Len(r) : r[i] = q[i + 1]
    BY <1>2, <1>5 DEF r
  <2>6. a \in Seq(Files) /\ Len(a) = 1 + Len(mid) /\ Len(a) \in 1..2 /\ a[1] = Head(q)
        /\ (w # Head(q) => a[2] = w /\ Len(a) = 2)
    BY <2>3, <2>4, <1>4 DEF a
  <2>7. k \in Seq(Files) /\ Len(k) = Len(a) + Len(r)
        /\ (\A i \in 1..Len(a) : k[i] = a[i])
        /\ (\A i \in 1..Len(r) : k[Len(a) + i] = r[i])
    <3>1. k = a \o r
      BY DEF a
    <3> HIDE DEF k
    <3> QED BY <3>1, <2>5, <2>6
  <2> HIDE DEF k
  <2>8. Len(k) \in Nat /\ Len(k) >= 1 /\ k # <<>>
    BY <2>5, <2>6, <2>7, <1>1
  <2>9. In(Head(q), k)
    BY <2>6, <2>7, <2>8 DEF In
  <2>10. In(w, k)
    <3>1. CASE w = Head(q)
      BY <3>1, <2>9
    <3>2. CASE w # Head(q)
      <4>1. 2 \in 1..Len(a) /\ 2 \in 1..Len(k)
        BY <3>2, <2>6, <2>7, <2>5, <1>1
      <4> QED BY <4>1, <3>2, <2>6, <2>7 DEF In
    <3> QED BY <3>1, <3>2
  <2>11. ASSUME NEW i \in 1..Len(q) PROVE In(q[i], k)
    <3>1. CASE i = 1
      BY <3>1, <2>9, <1>2
    <3>2. CASE i # 1
      <4>1. i - 1 \in 1..Len(r) /\ (i - 1) + 1 = i
        BY <3>2, <2>5, <1>1
      <4>2. Len(a) + (i - 1) \in 1..Len(k)
        BY <4>1, <2>5, <2>6, <2>7, <1>1
      <4>3. k[Len(a) + (i - 1)] = q[i]
        BY <4>1, <2>5, <2>7
      <4> QED BY <4>2, <4>3 DEF In
    <3> QED BY <3>1, <3>2
  <2>12. Queue(o.v, q) = k
    BY <2>1 DEF q
  <2>13. \A f \in Touched(o) : f \in Files /\ In(f, k)
    BY <1>3, <1>6, <1>7, <2>10, <2>11
  <2>14. Queue(o.v, o.files) = k
    BY <2>1
  <2> QED BY <2>7, <2>8, <2>13, <2>14
<1> QED BY <1>8, <1>9

-----------------------------------------------------------------------------
(* What a step of one thread leaves to prove.                              *)

\* A consultation is owed only for as long as it is wanted.
LEMMA Owes ==
  ASSUME ThreadTypes, OwedTypes, ThreadTypes', Watch,
         \A u \in Agents : (op[u].v # "none" => op[u].files # <<>>)',
         NEW t \in Agents
  PROVE  /\ OwedTypes'
         /\ ~Hooking(t)' => owed'[t] = {}
         /\ Hooking(t)' => owed'[t] \subseteq Wanting(t)'
         /\ Hooking(t)' /\ Hooking(t) => owed'[t] \subseteq owed[t]
<1>1. ASSUME NEW u \in Agents PROVE Wanting(u)' \subseteq Files \X Gotchas
  <2>1. op'[u] \in OpRec
    BY DEF ThreadTypes, Threads
  <2>2. ASSUME NEW o \in OpRec PROVE Touched(o) \subseteq Files
    <3>1. CASE o.files = <<>>
      BY <3>1 DEF Touched
    <3>2. CASE o.files # <<>>
      BY <3>2, QueueFacts
    <3> QED BY <3>1, <3>2
  <2>3. Touched(op'[u]) \subseteq Files
    BY <2>1, <2>2
  <2> QED BY <2>3 DEF Wanting
<1>2. owed' = [u \in Agents |-> IF ~Hooking(u)' THEN {}
                   ELSE IF Hooking(u) THEN owed[u] \cap Wanting(u)' ELSE Wanting(u)']
  BY DEF Watch
<1> QED BY <1>1, <1>2 DEF OwedTypes

LEMMA Antitone ==
  ASSUME NEW p, NEW o, NEW ow, NEW u, u \subseteq ow, HookOK(p, o, ow)
  PROVE  HookOK(p, o, u)
BY DEF HookOK

\* The locals of a thread after it has forgotten x.
Without(o, x) == [o EXCEPT !.covers = @ \ {x}]

LEMMA SameFacts ==
  ASSUME NEW o \in OpRec, NEW x
  PROVE  LET p == Without(o, x)
         IN  /\ p \in OpRec /\ p.drop = o.drop
             /\ \A l : CallOK(l, o) => CallOK(l, p)
             /\ \A l, ow : HookOK(l, o, ow) => HookOK(l, p, ow)
             /\ \A l : AdminOK(l, o) => AdminOK(l, p)
<1> DEFINE p == Without(o, x)
<1>1. o.covers \ {x} \in Contents
  BY DEF OpRec, Contents
<1>2. p \in OpRec
  BY <1>1 DEF OpRec, Without
<1>3. /\ p.v = o.v /\ p.files = o.files /\ p.queue = o.queue /\ p.level = o.level
      /\ p.left = o.left /\ p.saw = o.saw /\ p.broken = o.broken /\ p.deny = o.deny /\ p.logged = o.logged /\ p.skipped = o.skipped
      /\ p.allow = o.allow /\ p.todo = o.todo /\ p.drop = o.drop
  BY DEF OpRec, Without
<1> HIDE DEF p
<1>4. \A l : CallOK(l, o) => CallOK(l, p)
  BY <1>3 DEF CallOK
<1>5. \A l, ow : HookOK(l, o, ow) => HookOK(l, p, ow)
  BY <1>3 DEF HookOK, Out
<1>6. \A l : AdminOK(l, o) => AdminOK(l, p)
  BY <1>3 DEF AdminOK
<1>7. /\ p \in OpRec /\ p.drop = o.drop
      /\ \A l : CallOK(l, o) => CallOK(l, p)
      /\ \A l, ow : HookOK(l, o, ow) => HookOK(l, p, ow)
      /\ \A l : AdminOK(l, o) => AdminOK(l, p)
  BY <1>2, <1>3, <1>4, <1>5, <1>6
<1> QED BY <1>7 DEF p

LEMMA NoOpFacts ==
  /\ NoOp \in OpRec /\ NoOp.v = "none" /\ NoOp.todo = {} /\ NoOp.drop = {}
  /\ CallOK("idle", NoOp) /\ AdminOK("idle", NoOp) /\ AdminOK("scan", NoOp)
<1>1. <<>> \in Seq(Files)
  OBVIOUS
<1>2. NoOp \in OpRec /\ NoOp.v = "none" /\ NoOp.todo = {} /\ NoOp.drop = {}
  BY <1>1 DEF NoOp, OpRec, Contents, Tier
<1> QED BY <1>2 DEF CallOK, AdminOK

\* The threads of one step: each keeps its place and its locals, but for what it
\* has been shown, or ends up somewhere that suits its kind.
Kept(u)   == /\ pc'[u] = pc[u]
             /\ op'[u] = op[u] \/ \E x : op'[u] = Without(op[u], x)
AgentFits(u) == /\ CallOK(pc'[u], op'[u])
                /\ Hooking(u)' /\ Hooking(u) => HookOK(pc'[u], op'[u], owed'[u])
                /\ Hooking(u)' /\ ~Hooking(u) => HookOK(pc'[u], op'[u], Touched(op'[u]) \X Gotchas)

LEMMA ThreadsStay ==
  ASSUME ThreadTypes, OwedTypes, AgentInv, AdminInv, Watch,
         pc' \in [Threads -> PCs], DOMAIN op' = Threads, op' = [u \in Threads |-> op'[u]],
         \A u \in Agents : Kept(u) \/ (op'[u] \in OpRec /\ AgentFits(u)),
         \A d \in Admins : Kept(d) \/ (op'[d] \in OpRec /\ AdminOK(pc'[d], op'[d]))
  PROVE  ThreadTypes' /\ OwedTypes' /\ AgentInv' /\ AdminInv'
<1>1. ASSUME NEW u \in Threads, Kept(u)
      PROVE  /\ op'[u] \in OpRec
             /\ CallOK(pc[u], op[u]) => CallOK(pc'[u], op'[u])
             /\ \A ow : HookOK(pc[u], op[u], ow) => HookOK(pc'[u], op'[u], ow)
             /\ AdminOK(pc[u], op[u]) => AdminOK(pc'[u], op'[u])
  <2>1. op[u] \in OpRec
    BY DEF ThreadTypes
  <2>2. CASE op'[u] = op[u]
    BY <1>1, <2>1, <2>2 DEF Kept
  <2>3. CASE \E x : op'[u] = Without(op[u], x)
    <3>1. PICK x : op'[u] = Without(op[u], x)
      BY <2>3
    <3> QED BY <1>1, <2>1, <3>1, SameFacts DEF Kept
  <2> QED BY <1>1, <2>2, <2>3 DEF Kept
<1>2. \A u \in Threads : op'[u] \in OpRec
  BY <1>1 DEF Threads
<1>3. ThreadTypes'
  BY <1>2 DEF ThreadTypes
<1>4. \A u \in Agents : CallOK(pc'[u], op'[u])
  BY <1>1 DEF Threads, AgentFits, AgentInv
<1>5. \A u \in Agents : (op[u].v # "none" => op[u].files # <<>>)'
  BY <1>4 DEF CallOK
<1>6. ASSUME NEW u \in Agents
      PROVE  /\ OwedTypes'
             /\ ~Hooking(u)' => owed'[u] = {}
             /\ Hooking(u)' => owed'[u] \subseteq Wanting(u)'
             /\ Hooking(u)' /\ Hooking(u) => owed'[u] \subseteq owed[u]
  BY <1>3, <1>5, Owes
<1>10. OwedTypes'
  <2>1. CASE Agents = {}
    BY <2>1 DEF Watch, OwedTypes
  <2> QED BY <1>6, <2>1
<1>7. ASSUME NEW u \in Agents PROVE HookOK(pc'[u], op'[u], owed'[u])
  <2>1. CASE ~Hooking(u)'
    BY <2>1 DEF Hooking, HookOK
  <2>2. CASE Hooking(u)' /\ Kept(u)
    <3>1. Hooking(u)
      BY <2>2 DEF Hooking, Kept
    <3>2. HookOK(pc'[u], op'[u], owed[u])
      BY <1>1, <2>2 DEF Threads, AgentInv
    <3>3. owed'[u] \subseteq owed[u]
      BY <1>6, <2>2, <3>1
    <3> QED BY <3>2, <3>3, Antitone
  <2>3. CASE Hooking(u)' /\ AgentFits(u) /\ Hooking(u)
    BY <2>3 DEF AgentFits
  <2>4. CASE Hooking(u)' /\ AgentFits(u) /\ ~Hooking(u)
    <3>1. HookOK(pc'[u], op'[u], Touched(op'[u]) \X Gotchas)
      BY <2>4 DEF AgentFits
    <3>2. owed'[u] \subseteq Touched(op'[u]) \X Gotchas
      BY <1>6, <2>4 DEF Wanting
    <3> QED BY <3>1, <3>2, Antitone
  <2> QED BY <2>1, <2>2, <2>3, <2>4
<1>8. \A d \in Admins : AdminOK(pc'[d], op'[d])
  BY <1>1 DEF Threads, AdminInv
<1> QED BY <1>3, <1>4, <1>7, <1>8, <1>10 DEF AgentInv, AdminInv

LEMMA AgentMoves ==
  ASSUME ThreadTypes, OwedTypes, AgentInv, AdminInv, Watch,
         NEW t \in Agents, NEW l \in PCs, NEW o \in OpRec, Goto(t, l, o), AgentFits(t)
  PROVE  /\ ThreadTypes' /\ OwedTypes' /\ AgentInv' /\ AdminInv'
         /\ \A d \in Admins : pc'[d] = pc[d] /\ op'[d] = op[d]
<1>1. pc' \in [Threads -> PCs] /\ op' = [u \in Threads |-> op'[u]] /\ DOMAIN op' = Threads
  BY DEF Goto, ThreadTypes
<1>2. /\ op'[t] = o
      /\ \A u \in Threads \ {t} : pc'[u] = pc[u] /\ op'[u] = op[u]
  BY DEF Goto, ThreadTypes, Threads
<1>3. \A d \in Admins : d \in Threads \ {t}
  BY GateAssumption DEF Threads
<1>4. \A u \in Agents : Kept(u) \/ (op'[u] \in OpRec /\ AgentFits(u))
  BY <1>2 DEF Kept, Threads
<1>5. \A d \in Admins : Kept(d)
  BY <1>2, <1>3 DEF Kept
<1> QED BY <1>1, <1>2, <1>3, <1>4, <1>5, ThreadsStay

LEMMA AdminMoves ==
  ASSUME ThreadTypes, OwedTypes, AgentInv, AdminInv, Watch,
         NEW d \in Admins, NEW l \in PCs, NEW o \in OpRec, Goto(d, l, o), AdminOK(l, o)
  PROVE  /\ ThreadTypes' /\ OwedTypes' /\ AgentInv' /\ AdminInv'
         /\ pc'[d] = l /\ op'[d] = o
         /\ \A e \in Admins \ {d} : pc'[e] = pc[e] /\ op'[e] = op[e]
<1>1. pc' \in [Threads -> PCs] /\ op' = [u \in Threads |-> op'[u]] /\ DOMAIN op' = Threads
  BY DEF Goto, ThreadTypes
<1>2. /\ pc'[d] = l /\ op'[d] = o
      /\ \A u \in Threads \ {d} : pc'[u] = pc[u] /\ op'[u] = op[u]
  BY DEF Goto, ThreadTypes, Threads
<1>3. \A u \in Agents : u \in Threads \ {d}
  BY GateAssumption DEF Threads
<1>4. \A u \in Agents : Kept(u)
  BY <1>2, <1>3 DEF Kept
<1>5. \A e \in Admins : Kept(e) \/ (op'[e] \in OpRec /\ AdminOK(pc'[e], op'[e]))
  BY <1>2 DEF Kept, Threads
<1> QED BY <1>1, <1>2, <1>4, <1>5, ThreadsStay DEF Threads

LEMMA NobodyMoves ==
  ASSUME ThreadTypes, OwedTypes, AgentInv, AdminInv, Watch, UNCHANGED <<pc, op>>
  PROVE  ThreadTypes' /\ OwedTypes' /\ AgentInv' /\ AdminInv'
<1>1. \A u : Kept(u)
  BY DEF Kept
<1>2. pc' \in [Threads -> PCs] /\ op' = [u \in Threads |-> op'[u]] /\ DOMAIN op' = Threads
  BY DEF ThreadTypes
<1> QED BY <1>1, <1>2, ThreadsStay
-----------------------------------------------------------------------------
(* The steps of a hook.                                                    *)

\* A gotcha wants a consultation of a file now.
Wanted(t, v, w) == /\ tier[w[1]] \in {"weak", "fresh"} /\ w[2] \in InForce(w[1])
                   /\ ~Consulted(ScopeOf[t], w[1], v)

LEMMA GotoOwes ==
  ASSUME ThreadTypes, OwedTypes, AgentInv, Watch,
         NEW t \in Agents, NEW l \in PCs, NEW o \in OpRec, Goto(t, l, o), CallOK(l, o)
  PROVE  /\ pc'[t] = l /\ op'[t] = o
         /\ Hooking(t)' => owed'[t] \subseteq Wanting(t)'
         /\ Hooking(t)' /\ Hooking(t) => owed'[t] \subseteq owed[t]
<1>1. /\ pc'[t] = l /\ op'[t] = o
      /\ \A u \in Agents \ {t} : pc'[u] = pc[u] /\ op'[u] = op[u]
  BY DEF Goto, ThreadTypes, Threads
<1>2. ThreadTypes'
  BY DEF Goto, ThreadTypes
<1>3. \A u \in Agents : (op[u].v # "none" => op[u].files # <<>>)'
  <2>1. ASSUME NEW u \in Agents PROVE (op[u].v # "none" => op[u].files # <<>>)'
    <3>1. CASE u = t
      BY <1>1, <3>1 DEF CallOK
    <3>2. CASE u # t
      BY <1>1, <3>2 DEF CallOK, AgentInv
    <3> QED BY <3>1, <3>2
  <2> QED BY <2>1
<1> QED BY <1>1, <1>2, <1>3, Owes

\* A hook goes on to where it suits what was owed before.
LEMMA HookGoes ==
  ASSUME ThreadTypes, OwedTypes, AgentInv, Watch,
         NEW t \in Agents, NEW l \in PCs, NEW o \in OpRec, Goto(t, l, o), CallOK(l, o),
         Hooking(t), HookOK(l, o, owed[t])
  PROVE  AgentFits(t)
<1>1. /\ pc'[t] = l /\ op'[t] = o
      /\ Hooking(t)' /\ Hooking(t) => owed'[t] \subseteq owed[t]
  BY GotoOwes
<1>2. Hooking(t)' => HookOK(l, o, owed'[t])
  BY <1>1, Antitone
<1> QED BY <1>1, <1>2 DEF AgentFits

\* It goes on to where it suits what is owed after a step that changes nothing else.
LEMMA HookSees ==
  ASSUME ThreadTypes, OwedTypes, AgentInv, Watch,
         NEW t \in Agents, NEW l \in PCs, NEW o \in OpRec, Goto(t, l, o), CallOK(l, o),
         Hooking(t), UNCHANGED store,
         \A ow \in SUBSET owed[t] : (\A f \in ow : Wanted(t, o.v, f)) => HookOK(l, o, ow)
  PROVE  AgentFits(t)
<1>1. /\ pc'[t] = l /\ op'[t] = o
      /\ Hooking(t)' => owed'[t] \subseteq Wanting(t)'
      /\ Hooking(t)' /\ Hooking(t) => owed'[t] \subseteq owed[t]
  BY GotoOwes
<1>2. Hooking(t)' => HookOK(l, o, owed'[t])
  <2>1. SUFFICES ASSUME Hooking(t)' PROVE HookOK(l, o, owed'[t])
    OBVIOUS
  <2>2. \A f : Wanted(t, o.v, f)' <=> Wanted(t, o.v, f)
    BY DEF store, Wanted, InForce, Consulted
  <2>3. (\A f \in Wanting(t) : Wanted(t, op[t].v, f))'
    BY DEF Wanting, Wanted
  <2>4. \A f \in owed'[t] : Wanted(t, o.v, f)
    BY <1>1, <2>1, <2>2, <2>3
  <2> QED BY <1>1, <2>1, <2>4
<1> QED BY <1>1, <1>2 DEF AgentFits

\* A hook that begins has every file it is to watch before it.
LEMMA HookFacts ==
  ASSUME NEW o \in OpRec, o.v # "none", o.files # <<>>
  PROVE  LET h == Hook(o)
         IN  h \in OpRec /\ CallOK("eval", h) /\ HookOK("eval", h, Touched(h) \X Gotchas)
<1> DEFINE h == Hook(o)
           q == Queue(o.v, o.files)
<1>1. q \in Seq(Files) /\ q # <<>>
  BY QueueFacts
<1>2. <<>> \in Seq(Files) /\ {Memory} \in Contents
  BY DEF Contents
<1>3. h \in OpRec
  BY <1>1, <1>2 DEF Hook, OpRec, NoOp, Tier
<1>4. h.v = o.v /\ h.files = o.files /\ h.queue = q /\ h.todo = {} /\ h.allow = FALSE
  BY DEF Hook, NoOp
<1>5. \A f \in Touched(h) : In(f, q)
  BY <1>3, <1>4, QueueFacts
<1> HIDE DEF h, q
<1>6. h \in OpRec /\ CallOK("eval", h) /\ HookOK("eval", h, Touched(h) \X Gotchas)
  BY <1>1, <1>3, <1>4, <1>5 DEF CallOK, HookOK
<1> QED BY <1>6 DEF h

\* What the judgement of one key leaves.
LEMMA JudgedFacts ==
  ASSUME NEW o \in OpRec, o.queue # <<>>, NEW dec \in Decisions, NEW covers \in Contents
  PROVE  LET j == Judged(o, dec, covers)
         IN  /\ j \in OpRec /\ j.v = o.v /\ j.files = o.files /\ j.allow = o.allow
             /\ j.todo = o.todo
             /\ j.deny = IF dec = "Deny" THEN o.deny \cup {Head(o.queue)} ELSE o.deny
             /\ j.queue = IF j.deny # {} /\ o.v # "patch" THEN <<>> ELSE Tail(o.queue)
             /\ Out(o) \/ o.broken => Out(j)
<1> DEFINE f == Head(o.queue)
           d == IF dec = "Deny" THEN o.deny \cup {f} ELSE o.deny
           q == IF d # {} /\ o.v # "patch" THEN <<>> ELSE Tail(o.queue)
           k == IF First(o) THEN dec ELSE o.dec
           a == o.logged \/ (o.broken /\ First(o) /\ o.v # "patch")
           b == o.skipped \/ (o.broken /\ ~(First(o) /\ o.v # "patch"))
           j == Judged(o, dec, covers)
<1>1. o.queue \in Seq(Files) /\ o.deny \subseteq Files /\ o.dec \in Decisions \cup {"none"}
      /\ o.logged \in BOOLEAN /\ o.skipped \in BOOLEAN /\ o.broken \in BOOLEAN
  BY DEF OpRec
<1>2. f \in Files /\ Tail(o.queue) \in Seq(Files) /\ <<>> \in Seq(Files)
  BY <1>1
<1>3. d \in SUBSET Files /\ q \in Seq(Files) /\ k \in Decisions \cup {"none"}
  BY <1>1, <1>2
<1>4. a \in BOOLEAN /\ b \in BOOLEAN
  BY <1>1
<1>5. (Out(o) \/ o.broken) => (a \/ b)
  BY <1>1 DEF Out
<1>6. j = [o EXCEPT !.queue = q, !.dec = k, !.deny = d, !.covers = covers,
                    !.level = "none", !.left = {}, !.saw = {}, !.broken = FALSE,
                    !.logged = a, !.skipped = b]
  BY DEF Judged
<1>7. q = (IF d # {} /\ o.v # "patch" THEN <<>> ELSE Tail(o.queue))
      /\ d = (IF dec = "Deny" THEN o.deny \cup {f} ELSE o.deny)
  OBVIOUS
<1> HIDE DEF a, b, k, d, q
<1>8. j \in OpRec
  <2> DEFINE g == [o EXCEPT !.queue = q, !.dec = k]
             h == [g EXCEPT !.deny = d, !.covers = covers]
  <2>1. h \in OpRec
    <3>1. g \in OpRec
      BY <1>3 DEF OpRec
    <3> HIDE DEF g
    <3> QED BY <1>3, <3>1 DEF OpRec
  <2> DEFINE e == [h EXCEPT !.level = "none", !.left = {}, !.saw = {}, !.broken = FALSE]
  <2>2. j = [e EXCEPT !.logged = a, !.skipped = b]
    BY <1>6
  <2> HIDE DEF h, j
  <2>3. e \in OpRec
    BY <2>1 DEF OpRec, Tier
  <2> HIDE DEF e
  <2> QED BY <1>4, <2>2, <2>3 DEF OpRec
<1>9. /\ j.v = o.v /\ j.files = o.files /\ j.allow = o.allow /\ j.todo = o.todo
      /\ j.deny = d /\ j.queue = q /\ j.logged = a /\ j.skipped = b
  BY <1>6 DEF OpRec
<1>10. (Out(o) \/ o.broken) => Out(j)
  BY <1>5, <1>9 DEF Out
<1> HIDE DEF j
<1>11. /\ j \in OpRec /\ j.v = o.v /\ j.files = o.files /\ j.allow = o.allow
       /\ j.todo = o.todo
       /\ j.deny = IF dec = "Deny" THEN o.deny \cup {Head(o.queue)} ELSE o.deny
       /\ j.queue = IF j.deny # {} /\ o.v # "patch" THEN <<>> ELSE Tail(o.queue)
       /\ Out(o) \/ o.broken => Out(j)
  BY <1>7, <1>8, <1>9, <1>10
<1> QED BY <1>11 DEF j

\* The key at hand, if a consultation of it is owed, is denied or its lookup
\* failed; the others are still to come.
LEMMA JudgedOK ==
  ASSUME NEW o \in OpRec, NEW ow, NEW dec \in Decisions, NEW covers \in Contents,
         CallOK("check", o), HookOK("check", o, ow),
         (\E w \in ow : w[1] = Head(o.queue)) => o.broken \/ dec = "Deny"
  PROVE  LET j == Judged(o, dec, covers)
             l == IF j.queue = <<>> THEN "fire" ELSE "eval"
         IN  j \in OpRec /\ CallOK(l, j) /\ HookOK(l, j, ow)
<1> DEFINE j == Judged(o, dec, covers)
           l == IF j.queue = <<>> THEN "fire" ELSE "eval"
<1>1. o.queue # <<>> /\ \A w \in ow : Out(o) \/ o.deny # {} \/ In(w[1], o.queue)
  BY DEF HookOK
<1>2. /\ j \in OpRec /\ j.v = o.v /\ j.files = o.files
      /\ j.deny = IF dec = "Deny" THEN o.deny \cup {Head(o.queue)} ELSE o.deny
      /\ j.queue = IF j.deny # {} /\ o.v # "patch" THEN <<>> ELSE Tail(o.queue)
      /\ Out(o) \/ o.broken => Out(j)
  BY <1>1, JudgedFacts
<1> HIDE DEF j
<1>3. \A w \in ow : Out(j) \/ j.deny # {} \/ In(w[1], Tail(o.queue))
  <2>1. \A f : In(f, o.queue) => f = Head(o.queue) \/ In(f, Tail(o.queue))
    BY <1>1, SequenceParts DEF OpRec
  <2> QED BY <1>1, <1>2, <2>1
<1>4. \A f : ~In(f, <<>>)
  BY DEF In
<1>5. CallOK(l, j)
  BY <1>2 DEF CallOK
<1>6. ASSUME j.queue = <<>> PROVE HookOK(l, j, ow)
  BY <1>2, <1>3, <1>4, <1>5, <1>6 DEF HookOK
<1>7. ASSUME j.queue # <<>> PROVE HookOK(l, j, ow)
  BY <1>2, <1>3, <1>5, <1>7 DEF HookOK
<1>8. j \in OpRec /\ CallOK(l, j) /\ HookOK(l, j, ow)
  BY <1>2, <1>5, <1>6, <1>7
<1> QED BY <1>8 DEF j

\* A hook that gets no answer has failed open.
LEMMA UnansweredOK ==
  ASSUME NEW o \in OpRec, o.v # "none", o.files # <<>>, o.queue # <<>>, NEW ow
  PROVE  /\ Unanswered(o) \in OpRec /\ UnansweredPC(o) \in {"eval", "fire", "verdict"}
         /\ CallOK(UnansweredPC(o), Unanswered(o)) /\ HookOK(UnansweredPC(o), Unanswered(o), ow)
         /\ FailedOpen(o) \in OpRec /\ CallOK("verdict", FailedOpen(o))
         /\ HookOK("verdict", FailedOpen(o), ow)
<1> DEFINE u == Unanswered(o)
           e == FailedOpen(o)
<1>1. o.queue \in Seq(Files) /\ Tail(o.queue) \in Seq(Files) /\ <<>> \in Seq(Files)
      /\ o.logged \in BOOLEAN /\ o.skipped \in BOOLEAN /\ o.dec \in Decisions \cup {"none"}
  BY DEF OpRec
<1>2. e \in OpRec
  BY <1>1 DEF FailedOpen, OpRec, Tier
<1>3. e.v = o.v /\ e.files = o.files /\ e.queue = <<>> /\ e.allow /\ Out(e)
  BY DEF FailedOpen, Out, OpRec
<1>4. u \in OpRec /\ u.v = o.v /\ u.files = o.files /\ Out(u)
  <2>1. CASE First(o) /\ o.v # "patch"
    BY <1>2, <1>3, <2>1 DEF Unanswered
  <2>2. CASE ~(First(o) /\ o.v # "patch")
    <3> DEFINE k == IF First(o) THEN "Allow" ELSE o.dec
               a == o.logged \/ o.v = "patch"
               b == o.skipped \/ o.v # "patch"
    <3>1. k \in Decisions \cup {"none"} /\ a \in BOOLEAN /\ b \in BOOLEAN /\ (a \/ b)
      BY <1>1 DEF Decisions
    <3>2. u = [o EXCEPT !.queue = Tail(o.queue), !.dec = k, !.logged = a, !.skipped = b,
                        !.level = "none", !.left = {}, !.saw = {}, !.broken = FALSE]
      BY <2>2 DEF Unanswered
    <3> HIDE DEF k, a, b
    <3>3. u \in OpRec
      BY <1>1, <3>1, <3>2 DEF OpRec, Tier
    <3>4. u.v = o.v /\ u.files = o.files /\ u.logged = a /\ u.skipped = b
      BY <3>2 DEF OpRec
    <3> QED BY <3>1, <3>3, <3>4 DEF Out
  <2> QED BY <2>1, <2>2
<1> HIDE DEF u, e
<1>5. UnansweredPC(o) = IF u.queue # <<>> THEN "eval" ELSE IF u.allow THEN "verdict" ELSE "fire"
  BY DEF UnansweredPC, u
<1>6. UnansweredPC(o) \in {"eval", "fire", "verdict"}
  BY <1>5
<1>7. CallOK(UnansweredPC(o), u) /\ HookOK(UnansweredPC(o), u, ow)
  BY <1>4, <1>5 DEF CallOK, HookOK
<1>8. CallOK("verdict", e) /\ HookOK("verdict", e, ow)
  BY <1>3 DEF CallOK, HookOK
<1> QED BY <1>2, <1>4, <1>6, <1>7, <1>8 DEF u, e
-----------------------------------------------------------------------------
(* The receipts.                                                           *)

ReceiptsKept ==
    \/ receipt' = receipt
    \/ \E s \in Scopes, f \in Files, covers \in Contents : Mint(s, f, covers)

LEMMA NeededFacts ==
  ASSUME StoreTypes, NEW s \in Scopes, NEW f \in Files
  PROVE  Required(f) \in Contents /\ Needed(s, f) \subseteq Required(f)
BY DEF Required, Needed, InForce, Contents

\* A receipt is sound, when it is minted, only if it covers what it has to.
LEMMA MintKeeps ==
  ASSUME StoreTypes, ReceiptInv, ReceiptsKept, UNCHANGED <<gotcha, tier, flushed>>,
         \A d \in Admins : pc'[d] = pc[d] /\ op'[d] = op[d]
  PROVE  StoreTypes' /\ ReceiptInv'
<1>1. \A s, f : Doomed(s, f)' <=> Doomed(s, f)
  BY DEF Doomed
<1>2. \A s, f : Needed(s, f)' = Needed(s, f)
  BY DEF Needed, Required, InForce
<1>3. CASE receipt' = receipt
  BY <1>1, <1>2, <1>3 DEF StoreTypes, ReceiptInv
<1>4. CASE \E s \in Scopes, f \in Files, covers \in Contents : Mint(s, f, covers)
  <2>1. PICK s \in Scopes, f \in Files, covers \in Contents : Mint(s, f, covers)
    BY <1>4
  <2> DEFINE b == Required(f) \subseteq covers
             m == [held |-> TRUE, recent |-> TRUE, covers |-> covers, sound |-> b]
  <2>2. m \in Receipt /\ m.covers = covers /\ m.sound = b
    <3>1. b \in BOOLEAN
      OBVIOUS
    <3> HIDE DEF b
    <3> QED BY <3>1 DEF Receipt, Contents
  <2>3. receipt' = [receipt EXCEPT ![s][f] = m]
    BY <2>1 DEF Mint
  <2>4. b => Needed(s, f) \subseteq covers
    BY NeededFacts
  <2> HIDE DEF m, b
  <2>5. receipt' \in [Scopes -> [Files -> Receipt]]
    BY <2>2, <2>3 DEF StoreTypes
  <2>6. /\ receipt'[s][f] = m
        /\ \A q \in Scopes, h \in Files : <<q, h>> # <<s, f>> => receipt'[q][h] = receipt[q][h]
    BY <2>3 DEF StoreTypes
  <2>7. ASSUME NEW q \in Scopes, NEW h \in Files,
               receipt'[q][h].held, receipt'[q][h].sound, ~Doomed(q, h)'
        PROVE  Needed(q, h)' \subseteq receipt'[q][h].covers
    <3>1. CASE <<q, h>> = <<s, f>>
      <4>1. q = s /\ h = f
        BY <3>1
      <4> QED BY <4>1, <2>2, <2>4, <2>6, <2>7, <1>2
    <3>2. CASE <<q, h>> # <<s, f>>
      BY <3>2, <2>6, <2>7, <1>1, <1>2 DEF ReceiptInv
    <3> QED BY <3>1, <3>2
  <2> QED BY <2>5, <2>7 DEF StoreTypes, ReceiptInv
<1> QED BY <1>3, <1>4 DEF ReceiptsKept

\* What deleting receipts, or giving up on them, leaves.
Dropped(D) == \A s \in Scopes, f \in Files :
    IF <<s, f>> \in D THEN ~(receipt'[s][f].held /\ receipt'[s][f].sound)
    ELSE receipt'[s][f] = receipt[s][f]

LEMMA DropFacts ==
  ASSUME StoreTypes, NEW D, receipt' = Deleted(D) \/ receipt' = ExcuseAll(D)
  PROVE  receipt' \in [Scopes -> [Files -> Receipt]] /\ Dropped(D)
<1>1. NoReceipt \in Receipt /\ NoReceipt.held = FALSE
  BY DEF NoReceipt, Receipt
<1>2. \A r \in Receipt : Excused(r) \in Receipt /\ Excused(r).sound = FALSE
  BY DEF Excused, Receipt
<1>3. \A s \in Scopes, f \in Files : receipt[s][f] \in Receipt
  BY DEF StoreTypes
<1>4. CASE receipt' = Deleted(D)
  BY <1>1, <1>3, <1>4 DEF Deleted, Dropped
<1>5. CASE receipt' = ExcuseAll(D)
  BY <1>2, <1>3, <1>5 DEF ExcuseAll, Dropped
<1> QED BY <1>4, <1>5

\* One that lets receipts go by deleting them, or by leaving behind what no
\* property counts on, leaves no sound receipt it was about to drop.
LEMMA DropKeeps ==
  ASSUME StoreTypes, ReceiptInv, NEW D, NEW d \in Admins, UNCHANGED <<gotcha, tier, flushed>>,
         receipt' = Deleted(D) \/ receipt' = ExcuseAll(D),
         \A e \in Admins \ {d} : pc'[e] = pc[e] /\ op'[e] = op[e],
         \A s \in Scopes, f \in Files :
            \/ <<s, f>> \in D
            \/ ~(receipt[s][f].held /\ receipt[s][f].sound)
            \/ (pc[d] = "scan" \/ <<s, f>> \in op[d].drop)
                  => (pc'[d] = "scan" \/ <<s, f>> \in op'[d].drop)
  PROVE  StoreTypes' /\ ReceiptInv'
<1>1. receipt' \in [Scopes -> [Files -> Receipt]] /\ Dropped(D)
  BY DropFacts
<1>2. \A s, f : Needed(s, f)' = Needed(s, f)
  BY DEF Needed, Required, InForce
<1>3. ASSUME NEW s \in Scopes, NEW f \in Files,
             receipt'[s][f].held, receipt'[s][f].sound, ~Doomed(s, f)'
      PROVE  Needed(s, f)' \subseteq receipt'[s][f].covers
  <2>1. <<s, f>> \notin D /\ receipt'[s][f] = receipt[s][f]
    BY <1>1, <1>3 DEF Dropped
  <2>2. ~Doomed(s, f)
    BY <1>3, <2>1 DEF Doomed
  <2> QED BY <1>2, <1>3, <2>1, <2>2 DEF ReceiptInv
<1> QED BY <1>1, <1>3 DEF StoreTypes, ReceiptInv
-----------------------------------------------------------------------------
(* The steps of an agent.                                                  *)

AgentStep(t) == \E l \in PCs, o \in OpRec : Goto(t, l, o) /\ AgentFits(t)

LEMMA AgentLeaves ==
  ASSUME ThreadTypes, NEW t \in Agents, NEW l \in PCs, NEW o \in OpRec,
         Goto(t, l, o), CallOK(l, o), l \notin {"eval", "links", "check", "fire", "verdict"}
  PROVE  AgentFits(t)
<1>1. pc'[t] = l /\ op'[t] = o
  BY DEF Goto, ThreadTypes, Threads
<1> QED BY <1>1 DEF AgentFits, Hooking

LEMMA AgentBegins ==
  ASSUME ThreadTypes, NEW t \in Agents, NEW l \in PCs, NEW o \in OpRec,
         Goto(t, l, o), CallOK(l, o), ~Hooking(t), HookOK(l, o, Touched(o) \X Gotchas)
  PROVE  AgentFits(t)
<1>1. pc'[t] = l /\ op'[t] = o
  BY DEF Goto, ThreadTypes, Threads
<1> QED BY <1>1 DEF AgentFits

LEMMA StartAccessFits ==
  ASSUME ThreadTypes, NEW t \in Agents, StartAccess(t)
  PROVE  AgentStep(t)
<1>1. PICK c \in Calls : Goto(t, "eval", Hook(c))
  BY DEF StartAccess
<1>2. c.v \in Variants /\ c.files \in Seq(Files) /\ c.files # <<>>
  <2>1. CASE c \in [v : Variants, files : {<<f>> : f \in Files}]
    <3>1. c.v \in Variants /\ c.files \in {<<f>> : f \in Files}
      BY <2>1
    <3>2. \E f \in Files : c.files = <<f>>
      BY <3>1
    <3> QED BY <3>1, <3>2
  <2>2. CASE c \in [v : Variants \cap {"bash", "shell", "patch"}, files : MultiFile]
    <3>1. c.v \in Variants /\ c.files \in MultiFile
      BY <2>2
    <3>2. \E f \in Files, h \in Files : c.files = <<f, h>>
      BY <3>1 DEF MultiFile
    <3> QED BY <3>1, <3>2
  <2> QED BY <1>1, <2>1, <2>2 DEF Calls
<1> DEFINE o == [NoOp EXCEPT !.v = c.v, !.files = c.files]
<1>3. o \in OpRec /\ o.v = c.v /\ o.files = c.files
  <2>1. NoOp \in OpRec
    BY NoOpFacts
  <2> QED BY <1>2, <2>1 DEF OpRec
<1>4. c.v # "none"
  BY <1>2, GateAssumption DEF AllVariants
<1>5. Hook(c) = Hook(o)
  BY <1>3 DEF Hook
<1> HIDE DEF o
<1>6. Hook(o) \in OpRec /\ CallOK("eval", Hook(o)) /\ HookOK("eval", Hook(o), Touched(Hook(o)) \X Gotchas)
  BY <1>2, <1>3, <1>4, HookFacts
<1>7. ~Hooking(t) /\ "eval" \in PCs
  BY DEF StartAccess, Hooking, PCs
<1>8. Goto(t, "eval", Hook(o))
  BY <1>1, <1>5
<1>9. AgentFits(t)
  BY <1>6, <1>7, <1>8, AgentBegins
<1> QED BY <1>6, <1>7, <1>8, <1>9 DEF AgentStep

LEMMA StartMemGetFits ==
  ASSUME ThreadTypes, NEW t \in Agents, StartMemGet(t)
  PROVE  AgentStep(t)
<1>1. PICK f \in Files : Goto(t, "get", [NoOp EXCEPT !.todo = {f}])
  BY DEF StartMemGet
<1> DEFINE o == [NoOp EXCEPT !.todo = {f}]
<1>2. o \in OpRec /\ o.v = "none" /\ o.todo # {} /\ "get" \in PCs
  <2>1. NoOp \in OpRec /\ NoOp.v = "none"
    BY NoOpFacts
  <2> QED BY <2>1 DEF OpRec, PCs
<1> HIDE DEF o
<1>3. CallOK("get", o)
  BY <1>2 DEF CallOK
<1>4. Goto(t, "get", o)
  BY <1>1 DEF o
<1>5. AgentFits(t)
  BY <1>2, <1>3, <1>4, AgentLeaves
<1> QED BY <1>2, <1>4, <1>5 DEF AgentStep

\* What the hook reads of the record, and which gotchas it is to read, is what
\* makes it want a consultation.
LEMMA HookRecordsFits ==
  ASSUME StoreTypes, ThreadTypes, OwedTypes, AgentInv, Watch,
         NEW t \in Agents, HookRecords(t)
  PROVE  AgentStep(t)
<1> DEFINE f == Head(op[t].queue)
           o == [op[t] EXCEPT !.level = tier[f], !.left = Linked(f)]
           p == [o EXCEPT !.broken = TRUE]
<1>1. op[t] \in OpRec /\ CallOK("eval", op[t]) /\ HookOK("eval", op[t], owed[t]) /\ Hooking(t)
  BY DEF ThreadTypes, AgentInv, HookRecords, Hooking, Threads
<1>2. op[t].queue # <<>> /\ op[t].queue \in Seq(Files)
      /\ \A w \in owed[t] : Out(op[t]) \/ op[t].deny # {} \/ In(w[1], op[t].queue)
  BY <1>1 DEF HookOK, OpRec
<1>3. f \in Files /\ tier[f] \in Tier /\ Linked(f) \subseteq Gotchas /\ InForce(f) \subseteq Linked(f)
  BY <1>2 DEF StoreTypes, InForce, Linked
<1>4. o \in OpRec
  BY <1>1, <1>3 DEF OpRec
<1>5. p \in OpRec
  BY <1>4 DEF OpRec
<1> DEFINE Read(q) ==
      /\ q.v = op[t].v /\ q.files = op[t].files /\ q.deny = op[t].deny /\ q.queue = op[t].queue
      /\ q.logged = op[t].logged /\ q.skipped = op[t].skipped
      /\ q.level = tier[f] /\ q.left = Linked(f)
<1>6. Read(o) /\ Read(p)
  BY <1>1 DEF OpRec
<1>8. (Goto(t, Reading(o), o) \/ Goto(t, Reading(o), p)) /\ UNCHANGED store
  BY DEF HookRecords, store
<1>9. Reading(o) = Reading(p)
  BY <1>6 DEF Reading
<1>10. \E q \in OpRec : Goto(t, Reading(q), q) /\ Read(q)
  BY <1>4, <1>5, <1>6, <1>8, <1>9
<1> HIDE DEF o, p
<1>11. PICK q \in OpRec : Goto(t, Reading(q), q) /\ Read(q)
  BY <1>10
<1> DEFINE l == Reading(q)
<1>7. l \in {"links", "check"} /\ (l = "check" => q.left = {})
  BY DEF Reading
<1> HIDE DEF l
<1>12. CallOK(l, q)
  BY <1>1, <1>7, <1>11 DEF CallOK
<1>13. ASSUME NEW ow \in SUBSET owed[t], \A w \in ow : Wanted(t, q.v, w)
       PROVE  HookOK(l, q, ow)
  <2>1. \A w \in ow : Out(q) \/ q.deny # {} \/ In(w[1], q.queue)
    BY <1>2, <1>11 DEF Out
  <2>2. \A w \in ow : w[1] = Head(q.queue) => q.level \in {"weak", "fresh"} /\ w[2] \in q.left
    BY <1>3, <1>11, <1>13 DEF Wanted
  <2>3. q.queue # <<>>
    BY <1>2, <1>11
  <2> QED BY <1>7, <2>1, <2>2, <2>3 DEF HookOK
<1>14. l \in PCs
  BY <1>7 DEF PCs
<1>16. Goto(t, l, q)
  BY <1>11 DEF l
<1> HIDE DEF Read
<1>15. AgentFits(t)
  BY <1>1, <1>8, <1>12, <1>13, <1>14, <1>16, HookSees
<1> QED BY <1>14, <1>15, <1>16 DEF AgentStep

\* A gotcha that is owed a consultation is in force when the hook reads it.
LEMMA HookGotchaFits ==
  ASSUME StoreTypes, ThreadTypes, OwedTypes, AgentInv, Watch,
         NEW t \in Agents, HookGotcha(t)
  PROVE  AgentStep(t)
<1> DEFINE f == Head(op[t].queue)
<1>1. op[t] \in OpRec /\ CallOK("links", op[t]) /\ HookOK("links", op[t], owed[t]) /\ Hooking(t)
  BY DEF ThreadTypes, AgentInv, HookGotcha, Hooking, Threads
<1>2. PICK g \in op[t].left :
         LET o == [op[t] EXCEPT !.left = @ \ {g}]
         IN  Goto(t, Reading(o), Answered(o, g)) \/ Goto(t, Reading(o), [o EXCEPT !.broken = TRUE])
  BY DEF HookGotcha
<1> DEFINE o == [op[t] EXCEPT !.left = @ \ {g}]
           a == Answered(o, g)
           b == [o EXCEPT !.broken = TRUE]
<1>3. o \in OpRec
  BY <1>1 DEF OpRec
<1>4. g \in Gotchas /\ a \in OpRec /\ b \in OpRec
  BY <1>1, <1>3 DEF OpRec, Answered
<1> DEFINE Kin(q) ==
      /\ q.v = op[t].v /\ q.files = op[t].files /\ q.deny = op[t].deny /\ q.queue = op[t].queue
      /\ q.logged = op[t].logged /\ q.skipped = op[t].skipped
      /\ q.level = op[t].level /\ q.left = op[t].left \ {g}
      /\ q.broken \/ (q.broken = op[t].broken /\ q.saw = op[t].saw \cup ({g} \cap InForce(f)))
<1>5. Kin(a) /\ Kin(b)
  BY <1>1 DEF OpRec, Answered
<1>6. Reading(a) = Reading(o) /\ Reading(b) = Reading(o)
  BY <1>1 DEF Reading, Answered, OpRec
<1>7. \E q \in OpRec : Goto(t, Reading(q), q) /\ Kin(q)
  BY <1>2, <1>4, <1>5, <1>6
<1> HIDE DEF o, a, b
<1>8. PICK q \in OpRec : Goto(t, Reading(q), q) /\ Kin(q)
  BY <1>7
<1> DEFINE l == Reading(q)
<1>9. l \in {"links", "check"} /\ (l = "check" => q.left = {}) /\ l \in PCs
  BY DEF Reading, PCs
<1> HIDE DEF l
<1>10. CallOK(l, q)
  BY <1>1, <1>8, <1>9 DEF CallOK
<1>11. ASSUME NEW ow \in SUBSET owed[t], \A w \in ow : Wanted(t, q.v, w)
       PROVE  HookOK(l, q, ow)
  <2>1. q.queue # <<>> /\ \A w \in ow : Out(q) \/ q.deny # {} \/ In(w[1], q.queue)
    BY <1>1, <1>8 DEF HookOK, Out
  <2>2. ASSUME NEW w \in ow, w[1] = Head(q.queue)
        PROVE  q.broken \/ (q.level \in {"weak", "fresh"} /\ w[2] \in q.left \cup q.saw)
    <3>1. op[t].broken \/ (op[t].level \in {"weak", "fresh"} /\ w[2] \in op[t].left \cup op[t].saw)
      BY <1>1, <1>8, <2>2 DEF HookOK
    <3>2. w[2] \in InForce(f)
      BY <1>8, <1>11, <2>2 DEF Wanted
    <3> QED BY <1>8, <3>1, <3>2
  <2> QED BY <1>9, <2>1, <2>2 DEF HookOK
<1>12. Goto(t, l, q) /\ UNCHANGED store
  BY <1>8 DEF l, HookGotcha, store
<1> HIDE DEF Kin
<1>13. AgentFits(t)
  BY <1>1, <1>9, <1>10, <1>11, <1>12, HookSees
<1> QED BY <1>9, <1>12, <1>13 DEF AgentStep

\* No receipt that counts, and a gotcha in force: the decision is to deny.
LEMMA DecisionFacts ==
  ASSUME NEW o \in OpRec, NEW f, NEW consulted \in BOOLEAN
  PROVE  LET base == IF o.broken THEN "Allow" ELSE Evaluate(o.level, o.saw, consulted)
             dec  == Mandate(o.v, f, consulted, base)
         IN  /\ dec \in Decisions
             /\ o.level \in {"weak", "fresh"} /\ o.saw # {} /\ ~consulted
                   => o.broken \/ dec = "Deny"
<1>1. Evaluate(o.level, o.saw, consulted) \in Decisions
  BY DEF Evaluate, Decisions
<1>2. o.level \in {"weak", "fresh"} /\ o.saw # {} /\ ~consulted
         => Evaluate(o.level, o.saw, consulted) = "Deny"
  BY DEF Evaluate
<1> QED BY <1>1, <1>2 DEF Mandate, Decisions

LEMMA HookReceiptFits ==
  ASSUME StoreTypes, ThreadTypes, OwedTypes, AgentInv, Watch,
         NEW t \in Agents, HookReceipt(t)
  PROVE  AgentStep(t)
<1> DEFINE o == op[t]
           f == Head(o.queue)
           s == ScopeOf[t]
           B(c) == IF o.broken THEN "Allow" ELSE Evaluate(o.level, o.saw, c)
           D(c) == Mandate(o.v, f, c, B(c))
           W(c) == IF First(o) /\ D(c) = "AlreadyConsulted" THEN receipt[s][f].covers ELSE o.covers
           J(c) == Judged(o, D(c), W(c))
           L(c) == IF J(c).queue = <<>> THEN "fire" ELSE "eval"
           yes  == Consulted(s, f, o.v)
<1>1. o \in OpRec /\ CallOK("check", o) /\ HookOK("check", o, owed[t]) /\ Hooking(t)
  BY DEF ThreadTypes, AgentInv, HookReceipt, Hooking, Threads
<1>2. f \in Files /\ s \in Scopes
  BY <1>1 DEF HookOK, OpRec, Scopes
<1>3. yes \in BOOLEAN
  BY <1>2 DEF StoreTypes, Consulted, Receipt
<1>4. \E c \in BOOLEAN : Goto(t, L(c), J(c)) /\ (yes \/ ~c)
  <2>1. Goto(t, L(yes), J(yes)) \/ Goto(t, L(FALSE), J(FALSE))
    BY DEF HookReceipt, Continue
  <2> HIDE DEF L, J, yes
  <2> QED BY <1>3, <2>1
<1>5. UNCHANGED store
  BY DEF HookReceipt, store
<1>6. PICK c \in BOOLEAN : Goto(t, L(c), J(c)) /\ (~yes => ~c)
  <2> HIDE DEF L, J, yes
  <2> QED BY <1>4
<1>7. receipt[s][f].covers \in Contents /\ o.covers \in Contents
  BY <1>1, <1>2 DEF StoreTypes, Receipt, OpRec, Contents
<1>8. W(c) \in Contents
  BY <1>7
<1>9. /\ D(c) \in Decisions
      /\ o.level \in {"weak", "fresh"} /\ o.saw # {} /\ ~c => o.broken \/ D(c) = "Deny"
  BY <1>1, DecisionFacts
<1>10. J(c) \in OpRec /\ J(c).v = o.v
  <2>1. o.queue # <<>>
    BY <1>1 DEF HookOK
  <2> HIDE DEF D, W
  <2> QED BY <1>1, <1>8, <1>9, <2>1, JudgedFacts
<1>11. ASSUME NEW ow \in SUBSET owed[t], \A h \in ow : Wanted(t, J(c).v, h)
       PROVE  CallOK(L(c), J(c)) /\ HookOK(L(c), J(c), ow)
  <2>1. (\E w \in ow : w[1] = Head(o.queue)) => o.broken \/ D(c) = "Deny"
    <3>1. SUFFICES ASSUME NEW w \in ow, w[1] = f PROVE o.broken \/ D(c) = "Deny"
      OBVIOUS
    <3>2. ~yes
      BY <1>10, <1>11, <3>1 DEF Wanted
    <3>3. o.broken \/ (o.level \in {"weak", "fresh"} /\ o.saw # {})
      BY <1>1, <3>1 DEF HookOK
    <3> QED BY <1>6, <1>9, <3>2, <3>3
  <2>2. HookOK("check", o, ow)
    BY <1>1, Antitone
  <2> HIDE DEF D, W, o
  <2> QED BY <1>1, <1>8, <1>9, <2>1, <2>2, JudgedOK
<1>12. L(c) \in PCs
  BY DEF PCs
<1>13. CallOK(L(c), J(c))
  <2> HIDE DEF L, J
  <2>1. \A h \in {} : Wanted(t, J(c).v, h)
    OBVIOUS
  <2>2. {} \in SUBSET owed[t]
    OBVIOUS
  <2> QED BY <1>11, <2>1, <2>2
<1> HIDE DEF L, J, yes, D, W
<1>14. AgentFits(t)
  BY <1>1, <1>5, <1>6, <1>10, <1>11, <1>12, <1>13, HookSees
<1> QED BY <1>6, <1>10, <1>12, <1>14 DEF AgentStep
LEMMA LookupFailsFits ==
  ASSUME ThreadTypes, OwedTypes, AgentInv, Watch,
         NEW t \in Agents, LookupFails(t)
  PROVE  AgentStep(t)
<1> DEFINE o == op[t]
<1>1. /\ o \in OpRec /\ CallOK(pc[t], o) /\ HookOK(pc[t], o, owed[t]) /\ Hooking(t)
      /\ pc[t] \in {"eval", "links", "check"}
  BY DEF ThreadTypes, AgentInv, LookupFails, Hooking, Threads
<1>2. o.v # "none" /\ o.files # <<>> /\ o.queue # <<>>
  BY <1>1 DEF CallOK, HookOK
<1>3. Goto(t, UnansweredPC(o), Unanswered(o))
  BY DEF LookupFails
<1> HIDE DEF o
<1>4. /\ Unanswered(o) \in OpRec /\ UnansweredPC(o) \in {"eval", "fire", "verdict"}
      /\ CallOK(UnansweredPC(o), Unanswered(o))
      /\ HookOK(UnansweredPC(o), Unanswered(o), owed[t])
  BY <1>1, <1>2, UnansweredOK
<1>5. UnansweredPC(o) \in PCs
  BY <1>4 DEF PCs
<1>6. AgentFits(t)
  BY <1>1, <1>3, <1>4, <1>5, HookGoes
<1> QED BY <1>3, <1>4, <1>5, <1>6 DEF AgentStep

LEMMA DeadlineFits ==
  ASSUME ThreadTypes, OwedTypes, AgentInv, Watch,
         NEW t \in Agents, Deadline(t)
  PROVE  AgentStep(t)
<1> DEFINE o == op[t]
           e == FailedOpen(o)
<1>1. o \in OpRec /\ CallOK(pc[t], o) /\ Hooking(t) /\ pc[t] \in {"eval", "links", "check", "fire"}
  BY DEF ThreadTypes, AgentInv, Deadline, Hooking, Threads
<1>2. o.v # "none" /\ o.files # <<>>
  BY <1>1 DEF CallOK
<1>3. <<>> \in Seq(Files)
  OBVIOUS
<1>4. e \in OpRec
  BY <1>1, <1>3 DEF FailedOpen, OpRec, Tier
<1>5. e.v = o.v /\ e.files = o.files /\ e.allow /\ Out(e)
  BY <1>1 DEF FailedOpen, OpRec, Out
<1>6. Goto(t, "verdict", e) /\ "verdict" \in PCs
  BY DEF Deadline, PCs
<1> HIDE DEF o, e
<1>7. CallOK("verdict", e) /\ HookOK("verdict", e, owed[t])
  BY <1>2, <1>5 DEF CallOK, HookOK
<1>8. AgentFits(t)
  BY <1>1, <1>4, <1>6, <1>7, HookGoes
<1> QED BY <1>4, <1>6, <1>8 DEF AgentStep

LEMMA MintTried ==
  ASSUME NEW s \in Scopes, NEW f \in Files, NEW covers \in Contents, TryMint(s, f, covers)
  PROVE  ReceiptsKept
BY DEF TryMint, ReceiptsKept

LEMMA FireEventsFits ==
  ASSUME ThreadTypes, OwedTypes, AgentInv, Watch,
         NEW t \in Agents, FireEvents(t)
  PROVE  AgentStep(t) /\ ReceiptsKept
<1> DEFINE o == op[t]
           b == o.deny = {}
           p == [o EXCEPT !.allow = b]
<1>1. o \in OpRec /\ CallOK("fire", o) /\ HookOK("fire", o, owed[t]) /\ Hooking(t)
  BY DEF ThreadTypes, AgentInv, FireEvents, Hooking, Threads
<1>2. o.v # "none" /\ o.files # <<>> /\ o.files \in Seq(Files) /\ o.covers \in Contents
      /\ (owed[t] # {} => Out(o) \/ o.deny # {})
  BY <1>1 DEF CallOK, OpRec, HookOK
<1>3. Head(o.files) \in Files /\ Main \in Scopes
  BY <1>2 DEF Scopes
<1>4. ReceiptsKept
  <2>1. \/ TryMint(Main, Head(o.files), o.covers)
        \/ receipt' = receipt
    BY DEF FireEvents
  <2> QED BY <1>2, <1>3, <2>1, MintTried DEF ReceiptsKept
<1>5. p \in OpRec /\ p.v = o.v /\ p.files = o.files /\ p.deny = o.deny /\ p.allow = b
      /\ p.logged = o.logged /\ p.skipped = o.skipped
  <2>1. b \in BOOLEAN
    OBVIOUS
  <2> HIDE DEF b, o
  <2> QED BY <1>1, <2>1 DEF OpRec
<1>6. Goto(t, "verdict", p) /\ "verdict" \in PCs
  BY DEF FireEvents, PCs
<1> HIDE DEF p
<1>7. CallOK("verdict", p)
  BY <1>2, <1>5 DEF CallOK
<1>8. HookOK("verdict", p, owed[t])
  BY <1>2, <1>5 DEF HookOK, Out
<1>9. AgentFits(t)
  BY <1>1, <1>5, <1>6, <1>7, <1>8, HookGoes
<1> QED BY <1>4, <1>5, <1>6, <1>9 DEF AgentStep

LEMMA VerdictFits ==
  ASSUME ThreadTypes, AgentInv, NEW t \in Agents, Verdict(t)
  PROVE  AgentStep(t)
<1> DEFINE o == op[t]
           p == [o EXCEPT !.todo = o.deny]
<1>1. o \in OpRec /\ CallOK("verdict", o)
  BY DEF ThreadTypes, AgentInv, Verdict, Threads
<1>2. o.v # "none" /\ o.files # <<>> /\ (~o.allow => o.deny # {}) /\ o.deny \in SUBSET Files
  BY <1>1 DEF CallOK, OpRec
<1>3. p \in OpRec /\ p.v = o.v /\ p.files = o.files /\ p.todo = o.deny
  BY <1>1, <1>2 DEF OpRec
<1>4. \/ ~o.allow /\ Goto(t, "get", p)
      \/ Goto(t, "posted", o)
      \/ Goto(t, "idle", NoOp)
  BY DEF Verdict, Finish
<1>5. "get" \in PCs /\ "posted" \in PCs /\ "idle" \in PCs
  BY DEF PCs
<1> HIDE DEF p, o
<1>6. ~o.allow => CallOK("get", p)
  BY <1>2, <1>3 DEF CallOK
<1>7. CallOK("posted", o)
  BY <1>2 DEF CallOK
<1>8. \E l \in PCs, q \in OpRec : Goto(t, l, q) /\ CallOK(l, q)
                                   /\ l \notin {"eval", "links", "check", "fire", "verdict"}
  <2>1. CASE ~o.allow /\ Goto(t, "get", p)
    BY <1>3, <1>5, <1>6, <2>1
  <2>2. CASE Goto(t, "posted", o)
    BY <1>1, <1>5, <1>7, <2>2
  <2>3. CASE Goto(t, "idle", NoOp)
    BY <1>5, <2>3, NoOpFacts
  <2> QED BY <1>4, <2>1, <2>2, <2>3
<1> QED BY <1>8, AgentLeaves DEF AgentStep

LEMMA PostEditFits ==
  ASSUME ThreadTypes, AgentInv, NEW t \in Agents, PostEdit(t)
  PROVE  AgentStep(t) /\ ReceiptsKept
<1> DEFINE o == op[t]
<1>1. o \in OpRec /\ CallOK("posted", o)
  BY DEF ThreadTypes, AgentInv, PostEdit, Threads
<1>2. o.files # <<>> /\ o.files \in Seq(Files) /\ o.covers \in Contents
  BY <1>1 DEF CallOK, OpRec
<1>3. Head(o.files) \in Files /\ Main \in Scopes
  BY <1>2 DEF Scopes
<1>4. ReceiptsKept
  <2>1. TryMint(Main, Head(o.files), o.covers)
    BY DEF PostEdit
  <2> QED BY <1>2, <1>3, <2>1, MintTried
<1>5. Goto(t, "idle", NoOp) /\ "idle" \in PCs
  BY DEF PostEdit, Finish, PCs
<1>6. NoOp \in OpRec /\ CallOK("idle", NoOp)
  BY NoOpFacts
<1> QED BY <1>4, <1>5, <1>6, AgentLeaves DEF AgentStep

LEMMA CurrentFacts ==
  ASSUME NEW o \in OpRec, o.todo # {}
  PROVE  Current(o) \in o.todo /\ Current(o) \in Files
BY DEF Current, OpRec

LEMMA MemGetReadFits ==
  ASSUME StoreTypes, ThreadTypes, AgentInv, NEW t \in Agents, MemGetRead(t)
  PROVE  AgentStep(t)
<1> DEFINE o == op[t]
           f == Current(o)
           w == (IF tier[f] = "none" THEN {} ELSE InForce(f)) \cup {Memory}
           p == [o EXCEPT !.covers = w]
<1>1. o \in OpRec /\ CallOK("get", o) /\ pc[t] = "get"
  BY DEF ThreadTypes, AgentInv, MemGetRead, Threads
<1>2. w \in Contents
  BY DEF InForce, Contents
<1> HIDE DEF w
<1>3. p \in OpRec /\ p.v = o.v /\ p.files = o.files /\ p.todo = o.todo
  BY <1>1, <1>2 DEF OpRec
<1>4. CallOK("mint", p)
  BY <1>1, <1>3 DEF CallOK
<1>5. Goto(t, "mint", p) \/ Goto(t, "get", o)
  <2>1. Goto(t, "mint", p) \/ UNCHANGED <<pc, op>>
    BY DEF MemGetRead, w
  <2>2. ASSUME UNCHANGED <<pc, op>> PROVE Goto(t, "get", o)
    BY <1>1, <2>2 DEF Goto, ThreadTypes
  <2> QED BY <2>1, <2>2
<1>6. "mint" \in PCs /\ "get" \in PCs
  BY DEF PCs
<1> HIDE DEF p, o
<1>7. \E l \in PCs, q \in OpRec : Goto(t, l, q) /\ CallOK(l, q)
                                   /\ l \notin {"eval", "links", "check", "fire", "verdict"}
  <2>1. CASE Goto(t, "mint", p)
    BY <1>3, <1>4, <1>6, <2>1
  <2>2. CASE Goto(t, "get", o)
    BY <1>1, <1>6, <2>2
  <2> QED BY <1>5, <2>1, <2>2
<1> QED BY <1>7, AgentLeaves DEF AgentStep

LEMMA MemGetMintFits ==
  ASSUME ThreadTypes, AgentInv, NEW t \in Agents, MemGetMint(t)
  PROVE  AgentStep(t) /\ ReceiptsKept
<1> DEFINE o == op[t]
<1>1. o \in OpRec /\ CallOK("mint", o)
  BY DEF ThreadTypes, AgentInv, MemGetMint, Threads
<1>2. CallOK("post", o) /\ o.todo # {} /\ o.covers \in Contents
  BY <1>1 DEF CallOK, OpRec
<1>3. Current(o) \in Files /\ Main \in Scopes
  BY <1>1, <1>2, CurrentFacts DEF Scopes
<1>4. ReceiptsKept
  <2>1. TryMint(Main, Current(o), o.covers)
    BY DEF MemGetMint
  <2> QED BY <1>2, <1>3, <2>1, MintTried
<1>5. Goto(t, "post", o) /\ "post" \in PCs
  BY DEF MemGetMint, PCs
<1> QED BY <1>1, <1>2, <1>4, <1>5, AgentLeaves DEF AgentStep

LEMMA PostMemGetFits ==
  ASSUME ThreadTypes, AgentInv, NEW t \in Agents, PostMemGet(t)
  PROVE  AgentStep(t) /\ ReceiptsKept
<1> DEFINE o == op[t]
           p == [o EXCEPT !.todo = @ \ {Current(o)}, !.covers = {}]
<1>1. o \in OpRec /\ CallOK("post", o) /\ ~Hooking(t)
  BY DEF ThreadTypes, AgentInv, PostMemGet, Hooking, Threads
<1>2. o.todo # {} /\ o.covers \in Contents /\ (o.v # "none" => o.files # <<>>)
  BY <1>1 DEF CallOK, OpRec
<1>3. Current(o) \in Files /\ ScopeOf[t] \in Scopes
  BY <1>1, <1>2, CurrentFacts DEF Scopes
<1>4. ReceiptsKept
  <2>1. TryMint(ScopeOf[t], Current(o), o.covers) \/ receipt' = receipt
    BY DEF PostMemGet
  <2> QED BY <1>2, <1>3, <2>1, MintTried DEF ReceiptsKept
<1>5. p \in OpRec /\ p.v = o.v /\ p.files = o.files
  <2>1. {} \in Contents
    BY DEF Contents
  <2> QED BY <1>1, <2>1 DEF OpRec
<1>6. \/ p.todo # {} /\ Goto(t, "get", p)
      \/ p.v = "none" /\ Goto(t, "idle", NoOp)
      \/ p.v # "none" /\ Goto(t, "eval", Hook(p))
  BY DEF PostMemGet, AfterPost, Finish
<1>7. "get" \in PCs /\ "idle" \in PCs /\ "eval" \in PCs
  BY DEF PCs
<1> HIDE DEF p, o
<1>8. CASE p.todo # {} /\ Goto(t, "get", p)
  <2>1. CallOK("get", p)
    BY <1>2, <1>5, <1>8 DEF CallOK
  <2> QED BY <1>4, <1>5, <1>7, <1>8, <2>1, AgentLeaves DEF AgentStep
<1>9. CASE p.v = "none" /\ Goto(t, "idle", NoOp)
  BY <1>4, <1>7, <1>9, NoOpFacts, AgentLeaves DEF AgentStep
<1>10. CASE p.v # "none" /\ Goto(t, "eval", Hook(p))
  <2>1. /\ Hook(p) \in OpRec /\ CallOK("eval", Hook(p))
        /\ HookOK("eval", Hook(p), Touched(Hook(p)) \X Gotchas)
    BY <1>2, <1>5, <1>10, HookFacts
  <2>2. AgentFits(t)
    BY <1>1, <1>7, <1>10, <2>1, AgentBegins
  <2> QED BY <1>4, <1>7, <1>10, <2>1, <2>2 DEF AgentStep
<1> QED BY <1>6, <1>8, <1>9, <1>10

\* Whatever an agent does keeps the invariant.
LEMMA AgentKeeps ==
  ASSUME IInv, Watch, NEW t \in Agents,
         StartAccess(t) \/ StartMemGet(t) \/ HookStep(t)
  PROVE  StoreTypes' /\ ThreadTypes' /\ OwedTypes' /\ AgentInv' /\ AdminInv' /\ ReceiptInv'
<1> USE DEF IInv
<1>1. ASSUME AgentStep(t), ReceiptsKept, UNCHANGED <<gotcha, tier, flushed>>
      PROVE  StoreTypes' /\ ThreadTypes' /\ OwedTypes' /\ AgentInv' /\ AdminInv' /\ ReceiptInv'
  <2>1. PICK l \in PCs, o \in OpRec : Goto(t, l, o) /\ AgentFits(t)
    BY <1>1 DEF AgentStep
  <2>2. /\ ThreadTypes' /\ OwedTypes' /\ AgentInv' /\ AdminInv'
        /\ \A d \in Admins : pc'[d] = pc[d] /\ op'[d] = op[d]
    BY <2>1, AgentMoves
  <2>3. StoreTypes' /\ ReceiptInv'
    BY <1>1, <2>2, MintKeeps
  <2> QED BY <2>2, <2>3
<1>2. UNCHANGED store => ReceiptsKept /\ UNCHANGED <<gotcha, tier, flushed>>
  BY DEF store, ReceiptsKept
<1>3. CASE StartAccess(t)
  <2>1. UNCHANGED store
    BY <1>3 DEF StartAccess, store
  <2> QED BY <1>1, <1>2, <1>3, <2>1, StartAccessFits
<1>4. CASE StartMemGet(t)
  <2>1. UNCHANGED store
    BY <1>4 DEF StartMemGet, store
  <2> QED BY <1>1, <1>2, <1>4, <2>1, StartMemGetFits
<1>5. CASE HookRecords(t)
  <2>1. UNCHANGED store
    BY <1>5 DEF HookRecords, store
  <2> QED BY <1>1, <1>2, <1>5, <2>1, HookRecordsFits
<1>15. CASE HookGotcha(t)
  <2>1. UNCHANGED store
    BY <1>15 DEF HookGotcha, store
  <2> QED BY <1>1, <1>2, <1>15, <2>1, HookGotchaFits
<1>6. CASE HookReceipt(t)
  <2>1. UNCHANGED store
    BY <1>6 DEF HookReceipt, store
  <2> QED BY <1>1, <1>2, <1>6, <2>1, HookReceiptFits
<1>7. CASE LookupFails(t)
  <2>1. UNCHANGED store
    BY <1>7 DEF LookupFails, store
  <2> QED BY <1>1, <1>2, <1>7, <2>1, LookupFailsFits
<1>8. CASE Deadline(t)
  <2>1. UNCHANGED store
    BY <1>8 DEF Deadline, store
  <2> QED BY <1>1, <1>2, <1>8, <2>1, DeadlineFits
<1>9. CASE FireEvents(t)
  <2>1. UNCHANGED <<gotcha, tier, flushed>>
    BY <1>9 DEF FireEvents
  <2> QED BY <1>1, <1>9, <2>1, FireEventsFits
<1>10. CASE Verdict(t)
  <2>1. UNCHANGED store
    BY <1>10 DEF Verdict, store
  <2> QED BY <1>1, <1>2, <1>10, <2>1, VerdictFits
<1>11. CASE PostEdit(t)
  <2>1. UNCHANGED <<gotcha, tier, flushed>>
    BY <1>11 DEF PostEdit
  <2> QED BY <1>1, <1>11, <2>1, PostEditFits
<1>12. CASE MemGetRead(t)
  <2>1. UNCHANGED store
    BY <1>12 DEF MemGetRead, store
  <2> QED BY <1>1, <1>2, <1>12, <2>1, MemGetReadFits
<1>13. CASE MemGetMint(t)
  <2>1. UNCHANGED <<gotcha, tier, flushed>>
    BY <1>13 DEF MemGetMint
  <2> QED BY <1>1, <1>13, <2>1, MemGetMintFits
<1>14. CASE PostMemGet(t)
  <2>1. UNCHANGED <<gotcha, tier, flushed>>
    BY <1>14 DEF PostMemGet
  <2> QED BY <1>1, <1>14, <2>1, PostMemGetFits
<1> QED BY <1>3, <1>4, <1>5, <1>6, <1>7, <1>8, <1>9, <1>10, <1>11, <1>12, <1>13, <1>14,
        <1>15 DEF HookStep
-----------------------------------------------------------------------------
(* What changes under the agents.                                          *)

LEMMA RequiredIs ==
  ASSUME NEW f
  PROVE  /\ Required(f) = {h \in Gotchas : gotcha[h] = "confirmed" /\ f \in Affects[h]} \cup {Memory}
         /\ Required(f)' = {h \in Gotchas : gotcha'[h] = "confirmed" /\ f \in Affects[h]} \cup {Memory}
BY DEF Required, InForce

\* The receipts of the scopes and files that are not about to be dropped stay as
\* they are, but for what has been forgotten, and there is no more to cover.
LEMMA ReceiptsStand ==
  ASSUME StoreTypes, ReceiptInv, receipt' \in [Scopes -> [Files -> Receipt]],
         gotcha' \in [Gotchas -> Status], tier' \in [Files -> Tier], flushed' \in BOOLEAN, NEW X,
         \A s \in Scopes, f \in Files :
            /\ receipt'[s][f].held = receipt[s][f].held
            /\ receipt'[s][f].sound = receipt[s][f].sound
            /\ receipt[s][f].covers \ X \subseteq receipt'[s][f].covers,
         \A s \in Scopes, f \in Files :
            \/ Doomed(s, f)'
            \/ ~Doomed(s, f) /\ Needed(s, f)' \subseteq Needed(s, f) \ X
  PROVE  StoreTypes' /\ ReceiptInv'
<1>1. ASSUME NEW s \in Scopes, NEW f \in Files,
             receipt'[s][f].held, receipt'[s][f].sound, ~Doomed(s, f)'
      PROVE  Needed(s, f)' \subseteq receipt'[s][f].covers
  <2>1. Needed(s, f) \subseteq receipt[s][f].covers
    BY <1>1 DEF ReceiptInv
  <2> QED BY <1>1, <2>1
<1> QED BY <1>1 DEF StoreTypes, ReceiptInv

\* An idle admin that starts to drop receipts lets none go that was to be dropped.
LEMMA DoomGrows ==
  ASSUME AdminInv, NEW d \in Admins, pc[d] = "idle",
         \A e \in Admins \ {d} : pc'[e] = pc[e] /\ op'[e] = op[e]
  PROVE  \A s, f : Doomed(s, f) => Doomed(s, f)'
<1>1. op[d].drop = {}
  BY DEF AdminInv, AdminOK
<1> QED BY <1>1 DEF Doomed

LEMMA ConfirmKeeps ==
  ASSUME IInv, Watch, NEW d \in Admins, Confirm(d)
  PROVE  StoreTypes' /\ ThreadTypes' /\ OwedTypes' /\ AgentInv' /\ AdminInv' /\ ReceiptInv'
<1> USE DEF IInv
<1>1. PICK g \in Gotchas : /\ gotcha' = [gotcha EXCEPT ![g] = "confirmed"]
                           /\ Goto(d, "drop", [NoOp EXCEPT !.drop = {Main} \X Affects[g]])
  BY DEF Confirm
<1> DEFINE o == [NoOp EXCEPT !.drop = {Main} \X Affects[g]]
<1>2. o \in OpRec /\ o.drop = {Main} \X Affects[g] /\ AdminOK("drop", o) /\ "drop" \in PCs
  <2>1. Affects[g] \subseteq Files /\ Main \in Scopes
    BY GateAssumption DEF Scopes
  <2>2. {Main} \X Affects[g] \in SUBSET (Scopes \X Files)
        /\ {Main} \X Affects[g] \subseteq {Main} \X Files
    BY <2>1
  <2>3. NoOp \in OpRec
    BY NoOpFacts
  <2>4. o \in OpRec /\ o.drop = {Main} \X Affects[g]
    BY <2>2, <2>3 DEF OpRec
  <2> HIDE DEF o
  <2> QED BY <2>2, <2>4 DEF AdminOK, PCs
<1>3. Goto(d, "drop", o)
  BY <1>1
<1> HIDE DEF o
<1>4. /\ ThreadTypes' /\ OwedTypes' /\ AgentInv' /\ AdminInv'
      /\ pc'[d] = "drop" /\ op'[d] = o
      /\ \A e \in Admins \ {d} : pc'[e] = pc[e] /\ op'[e] = op[e]
  BY <1>2, <1>3, AdminMoves
<1>5. \A s, f : Doomed(s, f) => Doomed(s, f)'
  BY <1>4, DoomGrows DEF Confirm
<1>6. gotcha' \in [Gotchas -> Status]
  BY <1>1 DEF StoreTypes, Status
<1>7. ASSUME NEW s \in Scopes, NEW f \in Files
      PROVE  Doomed(s, f)' \/ (~Doomed(s, f) /\ Needed(s, f)' \subseteq Needed(s, f) \ {})
  <2>1. CASE Doomed(s, f)
    BY <1>5, <2>1
  <2>2. CASE s = Main /\ f \in Affects[g]
    <3>1. <<s, f>> \in op'[d].drop
      BY <1>2, <1>4, <2>2
    <3> QED BY <3>1 DEF Doomed
  <2>3. CASE ~Doomed(s, f) /\ s # Main
    BY <2>3 DEF Needed
  <2>4. CASE ~Doomed(s, f) /\ f \notin Affects[g]
    <3>1. \A h \in Gotchas : f \in Affects[h] => gotcha'[h] = gotcha[h]
      BY <1>1, <2>4 DEF StoreTypes
    <3>2. Required(f)' = Required(f)
      BY <3>1, RequiredIs
    <3> QED BY <2>4, <3>2 DEF Needed
  <2> QED BY <2>1, <2>2, <2>3, <2>4
<1>8. receipt' = receipt /\ tier' = tier /\ flushed' = flushed
  BY DEF Confirm
<1>9. StoreTypes' /\ ReceiptInv'
  <2>1. receipt' \in [Scopes -> [Files -> Receipt]] /\ tier' \in [Files -> Tier]
        /\ flushed' \in BOOLEAN
    BY <1>8 DEF StoreTypes
  <2>2. \A s \in Scopes, f \in Files :
            /\ receipt'[s][f].held = receipt[s][f].held
            /\ receipt'[s][f].sound = receipt[s][f].sound
            /\ receipt[s][f].covers \ {} \subseteq receipt'[s][f].covers
    BY <1>8
  <2> QED BY <1>6, <1>7, <2>1, <2>2, ReceiptsStand
<1> QED BY <1>4, <1>9

LEMMA FinishFacts ==
  ASSUME IInv, Watch, NEW d \in Admins, Finish(d)
  PROVE  /\ ThreadTypes' /\ OwedTypes' /\ AgentInv' /\ AdminInv'
         /\ pc'[d] = "idle" /\ op'[d].drop = {}
         /\ \A e \in Admins \ {d} : pc'[e] = pc[e] /\ op'[e] = op[e]
<1>1. Goto(d, "idle", NoOp) /\ "idle" \in PCs
  BY DEF Finish, PCs
<1> QED BY <1>1, NoOpFacts, AdminMoves DEF IInv

\* One that has dropped some receipts goes on with the rest.
LEMMA PendingFacts ==
  ASSUME IInv, Watch, NEW d \in Admins, pc[d] \in {"drop", "sweep"},
         NEW D, D \subseteq op[d].drop, Pending(d, D)
  PROVE  /\ ThreadTypes' /\ OwedTypes' /\ AgentInv' /\ AdminInv'
         /\ op'[d].drop = D
         /\ \A e \in Admins \ {d} : pc'[e] = pc[e] /\ op'[e] = op[e]
<1>1. CASE D = {}
  <2>1. Finish(d)
    BY <1>1 DEF Pending
  <2> QED BY <1>1, <2>1, FinishFacts
<1>2. CASE D # {}
  <2> DEFINE o == [op[d] EXCEPT !.drop = D]
  <2>1. op[d] \in OpRec /\ AdminOK(pc[d], op[d]) /\ pc[d] \in PCs
    BY DEF IInv, ThreadTypes, Threads, AdminInv
  <2>2. D \in SUBSET (Scopes \X Files)
    BY <2>1 DEF OpRec
  <2>3. o \in OpRec /\ o.drop = D
    BY <2>1, <2>2 DEF OpRec
  <2>4. Goto(d, pc[d], o)
    BY <1>2 DEF Pending
  <2> HIDE DEF o
  <2>5. AdminOK(pc[d], o)
    BY <2>1, <2>3 DEF AdminOK
  <2> QED BY <2>1, <2>3, <2>4, <2>5, AdminMoves DEF IInv
<1> QED BY <1>1, <1>2

LEMMA DropReceiptKeeps ==
  ASSUME IInv, Watch, NEW d \in Admins, DropReceipt(d)
  PROVE  StoreTypes' /\ ThreadTypes' /\ OwedTypes' /\ AgentInv' /\ AdminInv' /\ ReceiptInv'
<1>1. pc[d] = "drop" /\ UNCHANGED <<gotcha, tier, flushed>> /\ StoreTypes /\ ReceiptInv
  BY DEF DropReceipt, IInv
<1>2. CASE op[d].drop = {}
  <2>1. Finish(d) /\ receipt' = receipt
    BY <1>2 DEF DropReceipt
  <2>2. receipt' = Deleted({})
    BY <1>1, <2>1 DEF Deleted, StoreTypes
  <2>3. /\ ThreadTypes' /\ OwedTypes' /\ AgentInv' /\ AdminInv'
        /\ \A e \in Admins \ {d} : pc'[e] = pc[e] /\ op'[e] = op[e]
    BY <2>1, FinishFacts
  <2>4. StoreTypes' /\ ReceiptInv'
    BY <1>1, <1>2, <2>2, <2>3, DropKeeps
  <2> QED BY <2>3, <2>4
<1>3. CASE op[d].drop # {}
  <2>1. PICK k \in op[d].drop : /\ receipt' = Deleted({k}) \/ receipt' = ExcuseAll({k})
                                /\ Pending(d, op[d].drop \ {k})
    BY <1>3 DEF DropReceipt
  <2>2. /\ ThreadTypes' /\ OwedTypes' /\ AgentInv' /\ AdminInv'
        /\ op'[d].drop = op[d].drop \ {k}
        /\ \A e \in Admins \ {d} : pc'[e] = pc[e] /\ op'[e] = op[e]
    BY <1>1, <2>1, PendingFacts
  <2>3. StoreTypes' /\ ReceiptInv'
    BY <1>1, <2>1, <2>2, DropKeeps
  <2> QED BY <2>2, <2>3
<1> QED BY <1>2, <1>3

LEMMA SweepKeeps ==
  ASSUME IInv, Watch, NEW d \in Admins, Sweep(d)
  PROVE  StoreTypes' /\ ThreadTypes' /\ OwedTypes' /\ AgentInv' /\ AdminInv' /\ ReceiptInv'
<1>1. pc[d] = "sweep" /\ UNCHANGED <<gotcha, tier, flushed>> /\ StoreTypes /\ ReceiptInv
  BY DEF Sweep, IInv
<1>2. CASE \E k \in op[d].drop : receipt' = Deleted({k}) /\ Pending(d, op[d].drop \ {k})
  <2>1. PICK k \in op[d].drop : receipt' = Deleted({k}) /\ Pending(d, op[d].drop \ {k})
    BY <1>2
  <2>2. /\ ThreadTypes' /\ OwedTypes' /\ AgentInv' /\ AdminInv'
        /\ op'[d].drop = op[d].drop \ {k}
        /\ \A e \in Admins \ {d} : pc'[e] = pc[e] /\ op'[e] = op[e]
    BY <1>1, <2>1, PendingFacts
  <2>3. StoreTypes' /\ ReceiptInv'
    BY <1>1, <2>1, <2>2, DropKeeps
  <2> QED BY <2>2, <2>3
<1>3. CASE receipt' = ExcuseAll(op[d].drop) /\ Finish(d)
  <2>1. /\ ThreadTypes' /\ OwedTypes' /\ AgentInv' /\ AdminInv'
        /\ \A e \in Admins \ {d} : pc'[e] = pc[e] /\ op'[e] = op[e]
    BY <1>3, FinishFacts
  <2>2. StoreTypes' /\ ReceiptInv'
    BY <1>1, <1>3, <2>1, DropKeeps
  <2> QED BY <2>1, <2>2
<1> QED BY <1>2, <1>3 DEF Sweep

LEMMA ScanKeeps ==
  ASSUME IInv, Watch, NEW d \in Admins, Scan(d)
  PROVE  StoreTypes' /\ ThreadTypes' /\ OwedTypes' /\ AgentInv' /\ AdminInv' /\ ReceiptInv'
<1>1. pc[d] = "scan" /\ UNCHANGED <<gotcha, tier, flushed>> /\ StoreTypes /\ ReceiptInv
  BY DEF Scan, IInv
<1>2. \A s \in Scopes, f \in Files : <<s, f>> \notin Held => ~receipt[s][f].held
  BY DEF Held
<1>3. CASE receipt' = receipt /\ Held = {} /\ Finish(d)
  <2>1. receipt' = Deleted({})
    BY <1>1, <1>3 DEF Deleted, StoreTypes
  <2>2. /\ ThreadTypes' /\ OwedTypes' /\ AgentInv' /\ AdminInv'
        /\ \A e \in Admins \ {d} : pc'[e] = pc[e] /\ op'[e] = op[e]
    BY <1>3, FinishFacts
  <2>3. StoreTypes' /\ ReceiptInv'
    BY <1>1, <1>2, <1>3, <2>1, <2>2, DropKeeps
  <2> QED BY <2>2, <2>3
<1>4. CASE receipt' = receipt /\ Goto(d, "sweep", [NoOp EXCEPT !.drop = Held])
  <2> DEFINE o == [NoOp EXCEPT !.drop = Held]
  <2>1. o \in OpRec /\ o.drop = Held
    <3>1. Held \in SUBSET (Scopes \X Files)
      BY DEF Held
    <3> QED BY <3>1, NoOpFacts DEF OpRec
  <2>2. Goto(d, "sweep", o)
    BY <1>4
  <2> HIDE DEF o
  <2>3. AdminOK("sweep", o) /\ "sweep" \in PCs
    BY DEF AdminOK, PCs
  <2>4. /\ ThreadTypes' /\ OwedTypes' /\ AgentInv' /\ AdminInv'
        /\ op'[d].drop = Held
        /\ \A e \in Admins \ {d} : pc'[e] = pc[e] /\ op'[e] = op[e]
    BY <2>1, <2>2, <2>3, AdminMoves DEF IInv
  <2>5. receipt' = Deleted({})
    BY <1>1, <1>4 DEF Deleted, StoreTypes
  <2>6. \A s \in Scopes, f \in Files :
            ~(receipt[s][f].held /\ receipt[s][f].sound) \/ <<s, f>> \in op'[d].drop
    BY <1>2, <2>4
  <2>7. StoreTypes' /\ ReceiptInv'
    BY <1>1, <2>4, <2>5, <2>6, DropKeeps
  <2> QED BY <2>4, <2>7
<1>5. CASE receipt' = ExcuseAll(Held) /\ Finish(d)
  <2>1. /\ ThreadTypes' /\ OwedTypes' /\ AgentInv' /\ AdminInv'
        /\ \A e \in Admins \ {d} : pc'[e] = pc[e] /\ op'[e] = op[e]
    BY <1>5, FinishFacts
  <2>2. \A s \in Scopes, f \in Files :
            <<s, f>> \in Held \/ ~(receipt[s][f].held /\ receipt[s][f].sound)
    BY <1>2
  <2>3. StoreTypes' /\ ReceiptInv'
    BY <1>1, <1>5, <2>1, <2>2, DropKeeps
  <2> QED BY <2>1, <2>3
<1>6. \/ receipt' = receipt /\ Held = {} /\ Finish(d)
      \/ receipt' = receipt /\ Goto(d, "sweep", [NoOp EXCEPT !.drop = Held])
      \/ receipt' = ExcuseAll(Held) /\ Finish(d)
  BY DEF Scan
<1> QED BY <1>3, <1>4, <1>5, <1>6
\* Nobody has seen x any longer, and no receipt says that somebody has.
LEMMA ForgetFacts ==
  ASSUME StoreTypes, NEW x, Forget(x)
  PROVE  /\ receipt' \in [Scopes -> [Files -> Receipt]]
         /\ \A s \in Scopes, f \in Files :
               /\ receipt'[s][f].held = receipt[s][f].held
               /\ receipt'[s][f].sound = receipt[s][f].sound
               /\ receipt[s][f].covers \ {x} \subseteq receipt'[s][f].covers
<1>1. receipt' = [s \in Scopes |-> [f \in Files |->
                     [receipt[s][f] EXCEPT !.covers = receipt[s][f].covers \ {x}]]]
  BY DEF Forget
<1>2. ASSUME NEW s \in Scopes, NEW f \in Files
      PROVE  /\ receipt'[s][f] = [receipt[s][f] EXCEPT !.covers = receipt[s][f].covers \ {x}]
             /\ receipt'[s][f] \in Receipt
             /\ receipt'[s][f].held = receipt[s][f].held
             /\ receipt'[s][f].sound = receipt[s][f].sound
             /\ receipt'[s][f].covers = receipt[s][f].covers \ {x}
  <2>1. receipt[s][f] \in Receipt
    BY DEF StoreTypes
  <2>2. receipt'[s][f] = [receipt[s][f] EXCEPT !.covers = receipt[s][f].covers \ {x}]
    BY <1>1
  <2> QED BY <2>1, <2>2 DEF Receipt
<1> QED BY <1>1, <1>2

LEMMA ForgettingFacts ==
  ASSUME ThreadTypes, NEW x, op' = Forgetting(x, op)
  PROVE  /\ DOMAIN op' = Threads /\ op' = [u \in Threads |-> op'[u]]
         /\ \A u \in Threads : op'[u] = Without(op[u], x) /\ op'[u].drop = op[u].drop
<1>1. op' = [u \in Threads |-> Without(op[u], x)]
  BY DEF Forgetting, Threads, Without
<1>2. \A u \in Threads : Without(op[u], x).drop = op[u].drop
  BY SameFacts DEF ThreadTypes
<1> QED BY <1>1, <1>2

LEMMA RewriteKeeps ==
  ASSUME IInv, Watch, NEW d \in Admins, Rewrite(d)
  PROVE  StoreTypes' /\ ThreadTypes' /\ OwedTypes' /\ AgentInv' /\ AdminInv' /\ ReceiptInv'
<1>1. StoreTypes /\ ThreadTypes /\ OwedTypes /\ AgentInv /\ AdminInv /\ ReceiptInv
  BY DEF IInv
<1>2. PICK g \in Gotchas, st \in {"draft", "gone"} :
         gotcha' = [gotcha EXCEPT ![g] = st] /\ Forget(g) /\ op' = Forgetting(g, op)
  BY DEF Rewrite
<1>3. pc' = pc /\ tier' = tier /\ flushed' = flushed
  BY DEF Rewrite
<1>4. /\ DOMAIN op' = Threads /\ op' = [u \in Threads |-> op'[u]]
      /\ \A u \in Threads : op'[u] = Without(op[u], g) /\ op'[u].drop = op[u].drop
  BY <1>1, <1>2, ForgettingFacts
<1>5. ThreadTypes' /\ OwedTypes' /\ AgentInv' /\ AdminInv'
  <2>1. \A u \in Threads : Kept(u)
    BY <1>3, <1>4 DEF Kept
  <2>2. pc' \in [Threads -> PCs]
    BY <1>1, <1>3 DEF ThreadTypes
  <2>3. (\A u \in Agents : Kept(u)) /\ (\A e \in Admins : Kept(e))
    BY <2>1 DEF Threads
  <2> QED BY <1>1, <1>4, <2>2, <2>3, ThreadsStay
<1>6. ASSUME NEW s \in Scopes, NEW f \in Files
      PROVE  Doomed(s, f)' \/ (~Doomed(s, f) /\ Needed(s, f)' \subseteq Needed(s, f) \ {g})
  <2>1. Doomed(s, f)' <=> Doomed(s, f)
    BY <1>3, <1>4 DEF Doomed, Threads
  <2>2. \A h \in Gotchas : gotcha'[h] = "confirmed" => h # g /\ gotcha[h] = "confirmed"
    BY <1>1, <1>2 DEF StoreTypes
  <2>3. Memory # g
    BY GateAssumption
  <2>4. Required(f)' \subseteq Required(f) \ {g}
    BY <2>2, <2>3, RequiredIs
  <2> QED BY <2>1, <2>3, <2>4 DEF Needed
<1>7. /\ receipt' \in [Scopes -> [Files -> Receipt]]
      /\ \A s \in Scopes, f \in Files :
            /\ receipt'[s][f].held = receipt[s][f].held
            /\ receipt'[s][f].sound = receipt[s][f].sound
            /\ receipt[s][f].covers \ {g} \subseteq receipt'[s][f].covers
  BY <1>1, <1>2, ForgetFacts
<1>8. gotcha' \in [Gotchas -> Status] /\ tier' \in [Files -> Tier] /\ flushed' \in BOOLEAN
  BY <1>1, <1>2, <1>3 DEF StoreTypes, Status
<1>9. StoreTypes' /\ ReceiptInv'
  BY <1>1, <1>6, <1>7, <1>8, ReceiptsStand
<1> QED BY <1>5, <1>9

\* After a compaction every receipt is to be dropped.
LEMMA CompactKeeps ==
  ASSUME IInv, Watch, NEW d \in Admins, Compact(d)
  PROVE  StoreTypes' /\ ThreadTypes' /\ OwedTypes' /\ AgentInv' /\ AdminInv' /\ ReceiptInv'
<1>1. StoreTypes /\ ThreadTypes /\ OwedTypes /\ AgentInv /\ AdminInv /\ ReceiptInv
  BY DEF IInv
<1>2. /\ Forget(Memory) /\ op' = Forgetting(Memory, op) /\ pc[d] = "idle"
      /\ pc' = [pc EXCEPT ![d] = "scan"] /\ UNCHANGED <<gotcha, tier, flushed>>
  BY DEF Compact
<1>3. /\ DOMAIN op' = Threads /\ op' = [u \in Threads |-> op'[u]]
      /\ \A u \in Threads : op'[u] = Without(op[u], Memory) /\ op'[u].drop = op[u].drop
  BY <1>1, <1>2, ForgettingFacts
<1>4. pc' \in [Threads -> PCs] /\ pc'[d] = "scan" /\ \A u \in Threads \ {d} : pc'[u] = pc[u]
  BY <1>1, <1>2 DEF ThreadTypes, Threads, PCs
<1>5. \A u \in Threads \ {d} : Kept(u)
  BY <1>3, <1>4 DEF Kept
<1>6. op'[d] \in OpRec /\ AdminOK("scan", op'[d])
  <2>1. op[d] \in OpRec /\ op[d].drop = {}
    BY <1>1, <1>2 DEF ThreadTypes, Threads, AdminInv, AdminOK
  <2>2. Without(op[d], Memory) \in OpRec
    BY <2>1, SameFacts
  <2> QED BY <1>3, <2>1, <2>2 DEF AdminOK, Threads
<1>7. ThreadTypes' /\ OwedTypes' /\ AgentInv' /\ AdminInv'
  <2>1. \A u \in Agents : Kept(u)
    BY <1>5, GateAssumption DEF Threads
  <2>2. \A e \in Admins : Kept(e) \/ (op'[e] \in OpRec /\ AdminOK(pc'[e], op'[e]))
    BY <1>4, <1>5, <1>6 DEF Threads
  <2> QED BY <1>1, <1>3, <1>4, <2>1, <2>2, ThreadsStay
<1>8. \A s \in Scopes, f \in Files : Doomed(s, f)'
  BY <1>4 DEF Doomed
<1>9. /\ receipt' \in [Scopes -> [Files -> Receipt]]
      /\ \A s \in Scopes, f \in Files :
            /\ receipt'[s][f].held = receipt[s][f].held
            /\ receipt'[s][f].sound = receipt[s][f].sound
            /\ receipt[s][f].covers \ {Memory} \subseteq receipt'[s][f].covers
  BY <1>1, <1>2, ForgetFacts
<1>10. gotcha' \in [Gotchas -> Status] /\ tier' \in [Files -> Tier] /\ flushed' \in BOOLEAN
  BY <1>1, <1>2 DEF StoreTypes
<1>11. StoreTypes' /\ ReceiptInv'
  BY <1>1, <1>8, <1>9, <1>10, ReceiptsStand
<1> QED BY <1>7, <1>11

\* A promotion asks for no consultation to be covered.
LEMMA HarvestKeeps ==
  ASSUME IInv, Watch, NEW d \in Admins, Harvest(d)
  PROVE  StoreTypes' /\ ThreadTypes' /\ OwedTypes' /\ AgentInv' /\ AdminInv' /\ ReceiptInv'
<1>1. StoreTypes /\ ThreadTypes /\ OwedTypes /\ AgentInv /\ AdminInv /\ ReceiptInv
  BY DEF IInv
<1>2. PICK P \in SUBSET {g \in Gotchas : gotcha[g] = "draft"} :
         gotcha' = [g \in Gotchas |-> IF g \in P THEN "promoted" ELSE gotcha[g]]
  BY DEF Harvest
<1>3. pc[d] = "idle" /\ UNCHANGED <<tier, receipt, flushed>>
      /\ (Goto(d, "scan", NoOp) \/ UNCHANGED <<pc, op>>)
  BY DEF Harvest
<1>4. /\ ThreadTypes' /\ OwedTypes' /\ AgentInv' /\ AdminInv'
      /\ \A e \in Admins \ {d} : pc'[e] = pc[e] /\ op'[e] = op[e]
  <2>1. CASE Goto(d, "scan", NoOp)
    <3>1. "scan" \in PCs
      BY DEF PCs
    <3> QED BY <1>1, <2>1, <3>1, NoOpFacts, AdminMoves
  <2>2. CASE UNCHANGED <<pc, op>>
    BY <1>1, <2>2, NobodyMoves
  <2> QED BY <1>3, <2>1, <2>2
<1>5. \A s, f : Doomed(s, f) => Doomed(s, f)'
  BY <1>1, <1>3, <1>4, DoomGrows
<1>6. \A h \in Gotchas : gotcha'[h] = "confirmed" <=> gotcha[h] = "confirmed"
  BY <1>2
<1>7. ASSUME NEW s \in Scopes, NEW f \in Files
      PROVE  Doomed(s, f)' \/ (~Doomed(s, f) /\ Needed(s, f)' \subseteq Needed(s, f) \ {})
  <2>1. Required(f)' = Required(f)
    BY <1>6, RequiredIs
  <2> QED BY <1>5, <2>1 DEF Needed
<1>8. gotcha' \in [Gotchas -> Status] /\ tier' \in [Files -> Tier] /\ flushed' \in BOOLEAN
      /\ receipt' \in [Scopes -> [Files -> Receipt]]
  BY <1>1, <1>2, <1>3 DEF StoreTypes, Status
<1>9. \A s \in Scopes, f \in Files :
            /\ receipt'[s][f].held = receipt[s][f].held
            /\ receipt'[s][f].sound = receipt[s][f].sound
            /\ receipt[s][f].covers \ {} \subseteq receipt'[s][f].covers
  BY <1>3
<1>10. StoreTypes' /\ ReceiptInv'
  BY <1>1, <1>7, <1>8, <1>9, ReceiptsStand
<1> QED BY <1>4, <1>10

\* Scores, the age of receipts and the session's record are not what a receipt is for.
LEMMA QuietKeeps ==
  ASSUME IInv, Watch, UNCHANGED <<gotcha, pc, op>>,
         receipt' \in [Scopes -> [Files -> Receipt]], tier' \in [Files -> Tier],
         flushed' \in BOOLEAN,
         \A s \in Scopes, f \in Files :
            /\ receipt'[s][f].held = receipt[s][f].held
            /\ receipt'[s][f].sound = receipt[s][f].sound
            /\ receipt'[s][f].covers = receipt[s][f].covers
  PROVE  StoreTypes' /\ ThreadTypes' /\ OwedTypes' /\ AgentInv' /\ AdminInv' /\ ReceiptInv'
<1>1. StoreTypes /\ ThreadTypes /\ OwedTypes /\ AgentInv /\ AdminInv /\ ReceiptInv
  BY DEF IInv
<1>2. ThreadTypes' /\ OwedTypes' /\ AgentInv' /\ AdminInv'
  BY <1>1, NobodyMoves
<1>3. \A s, f : Doomed(s, f)' <=> Doomed(s, f)
  BY DEF Doomed
<1>4. \A s, f : Needed(s, f)' = Needed(s, f)
  BY DEF Needed, Required, InForce
<1>5. gotcha' \in [Gotchas -> Status]
  BY <1>1 DEF StoreTypes
<1>6. \A s \in Scopes, f \in Files :
        Doomed(s, f)' \/ (~Doomed(s, f) /\ Needed(s, f)' \subseteq Needed(s, f) \ {})
  BY <1>3, <1>4
<1>7. \A s \in Scopes, f \in Files :
            /\ receipt'[s][f].held = receipt[s][f].held
            /\ receipt'[s][f].sound = receipt[s][f].sound
            /\ receipt[s][f].covers \ {} \subseteq receipt'[s][f].covers
  OBVIOUS
<1>8. StoreTypes' /\ ReceiptInv'
  BY <1>1, <1>5, <1>6, <1>7, ReceiptsStand
<1> QED BY <1>2, <1>8

LEMMA FlushKeeps ==
  ASSUME IInv, Watch, NEW d \in Admins, Flush(d)
  PROVE  StoreTypes' /\ ThreadTypes' /\ OwedTypes' /\ AgentInv' /\ AdminInv' /\ ReceiptInv'
<1>1. UNCHANGED <<gotcha, pc, op>> /\ receipt' = receipt /\ tier' = tier /\ flushed' = TRUE
  BY DEF Flush
<1>2. receipt' \in [Scopes -> [Files -> Receipt]] /\ tier' \in [Files -> Tier] /\ flushed' \in BOOLEAN
  BY <1>1 DEF IInv, StoreTypes
<1> QED BY <1>1, <1>2, QuietKeeps

LEMMA RescoreKeeps ==
  ASSUME IInv, Watch, Rescore
  PROVE  StoreTypes' /\ ThreadTypes' /\ OwedTypes' /\ AgentInv' /\ AdminInv' /\ ReceiptInv'
<1>1. UNCHANGED <<gotcha, pc, op>> /\ receipt' = receipt /\ flushed' = flushed
  BY DEF Rescore
<1>2. tier' \in [Files -> Tier]
  <2>1. PICK f \in Files, l \in Levels : tier' = [tier EXCEPT ![f] = l]
    BY DEF Rescore
  <2>2. l \in Tier
    BY GateAssumption DEF Tier
  <2> QED BY <2>1, <2>2 DEF IInv, StoreTypes
<1>3. receipt' \in [Scopes -> [Files -> Receipt]] /\ flushed' \in BOOLEAN
  BY <1>1 DEF IInv, StoreTypes
<1> QED BY <1>1, <1>2, <1>3, QuietKeeps

LEMMA ExpireKeeps ==
  ASSUME IInv, Watch, Expire
  PROVE  StoreTypes' /\ ThreadTypes' /\ OwedTypes' /\ AgentInv' /\ AdminInv' /\ ReceiptInv'
<1>1. UNCHANGED <<gotcha, pc, op>> /\ tier' = tier /\ flushed' = flushed
  BY DEF Expire
<1>2. PICK k \in Held : receipt' = [receipt EXCEPT ![k[1]][k[2]].recent = FALSE]
  BY DEF Expire
<1>3. k[1] \in Scopes /\ k[2] \in Files /\ StoreTypes
  BY DEF Held, IInv
<1> DEFINE r == receipt[k[1]][k[2]]
           m == [r EXCEPT !.recent = FALSE]
<1>4. r \in Receipt
  BY <1>3 DEF StoreTypes
<1>5. m \in Receipt /\ m.held = r.held /\ m.sound = r.sound /\ m.covers = r.covers
  BY <1>4 DEF Receipt
<1>6. receipt' = [receipt EXCEPT ![k[1]] = [receipt[k[1]] EXCEPT ![k[2]] = m]]
  BY <1>2, <1>3, <1>4 DEF StoreTypes
<1> HIDE DEF m
<1>7. receipt' \in [Scopes -> [Files -> Receipt]]
  BY <1>3, <1>5, <1>6 DEF StoreTypes
<1>8. \A s \in Scopes, f \in Files :
         receipt'[s][f] = IF s = k[1] /\ f = k[2] THEN m ELSE receipt[s][f]
  BY <1>3, <1>6 DEF StoreTypes
<1>9. \A s \in Scopes, f \in Files :
            /\ receipt'[s][f].held = receipt[s][f].held
            /\ receipt'[s][f].sound = receipt[s][f].sound
            /\ receipt'[s][f].covers = receipt[s][f].covers
  BY <1>5, <1>8
<1>10. tier' \in [Files -> Tier] /\ flushed' \in BOOLEAN
  BY <1>1, <1>3 DEF StoreTypes
<1> QED BY <1>1, <1>7, <1>9, <1>10, QuietKeeps

\* No receipt outlives the daemon and counts for anything.
LEMMA RestartKeeps ==
  ASSUME IInv, Watch, Restart
  PROVE  StoreTypes' /\ ThreadTypes' /\ OwedTypes' /\ AgentInv' /\ AdminInv' /\ ReceiptInv'
<1>1. StoreTypes /\ ThreadTypes /\ OwedTypes /\ AgentInv /\ AdminInv /\ ReceiptInv
  BY DEF IInv
<1>2. PICK kept \in SUBSET Held :
         receipt' = [s \in Scopes |-> [f \in Files |->
            IF <<s, f>> \in kept THEN Excused(receipt[s][f]) ELSE NoReceipt]]
  BY DEF Restart, BootClear
<1>3. ASSUME NEW s \in Scopes, NEW f \in Files
      PROVE  /\ receipt'[s][f] \in Receipt
             /\ ~(receipt'[s][f].held /\ receipt'[s][f].sound)
  <2>1. NoReceipt \in Receipt /\ NoReceipt.held = FALSE
    BY DEF NoReceipt, Receipt
  <2>2. receipt[s][f] \in Receipt
    BY <1>1 DEF StoreTypes
  <2>3. Excused(receipt[s][f]) \in Receipt /\ Excused(receipt[s][f]).sound = FALSE
    BY <2>2 DEF Excused, Receipt
  <2> QED BY <1>2, <2>1, <2>3
<1>4. receipt' \in [Scopes -> [Files -> Receipt]]
  BY <1>2, <1>3
<1>5. StoreTypes' /\ ReceiptInv'
  BY <1>1, <1>3, <1>4 DEF Restart, StoreTypes, ReceiptInv
<1>6. \A d \in Admins : pc'[d] = "idle" /\ op'[d] = NoOp
  BY DEF Restart
<1>7. \A d \in Admins : op'[d] \in OpRec /\ AdminOK(pc'[d], op'[d])
  BY <1>6, NoOpFacts
<1>8. \A t \in Agents :
         /\ pc'[t] = IF pc[t] \in {"links", "check"} THEN UnansweredPC(op[t])
                     ELSE IF pc[t] = "mint" THEN "get" ELSE pc[t]
         /\ op'[t] = IF pc[t] \in {"links", "check"} THEN Unanswered(op[t]) ELSE op[t]
  BY GateAssumption DEF Restart
<1>9. ASSUME NEW t \in Agents
      PROVE  (Kept(t) \/ (op'[t] \in OpRec /\ AgentFits(t))) /\ pc'[t] \in PCs
  <2>1. op[t] \in OpRec /\ CallOK(pc[t], op[t]) /\ HookOK(pc[t], op[t], owed[t]) /\ pc[t] \in PCs
    BY <1>1 DEF ThreadTypes, Threads, AgentInv
  <2>2. CASE pc[t] \in {"links", "check"}
    <3> DEFINE o == op[t]
    <3>1. o.v # "none" /\ o.files # <<>> /\ o.queue # <<>> /\ o \in OpRec
      BY <2>1, <2>2 DEF CallOK, HookOK
    <3>2. pc'[t] = UnansweredPC(o) /\ op'[t] = Unanswered(o)
      BY <1>8, <2>2
    <3> HIDE DEF o
    <3>3. /\ Unanswered(o) \in OpRec /\ UnansweredPC(o) \in {"eval", "fire", "verdict"}
          /\ CallOK(UnansweredPC(o), Unanswered(o))
          /\ HookOK(UnansweredPC(o), Unanswered(o), owed'[t])
      BY <3>1, UnansweredOK
    <3>4. Hooking(t)
      BY <2>2 DEF Hooking
    <3> QED BY <3>2, <3>3, <3>4 DEF AgentFits, PCs
  <2>3. CASE pc[t] = "mint"
    <3>1. pc'[t] = "get" /\ op'[t] = op[t]
      BY <1>8, <2>3
    <3>2. CallOK("get", op[t])
      BY <2>1, <2>3 DEF CallOK
    <3>3. ~Hooking(t)'
      BY <3>1 DEF Hooking
    <3> QED BY <2>1, <3>1, <3>2, <3>3 DEF AgentFits, PCs
  <2>4. CASE pc[t] \notin {"links", "check", "mint"}
    BY <1>8, <2>1, <2>4 DEF Kept
  <2> QED BY <2>2, <2>3, <2>4
<1>10. pc' \in [Threads -> PCs] /\ DOMAIN op' = Threads /\ op' = [u \in Threads |-> op'[u]]
  <2>1. \A u \in Threads : pc'[u] \in PCs
    BY <1>6, <1>9 DEF Threads, PCs
  <2>2. DOMAIN op' = Threads /\ op' = [u \in Threads |-> op'[u]]
    BY DEF Restart, Threads
  <2>3. DOMAIN pc' = Threads /\ pc' = [u \in Threads |-> pc'[u]]
    BY DEF Restart, Threads
  <2> QED BY <2>1, <2>2, <2>3
<1>11. ThreadTypes' /\ OwedTypes' /\ AgentInv' /\ AdminInv'
  BY <1>1, <1>7, <1>9, <1>10, ThreadsStay
<1> QED BY <1>5, <1>11
-----------------------------------------------------------------------------
(* The bounds of the model.                                                *)

BoundsMove ==
    /\ calls' = calls \/ (calls < MaxCalls /\ calls' = calls + 1)
    /\ changes' = changes \/ (changes < MaxChanges /\ changes' = changes + 1)
    /\ faults' = faults \/ (faults < MaxFaults /\ faults' = faults + 1)

LEMMA BoundsStay ==
  ASSUME BoundTypes, Step
  PROVE  BoundTypes'
<1>1. ASSUME NEW t \in Agents, StartAccess(t) \/ StartMemGet(t) PROVE BoundsMove
  BY <1>1 DEF StartAccess, StartMemGet, BoundsMove
<1>2. ASSUME NEW t \in Agents, HookStep(t) PROVE BoundsMove
  <2>1. CASE HookRecords(t)
    BY <2>1 DEF HookRecords, BoundsMove, NoFault, CanFault
  <2>0. CASE HookGotcha(t)
    BY <2>0 DEF HookGotcha, BoundsMove, NoFault, CanFault
  <2>2. CASE HookReceipt(t)
    <3>1. UNCHANGED <<calls, changes>> /\ (NoFault \/ CanFault)
      BY <2>2 DEF HookReceipt
    <3> QED BY <3>1 DEF BoundsMove, NoFault, CanFault
  <2>3. CASE LookupFails(t)
    BY <2>3 DEF LookupFails, BoundsMove, CanFault
  <2>4. CASE Deadline(t)
    BY <2>4 DEF Deadline, BoundsMove, CanFault
  <2>5. CASE FireEvents(t)
    BY <2>5 DEF FireEvents, TryMint, BoundsMove, NoFault, CanFault
  <2>6. CASE Verdict(t)
    BY <2>6 DEF Verdict, BoundsMove, bounds
  <2>7. CASE PostEdit(t)
    BY <2>7 DEF PostEdit, TryMint, BoundsMove, NoFault, CanFault
  <2>8. CASE MemGetRead(t)
    BY <2>8 DEF MemGetRead, BoundsMove, NoFault, CanFault
  <2>9. CASE MemGetMint(t)
    BY <2>9 DEF MemGetMint, TryMint, BoundsMove, NoFault, CanFault
  <2>10. CASE PostMemGet(t)
    BY <2>10 DEF PostMemGet, TryMint, BoundsMove, NoFault, CanFault
  <2> QED BY <1>2, <2>0, <2>1, <2>2, <2>3, <2>4, <2>5, <2>6, <2>7, <2>8, <2>9, <2>10 DEF HookStep
<1>3. ASSUME NEW d \in Admins, AdminCall(d) PROVE BoundsMove
  <2>1. UNCHANGED calls /\ (changes < MaxChanges /\ changes' = changes + 1)
    BY <1>3 DEF AdminCall, Confirm, Rewrite, Compact, Harvest, Flush, Change
  <2>2. NoFault \/ CanFault
    BY <1>3 DEF AdminCall, Confirm, Rewrite, Compact, Harvest, Flush
  <2> QED BY <2>1, <2>2 DEF BoundsMove, NoFault, CanFault
<1>4. ASSUME NEW d \in Admins, AdminStep(d) PROVE BoundsMove
  <2>1. UNCHANGED <<calls, changes>>
    BY <1>4 DEF AdminStep, DropReceipt, Scan, Sweep
  <2>2. NoFault \/ CanFault
    BY <1>4 DEF AdminStep, DropReceipt, Scan, Sweep
  <2> QED BY <2>1, <2>2 DEF BoundsMove, NoFault, CanFault
<1>5. ASSUME Expire \/ Rescore PROVE BoundsMove
  BY <1>5 DEF Expire, Rescore, Change, NoFault, BoundsMove
<1>6. ASSUME Restart PROVE BoundsMove
  BY <1>6 DEF Restart, BootClear, CanFault, BoundsMove
<1>7. BoundsMove
  BY <1>1, <1>2, <1>3, <1>4, <1>5, <1>6 DEF Step
<1> QED BY <1>7, BoundAssumption DEF BoundsMove, BoundTypes

-----------------------------------------------------------------------------
(* The theorems.                                                           *)

LEMMA Initially == Init => IInv
<1> SUFFICES ASSUME Init PROVE IInv
  OBVIOUS
<1>1. StoreTypes
  <2>1. NoReceipt \in Receipt
    BY DEF NoReceipt, Receipt
  <2> QED BY <2>1 DEF Init, StoreTypes, Status, Tier
<1>2. ThreadTypes
  BY NoOpFacts DEF Init, ThreadTypes, Threads, PCs
<1>3. OwedTypes /\ BoundTypes
  BY BoundAssumption DEF Init, OwedTypes, BoundTypes
<1>4. AgentInv
  <2>1. \A t \in Agents : pc[t] = "idle" /\ op[t] = NoOp
    BY DEF Init
  <2>2. \A t \in Agents : HookOK("idle", NoOp, owed[t])
    BY DEF HookOK
  <2> QED BY <2>1, <2>2, NoOpFacts DEF AgentInv
<1>5. AdminInv
  <2>1. \A d \in Admins : pc[d] = "idle" /\ op[d] = NoOp
    BY DEF Init
  <2> QED BY <2>1, NoOpFacts DEF AdminInv
<1>6. ReceiptInv
  <2>1. \A s \in Scopes, f \in Files : ~receipt[s][f].held
    BY DEF Init, NoReceipt
  <2> QED BY <2>1 DEF ReceiptInv
<1> QED BY <1>1, <1>2, <1>3, <1>4, <1>5, <1>6 DEF IInv

LEMMA Inductive == IInv /\ [Next]_vars => IInv'
<1> SUFFICES ASSUME IInv, [Next]_vars PROVE IInv'
  OBVIOUS
<1>1. CASE UNCHANGED vars
  <2>1. UNCHANGED <<gotcha, tier, receipt, flushed, pc, op, owed, calls, changes, faults>>
    BY <1>1 DEF vars, store, bounds
  <2>2. StoreTypes' /\ ThreadTypes' /\ OwedTypes' /\ BoundTypes'
    BY <2>1 DEF IInv, StoreTypes, ThreadTypes, OwedTypes, BoundTypes
  <2>3. AgentInv' /\ AdminInv'
    BY <2>1 DEF IInv, AgentInv, AdminInv
  <2>4. (\A s, f : Doomed(s, f)' <=> Doomed(s, f)) /\ (\A s, f : Needed(s, f)' = Needed(s, f))
    BY <2>1 DEF Doomed, Needed, Required, InForce
  <2>5. ReceiptInv'
    BY <2>1, <2>4 DEF IInv, ReceiptInv
  <2> QED BY <2>2, <2>3, <2>5 DEF IInv
<1>2. CASE Next
  <2>1. Step /\ Watch
    BY <1>2 DEF Next
  <2>2. BoundTypes'
    BY <2>1, BoundsStay DEF IInv
  <2>3. StoreTypes' /\ ThreadTypes' /\ OwedTypes' /\ AgentInv' /\ AdminInv' /\ ReceiptInv'
    <3>1. CASE \E t \in Agents : StartAccess(t) \/ StartMemGet(t) \/ HookStep(t)
      BY <2>1, <3>1, AgentKeeps
    <3>2. CASE \E d \in Admins : AdminCall(d)
      BY <2>1, <3>2, ConfirmKeeps, RewriteKeeps, CompactKeeps, HarvestKeeps, FlushKeeps
         DEF AdminCall
    <3>3. CASE \E d \in Admins : AdminStep(d)
      BY <2>1, <3>3, DropReceiptKeeps, ScanKeeps, SweepKeeps DEF AdminStep
    <3>4. CASE Expire
      BY <2>1, <3>4, ExpireKeeps
    <3>5. CASE Rescore
      BY <2>1, <3>5, RescoreKeeps
    <3>6. CASE Restart
      BY <2>1, <3>6, RestartKeeps
    <3> QED BY <2>1, <3>1, <3>2, <3>3, <3>4, <3>5, <3>6 DEF Step
  <2> QED BY <2>2, <2>3 DEF IInv
<1> QED BY <1>1, <1>2

LEMMA Invariance == Spec => []IInv
BY Initially, Inductive, PTL DEF Spec

\* What the threads and the daemon keep stays what it is meant to be: the receipts
\* per scope and file, and the call, the keys still to evaluate and the receipts
\* still to drop of every thread.
THEOREM TypeCorrect == Spec => []TypeOK
<1>1. IInv => TypeOK
  <2> SUFFICES ASSUME IInv PROVE TypeOK
    OBVIOUS
  <2>1. \A t \in Agents \cup Admins : OpTypeOK(op[t])
    BY DEF IInv, ThreadTypes, Threads, OpRec, OpTypeOK, Contents
  <2> QED BY <2>1 DEF IInv, TypeOK, StoreTypes, ThreadTypes, OwedTypes, BoundTypes, Threads
<1> QED BY <1>1, Invariance, PTL

\* The hook allows no access to a file for which a consultation was wanted from its
\* start to its verdict, by whatever path the call names the file and whoever
\* changes gotchas, scores and receipts meanwhile, unless it failed open
\* (hook_decide.rs, hook_evaluate and decide::evaluate).
THEOREM GateCorrect == Spec => []GateHolds
<1>1. IInv => GateHolds
  BY DEF IInv, AgentInv, HookOK, Out, GateHolds
<1> QED BY <1>1, Invariance, PTL

\* Once no sweep and no confirmation is about to drop it, a receipt that stood for
\* all there was to know when it was minted still does: whatever receipts are
\* minted between the listing of a sweep and its deletes, after restarts of the
\* daemon between any two of them, and in the scope of every subagent
\* (delete_all_receipts, handle_gotcha_confirm, the boot of run_daemon_start).
THEOREM ReceiptsCorrect == Spec => []ReceiptsStaySound
<1>1. IInv => ReceiptsStaySound
  <2> SUFFICES ASSUME IInv, NEW s \in Scopes, NEW f \in Files,
                      receipt[s][f].held, Settled(f), receipt[s][f].sound
               PROVE  Needed(s, f) \subseteq receipt[s][f].covers
    BY DEF ReceiptsStaySound, Needed
  <2>1. ~Doomed(s, f)
    <3>1. ASSUME NEW d \in Admins PROVE pc[d] # "scan" /\ <<s, f>> \notin op[d].drop
      <4>1. AdminOK(pc[d], op[d]) /\ pc[d] \notin {"scan", "sweep"} /\ <<Main, f>> \notin op[d].drop
        BY DEF IInv, AdminInv, Settled
      <4> QED BY <4>1 DEF AdminOK
    <3> QED BY <3>1 DEF Doomed
  <2> QED BY <2>1 DEF IInv, ReceiptInv
<1> QED BY <1>1, Invariance, PTL
=============================================================================

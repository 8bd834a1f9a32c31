------------------------ MODULE DaemonLifecycleProofs ------------------------
(***************************************************************************)
(* Proofs about DaemonLifecycle, for any processes, callers and faults.    *)
(***************************************************************************)
EXTENDS DaemonLifecycle, TLAPS

\* Between the opening of the store and its end a daemon holds the lock.
Owning == {"bind", "publish", "unmark"} \cup Running
OwnInv == \A p \in Procs : phase[p] \in Owning => lock = p

\* A socket was bound by a process that listens on it until it dies.
SockInv == sock # None => Listening(sock) \/ phase[sock] = "dead"

\* `mati daemon stop` knows whom it signals and waits for.
StopInv == stop.at \in {"signal", "wait"} => stop.pid # None

\* The steps of an attempt before its command is sent, and after.
Before == {"connect", "stat", "read", "orphan", "corrupt", "stale", "send"}
Sent   == {"await", "ok", "mismatch"}

CallRec == [at : CallParts, try : 0..3, sub : Subs,
            res : Gone \cup {"Unresponsive", "Ok", "Mismatch"},
            again : BOOLEAN, conn : Procs \cup {None},
            failed : BOOLEAN, victim : Procs \cup {None}]

\* A call k executed n times: only the command itself is sent, the third attempt
\* follows a second one that never got as far, and a daemon to kill is known.
CallOK(k, n) ==
    /\ k.sub \in Sent \cup {"send"} => k.at \in {"call", "last"}
    /\ k.sub = "send" => k.conn # None
    /\ k.at \notin Sends => k.sub = "connect"
    /\ k.at = "killWait" => k.victim # None
    /\ k.at = "call" => k.try \in {1, 2}
    /\ k.at = "last" => k.try = 3
    /\ k.at \in {"idle", "done"} => k.try = 0
    /\ k.at \notin {"idle", "call", "last", "done"} => k.try = 2 /\ k.res \in Gone
    /\ k.res = "Ok" \/ k.sub = "ok" => n >= 1
CallInv == \A c \in Clients : CallOK(cl[c], execs[c])

\* An attempt is accepted once, and not before it is sent.
JobInv ==
    /\ \A i, j \in jobs : i.c = j.c /\ i.try = j.try => i = j
    /\ \A j \in jobs : cl[j.c].at # "done" =>
          /\ j.try <= cl[j.c].try
          /\ cl[j.c].sub \in Before => j.try < cl[j.c].try

\* The attempts of c that run or may still run, and those it may still send.
Out(c, n)  == IF \E j \in jobs : j.c = c /\ j.try = n THEN 1 ELSE 0
Pending(c) == Out(c, 1) + Out(c, 2) + Out(c, 3)
First(k)   == k.at = "call" /\ k.try = 1
Left(k)    == IF k.at = "idle" \/ (First(k) /\ k.sub \in Before) THEN 2
              ELSE IF k.at = "done" \/ (k.sub \in Sent /\ ~First(k)) THEN 0
              ELSE 1
BudgetInv  == \A c \in Clients : execs[c] + Pending(c) + Left(cl[c]) <= 2

IInv == /\ TypeOK /\ OwnInv /\ SockInv /\ StopInv
        /\ CallInv /\ JobInv /\ BudgetInv
-----------------------------------------------------------------------------
(* The lock and the socket.                                                *)

\* What the steps of a daemon may do to it without taking the lock or binding.
Calm(q) ==
    \/ phase'[q] = phase[q] \/ phase'[q] = "dead"
    \/ phase[q] \notin Owning \cup {"dead"} /\ phase'[q] \notin Owning
    \/ phase[q] \in Owning \ {"bind"} /\ phase'[q] \in {"unmark"} \cup Running
Released ==
    \/ lock' = lock
    \/ lock = Cli /\ lock' = None
    \/ lock = None /\ lock' = Cli
    \/ lock \in Procs /\ phase'[lock] = "dead" /\ lock' = None

LEMMA CalmOwn ==
  ASSUME TypeOK, OwnInv, SockInv, \A q \in Procs : Calm(q), Released, sock' \in {sock, None}
  PROVE  OwnInv' /\ SockInv'
<1> USE LifecycleAssumption
<1>1. OwnInv'
  <2> SUFFICES ASSUME NEW q \in Procs, phase'[q] \in Owning PROVE lock' = q
    BY DEF OwnInv
  <2>1. phase[q] \in Owning
    BY DEF Calm, Owning, Running
  <2>2. lock = q
    BY <2>1 DEF OwnInv
  <2> QED BY <2>2 DEF Released, Owning, Running
<1>2. SockInv'
  <2> SUFFICES ASSUME sock' # None PROVE Listening(sock)' \/ phase'[sock] = "dead"
    BY DEF SockInv
  <2>1. sock' = sock /\ sock \in Procs /\ Calm(sock)
    BY DEF TypeOK
  <2>2. Listening(sock) \/ phase[sock] = "dead"
    BY <2>1 DEF SockInv
  <2> QED BY <2>1, <2>2 DEF Calm, Listening, Owning, Running
<1> QED BY <1>1, <1>2

\* The death of a process, by whatever hand.
LEMMA ExitFacts ==
  ASSUME TypeOK, NEW p \in Procs, Exit(p)
  PROVE  /\ phase' \in [Procs -> Phases] /\ lock' \in Procs \cup {None, Cli}
         /\ jobs' \subseteq jobs
         /\ (\A q \in Procs : Calm(q)) /\ Released
BY DEF TypeOK, Exit, Become, Phases, Calm, Released

LEMMA SigtermFacts ==
  ASSUME TypeOK, NEW p \in Procs, Sigterm(p)
  PROVE  /\ phase' \in [Procs -> Phases] /\ lock' \in Procs \cup {None, Cli}
         /\ jobs' \subseteq jobs
         /\ (\A q \in Procs : Calm(q)) /\ Released
<1>1. CASE phase[p] = "ready" /\ Become(p, "drain") /\ UNCHANGED <<lock, jobs>>
  BY <1>1 DEF TypeOK, Become, Phases, Running, Owning, Calm, Released
<1>2. CASE Exit(p)
  BY <1>2, ExitFacts
<1>3. CASE UNCHANGED <<phase, lock, jobs>>
  BY <1>3 DEF TypeOK, Calm, Released
<1> QED BY <1>1, <1>2, <1>3 DEF Sigterm

\* A daemon moves on.
LEMMA BecomeFacts ==
  ASSUME TypeOK, NEW p \in Procs, NEW ph \in Phases, Become(p, ph)
  PROVE  /\ phase' \in [Procs -> Phases] /\ phase'[p] = ph
         /\ \A q \in Procs \ {p} : phase'[q] = phase[q]
BY DEF TypeOK, Become

LEMMA UnbornFact ==
  ASSUME \E p \in Procs : phase[p] = "unborn"
  PROVE  NextUnborn \in Procs /\ phase[NextUnborn] = "unborn"
BY DEF NextUnborn

\* The state of the processes, the files and `mati daemon stop`.
SysOK ==
    /\ phase \in [Procs -> Phases]
    /\ lock \in Procs \cup {None, Cli}
    /\ {sock, meta, starting} \subseteq Procs \cup {None}
    /\ stop \in [at : StopParts, force : BOOLEAN, pid : Procs \cup {None},
                 pre : Procs \cup {None}]
    /\ faults \in 0..MaxFaults
    /\ OwnInv /\ SockInv /\ StopInv

LEMMA CalmSystem ==
  ASSUME IInv, phase' \in [Procs -> Phases], lock' \in Procs \cup {None, Cli},
         \A q \in Procs : Calm(q), Released, sock' \in {sock, None},
         meta' \in Procs \cup {None}, starting' \in Procs \cup {None},
         faults' \in 0..MaxFaults, stop' = stop
  PROVE  SysOK'
<1>1. OwnInv' /\ SockInv'
  BY CalmOwn DEF IInv
<1>2. StopInv'
  BY DEF IInv, StopInv
<1> QED BY <1>1, <1>2 DEF IInv, TypeOK, SysOK

LEMMA SystemStep == IInv /\ [Next]_vars => SysOK'
<1> SUFFICES ASSUME IInv, [Next]_vars PROVE SysOK'
  OBVIOUS
<1> USE LifecycleAssumption
<1>0. /\ TypeOK /\ OwnInv /\ SockInv /\ StopInv
      /\ phase \in [Procs -> Phases] /\ lock \in Procs \cup {None, Cli}
      /\ sock \in Procs \cup {None} /\ meta \in Procs \cup {None}
      /\ starting \in Procs \cup {None} /\ faults \in 0..MaxFaults
      /\ stop \in [at : StopParts, force : BOOLEAN, pid : Procs \cup {None},
                   pre : Procs \cup {None}]
  BY DEF IInv, TypeOK
<1>f. faults > 0 /\ faults' = faults - 1 => faults' \in 0..MaxFaults
  BY <1>0
\* A daemon moves on and touches neither the lock nor the listener.
<1>b. ASSUME NEW p \in Procs, NEW ph \in Phases, Become(p, ph), lock' = lock,
             \/ ph = "dead"
             \/ phase[p] \notin Owning \cup {"dead"} /\ ph \notin Owning
             \/ phase[p] \in Owning \ {"bind"} /\ ph \in {"unmark"} \cup Running,
             sock' \in {sock, None}, meta' \in Procs \cup {None},
             starting' \in Procs \cup {None}, faults' \in 0..MaxFaults, stop' = stop
      PROVE  SysOK'
  <2>1. \A q \in Procs : Calm(q)
    BY <1>b, <1>0, BecomeFacts DEF Calm
  <2> QED BY <1>b, <1>0, <2>1, BecomeFacts, CalmSystem DEF Released
<1>e. ASSUME NEW p \in Procs, Exit(p),
             sock' \in {sock, None}, meta' \in Procs \cup {None},
             starting' \in Procs \cup {None}, faults' \in 0..MaxFaults, stop' = stop
      PROVE  SysOK'
  BY <1>e, <1>0, ExitFacts, CalmSystem
<1>n. ASSUME phase' = phase, lock' = lock, sock' \in {sock, None}, meta' \in Procs \cup {None},
             starting' \in Procs \cup {None}, faults' \in 0..MaxFaults, stop' = stop
      PROVE  SysOK'
  BY <1>n, <1>0, CalmSystem DEF Calm, Released
<1>1. ASSUME NEW p \in Procs, Start(p) \/ StartStat(p) \/ StartRead(p) PROVE SysOK'
  <2>1. CASE Start(p)
    BY <1>0, <1>b, <2>1 DEF Start, files, Phases, Startup, Owning, Running
  <2>2. CASE StartStat(p)
    <3>1. PICK ph \in {"read", "orphan", "peer"} : Become(p, ph)
      BY <2>2 DEF StartStat, StatFiles
    <3> QED BY <1>0, <1>b, <2>2, <3>1 DEF StartStat, files, Phases, Startup, Owning, Running
  <2>3. CASE StartRead(p)
    <3>1. PICK ph \in {"dead", "corrupt", "stale"} : Become(p, ph)
      BY <2>3 DEF StartRead, ReadMetadata
    <3> QED BY <1>0, <1>b, <2>3, <3>1 DEF StartRead, files, Phases, Startup, Owning, Running
  <2> QED BY <1>1, <2>1, <2>2, <2>3
<1>2. ASSUME NEW p \in Procs, StartClean(p) \/ StartPeer(p) \/ StartMark(p) PROVE SysOK'
  <2>1. CASE StartClean(p)
    <3>1. sock' \in {sock, None} /\ meta' \in Procs \cup {None} /\ starting' \in Procs \cup {None}
      BY <1>0, <2>1 DEF StartClean, RemoveStale
    <3> QED BY <1>0, <1>b, <2>1, <3>1 DEF StartClean, Phases, Startup, Owning, Running
  <2>2. CASE StartPeer(p)
    <3>1. PICK ph \in {"dead", "mark"} : Become(p, ph)
      BY <2>2 DEF StartPeer
    <3>2. starting' \in Procs \cup {None}
      BY <1>0, <2>2 DEF StartPeer
    <3> QED BY <1>0, <1>b, <2>2, <3>1, <3>2 DEF StartPeer, Phases, Startup, Owning, Running
  <2>3. CASE StartMark(p)
    BY <1>0, <1>b, <2>3 DEF StartMark, Phases, Startup, Owning, Running
  <2> QED BY <1>2, <2>1, <2>2, <2>3
<1>3. ASSUME NEW p \in Procs, FailStart(p), faults' \in 0..MaxFaults PROVE SysOK'
  BY <1>0, <1>3, <1>e DEF FailStart
<1>4. ASSUME NEW p \in Procs, StartOpen(p), ~FailStart(p) PROVE SysOK'
  <2>1. /\ phase[p] = "open" /\ lock = None /\ lock' = p /\ Become(p, "bind")
        /\ UNCHANGED <<files, stop, faults>>
    BY <1>4 DEF StartOpen
  <2>2. phase' \in [Procs -> Phases] /\ phase'[p] = "bind"
        /\ \A q \in Procs \ {p} : phase'[q] = phase[q]
    BY <1>0, <2>1, BecomeFacts DEF Phases, Startup
  <2>3. OwnInv'
    BY <1>0, <2>1, <2>2 DEF OwnInv
  <2>4. SockInv'
    <3>1. sock' = sock
      BY <2>1 DEF files
    <3> QED BY <1>0, <2>1, <2>2, <3>1 DEF SockInv, Listening, Running
  <2> QED BY <1>0, <2>1, <2>2, <2>3, <2>4 DEF SysOK, files, StopInv
<1>5. ASSUME NEW p \in Procs, StartBind(p), ~FailStart(p) PROVE SysOK'
  <2>1. /\ phase[p] = "bind" /\ sock' = p /\ Become(p, "publish")
        /\ UNCHANGED <<lock, meta, starting, stop, faults>>
    BY <1>5 DEF StartBind
  <2>2. phase' \in [Procs -> Phases] /\ phase'[p] = "publish"
        /\ \A q \in Procs \ {p} : phase'[q] = phase[q]
    BY <1>0, <2>1, BecomeFacts DEF Phases, Startup
  <2>3. OwnInv'
    BY <1>0, <2>1, <2>2 DEF OwnInv, Owning
  <2>4. SockInv'
    BY <2>1, <2>2 DEF SockInv, Listening
  <2> QED BY <1>0, <2>1, <2>2, <2>3, <2>4 DEF SysOK, StopInv
<1>6. ASSUME NEW p \in Procs, StartPublish(p) \/ StartReady(p) PROVE SysOK'
  <2>1. CASE StartPublish(p)
    BY <1>0, <1>b, <2>1 DEF StartPublish, Phases, Startup, Owning, Running
  <2>2. CASE StartReady(p)
    BY <1>0, <1>b, <2>2 DEF StartReady, Phases, Startup, Owning, Running
  <2> QED BY <1>6, <2>1, <2>2
<1>7. ASSUME NEW p \in Procs, StartError(p) PROVE SysOK'
  BY <1>3, <1>7, <1>f DEF StartError
<1>8. ASSUME NEW p \in Procs, ServeSteps(p) \/ Idle(p) \/ Panic(p) \/ Crash(p) PROVE SysOK'
  <2>1. CASE \E j \in jobs : Handle(p, j)
    BY <1>0, <1>n, <2>1 DEF Handle, files
  <2>2. CASE Reap(p) \/ Drain(p) \/ Idle(p)
    <3>1. PICK ph \in {"drain", "unlink"} : Become(p, ph)
      BY <2>2 DEF Reap, Drain, Idle
    <3>2. phase[p] \in {"panicked", "drain", "ready"} /\ UNCHANGED <<lock, files, stop, faults>>
      BY <2>2 DEF Reap, Drain, Idle
    <3> QED BY <1>0, <1>b, <3>1, <3>2 DEF files, Phases, Owning, Running
  <2>3. CASE Unlink(p)
    BY <1>0, <1>b, <2>3 DEF Unlink, Phases, Owning, Running
  <2>4. CASE Panic(p)
    BY <1>0, <1>b, <1>f, <2>4 DEF Panic, Phases, Owning, Running
  <2>5. CASE Close(p)
    BY <1>0, <1>e, <2>5 DEF Close, files
  <2>6. CASE Crash(p)
    BY <1>0, <1>e, <1>f, <2>6 DEF Crash, files
  <2> QED BY <1>8, <2>1, <2>2, <2>3, <2>4, <2>5, <2>6 DEF ServeSteps
<1>9. CASE CliOpen \/ CliClose
  <2>1. phase' = phase /\ UNCHANGED <<sock, meta, starting, stop, faults>>
    BY <1>9 DEF CliOpen, CliClose, files
  <2>2. Released /\ lock' \in Procs \cup {None, Cli}
    BY <1>9 DEF CliOpen, CliClose, Released
  <2> QED BY <1>0, <2>1, <2>2, CalmSystem DEF Calm
<1>10. ASSUME NEW c \in Clients, Call(c) \/ Connect(c) \/ Send(c) \/ Reply(c) \/ TimeOut(c)
                                 \/ Peer(c) \/ GiveUp(c)
       PROVE  SysOK'
  BY <1>0, <1>10, <1>n DEF Call, Connect, Send, Reply, TimeOut, Peer, GiveUp, files
<1>11. ASSUME NEW c \in Clients, Refused(c) PROVE SysOK'
  <2>1. /\ UNCHANGED <<phase, lock, stop, faults>> /\ sock' \in {sock, None}
        /\ meta' \in Procs \cup {None} /\ starting' \in Procs \cup {None}
    BY <1>0, <1>11 DEF Refused, RemoveStale, files
  <2> QED BY <1>0, <1>n, <2>1
<1>s. ASSUME NEW p \in Procs, Sigterm(p), UNCHANGED <<files, stop, faults>> PROVE SysOK'
  BY <1>0, <1>s, SigtermFacts, CalmSystem DEF files
<1>12. ASSUME NEW c \in Clients, Kill(c) PROVE SysOK'
  <2>1. CASE meta = None
    BY <1>0, <1>12, <1>n, <2>1 DEF Kill, files
  <2>2. CASE meta # None
    BY <1>0, <1>12, <1>s, <2>2 DEF Kill
  <2> QED BY <2>1, <2>2
<1>13. ASSUME NEW c \in Clients, KillWait(c) PROVE SysOK'
  <2>1. cl[c].victim \in Procs
    <3>1. cl[c] \in CallRec /\ CallOK(cl[c], execs[c])
      BY DEF IInv, TypeOK, CallInv, CallRec
    <3> QED BY <1>13, <3>1 DEF KillWait, CallOK, CallRec
  <2>2. CASE Exit(cl[c].victim)
    BY <1>0, <1>13, <1>e, <2>1, <2>2 DEF KillWait, files
  <2>3. CASE UNCHANGED <<phase, lock, jobs>>
    BY <1>0, <1>13, <1>n, <2>3 DEF KillWait, files
  <2> QED BY <1>13, <2>2, <2>3 DEF KillWait
<1>14. ASSUME NEW c \in Clients, Wipe(c) PROVE SysOK'
  BY <1>0, <1>14, <1>n DEF Wipe
<1>15. ASSUME NEW c \in Clients, Spawn(c) PROVE SysOK'
  <2>1. CASE phase' = phase
    BY <1>0, <1>15, <1>n, <2>1 DEF Spawn, files
  <2>2. CASE (\E p \in Procs : phase[p] = "unborn") /\ Become(NextUnborn, "stat")
    BY <1>0, <1>15, <1>b, <2>2, UnbornFact DEF Spawn, files, Phases, Startup, Owning, Running
  <2> QED BY <1>15, <2>1, <2>2 DEF Spawn
\* `mati daemon stop`.
<1>t. ASSUME NEW part \in StopParts, NEW pid \in Procs \cup {None}, StopTo(part, pid),
             part \in {"signal", "wait"} => pid # None
      PROVE  /\ stop' \in [at : StopParts, force : BOOLEAN, pid : Procs \cup {None},
                           pre : Procs \cup {None}]
             /\ StopInv'
  BY <1>0, <1>t DEF StopTo, NoStop, StopInv, StopParts
<1>u. ASSUME stop' \in [at : StopParts, force : BOOLEAN, pid : Procs \cup {None},
                        pre : Procs \cup {None}], StopInv',
             phase' \in [Procs -> Phases], lock' \in Procs \cup {None, Cli},
             \A q \in Procs : Calm(q), Released, sock' \in {sock, None},
             meta' \in Procs \cup {None}, starting' \in Procs \cup {None},
             faults' \in 0..MaxFaults
      PROVE  SysOK'
  BY <1>0, <1>u, CalmOwn DEF SysOK
<1>v. ASSUME NEW part \in StopParts, NEW pid \in Procs \cup {None}, StopTo(part, pid),
             part \in {"signal", "wait"} => pid # None,
             phase' = phase, lock' = lock, sock' \in {sock, None},
             meta' \in {meta, None}, starting' \in {starting, None}, faults' = faults
      PROVE  SysOK'
  BY <1>0, <1>t, <1>u, <1>v DEF Calm, Released
<1>16. CASE StopBegin
  <2>1. /\ stop' \in [at : StopParts, force : BOOLEAN, pid : Procs \cup {None},
                      pre : Procs \cup {None}]
        /\ StopInv'
    BY <1>0, <1>16 DEF StopBegin, StopInv, StopParts
  <2> QED BY <1>0, <1>16, <1>u, <2>1 DEF StopBegin, files, Calm, Released
<1>17. CASE StopNoFiles \/ StopLook \/ StopPing
  <2>0. UNCHANGED <<phase, lock, sock, meta, starting, faults>>
    BY <1>17 DEF StopNoFiles, StopLook, StopPing, files
  <2>1. PICK part \in {"signal", "ping", "wipe", "done"}, pid \in Procs \cup {None} :
           StopTo(part, pid) /\ (part = "signal" => pid # None)
    <3>1. CASE StopNoFiles
      BY <1>0, <3>1 DEF StopNoFiles
    <3>2. CASE StopLook
      BY <1>0, <3>2 DEF StopLook
    <3>3. CASE StopPing
      <4>1. stop.pid \in Procs \cup {None}
        BY <1>0
      <4> QED BY <1>0, <3>3, <4>1 DEF StopPing
    <3> QED BY <1>17, <3>1, <3>2, <3>3
  <2>2. part \in StopParts /\ part # "wait"
    BY DEF StopParts
  <2> QED BY <1>v, <2>0, <2>1, <2>2
<1>18. CASE StopWipe \/ StopSettle
  BY <1>0, <1>18, <1>v DEF StopWipe, StopSettle, StopParts
<1>19. CASE StopSignal
  <2>0. stop.pid \in Procs /\ stop.at = "signal"
    BY <1>0, <1>19 DEF StopSignal, StopInv
  <2>1. /\ stop' \in [at : StopParts, force : BOOLEAN, pid : Procs \cup {None},
                      pre : Procs \cup {None}]
        /\ StopInv'
    <3>1. CASE stop' = [stop EXCEPT !.at = "wait", !.pre = meta]
      BY <1>0, <2>0, <3>1 DEF StopInv, StopParts
    <3>2. CASE StopTo("done", None)
      BY <1>t, <3>2 DEF StopParts
    <3> QED BY <1>19, <3>1, <3>2 DEF StopSignal
  <2>2. Exit(stop.pid) \/ Sigterm(stop.pid)
    BY <1>19 DEF StopSignal
  <2>3. UNCHANGED <<sock, meta, starting, faults>>
    BY <1>19 DEF StopSignal, files
  <2> QED BY <1>0, <1>u, <2>0, <2>1, <2>2, <2>3, ExitFacts, SigtermFacts
<1>20. CASE StopEscalate
  <2>0. stop.pid \in Procs
    BY <1>0, <1>20 DEF StopEscalate, StopInv
  <2> QED BY <1>0, <1>20, <1>e, <1>f, <2>0 DEF StopEscalate, files
<1>21. CASE StopExited
  <2>1. PICK part \in {"done", "settle"} : StopTo(part, stop.pid)
    BY <1>21 DEF StopExited
  <2> QED BY <1>0, <1>21, <1>v, <2>1 DEF StopExited, StopParts, files
<1>22. CASE UNCHANGED vars
  BY <1>0, <1>n, <1>22 DEF vars, files
<1> QED
  <2>1. ASSUME NEW p \in Procs, Start(p) \/ StartSteps(p) \/ ServeSteps(p) \/ Idle(p)
                                \/ StartError(p) \/ Panic(p) \/ Crash(p)
        PROVE  SysOK'
    <3>1. CASE FailStart(p) /\ faults' = faults
      BY <1>0, <1>3, <3>1
    <3>2. CASE (StartOpen(p) \/ StartBind(p)) /\ ~FailStart(p)
      BY <1>4, <1>5, <3>2
    <3>3. CASE (StartOpen(p) \/ StartBind(p)) /\ FailStart(p)
      BY <3>1, <3>3 DEF StartOpen, StartBind
    <3> QED BY <1>1, <1>2, <1>6, <1>7, <1>8, <2>1, <3>2, <3>3 DEF StartSteps
  <2>2. ASSUME NEW c \in Clients, Call(c) \/ ClientSteps(c) \/ GiveUp(c) PROVE SysOK'
    BY <1>10, <1>11, <1>12, <1>13, <1>14, <1>15, <2>2 DEF ClientSteps
  <2>3. CASE StopBegin \/ StopSteps \/ StopEscalate \/ CliOpen \/ CliClose
    BY <1>9, <1>16, <1>17, <1>18, <1>19, <1>20, <1>21, <2>3 DEF StopSteps
  <2> QED BY <1>22, <2>1, <2>2, <2>3 DEF Next
-----------------------------------------------------------------------------
(* The proxied calls.                                                      *)

\* The state of the calls and of the connections.
CallsOK ==
    /\ jobs \subseteq [c : Clients, try : 1..3, p : Procs, sess : Procs \cup {None}]
    /\ cl \in [Clients -> CallRec]
    /\ execs \in [Clients -> Nat]
    /\ CallInv /\ JobInv /\ BudgetInv

\* A call executed n times moves on: it stays in order, starts no attempt
\* twice and may send no more than before.
Moves(k, m, n) ==
    /\ m \in CallRec /\ CallOK(m, n)
    /\ Left(m) <= Left(k)
    /\ m.at # "done" => /\ k.at # "done" /\ k.try <= m.try
                        /\ m.sub \in Before => k.sub \in Before \/ k.try < m.try

LEMMA CallTypes ==
  ASSUME IInv
  PROVE  /\ CallsOK
         /\ \A c \in Clients : /\ cl[c] \in CallRec /\ execs[c] \in Nat
                               /\ CallOK(cl[c], execs[c])
BY DEF IInv, TypeOK, CallsOK, CallRec, CallInv

\* Fewer connections leave fewer attempts to run.
LEMMA PendingShrinks ==
  ASSUME jobs' \subseteq jobs
  PROVE  \A c \in Clients : /\ Pending(c)' <= Pending(c)
                            /\ Pending(c) \in Nat /\ Pending(c)' \in Nat
<1>1. \A c \in Clients : \A n \in {1, 2, 3} :
         /\ Out(c, n) \in {0, 1} /\ Out(c, n)' \in {0, 1} /\ Out(c, n)' <= Out(c, n)
  BY DEF Out
<1> QED BY <1>1 DEF Pending

LEMMA LeftTypes == \A k : Left(k) \in {0, 1, 2}
BY DEF Left

\* One call moves on, the rest stands still or loses connections.
LEMMA MoveKeeps ==
  ASSUME IInv, NEW c \in Clients, NEW m, Moves(cl[c], m, execs[c]), cl' = [cl EXCEPT ![c] = m],
         execs' = execs, jobs' \subseteq jobs
  PROVE  CallsOK'
<1>0. cl \in [Clients -> CallRec] /\ CallsOK /\ execs \in [Clients -> Nat]
  BY CallTypes DEF CallsOK
<1>1. /\ cl'[c] = m /\ \A d \in Clients \ {c} : cl'[d] = cl[d]
      /\ cl' \in [Clients -> CallRec]
  BY <1>0 DEF Moves
<1>2. CallInv'
  BY <1>0, <1>1 DEF Moves, CallsOK, CallInv
<1>3. JobInv'
  <2>1. \A j \in jobs : j.c \in Clients /\ j.try \in 1..3
    BY <1>0 DEF CallsOK
  <2>2. ASSUME NEW j \in jobs', cl'[j.c].at # "done"
        PROVE  /\ j.try <= cl'[j.c].try
               /\ cl'[j.c].sub \in Before => j.try < cl'[j.c].try
    <3>1. CASE j.c = c
      <4>1. /\ j.try <= cl[c].try
            /\ cl[c].sub \in Before => j.try < cl[c].try
            /\ cl[c].try <= m.try
            /\ m.sub \in Before => cl[c].sub \in Before \/ cl[c].try < m.try
        BY <1>0, <1>1, <2>2, <3>1 DEF Moves, CallsOK, JobInv
      <4>2. cl[c].try \in 0..3 /\ m.try \in 0..3 /\ j.try \in 1..3
        BY <1>0, <2>1 DEF Moves, CallRec
      <4> QED BY <1>1, <3>1, <4>1, <4>2
    <3>2. CASE j.c # c
      BY <1>0, <1>1, <2>1, <2>2, <3>2 DEF CallsOK, JobInv
    <3> QED BY <3>1, <3>2
  <2> QED BY <1>0, <2>2 DEF CallsOK, JobInv
<1>4. BudgetInv'
  <2> SUFFICES ASSUME NEW d \in Clients
               PROVE  execs[d] + Pending(d)' + Left(cl'[d]) <= 2
    BY DEF BudgetInv
  <2>1. Left(cl'[d]) <= Left(cl[d])
    <3>1. CASE d = c
      BY <1>1, <3>1 DEF Moves
    <3>2. CASE d # c
      BY <1>1, <3>2, LeftTypes
    <3> QED BY <3>1, <3>2
  <2>2. execs[d] + Pending(d) + Left(cl[d]) <= 2
    BY <1>0 DEF CallsOK, BudgetInv
  <2>3. /\ execs[d] \in Nat /\ Pending(d) \in Nat /\ Pending(d)' \in Nat
        /\ Pending(d)' <= Pending(d) /\ Left(cl[d]) \in Nat /\ Left(cl'[d]) \in Nat
    BY <1>0, PendingShrinks, LeftTypes
  <2> QED BY <2>1, <2>2, <2>3
<1> QED BY <1>0, <1>1, <1>2, <1>3, <1>4 DEF CallsOK

\* The calls stand still, or learn that a start has failed.
LEMMA StillKeeps ==
  ASSUME IInv, cl' = cl \/ Announce, execs' = execs, jobs' \subseteq jobs
  PROVE  CallsOK'
<1>0. cl \in [Clients -> CallRec] /\ CallsOK /\ execs \in [Clients -> Nat]
  BY CallTypes DEF CallsOK
<1>1. cl' \in [Clients -> CallRec]
  <2>1. \A k \in CallRec : [k EXCEPT !.failed = TRUE] \in CallRec
    BY DEF CallRec
  <2> QED BY <1>0, <2>1 DEF Announce
<1>2. \A d \in Clients : /\ cl'[d].at = cl[d].at /\ cl'[d].sub = cl[d].sub
                         /\ cl'[d].try = cl[d].try /\ cl'[d].res = cl[d].res
                         /\ cl'[d].conn = cl[d].conn /\ cl'[d].victim = cl[d].victim
  BY <1>0 DEF Announce, CallRec
<1>3. CallInv'
  BY <1>0, <1>2 DEF CallsOK, CallInv, CallOK
<1>4. JobInv'
  BY <1>0, <1>2 DEF CallsOK, JobInv
<1>5. BudgetInv'
  <2> SUFFICES ASSUME NEW d \in Clients
               PROVE  execs[d] + Pending(d)' + Left(cl'[d]) <= 2
    BY DEF BudgetInv
  <2>1. Left(cl'[d]) = Left(cl[d])
    BY <1>2 DEF Left, First
  <2>2. execs[d] + Pending(d) + Left(cl[d]) <= 2
    BY <1>0 DEF CallsOK, BudgetInv
  <2>3. /\ execs[d] \in Nat /\ Pending(d) \in Nat /\ Pending(d)' \in Nat
        /\ Pending(d)' <= Pending(d) /\ Left(cl[d]) \in Nat
    BY <1>0, PendingShrinks, LeftTypes
  <2> QED BY <2>1, <2>2, <2>3
<1> QED BY <1>0, <1>1, <1>3, <1>4, <1>5 DEF CallsOK


\* The records that the steps of a call are made of.
LEMMA GotoFacts ==
  ASSUME NEW k \in CallRec, NEW part \in CallParts
  PROVE  /\ Goto(k, part) \in CallRec
         /\ Goto(k, part).at = part /\ Goto(k, part).sub = "connect"
         /\ Goto(k, part).try = k.try /\ Goto(k, part).res = k.res
         /\ Goto(k, part).victim = k.victim
<1>1. "connect" \in Subs
  BY DEF Subs
<1> QED BY <1>1 DEF Goto, CallRec

LEMMA FinishFacts ==
  ASSUME NEW k, NEW res \in Gone \cup {"Unresponsive", "Ok", "Mismatch"}
  PROVE  /\ Finish(k, res) \in CallRec
         /\ Finish(k, res).at = "done" /\ Finish(k, res).sub = "connect"
         /\ Finish(k, res).try = 0 /\ Finish(k, res).res = res
<1>1. "connect" \in Subs /\ "done" \in CallParts /\ 0 \in 0..3
  BY DEF Subs, CallParts
<1> QED BY <1>1 DEF Finish, Fresh, CallRec

\* The end of an attempt, before its command was sent or after.
LEMMA SettleMoves ==
  ASSUME NEW k \in CallRec, NEW n \in Nat, CallOK(k, n), k.at \in Sends,
         NEW res \in Gone \cup {"Unresponsive", "Ok", "Mismatch"}, NEW retryable \in BOOLEAN,
         \/ k.sub \in Before /\ retryable /\ res # "Mismatch" /\ (res = "Ok" => k.at \in Pings)
         \/ k.sub = "await" /\ res = "Unresponsive" /\ retryable
         \/ k.sub = "ok" /\ res = "Ok" /\ ~retryable
         \/ k.sub = "mismatch" /\ res = "Mismatch" /\ retryable
  PROVE  Moves(k, After(k, res, retryable), n)
<1> DEFINE m == After(k, res, retryable)
<1>1. /\ k.at \in CallParts /\ k.try \in 0..3
      /\ k.at \in {"call", "last", "ping1", "ping2", "waitPeer", "waitMine"}
      /\ k.at \in Pings => k.sub \in Before
  BY DEF CallRec, CallOK, Sends, Pings, Before, Sent, Subs
<1>2. {"call", "last", "ping1", "ping2", "waitPeer", "waitMine", "kill", "peer"} \subseteq CallParts
  BY DEF CallParts
<1>3. /\ Finish(k, res) \in CallRec /\ Finish(k, res).at = "done" /\ Finish(k, res).try = 0
      /\ Finish(k, res).sub = "connect" /\ Finish(k, res).res = res
  BY FinishFacts
<1>r. k.try \in 0..3 /\ k.res \in Gone \cup {"Unresponsive", "Ok", "Mismatch"} /\ k.failed \in BOOLEAN
  BY DEF CallRec
<1>l. k.sub \in Before \/ k.sub \in Sent
  BY DEF CallRec, Subs, Before, Sent
<1>4. CASE k.at = "call" /\ k.try = 1 /\ retryable
  <2>1. m = [Goto(k, "call") EXCEPT !.try = 2, !.res = res]
    BY <1>4 DEF After, AfterCall
  <2>2. /\ m \in CallRec /\ m.at = "call" /\ m.sub = "connect" /\ m.try = 2 /\ m.res = res
    <3> DEFINE g == Goto(k, "call")
    <3>1. /\ g \in CallRec /\ g.at = "call" /\ g.sub = "connect"
          /\ m = [g EXCEPT !.try = 2, !.res = res]
      BY <1>2, <2>1, GotoFacts
    <3>2. 2 \in 0..3
      OBVIOUS
    <3> HIDE DEF g, m
    <3> QED BY <3>1, <3>2 DEF CallRec
  <2>3. res # "Ok"
    BY <1>4 DEF Pings
  <2> HIDE DEF m
  <2>4. CallOK(m, n)
    BY <2>2, <2>3 DEF CallOK, Sends, Sent, Pings
  <2>5. Left(m) <= Left(k)
    BY <1>l, <1>4, <2>2, LeftTypes DEF Left, First
  <2>9. Moves(k, m, n)
    BY <1>4, <1>l, <2>2, <2>4, <2>5, <1>r DEF Moves
  <2> QED BY <2>9 DEF m
<1>5. CASE k.at = "call" /\ ~(k.try = 1 /\ retryable) /\ res \in Gone
  <2>1. m = [Goto(k, "ping1") EXCEPT !.res = res]
    BY <1>5 DEF After, AfterCall
  <2>2. m \in CallRec /\ m.at = "ping1" /\ m.sub = "connect" /\ m.try = k.try /\ m.res = res
    <3> DEFINE g == Goto(k, "ping1")
    <3>1. /\ g \in CallRec /\ g.at = "ping1" /\ g.sub = "connect" /\ g.try = k.try
          /\ m = [g EXCEPT !.res = res]
      BY <1>2, <2>1, GotoFacts
    <3> HIDE DEF g, m
    <3> QED BY <3>1 DEF CallRec
  <2>3. k.sub \in Before /\ k.try = 2
    BY <1>5 DEF CallOK, Gone
  <2> HIDE DEF m
  <2>4. CallOK(m, n)
    BY <1>5, <2>2, <2>3 DEF CallOK, Sends, Sent, Pings, Gone
  <2>5. Left(m) <= Left(k)
    BY <1>5, <2>2, <2>3 DEF Left, First, Before, Sent
  <2>9. Moves(k, m, n)
    BY <1>5, <2>2, <2>3, <2>4, <2>5, <1>r DEF Moves
  <2> QED BY <2>9 DEF m
<1>6. CASE m = Finish(k, res) /\ k.at \in {"call", "last"}
  <2>1. res = "Ok" => n >= 1
    BY <1>6 DEF CallOK, Pings
  <2>2. CallOK(m, n)
    BY <1>3, <1>6, <2>1 DEF CallOK, Sends, Pings, Sent
  <2>3. Left(m) = 0
    BY <1>3, <1>6 DEF Left, First
  <2> QED BY <1>3, <1>6, <2>2, <2>3, LeftTypes DEF Moves
<1>7. CASE k.at \in Pings /\ res = "Ok"
  <2>1. m = [Goto(k, "last") EXCEPT !.try = 3]
    BY <1>7 DEF After, AfterPing, Pings
  <2>2. m \in CallRec /\ m.at = "last" /\ m.sub = "connect" /\ m.try = 3 /\ m.res = k.res
    <3> DEFINE g == Goto(k, "last")
    <3>1. /\ g \in CallRec /\ g.at = "last" /\ g.sub = "connect" /\ g.res = k.res
          /\ m = [g EXCEPT !.try = 3]
      BY <1>2, <2>1, GotoFacts
    <3>2. 3 \in 0..3
      OBVIOUS
    <3> HIDE DEF g, m
    <3> QED BY <3>1, <3>2 DEF CallRec
  <2>3. k.res \in Gone /\ k.try = 2 /\ k.at # "done"
    BY <1>7 DEF CallOK, Pings
  <2> HIDE DEF m
  <2>4. CallOK(m, n)
    BY <2>2, <2>3 DEF CallOK, Sends, Sent, Pings, Gone
  <2>5. Left(m) <= Left(k)
    BY <1>1, <1>7, <2>2, <2>3 DEF Left, First, Before, Sent, Pings
  <2>9. Moves(k, m, n)
    BY <1>1, <1>7, <2>2, <2>3, <2>4, <2>5, <1>r DEF Moves
  <2> QED BY <2>9 DEF m
<1>8. CASE k.at \in Pings /\ res # "Ok"
  <2>1. m = AfterPing(k, res)
    BY <1>8 DEF After, Pings
  <2>2. PICK part \in Pings \cup {"kill", "peer"}, b1 \in BOOLEAN, b2 \in BOOLEAN :
           m = [Goto(k, part) EXCEPT !.failed = b1, !.again = b2]
    <3>1. \/ \E part \in Pings \cup {"kill", "peer"} : m = Goto(k, part)
          \/ m = [Goto(k, k.at) EXCEPT !.failed = k.failed, !.again = TRUE]
          \/ m = [Goto(k, k.at) EXCEPT !.failed = k.failed]
      BY <1>8, <2>1 DEF AfterPing, Pings
    <3> HIDE DEF m
    <3>2. ASSUME NEW part \in Pings \cup {"kill", "peer"}, m = Goto(k, part)
          PROVE  m = [Goto(k, part) EXCEPT !.failed = FALSE, !.again = FALSE]
      BY <3>2 DEF Goto, CallRec
    <3>3. ASSUME m = [Goto(k, k.at) EXCEPT !.failed = k.failed]
          PROVE  m = [Goto(k, k.at) EXCEPT !.failed = k.failed, !.again = FALSE]
      BY <3>3 DEF Goto, CallRec
    <3> QED BY <1>8, <1>r, <3>1, <3>2, <3>3
  <2>3. /\ m \in CallRec /\ m.at = part /\ m.sub = "connect" /\ m.try = k.try /\ m.res = k.res
    <3> DEFINE g == Goto(k, part)
    <3>1. /\ g \in CallRec /\ g.at = part /\ g.sub = "connect" /\ g.try = k.try /\ g.res = k.res
          /\ m = [g EXCEPT !.failed = b1, !.again = b2]
      <4>1. part \in CallParts
        BY <1>2 DEF Pings
      <4> QED BY <2>2, <4>1, GotoFacts
    <3> HIDE DEF g, m
    <3> QED BY <3>1 DEF CallRec
  <2>4. k.res \in Gone /\ k.try = 2 /\ k.at # "done"
    BY <1>8 DEF CallOK, Pings
  <2> HIDE DEF m
  <2>5. CallOK(m, n)
    BY <2>3, <2>4 DEF CallOK, Sends, Sent, Pings, Gone
  <2>6. Left(m) <= Left(k)
    BY <1>1, <1>8, <2>3, <2>4 DEF Left, First, Before, Sent, Pings
  <2>9. Moves(k, m, n)
    BY <1>1, <1>8, <2>3, <2>4, <2>5, <2>6, <1>r DEF Moves
  <2> QED BY <2>9 DEF m
<1>9. k.at \in {"call", "last"} \/ k.at \in Pings
  BY <1>1 DEF Pings
<1> QED BY <1>4, <1>5, <1>6, <1>7, <1>8, <1>9 DEF After, AfterCall

\* A refused connection is looked into.
LEMMA SubMoves ==
  ASSUME NEW k \in CallRec, NEW n \in Nat, CallOK(k, n), k.at \in Sends, k.sub \in Before,
         NEW s \in Before \ {"connect", "send"}
  PROVE  Moves(k, [k EXCEPT !.sub = s], n)
<1> DEFINE m == [k EXCEPT !.sub = s]
<1>1. s \in Subs /\ s \in Before /\ s \notin Sent \cup {"send"} /\ s # "ok"
  BY DEF Subs, Before, Sent
<1>2. m \in CallRec /\ m.sub = s /\ m.at = k.at /\ m.try = k.try /\ m.res = k.res
  BY <1>1 DEF CallRec
<1>3. k.try \in 0..3 /\ m.victim = k.victim
  BY DEF CallRec
<1>4. "done" \notin Sends
  BY DEF Sends, Pings
<1> HIDE DEF m
<1>5. CallOK(m, n)
  BY <1>1, <1>2, <1>3, <1>4 DEF CallOK, Sends, Pings
<1>6. Left(m) <= Left(k)
  BY <1>1, <1>2, <1>4, LeftTypes DEF Left, First, Before, Sent
<1>7. Moves(k, m, n)
  BY <1>2, <1>3, <1>4, <1>5, <1>6 DEF Moves
<1> QED BY <1>7 DEF m

\* ensure_daemon goes from one of its parts to another.
LEMMA JumpMoves ==
  ASSUME NEW k \in CallRec, NEW n \in Nat, CallOK(k, n),
         k.at \notin {"idle", "call", "last", "done"},
         NEW m \in CallRec, m.at \in CallParts \ {"idle", "call", "last", "done"},
         m.sub = "connect", m.try = k.try, m.res = k.res,
         m.at = "killWait" => m.victim # None
  PROVE  Moves(k, m, n)
<1>1. k.try = 2 /\ k.res \in Gone
  BY DEF CallOK
<1>2. CallOK(m, n)
  BY <1>1 DEF CallOK, Sent, Gone
<1>3. Left(m) = 1 /\ (k.sub \in Sent => k.at \in {"call", "last"})
  BY <1>1 DEF Left, First, Sent, CallOK
<1>4. Left(k) = 1
  BY <1>1, <1>3 DEF Left, First
<1>5. k.sub \in Before
  BY <1>3 DEF CallRec, Subs, Before, Sent
<1> QED BY <1>1, <1>2, <1>3, <1>4, <1>5 DEF Moves

\* Everything but the callers' steps and the handlers.
LEMMA OthersKeep ==
  ASSUME IInv, \/ \E p \in Procs : \/ Start(p) \/ StartSteps(p) \/ Idle(p) \/ StartError(p)
                                   \/ Reap(p) \/ Drain(p) \/ Unlink(p) \/ Close(p)
                                   \/ Panic(p) \/ Crash(p)
               \/ StopBegin \/ StopSteps \/ StopEscalate \/ CliOpen \/ CliClose
               \/ UNCHANGED vars
  PROVE  CallsOK'
<1>1. ASSUME NEW p, Exit(p) PROVE jobs' \subseteq jobs
  BY <1>1 DEF Exit
<1>2. ASSUME NEW p, Sigterm(p) PROVE jobs' \subseteq jobs
  BY <1>1, <1>2 DEF Sigterm
<1>3. ASSUME NEW p, FailStart(p) PROVE CallsOK'
  BY <1>1, <1>3, StillKeeps DEF FailStart
<1>4. ASSUME UNCHANGED <<jobs, cl, execs>> PROVE CallsOK'
  BY <1>4, StillKeeps
<1>5. ASSUME NEW p \in Procs, Start(p) \/ StartSteps(p) \/ StartError(p) PROVE CallsOK'
  <2>1. CASE StartOpen(p) \/ StartBind(p) \/ StartError(p)
    BY <1>3, <1>4, <2>1 DEF StartOpen, StartBind, StartError
  <2>2. CASE Start(p) \/ StartStat(p) \/ StartRead(p) \/ StartClean(p) \/ StartPeer(p)
             \/ StartMark(p) \/ StartPublish(p) \/ StartReady(p)
    BY <1>4, <2>2 DEF Start, StartStat, StartRead, StartClean, StartPeer, StartMark,
                      StartPublish, StartReady
  <2> QED BY <1>5, <2>1, <2>2 DEF StartSteps
<1>6. ASSUME NEW p \in Procs, Idle(p) \/ Reap(p) \/ Drain(p) \/ Unlink(p) \/ Close(p)
                              \/ Panic(p) \/ Crash(p)
      PROVE  CallsOK'
  <2>1. execs' = execs /\ (cl' = cl \/ Announce)
    BY <1>6 DEF Idle, Reap, Drain, Unlink, Close, Panic, Crash
  <2>2. jobs' \subseteq jobs
    BY <1>1, <1>6 DEF Idle, Reap, Drain, Unlink, Close, Panic, Crash
  <2> QED BY <2>1, <2>2, StillKeeps
<1>7. CASE StopBegin \/ StopSteps \/ StopEscalate \/ CliOpen \/ CliClose
  <2>1. cl' = cl /\ execs' = execs
    BY <1>7 DEF StopBegin, StopSteps, StopNoFiles, StopLook, StopPing, StopWipe, StopSignal,
                StopExited, StopSettle, StopEscalate, CliOpen, CliClose
  <2>2. jobs' = jobs \/ Exit(stop.pid) \/ Sigterm(stop.pid)
    BY <1>7 DEF StopBegin, StopSteps, StopNoFiles, StopLook, StopPing, StopWipe, StopSignal,
                StopExited, StopSettle, StopEscalate, CliOpen, CliClose
  <2> QED BY <1>1, <1>2, <2>1, <2>2, StillKeeps
<1>8. CASE UNCHANGED vars
  BY <1>4, <1>8 DEF vars
<1> QED BY <1>5, <1>6, <1>7, <1>8

\* The end of an attempt of c.
LEMMA SettleKeeps ==
  ASSUME IInv, NEW c \in Clients, cl[c].at \in Sends,
         NEW res \in Gone \cup {"Unresponsive", "Ok", "Mismatch"}, NEW retryable \in BOOLEAN,
         \/ /\ cl[c].sub \in Before /\ retryable /\ res # "Mismatch"
            /\ res = "Ok" => cl[c].at \in Pings
         \/ cl[c].sub = "await" /\ res = "Unresponsive" /\ retryable
         \/ cl[c].sub = "ok" /\ res = "Ok" /\ ~retryable
         \/ cl[c].sub = "mismatch" /\ res = "Mismatch" /\ retryable,
         Settle(c, res, retryable), UNCHANGED <<jobs, execs>>
  PROVE  CallsOK'
<1>1. cl[c] \in CallRec /\ execs[c] \in Nat /\ CallOK(cl[c], execs[c])
  BY CallTypes
<1>2. Moves(cl[c], After(cl[c], res, retryable), execs[c])
  BY <1>1, SettleMoves
<1>3. cl' = [cl EXCEPT ![c] = After(cl[c], res, retryable)]
  BY DEF Settle
<1> QED BY <1>2, <1>3, MoveKeeps

LEMMA SubKeeps ==
  ASSUME IInv, NEW c \in Clients, cl[c].at \in Sends, cl[c].sub \in Before,
         NEW s \in Before \ {"connect", "send"}, Sub(c, s), UNCHANGED <<jobs, execs>>
  PROVE  CallsOK'
<1>1. cl[c] \in CallRec /\ execs[c] \in Nat /\ CallOK(cl[c], execs[c])
  BY CallTypes
<1>2. Moves(cl[c], [cl[c] EXCEPT !.sub = s], execs[c])
  BY <1>1, SubMoves
<1>3. cl' = [cl EXCEPT ![c] = [cl[c] EXCEPT !.sub = s]]
  BY DEF Sub
<1> QED BY <1>2, <1>3, MoveKeeps

LEMMA JumpKeeps ==
  ASSUME IInv, NEW c \in Clients, cl[c].at \notin {"idle", "call", "last", "done"},
         NEW m \in CallRec, m.at \in CallParts \ {"idle", "call", "last", "done"},
         m.sub = "connect", m.try = cl[c].try, m.res = cl[c].res,
         m.at = "killWait" => m.victim # None,
         cl' = [cl EXCEPT ![c] = m], execs' = execs, jobs' \subseteq jobs
  PROVE  CallsOK'
<1>1. cl[c] \in CallRec /\ execs[c] \in Nat /\ CallOK(cl[c], execs[c])
  BY CallTypes
<1>2. Moves(cl[c], m, execs[c])
  BY <1>1, JumpMoves
<1> QED BY <1>2, MoveKeeps

\* A call begins, and the attempts it makes.
LEMMA AttemptKeeps ==
  ASSUME IInv, NEW c \in Clients, Call(c) \/ Connect(c) \/ Refused(c) \/ Reply(c) \/ TimeOut(c)
  PROVE  CallsOK'
<1> USE LifecycleAssumption
<1>0. /\ cl[c] \in CallRec /\ execs[c] \in Nat /\ CallOK(cl[c], execs[c])
      /\ sock \in Procs \cup {None} /\ meta \in Procs \cup {None}
  BY CallTypes DEF IInv, TypeOK
<1>1. CASE Call(c)
  <2> DEFINE k == cl[c]
             g == Goto(k, "call")
             m == [g EXCEPT !.try = 1]
  <2>1. cl' = [cl EXCEPT ![c] = m] /\ UNCHANGED <<jobs, execs>> /\ k.at = "idle"
    BY <1>1 DEF Call
  <2>2. "call" \in CallParts /\ 1 \in 0..3
    BY DEF CallParts
  <2>3. g \in CallRec /\ g.at = "call" /\ g.sub = "connect" /\ g.res = k.res
    BY <1>0, <2>2, GotoFacts
  <2> HIDE DEF g
  <2>4. m \in CallRec /\ m.at = "call" /\ m.sub = "connect" /\ m.res = k.res /\ m.try = 1
    BY <2>2, <2>3 DEF CallRec
  <2>5. k.try = 0
    BY <1>0, <2>1 DEF CallOK
  <2> HIDE DEF m, k
  <2>6. CallOK(m, execs[c])
    <3>1. k.res = "Ok" => execs[c] >= 1
      BY <1>0 DEF CallOK, k
    <3> QED BY <2>4, <3>1 DEF CallOK, Sent, Sends
  <2>7. Left(m) <= Left(k)
    BY <2>1, <2>4 DEF Left, First, Before
  <2>8. Moves(k, m, execs[c])
    BY <2>1, <2>4, <2>5, <2>6, <2>7 DEF Moves
  <2> QED BY <2>1, <2>8, MoveKeeps DEF k
<1>2. CASE Connect(c)
  <2>0. /\ cl[c].at \in Sends /\ cl[c].sub = "connect" /\ cl[c].sub \in Before
        /\ UNCHANGED <<jobs, execs>>
    BY <1>2 DEF Connect, Before
  <2>1. CASE Settle(c, "NotRunning", TRUE)
    BY <2>0, <2>1, SettleKeeps DEF Gone
  <2>2. CASE Sub(c, "stat")
    <3>1. "stat" \in Before \ {"connect", "send"}
      BY DEF Before
    <3> QED BY <2>0, <2>2, <3>1, SubKeeps
  <2>3. CASE cl[c].at \in Pings /\ \E res \in {"Ok", "Unresponsive"} : Settle(c, res, TRUE)
    BY <2>0, <2>3, SettleKeeps
  <2>4. CASE cl[c].at \notin Pings /\ sock # None
             /\ cl' = [cl EXCEPT ![c].sub = "send", ![c].conn = sock]
    <3> DEFINE k == cl[c]
               m == [k EXCEPT !.sub = "send", !.conn = sock]
    <3>1. cl' = [cl EXCEPT ![c] = m]
      <4>1. cl \in [Clients -> CallRec]
        BY CallTypes DEF CallsOK
      <4> QED BY <2>4, <4>1
    <3>2. "send" \in Subs
      BY DEF Subs
    <3>3. /\ m \in CallRec /\ m.at = k.at /\ m.sub = "send" /\ m.try = k.try /\ m.res = k.res
          /\ m.conn = sock /\ m.victim = k.victim /\ k.try \in 0..3
      BY <1>0, <3>2 DEF CallRec
    <3>4. k.at \in {"call", "last"} /\ k.sub \in Before
      BY <2>0, <2>4 DEF Sends
    <3>5. CallOK(k, execs[c])
      BY <1>0
    <3> HIDE DEF m, k
    <3>6. CallOK(m, execs[c])
      BY <2>4, <3>3, <3>4, <3>5 DEF CallOK, Sends, Sent
    <3>7. Left(m) <= Left(k)
      BY <3>3, <3>4, LeftTypes DEF Left, First, Before, Sent
    <3>8. Moves(k, m, execs[c])
      BY <3>3, <3>4, <3>6, <3>7 DEF Moves
    <3> QED BY <2>0, <3>1, <3>8, MoveKeeps DEF k
  <2> QED BY <1>2, <2>1, <2>2, <2>3, <2>4 DEF Connect
<1>3. CASE Refused(c)
  <2>0. /\ cl[c].at \in Sends /\ UNCHANGED <<jobs, execs>>
        /\ cl[c].sub \in {"stat", "read", "orphan", "corrupt", "stale"}
        /\ cl[c].sub \in Before
    BY <1>3 DEF Refused, Before
  <2>1. \/ \E res \in {"StaleSocket", "Unresponsive"} : Settle(c, res, TRUE)
        \/ \E s \in {"read", "orphan", "corrupt", "stale"} : Sub(c, s)
    BY <1>3 DEF Refused, StatFiles, ReadMetadata
  <2>2. CASE \E res \in {"StaleSocket", "Unresponsive"} : Settle(c, res, TRUE)
    BY <2>0, <2>2, SettleKeeps DEF Gone
  <2>3. CASE \E s \in {"read", "orphan", "corrupt", "stale"} : Sub(c, s)
    <3>1. {"read", "orphan", "corrupt", "stale"} \subseteq Before \ {"connect", "send"}
      BY DEF Before
    <3> QED BY <2>0, <2>3, <3>1, SubKeeps
  <2> QED BY <2>1, <2>2, <2>3
<1>4. CASE Reply(c) \/ TimeOut(c)
  <2>1. cl[c].at \in Sends
    BY <1>0, <1>4 DEF Reply, TimeOut, CallOK
  <2>2. UNCHANGED <<jobs, execs>>
    BY <1>4 DEF Reply, TimeOut
  <2>3. CASE Reply(c)
    <3>1. CASE cl[c].sub = "ok" /\ Settle(c, "Ok", FALSE)
      BY <2>1, <2>2, <3>1, SettleKeeps
    <3>2. CASE cl[c].sub = "mismatch" /\ Settle(c, "Mismatch", TRUE)
      BY <2>1, <2>2, <3>2, SettleKeeps
    <3> QED BY <2>3, <3>1, <3>2 DEF Reply
  <2>4. CASE TimeOut(c)
    BY <2>1, <2>2, <2>4, SettleKeeps DEF TimeOut
  <2> QED BY <1>4, <2>3, <2>4
<1> QED BY <1>1, <1>2, <1>3, <1>4

\* ensure_daemon.
LEMMA EnsureKeeps ==
  ASSUME IInv, NEW c \in Clients,
         Kill(c) \/ KillWait(c) \/ Wipe(c) \/ Peer(c) \/ Spawn(c) \/ GiveUp(c)
  PROVE  CallsOK'
<1> USE LifecycleAssumption
<1>0. /\ cl[c] \in CallRec /\ execs[c] \in Nat /\ CallOK(cl[c], execs[c])
      /\ meta \in Procs \cup {None} /\ execs' = execs
  BY CallTypes DEF IInv, TypeOK, Kill, KillWait, Wipe, Peer, Spawn, GiveUp
<1>1. ASSUME NEW p, Exit(p) PROVE jobs' \subseteq jobs
  BY <1>1 DEF Exit
<1>2. ASSUME NEW p, Sigterm(p) PROVE jobs' \subseteq jobs
  BY <1>1, <1>2 DEF Sigterm
<1>3. jobs' \subseteq jobs
  BY <1>1, <1>2 DEF Kill, KillWait, Wipe, Peer, Spawn, GiveUp
<1>4. {"wipe", "killWait", "peer", "spawn", "waitPeer", "waitMine"}
         \subseteq CallParts \ {"idle", "call", "last", "done"}
  BY DEF CallParts
\* To another part, with the process to kill.
<1>5. ASSUME NEW part \in {"wipe", "killWait"}, NEW v \in Procs \cup {None},
             part = "killWait" => v # None, cl[c].at \in {"kill", "killWait"},
             cl' = [cl EXCEPT ![c] = [Goto(cl[c], part) EXCEPT !.victim = v]]
      PROVE  CallsOK'
  <2> DEFINE g == Goto(cl[c], part)
             m == [g EXCEPT !.victim = v]
  <2>0. /\ part \in CallParts /\ part \in CallParts \ {"idle", "call", "last", "done"}
        /\ cl[c].at \notin {"idle", "call", "last", "done"}
        /\ part = "killWait" => v # None
    BY <1>5 DEF CallParts
  <2>1. /\ g \in CallRec /\ g.at = part /\ g.sub = "connect" /\ g.try = cl[c].try
        /\ g.res = cl[c].res
    BY <1>0, <2>0, GotoFacts
  <2> HIDE DEF g
  <2>2. /\ m \in CallRec /\ m.at = part /\ m.sub = "connect" /\ m.try = cl[c].try
        /\ m.res = cl[c].res /\ m.victim = v
    BY <1>5, <2>1 DEF CallRec
  <2>3. cl' = [cl EXCEPT ![c] = m]
    BY <1>5 DEF g
  <2> HIDE DEF m
  <2> QED BY <1>0, <1>3, <2>0, <2>2, <2>3, JumpKeeps
\* To another part.
<1>6. ASSUME NEW part \in {"peer", "spawn", "waitPeer", "waitMine"},
             cl[c].at \notin {"idle", "call", "last", "done"},
             cl' = [cl EXCEPT ![c] = Goto(cl[c], part)]
      PROVE  CallsOK'
  <2> DEFINE g == Goto(cl[c], part)
  <2>0. /\ part \in CallParts /\ part \in CallParts \ {"idle", "call", "last", "done"}
        /\ part # "killWait"
    BY <1>6 DEF CallParts
  <2>1. /\ g \in CallRec /\ g.at = part /\ g.sub = "connect" /\ g.try = cl[c].try
        /\ g.res = cl[c].res
    BY <1>0, <2>0, GotoFacts
  <2>2. cl' = [cl EXCEPT ![c] = g]
    BY <1>6
  <2> HIDE DEF g
  <2> QED BY <1>0, <1>3, <1>6, <2>0, <2>1, <2>2, JumpKeeps
<1>7. CASE Kill(c)
  <2>1. CASE meta = None
    BY <1>0, <1>5, <1>7, <2>1 DEF Kill
  <2>2. CASE meta # None
    BY <1>0, <1>5, <1>7, <2>2 DEF Kill
  <2> QED BY <2>1, <2>2
<1>8. CASE KillWait(c)
  BY <1>5, <1>8 DEF KillWait
<1>9. CASE Wipe(c)
  BY <1>6, <1>9 DEF Wipe
<1>10. CASE Peer(c)
  <2>1. PICK part \in {"waitPeer", "spawn"} : cl' = [cl EXCEPT ![c] = Goto(cl[c], part)]
    BY <1>10 DEF Peer
  <2> QED BY <1>6, <1>10, <2>1 DEF Peer
<1>11. CASE Spawn(c)
  BY <1>6, <1>11 DEF Spawn
<1>12. CASE GiveUp(c)
  <2>1. CASE cl[c].at = "waitPeer"
    BY <1>6, <1>12, <2>1 DEF GiveUp
  <2>2. CASE cl[c].at = "waitMine"
    <3> DEFINE k == cl[c]
               m == Finish(k, k.res)
    <3>1. cl' = [cl EXCEPT ![c] = m]
      BY <1>12, <2>2 DEF GiveUp
    <3>2. k.res \in Gone /\ k.at # "done"
      BY <1>0, <2>2 DEF CallOK
    <3>3. m \in CallRec /\ m.at = "done" /\ m.sub = "connect" /\ m.try = 0 /\ m.res = k.res
      BY <3>2, FinishFacts
    <3> HIDE DEF m, k
    <3>4. CallOK(m, execs[c])
      BY <3>2, <3>3 DEF CallOK, Sends, Pings, Sent, Gone
    <3>5. Left(m) = 0
      BY <3>3 DEF Left, First
    <3>6. Moves(k, m, execs[c])
      BY <3>3, <3>4, <3>5, LeftTypes DEF Moves
    <3> QED BY <1>0, <1>3, <3>1, <3>6, MoveKeeps DEF k
  <2> QED BY <1>12, <2>1, <2>2 DEF GiveUp
<1> QED BY <1>7, <1>8, <1>9, <1>10, <1>11, <1>12

\* The command is sent: one more attempt may run.
LEMMA SendKeeps == ASSUME IInv, NEW c \in Clients, Send(c) PROVE CallsOK'
<1> USE LifecycleAssumption
<1> DEFINE k == cl[c]
           m == [k EXCEPT !.sub = "await"]
           job == [c |-> c, try |-> k.try, p |-> k.conn, sess |-> meta]
<1>0. /\ CallsOK /\ k \in CallRec /\ execs[c] \in Nat /\ CallOK(k, execs[c])
      /\ meta \in Procs \cup {None} /\ cl \in [Clients -> CallRec]
      /\ execs \in [Clients -> Nat]
  BY CallTypes DEF IInv, TypeOK, CallsOK
<1>1. /\ k.sub = "send" /\ execs' = execs /\ jobs' \in {jobs, jobs \cup {job}}
      /\ cl' = [cl EXCEPT ![c] = m]
  BY DEF Send, Sub
<1>2. /\ k.at \in {"call", "last"} /\ k.conn \in Procs /\ k.try \in 1..3
      /\ k.try \in {1, 2, 3} /\ k.sub \in Before
  BY <1>0, <1>1 DEF CallOK, CallRec, Before
<1>3. "await" \in Subs
  BY DEF Subs
<1>4. m \in CallRec /\ m.sub = "await" /\ m.at = k.at /\ m.try = k.try /\ m.res = k.res
  BY <1>0, <1>3 DEF CallRec
<1>5. job \in [c : Clients, try : 1..3, p : Procs, sess : Procs \cup {None}]
      /\ job.c = c /\ job.try = k.try
  BY <1>0, <1>2
<1> HIDE DEF job, m
<1>6. /\ cl' \in [Clients -> CallRec] /\ cl'[c] = m
      /\ \A d \in Clients \ {c} : cl'[d] = cl[d]
  BY <1>0, <1>1, <1>4
<1>7. CallInv'
  <2>1. CallOK(m, execs[c])
    BY <1>0, <1>2, <1>4 DEF CallOK, Sends, Sent
  <2> QED BY <1>0, <1>1, <1>6, <2>1 DEF CallsOK, CallInv
<1>8. \A j \in jobs : j.c \in Clients /\ (j.c = c => j.try # k.try)
  <2> SUFFICES ASSUME NEW j \in jobs PROVE j.c \in Clients /\ (j.c = c => j.try # k.try)
    OBVIOUS
  <2>1. j.c \in Clients /\ j.try \in 1..3
    BY <1>0 DEF CallsOK
  <2>2. j.c = c => j.try < k.try
    BY <1>0, <1>2 DEF CallsOK, JobInv
  <2> QED BY <1>2, <2>1, <2>2
<1>9. JobInv'
  <2>1. \A i, j \in jobs' : i.c = j.c /\ i.try = j.try => i = j
    BY <1>0, <1>1, <1>5, <1>8 DEF CallsOK, JobInv
  <2>2. ASSUME NEW j \in jobs', cl'[j.c].at # "done"
        PROVE  /\ j.try <= cl'[j.c].try
               /\ cl'[j.c].sub \in Before => j.try < cl'[j.c].try
    <3>1. CASE j = job
      BY <1>2, <1>4, <1>5, <1>6, <3>1 DEF Before
    <3>2. CASE j \in jobs /\ j.c = c
      BY <1>0, <1>4, <1>6, <2>2, <3>2 DEF CallsOK, JobInv, Before
    <3>3. CASE j \in jobs /\ j.c # c
      BY <1>0, <1>6, <1>8, <2>2, <3>3 DEF CallsOK, JobInv
    <3> QED BY <1>1, <2>2, <3>1, <3>2, <3>3
  <2> QED BY <2>1, <2>2 DEF JobInv
<1>10. BudgetInv'
  <2> SUFFICES ASSUME NEW d \in Clients
               PROVE  execs[d] + Pending(d)' + Left(cl'[d]) <= 2
    BY <1>1 DEF BudgetInv
  <2>1. execs[d] + Pending(d) + Left(cl[d]) <= 2 /\ execs[d] \in Nat
    BY <1>0 DEF CallsOK, BudgetInv
  <2>2. \A n \in {1, 2, 3} : /\ Out(d, n) \in {0, 1} /\ Out(d, n)' \in {0, 1}
                             /\ d # c \/ n # k.try => Out(d, n)' = Out(d, n)
    BY <1>1, <1>5 DEF Out
  <2>3. CASE d # c
    BY <1>6, <2>1, <2>2, <2>3, LeftTypes DEF Pending
  <2>4. CASE d = c
    <3>1. Out(c, k.try) = 0
      BY <1>8 DEF Out
    <3>2. Pending(c)' <= Pending(c) + 1 /\ Pending(c) \in Nat /\ Pending(c)' \in Nat
      BY <1>2, <2>2, <2>4, <3>1 DEF Pending
    <3>3. Left(m) + 1 = Left(k)
      BY <1>2, <1>4 DEF Left, First, Before, Sent
    <3> QED BY <1>6, <2>1, <2>4, <3>2, <3>3, LeftTypes
  <2> QED BY <2>3, <2>4
<1> QED
  <2>1. jobs' \subseteq [c : Clients, try : 1..3, p : Procs, sess : Procs \cup {None}]
    BY <1>0, <1>1, <1>5 DEF CallsOK
  <2> QED BY <1>0, <1>1, <1>6, <1>7, <1>9, <1>10, <2>1 DEF CallsOK

\* An accepted attempt runs: it is pending no more, and executed at most once.
LEMMA HandleKeeps ==
  ASSUME IInv, NEW p \in Procs, NEW j \in jobs, Handle(p, j) PROVE CallsOK'
<1> DEFINE c == j.c
           k == cl[c]
<1>0. /\ CallsOK /\ cl \in [Clients -> CallRec] /\ execs \in [Clients -> Nat]
      /\ c \in Clients /\ j.try \in {1, 2, 3}
      /\ \A d \in Clients : cl[d] \in CallRec /\ execs[d] \in Nat /\ CallOK(cl[d], execs[d])
  BY CallTypes DEF CallsOK
<1>1. jobs' = jobs \ {j}
  BY DEF Handle
<1>2. PICK ok \in BOOLEAN :
         /\ execs' = IF ok THEN [execs EXCEPT ![c] = @ + 1] ELSE execs
         /\ cl' = IF k.try = j.try /\ k.sub = "await"
                  THEN [cl EXCEPT ![c].sub = IF ok THEN "ok" ELSE "mismatch"]
                  ELSE cl
  BY DEF Handle
<1> HIDE DEF c
<1>3. /\ execs' \in [Clients -> Nat]
      /\ execs'[c] = IF ok THEN execs[c] + 1 ELSE execs[c]
      /\ \A d \in Clients \ {c} : execs'[d] = execs[d]
  BY <1>0, <1>2
<1>4. /\ cl' \in [Clients -> CallRec]
      /\ \A d \in Clients : /\ cl'[d].at = cl[d].at /\ cl'[d].try = cl[d].try
                            /\ cl'[d].res = cl[d].res /\ cl'[d].conn = cl[d].conn
                            /\ cl'[d].victim = cl[d].victim
                            /\ \/ cl'[d].sub = cl[d].sub
                               \/ /\ d = c /\ cl[d].sub = "await"
                                  /\ cl'[d].sub = IF ok THEN "ok" ELSE "mismatch"
  <2>1. CASE k.try = j.try /\ k.sub = "await"
    <3> DEFINE m == [k EXCEPT !.sub = IF ok THEN "ok" ELSE "mismatch"]
    <3>1. cl' = [cl EXCEPT ![c] = m]
      BY <1>2, <2>1
    <3>2. "ok" \in Subs /\ "mismatch" \in Subs
      BY DEF Subs
    <3>3. /\ m \in CallRec /\ m.at = k.at /\ m.try = k.try /\ m.res = k.res /\ m.conn = k.conn
          /\ m.victim = k.victim /\ m.sub = IF ok THEN "ok" ELSE "mismatch"
      BY <1>0, <3>2 DEF CallRec
    <3> HIDE DEF m
    <3> QED BY <1>0, <2>1, <3>1, <3>3
  <2>2. CASE ~(k.try = j.try /\ k.sub = "await")
    BY <1>0, <1>2, <2>2
  <2> QED BY <2>1, <2>2
<1>5. CallInv'
  <2> SUFFICES ASSUME NEW d \in Clients PROVE CallOK(cl'[d], execs'[d])
    BY DEF CallInv
  <2>1. execs'[d] >= execs[d] /\ (d = c /\ ok => execs'[d] >= 1)
    BY <1>0, <1>3
  <2>2. CallOK(cl[d], execs[d]) /\ execs[d] \in Nat /\ execs'[d] \in Nat
    BY <1>0, <1>3
  <2>3. CASE cl'[d].sub = cl[d].sub
    BY <1>4, <2>1, <2>2, <2>3 DEF CallOK
  <2>4. CASE d = c /\ cl[d].sub = "await" /\ cl'[d].sub = IF ok THEN "ok" ELSE "mismatch"
    <3>1. cl[d].at \in {"call", "last"}
      BY <2>2, <2>4 DEF CallOK, Sent
    <3>2. cl'[d].sub \in {"ok", "mismatch"} /\ (cl'[d].sub = "ok" => ok)
      BY <2>4
    <3>3. cl[d].res = "Ok" => execs'[d] >= 1
      BY <2>1, <2>2 DEF CallOK
    <3> QED BY <1>4, <2>1, <2>2, <2>4, <3>1, <3>2, <3>3 DEF CallOK, Sends
  <2> QED BY <1>4, <2>3, <2>4
<1>6. JobInv'
  <2>1. \A d \in Clients : cl'[d].sub \in Before => cl[d].sub \in Before
    BY <1>4 DEF Before
  <2>2. \A i \in jobs : i.c \in Clients
    BY <1>0 DEF CallsOK
  <2> QED BY <1>0, <1>1, <1>4, <2>1, <2>2 DEF CallsOK, JobInv
<1>7. BudgetInv'
  <2> SUFFICES ASSUME NEW d \in Clients
               PROVE  execs'[d] + Pending(d)' + Left(cl'[d]) <= 2
    BY DEF BudgetInv
  <2>1. execs[d] + Pending(d) + Left(cl[d]) <= 2 /\ execs[d] \in Nat
    BY <1>0 DEF CallsOK, BudgetInv
  <2>2. Left(cl'[d]) = Left(cl[d])
    BY <1>4 DEF Left, First, Before, Sent
  <2>3. \A n \in {1, 2, 3} : Out(d, n) \in {0, 1} /\ Out(d, n)' \in {0, 1} /\ Out(d, n)' <= Out(d, n)
    BY <1>1 DEF Out
  <2>4. CASE d # c
    BY <1>3, <2>1, <2>2, <2>3, <2>4, LeftTypes DEF Pending
  <2>5. CASE d = c
    <3>1. Out(c, j.try) = 1
      BY DEF Out, c
    <3>2. Out(c, j.try)' = 0
      <4>1. \A i \in jobs' : ~(i.c = c /\ i.try = j.try)
        BY <1>0, <1>1 DEF CallsOK, JobInv, c
      <4> QED BY <1>2, <4>1 DEF Out
    <3>3. Pending(d)' + 1 <= Pending(d) /\ Pending(d) \in Nat /\ Pending(d)' \in Nat
      BY <1>0, <2>3, <2>5, <3>1, <3>2 DEF Pending
    <3>4. execs'[d] <= execs[d] + 1 /\ execs'[d] \in Nat
      BY <1>0, <1>3, <2>5
    <3> QED BY <2>1, <2>2, <3>3, <3>4, LeftTypes
  <2> QED BY <2>4, <2>5
<1>8. jobs' \subseteq [c : Clients, try : 1..3, p : Procs, sess : Procs \cup {None}]
  BY <1>0, <1>1 DEF CallsOK
<1> QED BY <1>3, <1>4, <1>5, <1>6, <1>7, <1>8 DEF CallsOK
-----------------------------------------------------------------------------
LEMMA CallStep == IInv /\ [Next]_vars => CallsOK'
<1> SUFFICES ASSUME IInv, [Next]_vars PROVE CallsOK'
  OBVIOUS
<1>1. ASSUME NEW c \in Clients, Call(c) \/ ClientSteps(c) \/ GiveUp(c) PROVE CallsOK'
  BY <1>1, AttemptKeeps, EnsureKeeps, SendKeeps DEF ClientSteps
<1>2. ASSUME NEW p \in Procs, ServeSteps(p) PROVE CallsOK'
  BY <1>2, HandleKeeps, OthersKeep DEF ServeSteps
<1>3. ASSUME NEW p \in Procs, Start(p) \/ StartSteps(p) \/ Idle(p) \/ StartError(p)
                              \/ Panic(p) \/ Crash(p)
      PROVE  CallsOK'
  BY <1>3, OthersKeep
<1>4. CASE StopBegin \/ StopSteps \/ StopEscalate \/ CliOpen \/ CliClose \/ UNCHANGED vars
  BY <1>4, OthersKeep
<1> QED BY <1>1, <1>2, <1>3, <1>4 DEF Next

LEMMA InitIInv == Init => IInv
<1> SUFFICES ASSUME Init PROVE IInv
  OBVIOUS
<1> USE LifecycleAssumption DEF Init
<1>1. /\ "idle" \in CallParts /\ 0 \in 0..3 /\ "connect" \in Subs
      /\ "NotRunning" \in Gone \cup {"Unresponsive", "Ok", "Mismatch"}
      /\ "unborn" \in Phases /\ "idle" \in StopParts
  BY DEF CallParts, Subs, Gone, Phases, StopParts
<1>2. Fresh \in CallRec
  BY <1>1 DEF Fresh, CallRec
<1>3. NoStop \in [at : StopParts, force : BOOLEAN, pid : Procs \cup {None},
                  pre : Procs \cup {None}]
  BY <1>1 DEF NoStop
<1>4. TypeOK
  BY <1>1, <1>2, <1>3 DEF TypeOK, CallRec
<1>5. OwnInv /\ SockInv /\ StopInv
  BY DEF OwnInv, SockInv, StopInv, NoStop, Owning, Running
<1>6. CallInv
  <2>1. CallOK(Fresh, 0)
    BY DEF CallOK, Fresh, Sends, Pings, Sent
  <2> QED BY <2>1 DEF CallInv
<1>7. JobInv
  BY DEF JobInv
<1>8. BudgetInv
  <2>1. \A d \in Clients : Pending(d) = 0
    BY DEF Pending, Out
  <2>2. Left(Fresh) = 2
    BY DEF Left, Fresh
  <2> QED BY <2>1, <2>2 DEF BudgetInv
<1> QED BY <1>4, <1>5, <1>6, <1>7, <1>8 DEF IInv

LEMMA Invariance == Spec => []IInv
<1>1. IInv /\ [Next]_vars => IInv'
  <2> SUFFICES ASSUME IInv, [Next]_vars PROVE IInv'
    OBVIOUS
  <2>1. SysOK' /\ CallsOK'
    BY SystemStep, CallStep
  <2> QED BY <2>1 DEF IInv, SysOK, CallsOK, TypeOK, CallRec
<1> QED BY <1>1, InitIInv, PTL DEF Spec

\* The runtime files, the daemons of run_daemon_start and the calls of
\* proxy_daemon_v2 keep their types, whatever the interleaving.
THEOREM TypeCorrect == Spec => []TypeOK
<1>1. IInv => TypeOK
  BY DEF IInv
<1> QED BY <1>1, Invariance, PTL

\* Whoever the socket leads to, while it lives, owns the store: no unlink of a
\* daemon's exit and no cleanup of stale files in run_daemon_start breaks that.
THEOREM SocketCorrect == Spec => []SocketLeadsToOwner
<1>1. IInv => SocketLeadsToOwner
  <2> SUFFICES ASSUME IInv, sock # None, Alive(sock) PROVE lock = sock
    BY DEF SocketLeadsToOwner
  <2>1. sock \in Procs /\ phase[sock] \in Phases
    BY DEF IInv, TypeOK
  <2>2. phase[sock] \in Owning
    BY <2>1 DEF IInv, SockInv, Listening, Alive, Owning
  <2> QED BY <2>1, <2>2 DEF IInv, OwnInv
<1> QED BY <1>1, Invariance, PTL

\* A call sent up to three times is executed at most twice, and one that was
\* answered "ok" was executed (the retries of proxy_daemon_v2).
THEOREM ExecutionsCorrect == Spec => []ExecutionsBounded
<1>1. IInv => ExecutionsBounded
  <2> SUFFICES ASSUME IInv, NEW c \in Clients
               PROVE  /\ cl[c].at = "done" /\ cl[c].res = "Ok" => execs[c] >= 1
                      /\ execs[c] <= 2
    BY DEF ExecutionsBounded
  <2>1. execs[c] + Pending(c) + Left(cl[c]) <= 2 /\ execs[c] \in Nat
    BY CallTypes DEF IInv, BudgetInv
  <2>2. Pending(c) \in Nat
    BY DEF Pending, Out
  <2>3. CallOK(cl[c], execs[c])
    BY CallTypes
  <2> QED BY <2>1, <2>2, <2>3, LeftTypes DEF CallOK
<1> QED BY <1>1, Invariance, PTL
=============================================================================

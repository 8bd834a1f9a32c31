--------------------------- MODULE DaemonLifecycle ---------------------------
(***************************************************************************)
(* One project's daemon processes, the three runtime files they share      *)
(* (mati.sock, mati.pid, mati.starting), the store's file lock, the        *)
(* proxied calls that ping, restart and retry, and `mati daemon stop`.     *)
(* Sources: cli/daemon.rs, mcp/metadata.rs, mcp/daemon_lifecycle.rs,       *)
(* mcp/server.rs (the proxy half), cli/proxy.rs.                           *)
(*                                                                         *)
(* A process identifier is used once, so it also stands for the session    *)
(* UUID its process publishes.  The unlinks of one cleanup are one step;   *)
(* everything between two reads, or a read and an unlink, is a step of its *)
(* own.  Faults are the steps that spend the budget `faults`.              *)
(***************************************************************************)
EXTENDS Naturals, FiniteSets

CONSTANTS Procs,      \* the daemon processes that are ever started
          Clients,    \* the callers of proxy_daemon_v2, one call each
          None,       \* an absent file, a free lock, no process
          Cli,        \* a command line that opens the store directly
          MaxFaults   \* crashes, panics and startup errors in a behaviour

ASSUME LifecycleAssumption ==
    /\ None \notin Procs \cup {Cli}
    /\ Cli \notin Procs
    /\ MaxFaults \in Nat

VARIABLES phase,     \* phase[p]: where run_daemon_start of p is
          lock,      \* the holder of the store's exclusive flock
          sock,      \* mati.sock: the process whose listener it was bound to
          meta,      \* mati.pid: the process that published it
          starting,  \* mati.starting: the process named in the sentinel
          jobs,      \* accepted connections: [c, try, p, sess]
          cl,        \* cl[c]: the proxied call of c
          execs,     \* execs[c]: times the call's command was executed
          stop,      \* the `mati daemon stop` command
          faults     \* faults left

files == <<sock, meta, starting>>
vars == <<phase, lock, sock, meta, starting, jobs, cl, execs, stop, faults>>

Startup == {"stat", "read", "orphan", "corrupt", "stale", "peer", "mark",
            "open", "bind", "publish", "unmark"}
Running == {"ready", "panicked", "drain", "unlink", "close"}
Phases  == {"unborn", "dead"} \cup Startup \cup Running

Alive(p) == phase[p] \notin {"unborn", "dead"}
Listening(p) == phase[p] \in {"publish", "unmark"} \cup Running

-----------------------------------------------------------------------------
(* check_and_cleanup_stale, in the steps in which it looks at the files.   *)

\* has_metadata and has_socket are read; what the caller does next.
StatFiles == IF meta # None THEN "read"
             ELSE IF sock # None THEN "orphan" ELSE "clean"

\* The metadata seen a moment ago is parsed and its PID is tested.
ReadMetadata == IF meta = None THEN "corrupt"
                ELSE IF Alive(meta) THEN "live" ELSE "stale"

\* A dead PID: socket, metadata and sentinel go; unreadable: the first two.
\* Whatever is at those paths now is unlinked.
RemoveStale(verdict) ==
    /\ sock' = None
    /\ meta' = None
    /\ starting' = IF verdict = "stale" THEN None ELSE starting

-----------------------------------------------------------------------------
(* Startup.  Every failure exit removes the sentinel; the process dies and *)
(* the kernel releases its lock.                                           *)

Become(p, ph) == phase' = [phase EXCEPT ![p] = ph]

\* serve_failed and panic events end the waits of every caller that is
\* tailing the shared lifecycle.log, whichever process wrote them.
Announce ==
    cl' = [c \in Clients |->
             IF cl[c].at \in {"waitPeer", "waitMine"}
             THEN [cl[c] EXCEPT !.failed = TRUE] ELSE cl[c]]

Exit(p) ==
    /\ Become(p, "dead")
    /\ lock' = IF lock = p THEN None ELSE lock
    /\ jobs' = {j \in jobs : j.p # p}

FailStart(p) ==
    /\ Exit(p)
    /\ starting' = None
    /\ Announce
    /\ UNCHANGED <<sock, meta, execs, stop>>

\* Identifiers are taken in a fixed order: unborn processes are all alike.
NextUnborn == CHOOSE p \in Procs : phase[p] = "unborn"

\* `mati daemon start`, by hand or by the supervisor's service unit.
Start(p) ==
    /\ phase[p] = "unborn" /\ p = NextUnborn
    /\ Become(p, "stat")
    /\ UNCHANGED <<lock, files, jobs, cl, execs, stop, faults>>

StartStat(p) ==
    /\ phase[p] = "stat"
    /\ LET v == StatFiles IN Become(p, IF v = "clean" THEN "peer" ELSE v)
    /\ UNCHANGED <<lock, files, jobs, cl, execs, stop, faults>>

\* LiveDaemon refuses the start before anything was written.
StartRead(p) ==
    /\ phase[p] = "read"
    /\ LET v == ReadMetadata IN Become(p, IF v = "live" THEN "dead" ELSE v)
    /\ UNCHANGED <<lock, files, jobs, cl, execs, stop, faults>>

StartClean(p) ==
    /\ phase[p] \in {"orphan", "corrupt", "stale"}
    /\ IF phase[p] = "orphan" THEN sock' = None /\ UNCHANGED <<meta, starting>>
       ELSE RemoveStale(phase[p])
    /\ Become(p, "peer")
    /\ UNCHANGED <<lock, jobs, cl, execs, stop, faults>>

\* check_starting_peer_active: a live peer refuses the start, a stale
\* sentinel is removed.
StartPeer(p) ==
    /\ phase[p] = "peer"
    /\ LET active == starting # None /\ Alive(starting)
       IN  /\ Become(p, IF active THEN "dead" ELSE "mark")
           /\ starting' = IF active THEN starting ELSE None
    /\ UNCHANGED <<lock, sock, meta, jobs, cl, execs, stop, faults>>

StartMark(p) ==
    /\ phase[p] = "mark"
    /\ starting' = p
    /\ Become(p, "open")
    /\ UNCHANGED <<lock, sock, meta, jobs, cl, execs, stop, faults>>

\* Store::open takes the lock or fails at once.
StartOpen(p) ==
    /\ phase[p] = "open"
    /\ \/ /\ lock = None
          /\ lock' = p
          /\ Become(p, "bind")
          /\ UNCHANGED <<files, jobs, cl, execs, stop>>
       \/ lock # None /\ FailStart(p)
    /\ UNCHANGED faults

\* UnixListener::bind fails on a path that exists.
StartBind(p) ==
    /\ phase[p] = "bind"
    /\ \/ /\ sock = None
          /\ sock' = p
          /\ Become(p, "publish")
          /\ UNCHANGED <<lock, meta, starting, jobs, cl, execs, stop>>
       \/ sock # None /\ FailStart(p)
    /\ UNCHANGED faults

StartPublish(p) ==
    /\ phase[p] = "publish"
    /\ meta' = p
    /\ Become(p, "unmark")
    /\ UNCHANGED <<lock, sock, starting, jobs, cl, execs, stop, faults>>

StartReady(p) ==
    /\ phase[p] = "unmark"
    /\ starting' = None
    /\ Become(p, "ready")
    /\ UNCHANGED <<lock, sock, meta, jobs, cl, execs, stop, faults>>

\* A handled error between the sentinel and readiness (canonicalize, graph
\* load, socket path length, metadata publication).
StartError(p) ==
    /\ phase[p] \in {"open", "bind", "publish"}
    /\ faults > 0 /\ faults' = faults - 1
    /\ FailStart(p)

-----------------------------------------------------------------------------
(* Serving and shutting down.                                              *)

\* MUTANT: the connection counter is not decremented when the caller left.
HandleLeaks(p, j) ==
    /\ phase[p] \in {"ready", "panicked", "drain"}
    /\ j.p = p
    /\ cl[j.c].try = j.try /\ cl[j.c].sub = "await"
    /\ jobs' = jobs \ {j}
    /\ LET ok == j.sess = p
           c  == j.c
       IN  /\ execs' = IF ok THEN [execs EXCEPT ![c] = @ + 1] ELSE execs
           /\ cl' = [cl EXCEPT ![c].sub = IF ok THEN "ok" ELSE "mismatch"]
    /\ UNCHANGED <<phase, lock, files, stop, faults>>

\* The handler of one connection: dispatch_v2 refuses a foreign session,
\* executes otherwise, and the answer reaches the caller if it still waits.
Handle(p, j) ==
    /\ phase[p] \in {"ready", "panicked", "drain"}
    /\ j.p = p
    /\ jobs' = jobs \ {j}
    /\ LET ok == j.sess = p
           c  == j.c
       IN  /\ execs' = IF ok THEN [execs EXCEPT ![c] = @ + 1] ELSE execs
           /\ cl' = IF cl[c].try = j.try /\ cl[c].sub = "await"
                    THEN [cl EXCEPT ![c].sub = IF ok THEN "ok" ELSE "mismatch"]
                    ELSE cl
    /\ UNCHANGED <<phase, lock, files, stop, faults>>

\* Idle shutdown: nothing was accepted for IDLE_SHUTDOWN_SECS and no
\* connection is being handled.
Idle(p) ==
    /\ phase[p] = "ready"
    /\ \A j \in jobs : j.p # p
    /\ Become(p, "drain")
    /\ UNCHANGED <<lock, files, jobs, cl, execs, stop, faults>>

\* A handler panics: the hook unlinks socket and metadata, the connection
\* is lost, the accept loop ends at its next reap.
Panic(p) ==
    /\ phase[p] = "ready"
    /\ faults > 0 /\ faults' = faults - 1
    /\ \E j \in jobs : j.p = p /\ jobs' = jobs \ {j}
    /\ sock' = None /\ meta' = None
    /\ Announce
    /\ Become(p, "panicked")
    /\ UNCHANGED <<lock, starting, execs, stop>>

Reap(p) ==
    /\ phase[p] = "panicked"
    /\ Become(p, "drain")
    /\ UNCHANGED <<lock, files, jobs, cl, execs, stop, faults>>

\* The bounded drain: handlers end by themselves or are aborted.
Drain(p) ==
    /\ phase[p] = "drain"
    /\ jobs' = {j \in jobs : j.p # p}
    /\ Become(p, "unlink")
    /\ UNCHANGED <<lock, files, cl, execs, stop, faults>>

\* MUTANT: the store is closed before the files are removed.
UnlinkAfterClose(p) ==
    /\ phase[p] = "unlink"
    /\ lock' = IF lock = p THEN None ELSE lock
    /\ Become(p, "close")
    /\ UNCHANGED <<files, jobs, cl, execs, stop, faults>>

Unlink(p) ==
    /\ phase[p] = "unlink"
    /\ sock' = None /\ meta' = None /\ starting' = None
    /\ Become(p, "close")
    /\ UNCHANGED <<lock, jobs, cl, execs, stop, faults>>

Close(p) ==
    /\ phase[p] = "close"
    /\ Exit(p)
    /\ UNCHANGED <<files, cl, execs, stop, faults>>

\* SIGKILL, power loss: the files stay, the lock goes.
Crash(p) ==
    /\ Alive(p)
    /\ faults > 0 /\ faults' = faults - 1
    /\ Exit(p)
    /\ UNCHANGED <<files, cl, execs, stop>>

\* SIGTERM: handled once the daemon serves, deadly before.
Sigterm(p) ==
    IF phase[p] = "ready" THEN Become(p, "drain") /\ UNCHANGED <<lock, jobs>>
    ELSE IF phase[p] \in Startup THEN Exit(p)
    ELSE UNCHANGED <<phase, lock, jobs>>

-----------------------------------------------------------------------------
(* A command line in direct mode: StoreProxy::open found no daemon, takes  *)
(* the lock for the length of one command.                                 *)

CliOpen ==
    /\ lock = None
    /\ lock' = Cli
    /\ UNCHANGED <<phase, files, jobs, cl, execs, stop, faults>>

CliClose ==
    /\ lock = Cli
    /\ lock' = None
    /\ UNCHANGED <<phase, files, jobs, cl, execs, stop, faults>>

-----------------------------------------------------------------------------
(* A proxied call (proxy_daemon_v2): two attempts, then ensure_daemon and  *)
(* a third.  cl[c].at is the part it is in, .try the number of the attempt,*)
(* .sub the step of that attempt, .res the result it would return.         *)

Gone == {"NotRunning", "StaleSocket"}

CallParts == {"idle", "call", "ping1", "ping2", "kill", "killWait", "wipe",
              "peer", "spawn", "waitPeer", "waitMine", "last", "done"}
Pings == {"ping1", "ping2", "waitPeer", "waitMine"}
Sends == Pings \cup {"call", "last"}
Subs  == {"connect", "stat", "read", "orphan", "corrupt", "stale", "send",
          "await", "ok", "mismatch"}

Fresh == [at |-> "idle", try |-> 0, sub |-> "connect", res |-> "NotRunning",
          again |-> FALSE, conn |-> None, failed |-> FALSE, victim |-> None]

Goto(k, part) == [k EXCEPT !.at = part, !.sub = "connect", !.conn = None,
                           !.failed = FALSE, !.again = FALSE]

Finish(k, res) == [Fresh EXCEPT !.at = "done", !.res = res]

\* MUTANT: an unresponsive daemon is respawned and the command sent again.
AfterCallEager(k, res, retryable) ==
    IF k.try = 1 /\ retryable THEN [Goto(k, "call") EXCEPT !.try = 2, !.res = res]
    ELSE IF res \in Gone \cup {"Unresponsive"} THEN [Goto(k, "ping1") EXCEPT !.res = res]
    ELSE Finish(k, res)

\* MUTANT: a retryable attempt is always tried again.
AfterCallUnbounded(k, res, retryable) ==
    IF retryable THEN [Goto(k, "call") EXCEPT !.try = k.try + 1, !.res = res]
    ELSE IF res \in Gone THEN [Goto(k, "ping1") EXCEPT !.res = res]
    ELSE Finish(k, res)

\* Where the call goes with the outcome `res` of one attempt.  A command is
\* tried twice and only a daemon that is gone is worth a spawn; a ping that
\* failed twice decides the phase of ensure_daemon.
AfterCall(k, res, retryable) ==
    IF k.try = 1 /\ retryable THEN [Goto(k, "call") EXCEPT !.try = 2, !.res = res]
    ELSE IF res \in Gone THEN [Goto(k, "ping1") EXCEPT !.res = res]
    ELSE Finish(k, res)

AfterPing(k, res) ==
    IF res = "Ok" THEN [Goto(k, "last") EXCEPT !.try = 3]
    ELSE IF ~k.again /\ k.at \in {"ping1", "ping2"} THEN [Goto(k, k.at) EXCEPT !.failed = k.failed, !.again = TRUE]
    ELSE IF k.at = "ping1" /\ res = "Unresponsive" THEN Goto(k, "ping2")
    ELSE IF k.at = "ping2" /\ res = "Unresponsive" THEN Goto(k, "kill")
    ELSE IF k.at \in {"ping1", "ping2"} THEN Goto(k, "peer")
    ELSE [Goto(k, k.at) EXCEPT !.failed = k.failed]

After(k, res, retryable) ==
    IF k.at = "call" THEN AfterCall(k, res, retryable)
    ELSE IF k.at = "last" THEN Finish(k, res)
    ELSE AfterPing(k, res)

Sub(c, s) == cl' = [cl EXCEPT ![c].sub = s]
Settle(c, res, retryable) == cl' = [cl EXCEPT ![c] = After(@, res, retryable)]

Call(c) ==
    /\ cl[c].at = "idle"
    /\ cl' = [cl EXCEPT ![c] = [Goto(@, "call") EXCEPT !.try = 1]]
    /\ UNCHANGED <<phase, lock, files, jobs, execs, stop, faults>>

\* The socket is missing, refuses (its listener is dead) or accepts.  A
\* ping is answered by a serving daemon and times out on one that is not.
Connect(c) ==
    /\ cl[c].at \in Sends /\ cl[c].sub = "connect"
    /\ \/ sock = None /\ Settle(c, "NotRunning", TRUE)
       \/ sock # None /\ ~Listening(sock) /\ Sub(c, "stat")
       \/ /\ sock # None /\ Listening(sock)
          /\ IF cl[c].at \in Pings
             THEN Settle(c, IF phase[sock] = "ready" THEN "Ok" ELSE "Unresponsive", TRUE)
             ELSE cl' = [cl EXCEPT ![c].sub = "send", ![c].conn = sock]
    /\ UNCHANGED <<phase, lock, files, jobs, execs, stop, faults>>

\* ECONNREFUSED: check_and_cleanup_stale decides, in its own steps.
Refused(c) ==
    /\ cl[c].at \in Sends
    /\ \/ /\ cl[c].sub = "stat"
          /\ IF StatFiles = "clean" THEN Settle(c, "StaleSocket", TRUE)
             ELSE Sub(c, StatFiles)
          /\ UNCHANGED files
       \/ /\ cl[c].sub = "read"
          /\ IF ReadMetadata = "live" THEN Settle(c, "Unresponsive", TRUE)
             ELSE Sub(c, ReadMetadata)
          /\ UNCHANGED files
       \/ /\ cl[c].sub = "orphan"
          /\ sock' = None
          /\ Settle(c, "StaleSocket", TRUE)
          /\ UNCHANGED <<meta, starting>>
       \/ /\ cl[c].sub \in {"corrupt", "stale"}
          /\ RemoveStale(cl[c].sub)
          /\ Settle(c, "StaleSocket", TRUE)
    /\ UNCHANGED <<phase, lock, jobs, execs, stop, faults>>

\* The session is read from the metadata after the connection was made.
Send(c) ==
    /\ cl[c].sub = "send"
    /\ jobs' = IF Listening(cl[c].conn)
               THEN jobs \cup {[c |-> c, try |-> cl[c].try, p |-> cl[c].conn, sess |-> meta]}
               ELSE jobs
    /\ Sub(c, "await")
    /\ UNCHANGED <<phase, lock, files, execs, stop, faults>>

Reply(c) ==
    /\ cl[c].sub \in {"ok", "mismatch"}
    /\ IF cl[c].sub = "ok" THEN Settle(c, "Ok", FALSE)
       ELSE Settle(c, "Mismatch", TRUE)
    /\ UNCHANGED <<phase, lock, files, jobs, execs, stop, faults>>

\* No answer within two seconds; the handler may still run.
TimeOut(c) ==
    /\ cl[c].sub = "await"
    /\ Settle(c, "Unresponsive", TRUE)
    /\ UNCHANGED <<phase, lock, files, jobs, execs, stop, faults>>

\* ensure_daemon, still unresponsive: the PID of the metadata is terminated,
\* then killed, and the files are removed whoever owns them by then.
Kill(c) ==
    /\ cl[c].at = "kill"
    /\ cl' = [cl EXCEPT ![c] = [Goto(@, IF meta = None THEN "wipe" ELSE "killWait")
                                  EXCEPT !.victim = meta]]
    /\ IF meta = None THEN UNCHANGED <<phase, lock, jobs>> ELSE Sigterm(meta)
    /\ UNCHANGED <<files, execs, stop, faults>>

KillWait(c) ==
    /\ cl[c].at = "killWait"
    /\ IF Alive(cl[c].victim) THEN Exit(cl[c].victim)
       ELSE UNCHANGED <<phase, lock, jobs>>
    /\ cl' = [cl EXCEPT ![c] = [Goto(@, "wipe") EXCEPT !.victim = None]]
    /\ UNCHANGED <<files, execs, stop, faults>>

Wipe(c) ==
    /\ cl[c].at = "wipe"
    /\ sock' = None /\ meta' = None
    /\ cl' = [cl EXCEPT ![c] = Goto(@, "peer")]
    /\ UNCHANGED <<phase, lock, starting, jobs, execs, stop, faults>>

\* A sentinel (if young) means that somebody else is starting the daemon.
Peer(c) ==
    /\ cl[c].at = "peer"
    /\ \E part \in IF starting = None THEN {"spawn"} ELSE {"waitPeer", "spawn"} :
          cl' = [cl EXCEPT ![c] = Goto(@, part)]
    /\ UNCHANGED <<phase, lock, files, jobs, execs, stop, faults>>

\* The result of spawn() is ignored.
Spawn(c) ==
    /\ cl[c].at = "spawn"
    /\ \/ (\E p \in Procs : phase[p] = "unborn") /\ Become(NextUnborn, "stat")
       \/ (\A p \in Procs : phase[p] # "unborn") /\ UNCHANGED phase
    /\ cl' = [cl EXCEPT ![c] = Goto(@, "waitMine")]
    /\ UNCHANGED <<lock, files, jobs, execs, stop, faults>>

\* MUTANT: the probe of ensure_daemon spawns and probes again.
GiveUpLoops(c) ==
    /\ cl[c].at \in {"waitPeer", "waitMine"}
    /\ cl[c].failed \/ \A p \in Procs : phase[p] \notin Startup
    /\ cl' = [cl EXCEPT ![c] = Goto(@, "ping1")]
    /\ UNCHANGED <<phase, lock, files, jobs, execs, stop, faults>>

\* wait_for_ready ends without a daemon: a failure event appeared in the
\* log, or it stopped growing (nobody is starting any more).
GiveUp(c) ==
    /\ cl[c].at \in {"waitPeer", "waitMine"}
    /\ cl[c].failed \/ \A p \in Procs : phase[p] \notin Startup
    /\ cl' = [cl EXCEPT ![c] = IF @.at = "waitPeer" THEN Goto(@, "spawn") ELSE Finish(@, @.res)]
    /\ UNCHANGED <<phase, lock, files, jobs, execs, stop, faults>>

-----------------------------------------------------------------------------
(* `mati daemon stop`: classify_daemon, the kill flow and the wait for the *)
(* files.  Without force a live owner is terminated and a socket without   *)
(* metadata is left alone; force kills at once.                            *)

StopParts == {"idle", "look", "ping", "wipe", "signal", "wait", "settle", "done"}

StopBegin ==
    /\ stop.at = "idle"
    /\ \E force \in BOOLEAN : stop' = [stop EXCEPT !.at = "look", !.force = force]
    /\ UNCHANGED <<phase, lock, files, jobs, cl, execs, faults>>

NoStop == [at |-> "idle", force |-> FALSE, pid |-> None, pre |-> None]

StopTo(part, pid) ==
    stop' = IF part = "done" THEN [NoStop EXCEPT !.at = "done"]
            ELSE [stop EXCEPT !.at = part, !.pid = pid]

\* Only the sentinel is there: a live starter is killed under force.
StopNoFiles ==
    /\ stop.at = "look" /\ meta = None /\ sock = None
    /\ IF starting # None /\ Alive(starting) /\ stop.force
       THEN StopTo("signal", starting) ELSE StopTo("done", None)
    /\ UNCHANGED <<phase, lock, files, jobs, cl, execs, faults>>

StopLook ==
    /\ stop.at = "look" /\ (meta # None \/ sock # None)
    /\ IF meta # None /\ ~Alive(meta) THEN StopTo("wipe", None)
       ELSE IF sock # None THEN StopTo("ping", meta)
       ELSE StopTo("signal", meta)
    /\ UNCHANGED <<phase, lock, files, jobs, cl, execs, faults>>

\* The socket is pinged.  Nobody there: everything is wiped.  A known PID is
\* signalled.  An unknown owner that answers needs force (lsof names it);
\* one that does not and has published nothing is taken for stale files.
StopPing ==
    /\ stop.at = "ping"
    /\ LET gone == sock = None \/ ~Listening(sock)
           answers == ~gone /\ phase[sock] = "ready"
       IN  IF gone THEN StopTo("wipe", None)
           ELSE IF stop.pid # None THEN StopTo("signal", stop.pid)
           ELSE IF answers
                THEN IF stop.force THEN StopTo("signal", IF meta = None THEN sock ELSE meta)
                     ELSE StopTo("done", None)
           ELSE IF meta # None THEN StopTo("signal", meta) ELSE StopTo("wipe", None)
    /\ UNCHANGED <<phase, lock, files, jobs, cl, execs, faults>>

StopWipe ==
    /\ stop.at = "wipe"
    /\ sock' = None /\ meta' = None /\ starting' = None
    /\ StopTo("done", None)
    /\ UNCHANGED <<phase, lock, jobs, cl, execs, faults>>

\* kill_flow: the session is noted and the signal sent; --no-wait returns.
StopSignal ==
    /\ stop.at = "signal"
    /\ \/ stop' = [stop EXCEPT !.at = "wait", !.pre = meta]
       \/ StopTo("done", None)
    /\ IF stop.force /\ Alive(stop.pid) THEN Exit(stop.pid) ELSE Sigterm(stop.pid)
    /\ UNCHANGED <<files, cl, execs, faults>>

\* SIGTERM's budget is over (a fault): SIGKILL.
StopEscalate ==
    /\ stop.at = "wait" /\ Alive(stop.pid)
    /\ faults > 0 /\ faults' = faults - 1
    /\ Exit(stop.pid)
    /\ UNCHANGED <<files, cl, execs, stop>>

\* The process is gone; another session in the metadata means that a fresh
\* daemon owns the files now.
StopExited ==
    /\ stop.at = "wait" /\ ~Alive(stop.pid)
    /\ LET recycled == stop.pre # None /\ meta # None /\ stop.pre # meta
       IN  StopTo(IF recycled THEN "done" ELSE "settle", stop.pid)
    /\ UNCHANGED <<phase, lock, files, jobs, cl, execs, faults>>

\* wait_for_files_removed: they disappear, or are unlinked after 500 ms.
StopSettle ==
    /\ stop.at = "settle"
    /\ sock' = None /\ meta' = None /\ starting' = None
    /\ StopTo("done", None)
    /\ UNCHANGED <<phase, lock, jobs, cl, execs, faults>>

-----------------------------------------------------------------------------
Init ==
    /\ phase = [p \in Procs |-> "unborn"]
    /\ lock = None /\ sock = None /\ meta = None /\ starting = None
    /\ jobs = {}
    /\ cl = [c \in Clients |-> Fresh]
    /\ execs = [c \in Clients |-> 0]
    /\ stop = NoStop
    /\ faults = MaxFaults

StartSteps(p) ==
    \/ StartStat(p) \/ StartRead(p) \/ StartClean(p) \/ StartPeer(p)
    \/ StartMark(p) \/ StartOpen(p) \/ StartBind(p) \/ StartPublish(p)
    \/ StartReady(p)

ServeSteps(p) ==
    \/ \E j \in jobs : Handle(p, j)
    \/ Reap(p) \/ Drain(p) \/ Unlink(p) \/ Close(p)

ClientSteps(c) ==
    \/ Connect(c) \/ Refused(c) \/ Send(c) \/ Reply(c) \/ TimeOut(c)
    \/ Kill(c) \/ KillWait(c) \/ Wipe(c) \/ Peer(c) \/ Spawn(c)

StopSteps ==
    \/ StopNoFiles \/ StopLook \/ StopPing \/ StopWipe \/ StopSignal
    \/ StopExited \/ StopSettle

Next ==
    \/ \E p \in Procs : \/ Start(p) \/ StartSteps(p) \/ ServeSteps(p) \/ Idle(p)
                        \/ StartError(p) \/ Panic(p) \/ Crash(p)
    \/ \E c \in Clients : Call(c) \/ ClientSteps(c) \/ GiveUp(c)
    \/ StopBegin \/ StopSteps \/ StopEscalate
    \/ CliOpen \/ CliClose

\* Every process runs until it blocks, the idle timer fires on a daemon that
\* nobody reaches, every wait of a caller is bounded, a command line ends.
Fairness ==
    /\ \A p \in Procs : WF_vars(StartSteps(p) \/ ServeSteps(p)) /\ WF_vars(Idle(p))
    /\ \A c \in Clients : WF_vars(ClientSteps(c) \/ GiveUp(c))
    /\ WF_vars(StopSteps) /\ WF_vars(CliClose)

Spec == Init /\ [][Next]_vars /\ Fairness

-----------------------------------------------------------------------------
\* The types of the variables.
TypeOK ==
    /\ phase \in [Procs -> Phases]
    /\ lock \in Procs \cup {None, Cli}
    /\ {sock, meta, starting} \subseteq Procs \cup {None}
    /\ jobs \subseteq [c : Clients, try : 1..3, p : Procs, sess : Procs \cup {None}]
    /\ cl \in [Clients -> [at : CallParts, try : 0..3, sub : Subs,
                           res : Gone \cup {"Unresponsive", "Ok", "Mismatch"},
                           again : BOOLEAN, conn : Procs \cup {None},
                           failed : BOOLEAN, victim : Procs \cup {None}]]
    /\ execs \in [Clients -> Nat]
    /\ stop \in [at : StopParts, force : BOOLEAN, pid : Procs \cup {None},
                 pre : Procs \cup {None}]
    /\ faults \in 0..MaxFaults

\* Whoever the socket leads to, while it lives, owns the store: no request is
\* answered by a process that lost or never had the lock, whatever starters,
\* stops, crashes and direct commands do.  So the unconditional unlink of a
\* daemon's exit can never hit a successor's socket.
SocketLeadsToOwner ==
    (sock # None /\ Alive(sock)) => lock = sock

\* Retries of a proxied command: an "ok" answer means that it was executed,
\* and no call executes it more than twice although it may be sent three
\* times and a handler may still run after the caller gave up.
ExecutionsBounded ==
    \A c \in Clients :
        /\ cl[c].at = "done" /\ cl[c].res = "Ok" => execs[c] >= 1
        /\ execs[c] <= 2

\* Every proxied call returns: the attempts, the probes, the spawn and the
\* readiness waits never send it round in a circle.
CallsReturn == \A c \in Clients : cl[c].at = "call" ~> cl[c].at = "done"

OwnerCutOff == lock \in Procs /\ phase[lock] = "ready" /\ sock # lock

\* A serving daemon whose socket was unlinked under it releases the store in
\* the end: nobody can reach it, its connections end, the idle timer fires.
LostSocketReleasesStore == OwnerCutOff ~> ~OwnerCutOff

\* "Only remove stale socket+metadata when PID is dead": starters and the
\* callers that found a refused socket never unlink a live process's socket.
LiveNeverUnlinked ==
    [][\A p \in Procs :
          (\E q \in Procs : StartSteps(q)) \/ (\E c \in Clients : Refused(c))
             => ~(sock = p /\ Alive(p) /\ sock' # p)]_vars

=============================================================================

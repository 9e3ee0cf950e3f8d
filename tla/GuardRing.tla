------------------------------ MODULE GuardRing ------------------------------
(***************************************************************************)
(* The ring of Java guards: JavaDaemon.fire, AppProcessRunnable,           *)
(* DaemonMain and the lock functions of keep_alive.cpp.                    *)
(*                                                                         *)
(* Name 1 is the process ":daemon", names 2..N are ":assist1" and so on,   *)
(* in the order of JavaDaemon's args.  Each application process locks the  *)
(* file of its own name and starts a guard process, DaemonMain, which      *)
(* waits for the locks of all the OTHER names: thread 1 of the guard is    *)
(* DaemonMain's main thread, threads 2.. are the tasks of its scheduler.   *)
(***************************************************************************)
EXTENDS Flock

CONSTANTS N,             \* how many names there are, three in the code
          Guards,        \* the slots for guard processes (bounds them)
          Honoured,      \* the restart requests this platform serves
          ForceStop,     \* starting an instrumentation kills the application
          Reschedules,   \* the platform may restart a killed service itself
          FlockMayFail,  \* flock or open may return an error
          StartMayFail,  \* startService may throw, as it does in the background
          MaxKills       \* bounds the kills by the environment

Names     == 1 .. N
Daemon    == 1
Threads   == 1 .. N - 1
Main      == 1                          \* the guard's main thread
Kinds     == {"service", "broadcast", "instrumentation"}

ASSUME GuardRingAssumption ==
    /\ N \in Nat \ {0, 1}
    /\ Honoured \subseteq Kinds
    /\ \A b \in {ForceStop, Reschedules, FlockMayFail, StartMayFail} : b \in BOOLEAN
    /\ MaxKills \in Nat

\* The descriptors: of an application process, of a thread of a guard.
AppFd(n)      == <<n, 0>>
GuardFd(g, i) == <<g, i>>
GuardFds(g)   == {GuardFd(g, i) : i \in Threads}
Fds           == {Free} \cup {AppFd(n) : n \in Names} \cup UNION {GuardFds(g) : g \in Guards}

VARIABLES app,     \* application process n: "dead", "born" (forked), "up" (attached)
          svc,     \* its service: "none", "wanted" (asked of the platform), "created"
          spawn,   \* whether its AppProcessRunnable is still to run
          lock,    \* who holds the lock of n's file
          owner,   \* the name the guard in slot g was started for, 0: no guard
          pc,      \* where thread i of guard g is
          req,     \* oneway requests of guards the platform has not served yet
          kills    \* kills by the environment so far

vars == <<app, svc, spawn, lock, owner, pc, req, kills>>

\* probe: about to try the lock; held: has it for a moment; block: in
\* flock(LOCK_EX); then the three requests; exit: main thread about to kill its
\* process; done: the task is over and the process stays.
Sending == {"service", "broadcast", "instrumentation"}
Alarmed == Sending \cup {"exit", "done"}
PC      == {"idle", "probe", "held", "block"} \cup Alarmed

TypeOK == /\ app \in [Names -> {"dead", "born", "up"}]
          /\ svc \in [Names -> {"none", "wanted", "created"}]
          /\ spawn \in [Names -> BOOLEAN]
          /\ lock \in [Names -> Fds]
          /\ owner \in [Guards -> Names \cup {0}]
          /\ pc \in [Guards -> [Threads -> PC]]
          /\ req \subseteq Kinds
          /\ kills \in 0 .. MaxKills

\* The name whose lock thread i of a guard started for n waits for: the i-th
\* name of JavaDaemon's args that is not n.
WatchedNameReversed(n, i) == IF N - i < n THEN N - i ELSE N - i + 1
WatchedName(n, i) == IF i < n THEN i ELSE i + 1
WatchedBy(g, i)   == WatchedName(owner[g], i)

NoService        == [n \in Names |-> "none"]
OnlyDaemonWanted == [NoService EXCEPT ![Daemon] = "wanted"]

\* startService for the services of a set: one that exists is left as it is.
StartServices(S) == [n \in Names |-> IF n \in S /\ svc[n] = "none"
                                       THEN "wanted" ELSE svc[n]]

\* fireService(DaemonService) catches what startService throws and then binds
\* without BIND_AUTO_CREATE, which starts nothing; started: what a start leads to.
FireService(started, before) ==
    svc' = started \/ (StartMayFail /\ svc' = before)

----------------------------------------------------------------------------
(* The application processes *)

\* The main process has fired DaemonService, nothing else runs.
Init == /\ app   = [n \in Names |-> "dead"]
        /\ svc   = OnlyDaemonWanted
        /\ spawn = [n \in Names |-> FALSE]
        /\ lock  = [n \in Names |-> Free]
        /\ owner = [g \in Guards |-> 0]
        /\ pc    = [g \in Guards |-> [i \in Threads |-> "idle"]]
        /\ req   = {}
        /\ kills = 0

\* The platform forks the process of a service it was asked to start.
StartProcess(n) ==
    /\ app[n] = "dead" /\ svc[n] = "wanted"
    /\ app' = [app EXCEPT ![n] = "born"]
    /\ UNCHANGED <<svc, spawn, lock, owner, pc, req, kills>>

\* JavaDaemon.fire: one try for the lock, whose failure nobody looks at.
LockFile(n) ==
    \/ lock[n] = Free /\ lock' = Grant(lock, n, AppFd(n))
    \/ (lock[n] # Free \/ FlockMayFail) /\ UNCHANGED lock

\* DaemonHolder.attach: lock, schedule the start of a guard, fire DaemonService.
Attach(n) ==
    /\ app[n] = "born"
    /\ app' = [app EXCEPT ![n] = "up"]
    /\ LockFile(n)
    /\ spawn' = [spawn EXCEPT ![n] = TRUE]
    /\ FireService(StartServices({Daemon}), svc)
    /\ UNCHANGED <<owner, pc, req, kills>>

\* onCreate of DaemonService starts the assistants, that of an assistant binds
\* DaemonService.
CreateService(n) ==
    /\ app[n] = "up" /\ svc[n] = "wanted"
    /\ svc' = [StartServices(IF n = Daemon THEN Names \ {Daemon} ELSE {Daemon})
                 EXCEPT ![n] = "created"]
    /\ UNCHANGED <<app, spawn, lock, owner, pc, req, kills>>

\* AppProcessRunnable.run: a guard starts whether or not one for n runs already.
\* Its scheduler has one thread, enough for the one task of three names.
SpawnGuardOneTaskMore(n, g) ==
    /\ spawn[n] /\ owner[g] = 0
    /\ spawn' = [spawn EXCEPT ![n] = FALSE]
    /\ owner' = [owner EXCEPT ![g] = n]
    /\ pc' = [pc EXCEPT ![g] = [i \in 1 .. N |-> "probe"]]
    /\ UNCHANGED <<app, svc, lock, req, kills>>
SpawnGuard(n, g) ==
    /\ spawn[n] /\ owner[g] = 0
    /\ spawn' = [spawn EXCEPT ![n] = FALSE]
    /\ owner' = [owner EXCEPT ![g] = n]
    /\ pc' = [pc EXCEPT ![g] = [i \in Threads |-> "probe"]]
    /\ UNCHANGED <<app, svc, lock, req, kills>>

\* ShellExecutor.execute swallows every exception: no guard and no retry.
ShellFails(n) ==
    /\ spawn[n]
    /\ spawn' = [spawn EXCEPT ![n] = FALSE]
    /\ UNCHANGED <<app, svc, lock, owner, pc, req, kills>>

----------------------------------------------------------------------------
(* A guard thread: wait_file_lock, then the three requests *)

Goto(g, i, l) == pc' = [pc EXCEPT ![g][i] = l]

\* flock with LOCK_EX grants the lock only when it is free.
GrabEvenIfTaken(g, i) == lock' = Grant(lock, WatchedBy(g, i), GuardFd(g, i))
Grab(g, i) == /\ lock[WatchedBy(g, i)] = Free
              /\ lock' = Grant(lock, WatchedBy(g, i), GuardFd(g, i))

\* Where a failed probe leads: out of the loop, to the blocking flock.
BusySkipsBlock == "service"
Busy == "block"

\* flock(LOCK_EX | LOCK_NB): success is undone by Release, any failure ends the loop.
Probe(g, i) ==
    /\ pc[g][i] = "probe"
    /\ \/ Grab(g, i) /\ Goto(g, i, "held")
       \/ /\ lock[WatchedBy(g, i)] # Free \/ FlockMayFail
          /\ Goto(g, i, Busy)
          /\ UNCHANGED lock
    /\ UNCHANGED <<app, svc, spawn, owner, req, kills>>

\* flock(LOCK_UN), sleep(1), next round of the loop.
ReleaseNoUnlock(g, i) ==
    pc[g][i] = "held" /\ Goto(g, i, "probe") /\ UNCHANGED <<app, svc, spawn, lock, owner, req, kills>>
Release(g, i) ==
    /\ pc[g][i] = "held"
    /\ lock' = Unlock(lock, WatchedBy(g, i))
    /\ Goto(g, i, "probe")
    /\ UNCHANGED <<app, svc, spawn, owner, req, kills>>

\* Where the return of wait_file_lock leads: to execute, whatever it returned.
OnLockReturnsOnly == "done"
OnLock == "service"

\* The blocking flock(LOCK_EX) returns with the lock; the descriptor is never closed.
Acquire(g, i) ==
    /\ pc[g][i] = "block" /\ Grab(g, i)
    /\ Goto(g, i, OnLock)
    /\ UNCHANGED <<app, svc, spawn, owner, req, kills>>

\* It returns with an error, which DaemonMain cannot tell from the lock.
AcquireFails(g, i) ==
    /\ pc[g][i] = "block" /\ FlockMayFail
    /\ Goto(g, i, OnLock)
    /\ UNCHANGED <<app, svc, spawn, lock, owner, req, kills>>

\* What follows each request: DaemonMain.execute ends in main's killProcess, a
\* DaemonRunnable just returns.
AfterRetries(k, i) == CASE k = "service" -> "broadcast" [] OTHER -> "service"
AfterGivesUp(k, i) == IF i = Main THEN "exit" ELSE "done"
After(k, i) == CASE k = "service"   -> "broadcast"
                 [] k = "broadcast" -> "instrumentation"
                 [] OTHER           -> IF i = Main THEN "exit" ELSE "done"

\* startService, broadcastIntent, startInstrumentation, in this order and oneway:
\* a request the platform does not honour is lost without a sign.
Send(g, i) ==
    /\ pc[g][i] \in Sending
    /\ req' = req \cup ({pc[g][i]} \cap Honoured)
    /\ Goto(g, i, After(pc[g][i], i))
    /\ UNCHANGED <<app, svc, spawn, lock, owner, kills>>

\* The end of a guard process: its threads stop and its locks are free again.
EndGuard(g) ==
    /\ owner' = [owner EXCEPT ![g] = 0]
    /\ pc' = [pc EXCEPT ![g] = [i \in Threads |-> "idle"]]
    /\ lock' = CloseAll(lock, GuardFds(g))

\* DaemonMain.main: Process.killProcess of the guard itself.
Exit(g) ==
    /\ pc[g][Main] = "exit"
    /\ EndGuard(g)
    /\ UNCHANGED <<app, svc, spawn, req, kills>>

----------------------------------------------------------------------------
(* The platform serves requests and kills processes *)

\* The death of the application processes of a set.
EndApps(S) ==
    /\ app'   = [n \in Names |-> IF n \in S THEN "dead" ELSE app[n]]
    /\ spawn' = [n \in Names |-> spawn[n] /\ n \notin S]
    /\ lock'  = CloseAll(lock, {AppFd(n) : n \in S})

\* The platform starts DaemonService itself, or what it starts fires it.
ServeStart(k) ==
    /\ k \in req /\ (k = "instrumentation" => ~ForceStop)
    /\ req' = req \ {k}
    /\ IF k = "service" THEN svc' = StartServices({Daemon})
                        ELSE FireService(StartServices({Daemon}), svc)
    /\ UNCHANGED <<app, spawn, lock, owner, pc, kills>>

\* An instrumentation that first stops the application it instruments: then
\* DaemonInstrumentation.onCreate fires DaemonService.
ServeForceStop ==
    /\ ForceStop /\ "instrumentation" \in req
    /\ req' = req \ {"instrumentation"}
    /\ EndApps(Names)
    /\ FireService(OnlyDaemonWanted, NoService)
    /\ UNCHANGED <<owner, pc, kills>>

\* The environment kills an application process; the platform may restart its
\* sticky or bound service, or may not.
MayKill == kills < MaxKills
KillApp(n) ==
    /\ MayKill /\ app[n] # "dead"
    /\ kills' = kills + 1
    /\ EndApps({n})
    /\ \E s \in {"none"} \cup (IF Reschedules /\ svc[n] # "none" THEN {"wanted"} ELSE {}) :
          svc' = [svc EXCEPT ![n] = s]
    /\ UNCHANGED <<owner, pc, req>>

\* The environment kills a guard: nobody restarts it.
KillGuard(g) ==
    /\ MayKill /\ owner[g] # 0
    /\ kills' = kills + 1
    /\ EndGuard(g)
    /\ UNCHANGED <<app, svc, spawn, req>>

----------------------------------------------------------------------------
AppStep(n)      == StartProcess(n) \/ Attach(n) \/ CreateService(n)
Runner(n)       == ShellFails(n) \/ \E g \in Guards : SpawnGuard(n, g)
ThreadStep(g, i) == \/ Probe(g, i) \/ Release(g, i) \/ Acquire(g, i)
                    \/ AcquireFails(g, i) \/ Send(g, i)
Serve           == ServeForceStop \/ \E k \in Kinds : ServeStart(k)
Environment     == \/ \E n \in Names : KillApp(n)
                   \/ \E g \in Guards : KillGuard(g)

Next == \/ \E n \in Names : AppStep(n) \/ Runner(n)
        \/ \E g \in Guards : Exit(g) \/ \E i \in Threads : ThreadStep(g, i)
        \/ Serve
        \/ Environment

\* Processes and the platform make progress.  A waiter of a lock that is free
\* again and again gets it: between two probes each thread sleeps a second, so
\* strong fairness of the blocking flock is what the kernel gives it.
Fairness ==
    /\ \A n \in Names : /\ WF_vars(StartProcess(n)) /\ WF_vars(Attach(n))
                        /\ WF_vars(CreateService(n)) /\ WF_vars(Runner(n))
    /\ \A g \in Guards : /\ WF_vars(Exit(g))
                         /\ \A i \in Threads : /\ WF_vars(ThreadStep(g, i))
                                               /\ SF_vars(Acquire(g, i))
    /\ \A k \in Kinds : WF_vars(ServeStart(k))
    /\ WF_vars(ServeForceStop)

Spec     == Init /\ [][Next]_vars
FairSpec == Spec /\ Fairness

----------------------------------------------------------------------------
(* Properties *)

\* LOCK DISCIPLINE.  A lock is with the process whose file it is, alive and past
\* its one try, or with the one thread of a guard that watches the file and is
\* past its flock; and, unless flock fails, a thread that is probing with success
\* or has raised the alarm does hold it (wait_file_lock, lock_file).
Holding(g, i)  == pc[g][i] \in {"held"} \cup Alarmed
LockDiscipline ==
    /\ \A n \in Names : lock[n] # Free =>
          \/ lock[n] = AppFd(n) /\ app[n] = "up"
          \/ \E g \in Guards, i \in Threads :
                /\ lock[n] = GuardFd(g, i) /\ owner[g] # 0
                /\ Holding(g, i) /\ WatchedBy(g, i) = n
    /\ \A g \in Guards, i \in Threads :
          /\ pc[g][i] = "held" => lock[WatchedBy(g, i)] = GuardFd(g, i)
          /\ Holding(g, i) /\ ~FlockMayFail => lock[WatchedBy(g, i)] = GuardFd(g, i)

\* ONE ALARM.  While flock does not fail, at most one thread of all guards has an
\* alarm open for a name, and none has while the process holds its lock: however
\* many guards pile up, a death is announced by one of them at a time.
AlarmFor(n, g, i) == pc[g][i] \in Alarmed /\ WatchedBy(g, i) = n
OneAlarm ==
    ~FlockMayFail =>
      \A n \in Names, g, h \in Guards, i, j \in Threads :
        AlarmFor(n, g, i) => /\ lock[n] # AppFd(n)
                             /\ AlarmFor(n, h, j) => g = h /\ i = j

\* DAEMON'S LOCK IN PASSING.  The task of a guard's scheduler keeps the lock it
\* takes as long as its process lives, and a main thread exits after its three
\* requests: a guard that has the lock of ":daemon" has it by its main thread,
\* which is in a probe or on its way out, so the daemon can have its lock again.
DaemonLockInPassing ==
    \A g \in Guards, i \in Threads : lock[Daemon] = GuardFd(g, i) =>
       i = Main /\ pc[g][i] \in {"held", "exit"} \cup Sending

\* DAEMON REVIVED.  When ":daemon" is dead while a guard waits in the blocking
\* flock for its lock, the platform is asked to start it and it comes back, unless
\* the environment kills again.  Needs one honoured request and a startService that
\* does not throw.
Armed(n)  == \E g \in Guards, i \in Threads : pc[g][i] = "block" /\ WatchedBy(g, i) = n
DaemonRevived ==
    \A k \in 0 .. MaxKills :
      (kills = k /\ app[Daemon] = "dead" /\ Armed(Daemon))
        ~> (app[Daemon] # "dead" \/ kills > k)

\* SETTLES.  The alarms of a bounded number of kills come to an end: from some
\* point on no guard sends requests and none is pending, false alarms included.
Quiet   == req = {} /\ \A g \in Guards, i \in Threads : pc[g][i] \notin Sending \cup {"exit"}
Settles == <>[]Quiet

\* DEATH WATCH.  The ring implements DeathWatch, the moment of a probe apart: a
\* lock that a thread has only probed counts as nobody's.
Baton(n) == CASE lock[n] = Free -> "nobody"
              [] lock[n] = AppFd(n) -> "process"
              [] OTHER -> IF \E g \in Guards, i \in Threads :
                               lock[n] = GuardFd(g, i) /\ pc[g][i] = "held"
                          THEN "nobody" ELSE "watcher"
Abstract == INSTANCE DeathWatch WITH Processes <- Names, Requests <- Kinds,
                                     baton    <- [n \in Names |-> Baton(n)],
                                     asked    <- req
ImplementsDeathWatch == Abstract!Spec
=============================================================================

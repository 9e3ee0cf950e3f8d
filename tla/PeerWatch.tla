------------------------------ MODULE PeerWatch ------------------------------
(***************************************************************************)
(* The native pair: NativeKeepAlive.doDaemon as KeepAliveProcessImpl calls *)
(* it on both sides, ":resident" (side 1) and "android.process.daemon"     *)
(* (side 2).  Each process forks a detached grandchild that runs do_daemon *)
(* on the "-c" files (tier "child") and, when it returns, falls through to *)
(* the files of its parent; the parent runs do_daemon on the plain files   *)
(* (tier "main").  A side locks its own indicator file, shakes hands by    *)
(* the observer files and waits for the lock of the peer's indicator.      *)
(***************************************************************************)
EXTENDS Flock

CONSTANTS Kids,            \* slots for the grandchildren of a side (bounds them)
          LockTries,       \* how often do_daemon tries its own indicator
          FlockMayFail,    \* flock or open may return an error
          ForkMayFail,     \* fork may fail
          ServiceMayFail,  \* get_service may return no handle
          AmsMayFail,      \* a side may not get through to the activity manager
          LeadsGroup,      \* an application process leads its process group
          MaxKills         \* bounds the kills by the environment

Sides == 1 .. 2
Tiers == {"main", "child"}
Files == Sides \X Tiers
App   == 0                            \* the slot of the application process
Procs == Sides \X (Kids \cup {App})   \* <<side, slot>>
Persistent == 1

ASSUME PeerWatchAssumption ==
    /\ Kids \subseteq Nat \ {0}
    /\ LockTries \in Nat \ {0}
    /\ \A b \in {FlockMayFail, ForkMayFail, ServiceMayFail, AmsMayFail, LeadsGroup} : b \in BOOLEAN
    /\ MaxKills \in Nat

VARIABLES pc,      \* where the process is, "none" when it does not run
          tier,    \* whose files it works on
          tries,   \* failed tries for its own indicator
          handle,  \* whether get_service found the activity manager
          lock,    \* who holds the lock of each indicator file
          obs,     \* whether each observer file exists
          asked,   \* sides whose service the platform was asked to start
          kills    \* kills by the environment so far

vars == <<pc, tier, tries, handle, lock, obs, asked, kills>>

Waiting == {"probe", "held", "block"}
Alarm   == {"transact", "clean"}
Past    == {"observe", "await", "unlink", "connect"} \cup Waiting \cup Alarm

TypeOK == /\ pc \in [Procs -> {"none", "fork", "lock", "idle"} \cup Past]
          /\ tier \in [Procs -> Tiers]
          /\ tries \in [Procs -> 0 .. LockTries - 1]
          /\ handle \in [Procs -> BOOLEAN]
          /\ lock \in [Files -> Procs \cup {Free}]
          /\ obs \in [Files -> BOOLEAN]
          /\ asked \subseteq Sides
          /\ kills \in 0 .. MaxKills

Peer(s)     == 3 - s
Own(x)      == <<x[1], tier[x]>>            \* the files of x's own side
Theirs(x)   == <<Peer(x[1]), tier[x]>>      \* and of the side it watches
Alive(s)    == pc[<<s, App>>] # "none"
Goto(x, l)  == pc' = [pc EXCEPT ![x] = l]

----------------------------------------------------------------------------
\* Only the persistent service has been asked for.
Init == /\ pc = [x \in Procs |-> "none"]
        /\ tier = [x \in Procs |-> "main"]
        /\ tries = [x \in Procs |-> 0]
        /\ handle = [x \in Procs |-> FALSE]
        /\ lock = [f \in Files |-> Free]
        /\ obs = [f \in Files |-> FALSE]
        /\ asked = {Persistent}
        /\ kills = 0

\* initAmsBinder and startServiceByAmsBinder: whom a request for the service of s
\* reaches, s or, with no binder or a transact that throws, nobody.
AskFor(s) == {{s}} \cup (IF AmsMayFail THEN {{}} ELSE {})

\* onPersistentCreate and onDaemonAssistantCreate: ask for the peer's service, then
\* start the thread of doDaemon, asked or not.  A service that exists is left as it is.
Start(s) ==
    /\ s \in asked
    /\ IF Alive(s)
         THEN /\ asked' = asked \ {s}
              /\ UNCHANGED <<pc, tier>>
         ELSE /\ \E A \in AskFor(Peer(s)) : asked' = (asked \ {s}) \cup A
              /\ Goto(<<s, App>>, "fork")
              /\ tier' = [tier EXCEPT ![<<s, App>>] = "main"]
    /\ UNCHANGED <<tries, handle, lock, obs, kills>>

\* keep_alive_do_daemon: the first child leaves the session and forks the
\* grandchild, the parent waits for the first child only and goes on.
Fork(s, k) ==
    /\ pc[<<s, App>>] = "fork" /\ pc[<<s, k>>] = "none"
    /\ pc' = [pc EXCEPT ![<<s, App>>] = "lock", ![<<s, k>>] = "lock"]
    /\ tier' = [tier EXCEPT ![<<s, k>>] = "child"]
    /\ tries' = [tries EXCEPT ![<<s, App>>] = 0, ![<<s, k>>] = 0]
    /\ UNCHANGED <<handle, lock, obs, asked, kills>>

\* The first fork fails: exit(-1) of the application.  The second: no grandchild.
ForkFails(s) ==
    /\ ForkMayFail /\ pc[<<s, App>>] = "fork"
    /\ \E l \in {"none", "lock"} : Goto(<<s, App>>, l)
    /\ tries' = [tries EXCEPT ![<<s, App>>] = 0]
    /\ UNCHANGED <<tier, handle, lock, obs, asked, kills>>

\* do_daemon returns: a grandchild that had the "-c" files runs it once more on its
\* parent's files, any other process goes back to Java and stays.
Return(x) ==
    IF x[2] # App /\ tier[x] = "child"
      THEN Goto(x, "lock") /\ tier' = [tier EXCEPT ![x] = "main"]
      ELSE Goto(x, "idle") /\ UNCHANGED tier

\* lock_file of its own indicator.
TakeOwnUnlooked(x) == \/ lock[Own(x)] # Free /\ UNCHANGED lock
                      \/ lock[Own(x)] = Free /\ lock' = Grant(lock, Own(x), x)
TakeOwn(x) == lock[Own(x)] = Free /\ lock' = Grant(lock, Own(x), x)
Lock(x) ==
    /\ pc[x] = "lock" /\ TakeOwn(x)
    /\ Goto(x, "observe")
    /\ tries' = [tries EXCEPT ![x] = 0]
    /\ UNCHANGED <<tier, handle, obs, asked, kills>>

\* It fails: another try, or do_daemon gives up.
TriesLeftCountedLate(x) == tries[x] < LockTries
TriesLeft(x) == tries[x] + 1 < LockTries
LockFails(x) ==
    /\ pc[x] = "lock" /\ (lock[Own(x)] # Free \/ FlockMayFail)
    /\ IF TriesLeft(x)
         THEN /\ tries' = [tries EXCEPT ![x] = @ + 1]
              /\ UNCHANGED <<pc, tier>>
         ELSE /\ tries' = [tries EXCEPT ![x] = 0]
              /\ Return(x)
    /\ UNCHANGED <<handle, lock, obs, asked, kills>>

\* notify_and_waitfor: create the own observer file, if open can, ...
Observe(x) ==
    /\ pc[x] = "observe"
    /\ \E made \in IF FlockMayFail THEN BOOLEAN ELSE {TRUE} :
          obs' = [obs EXCEPT ![Own(x)] = @ \/ made]
    /\ Goto(x, "await")
    /\ UNCHANGED <<tier, tries, handle, lock, asked, kills>>

\* ... wait until open finds the peer's ...
PeerReadyUnwaited(x) == TRUE
PeerReady(x) == obs[Theirs(x)]
Await(x) ==
    /\ pc[x] = "await" /\ PeerReady(x)
    /\ Goto(x, "unlink")
    /\ UNCHANGED <<tier, tries, handle, lock, obs, asked, kills>>

\* ... and remove that name, whatever file has it by now.
ToRemoveOwn(x) == Own(x)
ToRemove(x) == Theirs(x)
Unlink(x) ==
    /\ pc[x] = "unlink"
    /\ obs' = [obs EXCEPT ![ToRemove(x)] = FALSE]
    /\ Goto(x, "connect")
    /\ UNCHANGED <<tier, tries, handle, lock, asked, kills>>

\* get_service("activity"): one call, a failure is handle 0 and is not looked at.
Connect(x) ==
    /\ pc[x] = "connect"
    /\ \E h \in IF ServiceMayFail THEN BOOLEAN ELSE {TRUE} :
          handle' = [handle EXCEPT ![x] = h]
    /\ Goto(x, "probe")
    /\ UNCHANGED <<tier, tries, lock, obs, asked, kills>>

\* wait_file_lock of the peer's indicator: the non-blocking probe.
Probe(x) ==
    /\ pc[x] = "probe"
    /\ \/ /\ lock[Theirs(x)] = Free
          /\ lock' = Grant(lock, Theirs(x), x)
          /\ Goto(x, "held")
       \/ /\ lock[Theirs(x)] # Free \/ FlockMayFail
          /\ Goto(x, "block")
          /\ UNCHANGED lock
    /\ UNCHANGED <<tier, tries, handle, obs, asked, kills>>

Release(x) ==
    /\ pc[x] = "held"
    /\ lock' = Unlock(lock, Theirs(x))
    /\ Goto(x, "probe")
    /\ UNCHANGED <<tier, tries, handle, obs, asked, kills>>

\* The blocking flock succeeds: wait_file_lock returns FALSE, do_daemon returns.
Acquire(x) ==
    /\ pc[x] = "block" /\ lock[Theirs(x)] = Free
    /\ lock' = Grant(lock, Theirs(x), x)
    /\ Return(x)
    /\ UNCHANGED <<tries, handle, obs, asked, kills>>

\* It fails: wait_file_lock returns TRUE, which do_daemon takes for the death.
AcquireFails(x) ==
    /\ pc[x] = "block" /\ FlockMayFail
    /\ Goto(x, "transact")
    /\ UNCHANGED <<tier, tries, handle, lock, obs, asked, kills>>

\* write_transact: both sides ask for the persistent service.  To handle 0, the
\* service manager, the transaction means nothing.
Transact(x) ==
    /\ pc[x] = "transact"
    /\ asked' = IF handle[x] THEN asked \cup {Persistent} ELSE asked
    /\ Goto(x, "clean")
    /\ UNCHANGED <<tier, tries, handle, lock, obs, kills>>

\* remove the own observer file, then killpg of the own pid: only the leader of a
\* group dies of it, a grandchild never is one.
Clean(x) ==
    /\ pc[x] = "clean"
    /\ obs' = [obs EXCEPT ![Own(x)] = FALSE]
    /\ IF x[2] = App /\ LeadsGroup
         THEN /\ Goto(x, "none")
              /\ lock' = CloseAll(lock, {x})
              /\ UNCHANGED tier
         ELSE Return(x) /\ UNCHANGED lock
    /\ UNCHANGED <<tries, handle, asked, kills>>

----------------------------------------------------------------------------
\* The environment kills one process: its grandchildren and its peer live on.
Kill(x) ==
    /\ kills < MaxKills /\ pc[x] # "none"
    /\ kills' = kills + 1
    /\ Goto(x, "none")
    /\ lock' = CloseAll(lock, {x})
    /\ tries' = [tries EXCEPT ![x] = 0]
    /\ UNCHANGED <<tier, handle, obs, asked>>

\* Something else, the mutual binding or the user, starts a dead side again.
Relaunch(s) ==
    /\ kills > 0 /\ ~Alive(s) /\ s \notin asked
    /\ asked' = asked \cup {s}
    /\ UNCHANGED <<pc, tier, tries, handle, lock, obs, kills>>

----------------------------------------------------------------------------
SideStep(s) == Start(s) \/ ForkFails(s) \/ \E k \in Kids : Fork(s, k)
DoDaemon(x) == \/ Lock(x) \/ LockFails(x) \/ Observe(x) \/ Await(x) \/ Unlink(x)
               \/ Connect(x) \/ Probe(x) \/ Release(x) \/ Acquire(x) \/ AcquireFails(x)
               \/ Transact(x) \/ Clean(x)

Next == \/ \E s \in Sides : SideStep(s) \/ Relaunch(s)
        \/ \E x \in Procs : DoDaemon(x) \/ Kill(x)

\* Processes run.  The environment need not kill nor relaunch anything.
Fairness == /\ \A s \in Sides : WF_vars(SideStep(s))
            /\ \A x \in Procs : WF_vars(DoDaemon(x))

Spec     == Init /\ [][Next]_vars
FairSpec == Spec /\ Fairness

----------------------------------------------------------------------------
(* Properties *)

\* ONE DAEMON PER INDICATOR.  Of all processes of a side, parents, grandchildren
\* and those of earlier launches, at most one is past its own lock on a file, and
\* it still holds that lock while it shakes hands, watches and raises the alarm.
OneDaemonPerFile ==
    \A x \in Procs : pc[x] \in Past =>
       /\ lock[Own(x)] = x
       /\ \A y \in Procs : pc[y] \in Past /\ Own(y) = Own(x) => y = x

\* HANDSHAKE.  Until something is killed, a side that has passed the handshake
\* watches a peer that holds its indicator: the first probe finds it taken, and
\* no side ever takes the other's indicator.
HandshakeSound ==
    kills = 0 /\ ~FlockMayFail =>
       \A x \in Procs :
          /\ pc[x] \in {"connect"} \cup Waiting =>
                \E y \in Procs : y[1] = Peer(x[1]) /\ lock[Theirs(x)] = y
          /\ pc[x] # "held"

\* BOTH ARMED.  From a clean start both sides end up waiting for each other in both
\* tiers, unless something is killed or the request of startServiceByAmsBinder for
\* the peer reached nobody: the observer files let nobody wait for ever.  In the
\* last case they do: the side that asked looks at no result and stays in the
\* handshake with a peer that does not run.
ArmedOn(f)    == \E x \in Procs : pc[x] = "block" /\ Theirs(x) = f
NobodyReached == \E s \in Sides : Alive(s) /\ ~Alive(Peer(s)) /\ Peer(s) \notin asked
EndUpArmed    == <>(kills > 0 \/ NobodyReached \/ \A f \in Files : ArmedOn(f))

\* DEAD PEER RESTARTED.  "when processName dead, we should save time to restart":
\* a dead side that a watcher waits for is asked for, or alive, sooner or later.
DeadPeerRestarted ==
    \A s \in Sides, k \in 0 .. MaxKills :
       (kills = k /\ ~Alive(s) /\ ArmedOn(<<s, "main">>))
         ~> (s \in asked \/ Alive(s) \/ kills > k)
=============================================================================

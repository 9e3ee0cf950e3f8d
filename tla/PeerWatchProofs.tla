--------------------------- MODULE PeerWatchProofs ---------------------------
(***************************************************************************)
(* Proofs about PeerWatch, for every set of grandchild slots, every number *)
(* of tries, every fault of the platform and every number of kills.        *)
(***************************************************************************)
EXTENDS PeerWatch, TLAPS

\* No process is the free lock, each side has one peer, and a slot makes a process.
LEMMA Processes ==
    /\ \A x \in Procs : x # Free /\ x[1] \in Sides /\ Own(x)[1] = x[1] /\ Theirs(x)[1] # x[1]
    /\ \A s \in Sides : Peer(s) \in Sides /\ <<s, App>> \in Procs
    /\ \A s \in Sides, k \in Kids : <<s, k>> \in Procs /\ <<s, k>> # <<s, App>>
  BY PeerWatchAssumption DEF PeerWatchAssumption, Procs, Sides, Free, Own, Theirs, Peer, App

\* The files of a process that has a tier.
LEMMA FilesOf ==
    ASSUME NEW x \in Procs, tier[x] \in Tiers
    PROVE  Own(x) \in Files /\ Theirs(x) \in Files
  BY Processes DEF Files, Own, Theirs

\* Where Return leaves a process.
LEMMA ReturnTo ==
    ASSUME TypeOK, NEW x \in Procs, Return(x)
    PROVE  /\ \E l \in {"lock", "idle"} : pc' = [pc EXCEPT ![x] = l]
           /\ tier' \in [Procs -> Tiers]
           /\ \A y \in Procs : y # x => tier'[y] = tier[y]
  BY DEF TypeOK, Return, Goto, Tiers

----------------------------------------------------------------------------
\* TYPE CORRECTNESS: every reachable state satisfies TypeOK.
THEOREM TypeCorrect == Spec => []TypeOK
<1> USE PeerWatchAssumption DEF PeerWatchAssumption
<1>1. Init => TypeOK
  BY DEF Init, TypeOK, Tiers, Sides, Persistent
<1>2. TypeOK /\ [Next]_vars => TypeOK'
  <2> SUFFICES ASSUME TypeOK, [Next]_vars PROVE TypeOK'
    OBVIOUS
  <2> USE DEF TypeOK
  <2>f. \A x \in Procs : Own(x) \in Files /\ Theirs(x) \in Files
    BY FilesOf
  <2>g. \A x \in Procs, l \in {"none", "fork", "lock", "idle"} \cup Past :
           Goto(x, l) => pc' \in [Procs -> {"none", "fork", "lock", "idle"} \cup Past]
    BY DEF Goto
  <2>t. \A x \in Procs : /\ Grant(lock, Own(x), x) \in [Files -> Procs \cup {Free}]
                         /\ Grant(lock, Theirs(x), x) \in [Files -> Procs \cup {Free}]
                         /\ Unlock(lock, Theirs(x)) \in [Files -> Procs \cup {Free}]
                         /\ CloseAll(lock, {x}) \in [Files -> Procs \cup {Free}]
    BY <2>f DEF Grant, Unlock, CloseAll
  <2>z. 0 \in 0 .. LockTries - 1
    OBVIOUS
  <2>1. ASSUME NEW s \in Sides, Start(s) PROVE TypeOK'
    <3>1. CASE Alive(s)
      BY <2>1, <3>1 DEF Start
    <3>2. CASE ~Alive(s)
      <4>1. <<s, App>> \in Procs /\ Peer(s) \in Sides
        BY Processes
      <4>0. \A A \in AskFor(Peer(s)) : A \subseteq Sides
        BY <4>1 DEF AskFor
      <4>2. asked' \subseteq Sides
        BY <2>1, <3>2, <4>0 DEF Start
      <4>3. pc' \in [Procs -> {"none", "fork", "lock", "idle"} \cup Past]
        BY <2>1, <3>2, <4>1, <2>g DEF Start
      <4>4. tier' \in [Procs -> Tiers]
        BY <2>1, <3>2, <4>1 DEF Start, Tiers
      <4> QED BY <2>1, <3>2, <4>2, <4>3, <4>4 DEF Start
    <3> QED BY <3>1, <3>2
  <2>2. ASSUME NEW s \in Sides, NEW k \in Kids, Fork(s, k) PROVE TypeOK'
    <3>1. <<s, App>> \in Procs /\ <<s, k>> \in Procs
      BY Processes
    <3>2. pc' \in [Procs -> {"none", "fork", "lock", "idle"} \cup Past]
      BY <2>2, <3>1 DEF Fork
    <3>3. tier' \in [Procs -> Tiers]
      BY <2>2, <3>1 DEF Fork, Tiers
    <3>4. tries' \in [Procs -> 0 .. LockTries - 1]
      BY <2>2, <3>1, <2>z DEF Fork
    <3> QED BY <2>2, <3>2, <3>3, <3>4 DEF Fork
  <2>3. ASSUME NEW s \in Sides, ForkFails(s) PROVE TypeOK'
    BY <2>3, <2>g, Processes DEF ForkFails
  <2>4. ASSUME NEW x \in Procs, Lock(x) PROVE TypeOK'
    <3>1. tries' \in [Procs -> 0 .. LockTries - 1]
      BY <2>4, <2>z DEF Lock
    <3>2. pc' \in [Procs -> {"none", "fork", "lock", "idle"} \cup Past]
      BY <2>4, <2>g DEF Lock, Past
    <3> QED BY <2>4, <3>1, <3>2, <2>t DEF Lock, TakeOwn
  <2>5. ASSUME NEW x \in Procs, LockFails(x) PROVE TypeOK'
    <3>1. CASE TriesLeft(x)
      BY <2>5, <3>1 DEF LockFails, TriesLeft
    <3>2. CASE ~TriesLeft(x)
      BY <2>5, <3>2, ReturnTo DEF LockFails
    <3> QED BY <3>1, <3>2
  <2>6. ASSUME NEW x \in Procs, Observe(x) \/ Await(x) \/ Unlink(x) PROVE TypeOK'
    BY <2>6, <2>g DEF Observe, Await, Unlink, Past
  <2>7. ASSUME NEW x \in Procs, Connect(x) PROVE TypeOK'
    <3>1. handle' \in [Procs -> BOOLEAN]
      BY <2>7 DEF Connect
    <3> QED BY <2>7, <3>1, <2>g DEF Connect, Past, Waiting
  <2>8. ASSUME NEW x \in Procs, Probe(x) PROVE TypeOK'
    BY <2>8, <2>g, <2>t DEF Probe, Past, Waiting
  <2>9. ASSUME NEW x \in Procs, Release(x) PROVE TypeOK'
    BY <2>9, <2>g, <2>t DEF Release, Past, Waiting
  <2>10. ASSUME NEW x \in Procs, Acquire(x) PROVE TypeOK'
    BY <2>10, <2>t, ReturnTo DEF Acquire
  <2>11. ASSUME NEW x \in Procs, AcquireFails(x) PROVE TypeOK'
    BY <2>11, <2>g DEF AcquireFails, Past, Alarm
  <2>12. ASSUME NEW x \in Procs, Transact(x) PROVE TypeOK'
    BY <2>12, <2>g DEF Transact, Past, Alarm, Sides, Persistent
  <2>13. ASSUME NEW x \in Procs, Clean(x) PROVE TypeOK'
    <3>1. CASE x[2] = App /\ LeadsGroup
      BY <2>13, <3>1, <2>g, <2>t DEF Clean
    <3>2. CASE ~(x[2] = App /\ LeadsGroup)
      BY <2>13, <3>2, ReturnTo DEF Clean
    <3> QED BY <3>1, <3>2
  <2>14. ASSUME NEW x \in Procs, Kill(x) PROVE TypeOK'
    <3>1. tries' \in [Procs -> 0 .. LockTries - 1]
      BY <2>14, <2>z DEF Kill
    <3>2. kills' \in 0 .. MaxKills
      BY <2>14 DEF Kill
    <3> QED BY <2>14, <3>1, <3>2, <2>g, <2>t DEF Kill
  <2>15. ASSUME NEW s \in Sides, Relaunch(s) PROVE TypeOK'
    BY <2>15 DEF Relaunch
  <2>16. CASE UNCHANGED vars
    BY <2>16 DEF vars
  <2> QED BY <2>1, <2>2, <2>3, <2>4, <2>5, <2>6, <2>7, <2>8, <2>9, <2>10, <2>11,
             <2>12, <2>13, <2>14, <2>15, <2>16 DEF Next, SideStep, DoDaemon
<1> QED BY <1>1, <1>2, PTL DEF Spec

----------------------------------------------------------------------------
(* One daemon per indicator *)

\* Past its lock a process holds it, and while its probe succeeds the peer's too.
Holds == \A x \in Procs : /\ pc[x] \in Past => lock[Own(x)] = x
                          /\ pc[x] = "held" => lock[Theirs(x)] = x

LEMMA HoldsInit == Init => Holds
  BY DEF Init, Holds, Past, Waiting, Alarm

\* A step that leaves a process and its files alone leaves what it holds alone.
LEMMA HoldsFrame ==
    ASSUME Holds,
           \A y \in Procs : \/ pc'[y] \notin Past
                            \/ /\ pc'[y] = pc[y] /\ tier'[y] = tier[y]
                               /\ \A f \in {Own(y), Theirs(y)} : lock[f] = y => lock'[f] = y
    PROVE  Holds'
  BY DEF Holds, Own, Theirs, Past, Waiting

\* A process leaves the ones that are past their lock, keeping what it locked.
LEMMA HoldsLeave ==
    ASSUME TypeOK, Holds, NEW x \in Procs, NEW l \in {"none", "fork", "lock", "idle"},
           pc' = [pc EXCEPT ![x] = l], \A y \in Procs : y # x => tier'[y] = tier[y],
           UNCHANGED lock \/ lock' = CloseAll(lock, {x})
    PROVE  Holds'
<1>1. pc'[x] \notin Past
  BY DEF TypeOK, Past, Waiting, Alarm
<1>2. ASSUME NEW y \in Procs, y # x
      PROVE  /\ pc'[y] = pc[y] /\ tier'[y] = tier[y]
             /\ \A f \in {Own(y), Theirs(y)} : lock[f] = y => lock'[f] = y
  <2>1. Own(y) \in Files /\ Theirs(y) \in Files
    BY FilesOf DEF TypeOK
  <2> QED BY <1>2, <2>1 DEF TypeOK, CloseAll
<1> QED BY <1>1, <1>2, HoldsFrame

\* A process that holds its own lock moves on, granted the free lock of f or none.
LEMMA HoldsMove ==
    ASSUME TypeOK, Holds, NEW x \in Procs, NEW l \in Past, pc' = [pc EXCEPT ![x] = l],
           UNCHANGED tier, lock[Own(x)] = x \/ lock'[Own(x)] = x,
           l = "held" => lock'[Theirs(x)] = x,
           UNCHANGED lock \/ \E f \in Files : lock[f] = Free /\ lock' = Grant(lock, f, x)
    PROVE  Holds'
<1> SUFFICES ASSUME NEW y \in Procs
             PROVE  /\ pc'[y] \in Past => lock'[Own(y)] = y
                    /\ pc'[y] = "held" => lock'[Theirs(y)] = y
  BY DEF Holds, Own, Theirs
<1>1. \A f \in Files, z \in Procs : lock[f] = z => lock'[f] = z
  BY Processes DEF TypeOK, Grant
<1>2. Own(y) \in Files /\ Theirs(y) \in Files
  BY FilesOf DEF TypeOK
<1>3. CASE y = x
  BY <1>1, <1>2, <1>3 DEF TypeOK
<1>4. CASE y # x
  BY <1>1, <1>2, <1>4 DEF TypeOK, Holds
<1> QED BY <1>3, <1>4

\* Every step keeps what the processes hold.
LEMMA HoldsStep == TypeOK /\ Holds /\ [Next]_vars => Holds'
<1> SUFFICES ASSUME TypeOK, Holds, [Next]_vars PROVE Holds'
  OBVIOUS
<1>f. \A x \in Procs : Own(x) \in Files /\ Theirs(x) \in Files
  BY FilesOf DEF TypeOK
<1>1. ASSUME NEW s \in Sides, Start(s) PROVE Holds'
  <2>1. CASE Alive(s)
    BY <1>1, <2>1, HoldsFrame DEF Start
  <2>2. CASE ~Alive(s)
    <3>1. <<s, App>> \in Procs
      BY Processes
    <3> QED BY <1>1, <2>2, <3>1, HoldsLeave DEF Start, Goto, TypeOK
  <2> QED BY <2>1, <2>2
<1>2. ASSUME NEW s \in Sides, NEW k \in Kids, Fork(s, k) PROVE Holds'
  <2>1. <<s, App>> \in Procs /\ <<s, k>> \in Procs
    BY Processes
  <2>2. \A y \in Procs : \/ pc'[y] = "lock"
                         \/ pc'[y] = pc[y] /\ tier'[y] = tier[y]
    BY <1>2, <2>1 DEF Fork, TypeOK
  <2>3. "lock" \notin Past
    BY DEF Past, Waiting, Alarm
  <2> QED BY <1>2, <2>2, <2>3, HoldsFrame DEF Fork
<1>3. ASSUME NEW s \in Sides, ForkFails(s) PROVE Holds'
  <2>1. <<s, App>> \in Procs
    BY Processes
  <2> QED BY <1>3, <2>1, HoldsLeave DEF ForkFails, Goto
<1>4. ASSUME NEW x \in Procs, Lock(x) PROVE Holds'
  <2>1. lock'[Own(x)] = x
    BY <1>4, <1>f DEF Lock, TakeOwn, Grant, TypeOK
  <2> QED BY <1>4, <1>f, <2>1, HoldsMove DEF Lock, TakeOwn, Goto, Past
<1>5. ASSUME NEW x \in Procs, LockFails(x) PROVE Holds'
  <2>1. CASE TriesLeft(x)
    BY <1>5, <2>1, HoldsFrame DEF LockFails
  <2>2. CASE ~TriesLeft(x)
    BY <1>5, <2>2, ReturnTo, HoldsLeave DEF LockFails
  <2> QED BY <2>1, <2>2
<1>6. ASSUME NEW x \in Procs,
             \/ Observe(x) \/ Await(x) \/ Unlink(x) \/ Connect(x)
             \/ AcquireFails(x) \/ Transact(x)
      PROVE  Holds'
  <2>1. lock[Own(x)] = x
    BY <1>6 DEF Holds, Observe, Await, Unlink, Connect, AcquireFails, Transact, Past, Waiting, Alarm
  <2>2. \E l \in Past \ {"held"} : pc' = [pc EXCEPT ![x] = l]
    BY <1>6 DEF Observe, Await, Unlink, Connect, AcquireFails, Transact, Goto, Past, Waiting, Alarm
  <2>3. UNCHANGED <<tier, lock>>
    BY <1>6 DEF Observe, Await, Unlink, Connect, AcquireFails, Transact
  <2> QED BY <2>1, <2>2, <2>3, HoldsMove
<1>7. ASSUME NEW x \in Procs, Probe(x) PROVE Holds'
  <2>1. lock[Own(x)] = x
    BY <1>7 DEF Holds, Probe, Past, Waiting
  <2>2. CASE lock[Theirs(x)] = Free /\ lock' = Grant(lock, Theirs(x), x) /\ Goto(x, "held")
    <3>1. lock'[Theirs(x)] = x
      BY <1>f, <2>2 DEF Grant, TypeOK
    <3> QED BY <1>7, <1>f, <2>1, <2>2, <3>1, HoldsMove DEF Probe, Goto, Past, Waiting
  <2>3. CASE Goto(x, "block") /\ UNCHANGED lock
    BY <1>7, <2>1, <2>3, HoldsMove DEF Probe, Goto, Past, Waiting
  <2> QED BY <1>7, <2>2, <2>3 DEF Probe
<1>8. ASSUME NEW x \in Procs, Release(x) PROVE Holds'
  <2>1. /\ lock[Own(x)] = x /\ lock[Theirs(x)] = x /\ Own(x) # Theirs(x)
        /\ lock' = [lock EXCEPT ![Theirs(x)] = Free]
        /\ pc' = [pc EXCEPT ![x] = "probe"] /\ UNCHANGED tier
    BY <1>8, Processes DEF Holds, Release, Unlock, Goto, Past, Waiting
  <2> SUFFICES ASSUME NEW y \in Procs
               PROVE  /\ pc'[y] \in Past => lock'[Own(y)] = y
                      /\ pc'[y] = "held" => lock'[Theirs(y)] = y
    BY <2>1 DEF Holds, Own, Theirs
  <2>2. CASE y = x
    BY <1>f, <2>1, <2>2 DEF TypeOK
  <2>3. CASE y # x
    BY <1>f, <2>1, <2>3 DEF TypeOK, Holds
  <2> QED BY <2>2, <2>3
<1>9. ASSUME NEW x \in Procs, Acquire(x) PROVE Holds'
  <2>1. pc'[x] \notin Past /\ \A y \in Procs : y # x => pc'[y] = pc[y] /\ tier'[y] = tier[y]
    BY <1>9, ReturnTo DEF Acquire, TypeOK, Past, Waiting, Alarm
  <2>2. \A y \in Procs, f \in Files : lock[f] = y => lock'[f] = y
    BY <1>9, <1>f, Processes DEF Acquire, Grant, TypeOK
  <2> QED BY <1>f, <2>1, <2>2, HoldsFrame
<1>10. ASSUME NEW x \in Procs, Clean(x) PROVE Holds'
  <2>1. CASE x[2] = App /\ LeadsGroup
    BY <1>10, <2>1, HoldsLeave DEF Clean, Goto
  <2>2. CASE ~(x[2] = App /\ LeadsGroup)
    BY <1>10, <2>2, ReturnTo, HoldsLeave DEF Clean
  <2> QED BY <2>1, <2>2
<1>11. ASSUME NEW x \in Procs, Kill(x) PROVE Holds'
  BY <1>11, HoldsLeave DEF Kill, Goto
<1>12. ASSUME NEW s \in Sides, Relaunch(s) PROVE Holds'
  BY <1>12, HoldsFrame DEF Relaunch
<1>13. CASE UNCHANGED vars
  BY <1>13, HoldsFrame DEF vars
<1> QED BY <1>1, <1>2, <1>3, <1>4, <1>5, <1>6, <1>7, <1>8, <1>9, <1>10, <1>11, <1>12, <1>13
        DEF Next, SideStep, DoDaemon

LEMMA HoldsAlways == Spec => [](TypeOK /\ Holds)
<1>1. Init => Holds
  BY HoldsInit
<1>2. TypeOK /\ Holds /\ [Next]_vars => Holds'
  BY HoldsStep
<1> QED BY <1>1, <1>2, TypeCorrect, PTL DEF Spec

\* ONE DAEMON PER INDICATOR: of all processes of a side at most one is past its lock
\* on a file, and it holds that lock (PeerWatch!OneDaemonPerFile).
THEOREM OneDaemonPerFileHolds == Spec => []OneDaemonPerFile
<1>1. TypeOK /\ Holds => OneDaemonPerFile
  BY DEF Holds, OneDaemonPerFile
<1> QED BY <1>1, HoldsAlways, PTL

----------------------------------------------------------------------------
(* The handshake, while nothing is killed and flock does not fail *)

\* A process of its own side holds the indicator.
Taken(f) == lock[f] \in Procs /\ lock[f][1] = f[1]

\* Who is past the handshake, or left a sign of it, has its peer's lock taken.
Shaken == /\ \A f \in Files : lock[f] # Free \/ obs[f] => Taken(f)
          /\ \A x \in Procs : pc[x] \in {"unlink", "connect"} \cup Waiting => Taken(Theirs(x))
          /\ \A x \in Procs : pc[x] \notin {"held"} \cup Alarm

Handshake == kills = 0 /\ ~FlockMayFail => Shaken

LEMMA HandshakeInit == Init => Handshake
  BY DEF Init, Handshake, Shaken, Waiting, Alarm

\* What a step has to do to keep it, process by process and file by file.
LEMMA ShakenFrame ==
    ASSUME TypeOK, Shaken,
           \A f \in Files : Taken(f) => lock'[f] = lock[f],
           \A f \in Files : lock'[f] # lock[f] \/ (obs'[f] /\ ~obs[f]) => Taken(f)',
           \A x \in Procs : \/ pc'[x] \notin {"unlink", "connect"} \cup Waiting \cup Alarm
                            \/ /\ pc'[x] \in {"unlink", "connect", "probe", "block"}
                               /\ tier'[x] = tier[x] /\ Taken(Theirs(x))
    PROVE  Shaken'
<1>1. \A f \in Files : Taken(f) => Taken(f)'
  BY DEF Taken
<1>2. \A f \in Files : lock'[f] # Free \/ obs'[f] => Taken(f)'
  BY <1>1 DEF Shaken
<1>3. ASSUME NEW x \in Procs, pc'[x] \in {"unlink", "connect"} \cup Waiting PROVE Taken(Theirs(x))'
  BY <1>1, <1>3, FilesOf DEF TypeOK, Theirs, Taken
<1>4. \A x \in Procs : pc'[x] \notin {"held"} \cup Alarm
  BY DEF Waiting, Alarm
<1> QED BY <1>2, <1>3, <1>4 DEF Shaken, Theirs, Taken

\* A process that moves on in the loop, touching no lock.
LEMMA ShakenMove ==
    ASSUME TypeOK, Shaken, NEW x \in Procs, NEW l, pc' = [pc EXCEPT ![x] = l],
           \A y \in Procs : y # x => tier'[y] = tier[y],
           \/ l \notin {"unlink", "connect"} \cup Waiting \cup Alarm
           \/ l \in {"unlink", "connect", "probe", "block"} /\ tier'[x] = tier[x] /\ Taken(Theirs(x)),
           UNCHANGED lock,
           \A f \in Files : obs'[f] /\ ~obs[f] => Taken(f)
    PROVE  Shaken'
<1>1. \A y \in Procs : \/ pc'[y] \notin {"unlink", "connect"} \cup Waiting \cup Alarm
                       \/ /\ pc'[y] \in {"unlink", "connect", "probe", "block"}
                          /\ tier'[y] = tier[y] /\ Taken(Theirs(y))
  BY DEF TypeOK, Shaken, Waiting, Alarm
<1>2. \A f \in Files : Taken(f)' <=> Taken(f)
  BY DEF Taken
<1> QED BY <1>1, <1>2, ShakenFrame

\* Every step keeps the handshake.
LEMMA HandshakeStep == TypeOK /\ Holds /\ Handshake /\ [Next]_vars => Handshake'
<1> SUFFICES ASSUME TypeOK, Holds, Handshake, [Next]_vars, kills' = 0, ~FlockMayFail
             PROVE  Shaken'
  BY DEF Handshake
<1>k. kills = 0
  <2>1. kills \in Nat
    BY PeerWatchAssumption DEF PeerWatchAssumption, TypeOK
  <2>2. kills' = kills \/ kills' = kills + 1
    BY DEF Next, SideStep, DoDaemon, vars, Start, Fork, ForkFails, Relaunch, Kill, Lock, LockFails,
           Observe, Await, Unlink, Connect, Probe, Release, Acquire, AcquireFails, Transact, Clean
  <2> QED BY <2>1, <2>2
<1>s. Shaken
  BY <1>k DEF Handshake
<1>f. \A x \in Procs : Own(x) \in Files /\ Theirs(x) \in Files
  BY FilesOf DEF TypeOK
<1>t. \A f \in Files : Taken(f) => lock[f] # Free
  BY Processes DEF Taken
<1>1. ASSUME NEW s \in Sides, Start(s) PROVE Shaken'
  <2>1. CASE Alive(s)
    <3>1. UNCHANGED <<pc, tier, lock, obs>>
      BY <1>1, <2>1 DEF Start
    <3> QED BY <1>s, <3>1 DEF Shaken, Taken, Theirs
  <2>2. CASE ~Alive(s)
    <3>1. <<s, App>> \in Procs
      BY Processes
    <3>2. /\ pc' = [pc EXCEPT ![<<s, App>>] = "fork"]
          /\ \A y \in Procs : y # <<s, App>> => tier'[y] = tier[y]
          /\ UNCHANGED <<lock, obs>>
      BY <1>1, <2>2 DEF Start, Goto, TypeOK
    <3>3. "fork" \notin {"unlink", "connect"} \cup Waiting \cup Alarm
      BY DEF Waiting, Alarm
    <3> QED BY <1>s, <3>1, <3>2, <3>3, ShakenMove
  <2> QED BY <2>1, <2>2
<1>2. ASSUME NEW s \in Sides, NEW k \in Kids, Fork(s, k) PROVE Shaken'
  <2>1. <<s, App>> \in Procs /\ <<s, k>> \in Procs
    BY Processes
  <2>2. \A y \in Procs : \/ pc'[y] = "lock"
                         \/ pc'[y] = pc[y] /\ tier'[y] = tier[y]
    BY <1>2, <2>1 DEF Fork, TypeOK
  <2>3. \A y \in Procs : \/ pc'[y] \notin {"unlink", "connect"} \cup Waiting \cup Alarm
                         \/ /\ pc'[y] \in {"unlink", "connect", "probe", "block"}
                            /\ tier'[y] = tier[y] /\ Taken(Theirs(y))
    BY <1>s, <2>2 DEF Shaken, Waiting, Alarm
  <2> QED BY <1>2, <1>s, <2>3, ShakenFrame DEF Fork
<1>3. ASSUME NEW s \in Sides, ForkFails(s) PROVE Shaken'
  <2>1. <<s, App>> \in Procs
    BY Processes
  <2>2. \A l \in {"none", "lock"} : l \notin {"unlink", "connect"} \cup Waiting \cup Alarm
    BY DEF Waiting, Alarm
  <2> QED BY <1>3, <1>s, <2>1, <2>2, ShakenMove DEF ForkFails, Goto
<1>4. ASSUME NEW x \in Procs, Lock(x) PROVE Shaken'
  <2>1. /\ lock[Own(x)] = Free /\ lock' = [lock EXCEPT ![Own(x)] = x]
        /\ pc' = [pc EXCEPT ![x] = "observe"] /\ UNCHANGED <<tier, obs>>
    BY <1>4 DEF Lock, TakeOwn, Grant, Goto
  <2>2. \A f \in Files : Taken(f) => lock'[f] = lock[f]
    BY <1>f, <1>t, <2>1 DEF TypeOK
  <2>3. \A f \in Files : lock'[f] # lock[f] => Taken(f)'
    BY <1>f, <2>1, Processes DEF TypeOK, Taken
  <2>4. \A y \in Procs : \/ pc'[y] \notin {"unlink", "connect"} \cup Waiting \cup Alarm
                         \/ /\ pc'[y] \in {"unlink", "connect", "probe", "block"}
                            /\ tier'[y] = tier[y] /\ Taken(Theirs(y))
    BY <1>s, <2>1 DEF TypeOK, Shaken, Waiting, Alarm
  <2> QED BY <1>s, <2>1, <2>2, <2>3, <2>4, ShakenFrame
<1>5. ASSUME NEW x \in Procs, LockFails(x) PROVE Shaken'
  <2>1. CASE TriesLeft(x)
    <3>1. UNCHANGED <<pc, tier, lock, obs>>
      BY <1>5, <2>1 DEF LockFails
    <3> QED BY <1>s, <3>1 DEF Shaken, Taken, Theirs
  <2>2. CASE ~TriesLeft(x)
    <3>1. UNCHANGED <<lock, obs>> /\ Return(x)
      BY <1>5, <2>2 DEF LockFails
    <3>2. \A l \in {"lock", "idle"} : l \notin {"unlink", "connect"} \cup Waiting \cup Alarm
      BY DEF Waiting, Alarm
    <3> QED BY <1>s, <3>1, <3>2, ReturnTo, ShakenMove
  <2> QED BY <2>1, <2>2
<1>6. ASSUME NEW x \in Procs, Observe(x) PROVE Shaken'
  <2>1. Taken(Own(x))
    BY <1>6, Processes DEF Holds, Observe, Taken, Past
  <2>2. \A f \in Files : obs'[f] /\ ~obs[f] => f = Own(x)
    BY <1>6, <1>f DEF Observe, TypeOK
  <2>3. "await" \notin {"unlink", "connect"} \cup Waiting \cup Alarm
    BY DEF Waiting, Alarm
  <2> QED BY <1>6, <1>s, <2>1, <2>2, <2>3, ShakenMove DEF Observe, Goto
<1>7. ASSUME NEW x \in Procs, Await(x) \/ Unlink(x) PROVE Shaken'
  <2>1. Taken(Theirs(x))
    BY <1>7, <1>f, <1>s DEF Await, Unlink, PeerReady, Shaken
  <2>2. \A f \in Files : obs'[f] => obs[f]
    BY <1>7, <1>f DEF Await, Unlink, ToRemove, TypeOK
  <2>3. UNCHANGED <<tier, lock>> /\ \E l \in {"unlink", "connect"} : Goto(x, l)
    BY <1>7 DEF Await, Unlink
  <2> QED BY <1>s, <2>1, <2>2, <2>3, ShakenMove DEF Goto
<1>8. ASSUME NEW x \in Procs, Connect(x) PROVE Shaken'
  BY <1>8, <1>s, ShakenMove DEF Connect, Goto, Shaken
<1>9. ASSUME NEW x \in Procs, Probe(x) PROVE Shaken'
  <2>1. Taken(Theirs(x))
    BY <1>9, <1>s DEF Probe, Shaken, Waiting
  <2>2. Goto(x, "block") /\ UNCHANGED <<lock, tier, obs>>
    BY <1>9, <1>f, <1>t, <2>1 DEF Probe
  <2> QED BY <1>s, <2>1, <2>2, ShakenMove DEF Goto
<1>10. ASSUME NEW x \in Procs,
              Release(x) \/ Acquire(x) \/ AcquireFails(x) \/ Transact(x) \/ Clean(x)
       PROVE  FALSE
  <2>1. ~Release(x) /\ ~Transact(x) /\ ~Clean(x)
    BY <1>s DEF Shaken, Release, Transact, Clean, Alarm
  <2>2. ~Acquire(x)
    BY <1>s, <1>f, <1>t DEF Shaken, Acquire, Waiting
  <2>3. ~AcquireFails(x)
    BY DEF AcquireFails
  <2> QED BY <1>10, <2>1, <2>2, <2>3
<1>11. ASSUME NEW x \in Procs, Kill(x) PROVE FALSE
  BY <1>11, <1>k DEF Kill
<1>12. ASSUME NEW s \in Sides, Relaunch(s) PROVE FALSE
  BY <1>12, <1>k DEF Relaunch
<1>13. CASE UNCHANGED vars
  BY <1>13, <1>s DEF vars, Shaken, Taken, Theirs
<1> QED BY <1>1, <1>2, <1>3, <1>4, <1>5, <1>6, <1>7, <1>8, <1>9, <1>10, <1>11, <1>12, <1>13
        DEF Next, SideStep, DoDaemon

\* HANDSHAKE: until something is killed, whoever is past the handshake watches a
\* peer that holds its indicator (PeerWatch!HandshakeSound).
THEOREM HandshakeSoundHolds == Spec => []HandshakeSound
<1>1. Init => Handshake
  BY HandshakeInit
<1>2. TypeOK /\ Holds /\ Handshake /\ [Next]_vars => Handshake'
  BY HandshakeStep
<1>3. TypeOK /\ Handshake => HandshakeSound
  <2> SUFFICES ASSUME TypeOK, Shaken, NEW x \in Procs
               PROVE  /\ pc[x] \in {"connect"} \cup Waiting =>
                           \E y \in Procs : y[1] = Peer(x[1]) /\ lock[Theirs(x)] = y
                      /\ pc[x] # "held"
    BY DEF Handshake, HandshakeSound
  <2>1. Theirs(x)[1] = Peer(x[1])
    BY DEF Theirs
  <2> QED BY <2>1 DEF Shaken, Taken
<1> QED BY <1>1, <1>2, <1>3, HoldsAlways, PTL DEF Spec


----------------------------------------------------------------------------
(* What becomes of a dead side *)

\* Granting a free lock takes it from nobody.
LEMMA LockKept ==
    ASSUME TypeOK, NEW x \in Procs, NEW g \in Files, lock[g] = Free, lock' = Grant(lock, g, x)
    PROVE  \A f \in Files, y \in Procs : lock[f] = y => lock'[f] = y
  BY Processes DEF TypeOK, Grant

\* KEPT TILL DEATH: a process that has a lock, its own or that of a side it found
\* dead, gives it up only by dying, except for the probe of wait_file_lock: nothing
\* closes a descriptor (keep_alive.cpp:123-175), so a side that is started
\* again finds its indicator taken as long as the other lives.
KeptTillDeath ==
    [][\A f \in Files, x \in Procs : lock[f] = x /\ lock'[f] # x =>
          pc'[x] = "none" \/ (pc[x] = "held" /\ f = Theirs(x))]_vars

THEOREM KeptTillDeathHolds == Spec => KeptTillDeath
<1> DEFINE Kept(f, y) == lock[f] = y /\ lock'[f] # y =>
                            pc'[y] = "none" \/ (pc[y] = "held" /\ f = Theirs(y))
<1>1. TypeOK /\ Holds /\ [Next]_vars =>
        [\A f \in Files, x \in Procs : lock[f] = x /\ lock'[f] # x =>
            pc'[x] = "none" \/ (pc[x] = "held" /\ f = Theirs(x))]_vars
  <2> SUFFICES ASSUME TypeOK, Holds, Next, NEW f \in Files, NEW y \in Procs
               PROVE  Kept(f, y)
    OBVIOUS
  <2>f. \A x \in Procs : Own(x) \in Files /\ Theirs(x) \in Files
    BY FilesOf DEF TypeOK
  <2>1. ASSUME NEW s \in Sides, SideStep(s) \/ Relaunch(s) PROVE Kept(f, y)
    BY <2>1 DEF SideStep, Relaunch, Start, Fork, ForkFails
  <2>2. ASSUME NEW x \in Procs, Lock(x) PROVE Kept(f, y)
    BY <2>2, <2>f, LockKept DEF Lock, TakeOwn
  <2>3. ASSUME NEW x \in Procs,
               \/ LockFails(x) \/ Observe(x) \/ Await(x) \/ Unlink(x)
               \/ Connect(x) \/ AcquireFails(x) \/ Transact(x)
        PROVE  Kept(f, y)
    BY <2>3 DEF LockFails, Observe, Await, Unlink, Connect, AcquireFails, Transact
  <2>4. ASSUME NEW x \in Procs, Probe(x) PROVE Kept(f, y)
    BY <2>4, <2>f, LockKept DEF Probe
  <2>5. ASSUME NEW x \in Procs, Release(x) PROVE Kept(f, y)
    <3>1. lock[Theirs(x)] = x /\ pc[x] = "held"
      BY <2>5 DEF Release, Holds
    <3>2. CASE f = Theirs(x)
      BY <3>1, <3>2
    <3>3. CASE f # Theirs(x)
      BY <2>5, <3>3 DEF Release, Unlock, TypeOK
    <3> QED  BY <3>2, <3>3
  <2>6. ASSUME NEW x \in Procs, Acquire(x) PROVE Kept(f, y)
    BY <2>6, <2>f, LockKept DEF Acquire
  <2>7. ASSUME NEW x \in Procs, lock' = CloseAll(lock, {x}), Goto(x, "none") PROVE Kept(f, y)
    <3>1. CASE y = x
      BY <2>7, <3>1 DEF Goto, TypeOK
    <3>2. CASE y # x
      BY <2>7, <3>2 DEF CloseAll, TypeOK
    <3> QED  BY <3>1, <3>2
  <2>8. ASSUME NEW x \in Procs, Clean(x) PROVE Kept(f, y)
    <3>1. UNCHANGED lock \/ (lock' = CloseAll(lock, {x}) /\ Goto(x, "none"))
      BY <2>8 DEF Clean
    <3> QED  BY <2>7, <3>1
  <2>9. ASSUME NEW x \in Procs, Kill(x) PROVE Kept(f, y)
    BY <2>7, <2>9 DEF Kill
  <2> HIDE DEF Kept
  <2> QED  BY <2>1, <2>2, <2>3, <2>4, <2>5, <2>6, <2>8, <2>9 DEF Next, DoDaemon
<1> QED  BY <1>1, HoldsAlways, PTL DEF Spec, KeptTillDeath

\* While flock does not fail nobody takes the other side for dead.
NoAlarm == ~FlockMayFail => \A x \in Procs : pc[x] \notin Alarm

LEMMA NoAlarmAlways == Spec => []NoAlarm
<1>1. Init => NoAlarm
  BY DEF Init, NoAlarm, Alarm
<1>2. TypeOK /\ NoAlarm /\ [Next]_vars => NoAlarm'
  <2> SUFFICES ASSUME TypeOK, ~FlockMayFail, NoAlarm, [Next]_vars, NEW y \in Procs
               PROVE  pc'[y] \notin Alarm
    BY DEF NoAlarm
  <2>0. /\ pc[y] \notin Alarm
        /\ \A l : l \notin Alarm =>
              \A x \in Procs : pc' = [pc EXCEPT ![x] = l] => pc'[y] \notin Alarm
        /\ \A l \in {"none", "lock", "idle", "fork", "observe", "await", "unlink", "connect"}
                    \cup Waiting : l \notin Alarm
    BY DEF NoAlarm, TypeOK, Alarm, Waiting
  <2>1. ASSUME NEW s \in Sides, Start(s) \/ ForkFails(s) PROVE pc'[y] \notin Alarm
    <3>1. <<s, App>> \in Procs
      BY Processes
    <3> QED  BY <2>0, <2>1, <3>1 DEF Start, ForkFails, Goto
  <2>2. ASSUME NEW s \in Sides, NEW k \in Kids, Fork(s, k) PROVE pc'[y] \notin Alarm
    <3>1. pc'[y] = "lock" \/ pc'[y] = pc[y]
      BY <2>2, Processes DEF Fork, TypeOK
    <3> QED  BY <2>0, <3>1
  <2>3. ASSUME NEW x \in Procs, LockFails(x) \/ Acquire(x) PROVE pc'[y] \notin Alarm
    <3>1. UNCHANGED pc \/ \E l \in {"lock", "idle"} : pc' = [pc EXCEPT ![x] = l]
      BY <2>3, ReturnTo DEF LockFails, Acquire
    <3> QED  BY <2>0, <3>1
  <2>4. ASSUME NEW x \in Procs,
               \/ Lock(x) \/ Observe(x) \/ Await(x) \/ Unlink(x) \/ Connect(x)
               \/ Probe(x) \/ Release(x) \/ Kill(x)
        PROVE  pc'[y] \notin Alarm
    BY <2>0, <2>4 DEF Lock, Observe, Await, Unlink, Connect, Probe, Release, Kill, Goto, Waiting
  <2>5. ASSUME NEW x \in Procs, AcquireFails(x) \/ Transact(x) \/ Clean(x) PROVE FALSE
    BY <2>5 DEF AcquireFails, Transact, Clean, NoAlarm, Alarm
  <2>6. ASSUME NEW s \in Sides, Relaunch(s) PROVE pc'[y] \notin Alarm
    BY <2>0, <2>6 DEF Relaunch
  <2>7. CASE UNCHANGED vars
    BY <2>0, <2>7 DEF vars
  <2> QED  BY <2>1, <2>2, <2>3, <2>4, <2>5, <2>6, <2>7 DEF Next, SideStep, DoDaemon
<1> QED  BY <1>1, <1>2, TypeCorrect, PTL DEF Spec

\* NEVER ASKED: while flock does not fail, a service is asked for only at a launch or
\* by something outside: the request do_daemon has ready is never sent, however
\* often the other side dies (keep_alive.cpp:174, 239-252).
NeverAsked ==
    [][~FlockMayFail => \/ asked' \subseteq asked
                        \/ \E s \in Sides : Start(s) \/ Relaunch(s)]_vars

THEOREM NeverAskedHolds == Spec => NeverAsked
<1> DEFINE Idle == ~FlockMayFail => \/ asked' \subseteq asked
                                    \/ \E s \in Sides : Start(s) \/ Relaunch(s)
<1>1. NoAlarm /\ [Next]_vars => [Idle]_vars
  <2> SUFFICES ASSUME NoAlarm, Next, ~FlockMayFail
               PROVE  asked' \subseteq asked \/ \E s \in Sides : Start(s) \/ Relaunch(s)
    OBVIOUS
  <2>1. ASSUME NEW x \in Procs, DoDaemon(x) PROVE asked' = asked
    <3>1. ~Transact(x)
      BY DEF Transact, NoAlarm, Alarm
    <3> QED  BY <2>1, <3>1 DEF DoDaemon, Lock, LockFails, Observe, Await, Unlink, Connect,
                               Probe, Release, Acquire, AcquireFails, Clean
  <2>2. ASSUME NEW x \in Procs, Kill(x) PROVE asked' = asked
    BY <2>2 DEF Kill
  <2>3. ASSUME NEW s \in Sides, SideStep(s), ~Start(s) PROVE asked' = asked
    BY <2>3 DEF SideStep, ForkFails, Fork
  <2> QED  BY <2>1, <2>2, <2>3 DEF Next
<1> QED  BY <1>1, NoAlarmAlways, PTL DEF Spec, NeverAsked
=============================================================================

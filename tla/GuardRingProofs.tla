--------------------------- MODULE GuardRingProofs ---------------------------
(***************************************************************************)
(* Proofs about GuardRing, for every number of guard slots, every set of   *)
(* honoured requests and every choice of the platform's constants.         *)
(***************************************************************************)
EXTENDS GuardRing, TLAPS

----------------------------------------------------------------------------
(* Descriptors and the lock table *)

\* The descriptors are of three kinds that do not overlap.
LEMMA Descriptors ==
    /\ Free \in Fds
    /\ \A n \in Names : AppFd(n) \in Fds /\ AppFd(n) # Free
    /\ \A g \in Guards, i \in Threads : GuardFd(g, i) \in Fds /\ GuardFd(g, i) # Free
    /\ \A n \in Names, g \in Guards, i \in Threads : AppFd(n) # GuardFd(g, i)
    /\ \A m, n \in Names : AppFd(m) = AppFd(n) => m = n
    /\ \A g, h \in Guards, i, j \in Threads :
          GuardFd(g, i) = GuardFd(h, j) => g = h /\ i = j
  BY GuardRingAssumption DEF GuardRingAssumption, Names, Threads, Fds, Free, AppFd, GuardFd, GuardFds

\* Every descriptor is one of them.
LEMMA DescriptorCases ==
    \A d \in Fds : \/ d = Free
                   \/ \E n \in Names : d = AppFd(n)
                   \/ \E g \in Guards, i \in Threads : d = GuardFd(g, i)
  BY DEF Fds, GuardFds

\* A guard thread watches a name.
LEMMA WatchedIsName ==
    ASSUME NEW n \in Names \cup {0}, NEW i \in Threads
    PROVE  WatchedName(n, i) \in Names
  BY GuardRingAssumption DEF GuardRingAssumption, Names, Threads, WatchedName

\* The operations of Flock keep a lock table a table of descriptors.
LEMMA TableTypes ==
    ASSUME NEW t \in [Names -> Fds]
    PROVE  /\ \A n \in Names, d \in Fds : Grant(t, n, d) \in [Names -> Fds]
           /\ \A n \in Names : Unlock(t, n) \in [Names -> Fds]
           /\ \A D : CloseAll(t, D) \in [Names -> Fds]
  BY Descriptors DEF Grant, Unlock, CloseAll

----------------------------------------------------------------------------
\* TYPE CORRECTNESS: every reachable state of the ring satisfies TypeOK.
THEOREM TypeCorrect == Spec => []TypeOK
<1>0. OnlyDaemonWanted \in [Names -> {"none", "wanted", "created"}]
  BY DEF OnlyDaemonWanted, NoService
<1>1. Init => TypeOK
  BY <1>0, Descriptors, GuardRingAssumption DEF GuardRingAssumption, Init, TypeOK, PC
<1>2. TypeOK /\ [Next]_vars => TypeOK'
  <2> SUFFICES ASSUME TypeOK, [Next]_vars PROVE TypeOK'
    OBVIOUS
  <2> USE DEF TypeOK
  <2>a. \A g \in Guards, i \in Threads : WatchedBy(g, i) \in Names
    BY WatchedIsName DEF WatchedBy
  <2>b. \A S : StartServices(S) \in [Names -> {"none", "wanted", "created"}]
    BY DEF StartServices
  <2>c. \A g \in Guards, i \in Threads, l \in PC :
           Goto(g, i, l) => pc' \in [Guards -> [Threads -> PC]]
    BY DEF Goto
  <2>d. ASSUME NEW g \in Guards, EndGuard(g)
        PROVE  /\ owner' \in [Guards -> Names \cup {0}]
               /\ pc' \in [Guards -> [Threads -> PC]]
               /\ lock' \in [Names -> Fds]
    <3>1. [i \in Threads |-> "idle"] \in [Threads -> PC]
      BY DEF PC
    <3> QED BY <2>d, <3>1, TableTypes DEF EndGuard
  <2>1. ASSUME NEW n \in Names, AppStep(n) PROVE TypeOK'
    <3>1. CASE StartProcess(n)
      BY <3>1 DEF StartProcess
    <3>2. CASE Attach(n)
      <4>1. lock' \in [Names -> Fds]
        BY <3>2, TableTypes, Descriptors DEF Attach, LockFile
      <4>2. svc' \in [Names -> {"none", "wanted", "created"}]
        BY <3>2, <2>b DEF Attach, FireService
      <4> QED BY <3>2, <4>1, <4>2 DEF Attach
    <3>3. CASE CreateService(n)
      BY <3>3, <2>b DEF CreateService
    <3> QED BY <2>1, <3>1, <3>2, <3>3 DEF AppStep
  <2>2. ASSUME NEW n \in Names, Runner(n) PROVE TypeOK'
    <3>1. CASE ShellFails(n)
      BY <3>1 DEF ShellFails
    <3>2. ASSUME NEW g \in Guards, SpawnGuard(n, g) PROVE TypeOK'
      <4>1. [i \in Threads |-> "probe"] \in [Threads -> PC]
        BY DEF PC
      <4>2. pc' \in [Guards -> [Threads -> PC]]
        BY <3>2, <4>1 DEF SpawnGuard
      <4> QED BY <3>2, <4>2 DEF SpawnGuard
    <3> QED BY <2>2, <3>1, <3>2 DEF Runner
  <2>3. ASSUME NEW g \in Guards, Exit(g) PROVE TypeOK'
    BY <2>3, <2>d DEF Exit
  <2>4. ASSUME NEW g \in Guards, NEW i \in Threads, ThreadStep(g, i) PROVE TypeOK'
    <3>1. CASE Probe(g, i)
      <4>1. "held" \in PC /\ Busy \in PC
        BY DEF PC, Busy
      <4>2. pc' \in [Guards -> [Threads -> PC]]
        BY <3>1, <4>1, <2>c DEF Probe
      <4>3. lock' \in [Names -> Fds]
        BY <3>1, <2>a, TableTypes, Descriptors DEF Probe, Grab
      <4> QED BY <3>1, <4>2, <4>3 DEF Probe
    <3>2. CASE Release(g, i)
      <4>1. "probe" \in PC
        BY DEF PC
      <4> QED BY <3>2, <4>1, <2>a, <2>c, TableTypes DEF Release
    <3>3. CASE Acquire(g, i)
      <4>1. "service" \in PC
        BY DEF PC, Alarmed, Sending
      <4> QED BY <3>3, <4>1, <2>a, <2>c, TableTypes, Descriptors DEF Acquire, Grab, OnLock
    <3>4. CASE AcquireFails(g, i)
      <4>1. "service" \in PC
        BY DEF PC, Alarmed, Sending
      <4> QED BY <3>4, <4>1, <2>c DEF AcquireFails, OnLock
    <3>5. CASE Send(g, i)
      <4>1. After(pc[g][i], i) \in PC
        BY <3>5 DEF Send, After, PC, Alarmed, Sending
      <4>2. pc' \in [Guards -> [Threads -> PC]]
        BY <3>5, <4>1, <2>c DEF Send
      <4>3. req' \subseteq Kinds
        BY <3>5 DEF Send, Sending, Kinds
      <4> QED BY <3>5, <4>2, <4>3 DEF Send
    <3> QED BY <2>4, <3>1, <3>2, <3>3, <3>4, <3>5 DEF ThreadStep
  <2>5. CASE Serve
    <3>1. CASE ServeForceStop
      BY <3>1, TableTypes DEF ServeForceStop, EndApps, FireService, OnlyDaemonWanted, NoService
    <3>2. ASSUME NEW k \in Kinds, ServeStart(k) PROVE TypeOK'
      BY <3>2, <2>b DEF ServeStart, FireService
    <3> QED BY <2>5, <3>1, <3>2 DEF Serve
  <2>6. ASSUME NEW n \in Names, KillApp(n) PROVE TypeOK'
    <3>1. kills' \in 0 .. MaxKills
      BY <2>6, GuardRingAssumption DEF KillApp, MayKill, GuardRingAssumption
    <3>2. /\ app' \in [Names -> {"dead", "born", "up"}]
          /\ spawn' \in [Names -> BOOLEAN]
          /\ lock' \in [Names -> Fds]
      BY <2>6, TableTypes DEF KillApp, EndApps
    <3>3. svc' \in [Names -> {"none", "wanted", "created"}]
      BY <2>6 DEF KillApp
    <3> QED BY <2>6, <3>1, <3>2, <3>3 DEF KillApp
  <2>7. ASSUME NEW g \in Guards, KillGuard(g) PROVE TypeOK'
    <3>1. kills' \in 0 .. MaxKills
      BY <2>7, GuardRingAssumption DEF KillGuard, MayKill, GuardRingAssumption
    <3> QED BY <2>7, <3>1, <2>d DEF KillGuard
  <2>8. CASE UNCHANGED vars
    BY <2>8 DEF vars
  <2> QED BY <2>1, <2>2, <2>3, <2>4, <2>5, <2>6, <2>7, <2>8 DEF Next, Environment
<1> QED BY <1>1, <1>2, PTL DEF Spec

----------------------------------------------------------------------------
(* The inductive invariant: who holds a lock, read from both ends *)

\* A lock held by an application process is that of its own file, and it is up.
AppHolds   == \A m, n \in Names : lock[n] = AppFd(m) => m = n /\ app[n] = "up"

\* A lock held by a guard thread is the one it watches, and it is past its flock.
GuardHolds == \A n \in Names, g \in Guards, i \in Threads :
                 lock[n] = GuardFd(g, i) =>
                    owner[g] # 0 /\ Holding(g, i) /\ WatchedBy(g, i) = n

\* A thread that should hold its lock does.
ThreadHas  == \A g \in Guards, i \in Threads :
                 pc[g][i] = "held" \/ (~FlockMayFail /\ Holding(g, i)) =>
                    lock[WatchedBy(g, i)] = GuardFd(g, i)

\* Only a guard that runs has a thread that does.
Running    == \A g \in Guards, i \in Threads : pc[g][i] # "idle" => owner[g] # 0

Ownership  == AppHolds /\ GuardHolds /\ ThreadHas /\ Running

LEMMA OwnershipInit == Init => Ownership
<1> SUFFICES ASSUME Init PROVE Ownership
  OBVIOUS
<1>1. AppHolds /\ GuardHolds
  BY Descriptors DEF Init, AppHolds, GuardHolds
<1>2. \A g \in Guards, i \in Threads : pc[g][i] = "idle"
  BY DEF Init
<1>3. ThreadHas
  BY <1>2 DEF ThreadHas, Holding, Alarmed, Sending
<1>4. Running
  BY <1>2 DEF Running
<1> QED BY <1>1, <1>3, <1>4 DEF Ownership

\* The lock of n is granted to its own process.
LEMMA OwnershipGrantApp ==
    ASSUME TypeOK, Ownership, NEW n \in Names, lock[n] = Free,
           lock' = Grant(lock, n, AppFd(n)), app' = [app EXCEPT ![n] = "up"],
           UNCHANGED <<pc, owner>>
    PROVE  Ownership'
<1>1. AppHolds'
  BY Descriptors DEF TypeOK, Ownership, AppHolds, Grant
<1>2. GuardHolds'
  BY Descriptors DEF TypeOK, Ownership, GuardHolds, Grant, Holding, WatchedBy
<1>3. ThreadHas'
  BY Descriptors DEF TypeOK, Ownership, ThreadHas, Grant, Holding, WatchedBy
<1>4. Running'
  BY DEF Ownership, Running
<1> QED BY <1>1, <1>2, <1>3, <1>4 DEF Ownership

\* The lock of its file is granted to a thread that did not hold it.
LEMMA OwnershipGrantThread ==
    ASSUME TypeOK, Ownership, NEW g \in Guards, NEW i \in Threads, NEW l \in {"held", "service"},
           owner[g] # 0, Grab(g, i), Goto(g, i, l), UNCHANGED <<app, owner>>
    PROVE  Ownership'
<1> DEFINE w == WatchedBy(g, i)
<1>0. /\ w \in Names /\ w' = w
      /\ lock' = [lock EXCEPT ![w] = GuardFd(g, i)]
      /\ pc' = [pc EXCEPT ![g][i] = l]
  BY WatchedIsName DEF TypeOK, WatchedBy, Grab, Grant, Goto
<1>h. Holding(g, i)'
  BY <1>0 DEF TypeOK, Holding, Alarmed, Sending
<1>o. \A h \in Guards, j \in Threads : h # g \/ j # i =>
         pc'[h][j] = pc[h][j] /\ WatchedBy(h, j)' = WatchedBy(h, j)
  BY <1>0 DEF TypeOK, WatchedBy
<1>1. AppHolds'
  BY <1>0, Descriptors DEF TypeOK, Ownership, AppHolds
<1>2. GuardHolds'
  BY <1>0, <1>h, <1>o, Descriptors DEF TypeOK, Ownership, GuardHolds, Holding
<1>3. ThreadHas'
  <2> SUFFICES ASSUME NEW h \in Guards, NEW j \in Threads,
                      pc'[h][j] = "held" \/ (~FlockMayFail /\ Holding(h, j)')
               PROVE  lock'[WatchedBy(h, j)'] = GuardFd(h, j)
    BY DEF ThreadHas, Holding
  <2>1. CASE h = g /\ j = i
    BY <2>1, <1>0 DEF TypeOK
  <2>2. CASE h # g \/ j # i
    <3>1. lock[WatchedBy(h, j)] = GuardFd(h, j)
      BY <2>2, <1>o DEF Ownership, ThreadHas, Holding
    <3>2. WatchedBy(h, j) # w
      BY <3>1, Descriptors DEF Grab
    <3> QED BY <2>2, <3>1, <3>2, <1>0, <1>o, WatchedIsName DEF TypeOK, WatchedBy
  <2> QED BY <2>1, <2>2
<1>4. Running'
  BY <1>0 DEF TypeOK, Ownership, Running
<1> QED BY <1>1, <1>2, <1>3, <1>4 DEF Ownership

\* A thread moves on and no lock changes hands.
LEMMA OwnershipMove ==
    ASSUME TypeOK, Ownership, NEW g \in Guards, NEW i \in Threads, NEW l \in PC,
           Goto(g, i, l), UNCHANGED <<app, owner, lock>>, l # "held", owner[g] # 0,
           Holding(g, i) => l \in Alarmed,
           l \in Alarmed => Holding(g, i) \/ FlockMayFail
    PROVE  Ownership'
<1>1. AppHolds'
  BY DEF Ownership, AppHolds
<1>2. GuardHolds'
  BY DEF TypeOK, Ownership, GuardHolds, Holding, Goto, WatchedBy
<1>3. ThreadHas'
  BY DEF TypeOK, Ownership, ThreadHas, Holding, Goto, WatchedBy
<1>4. Running'
  BY DEF TypeOK, Ownership, Running, Goto
<1> QED BY <1>1, <1>2, <1>3, <1>4 DEF Ownership

\* A probing thread gives the lock back.
LEMMA OwnershipRelease ==
    ASSUME TypeOK, Ownership, NEW g \in Guards, NEW i \in Threads, Release(g, i)
    PROVE  Ownership'
<1> DEFINE w == WatchedBy(g, i)
<1>0. /\ w \in Names /\ lock[w] = GuardFd(g, i)
      /\ lock' = [lock EXCEPT ![w] = Free]
      /\ pc' = [pc EXCEPT ![g][i] = "probe"]
      /\ UNCHANGED <<app, owner>>
  BY WatchedIsName DEF TypeOK, Ownership, ThreadHas, WatchedBy, Release, Unlock, Goto
<1>o. \A h \in Guards, j \in Threads : h # g \/ j # i =>
         pc'[h][j] = pc[h][j] /\ WatchedBy(h, j)' = WatchedBy(h, j)
  BY <1>0 DEF TypeOK, WatchedBy
<1>1. AppHolds'
  BY <1>0, Descriptors DEF TypeOK, Ownership, AppHolds
<1>2. GuardHolds'
  <2> SUFFICES ASSUME NEW n \in Names, NEW h \in Guards, NEW j \in Threads,
                      lock'[n] = GuardFd(h, j)
               PROVE  owner'[h] # 0 /\ Holding(h, j)' /\ WatchedBy(h, j)' = n
    BY DEF GuardHolds
  <2>1. n # w /\ lock[n] = GuardFd(h, j)
    BY <1>0, Descriptors DEF TypeOK
  <2>2. owner[h] # 0 /\ Holding(h, j) /\ WatchedBy(h, j) = n
    BY <2>1 DEF Ownership, GuardHolds
  <2>3. h # g \/ j # i
    BY <2>1, <2>2
  <2> QED BY <2>2, <2>3, <1>0, <1>o DEF Holding
<1>3. ThreadHas'
  <2> SUFFICES ASSUME NEW h \in Guards, NEW j \in Threads,
                      pc'[h][j] = "held" \/ (~FlockMayFail /\ Holding(h, j)')
               PROVE  lock'[WatchedBy(h, j)'] = GuardFd(h, j)
    BY DEF ThreadHas, Holding
  <2>1. h # g \/ j # i
    BY <1>0 DEF TypeOK, Holding, Alarmed, Sending
  <2>2. lock[WatchedBy(h, j)] = GuardFd(h, j)
    BY <2>1, <1>o DEF Ownership, ThreadHas, Holding
  <2>3. WatchedBy(h, j) # w
    BY <2>1, <2>2, <1>0, Descriptors
  <2> QED BY <2>1, <2>2, <2>3, <1>0, <1>o, WatchedIsName DEF TypeOK, WatchedBy
<1>4. Running'
  <2>1. owner[g] # 0
    BY DEF Ownership, Running, Release
  <2> QED BY <2>1, <1>0, <1>o DEF Ownership, Running
<1> QED BY <1>1, <1>2, <1>3, <1>4 DEF Ownership

\* A guard ends: its threads stop and drop their locks.
LEMMA OwnershipEndGuard ==
    ASSUME TypeOK, Ownership, NEW g \in Guards, EndGuard(g), UNCHANGED app
    PROVE  Ownership'
<1>0. /\ \A n \in Names : lock'[n] = IF lock[n] \in GuardFds(g) THEN Free ELSE lock[n]
      /\ \A h \in Guards : h # g => owner'[h] = owner[h] /\ pc'[h] = pc[h]
      /\ \A i \in Threads : pc'[g][i] = "idle"
  BY DEF TypeOK, EndGuard, CloseAll
<1>1. AppHolds'
  BY <1>0, Descriptors DEF TypeOK, Ownership, AppHolds
<1>2. GuardHolds'
  <2> SUFFICES ASSUME NEW n \in Names, NEW h \in Guards, NEW j \in Threads,
                      lock'[n] = GuardFd(h, j)
               PROVE  owner'[h] # 0 /\ Holding(h, j)' /\ WatchedBy(h, j)' = n
    BY DEF GuardHolds
  <2>1. lock[n] = GuardFd(h, j) /\ h # g
    BY <1>0, Descriptors DEF TypeOK, GuardFds
  <2> QED BY <2>1, <1>0 DEF Ownership, GuardHolds, Holding, WatchedBy
<1>3. ThreadHas'
  <2> SUFFICES ASSUME NEW h \in Guards, NEW j \in Threads,
                      pc'[h][j] = "held" \/ (~FlockMayFail /\ Holding(h, j)')
               PROVE  lock'[WatchedBy(h, j)'] = GuardFd(h, j)
    BY DEF ThreadHas, Holding
  <2>1. h # g
    BY <1>0 DEF Holding, Alarmed, Sending
  <2>2. lock[WatchedBy(h, j)] = GuardFd(h, j) /\ WatchedBy(h, j) \in Names
    <3>1. owner'[h] = owner[h] /\ pc'[h] = pc[h] /\ owner[h] \in Names \cup {0}
      BY <2>1, <1>0 DEF TypeOK
    <3>2. pc[h][j] = "held" \/ (~FlockMayFail /\ Holding(h, j))
      BY <3>1 DEF Holding
    <3>3. lock[WatchedBy(h, j)] = GuardFd(h, j)
      BY <3>2 DEF Ownership, ThreadHas
    <3> QED BY <3>1, <3>3, WatchedIsName DEF WatchedBy
  <2>3. GuardFd(h, j) \notin GuardFds(g)
    BY <2>1, Descriptors DEF GuardFds
  <2> QED BY <2>1, <2>2, <2>3, <1>0 DEF WatchedBy
<1>4. Running'
  BY <1>0 DEF Ownership, Running
<1> QED BY <1>1, <1>2, <1>3, <1>4 DEF Ownership

\* Application processes end and drop their locks.
LEMMA OwnershipEndApps ==
    ASSUME TypeOK, Ownership, NEW S \in SUBSET Names, EndApps(S), UNCHANGED <<pc, owner>>
    PROVE  Ownership'
<1>0. \A n \in Names :
         /\ app'[n] = IF n \in S THEN "dead" ELSE app[n]
         /\ lock'[n] = IF \E m \in S : lock[n] = AppFd(m) THEN Free ELSE lock[n]
  BY DEF TypeOK, EndApps, CloseAll
<1>1. AppHolds'
  BY <1>0, Descriptors DEF TypeOK, Ownership, AppHolds
<1>2. GuardHolds'
  BY <1>0, Descriptors DEF TypeOK, Ownership, GuardHolds, Holding, WatchedBy
<1>3. ThreadHas'
  <2> SUFFICES ASSUME NEW h \in Guards, NEW j \in Threads,
                      pc[h][j] = "held" \/ (~FlockMayFail /\ Holding(h, j))
               PROVE  lock'[WatchedBy(h, j)] = GuardFd(h, j)
    BY DEF ThreadHas, Holding, WatchedBy
  <2>1. lock[WatchedBy(h, j)] = GuardFd(h, j)
    BY DEF Ownership, ThreadHas
  <2>2. WatchedBy(h, j) \in Names
    BY WatchedIsName DEF TypeOK, WatchedBy
  <2>3. ~ \E m \in S : GuardFd(h, j) = AppFd(m)
    BY Descriptors
  <2> QED BY <2>1, <2>2, <2>3, <1>0
<1>4. Running'
  BY DEF Ownership, Running
<1> QED BY <1>1, <1>2, <1>3, <1>4 DEF Ownership

\* Every step keeps the ownership.
LEMMA OwnershipStep == TypeOK /\ Ownership /\ [Next]_vars => Ownership'
<1> SUFFICES ASSUME TypeOK, Ownership, [Next]_vars PROVE Ownership'
  OBVIOUS
<1>u. ASSUME UNCHANGED <<app, lock, owner, pc>> PROVE Ownership'
  BY <1>u DEF Ownership, AppHolds, GuardHolds, ThreadHas, Running, Holding, WatchedBy
<1>1. ASSUME NEW n \in Names, AppStep(n) PROVE Ownership'
  <2>1. CASE StartProcess(n)
    BY <2>1 DEF StartProcess, TypeOK, Ownership, AppHolds, GuardHolds, ThreadHas, Running, Holding, WatchedBy
  <2>2. CASE Attach(n)
    <3>1. CASE lock[n] = Free /\ lock' = Grant(lock, n, AppFd(n))
      BY <2>2, <3>1, OwnershipGrantApp DEF Attach
    <3>2. CASE UNCHANGED lock
      BY <2>2, <3>2 DEF Attach, TypeOK, Ownership, AppHolds, GuardHolds, ThreadHas, Running, Holding, WatchedBy
    <3> QED BY <2>2, <3>1, <3>2 DEF Attach, LockFile
  <2>3. CASE CreateService(n)
    BY <2>3, <1>u DEF CreateService
  <2> QED BY <1>1, <2>1, <2>2, <2>3 DEF AppStep
<1>2. ASSUME NEW n \in Names, Runner(n) PROVE Ownership'
  <2>1. CASE ShellFails(n)
    BY <2>1, <1>u DEF ShellFails
  <2>2. ASSUME NEW g \in Guards, SpawnGuard(n, g) PROVE Ownership'
    <3>0. /\ owner[g] = 0
          /\ \A h \in Guards : h # g => owner'[h] = owner[h] /\ pc'[h] = pc[h]
          /\ \A i \in Threads : pc'[g][i] = "probe"
          /\ UNCHANGED <<app, lock>>
      BY <2>2 DEF SpawnGuard, TypeOK
    <3>1. AppHolds'
      BY <3>0 DEF Ownership, AppHolds
    <3>2. GuardHolds'
      BY <3>0 DEF Ownership, GuardHolds, Holding, WatchedBy
    <3>3. ThreadHas'
      BY <3>0 DEF Ownership, ThreadHas, Holding, WatchedBy, Alarmed, Sending
    <3>4. Running'
      <4>1. owner'[g] = n /\ n # 0
        BY <2>2 DEF SpawnGuard, TypeOK, Names
      <4> QED BY <4>1, <3>0 DEF Ownership, Running
    <3> QED BY <3>1, <3>2, <3>3, <3>4 DEF Ownership
  <2> QED BY <1>2, <2>1, <2>2 DEF Runner
<1>3. ASSUME NEW g \in Guards, Exit(g) PROVE Ownership'
  BY <1>3, OwnershipEndGuard DEF Exit
<1>4. ASSUME NEW g \in Guards, NEW i \in Threads, ThreadStep(g, i) PROVE Ownership'
  <2>0. owner[g] # 0
    BY <1>4 DEF Ownership, Running, ThreadStep, Probe, Release, Acquire, AcquireFails, Send, Sending
  <2>1. CASE Probe(g, i)
    <3>1. CASE Grab(g, i) /\ Goto(g, i, "held")
      BY <2>0, <2>1, <3>1, OwnershipGrantThread DEF Probe
    <3>2. CASE Goto(g, i, Busy) /\ UNCHANGED lock
      BY <2>0, <2>1, <3>2, OwnershipMove DEF Probe, Busy, PC, Holding, Alarmed, Sending
    <3> QED BY <2>1, <3>1, <3>2 DEF Probe
  <2>2. CASE Release(g, i)
    BY <2>2, OwnershipRelease
  <2>3. CASE Acquire(g, i)
    BY <2>0, <2>3, OwnershipGrantThread DEF Acquire, OnLock
  <2>4. CASE AcquireFails(g, i)
    BY <2>0, <2>4, OwnershipMove DEF AcquireFails, OnLock, PC, Holding, Alarmed, Sending
  <2>5. CASE Send(g, i)
    <3>1. After(pc[g][i], i) \in PC /\ After(pc[g][i], i) \in Alarmed
          /\ After(pc[g][i], i) # "held" /\ Holding(g, i)
      BY <2>5 DEF Send, After, PC, Holding, Alarmed, Sending
    <3> QED BY <2>0, <2>5, <3>1, OwnershipMove DEF Send
  <2> QED BY <1>4, <2>1, <2>2, <2>3, <2>4, <2>5 DEF ThreadStep
<1>5. CASE Serve
  <2>1. CASE ServeForceStop
    BY <2>1, OwnershipEndApps DEF ServeForceStop
  <2>2. ASSUME NEW k \in Kinds, ServeStart(k) PROVE Ownership'
    BY <2>2, <1>u DEF ServeStart
  <2> QED BY <1>5, <2>1, <2>2 DEF Serve
<1>6. ASSUME NEW n \in Names, KillApp(n) PROVE Ownership'
  BY <1>6, OwnershipEndApps DEF KillApp
<1>7. ASSUME NEW g \in Guards, KillGuard(g) PROVE Ownership'
  BY <1>7, OwnershipEndGuard DEF KillGuard
<1>8. CASE UNCHANGED vars
  BY <1>8, <1>u DEF vars
<1> QED BY <1>1, <1>2, <1>3, <1>4, <1>5, <1>6, <1>7, <1>8 DEF Next, Environment

LEMMA OwnershipAlways == Spec => [](TypeOK /\ Ownership)
<1>1. Init => Ownership
  BY OwnershipInit
<1>2. TypeOK /\ Ownership /\ [Next]_vars => Ownership'
  BY OwnershipStep
<1> QED BY <1>1, <1>2, TypeCorrect, PTL DEF Spec

----------------------------------------------------------------------------
(* What the ownership gives *)

\* LOCK DISCIPLINE: every lock is with someone who may have it, and every
\* alarmed or probing thread has its own (GuardRing!LockDiscipline).
THEOREM LockDisciplineHolds == Spec => []LockDiscipline
<1>1. TypeOK /\ Ownership => LockDiscipline
  <2> SUFFICES ASSUME TypeOK, Ownership PROVE LockDiscipline
    OBVIOUS
  <2>1. ASSUME NEW n \in Names, lock[n] # Free
        PROVE  \/ lock[n] = AppFd(n) /\ app[n] = "up"
               \/ \E g \in Guards, i \in Threads :
                     /\ lock[n] = GuardFd(g, i) /\ owner[g] # 0
                     /\ Holding(g, i) /\ WatchedBy(g, i) = n
    <3>1. lock[n] \in Fds
      BY DEF TypeOK
    <3>2. CASE \E m \in Names : lock[n] = AppFd(m)
      BY <3>2 DEF Ownership, AppHolds
    <3>3. CASE \E g \in Guards, i \in Threads : lock[n] = GuardFd(g, i)
      BY <3>3 DEF Ownership, GuardHolds
    <3> QED BY <2>1, <3>1, <3>2, <3>3, DescriptorCases
  <2>2. ASSUME NEW g \in Guards, NEW i \in Threads
        PROVE  /\ pc[g][i] = "held" => lock[WatchedBy(g, i)] = GuardFd(g, i)
               /\ Holding(g, i) /\ ~FlockMayFail => lock[WatchedBy(g, i)] = GuardFd(g, i)
    BY DEF Ownership, ThreadHas
  <2> QED BY <2>1, <2>2 DEF LockDiscipline
<1> QED BY <1>1, OwnershipAlways, PTL

\* ONE ALARM: at most one thread of all guards has an alarm open for a name, and
\* only while the process does not hold its lock (GuardRing!OneAlarm).
THEOREM OneAlarmHolds == Spec => []OneAlarm
<1>1. TypeOK /\ Ownership => OneAlarm
  <2> SUFFICES ASSUME TypeOK, Ownership, ~FlockMayFail,
                      NEW n \in Names, NEW g \in Guards, NEW h \in Guards,
                      NEW i \in Threads, NEW j \in Threads, AlarmFor(n, g, i)
               PROVE  lock[n] # AppFd(n) /\ (AlarmFor(n, h, j) => g = h /\ i = j)
    BY DEF OneAlarm
  <2>1. lock[n] = GuardFd(g, i)
    BY DEF Ownership, ThreadHas, AlarmFor, Holding
  <2>2. AlarmFor(n, h, j) => lock[n] = GuardFd(h, j)
    BY DEF Ownership, ThreadHas, AlarmFor, Holding
  <2> QED BY <2>1, <2>2, Descriptors
<1> QED BY <1>1, OwnershipAlways, PTL

\* A main thread is never just done: what it does last is to exit.
MainExits == \A g \in Guards : pc[g][Main] # "done"

LEMMA MainExitsStep == TypeOK /\ MainExits /\ [Next]_vars => MainExits'
<1> SUFFICES ASSUME TypeOK, MainExits, [Next]_vars PROVE MainExits'
  OBVIOUS
<1>m. Main \in Threads
  BY GuardRingAssumption DEF GuardRingAssumption, Main, Threads
<1>u. ASSUME UNCHANGED pc PROVE MainExits'
  BY <1>u DEF MainExits
<1>e. ASSUME NEW g \in Guards, EndGuard(g) PROVE MainExits'
  BY <1>e, <1>m DEF EndGuard, MainExits, TypeOK
<1>g. ASSUME NEW g \in Guards, NEW i \in Threads, NEW l, Goto(g, i, l), i = Main => l # "done"
      PROVE  MainExits'
  BY <1>g, <1>m DEF Goto, MainExits, TypeOK
<1>1. ASSUME NEW n \in Names, AppStep(n) PROVE MainExits'
  BY <1>1, <1>u DEF AppStep, StartProcess, Attach, CreateService
<1>2. ASSUME NEW n \in Names, Runner(n) PROVE MainExits'
  <2>1. ASSUME NEW g \in Guards, SpawnGuard(n, g) PROVE MainExits'
    BY <2>1, <1>m DEF SpawnGuard, MainExits, TypeOK
  <2> QED BY <1>2, <2>1, <1>u DEF Runner, ShellFails
<1>3. ASSUME NEW g \in Guards, Exit(g) PROVE MainExits'
  BY <1>3, <1>e DEF Exit
<1>4. ASSUME NEW g \in Guards, NEW i \in Threads, ThreadStep(g, i) PROVE MainExits'
  <2>1. CASE Send(g, i)
    <3>1. i = Main => After(pc[g][i], i) # "done"
      BY DEF After
    <3> QED BY <2>1, <3>1, <1>g DEF Send
  <2> QED BY <1>4, <2>1, <1>g DEF ThreadStep, Probe, Release, Acquire, AcquireFails, Busy, OnLock
<1>5. CASE Serve
  BY <1>5, <1>u DEF Serve, ServeForceStop, ServeStart
<1>6. ASSUME NEW n \in Names, KillApp(n) PROVE MainExits'
  BY <1>6, <1>u DEF KillApp
<1>7. ASSUME NEW g \in Guards, KillGuard(g) PROVE MainExits'
  BY <1>7, <1>e DEF KillGuard
<1>8. CASE UNCHANGED vars
  BY <1>8, <1>u DEF vars
<1> QED BY <1>1, <1>2, <1>3, <1>4, <1>5, <1>6, <1>7, <1>8 DEF Next, Environment

\* DAEMON'S LOCK IN PASSING: for any number of names, guards and kills the lock of
\* ":daemon" is with a guard only by a main thread in a probe or on its way out
\* (GuardRing!DaemonLockInPassing).
THEOREM DaemonLockInPassingHolds == Spec => []DaemonLockInPassing
<1>1. Init => MainExits
  BY GuardRingAssumption DEF GuardRingAssumption, Init, MainExits, Main, Threads
<1>2. TypeOK /\ Ownership /\ MainExits => DaemonLockInPassing
  <2> SUFFICES ASSUME TypeOK, Ownership, MainExits, NEW g \in Guards, NEW i \in Threads,
                      lock[Daemon] = GuardFd(g, i)
               PROVE  i = Main /\ pc[g][i] \in {"held", "exit"} \cup Sending
    BY DEF DaemonLockInPassing
  <2>1. Daemon \in Names
    BY GuardRingAssumption DEF GuardRingAssumption, Daemon, Names
  <2>2. owner[g] # 0 /\ Holding(g, i) /\ WatchedBy(g, i) = Daemon
    BY <2>1 DEF Ownership, GuardHolds
  <2>3. owner[g] \in Names
    BY <2>2 DEF TypeOK
  <2>4. i = Main
    BY <2>2, <2>3, GuardRingAssumption
    DEF GuardRingAssumption, WatchedBy, WatchedName, Daemon, Main, Names, Threads
  <2> QED BY <2>2, <2>4 DEF Holding, Alarmed, MainExits
<1> QED BY <1>1, <1>2, MainExitsStep, OwnershipAlways, PTL DEF Spec

----------------------------------------------------------------------------
(* The ring implements DeathWatch: its initial states map to initial states *)
(* and every step to a step or to a stutter, as long as flock itself does   *)
(* not fail.                                                                *)

\* A thread that has only probed the lock of n holds it.
Probed(n) == \E g \in Guards, i \in Threads : lock[n] = GuardFd(g, i) /\ pc[g][i] = "held"

\* A baton, case by case, in the state before a step and in the state after.
LEMMA BatonCases ==
    ASSUME NEW n \in Names
    PROVE  /\ lock[n] = AppFd(n) <=> Baton(n) = "process"
           /\ lock[n] = Free \/ Probed(n) <=> Baton(n) = "nobody"
           /\ Baton(n) \in {"nobody", "process", "watcher"}
           /\ lock'[n] = AppFd(n) <=> Baton(n)' = "process"
           /\ lock'[n] = Free \/ Probed(n)' <=> Baton(n)' = "nobody"
           /\ Baton(n)' \in {"nobody", "process", "watcher"}
<1>1. AppFd(n) # Free /\ \A g \in Guards, i \in Threads : AppFd(n) # GuardFd(g, i)
  BY Descriptors
<1>2. /\ lock[n] = AppFd(n) <=> Baton(n) = "process"
      /\ lock[n] = Free \/ Probed(n) <=> Baton(n) = "nobody"
      /\ Baton(n) \in {"nobody", "process", "watcher"}
  BY <1>1 DEF Baton, Probed
<1>3. /\ lock'[n] = AppFd(n) <=> Baton(n)' = "process"
      /\ lock'[n] = Free \/ Probed(n)' <=> Baton(n)' = "nobody"
      /\ Baton(n)' \in {"nobody", "process", "watcher"}
  BY <1>1 DEF Baton, Probed
<1> QED BY <1>2, <1>3

\* The initial states map to initial states.
LEMMA RefinesInit == Init => Abstract!Init
<1> SUFFICES ASSUME Init PROVE Abstract!Init
  OBVIOUS
<1>1. \A n \in Names : Baton(n) = "nobody"
  BY BatonCases DEF Init
<1> QED BY <1>1 DEF Init, Abstract!Init

\* A step that leaves a lock and the probes of it alone leaves its baton alone.
LEMMA SameBaton ==
    ASSUME NEW n \in Names, lock'[n] = lock[n], Probed(n)' <=> Probed(n)
    PROVE  Baton(n)' = Baton(n)
  BY BatonCases

\* The batons map to those of a stutter.
LEMMA Stutters ==
    ASSUME \A n \in Names : Baton(n)' = Baton(n), UNCHANGED req
    PROVE  UNCHANGED Abstract!vars
<1>1. [n \in Names |-> Baton(n)]' = [n \in Names |-> Baton(n)]
  OBVIOUS
<1> QED BY <1>1 DEF Abstract!vars

\* The end of a guard is a watcher's leave.
LEMMA EndGuardLeaves ==
    ASSUME TypeOK, NEW g \in Guards, EndGuard(g), UNCHANGED req
    PROVE  Abstract!Next
<1> DEFINE P == {n \in Names : lock[n] \in GuardFds(g)}
<1>1. \A n \in P : Baton(n) # "process" /\ Baton(n)' = "nobody"
  <2> SUFFICES ASSUME NEW n \in P PROVE Baton(n) # "process" /\ Baton(n)' = "nobody"
    OBVIOUS
  <2>1. lock[n] # AppFd(n) /\ lock'[n] = Free
    BY Descriptors DEF GuardFds, EndGuard, CloseAll, TypeOK
  <2> QED BY <2>1, BatonCases
<1>2. \A n \in Names \ P : Baton(n)' = Baton(n)
  <2> SUFFICES ASSUME NEW n \in Names \ P PROVE Baton(n)' = Baton(n)
    OBVIOUS
  <2>1. lock'[n] = lock[n]
    BY DEF EndGuard, CloseAll, TypeOK
  <2>2. \A h \in Guards, i \in Threads : lock[n] = GuardFd(h, i) => pc'[h] = pc[h]
    BY DEF EndGuard, GuardFds, TypeOK
  <2> QED BY <2>1, <2>2, SameBaton DEF Probed
<1>3. Abstract!Leave(P)
  BY <1>1, <1>2, BatonCases DEF Abstract!Leave
<1> QED BY <1>3 DEF Abstract!Next

\* The death of application processes is that of the abstract processes.
LEMMA EndAppsDies ==
    ASSUME TypeOK, Ownership, NEW S \in SUBSET Names, EndApps(S), UNCHANGED pc
    PROVE  Abstract!Die(S)
<1>1. \A n \in Names : IF n \in S /\ Baton(n) = "process"
                         THEN Baton(n)' = "nobody" ELSE Baton(n)' = Baton(n)
  <2> SUFFICES ASSUME NEW n \in Names
               PROVE  IF n \in S /\ Baton(n) = "process"
                        THEN Baton(n)' = "nobody" ELSE Baton(n)' = Baton(n)
    OBVIOUS
  <2>1. CASE n \in S /\ lock[n] = AppFd(n)
    <3>1. lock'[n] = Free
      BY <2>1 DEF EndApps, CloseAll, TypeOK
    <3> QED BY <2>1, <3>1, BatonCases
  <2>2. CASE ~(n \in S /\ lock[n] = AppFd(n))
    <3>1. lock'[n] = lock[n]
      BY <2>2 DEF EndApps, CloseAll, TypeOK, Ownership, AppHolds
    <3> QED BY <2>2, <3>1, SameBaton, BatonCases DEF Probed
  <2> QED BY <2>1, <2>2
<1> QED BY <1>1 DEF Abstract!Die

\* A thread moves on, holding its lock for a moment neither before nor after.
LEMMA MoveSameBaton ==
    ASSUME TypeOK, NEW g \in Guards, NEW i \in Threads, NEW l \in PC, Goto(g, i, l),
           pc[g][i] # "held", l # "held", UNCHANGED lock, NEW n \in Names
    PROVE  Baton(n)' = Baton(n)
<1>1. \A h \in Guards, j \in Threads : pc'[h][j] = "held" <=> pc[h][j] = "held"
  BY DEF Goto, TypeOK
<1> QED BY <1>1, SameBaton DEF Probed

\* Every step of an application process maps to a step or a stutter.
LEMMA RefinesAppStep ==
    ASSUME TypeOK, NEW n \in Names, AppStep(n)
    PROVE  [Abstract!Next]_Abstract!vars
<1>u. ASSUME UNCHANGED <<lock, pc, req>> PROVE UNCHANGED Abstract!vars
  <2>1. \A m \in Names : Baton(m)' = Baton(m)
    BY <1>u, SameBaton DEF Probed
  <2> QED BY <2>1, <1>u, Stutters
<1>1. CASE Attach(n) /\ lock' # lock
  <2>1. lock[n] = Free /\ lock' = [lock EXCEPT ![n] = AppFd(n)] /\ UNCHANGED <<pc, req>>
    BY <1>1 DEF Attach, LockFile, Grant
  <2>2. Baton(n) = "nobody" /\ Baton(n)' = "process"
    BY <2>1, BatonCases DEF TypeOK
  <2>3. \A m \in Names \ {n} : Baton(m)' = Baton(m)
    BY <2>1, SameBaton DEF TypeOK, Probed
  <2>4. Abstract!Take(n)
    BY <2>1, <2>2, <2>3 DEF Abstract!Take
  <2> QED BY <2>4 DEF Abstract!Next
<1>2. CASE Attach(n) /\ lock' = lock
  BY <1>2, <1>u DEF Attach
<1> QED BY <1>1, <1>2, <1>u DEF AppStep, StartProcess, CreateService

\* Every step of a guard's thread maps to a step or a stutter.
LEMMA RefinesThreadStep ==
    ASSUME TypeOK, Ownership, ~FlockMayFail,
           NEW g \in Guards, NEW i \in Threads, ThreadStep(g, i)
    PROVE  [Abstract!Next]_Abstract!vars
<1>w. PICK w \in Names : w = WatchedBy(g, i)
  BY WatchedIsName DEF TypeOK, WatchedBy
<1>1. CASE Probe(g, i) \/ Acquire(g, i)
  <2>n. \A n \in Names : lock[n] # GuardFd(g, i)
    BY <1>1 DEF Ownership, GuardHolds, Holding, Probe, Acquire, Alarmed, Sending
  <2>o. \A n \in Names, h \in Guards, j \in Threads :
           lock[n] = GuardFd(h, j) => pc'[h][j] = pc[h][j]
    BY <1>1, <2>n DEF Probe, Acquire, Goto, TypeOK, PC
  <2>1. CASE ~Grab(g, i)
    <3>1. UNCHANGED <<lock, req>>
      BY <1>1, <2>1 DEF Probe, Acquire
    <3>2. \A n \in Names : Baton(n)' = Baton(n)
      BY <2>o, <3>1, SameBaton DEF Probed
    <3> QED BY <3>1, <3>2, Stutters
  <2>2. CASE Grab(g, i)
    <3>1. /\ lock[w] = Free /\ lock' = [lock EXCEPT ![w] = GuardFd(g, i)]
          /\ UNCHANGED req
      BY <1>1, <1>w, <2>2 DEF Grab, Grant, Probe, Acquire
    <3>2. ASSUME NEW n \in Names \ {w} PROVE Baton(n)' = Baton(n)
      <4>1. lock'[n] = lock[n]
        BY <3>1, <3>2 DEF TypeOK
      <4>2. Probed(n)' <=> Probed(n)
        BY <2>o, <4>1 DEF Probed
      <4> QED BY <4>1, <4>2, SameBaton
    <3>3. Baton(w) = "nobody"
      BY <1>w, <3>1, BatonCases
    <3>4. lock'[w] = GuardFd(g, i) /\ lock'[w] # Free /\ lock'[w] # AppFd(w)
      BY <1>w, <3>1, Descriptors DEF TypeOK
    <3>5. CASE Probe(g, i)
      <4>1. pc'[g][i] = "held"
        BY <1>w, <3>1, <3>4, <3>5 DEF Probe, Goto, TypeOK, PC
      <4>2. Probed(w)'
        BY <3>4, <4>1 DEF Probed
      <4>3. Baton(w)' = "nobody"
        BY <4>2, BatonCases
      <4>4. \A n \in Names : Baton(n)' = Baton(n)
        BY <3>2, <3>3, <4>3
      <4> QED BY <3>1, <4>4, Stutters
    <3>6. CASE Acquire(g, i)
      <4>1. pc'[g][i] = "service"
        BY <3>6 DEF Acquire, OnLock, Goto, TypeOK
      <4>2. ~ Probed(w)'
        BY <3>4, <4>1, Descriptors DEF Probed
      <4>3. Baton(w)' = "watcher"
        BY <1>w, <3>4, <4>2, BatonCases
      <4>4. Abstract!Inherit(w)
        BY <1>w, <3>1, <3>2, <3>3, <4>3 DEF Abstract!Inherit
      <4> QED BY <1>w, <4>4 DEF Abstract!Next
    <3> QED BY <1>1, <3>5, <3>6
  <2> QED BY <2>1, <2>2
<1>2. CASE Release(g, i)
  <2>1. lock[w] = GuardFd(g, i) /\ pc[g][i] = "held"
    BY <1>2, <1>w DEF Ownership, ThreadHas, Release
  <2>r. lock' = [lock EXCEPT ![w] = Free]
    BY <1>2, <1>w DEF Release, Unlock
  <2>2. Baton(w) = "nobody" /\ Baton(w)' = "nobody"
    <3>1. lock'[w] = Free /\ Probed(w)
      BY <2>1, <2>r DEF Probed, TypeOK
    <3> QED BY <3>1, BatonCases
  <2>3. ASSUME NEW n \in Names \ {w} PROVE Baton(n)' = Baton(n)
    <3>1. lock'[n] = lock[n] /\ lock[n] # GuardFd(g, i)
      BY <1>w, <2>r, <2>3 DEF TypeOK, Ownership, GuardHolds
    <3>2. \A h \in Guards, j \in Threads :
             lock[n] = GuardFd(h, j) => pc'[h][j] = pc[h][j]
      BY <1>2, <3>1 DEF Release, Goto, TypeOK
    <3> QED BY <3>1, <3>2, SameBaton DEF Probed
  <2>4. \A n \in Names : Baton(n)' = Baton(n)
    BY <2>2, <2>3
  <2> QED BY <1>2, <2>4, Stutters DEF Release
<1>3. CASE AcquireFails(g, i)
  BY <1>3 DEF AcquireFails
<1>4. CASE Send(g, i)
  <2>1. After(pc[g][i], i) \in PC /\ After(pc[g][i], i) # "held" /\ pc[g][i] # "held"
    BY <1>4 DEF Send, After, PC, Alarmed, Sending
  <2>2. \A n \in Names : Baton(n)' = Baton(n)
    BY <1>4, <2>1, MoveSameBaton DEF Send
  <2>3. lock[w] = GuardFd(g, i)
    BY <1>4, <1>w DEF Ownership, ThreadHas, Holding, Send, Alarmed
  <2>4. ~ Probed(w) /\ lock[w] # Free /\ lock[w] # AppFd(w)
    BY <1>w, <2>1, <2>3, Descriptors DEF Probed
  <2>5. Baton(w) = "watcher"
    BY <1>w, <2>4, BatonCases
  <2>6. {pc[g][i]} \cap Honoured \in SUBSET Kinds
    BY <1>4 DEF Send, Sending, Kinds
  <2>7. Abstract!Ask
    BY <1>4, <1>w, <2>2, <2>5, <2>6 DEF Send, Abstract!Ask
  <2> QED BY <2>7 DEF Abstract!Next
<1> QED BY <1>1, <1>2, <1>3, <1>4 DEF ThreadStep

\* Every step maps to a step or a stutter.
LEMMA RefinesStep ==
    ASSUME TypeOK, Ownership, ~FlockMayFail, [Next]_vars
    PROVE  [Abstract!Next]_Abstract!vars
<1>u. ASSUME UNCHANGED <<lock, req>>, \A g \in Guards, i \in Threads :
                                         pc[g][i] = "held" <=> pc'[g][i] = "held"
      PROVE  UNCHANGED Abstract!vars
  <2>1. \A m \in Names : Baton(m)' = Baton(m)
    BY <1>u, SameBaton DEF Probed
  <2> QED BY <2>1, <1>u, Stutters
<1>1. ASSUME NEW n \in Names, AppStep(n) PROVE [Abstract!Next]_Abstract!vars
  BY <1>1, RefinesAppStep
<1>2. ASSUME NEW n \in Names, Runner(n) PROVE [Abstract!Next]_Abstract!vars
  <2>1. CASE ShellFails(n)
    BY <2>1, <1>u DEF ShellFails
  <2>2. ASSUME NEW g \in Guards, SpawnGuard(n, g) PROVE [Abstract!Next]_Abstract!vars
    <3>1. \A m \in Names : Baton(m)' = Baton(m)
      <4>1. \A m \in Names, i \in Threads : lock[m] # GuardFd(g, i)
        BY <2>2 DEF SpawnGuard, Ownership, GuardHolds
      <4>2. \A h \in Guards : h # g => pc'[h] = pc[h]
        BY <2>2 DEF SpawnGuard, TypeOK
      <4>3. \A m \in Names : Probed(m)' <=> Probed(m)
        BY <2>2, <4>1, <4>2 DEF SpawnGuard, Probed
      <4> QED BY <2>2, <4>3, SameBaton DEF SpawnGuard
    <3> QED BY <2>2, <3>1, Stutters DEF SpawnGuard
  <2> QED BY <1>2, <2>1, <2>2 DEF Runner
<1>3. ASSUME NEW g \in Guards, Exit(g) PROVE [Abstract!Next]_Abstract!vars
  BY <1>3, EndGuardLeaves DEF Exit
<1>4. ASSUME NEW g \in Guards, NEW i \in Threads, ThreadStep(g, i)
      PROVE  [Abstract!Next]_Abstract!vars
  BY <1>4, RefinesThreadStep
<1>5. CASE Serve
  <2>1. CASE ServeForceStop
    <3>1. Abstract!Die(Names)
      BY <2>1, EndAppsDies DEF ServeForceStop
    <3>2. Abstract!Serve
      BY <2>1, <3>1 DEF ServeForceStop, Abstract!Serve
    <3> QED BY <3>2 DEF Abstract!Next
  <2>2. ASSUME NEW k \in Kinds, ServeStart(k) PROVE [Abstract!Next]_Abstract!vars
    <3>1. \A m \in Names : Baton(m)' = Baton(m)
      BY <2>2, SameBaton DEF Probed, ServeStart
    <3>2. Abstract!Die({})
      BY <3>1 DEF Abstract!Die
    <3>3. Abstract!Serve
      BY <2>2, <3>2 DEF ServeStart, Abstract!Serve
    <3> QED BY <3>3 DEF Abstract!Next
  <2> QED BY <1>5, <2>1, <2>2 DEF Serve
<1>6. ASSUME NEW n \in Names, KillApp(n) PROVE [Abstract!Next]_Abstract!vars
  <2>1. Abstract!Die({n})
    BY <1>6, EndAppsDies DEF KillApp
  <2> QED BY <1>6, <2>1 DEF KillApp, Abstract!Next
<1>7. ASSUME NEW g \in Guards, KillGuard(g) PROVE [Abstract!Next]_Abstract!vars
  BY <1>7, EndGuardLeaves DEF KillGuard
<1>8. CASE UNCHANGED vars
  BY <1>8, <1>u DEF vars
<1> QED BY <1>1, <1>2, <1>3, <1>4, <1>5, <1>6, <1>7, <1>8 DEF Next, Environment

\* REFINEMENT: while flock does not fail, the ring implements DeathWatch: no live
\* holder loses its lock, and only a guard that has inherited a lock asks for a
\* restart (GuardRing!ImplementsDeathWatch).
THEOREM Refinement ==
    ASSUME ~FlockMayFail
    PROVE  Spec => ImplementsDeathWatch
<1>1. Init => Abstract!Init
  BY RefinesInit
<1>2. TypeOK /\ Ownership /\ [Next]_vars => [Abstract!Next]_Abstract!vars
  BY RefinesStep
<1> QED BY <1>1, <1>2, OwnershipAlways, PTL DEF Spec, ImplementsDeathWatch, Abstract!Spec
=============================================================================

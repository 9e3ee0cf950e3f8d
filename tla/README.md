# KeepAlive2 in TLA+

KeepAlive2 is an Android library that tries to keep an application running. Its
processes watch each other and ask the platform to restart what has died. The
repository has no design document; every definition here is translated from the
source under `src/keepalivedaemoncore/src/main` (below `J/` stands for
`java/com/keepalive/daemon/core/` and `C/` for `cpp/`).

## 1. The system

An application that calls `DaemonHolder.attach` runs in up to six application
processes (AndroidManifest.xml) and a number of plain processes beside them.

| component | state it keeps | operations | watched by / talks to |
|---|---|---|---|
| Java guard ring: `J/JavaDaemon`, `AppProcessRunnable`, `DaemonMain`, `DaemonHolder`, services `DaemonService`, `AssistService1/2` | one lock file per name (`daemon_d`, `assist1_d`, `assist2_d`); guard processes with a main thread and one scheduler thread | attach (lock the own file once, schedule a guard, fire DaemonService), spawn a guard, `wait_file_lock` per watched name, three oneway requests, `killProcess` | the file locks; ActivityManager by oneway transactions |
| File locks: `lock_file`, `wait_file_lock` in `C/keep_alive.cpp` | the kernel's lock table; descriptors nobody closes | one non-blocking try; probe, release and sleep until the probe fails, then block | all processes |
| Native peer watch: `do_daemon` in `C/keep_alive.cpp`, `J/KeepAliveProcessImpl` | two indicator files and two observer files in two tiers (parent and detached grandchild, "-c") | fork, three tries for the own indicator, handshake by observer files, wait for the peer's indicator, restart request, self-kill | `:resident` and `android.process.daemon` watch each other |
| Boot limiter: `J/KeepAlive`, `KeepAliveConfigs` | SharedPreferences `d_permit`: count, time of the last boot, permission | check, mark (`apply`), permit (`commit`), read | `:resident` writes, the other processes read |
| Mutual binding: `J/KeepAliveService` | the binder of the peer, a death recipient | bind, connected, died, bind again | the two native sides' services |
| Activity bindings: `J/DaemonHolder`, `utils/ServiceHolder` | two connection caches | bind on create, unbind on destroy | DaemonService |
| Binder transactions: `C/data_transact.cpp` | in and out parcel of one transaction | `write_transact`, `waitForResponse`, `talkWithDriver`, `executeCommand` | the binder driver |
| Parcel: `C/cParcel.cpp` | size, position, capacity, objects | growth, writes, reads, taking lent data over | used by the transactions |
| SharedBuffer: `C/utils/SharedBuffer.cpp` | a count of references, a size, the data | alloc, acquire, edit, editResize, reset, release | the memory of every String16; the class lets threads share it, but String16 only calls alloc and release and nothing acquires a second reference |
| String16 and Unicode: `C/utils/String16.cpp`, `Unicode.cpp` | a buffer of UTF-16 units | measure, convert, compare, search | names and descriptors in the parcels; many of the functions of Unicode have no caller here |
| notification, boot receiver, schedulers, shell, utilities, sample application | little or none | calls of the platform | |

What is hard in it: processes interleave through `flock` with nobody in charge; any
process dies at any moment; the guards poll with a probe that itself takes the
lock; the one try of the application races those probes; requests are oneway and
may be lost, or kill the application they restart; files of an earlier life
survive; a record may be in memory and not yet in the file. `PROJECT.json` lists
these hazards one by one, at their lines.

## 2. Modules

| module | models | state -> code |
|---|---|---|
| `Flock` | flock(2) as the code uses it (external) | lock table: file -> open description |
| `GuardRing` | the Java guard ring | `app`, `svc`: processes and services of the platform; `spawn`: the scheduled AppProcessRunnable; `lock`: the files; `owner`, `pc`: guard processes and their threads in `wait_file_lock` and `DaemonMain.execute`; `req`: oneway requests on their way |
| `DeathWatch` | abstract: what the ring promises | a baton per process: nobody, the process or a watcher has it |
| `PeerWatch` | `do_daemon` on both sides, both tiers | `pc`, `tier`, `tries`, `handle` of every process; `lock`: indicators; `obs`: observer files; `asked`: restart requests |
| `BootLimiter` | `initDaemon` in `:resident` and its reader | `disk`, `mem`: the file and the copy in memory; `verdict`: the locals of the check |
| `RemoteCall` | abstract: what a transaction promises its caller | per call: under way or told what, how often performed, the answer given and the answer got |
| `BinderTransact` | the two calls of a `do_daemon` over one descriptor, down to the loop over the parcels | `slot`, `driver`: what the number of the descriptor refers to and whether the driver opened; `pc`, `status`: the caller; `mOut`, `mIn`: the commands and returns in the two parcels; `bwr`: the ioctl under way; `todo`, `pending`: returns the driver has ready, calls a target has to answer |
| `ParcelLog` | abstract: a parcel to its user | a log of words and a position in it |
| `ParcelBuffer` | the buffer of one parcel | the fields of the class under their names; `lent`: `mOwner` is set |
| `OwnCopies` | abstract: what a shared buffer promises its users | per user: its value, and what it has asked for |
| `SharedBuffer` | the buffers and the threads inside their calls | `heap`: blocks with `mRefs`, `mSize` and the data; `ref`: the reference a thread has; `new`: `sb` of a copy not yet returned; `call`, `pc`, `size`, `keep`: the call, how far it is, its arguments |
| `String16` | the two loops that make a String16 of bytes | `src`, `cur`, `count`, `dst`: the pointers and lengths of the loop; `room`: units there is room for; `measured`: history, where characters begin |
| `Unicode` | the conversions, comparison and search, as operators | none |
| `String16Texts` | what a user of a String16 relies on: names from Java and texts come back, accepted bytes are safe, order and search | none of its own: `JavaStrings` and `Texts` are the strings in question |
| `MCGuardRing`, `MCSharedBuffer`, `MCString16` | values for TLC; the last has the strings | |
| `GuardRingProofs`, `PeerWatchProofs`, `BootLimiterProofs`, `BinderTransactProofs`, `ParcelBufferProofs`, `SharedBufferProofs`, `UnicodeProofs`, `String16Proofs` | the theorems | |

Actions carry the names of the code's steps. One action is one atomic step of a
thread: a `flock`, an `open` and `remove` on files, a request, a death. `Attach`
is one action because its parts (lock, schedule, fire DaemonService) touch
disjoint state and only the lock is seen by others; the handshake is three
actions (`Observe`, `Await`, `Unlink`) because the peer can act between them.
`wait_file_lock` appears in both modules: `DaemonMain` ignores its result and
`do_daemon` depends on it, so `PeerWatch.Acquire` and `AcquireFails` part where
`GuardRing`'s meet again (`OnLock`).

The layers below: the `Transact` of `PeerWatch` is the request of `BinderTransact`,
whose lookup may leave handle 0; `BinderTransact` takes the two parcels as sequences
of whole commands, which is what `ParcelLog` allows for parcels that are written at
the end and read from the start; `ParcelBuffer` shows that the bytes below do the
same. In `BinderTransact` one action is one step of `talkWithDriver` or of the loop
of `waitForResponse`, and the driver and the targets act between any two of them.
`initProcessState` gets the descriptor by value (C/data_transact.cpp:41), so what it
sets after a failed `mmap` never reaches the caller: the number goes on being used,
closed or given to another file. In `ParcelBuffer` one action is one call; sizes are
in words, an object is two words, and a parcel is written only at its end, as all of
the code does. An object with no binder is not entered in the table and is read
without a look at it. `IpcSetDataReference` takes offsets in any order: the loop over
them keeps the table or refuses it, and a refused table leaves a capacity without
objects. That each object ends within the data is not looked at by the code: it is
assumed of the driver (`Offsets`).

In `SharedBuffer` every access to the count is an action of its own: the load of
`onlyOwner`, and the store, the subtraction or the free that comes of it. The copy of
`edit` is one action though `memcpy` is many reads: nobody writes a buffer that a
second user holds, which is what `Alone` says. The atomics are sequentially
consistent in the model, which is of the class: the interleavings of several owners
are what it offers a user, this program has none; that the acquire load and the
release subtraction (C/utils/SharedBuffer.cpp:118, SharedBuffer.h:141) suffice for
this on the machine is not shown. In `String16` one action is one character, and what
allocFromUTF8 gives the converting loop is one case of what any caller of
`utf8_to_utf16` may give it (`ShortRoom`). A `Junk` stands for memory nobody wrote.
`Unicode` has its recursion as folds and recursive functions over the places where
characters begin: proofs can use both, and `WalkStops` shows the walk to be the loop
of the code.

Platform behaviour (kills, what a request leads to, when a service is started)
is modelled from how the code uses it and marked external in the map. What the code
does when such a call fails is in the models: `FireService` (a `startService` that
throws is followed by a binding that starts nothing, J/utils/ServiceHolder.java:110) under
`StartMayFail`, `AskFor` (`startServiceByAmsBinder` returns false and its caller goes on,
J/KeepAliveProcessImpl.java:76, 240) under `AmsMayFail`, an observer file that cannot be
made under `FlockMayFail`. Formats,
logging and transaction codes are left out.

## 3. Runs

| run | instance | question, and what it shows |
|---|---|---|
| `guard_ring_three` | 3 names, 2 guards, 1 kill, broadcast only, startService may throw | are the locks sound and is an alarm unique, where a guard also has a scheduler thread, which keeps its lock; that thread never has the lock of the daemon |
| `guard_ring_live` | 2 names, 3 guards, 1 kill, all requests, platform may restart services, fair | the daemon comes back, the alarms end, DeathWatch is implemented |
| `guard_ring_storm` | 2 names, 2 guards, flock may fail, the one honoured request kills the application | the locks stay sound and the daemon still comes back |
| `peer_watch` | both sides, 2 grandchildren each (one of an earlier launch), 2 tries, 1 kill and relaunches, a request may reach nobody, fair | until the kill the handshake is sound, and everybody ends up watching unless a side was never asked for; never two daemons of one indicator |
| `peer_watch_faulty` | no kill; flock, fork, observer files, service lookup and the requests of the launch may fail, killpg works | never two daemons of one indicator, with the alarm branch reached |
| `peer_watch_restart` | 1 kill, fair: **violated** | the finding below |
| `boot_limiter` | limit 3, interval 2, clock to 6, set back at will (once between a check and its mark), commit may fail, 2 losses, limit on and off | the row is bounded, one verdict, refusals come one after the other at most once more than records were lost |
| `binder_transact` | lookup and request, 2 targets, 2 signals, fair | at most once, told the truth, nothing left for the next call, every call returns, RemoteCall is implemented |
| `binder_lookup` | the same: **violated** | the second finding below |
| `parcel_buffer` | capacity to 7 words, lent buffers to 4, 2 objects, writes of 1 or 2 words, lent offsets in any order, realloc may fail | nothing unwritten in the data, the table sound, the search right, a log of words is implemented |
| `string16` | 1777 strings: all of up to 4 bytes out of 6 kinds, Java strings of up to 3 units with NULs and lone surrogates, texts of up to 2 code points at the limits; any room up to the measured | nothing beyond the bytes or the room, whole characters; conversions, validation, order and search agree |
| `shared_buffer` | 3 threads, 3 blocks, sizes 1 and 2, two values a unit, every allocation may fail | counts are right, the only owner stays alone, everybody has a copy of its own |

All runs switch off the deadlock check: the system may come to rest (all waiting
in `flock`, kills used up, the clock at its bound).

**Bounds.** `N` is the code's own three names, or two where a thread more per guard
would only multiply states. Guards exceed the names in `guard_ring_live`, so one name
has two guards, the least with a collision of probes; a third guard of the same name
behaves as the second. A scheduler thread needs three names, and with them liveness
is too large to check: that the daemon's lock is not kept is therefore a safety
property of `guard_ring_three` (`DaemonLockInPassing`: only a main thread has it, in
a probe or on its way out), proved for all values, from which the lock's return
follows by the fairness of the thread. `MaxKills` is 1, with liveness only asked
"unless killed again". The theorems hold for any number of names, guards and kills.
`LockTries` is the code's 3 in `peer_watch_restart` and 2 elsewhere, for size: a
second try already comes after a failed one, and the theorems are for any number.
`Kids` has a slot for the grandchild that outlives its parent and one for that of the
relaunch. The clock's 6 ticks are three intervals of 2 and let a row of four boots
happen. Two signals let one come before and one after the driver has taken the
transaction. A capacity of 7 words lets a parcel grow a second time for its second
object and a lent buffer of two objects be taken over by a write. Three threads let
two of them act between the load and the subtraction of the third; three blocks are
one short of what all need to copy at once, and an allocation may fail anyway; the
theorems hold for any number. The strings have a byte of every length that leading
bits can announce, one that is only a continuation and one beyond 10FFFF, and 4 bytes
let the longest character be whole, cut, and preceded by another. `SYMMETRY` permutes
guard slots, threads, blocks and contents, in runs without liveness only.

**Fairness.** Weak fairness of every process's next step and of the platform's
service of a request it honours: threads run, oneway calls are delivered. Strong
fairness only of `Acquire`: a waiter of `flock(LOCK_EX)` is in the kernel's queue,
and the probes that take the lock meanwhile give it back within the step and then
sleep a second (keep_alive.cpp:161). In `BinderTransact` the thread of the caller
runs, the driver serves an ioctl, and a target answers or dies; signals are bounded.
Kills, failures and relaunches are never fair. No liveness is claimed of a platform
that honours no request, and none of the ring where `startService` throws.

## 4. Findings

**A dead side is not asked for.**

`wait_file_lock` ends `bool ret = err_no == -1` (C/keep_alive.cpp:174): TRUE when
`flock` failed, FALSE when the lock was got, that is when the peer has died.
`DaemonMain` ignores the result, so the ring is not affected. `do_daemon` reads
TRUE as "Watch >>>>DAEMON<<<<< Dead !!" (:241) and only then asks for the restart
that J/KeepAliveProcessImpl.java:151 announces. `peer_watch_restart` shows a side
killed, its peer's wait over, and no request ever. A consequence the model also
has: the survivor keeps the dead side's indicator lock, since no descriptor is
closed, so a side that something else starts again fails its three tries and runs
without a daemon.

**The lookup is not retried.** A comment before the lookup of the activity service
says that it is tried five times when it fails ("获取不到则循环5次",
C/keep_alive.cpp:226), and the code calls `get_service` once (:232). `binder_lookup`
shows a lookup that failed and the watch begun after that one try; the request of
:243 would then be addressed to handle 0, the service manager.

Behaviour that disagrees with no text, and so is no finding, but that a maintainer
should know: the revived process may lose its single try for the lock to a guard
that is just raising its alarm (J/JavaDaemon.java:72), after which nobody watches
it; with a platform that stops the application on `startInstrumentation` the
alarms of the guards need not come to an end (`Settles` is not claimed in the
storm run); AssistService1/2 are not started again by a guard of theirs when
DaemonService still runs, since every request only starts DaemonService. A side whose
request for the other one reached nobody goes into the handshake and waits there for as
long as nobody else starts it (J/KeepAliveProcessImpl.java:76, `NobodyReached`). With
`rebootMaxTimes` 1 the count that a refusal writes is already the limit, so every soon boot
after it is refused as well (J/KeepAlive.java:160, `RefusalEndsRow` is about 2 and more).
A reply whose offsets are out of order leaves a parcel with a capacity and no objects
(C/cParcel.cpp:1541); whoever then wrote an object with a binder into it would find room
(:1008), lose the table to the growth (:1758) and write through NULL (:1024):
`WriteObjectCrashes`. No code of the repository writes into a reply.

Of the functions in `Unicode` that only a library user would call, three disagree
with their header; `Unicode` has what the code does. A surrogate counts as no
bytes where C/utils/Unicode.h:51 promises -1 for the whole string;
`utf32_to_utf8` does not stop at `dst_len` as Unicode.h:57 has it; and where
`char` has a sign, as on the x86 that build.gradle also builds for,
`utf8_length` refuses every string that is not ASCII (Unicode.cpp:405:
`SignedChar`, FALSE in the run as on ARM).

## 5. Proofs

All theorems are for every value of the constants within the modules' named
assumptions (`GuardRingAssumption`, `PeerWatchAssumption`, `SharedBufferAssumption` ...),
which say which set each constant is of, that a set is finite, or that the values
which stand for nothing are none of the others; `N` is two or more.

* **GuardRingProofs**. `LockDiscipline` and `OneAlarm` are not inductive: a lock
  table entry must be known to belong to the very thread that releases it. The
  invariant is `Ownership`: whose an application's lock is (`AppHolds`), which thread
  a guard's descriptor in the table stands for (`GuardHolds`), which lock a probing
  or alarmed thread has (`ThreadHas`), and that slots without a guard are idle
  (`Running`). Its preservation is proved by kind of step: grants to an application
  or thread, moves of a thread that leave the table, releases, ends of guards and of
  applications. `OneAlarm` then follows because a lock table is a function;
  `DaemonLockInPassing` from `Ownership`, by which the daemon's name can only be a
  main thread's, and `MainExits`, by which a main thread goes from its requests to
  its end. `Refinement`: for a flock that does not fail, Init maps to DeathWatch's
  Init and each step to one of its steps or to a stutter; a lock that is only being
  probed counts as nobody's. With a failing flock the theorem does not hold (an alarm
  without the lock is no `Ask` of DeathWatch) and it is not claimed.
* **PeerWatchProofs**. `OneDaemonPerFile` from `Holds`: who is past the own lock
  holds it. `HandshakeSound` needs `Handshake` on top: before any kill an observer file
  implies that its side holds the indicator, and an indicator is only with its own side.
  Two theorems say the first finding for all values of the constants: `NeverAsked`,
  that without a failing flock the request of `do_daemon` is never sent, and
  `KeptTillDeath`, that a lock which is not just being probed is given up only by
  dying, so a survivor shuts the next daemon of the dead side out. They are stated with
  their proofs.
* **BootLimiterProofs**. `OneVerdict` and `RefusalEndsRow` from `Verdicts`, which
  relates the file, the copy in memory, the locals of a boot under way and the last
  verdict and bounds the refusals in a row by what the file may have lost
  (`RefusalsPaid`); `RowBounded` from `Row`: the length of a row is at most the
  recorded count plus the allowance. A lost record and a clock set back between a
  check and its mark each forget one count; a boot without the limit touches none.
* **BinderTransactProofs**. `AtMostOnce` is not inductive: that an interrupted ioctl
  may be issued again is safe only because of what is in the parcels. The
  invariant says where the transaction of the call under way is and that nothing has
  happened while it is still unsent (`Buffers`, `Performed`), that no return tells
  an untruth (`Truths`), that the return which ends a call is the last one
  (`OneAnswer`, `LastReturn`), and that all is empty between calls (`Quiet`,
  `NoDriverNoCall`). `OutcomeTrue`, `NothingLeft` and the refinement of `RemoteCall`
  follow from it step by step.
* **ParcelBufferProofs**. `DataWritten` and `TableInOrder` need two facts about lent
  data: they have no room to spare (`LentIsFull`), and neither has their table unless its
  offsets were refused (`LentTableFull`). In a refused one writeObject does find room in a
  table that the growth of the data then takes away (C/cParcel.cpp:1008 against
  :1756-1761), and the theorem says that this is the only way to get there. Growth
  (`RoomMade`) and the copy of a block (`WrittenOver`) are lemmas used for every
  write and for the refinement of `ParcelLog`. `HintFinds` follows from the order of
  the table by the two loops of the search.
* **SharedBufferProofs**. `Counted` and `Alone` hold each other up: a count of one means
  nobody else has the buffer only if all that have it are counted, and the
  subtraction is right only if nobody frees on the strength of an old load. With
  them go `NewAlone` (a copy that is not yet returned is its maker's only),
  `CopyTrue` (it has what the old buffer has, which cannot change while a second
  user holds it) and `Shape` (where in a call a thread is). `LeaveInv` is the one
  lemma for every way a reference ends. `Refinement` maps each step to one of
  `OwnCopies` for the one user that takes it (`StepOfOne`), seen by no other
  (`Unseen`).
* **UnicodeProofs**. What the operators of `Unicode` compute, for strings of any length.
  They recurse over a string, and the induction theorems of the library cannot be
  used here; what stands for them is that a set of naturals has a smallest
  element (`Smallest`, from `NatLessThanWellFounded`): `Upward` and `Downward`
  are the two inductions over a range, and all others go back to them. On them
  rest a fold taken apart at any place, the concatenation of parts
  and where each part begins, and the walk of a string as the loop that takes it
  (`WalkStops`). A character of one to four bytes is written and read back
  by arithmetic alone (`Four`, `ReadAt`), and bytes that are one after another
  the characters of a text are walked and decoded to that text (`EncodedAs`).
  `Utf16Length` holds for any units.
* **String16Proofs**. `Fits` and `WholeCharacters` for all bytes: the invariant
  relates the converting loop to the record the measuring loop left (`measured`),
  since the bytes that were measured are those that are converted, character by
  character; what is beyond the record was found malformed. The other four need to
  know what was written, not only how much. The invariant says in addition that the
  recorded beginnings follow each other without overlap (`Chain`), that all units are
  units (`Written`), and that those of each character passed so far stand where it
  was measured (`Decoded`); at the end the whole result is the concatenation of the
  units of the characters (`ConvertedTo`). `RoundTrips` then compares two walks of
  the same bytes: that of the loops of String16, which knows only the first byte, and
  that of the text the bytes were made of (`Spelled`, `InUnits`). `AcceptedIsSafe`
  goes through what a byte count that is not -1 says of the place a walk is at
  (`Stopping`): the next character is whole, so each function goes on to the same
  place. `OrderAgrees` and `SearchFinds` are about the place where two strings part,
  and the first place where all of a target is found; both are of any length.

  `RoundTrips`, `OrderAgrees` and `SearchFinds` are about any set `JavaStrings` of
  units below 65536 and any set `Texts` of code points up to 10FFFF without
  surrogates (`TextsAssumption`), and for a `char` with a sign or without
  (`UnicodeAssumption`).

Every safety property of the passing runs is proved. Only model-checked: what needs
fairness (`DaemonRevived`, `Settles`, `EndUpArmed`,
`CallsReturn`, and the violations `DeadPeerRestarted` and `LookupRetried`), which is out
of reach of the prover.

## 6. Not modelled

`KeepAliveService` (binding to the peer, a death recipient, binding again) and the
connection caches of `DaemonHolder` and `ServiceHolder` keep a state, and are
left out: what a step does in them is decided by the platform's own
connection keeping (`BIND_AUTO_CREATE` binds again by itself), of which the code
shows too little to be modelled faithfully. What could go wrong in both is in the list
of hazards. Next, if the project is extended: the three as modules `MutualBind`
and `ServiceBinding`, with that keeping stated as an assumption, the first
composed with `PeerWatch` through the relaunch; and that `wait_file_lock` in both
of its modules implements one abstract waiter.

Not in `String16`: `allocFromUTF16`, which copies a given length, and the destructor
of a string without a buffer, which an empty name would reach
(C/utils/String16.cpp:67). Not in `Unicode`: `strcpy16` and `strncpy16`, which
nothing calls, and sums of lengths beyond `SSIZE_MAX`. Not in `BinderTransact`:
running out of memory, an ioctl on the open driver that fails with another error than
`EINTR`, and the returns of `executeCommand` for objects of the process itself, with
its error exit (C/data_transact.cpp:235). The driver sends none: the null binder a
request carries is not entered in the table of objects, and the thread is no looper.
Not in `ParcelBuffer`: reference counts and file descriptors in a parcel, of which
the code makes none; `readExceptionCode` and positions other than 0, which it never
asks for; `setDataSize(0)` of a parcel that has objects, which keeps the pointer of a
table that `realloc` has freed (C/cParcel.cpp:1776): only `mIn` and `mOut` are ever
resized and they have none. The guard's arguments travel as a hex parcel on a command
line and the transaction codes are looked up by reflection: data formats of the
platform.

Left out for good: notification and user interface, logging, CPU detection,
reflection on hidden interfaces, and the sample application, which have no state
of their own; the byte format of intents, which the platform defines.

----------------------------- MODULE BootLimiter -----------------------------
(***************************************************************************)
(* The limit on continuous restarts: KeepAlive.initDaemon in ":resident",  *)
(* checkServiceProcessContinuousBootOverTimes with what it calls, and the  *)
(* daemon-assistant process that only reads the verdict.  The counter, the *)
(* time of the last boot and the verdict live in one SharedPreferences     *)
(* file: apply() changes the copy in memory and writes the file later,     *)
(* commit() writes it at once, and each process loads it when it starts.   *)
(***************************************************************************)
EXTENDS Integers

CONSTANTS Limited,        \* config.limitReboot in the versions of the application
                          \* that were installed: the file survives an update
          Interval,       \* config.rebootIntervalMs
          MaxTimes,       \* config.rebootMaxTimes
          ClockBack,      \* the wall clock may be set back
          CommitMayFail,  \* commit() may return false
          MaxTime,        \* bounds the clock
          MaxLosses,      \* bounds the losses, below
          MaxSlips        \* and the slips

ASSUME BootLimiterAssumption ==
    /\ Limited \subseteq BOOLEAN /\ ClockBack \in BOOLEAN /\ CommitMayFail \in BOOLEAN
    /\ Interval \in Nat /\ MaxTimes \in Nat \ {0}
    /\ MaxTime \in Nat \ {0} /\ MaxLosses \in Nat /\ MaxSlips \in Nat

VARIABLES disk,       \* the preferences file
          mem,        \* the copy in the ":resident" process
          pc,         \* where its initDaemon is, "down" when it does not run
          verdict,    \* what the check decided: the counter and the permission
          now,        \* the wall clock
          assistant,  \* the daemon-assistant process: "down", "idle", "daemon"
          prev,       \* history: when the last boot that got a verdict was marked
          row,        \* history: permitted boots in a row, each soon after the last
          allowance,  \* history: how long a row the losses and slips so far allow
          refusals,   \* history: refused boots one after the other, 0 after a permission
          losses,     \* boots whose record was lost: killed between mark and
                      \* commit, or commit() failed
          slips       \* times the clock was set back between a check and its mark

history == <<prev, row, allowance, refusals, losses, slips>>
vars == <<disk, mem, pc, verdict, now, assistant, history>>

Prefs == [times : Nat, last : Nat, permitted : BOOLEAN]
Booting == {"booted", "checked", "marked", "unlimited", "committed"}

TypeOK == /\ disk \in Prefs /\ mem \in Prefs
          /\ pc \in {"down", "running", "idle"} \cup Booting
          /\ verdict \in [times : Nat, permitted : BOOLEAN]
          /\ now \in 1 .. MaxTime
          /\ assistant \in {"down", "idle", "daemon"}
          /\ prev \in Nat /\ row \in Nat /\ allowance \in Nat
          /\ refusals \in Nat /\ losses \in 0 .. MaxLosses /\ slips \in 0 .. MaxSlips

\* The defaults that getInt, getLong and getBoolean return for an empty file.
Empty == [times |-> 0, last |-> 0, permitted |-> TRUE]

Init == /\ disk = Empty /\ mem = Empty
        /\ pc = "down" /\ verdict = [times |-> 0, permitted |-> TRUE]
        /\ now = 1 /\ assistant = "down"
        /\ prev = 0 /\ row = 0 /\ allowance = MaxTimes
        /\ refusals = 0 /\ losses = 0 /\ slips = 0

\* A boot at time t counts as continuous after one recorded at time last: also when
\* the clock went back and the difference is negative.
Soon(t, last) == last > 0 /\ t - last < Interval

----------------------------------------------------------------------------
\* The ":resident" process starts and loads the file.
Boot == /\ pc = "down"
        /\ pc' = "booted" /\ mem' = disk
        /\ UNCHANGED <<disk, verdict, now, assistant, history>>

\* checkProcessContinuousBootOverTimes reads the record and the clock.
OverTimesAfterOneMore(t) == Soon(t, mem.last) /\ mem.times > MaxTimes
OverTimes(t) == Soon(t, mem.last) /\ mem.times >= MaxTimes
TimesLeft(t)  == IF Soon(t, mem.last) /\ ~OverTimes(t) THEN mem.times - 1 ELSE 1
TimesKept(t)  == IF Soon(t, mem.last) THEN mem.times + (IF OverTimes(t) THEN 0 ELSE 1) ELSE 1
NewTimes(t)   == IF Soon(t, mem.last) /\ ~OverTimes(t) THEN mem.times + 1 ELSE 1

Check == /\ TRUE \in Limited /\ pc = "booted"
         /\ pc' = "checked"
         /\ verdict' = [times |-> NewTimes(now), permitted |-> ~OverTimes(now)]
         /\ UNCHANGED <<disk, mem, now, assistant, history>>

\* Without the limit there is no record, and the permission is committed at once.
SkipCheck == /\ FALSE \in Limited /\ pc = "booted"
             /\ pc' = "unlimited"
             /\ verdict' = [times |-> mem.times, permitted |-> TRUE]
             /\ UNCHANGED <<disk, mem, now, assistant, history>>

\* markProcessBoot: reads the clock again, changes the copy in memory, apply().
Mark == /\ pc = "checked"
        /\ pc' = "marked"
        /\ mem' = [mem EXCEPT !.times = verdict.times, !.last = now]
        /\ UNCHANGED <<disk, verdict, now, assistant, history>>

\* The write that apply() queued reaches the file before the commit.
Flush == /\ pc = "marked"
         /\ disk' = mem
         /\ UNCHANGED <<mem, pc, verdict, now, assistant, history>>

\* Bound the histories above all that RowBounded and RefusalEndsRow allow.
RowCap     == MaxTimes * (MaxLosses + MaxSlips + 1) + 1
RefusalCap == MaxLosses + 2

\* The history after a verdict, whatever becomes of its record.  A boot without the
\* limit is none of a row.
NewRow == IF ~verdict.permitted THEN 0
          ELSE IF ~Soon(mem.last, prev) THEN 1
          ELSE IF row < RowCap THEN row + 1 ELSE row
NewRefusals == IF verdict.permitted THEN 0
               ELSE IF refusals < RefusalCap THEN refusals + 1 ELSE refusals
Judge  == /\ refusals' = NewRefusals
          /\ prev' = IF pc = "marked" THEN mem.last ELSE prev
          /\ row' = IF pc = "marked" THEN NewRow ELSE row

\* setDaemonPermitting: the file gets the verdict and the record with it.
CommitToDiskForgetsVerdict == disk' = mem
CommitToDisk == disk' = [mem EXCEPT !.permitted = verdict.permitted]

Commit == /\ pc \in {"marked", "unlimited"}
          /\ pc' = "committed"
          /\ mem' = [mem EXCEPT !.permitted = verdict.permitted]
          /\ CommitToDisk
          /\ Judge
          /\ UNCHANGED <<verdict, now, assistant, allowance, losses, slips>>

\* Its result is not looked at: the process goes on with what it has in memory.
CommitFails == /\ CommitMayFail /\ losses < MaxLosses /\ pc \in {"marked", "unlimited"}
               /\ pc' = "committed"
               /\ mem' = [mem EXCEPT !.permitted = verdict.permitted]
               /\ losses' = losses + 1 /\ allowance' = allowance + MaxTimes
               /\ Judge
               /\ UNCHANGED <<disk, verdict, now, assistant, slips>>

\* isDaemonPermitting: with the permission the native daemon is created.
Decide == /\ pc = "committed"
          /\ pc' = IF mem.permitted THEN "running" ELSE "idle"
          /\ UNCHANGED <<disk, mem, verdict, now, assistant, history>>

\* The process is killed.  Between mark and commit the record is lost, or what is
\* in the file is a record without its verdict.
Killed == /\ pc \notin {"down", "marked"}
          /\ pc' = "down"
          /\ UNCHANGED <<disk, mem, verdict, now, assistant, history>>
KilledBeforeCommit ==
          /\ pc = "marked" /\ losses < MaxLosses
          /\ pc' = "down"
          /\ losses' = losses + 1 /\ allowance' = allowance + MaxTimes
          /\ UNCHANGED <<disk, mem, verdict, now, assistant, prev, row, refusals, slips>>

----------------------------------------------------------------------------
\* The daemon-assistant process starts: isDaemonPermitting from the file.
AssistantBoot == /\ assistant = "down"
                 /\ assistant' = IF disk.permitted THEN "daemon" ELSE "idle"
                 /\ UNCHANGED <<disk, mem, pc, verdict, now, history>>
AssistantDies == /\ assistant # "down"
                 /\ assistant' = "down"
                 /\ UNCHANGED <<disk, mem, pc, verdict, now, history>>

Tick == /\ now < MaxTime
        /\ now' = now + 1
        /\ UNCHANGED <<disk, mem, pc, verdict, assistant, history>>
\* Between a check and its mark it makes the boot that was too late for the row one
\* that is marked as soon after the last.
SetBack == /\ ClockBack /\ now > 1
           /\ now' = now - 1
           /\ IF pc = "checked"
                THEN /\ slips < MaxSlips
                     /\ slips' = slips + 1 /\ allowance' = allowance + MaxTimes
                ELSE UNCHANGED <<slips, allowance>>
           /\ UNCHANGED <<disk, mem, pc, verdict, assistant, prev, row, refusals, losses>>

Next == \/ Boot \/ Check \/ SkipCheck \/ Mark \/ Flush \/ Commit \/ CommitFails
        \/ Decide \/ Killed \/ KilledBeforeCommit
        \/ AssistantBoot \/ AssistantDies \/ Tick \/ SetBack

Spec == Init /\ [][Next]_vars

----------------------------------------------------------------------------
(* Properties *)

\* THE ROW IS BOUNDED.  No more than rebootMaxTimes boots in a row, each within the
\* interval of the one before, get the permission, wherever the clock goes and however
\* often the limit is switched off between them; a boot whose record was lost, and a
\* clock set back between a check and its mark, add at most as many again
\* (KeepAlive.java:144-194).
RowBounded == row <= allowance

\* ONE VERDICT.  While no record was lost the native daemon of ":resident" runs only
\* on a permission, and what a starting daemon-assistant process reads from the
\* file, at whatever moment, is the last verdict and never that of a boot whose
\* check is not over.
OneVerdict == losses = 0 => /\ pc = "running" => refusals = 0
                            /\ disk.permitted <=> refusals = 0

\* A REFUSAL ENDS THE ROW.  With rebootMaxTimes 2 or more, refused boots come one
\* after the other at most once more than records were lost, however soon they
\* come and wherever the clock goes: a refusal starts the count again, and only
\* when its own record does not reach the file, or that of the boot after it does
\* without its verdict, is the next boot refused too.  With rebootMaxTimes 1 the
\* count a refusal writes is already the limit and every soon boot is refused.
RefusalEndsRow == MaxTimes >= 2 => refusals <= losses + 1
=============================================================================

-------------------------- MODULE BootLimiterProofs --------------------------
(***************************************************************************)
(* Proofs about BootLimiter, for every interval, every limit and every     *)
(* bound on the clock and the losses.                                      *)
(***************************************************************************)
EXTENDS BootLimiter, TLAPS

\* TYPE CORRECTNESS: every reachable state satisfies TypeOK.
THEOREM TypeCorrect == Spec => []TypeOK
<1> USE BootLimiterAssumption DEF BootLimiterAssumption, TypeOK, Prefs, Booting
<1>1. Init => TypeOK
  <2>1. Empty \in Prefs /\ [times |-> 0, permitted |-> TRUE] \in [times : Nat, permitted : BOOLEAN]
    BY DEF Empty
  <2>2. Init => losses \in 0 .. MaxLosses /\ slips \in 0 .. MaxSlips /\ now \in 1 .. MaxTime
    BY DEF Init
  <2> QED BY <2>1, <2>2 DEF Init
<1>2. TypeOK /\ [Next]_vars => TypeOK'
  <2> SUFFICES ASSUME TypeOK, [Next]_vars PROVE TypeOK'
    OBVIOUS
  <2>j. Judge => refusals' \in Nat /\ prev' \in Nat /\ row' \in Nat
    BY DEF Judge, NewRow, NewRefusals
  <2>1. CASE Boot
    BY <2>1 DEF Boot, history
  <2>2. CASE Check
    <3>1. NewTimes(now) \in Nat
      BY DEF NewTimes
    <3>2. (~OverTimes(now)) \in BOOLEAN
      BY DEF OverTimes
    <3> QED BY <2>2, <3>1, <3>2 DEF Check, history
  <2>3. CASE SkipCheck
    BY <2>3 DEF SkipCheck, history
  <2>4. CASE Mark
    <3>1. verdict.times \in Nat /\ now \in Nat
      OBVIOUS
    <3>2. mem' = [times |-> verdict.times, last |-> now, permitted |-> mem.permitted]
      BY <2>4 DEF Mark
    <3>3. mem' \in Prefs
      BY <3>1, <3>2
    <3> QED BY <2>4, <3>3 DEF Mark, history
  <2>5. CASE Flush
    BY <2>5 DEF Flush, history
  <2>6. CASE Commit
    BY <2>6, <2>j DEF Commit, CommitToDisk
  <2>7. CASE CommitFails
    BY <2>7, <2>j DEF CommitFails
  <2>8. CASE Decide \/ Killed
    BY <2>8 DEF Decide, Killed, history
  <2>9. CASE KilledBeforeCommit
    BY <2>9 DEF KilledBeforeCommit
  <2>10. CASE AssistantBoot \/ AssistantDies
    BY <2>10 DEF AssistantBoot, AssistantDies, history
  <2>11. CASE Tick \/ SetBack
    BY <2>11 DEF Tick, SetBack, history
  <2>12. CASE UNCHANGED vars
    BY <2>12 DEF vars, history
  <2> QED BY <2>1, <2>2, <2>3, <2>4, <2>5, <2>6, <2>7, <2>8, <2>9, <2>10, <2>11, <2>12 DEF Next
<1> QED BY <1>1, <1>2, PTL DEF Spec

----------------------------------------------------------------------------
(* One verdict, and the boots after a refusal *)

\* As long as no record was lost, the file, the copy and the last verdict agree.
Agreed == losses = 0 =>
            /\ disk.permitted <=> refusals = 0
            /\ pc # "down" => mem.permitted = disk.permitted
            /\ pc = "running" => mem.permitted

\* A process that has not marked its boot works on what the file says.
Loaded == pc \in {"booted", "checked", "unlimited"} => mem = disk

\* A refusal goes with a count of one: in the verdict, and in the file after it.
CountRestarts ==
    /\ pc \in {"checked", "marked"} /\ ~verdict.permitted => verdict.times = 1
    /\ pc = "unlimited" => verdict.permitted
    /\ pc = "marked" /\ ~verdict.permitted => mem.times = 1

\* A boot can be refused, by what the file says or by a verdict under way, only as
\* long as fewer boots were refused in a row than records were lost, and one.
RefusalsPaid == MaxTimes >= 2 =>
    /\ refusals <= losses + 1
    /\ pc # "marked" /\ disk.times >= MaxTimes => refusals <= losses
    /\ pc \in {"checked", "marked"} /\ ~verdict.permitted => refusals <= losses

Verdicts == Agreed /\ Loaded /\ CountRestarts /\ RefusalsPaid

LEMMA VerdictsInit == Init => Verdicts
<1> SUFFICES ASSUME Init PROVE Verdicts
  OBVIOUS
<1>1. pc = "down" /\ disk.permitted = TRUE /\ refusals = 0 /\ losses = 0
  BY DEF Init, Empty
<1> QED BY <1>1 DEF Verdicts, Agreed, Loaded, CountRestarts, RefusalsPaid

\* Every step keeps the verdicts and the count in agreement.
LEMMA VerdictsStep == TypeOK /\ Verdicts /\ [Next]_vars => Verdicts'
<1> SUFFICES ASSUME TypeOK, Verdicts, [Next]_vars PROVE Verdicts'
  OBVIOUS
<1> USE BootLimiterAssumption
    DEF BootLimiterAssumption, TypeOK, Prefs, Booting, Verdicts, Agreed, Loaded, CountRestarts, RefusalsPaid
<1>1. CASE Boot
  BY <1>1 DEF Boot, history
<1>2. CASE Check
  <2>1. ~verdict'.permitted => verdict'.times = 1
    BY <1>2 DEF Check, NewTimes
  <2>2. ~verdict'.permitted => disk.times >= MaxTimes
    BY <1>2 DEF Check, OverTimes
  <2> QED BY <1>2, <2>1, <2>2 DEF Check, history
<1>3. CASE SkipCheck
  BY <1>3 DEF SkipCheck, history
<1>4. CASE Mark
  BY <1>4 DEF Mark, history
<1>5. CASE Flush
  BY <1>5 DEF Flush, history
<1>r. ASSUME Judge
      PROVE  /\ refusals' \in Nat
             /\ refusals' = 0 <=> verdict.permitted
             /\ MaxTimes >= 2 /\ pc \in {"marked", "unlimited"} => refusals' <= losses + 1
  BY <1>r DEF Judge, NewRefusals, RefusalCap
<1>6. CASE Commit
  <2>1. Agreed' /\ Loaded' /\ CountRestarts'
    BY <1>6, <1>r DEF Commit, CommitToDisk
  <2>2. disk'.times = mem.times /\ pc' = "committed" /\ losses' = losses
    BY <1>6 DEF Commit, CommitToDisk
  <2>3. ~verdict.permitted => mem.times = 1
    BY <1>6 DEF Commit
  <2>4. /\ refusals' \in Nat
        /\ refusals' = 0 <=> verdict.permitted
        /\ MaxTimes >= 2 => refusals' <= losses + 1
    BY <1>6, <1>r DEF Commit
  <2>5. RefusalsPaid'
    <3>1. CASE verdict.permitted
      BY <2>2, <2>4, <3>1
    <3>2. CASE ~verdict.permitted
      BY <2>2, <2>3, <2>4, <3>2
    <3> QED BY <3>1, <3>2
  <2> QED BY <2>1, <2>5
<1>7. CASE CommitFails
  <2>1. /\ refusals' \in Nat
        /\ MaxTimes >= 2 => refusals' <= losses + 1
        /\ losses' = losses + 1 /\ pc' = "committed"
    BY <1>7, <1>r DEF CommitFails
  <2>2. Agreed' /\ Loaded' /\ CountRestarts'
    BY <1>7, <2>1 DEF CommitFails
  <2>3. RefusalsPaid'
    BY <2>1
  <2> QED BY <2>2, <2>3
<1>8. CASE Decide \/ Killed
  BY <1>8 DEF Decide, Killed, history
<1>9. CASE KilledBeforeCommit
  BY <1>9 DEF KilledBeforeCommit
<1>10. CASE AssistantBoot \/ AssistantDies \/ Tick \/ SetBack
  BY <1>10 DEF AssistantBoot, AssistantDies, Tick, SetBack, history
<1>11. CASE UNCHANGED vars
  BY <1>11 DEF vars, history
<1> QED BY <1>1, <1>2, <1>3, <1>4, <1>5, <1>6, <1>7, <1>8, <1>9, <1>10, <1>11 DEF Next

LEMMA VerdictsAlways == Spec => [](TypeOK /\ Verdicts)
<1>1. Init => Verdicts
  BY VerdictsInit
<1>2. TypeOK /\ Verdicts /\ [Next]_vars => Verdicts'
  BY VerdictsStep
<1> QED BY <1>1, <1>2, TypeCorrect, PTL DEF Spec

\* ONE VERDICT: while no record was lost, ":resident" and whoever reads the file
\* act on the same, last verdict (BootLimiter!OneVerdict).
THEOREM OneVerdictHolds == Spec => []OneVerdict
<1>1. TypeOK /\ Verdicts => OneVerdict
  BY DEF TypeOK, Prefs, Verdicts, Agreed, OneVerdict
<1> QED BY <1>1, VerdictsAlways, PTL

\* A REFUSAL ENDS THE ROW: with rebootMaxTimes 2 or more, refusals come one after the
\* other at most once more than records were lost (BootLimiter!RefusalEndsRow).
THEOREM RefusalEndsRowHolds == Spec => []RefusalEndsRow
<1>1. Verdicts => RefusalEndsRow
  BY DEF Verdicts, RefusalsPaid, RefusalEndsRow
<1> QED BY <1>1, VerdictsAlways, PTL

----------------------------------------------------------------------------
(* The bound on a row *)

\* What losses and slips have added to rebootMaxTimes.
Lost == allowance - MaxTimes

\* A row is as long as the count in the file, losses and slips apart.
Counted == row <= Lost + (IF disk.last = prev THEN disk.times ELSE 0)

\* One boot more, marked at time t, makes a row no longer than its count says.
OneMore(t) == verdict.permitted /\ Soon(t, prev) => row + 1 <= Lost + verdict.times

Row == /\ allowance >= MaxTimes /\ row <= allowance
       /\ disk.times <= MaxTimes
       /\ pc # "marked" => Counted
       /\ pc = "checked" => verdict.times \in 1 .. MaxTimes /\ OneMore(now)
       /\ pc = "marked" => /\ mem.times = verdict.times /\ verdict.times \in 1 .. MaxTimes
                           /\ OneMore(mem.last)

LEMMA RowInit == Init => Row
  BY BootLimiterAssumption
  DEF BootLimiterAssumption, Init, Empty, Row, Counted, Lost

\* Every step keeps the bound.
LEMMA RowStep == TypeOK /\ Verdicts /\ Row /\ [Next]_vars => Row'
<1> SUFFICES ASSUME TypeOK, Verdicts, Row, [Next]_vars PROVE Row'
  OBVIOUS
<1> USE BootLimiterAssumption
    DEF BootLimiterAssumption, TypeOK, Prefs, Booting, Row, Counted, Lost, OneMore
<1>1. CASE Boot
  BY <1>1 DEF Boot, history
<1>2. CASE Check
  <2>0. mem = disk
    BY <1>2 DEF Check, Verdicts, Loaded
  <2>1. verdict'.times \in 1 .. MaxTimes
    BY <1>2, <2>0 DEF Check, NewTimes, OverTimes
  <2>2. OneMore(now)'
    <3> SUFFICES ASSUME verdict'.permitted, Soon(now, prev)
                 PROVE  row + 1 <= Lost + verdict'.times
      BY <1>2 DEF Check, history, Soon
    <3>1. CASE disk.last = prev
      <4>1. ~OverTimes(now) /\ verdict'.times = NewTimes(now) /\ pc = "booted"
        BY <1>2 DEF Check
      <4>2. Soon(now, mem.last)
        BY <2>0, <3>1
      <4>3. verdict'.times = disk.times + 1
        BY <2>0, <4>1, <4>2 DEF NewTimes
      <4>4. row <= Lost + disk.times
        BY <3>1, <4>1
      <4> QED BY <4>3, <4>4
    <3>2. CASE disk.last # prev
      BY <1>2, <2>1, <3>2 DEF Check
    <3> QED BY <3>1, <3>2
  <2> QED BY <1>2, <2>1, <2>2 DEF Check, history
<1>3. CASE SkipCheck
  BY <1>3 DEF SkipCheck, history, Soon
<1>4. CASE Mark
  BY <1>4 DEF Mark, history, Soon
<1>5. CASE Flush
  BY <1>5 DEF Flush, history, Soon
<1>6. CASE Commit \/ CommitFails
  <2>1. pc = "marked" => row' <= Lost + verdict.times
    BY <1>6 DEF Commit, CommitFails, Judge, NewRow
  <2>2. pc = "unlimited" => row' = row /\ prev' = prev /\ mem = disk
    BY <1>6 DEF Commit, CommitFails, Judge, Verdicts, Loaded
  <2>3. CASE Commit
    <3>1. disk'.times = mem.times /\ disk'.last = mem.last
      BY <2>3 DEF Commit, CommitToDisk
    <3>2. CASE pc = "marked"
      <4>1. /\ prev' = mem.last /\ allowance' = allowance /\ pc' = "committed"
            /\ row' \in Nat /\ row' <= Lost + verdict.times
        BY <2>1, <2>3, <3>2 DEF Commit, Judge, NewRow
      <4>2. disk'.times = verdict.times /\ disk'.last = prev' /\ verdict.times \in 1 .. MaxTimes
        BY <3>1, <3>2, <4>1
      <4> QED BY <4>1, <4>2
    <3>3. CASE pc = "unlimited"
      <4>1. /\ row' = row /\ prev' = prev /\ allowance' = allowance /\ pc' = "committed"
            /\ disk'.times = disk.times /\ disk'.last = disk.last
        BY <2>2, <2>3, <3>1, <3>3 DEF Commit
      <4>2. Counted
        BY <3>3
      <4> QED BY <4>1, <4>2
    <3> QED BY <2>3, <3>2, <3>3 DEF Commit
  <2>4. CASE CommitFails
    <3>1. disk' = disk /\ allowance' = allowance + MaxTimes /\ pc' = "committed"
      BY <2>4 DEF CommitFails
    <3>2. row' \in Nat
      BY <2>4 DEF CommitFails, Judge, NewRow
    <3>3. row' <= Lost + MaxTimes
      <4>1. CASE pc = "marked"
        <5>1. verdict.times \in 1 .. MaxTimes /\ row' <= Lost + verdict.times
          BY <2>1, <4>1
        <5> QED BY <3>2, <5>1
      <4>2. CASE pc = "unlimited"
        BY <2>2, <4>2
      <4> QED BY <2>4, <4>1, <4>2 DEF CommitFails
    <3> QED BY <3>1, <3>2, <3>3
  <2> QED BY <1>6, <2>3, <2>4
<1>7. CASE Decide \/ Killed
  BY <1>7 DEF Decide, Killed, history
<1>8. CASE KilledBeforeCommit
  BY <1>8 DEF KilledBeforeCommit
<1>9. CASE AssistantBoot \/ AssistantDies
  BY <1>9 DEF AssistantBoot, AssistantDies, history, Soon
<1>10. CASE Tick
  BY <1>10 DEF Tick, history, Soon
<1>11. CASE SetBack
  BY <1>11 DEF SetBack, Soon
<1>12. CASE UNCHANGED vars
  BY <1>12 DEF vars, history, Soon
<1> QED BY <1>1, <1>2, <1>3, <1>4, <1>5, <1>6, <1>7, <1>8, <1>9, <1>10, <1>11, <1>12 DEF Next

\* THE ROW IS BOUNDED: never more than rebootMaxTimes permitted boots in a row, each
\* soon after the last, losses of a record and slips of the clock apart
\* (BootLimiter!RowBounded).
THEOREM RowBoundedHolds == Spec => []RowBounded
<1>1. Init => Row
  BY RowInit
<1>2. TypeOK /\ Verdicts /\ Row /\ [Next]_vars => Row'
  BY RowStep
<1>3. Row => RowBounded
  BY DEF Row, RowBounded
<1> QED BY <1>1, <1>2, <1>3, VerdictsAlways, PTL DEF Spec
=============================================================================

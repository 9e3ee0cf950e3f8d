------------------------ MODULE BinderTransactProofs -------------------------
(***************************************************************************)
(* Theorems of BinderTransact: a transaction is performed at most once,    *)
(* write_transact says truly what became of it and leaves nothing behind,  *)
(* and the two calls implement RemoteCall.                                 *)
(***************************************************************************)
EXTENDS BinderTransact, TLAPS

\* The transaction of a call that is under way is in mOut until the driver has
\* consumed it; while it is there and not consumed, nothing else has happened.
Unsent == /\ mOut # << >>
          /\ bwr.active => bwr.consumed = 0
Buffers ==
    /\ \A c \in Calls : /\ status[c] = "busy" => pc = c
                        /\ pc \in {"open", "init"} => status[c] = "idle"
    /\ Len(mOut) <= 1
    /\ \A c \in Calls, i \in 1 .. Len(mOut) : status[c] = "busy" => mOut[i].call = c
    /\ bwr.active => bwr.out = mOut /\ bwr.consumed <= Len(mOut)
    /\ ~bwr.active => bwr = NoIoctl
    /\ Unsent => mIn = << >> /\ todo = << >> /\ pending = {}

\* When no call is under way nothing is left of any.
Quiet == (\A c \in Calls : status[c] # "busy")
            => /\ mOut = << >> /\ mIn = << >> /\ ~bwr.active
               /\ todo = << >> /\ pending = {}

\* How often a call has been performed.
Performed ==
    \A c \in Calls : /\ performed[c] <= 1
                     /\ c \notin TwoWay => answer[c] = Nothing
                     /\ status[c] = "idle" => performed[c] = 0 /\ answer[c] = Nothing
                     /\ status[c] = "busy" /\ Unsent => performed[c] = 0 /\ answer[c] = Nothing

\* What a return in mIn or todo tells the call c that is under way is true.
True(c, ret) ==
    /\ ret.cmd \in Asides \cup {"TRANSACTION_COMPLETE", "DEAD_REPLY", "FAILED_REPLY", "REPLY"}
    /\ ret.cmd = "REPLY" => ret.val = answer[c] /\ ret.val # Nothing
    /\ ret.cmd # "REPLY" => ret.val = Nothing
    /\ ret.cmd \in {"TRANSACTION_COMPLETE", "REPLY"} => performed[c] = 1
    /\ ret.cmd \in {"DEAD_REPLY", "FAILED_REPLY"} /\ c \notin TwoWay => performed[c] = 0
Truths ==
    \A c \in Calls : status[c] = "busy" =>
        /\ \A i \in 1 .. Len(mIn) : True(c, mIn[i])
        /\ \A i \in 1 .. Len(todo) : True(c, todo[i])
        /\ \A cmd \in pending : /\ cmd.call = c /\ c \in TwoWay
                                /\ performed[c] = 1 /\ answer[c] = Nothing

\* The return that ends a call is the last one, and no answer is due after it.
OneAnswer == \A cmd1, cmd2 \in pending : cmd1 = cmd2
LastReturn ==
    \A c \in Calls : status[c] = "busy" =>
        /\ \A i \in 1 .. Len(mIn) :
              Ends(c, mIn[i].cmd) => i = Len(mIn) /\ todo = << >> /\ pending = {}
        /\ \A i \in 1 .. Len(todo) : Ends(c, todo[i].cmd) => i = Len(todo) /\ pending = {}

\* Without the driver nothing happens at all.
NoDriverNoCall == slot # "driver" =>
    /\ mIn = << >> /\ todo = << >> /\ pending = {}
    /\ bwr.consumed = 0
    /\ \A c \in Calls : performed[c] = 0

Inv == /\ TypeOK /\ Buffers /\ Quiet /\ Performed
       /\ Truths /\ OneAnswer /\ LastReturn /\ NoDriverNoCall /\ OutcomeTrue

----------------------------------------------------------------------------
LEMMA InitInv == Init => Inv
<1> SUFFICES ASSUME Init PROVE Inv
  OBVIOUS
<1>1. TypeOK
  BY BinderTransactAssumption DEF Init, TypeOK, Handles, Calls, Nothing, NoIoctl
<1>2. Buffers /\ Quiet /\ OutcomeTrue
  BY DEF Init, Buffers, Quiet, OutcomeTrue, Unsent, NoIoctl, Calls
<1>3. Performed /\ Truths /\ OneAnswer /\ LastReturn /\ NoDriverNoCall
  BY DEF Init, Performed, Truths, OneAnswer, LastReturn, NoDriverNoCall, NoIoctl, Calls
<1> QED BY <1>1, <1>2, <1>3 DEF Inv

\* What only moves do_daemon between its calls.
LEMMA BetweenCalls ==
    ASSUME Inv, OpenDriver \/ InitProcessState \/ Watch
    PROVE  Inv'
<1>1. \A c \in Calls : status[c] # "busy"
  BY DEF Inv, Buffers, OpenDriver, InitProcessState, Watch, Calls
<1>2. TypeOK'
  BY DEF Inv, TypeOK, OpenDriver, InitProcessState, Watch, Calls, driver
<1>3. /\ UNCHANGED <<mOut, mIn, bwr, status, todo, pending, performed, answer, reply>>
      /\ UNCHANGED Unsent
  BY DEF OpenDriver, InitProcessState, Watch, driver, Unsent
<1>4. /\ Quiet' /\ Performed' /\ OneAnswer' /\ OutcomeTrue'
      /\ Truths' /\ LastReturn'
  BY <1>1, <1>3 DEF Inv, Quiet, Performed, OneAnswer, OutcomeTrue, Truths, LastReturn
<1>5. Buffers'
  BY <1>1, <1>3 DEF Inv, Buffers, OpenDriver, InitProcessState, Watch
<1>6. NoDriverNoCall'
  BY <1>1, <1>3 DEF Inv, NoDriverNoCall, OpenDriver, InitProcessState, Watch, TypeOK,
                            Calls, Quiet, Performed, Buffers, NoIoctl
<1> QED BY <1>2, <1>4, <1>5, <1>6 DEF Inv

\* At most one call is under way.
LEMMA OneBusy ==
    ASSUME Buffers, NEW c \in Calls, status[c] = "busy"
    PROVE  pc = c /\ \A d \in Calls : status[d] = "busy" => d = c
  BY DEF Buffers

LEMMA Invoked ==
    ASSUME Inv, NEW c \in Calls, WriteTransact(c)
    PROVE  Inv'
<1>1. \A d \in Calls : status[d] # "busy"
  BY DEF Inv, Buffers, WriteTransact
<1>2. /\ mIn' = << >> /\ todo' = << >> /\ pending' = {} /\ bwr' = NoIoctl
      /\ UNCHANGED <<pc, performed, answer, reply, slot>>
  BY <1>1 DEF Inv, Quiet, Buffers, WriteTransact, driver
<1>3. \A d \in Calls : status'[d] = IF d = c THEN "busy" ELSE status[d]
  BY DEF Inv, TypeOK, WriteTransact
<1>4. PICK cmd \in Commands : mOut' = <<cmd>> /\ cmd.call = c
  BY DEF Inv, TypeOK, WriteTransact, Commands, Handle, Handles
<1>5. TypeOK'
  BY <1>2, <1>4 DEF Inv, TypeOK, WriteTransact, driver, NoIoctl, Calls
<1>6. Buffers'
  BY <1>1, <1>2, <1>3, <1>4 DEF Inv, Buffers, WriteTransact, NoIoctl, Calls
<1>7. Performed'
  BY <1>1, <1>2, <1>3 DEF Inv, Performed, WriteTransact
<1>9. OutcomeTrue'
  BY <1>2, <1>3 DEF Inv, OutcomeTrue, WriteTransact, Calls
<1>8. Quiet' /\ Truths' /\ OneAnswer' /\ LastReturn' /\ NoDriverNoCall'
  BY <1>2, <1>3 DEF Inv, Quiet, Truths, OneAnswer, LastReturn, NoDriverNoCall, NoIoctl
<1> QED BY <1>5, <1>6, <1>7, <1>8, <1>9 DEF Inv

\* A call that ends with nothing outstanding, and says the truth.
LEMMA Finished ==
    ASSUME Inv, NEW c \in Calls, NEW r \in {"ok", "error"}, Finish(c, r), UNCHANGED driver,
           status[c] = "busy", todo = << >>, pending = {},
           reply' \in Data \cup {Nothing}, c = "request" => reply' = reply,
           r = "ok" => performed[c] = 1,
           r = "ok" /\ c = "lookup" => reply' = answer[c] /\ reply' # Nothing,
           r = "error" /\ c = "request" => performed[c] = 0
    PROVE  Inv'
<1>1. pc = c /\ \A d \in Calls : status[d] = "busy" => d = c
  BY OneBusy DEF Inv
<1>2. /\ mIn' = << >> /\ mOut' = << >> /\ todo' = << >> /\ pending' = {} /\ bwr' = NoIoctl
      /\ UNCHANGED <<performed, answer, slot>>
  BY DEF Finish, driver
<1>3. \A d \in Calls : status'[d] = IF d = c THEN r ELSE status[d]
  BY DEF Inv, TypeOK, Finish
<1>4. \A d \in Calls : status'[d] # "busy"
  BY <1>1, <1>3
<1>5. TypeOK'
  BY <1>2 DEF Inv, TypeOK, Finish, driver, NoIoctl, Calls
<1>6. Buffers'
  BY <1>2, <1>4 DEF Inv, Buffers, Finish, NoIoctl, Calls
<1>7. Performed'
  BY <1>2, <1>3, <1>4 DEF Inv, Performed
<1>9. OutcomeTrue'
  BY <1>2, <1>3 DEF Inv, OutcomeTrue, Calls
<1>8. Quiet' /\ Truths' /\ OneAnswer' /\ LastReturn' /\ NoDriverNoCall'
  BY <1>2, <1>4 DEF Inv, Quiet, Truths, OneAnswer, LastReturn, NoDriverNoCall, NoIoctl
<1> QED BY <1>5, <1>6, <1>7, <1>8, <1>9 DEF Inv

LEMMA Failed ==
    ASSUME Inv, NEW c \in Calls, NoDriver(c) \/ StaleIoctl(c)
    PROVE  Inv'
<1>1. slot # "driver"
  BY DEF NoDriver, StaleIoctl
<1>2. todo = << >> /\ pending = {} /\ performed[c] = 0
  BY <1>1 DEF Inv, NoDriverNoCall
<1>3. Finish(c, "error") /\ UNCHANGED <<reply, driver>> /\ status[c] = "busy"
  BY DEF NoDriver, StaleIoctl
<1> QED BY <1>2, <1>3, Finished DEF Inv, TypeOK

\* The return that ends call c says the truth, and is the last.
LEMMA LastTrue ==
    ASSUME Inv, NEW c \in Calls, Last(c)
    PROVE  \E r \in {"ok", "error"} :
             /\ Finish(c, r) /\ UNCHANGED driver /\ status[c] = "busy"
             /\ todo = << >> /\ pending = {}
             /\ reply' \in Data \cup {Nothing} /\ (c = "request" => reply' = reply)
             /\ r = "ok" => performed[c] = 1
             /\ r = "ok" /\ c = "lookup" => reply' = answer[c] /\ reply' # Nothing
             /\ r = "error" /\ c = "request" => performed[c] = 0
<1> DEFINE ret == Head(mIn)
           r   == IF IsError(ret) THEN "error" ELSE "ok"
<1>1. status[c] = "busy" /\ ret = mIn[1] /\ 1 \in 1 .. Len(mIn) /\ ret \in Returns
  BY DEF Last, Inv, TypeOK
<1>2. todo = << >> /\ pending = {} /\ Len(mIn) = 1
  BY <1>1 DEF Inv, LastReturn, Last
<1>3. True(c, ret)
  BY <1>1 DEF Inv, Truths
<1>4. Finish(c, r) /\ UNCHANGED driver
  BY DEF Last
<1>5. reply' = IF c \in TwoWay /\ TakesReply(ret) THEN ret.val ELSE reply
  BY DEF Last
<1>6. reply' \in Data \cup {Nothing}
  BY <1>1, <1>3, <1>5 DEF Inv, TypeOK, True, TakesReply, Returns, Answers
<1>7. Ends(c, ret.cmd)
  BY DEF Last
<1>8. r = "ok" => performed[c] = 1
  BY <1>3, <1>7 DEF IsError, Ends, True
<1>9. r = "ok" /\ c = "lookup" => reply' = answer[c] /\ reply' # Nothing
  BY <1>3, <1>5, <1>7 DEF IsError, Ends, True, TakesReply, TwoWay
<1>10. r = "error" /\ c = "request" => performed[c] = 0
  BY <1>3, <1>7, BinderTransactAssumption DEF IsError, Ends, True, TwoWay, Nothing
<1>11. c = "request" => reply' = reply
  BY <1>5 DEF TwoWay
<1>12. r \in {"ok", "error"}
  OBVIOUS
<1> HIDE DEF r
<1> QED BY <1>1, <1>2, <1>4, <1>6, <1>8, <1>9, <1>10, <1>11, <1>12

LEMMA Ended ==
    ASSUME Inv, NEW c \in Calls, Last(c)
    PROVE  Inv'
BY LastTrue, Finished

LEMMA Began ==
    ASSUME Inv, NEW c \in Calls, BeginTalk(c)
    PROVE  Inv'
<1>1. /\ UNCHANGED <<mOut, mIn, status, pc, slot, reply, todo, pending, performed, answer>>
      /\ bwr' = [active |-> TRUE, out |-> mOut, consumed |-> 0]
      /\ status[c] = "busy" /\ ~bwr.active
  BY DEF BeginTalk, driver
<1>2. Unsent' <=> Unsent
  BY <1>1 DEF Unsent
<1>3. TypeOK'
  BY <1>1 DEF Inv, TypeOK, BeginTalk, driver
<1>4. Buffers'
  BY <1>1, <1>2 DEF Inv, Buffers, TypeOK
<1>5. Quiet' /\ Performed' /\ OutcomeTrue' /\ OneAnswer'
  BY <1>1, <1>2 DEF Inv, Quiet, Performed, OutcomeTrue, OneAnswer
<1>6. Truths' /\ LastReturn'
  BY <1>1 DEF Inv, Truths, LastReturn, True
<1>7. NoDriverNoCall'
  BY <1>1 DEF Inv, NoDriverNoCall
<1> QED BY <1>3, <1>4, <1>5, <1>6, <1>7 DEF Inv

LEMMA Again ==
    ASSUME Inv, Interrupted
    PROVE  Inv'
<1>1. UNCHANGED <<mOut, mIn, bwr, status, pc, slot, reply, todo, pending, performed, answer>>
  BY DEF Interrupted, Retry, driver
<1>2. TypeOK'
  BY <1>1, BinderTransactAssumption DEF Inv, TypeOK, Interrupted, driver
<1>3. /\ Buffers' /\ Quiet' /\ Performed' /\ OutcomeTrue' /\ OneAnswer'
      /\ Truths' /\ LastReturn' /\ NoDriverNoCall'
  BY <1>1 DEF Inv, Buffers, Quiet, Performed, OutcomeTrue, OneAnswer, Truths, True, LastReturn,
              NoDriverNoCall, Unsent
<1> QED BY <1>2, <1>3 DEF Inv

LEMMA Talked ==
    ASSUME Inv, EndTalk
    PROVE  Inv'
<1>1. PICK a \in Asides : mIn' = <<Return(a, Nothing)>> \o todo
  BY DEF EndTalk
<1>2. /\ UNCHANGED <<status, pc, slot, reply, pending, performed, answer>>
      /\ todo' = << >> /\ bwr' = NoIoctl /\ bwr.active /\ slot = "driver"
      /\ bwr.out = mOut /\ bwr.consumed = Len(mOut) /\ todo # << >>
  BY DEF EndTalk, Inv, Buffers
<1>3. mOut' = << >>
  BY <1>2 DEF EndTalk, Left, Inv, TypeOK
<1>4. ~Unsent /\ ~Unsent'
  BY <1>2, <1>3 DEF Unsent, Inv, Buffers
<1>5. Return(a, Nothing) \in Returns
  BY DEF Return, Returns
<1>6. /\ todo \in Seq(Returns) /\ mIn' \in Seq(Returns) /\ Len(mIn') = Len(todo) + 1
      /\ mIn'[1] = Return(a, Nothing)
      /\ \A i \in 1 .. Len(mIn') : i # 1 => i - 1 \in 1 .. Len(todo) /\ mIn'[i] = todo[i - 1]
  BY <1>1, <1>5 DEF Inv, TypeOK
<1>7. TypeOK'
  BY <1>2, <1>3, <1>6 DEF Inv, TypeOK, EndTalk, NoIoctl
<1>8. Buffers' /\ Performed' /\ OutcomeTrue' /\ OneAnswer' /\ NoDriverNoCall'
  BY <1>2, <1>3, <1>4 DEF Inv, Buffers, Performed, OutcomeTrue, OneAnswer, NoDriverNoCall, NoIoctl
<1>9. Quiet'
  BY <1>2 DEF Inv, Quiet
<1>10. ASSUME NEW c \in Calls, status[c] = "busy", NEW i \in 1 .. Len(mIn')
       PROVE  True(c, mIn'[i]) /\ (Ends(c, mIn'[i].cmd) => i = Len(mIn') /\ pending = {})
  <2>1. CASE i = 1
    BY <1>6, <2>1, BinderTransactAssumption DEF True, Return, Ends
  <2>2. CASE i # 1
    <3>1. i - 1 \in 1 .. Len(todo) /\ mIn'[i] = todo[i - 1] /\ Len(mIn') = Len(todo) + 1
      BY <1>6, <2>2
    <3>2. \A k \in 1 .. Len(todo) :
             True(c, todo[k]) /\ (Ends(c, todo[k].cmd) => k = Len(todo) /\ pending = {})
      BY <1>10 DEF Inv, Truths, LastReturn
    <3> QED BY <3>1, <3>2
  <2> QED BY <2>1, <2>2
<1>11. Truths'
  BY <1>2, <1>10 DEF Inv, Truths, True
<1>12. LastReturn'
  BY <1>2, <1>10 DEF Inv, LastReturn
<1> QED BY <1>7, <1>8, <1>9, <1>11, <1>12 DEF Inv

LEMMA Skipped ==
    ASSUME Inv, NEW c \in Calls, Skip(c)
    PROVE  Inv'
<1>1. /\ UNCHANGED <<mOut, bwr, status, pc, slot, reply, todo, pending, performed, answer>>
      /\ status[c] = "busy" /\ mIn # << >> /\ ~Ends(c, mIn[1].cmd)
  BY DEF Skip, driver, Inv, TypeOK
<1>2. /\ mIn' \in Seq(Returns) /\ Len(mIn') = Len(mIn) - 1 /\ Len(mIn) \in Nat
      /\ \A i \in 1 .. Len(mIn') : i + 1 \in 1 .. Len(mIn) /\ mIn'[i] = mIn[i + 1]
  BY <1>1 DEF Skip, Inv, TypeOK
<1>3. ~Unsent /\ ~Unsent' /\ slot = "driver"
  BY <1>1 DEF Unsent, Inv, Buffers, NoDriverNoCall
<1>4. TypeOK'
  BY <1>1, <1>2 DEF Inv, TypeOK, Skip, driver
<1>5. /\ Buffers' /\ Performed' /\ OutcomeTrue' /\ OneAnswer' /\ NoDriverNoCall' /\ Quiet'
  BY <1>1, <1>3 DEF Inv, Buffers, Performed, OutcomeTrue, OneAnswer, NoDriverNoCall, Quiet
<1>6. Truths'
  BY <1>1, <1>2 DEF Inv, Truths, True
<1>7. LastReturn'
  BY <1>1, <1>2 DEF Inv, LastReturn
<1> QED BY <1>4, <1>5, <1>6, <1>7 DEF Inv

\* The driver consumes the transaction of the call under way, and for the first time.
LEMMA Consumed ==
    ASSUME Inv, NEW cmd \in Commands, Consume(cmd)
    PROVE  /\ cmd.call \in Calls /\ status[cmd.call] = "busy"
           /\ \A c \in Calls : status[c] = "busy" => c = cmd.call
           /\ performed[cmd.call] = 0 /\ answer[cmd.call] = Nothing
           /\ mIn = << >> /\ todo = << >> /\ pending = {} /\ slot = "driver"
           /\ bwr'.active /\ bwr'.out = mOut /\ bwr'.consumed = 1 /\ Len(mOut) = 1
           /\ UNCHANGED <<mOut, mIn, status, pc, slot, reply, lookups, alive, answer, signals>>
           /\ ~Unsent' /\ mOut # << >>
           /\ bwr' \in [active : BOOLEAN, out : Seq(Commands), consumed : Nat]
<1>0. /\ bwr.consumed \in Nat /\ mOut \in Seq(Commands) /\ Len(mOut) <= 1
      /\ bwr \in [active : BOOLEAN, out : Seq(Commands), consumed : Nat]
  BY DEF Inv, TypeOK, Buffers
<1>1. bwr.active /\ bwr.out = mOut /\ bwr.consumed = 0 /\ Len(mOut) = 1 /\ cmd = mOut[1]
  <2>1. bwr.active /\ bwr.out = mOut /\ bwr.consumed < Len(mOut) /\ cmd = mOut[bwr.consumed + 1]
    BY DEF Consume, Inv, Buffers
  <2>2. Len(mOut) \in Nat
    BY <1>0
  <2>3. ASSUME NEW n \in Nat, NEW k \in Nat, n < k, k <= 1 PROVE n = 0 /\ k = 1
    BY <2>3
  <2>4. bwr.consumed = 0 /\ Len(mOut) = 1
    BY <1>0, <2>1, <2>2, <2>3
  <2> QED BY <2>1, <2>4
<1>2. Unsent /\ mOut # << >>
  <2>1. mOut # << >>
    <3> SUFFICES ASSUME mOut = << >> PROVE FALSE
      OBVIOUS
    <3>1. Len(mOut) = 0
      OBVIOUS
    <3> QED BY <1>1, <3>1
  <2> QED BY <1>1, <2>1 DEF Unsent
<1>3. PICK c \in Calls : status[c] = "busy"
  BY <1>1 DEF Inv, Quiet
<1>4. cmd.call = c
  BY <1>1, <1>3 DEF Inv, Buffers
<1>5. /\ UNCHANGED <<mOut, mIn, status, pc, slot, reply, lookups, alive, answer, signals>>
      /\ slot = "driver" /\ bwr'.active /\ bwr'.out = mOut /\ bwr'.consumed = 1
  BY <1>0, <1>1 DEF Consume
<1>10. bwr' \in [active : BOOLEAN, out : Seq(Commands), consumed : Nat]
  BY <1>0, <1>1 DEF Consume
<1>6. ~Unsent'
  BY <1>5 DEF Unsent
<1>7. mIn = << >> /\ todo = << >> /\ pending = {}
  BY <1>2 DEF Inv, Buffers
<1>8. performed[c] = 0 /\ answer[c] = Nothing
  BY <1>2, <1>3 DEF Inv, Performed
<1>9. \A d \in Calls : status[d] = "busy" => d = c
  BY <1>3, OneBusy DEF Inv
<1> QED BY <1>1, <1>2, <1>3, <1>4, <1>5, <1>6, <1>7, <1>8, <1>9, <1>10

LEMMA Accepted ==
    ASSUME Inv, NEW cmd \in Commands, Accept(cmd)
    PROVE  Inv'
<1> DEFINE c == cmd.call
           ret == Return("TRANSACTION_COMPLETE", Nothing)
<1>1. Consume(cmd)
  BY DEF Accept
<1>2. Len(todo') = 1 /\ todo'[1] = ret /\ todo' \in Seq(Returns)
  <2>1. ret \in Returns
    BY DEF Returns, Return
  <2>2. todo' = Append(<< >>, ret)
    BY <1>1, Consumed DEF Accept, Told
  <2> QED BY <2>1, <2>2
<1>3. \A d \in Calls : performed'[d] = IF d = c THEN 1 ELSE performed[d]
  BY <1>1, Consumed DEF Accept, Inv, TypeOK
<1>4. pending' = IF c \in TwoWay THEN {cmd} ELSE {}
  BY <1>1, Consumed DEF Accept
<1>5. performed' \in [Calls -> Nat]
  BY <1>1, Consumed DEF Accept, Inv, TypeOK
<1>6. TypeOK'
  BY <1>1, <1>2, <1>4, <1>5, Consumed DEF Inv, TypeOK
<1>7. Buffers'
  BY <1>1, Consumed DEF Inv, Buffers
<1>8. Performed' /\ OutcomeTrue'
  BY <1>1, <1>3, Consumed DEF Inv, Performed, OutcomeTrue, Calls
<1>9. Quiet' /\ OneAnswer' /\ NoDriverNoCall'
  BY <1>1, <1>4, Consumed DEF Quiet, OneAnswer, NoDriverNoCall
<1>10. Truths'
  BY <1>1, <1>2, <1>3, <1>4, Consumed, BinderTransactAssumption DEF Truths, True, Return
<1>11. LastReturn'
  BY <1>1, <1>2, <1>4, Consumed DEF LastReturn, Ends, Return
<1> QED BY <1>6, <1>7, <1>8, <1>9, <1>10, <1>11 DEF Inv

LEMMA Refused ==
    ASSUME Inv, NEW cmd \in Commands, Refuse(cmd)
    PROVE  Inv'
<1>1. Consume(cmd)
  BY DEF Refuse
<1>2. PICK e \in {"FAILED_REPLY", "DEAD_REPLY"} :
         Len(todo') = 1 /\ todo'[1] = Return(e, Nothing) /\ todo' \in Seq(Returns)
  <2>1. \A e \in {"FAILED_REPLY", "DEAD_REPLY"} : Return(e, Nothing) \in Returns
    BY DEF Returns, Return
  <2>2. PICK e \in {"FAILED_REPLY", "DEAD_REPLY"} : todo' = Append(<< >>, Return(e, Nothing))
    BY <1>1, Consumed DEF Refuse, Told
  <2> QED BY <2>1, <2>2
<1>3. UNCHANGED <<pending, performed>>
  BY DEF Refuse
<1>6. TypeOK'
  BY <1>1, <1>2, <1>3, Consumed DEF Inv, TypeOK
<1>7. Buffers'
  BY <1>1, Consumed DEF Inv, Buffers
<1>8. Performed' /\ OutcomeTrue'
  BY <1>1, <1>3, Consumed DEF Inv, Performed, OutcomeTrue, Calls
<1>9. Quiet' /\ OneAnswer' /\ NoDriverNoCall'
  BY <1>1, <1>3, Consumed DEF Quiet, OneAnswer, NoDriverNoCall
<1>10. Truths'
  BY <1>1, <1>2, <1>3, Consumed, BinderTransactAssumption DEF Truths, True, Return
<1>11. LastReturn'
  BY <1>1, <1>2, <1>3, Consumed DEF LastReturn, Ends, Return
<1> QED BY <1>6, <1>7, <1>8, <1>9, <1>10, <1>11 DEF Inv

\* A return that is queued for a call that waits for an answer, and is its last.
LEMMA Queued ==
    ASSUME Inv, NEW cmd \in pending, NEW ret \in Returns, todo' = Append(todo, ret), pending' = {},
           UNCHANGED <<caller, performed, signals>>, alive' \subseteq Handles,
           answer' \in [Calls -> Answers \cup {Nothing}],
           \A d \in Calls \ {cmd.call} : answer'[d] = answer[d],
           \/ ret.cmd = "REPLY" /\ ret.val = answer'[cmd.call] /\ ret.val # Nothing
           \/ ret = Return("DEAD_REPLY", Nothing) /\ answer' = answer
    PROVE  Inv'
<1> DEFINE c == cmd.call
<1>1. PICK d \in Calls : status[d] = "busy"
  BY DEF Inv, Quiet
<1>2. /\ d = c /\ c \in TwoWay /\ performed[c] = 1 /\ answer[c] = Nothing
      /\ \A e \in Calls : status[e] = "busy" => e = c
  BY <1>1, OneBusy DEF Inv, Truths
<1>3. ~Unsent /\ ~Unsent' /\ slot = "driver"
  BY DEF Inv, Buffers, NoDriverNoCall, Unsent, caller
<1>4. UNCHANGED <<pc, slot, lookups, reply, mOut, mIn, bwr, status>>
  BY DEF caller
<1>5. /\ todo \in Seq(Returns) /\ todo' \in Seq(Returns) /\ Len(todo') = Len(todo) + 1
      /\ todo'[Len(todo')] = ret
      /\ \A i \in 1 .. Len(todo') :
            i # Len(todo') => i \in 1 .. Len(todo) /\ todo'[i] = todo[i]
  BY DEF Inv, TypeOK
<1>6. TypeOK'
  BY <1>4, <1>5 DEF Inv, TypeOK
<1>7. Buffers' /\ Quiet' /\ OneAnswer' /\ NoDriverNoCall' /\ Performed'
  BY <1>1, <1>2, <1>3, <1>4 DEF Inv, Buffers, Quiet, OneAnswer, NoDriverNoCall, Performed
<1>8. OutcomeTrue'
  BY <1>1, <1>2, <1>4 DEF Inv, OutcomeTrue, Calls
<1>9. \A i \in 1 .. Len(mIn) : True(c, mIn[i]) /\ ~Ends(c, mIn[i].cmd)
  BY <1>1, <1>2 DEF Inv, Truths, LastReturn
<1>10. \A i \in 1 .. Len(todo) : True(c, todo[i]) /\ ~Ends(c, todo[i].cmd)
  BY <1>1, <1>2 DEF Inv, Truths, LastReturn
<1>11. ASSUME NEW x, True(c, x), ~Ends(c, x.cmd)
       PROVE  /\ x.cmd \in Asides \cup {"TRANSACTION_COMPLETE", "DEAD_REPLY", "FAILED_REPLY", "REPLY"}
              /\ x.cmd # "REPLY" /\ x.val = Nothing
  BY <1>2, <1>11 DEF True, Ends
<1>12. Truths'
  BY <1>2, <1>4, <1>5, <1>9, <1>10, <1>11 DEF Truths, True, Returns, Return
<1>13. LastReturn'
  BY <1>2, <1>4, <1>5, <1>9, <1>10 DEF LastReturn
<1> QED BY <1>6, <1>7, <1>8, <1>12, <1>13 DEF Inv

LEMMA Replied ==
    ASSUME Inv, NEW cmd \in Commands, Reply(cmd)
    PROVE  Inv'
<1>1. PICK a \in Answers : /\ answer' = [answer EXCEPT ![cmd.call] = a]
                           /\ todo' = Append(todo, Return("REPLY", a))
  BY DEF Reply
<1>2. cmd \in pending /\ cmd.call \in Calls /\ pending' = {}
  BY DEF Reply, Inv, OneAnswer, Commands
<1>3. Return("REPLY", a) \in Returns /\ a # Nothing
  BY BinderTransactAssumption DEF Return, Returns, Answers, Data, Nothing
<1>4. /\ answer' \in [Calls -> Answers \cup {Nothing}] /\ answer'[cmd.call] = a
      /\ \A d \in Calls \ {cmd.call} : answer'[d] = answer[d]
  BY <1>1, <1>2 DEF Inv, TypeOK
<1>5. alive' \subseteq Handles /\ UNCHANGED <<caller, performed, signals>>
  BY DEF Reply, Inv, TypeOK
<1>6. PICK ret \in Returns : /\ todo' = Append(todo, ret)
                            /\ ret.cmd = "REPLY" /\ ret.val = a
  BY <1>1, <1>3 DEF Return
<1>7. ret.cmd = "REPLY" /\ ret.val = answer'[cmd.call] /\ ret.val # Nothing
  BY <1>3, <1>4, <1>6
<1> QED BY <1>2, <1>4, <1>5, <1>6, <1>7, Queued

LEMMA Died ==
    ASSUME Inv, NEW h \in Handles, Dies(h)
    PROVE  Inv'
<1>1. alive' \subseteq Handles /\ UNCHANGED <<caller, performed, answer, signals>>
  BY DEF Dies, Inv, TypeOK
<1>2. CASE \E cmd \in pending : cmd.to = h
  <2>1. PICK cmd \in pending : cmd.to = h
    BY <1>2
  <2>2. pending' = {} /\ todo' = Append(todo, Return("DEAD_REPLY", Nothing))
    BY <1>2, <2>1 DEF Dies, Told, Inv, OneAnswer
  <2>3. Return("DEAD_REPLY", Nothing) \in Returns
    BY DEF Return, Returns
  <2>4. answer' \in [Calls -> Answers \cup {Nothing}]
    BY <1>1 DEF Inv, TypeOK
  <2> QED BY <1>1, <2>1, <2>2, <2>3, <2>4, Queued
<1>3. CASE ~\E cmd \in pending : cmd.to = h
  <2>1. UNCHANGED <<pc, slot, lookups, reply, mOut, mIn, bwr, status, todo, pending, performed, answer>>
    BY <1>1, <1>3 DEF Dies, caller
  <2>2. TypeOK'
    BY <1>1, <2>1 DEF Inv, TypeOK
  <2>3. /\ Buffers' /\ Quiet' /\ Performed' /\ OutcomeTrue' /\ OneAnswer'
        /\ Truths' /\ LastReturn' /\ NoDriverNoCall'
    BY <2>1 DEF Inv, Buffers, Quiet, Performed, OutcomeTrue, OneAnswer, Truths, True, LastReturn,
                NoDriverNoCall, Unsent
  <2> QED BY <2>2, <2>3 DEF Inv
<1> QED BY <1>2, <1>3

LEMMA StepInv == Inv /\ [Next]_vars => Inv'
<1> SUFFICES ASSUME Inv, [Next]_vars PROVE Inv'
  OBVIOUS
<1>1. CASE OpenDriver \/ InitProcessState \/ Watch
  BY <1>1, BetweenCalls
<1>2. ASSUME NEW c \in Calls, CallStep(c) PROVE Inv'
  BY <1>2, Invoked, Began, Failed, Ended, Skipped DEF CallStep
<1>3. CASE Interrupted \/ EndTalk
  BY <1>3, Again, Talked
<1>4. ASSUME NEW cmd \in Commands, Accept(cmd) \/ Refuse(cmd) \/ Reply(cmd) PROVE Inv'
  BY <1>4, Accepted, Refused, Replied
<1>5. ASSUME NEW h \in Handles, Dies(h) PROVE Inv'
  BY <1>5, Died
<1>6. CASE UNCHANGED vars
  <2>1. UNCHANGED <<pc, slot, lookups, reply, mOut, mIn, bwr, status, todo, pending, alive,
                    performed, answer, signals>>
    BY <1>6 DEF vars, caller, driver
  <2> QED BY <2>1 DEF Inv, TypeOK, Buffers, Quiet, Performed, OutcomeTrue, OneAnswer, Truths, True,
                      LastReturn, NoDriverNoCall, Unsent
<1> QED BY <1>1, <1>2, <1>3, <1>4, <1>5, <1>6 DEF Next, DriverStep

LEMMA Invariant == Spec => []Inv
BY InitInv, StepInv, PTL DEF Spec

\* The state of a transaction keeps its shape, for any handles, answers and signals.
THEOREM TypeCorrect == Spec => []TypeOK
<1>1. Inv => TypeOK
  BY DEF Inv
<1> QED BY <1>1, Invariant, PTL

\* A transaction is performed at most once, however often a signal interrupts it.
THEOREM AtMostOnceHolds == Spec => []AtMostOnce
<1>1. Inv => AtMostOnce
  BY DEF Inv, Performed, AtMostOnce
<1> QED BY <1>1, Invariant, PTL

\* What write_transact returns is true of what became of the transaction.
THEOREM OutcomeTrueHolds == Spec => []OutcomeTrue
<1>1. Inv => OutcomeTrue
  BY DEF Inv
<1> QED BY <1>1, Invariant, PTL

\* What is known when call c ends.
LEMMA AtEnd ==
    ASSUME Inv, NEW c \in Calls, Last(c) \/ NoDriver(c) \/ StaleIoctl(c)
    PROVE  Len(mIn) <= 1 /\ todo = << >> /\ pending = {}
<1>1. CASE Last(c)
  <2>1. /\ status[c] = "busy" /\ 1 \in 1 .. Len(mIn) /\ Len(mIn) \in Nat
        /\ Ends(c, mIn[1].cmd)
    BY <1>1 DEF Last, Inv, TypeOK
  <2> QED BY <2>1 DEF Inv, LastReturn
<1>2. CASE slot # "driver"
  <2>1. mIn = << >> /\ todo = << >> /\ pending = {}
    BY <1>2 DEF Inv, NoDriverNoCall
  <2> QED BY <2>1
<1> QED BY <1>1, <1>2 DEF NoDriver, StaleIoctl

\* A call leaves nothing behind, for the next one to take for its own.
THEOREM NothingLeftHolds == Spec => NothingLeft
<1>1. ASSUME Inv, Next, NEW c \in Calls, status[c] = "busy", status'[c] # "busy"
      PROVE  Len(mIn) <= 1 /\ todo = << >> /\ pending = {}
  <2>1. UNCHANGED status \/ (\E d \in Calls : CallStep(d))
    BY <1>1 DEF Next, OpenDriver, InitProcessState, Watch, Interrupted, EndTalk, DriverStep, Accept,
                Refuse, Consume, Reply, Dies, caller
  <2>2. PICK d \in Calls : CallStep(d)
    BY <1>1, <2>1
  <2>3. CASE WriteTransact(d)
    BY <1>1, <2>3 DEF WriteTransact, Inv, TypeOK
  <2>4. CASE BeginTalk(d) \/ Skip(d)
    BY <1>1, <2>4 DEF BeginTalk, Skip
  <2>5. CASE Last(d) \/ NoDriver(d) \/ StaleIoctl(d)
    BY <1>1, <2>5, AtEnd
  <2> QED BY <2>2, <2>3, <2>4, <2>5 DEF CallStep
<1> DEFINE A == \A c \in Calls : status[c] = "busy" /\ status'[c] # "busy"
                                  => Len(mIn) <= 1 /\ todo = << >> /\ pending = {}
<1>2. Inv /\ [Next]_vars => [A]_vars
  BY <1>1
<1>3. []Inv /\ [][Next]_vars => [][A]_vars
  BY <1>2, PTL
<1> QED BY <1>3, Invariant, PTL DEF Spec, NothingLeft

----------------------------------------------------------------------------
(* The transactions implement RemoteCall *)

Result(c) == IF c \in TwoWay /\ status[c] = "ok" THEN reply ELSE Nothing

\* Nothing that a caller of RemoteCall sees has changed.
LEMMA Unseen ==
    ASSUME UNCHANGED <<status, performed, answer, reply>>
    PROVE  UNCHANGED Abstract!vars
BY DEF Abstract!vars

\* Call c ends with r.
LEMMA EndSeen ==
    ASSUME Inv, NEW c \in Calls, NEW r \in {"ok", "error"}, Finish(c, r), UNCHANGED driver,
           status[c] = "busy", c = "request" => reply' = reply,
           r = "ok" => performed[c] = 1,
           r = "ok" /\ c = "lookup" => reply' = answer[c] /\ reply' # Nothing,
           r = "error" /\ c = "request" => performed[c] = 0
    PROVE  Abstract!Next
<1> DEFINE res == [d \in Calls |-> Result(d)]
<1>1. status' = [status EXCEPT ![c] = r] /\ UNCHANGED <<performed, answer>>
  BY DEF Finish, driver
<1>2. \A d \in Calls : status'[d] = IF d = c THEN r ELSE status[d]
  BY <1>1 DEF Inv, TypeOK
<1>3. \A d \in Calls \ {c} : Result(d)' = Result(d)
  BY <1>2 DEF Result, Calls, TwoWay
<1>4. CASE r = "ok"
  <2>1. Result(c)' = answer[c]
    BY <1>2, <1>4 DEF Result, Calls, TwoWay, Inv, Performed
  <2>2. res' = [res EXCEPT ![c] = answer[c]]
    BY <1>3, <2>1
  <2>3. performed[c] = 1 /\ (c \in TwoWay => answer[c] # Nothing)
    BY <1>4 DEF TwoWay
  <2>4. Abstract!Succeed(c)
    BY <1>1, <1>4, <2>2, <2>3 DEF Abstract!Succeed, Result
  <2> QED BY <2>4 DEF Abstract!Next
<1>5. CASE r = "error"
  <2>1. Result(c)' = Nothing /\ Result(c) = Nothing
    BY <1>2, <1>5 DEF Result
  <2>2. res' = res
    BY <1>3, <2>1
  <2>3. c \notin TwoWay => performed[c] = 0
    BY <1>5 DEF TwoWay, Calls
  <2>4. Abstract!Fail(c)
    BY <1>1, <1>5, <2>2, <2>3 DEF Abstract!Fail, Result
  <2> QED BY <2>4 DEF Abstract!Next
<1> QED BY <1>4, <1>5

LEMMA StepSeen ==
    ASSUME Inv, [Next]_vars
    PROVE  [Abstract!Next]_Abstract!vars
<1>1. CASE OpenDriver \/ InitProcessState \/ Watch \/ Interrupted \/ EndTalk
  <2>1. UNCHANGED <<status, performed, answer, reply>>
    BY <1>1 DEF OpenDriver, InitProcessState, Watch, Interrupted, EndTalk, driver
  <2> QED BY <2>1, Unseen
<1>2. ASSUME NEW c \in Calls, CallStep(c) PROVE [Abstract!Next]_Abstract!vars
  <2>1. CASE WriteTransact(c)
    <3>1. /\ status[c] = "idle" /\ status' = [status EXCEPT ![c] = "busy"]
          /\ UNCHANGED <<performed, answer, reply>>
      BY <2>1 DEF WriteTransact, driver
    <3>2. \A d \in Calls : Result(d)' = Result(d)
      BY <3>1 DEF Result, Inv, TypeOK
    <3>3. [d \in Calls |-> Result(d)]' = [d \in Calls |-> Result(d)]
      BY <3>2
    <3>4. Abstract!Invoke(c)
      BY <3>1, <3>3 DEF Abstract!Invoke, Result
    <3> QED BY <3>4 DEF Abstract!Next
  <2>2. CASE BeginTalk(c) \/ Skip(c)
    BY <2>2, Unseen DEF BeginTalk, Skip, driver
  <2>3. CASE NoDriver(c) \/ StaleIoctl(c)
    <3>1. performed[c] = 0
      BY <2>3 DEF Inv, NoDriverNoCall, NoDriver, StaleIoctl
    <3>2. Finish(c, "error") /\ UNCHANGED <<reply, driver>> /\ status[c] = "busy"
      BY <2>3 DEF NoDriver, StaleIoctl
    <3>3. Abstract!Next
      BY <3>1, <3>2, EndSeen
    <3> QED BY <3>3
  <2>4. CASE Last(c)
    <3>1. Abstract!Next
      BY <2>4, LastTrue, EndSeen
    <3> QED BY <3>1
  <2> QED BY <1>2, <2>1, <2>2, <2>3, <2>4 DEF CallStep
<1>3. ASSUME NEW cmd \in Commands, Accept(cmd) PROVE [Abstract!Next]_Abstract!vars
  <2>1. Consume(cmd)
    BY <1>3 DEF Accept
  <2>2. performed' = [performed EXCEPT ![cmd.call] = 1]
    <3>1. performed' = [performed EXCEPT ![cmd.call] = performed[cmd.call] + 1]
      BY <1>3 DEF Accept
    <3>2. performed[cmd.call] + 1 = 1
      BY <2>1, Consumed
    <3> QED BY <3>1, <3>2
  <2>3. Abstract!Perform(cmd.call)
    BY <2>1, <2>2, Consumed DEF Abstract!Perform, Result
  <2> QED BY <2>1, <2>3, Consumed DEF Abstract!Next
<1>4. ASSUME NEW cmd \in Commands, Refuse(cmd) PROVE [Abstract!Next]_Abstract!vars
  BY <1>4, Consumed, Unseen DEF Refuse
<1>5. ASSUME NEW cmd \in Commands, Reply(cmd) PROVE [Abstract!Next]_Abstract!vars
  <2>1. UNCHANGED <<status, performed, reply>>
    BY <1>5 DEF Reply, caller
  <2>2. PICK a \in Answers : answer' = [answer EXCEPT ![cmd.call] = a]
    BY <1>5 DEF Reply
  <2>3. PICK c \in Calls : status[c] = "busy"
    BY <1>5 DEF Reply, Inv, Quiet
  <2>4. cmd.call = c /\ c \in TwoWay /\ performed[c] = 1 /\ answer[c] = Nothing
    BY <1>5, <2>3 DEF Reply, Inv, Truths
  <2>5. Abstract!Answer(c)
    BY <2>1, <2>2, <2>4 DEF Abstract!Answer, Result
  <2> QED BY <2>5 DEF Abstract!Next
<1>6. ASSUME NEW h \in Handles, Dies(h) PROVE [Abstract!Next]_Abstract!vars
  BY <1>6, Unseen DEF Dies, caller
<1>7. CASE UNCHANGED vars
  BY <1>7, Unseen DEF vars, caller, driver
<1> QED BY <1>1, <1>2, <1>3, <1>4, <1>5, <1>6, <1>7 DEF Next, DriverStep

\* REFINEMENT: the transactions implement RemoteCall.
THEOREM Refinement == Spec => ImplementsRemoteCall
<1>1. Init => Abstract!Init
  BY DEF Init, Abstract!Init, Calls
<1>2. Inv /\ [Next]_vars => [Abstract!Next]_Abstract!vars
  BY StepSeen
<1> QED BY <1>1, <1>2, Invariant, PTL DEF Spec, ImplementsRemoteCall, Abstract!Spec
=============================================================================

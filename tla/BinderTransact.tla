--------------------------- MODULE BinderTransact ---------------------------
(***************************************************************************)
(* The binder transactions of one do_daemon: the lookup of the service and *)
(* the oneway request, each a write_transact over the same descriptor.     *)
(* waitForResponse is a loop over two parcels: talkWithDriver hands mOut   *)
(* to the driver and fills mIn from it, the loop takes one command at a    *)
(* time from mIn.  The driver works through the commands it is handed,     *)
(* queues its returns for the thread, and may be interrupted by a signal   *)
(* at any moment of a wait.                                                *)
(***************************************************************************)
EXTENDS Naturals, Sequences

CONSTANTS Services,        \* the handles the service manager may answer with
          ContextManager,  \* handle 0, which needs no lookup
          Asides,          \* returns of the driver that carry nothing
          MaxSignals       \* bounds the signals that interrupt a wait

Handles == Services \cup {ContextManager}
Calls   == {"lookup", "request"}
TwoWay  == {"lookup"}
Data    == Services \cup {"noObject"}      \* what a reply parcel may hold
Answers == Data \cup {"statusCode"}        \* or the status of a callee that failed
Nothing == "nothing"

ASSUME BinderTransactAssumption ==
    /\ ContextManager \notin Services
    /\ Services \cap {"noObject", "statusCode", Nothing} = {}
    /\ Asides \subseteq {"NOOP", "OK", "SPAWN_LOOPER"}
    /\ MaxSignals \in Nat

VARIABLES pc,         \* how far do_daemon is
          slot,       \* what the caller's descriptor number refers to
          lookups,    \* how often get_service has returned
          reply,      \* what the reply parcel of get_service holds
          mOut, mIn,  \* the commands in the two parcels of the transaction
          bwr,        \* the binder_write_read of an ioctl under way
          status,     \* of each call: not made, under way, NO_ERROR or an error
          todo,       \* the driver's returns for this thread
          pending,    \* calls a target has accepted and must answer
          alive,      \* handles whose process is alive
          performed,  \* how often a target has accepted each call
          answer,     \* what the target answered
          signals     \* interrupts so far

caller == <<pc, slot, lookups, reply, mOut, mIn, bwr, status>>
driver == <<todo, pending, alive, performed, answer>>
vars   == <<caller, driver, signals>>

Commands == [call : Calls, to : Handles]
Returns  == [cmd : Asides \cup {"TRANSACTION_COMPLETE", "DEAD_REPLY", "FAILED_REPLY", "REPLY"},
             val : Answers \cup {Nothing}]
NoIoctl  == [active |-> FALSE, out |-> << >>, consumed |-> 0]

TypeOK == /\ pc \in {"open", "init", "watch", "done"} \cup Calls
          /\ slot \in {"none", "driver", "closed", "other"}
          /\ lookups \in Nat
          /\ reply \in Data \cup {Nothing}
          /\ mOut \in Seq(Commands) /\ mIn \in Seq(Returns)
          /\ bwr \in [active : BOOLEAN, out : Seq(Commands), consumed : Nat]
          /\ status \in [Calls -> {"idle", "busy", "ok", "error"}]
          /\ todo \in Seq(Returns)
          /\ pending \subseteq Commands
          /\ alive \subseteq Handles
          /\ performed \in [Calls -> Nat]
          /\ answer \in [Calls -> Answers \cup {Nothing}]
          /\ signals \in 0 .. MaxSignals

\* get_service: the handle in the reply, or 0 when readObject finds none.
Handle == IF reply \in Services THEN reply ELSE ContextManager

Return(cmd, val) == [cmd |-> cmd, val |-> val]
Told(cmd)        == Append(todo, Return(cmd, Nothing))

----------------------------------------------------------------------------
Init == /\ pc = "open"
        /\ slot = "none"
        /\ lookups = 0
        /\ reply = Nothing
        /\ mOut = << >> /\ mIn = << >>
        /\ bwr = NoIoctl
        /\ status = [c \in Calls |-> "idle"]
        /\ todo = << >>
        /\ pending = {}
        /\ alive = Handles
        /\ performed = [c \in Calls |-> 0]
        /\ answer = [c \in Calls |-> Nothing]
        /\ signals = 0

\* open_driver: -1 unless the driver opens and speaks this protocol.
OpenDriver == /\ pc = "open"
              /\ slot' \in {"none", "driver"}
              /\ pc' = "init"
              /\ UNCHANGED <<lookups, reply, mOut, mIn, bwr, status, driver, signals>>

\* initProcessState closes the descriptor when it cannot map the driver; it sets
\* its own copy of the number to -1, and the caller goes on with the old one.
InitProcessState ==
    /\ pc = "init"
    /\ slot' \in IF slot = "driver" THEN {"driver", "closed"} ELSE {slot}
    /\ pc' = "lookup"
    /\ UNCHANGED <<lookups, reply, mOut, mIn, bwr, status, driver, signals>>

\* wait_file_lock opens the file of the peer, which may get the closed number; a
\* result that stands for a death leads to the request.
Watch == /\ pc = "watch"
         /\ slot' \in IF slot = "closed" THEN {"closed", "other"} ELSE {slot}
         /\ pc' \in {"request", "done"}
         /\ UNCHANGED <<lookups, reply, mOut, mIn, bwr, status, driver, signals>>

----------------------------------------------------------------------------
\* write_transact: two new parcels, and the transaction in mOut.
WriteTransact(c) ==
    /\ pc = c /\ status[c] = "idle"
    /\ status' = [status EXCEPT ![c] = "busy"]
    /\ mOut' = <<[call |-> c, to |-> IF c = "lookup" THEN ContextManager ELSE Handle]>>
    /\ mIn' = << >>
    /\ UNCHANGED <<pc, slot, lookups, reply, bwr, driver, signals>>

\* The end of write_transact: the parcels are deleted, with what is left in them.
Finish(c, r) ==
    /\ status' = [status EXCEPT ![c] = r]
    /\ mOut' = << >> /\ mIn' = << >>
    /\ bwr' = NoIoctl
    /\ IF c = "lookup" THEN pc' = "watch" /\ lookups' = lookups + 1
                       ELSE pc' = "done" /\ UNCHANGED lookups
    /\ UNCHANGED <<slot, signals>>

\* talkWithDriver goes to the driver when the read buffer is empty, and only then.
BeginTalk(c) ==
    /\ status[c] = "busy" /\ mIn = << >> /\ ~bwr.active
    /\ slot # "none"
    /\ bwr' = [active |-> TRUE, out |-> mOut, consumed |-> 0]
    /\ UNCHANGED <<pc, slot, lookups, reply, mOut, mIn, status, driver, signals>>

NoDriver(c) ==
    /\ status[c] = "busy" /\ slot = "none"
    /\ Finish(c, "error")
    /\ UNCHANGED <<reply, driver>>

\* ioctl on a number that is closed or was given to another file.
StaleIoctl(c) ==
    /\ status[c] = "busy" /\ bwr.active /\ slot \in {"closed", "other"}
    /\ Finish(c, "error")
    /\ UNCHANGED <<reply, driver>>

\* A plausible bug: write_consumed is reset inside the loop, not before it.
RetryFromScratch(b) == [b EXCEPT !.consumed = 0]

\* The driver waits when it has nothing for the thread; the completion of a call whose
\* answer is due it may keep back until the answer comes.
DriverWaits == todo = << >> \/ pending # {}

\* ioctl returns EINTR; the loop issues it again with the same bwr, in which the
\* driver has noted how much it has consumed.
Retry(b) == b
Interrupted ==
    /\ bwr.active /\ slot = "driver" /\ DriverWaits /\ signals < MaxSignals
    /\ bwr' = Retry(bwr)
    /\ signals' = signals + 1
    /\ UNCHANGED <<pc, slot, lookups, reply, mOut, mIn, status, driver>>

\* A plausible bug: mOut is not emptied when the driver has consumed it.
LeftAsIs(out, n) == out

\* What is left of mOut when the driver has consumed n commands: Parcel::remove
\* does nothing, so only a parcel consumed as a whole is emptied.
Left(out, n) == IF n > 0 /\ n >= Len(out) THEN << >> ELSE out

\* ioctl returns with the driver's returns, after one that carries nothing.
EndTalk ==
    /\ bwr.active /\ slot = "driver"
    /\ bwr.consumed = Len(bwr.out) /\ todo # << >>
    /\ \E a \in Asides : mIn' = <<Return(a, Nothing)>> \o todo
    /\ mOut' = Left(mOut, bwr.consumed)
    /\ todo' = << >>
    /\ bwr' = NoIoctl
    /\ UNCHANGED <<pc, slot, lookups, reply, status, pending, alive, performed, answer, signals>>

----------------------------------------------------------------------------
(* waitForResponse takes the next command of mIn *)

\* Plausible bugs: BR_TRANSACTION_COMPLETE ends a call whose reply is awaited;
\* BR_DEAD_REPLY is skipped; BR_FAILED_REPLY leaves err as it is; the flag
\* TF_STATUS_CODE is not looked at.
EndsOnComplete(c, cmd) == cmd \in {"TRANSACTION_COMPLETE", "DEAD_REPLY", "FAILED_REPLY", "REPLY"}
EndsUnlessDead(c, cmd) == \/ cmd = "TRANSACTION_COMPLETE" /\ c \notin TwoWay
                          \/ cmd = "REPLY" /\ c \in TwoWay
                          \/ cmd = "FAILED_REPLY"
IsErrorUnlessFailed(ret) == ret.cmd = "DEAD_REPLY" \/ ret.val = "statusCode"
TakesAnyReply(ret)       == ret.cmd = "REPLY"

\* The commands that end call c.
Ends(c, cmd) == \/ cmd = "TRANSACTION_COMPLETE" /\ c \notin TwoWay
                \/ cmd = "REPLY" /\ c \in TwoWay
                \/ cmd \in {"DEAD_REPLY", "FAILED_REPLY"}

\* With TF_STATUS_CODE the reply is an error and its data are not taken.
IsError(ret)    == ret.cmd \in {"DEAD_REPLY", "FAILED_REPLY"} \/ ret.val = "statusCode"
TakesReply(ret) == ret.cmd = "REPLY" /\ ret.val # "statusCode"

Last(c) ==
    /\ status[c] = "busy" /\ mIn # << >>
    /\ Ends(c, Head(mIn).cmd)
    /\ Finish(c, IF IsError(Head(mIn)) THEN "error" ELSE "ok")
    /\ reply' = IF c \in TwoWay /\ TakesReply(Head(mIn)) THEN Head(mIn).val ELSE reply
    /\ UNCHANGED driver

\* executeCommand on a return that carries nothing, BR_TRANSACTION_COMPLETE while
\* a reply is awaited, a reply nobody waits for.
Skip(c) ==
    /\ status[c] = "busy" /\ mIn # << >>
    /\ ~Ends(c, Head(mIn).cmd)
    /\ mIn' = Tail(mIn)
    /\ UNCHANGED <<pc, slot, lookups, reply, mOut, bwr, status, driver, signals>>

----------------------------------------------------------------------------
(* The driver and the other processes *)

\* The driver takes the next command of an ioctl that is under way.
Consume(cmd) ==
    /\ bwr.active /\ slot = "driver" /\ bwr.consumed < Len(bwr.out)
    /\ cmd = bwr.out[bwr.consumed + 1]
    /\ bwr' = [bwr EXCEPT !.consumed = @ + 1]
    /\ UNCHANGED <<pc, slot, lookups, reply, mOut, mIn, status, alive, answer, signals>>

Accept(cmd) ==
    /\ Consume(cmd)
    /\ cmd.to \in alive
    /\ performed' = [performed EXCEPT ![cmd.call] = @ + 1]
    /\ pending' = IF cmd.call \in TwoWay THEN pending \cup {cmd} ELSE pending
    /\ todo' = Told("TRANSACTION_COMPLETE")

Refuse(cmd) ==
    /\ Consume(cmd)
    /\ todo' = Told(IF cmd.to \in alive THEN "FAILED_REPLY" ELSE "DEAD_REPLY")
    /\ UNCHANGED <<pending, performed>>

Reply(cmd) ==
    /\ cmd \in pending
    /\ \E a \in Answers : /\ a \in Services => a \in alive
                          /\ answer' = [answer EXCEPT ![cmd.call] = a]
                          /\ todo' = Append(todo, Return("REPLY", a))
    /\ pending' = pending \ {cmd}
    /\ UNCHANGED <<caller, alive, performed, signals>>

\* The process behind a handle dies; the caller that waits for it is told.
Dies(h) ==
    /\ h \in alive
    /\ alive' = alive \ {h}
    /\ IF \E cmd \in pending : cmd.to = h
         THEN pending' = {cmd \in pending : cmd.to # h} /\ todo' = Told("DEAD_REPLY")
         ELSE UNCHANGED <<pending, todo>>
    /\ UNCHANGED <<caller, performed, answer, signals>>

----------------------------------------------------------------------------
CallStep(c) == \/ WriteTransact(c) \/ BeginTalk(c) \/ NoDriver(c) \/ StaleIoctl(c)
               \/ Last(c) \/ Skip(c)

DriverStep == \E cmd \in Commands : Accept(cmd) \/ Refuse(cmd)

Next == \/ OpenDriver \/ InitProcessState \/ Watch
        \/ \E c \in Calls : CallStep(c)
        \/ Interrupted \/ EndTalk
        \/ DriverStep
        \/ \E cmd \in Commands : Reply(cmd)
        \/ \E h \in Handles : Dies(h)

Spec == Init /\ [][Next]_vars

\* The caller's thread runs, the driver serves it, and who has accepted a call
\* answers it or dies.
Fairness == /\ \A c \in Calls : WF_vars(CallStep(c))
            /\ WF_vars(EndTalk)
            /\ WF_vars(DriverStep)
            /\ WF_vars(\E cmd \in Commands : Reply(cmd))

FairSpec == Spec /\ Fairness

----------------------------------------------------------------------------
(* Properties *)

\* However often talkWithDriver is interrupted or goes back to the driver, a
\* transaction is performed at most once (data_transact.cpp:102-126).
AtMostOnce == \A c \in Calls : performed[c] <= 1

\* What write_transact returns is true: NO_ERROR of a call that was performed and,
\* when the caller waits, whose own answer is in the reply; an error of a oneway
\* request only if it was not performed, so that it may be made again
\* (data_transact.cpp:172-232).
OutcomeTrue ==
    /\ \A c \in Calls : status[c] = "ok" => performed[c] = 1
    /\ status["lookup"] = "ok" => reply = answer["lookup"] /\ reply # Nothing
    /\ status["request"] = "error" => performed["request"] = 0

\* A call that returns leaves nothing behind: no command of its mIn is deleted
\* unread, and the next call on this descriptor finds no return of this one
\* (data_transact.cpp:241-249, 319-320).
NothingLeft ==
    [][\A c \in Calls : status[c] = "busy" /\ status'[c] # "busy"
                          => Len(mIn) <= 1 /\ todo = << >> /\ pending = {}]_vars

\* Every transaction comes to an end, whatever dies and however it is interrupted
\* (data_transact.cpp:163-239).
CallsReturn == \A c \in Calls : status[c] = "busy" ~> status[c] # "busy"

\* The transactions keep the promise of RemoteCall.
Abstract == INSTANCE RemoteCall
    WITH result <- [c \in Calls |-> IF c \in TwoWay /\ status[c] = "ok" THEN reply ELSE Nothing]
ImplementsRemoteCall == Abstract!Spec

\* keep_alive.cpp:226 says of the lookup that it is repeated five times when the
\* service is not found: do_daemon goes on without a handle only after that.
LookupRetried == pc \notin {"open", "init", "lookup"} /\ answer["lookup"] = "noObject"
                   => lookups >= 5

=============================================================================

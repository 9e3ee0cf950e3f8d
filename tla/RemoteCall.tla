----------------------------- MODULE RemoteCall ------------------------------
(***************************************************************************)
(* What a transaction promises its caller, with nothing said of buffers,   *)
(* descriptors or retries: it is performed at most once; who is told that  *)
(* it succeeded had it performed, and who waits for an answer gets the one *)
(* that was given to this very call.                                       *)
(***************************************************************************)
EXTENDS Naturals

CONSTANTS Calls,      \* the transactions
          TwoWay,     \* those whose caller waits for an answer
          Answers,    \* what an answer may carry
          Nothing     \* no answer

VARIABLES status,     \* "idle", "busy", and what the caller was told in the end
          performed,  \* how often the call was performed
          answer,     \* the answer that was given
          result      \* the answer that the caller got

vars == <<status, performed, answer, result>>

Init == /\ status = [c \in Calls |-> "idle"]
        /\ performed = [c \in Calls |-> 0]
        /\ answer = [c \in Calls |-> Nothing]
        /\ result = [c \in Calls |-> Nothing]

Invoke(c) == /\ status[c] = "idle"
             /\ status' = [status EXCEPT ![c] = "busy"]
             /\ UNCHANGED <<performed, answer, result>>

Perform(c) == /\ status[c] = "busy" /\ performed[c] = 0
              /\ performed' = [performed EXCEPT ![c] = 1]
              /\ UNCHANGED <<status, answer, result>>

Answer(c) == /\ c \in TwoWay /\ performed[c] = 1 /\ answer[c] = Nothing
             /\ \E a \in Answers : answer' = [answer EXCEPT ![c] = a]
             /\ UNCHANGED <<status, performed, result>>

Succeed(c) == /\ status[c] = "busy" /\ performed[c] = 1
              /\ c \in TwoWay => answer[c] # Nothing
              /\ status' = [status EXCEPT ![c] = "ok"]
              /\ result' = [result EXCEPT ![c] = answer[c]]
              /\ UNCHANGED <<performed, answer>>

\* A oneway call that is said to have failed was not performed.
Fail(c) == /\ status[c] = "busy"
           /\ c \notin TwoWay => performed[c] = 0
           /\ status' = [status EXCEPT ![c] = "error"]
           /\ UNCHANGED <<performed, answer, result>>

Next == \E c \in Calls : Invoke(c) \/ Perform(c) \/ Answer(c) \/ Succeed(c) \/ Fail(c)

Spec == Init /\ [][Next]_vars
=============================================================================

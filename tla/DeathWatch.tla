----------------------------- MODULE DeathWatch ------------------------------
(***************************************************************************)
(* What the ring of guard processes promises, with nothing said of how.    *)
(* Every watched process has a baton, the lock of its file.  A process     *)
(* that holds its baton gives it up only by dying.  A watcher inherits a   *)
(* baton that no process holds, and only a watcher that has inherited one  *)
(* asks the platform to restart the application.                           *)
(***************************************************************************)
EXTENDS Naturals

CONSTANTS Processes,    \* the processes that are watched
          Requests      \* the kinds of restart request

VARIABLES baton,        \* who holds the baton of each process
          asked         \* the restart requests the platform has not served yet

vars == <<baton, asked>>

TypeOK == /\ baton \in [Processes -> {"nobody", "process", "watcher"}]
          /\ asked \subseteq Requests

Init == /\ baton = [p \in Processes |-> "nobody"]
        /\ asked = {}

\* A process that finds its baton free takes it.
Take(p) == /\ baton[p] = "nobody"
           /\ baton' = [baton EXCEPT ![p] = "process"]
           /\ UNCHANGED asked

\* The processes of a set die, those that held a baton drop it.
Die(P) == /\ baton' = [p \in Processes |-> IF p \in P /\ baton[p] = "process"
                                           THEN "nobody" ELSE baton[p]]

\* A watcher inherits a baton, never from a process that still holds it.
Inherit(p) == /\ baton[p] = "nobody"
              /\ baton' = [baton EXCEPT ![p] = "watcher"]
              /\ UNCHANGED asked

\* A watcher that holds a baton asks for a restart.
Ask == /\ \E p \in Processes : baton[p] = "watcher"
       /\ \E R \in SUBSET Requests : asked' = asked \cup R
       /\ UNCHANGED baton

\* The platform serves a request; serving it may kill processes.
Serve == \E r \in asked, P \in SUBSET Processes : asked' = asked \ {r} /\ Die(P)

\* A watcher ends and drops the batons it holds.
Leave(P) == /\ baton' = [p \in Processes |-> IF p \in P /\ baton[p] = "watcher"
                                             THEN "nobody" ELSE baton[p]]
            /\ UNCHANGED asked

Next == \/ \E p \in Processes : Take(p) \/ Inherit(p)
        \/ \E P \in SUBSET Processes : Leave(P) \/ (Die(P) /\ UNCHANGED asked)
        \/ Ask
        \/ Serve

Spec == Init /\ [][Next]_vars
=============================================================================

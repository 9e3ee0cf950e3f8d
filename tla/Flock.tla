-------------------------------- MODULE Flock --------------------------------
(***************************************************************************)
(* The advisory file lock of flock(2), as keep_alive.cpp uses it.  A lock  *)
(* belongs to an open file description, so two threads of one process      *)
(* that opened the file separately exclude each other, and the descriptors *)
(* keep_alive.cpp never closes keep their lock until the process dies.     *)
(*                                                                         *)
(* A lock table maps every file to the description that holds its lock.    *)
(* A description is a pair of naturals <<process, descriptor>>.            *)
(***************************************************************************)
EXTENDS Naturals

\* No description: the lock is free.
Free == <<0, 0>>

\* The table after descriptor d was granted the lock of file f.
Grant(table, f, d) == [table EXCEPT ![f] = d]

\* The table after the lock of f was given up, by LOCK_UN or by the last close.
Unlock(table, f) == [table EXCEPT ![f] = Free]

\* The table after every description of a set was closed: a process died.
CloseAll(table, D) == [f \in DOMAIN table |->
                         IF table[f] \in D THEN Free ELSE table[f]]
=============================================================================

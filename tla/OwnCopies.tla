------------------------------ MODULE OwnCopies ------------------------------
(***************************************************************************)
(* What a SharedBuffer promises its users: each has a value of its own.    *)
(* Who is given a value has a copy of it, and no user's editing, resizing  *)
(* or dropping is ever seen by another.  A call may fail and change        *)
(* nothing.                                                                *)
(***************************************************************************)
EXTENDS Integers, Sequences

CONSTANTS Users, Contents, Sizes, None

VARIABLES val,      \* val[u]: the value of u, None for a user without one
          call      \* what u has asked for, "write" when it may write, or "none"

vars == <<val, call>>

Values == UNION {[1 .. n -> Contents] : n \in Sizes}

Init == /\ val = [u \in Users |-> None]
        /\ call = [u \in Users |-> "none"]

Make(u) ==
    /\ call[u] = "none" /\ val[u] = None
    /\ \E d \in Values : val' = [val EXCEPT ![u] = d]
    /\ UNCHANGED call
Give(u, v) ==
    /\ call[u] = "none" /\ val[u] # None
    /\ call[v] = "none" /\ val[v] = None
    /\ val' = [val EXCEPT ![v] = val[u]]
    /\ UNCHANGED call
Ask(u) ==
    /\ call[u] = "none" /\ val[u] # None
    /\ \E c \in {"edit", "resize", "reset", "release"} : call' = [call EXCEPT ![u] = c]
    /\ UNCHANGED val
Fail(u) ==
    /\ call[u] \in {"edit", "resize", "reset"}
    /\ call' = [call EXCEPT ![u] = "none"]
    /\ UNCHANGED val
Edit(u) ==
    /\ call[u] = "edit"
    /\ call' = [call EXCEPT ![u] = "write"]
    /\ UNCHANGED val
Resize(u) ==
    /\ call[u] = "resize"
    /\ \E d \in Values :
          /\ \A i \in DOMAIN d \cap DOMAIN val[u] : d[i] = val[u][i]
          /\ val' = [val EXCEPT ![u] = d]
    /\ call' = [call EXCEPT ![u] = "write"]
Reset(u) ==
    /\ call[u] = "reset"
    /\ \E d \in Values : val' = [val EXCEPT ![u] = d]
    /\ call' = [call EXCEPT ![u] = "write"]
Write(u) ==
    /\ call[u] = "write"
    /\ \E d \in Values : /\ Len(d) = Len(val[u])
                         /\ val' = [val EXCEPT ![u] = d]
    /\ call' = [call EXCEPT ![u] = "none"]
Release(u) ==
    /\ call[u] = "release"
    /\ val' = [val EXCEPT ![u] = None]
    /\ call' = [call EXCEPT ![u] = "none"]

Next == \E u \in Users : \/ Make(u) \/ Ask(u) \/ Fail(u) \/ Edit(u) \/ Resize(u) \/ Reset(u)
                         \/ Write(u) \/ Release(u)
                         \/ \E v \in Users : Give(u, v)

Spec == Init /\ [][Next]_vars
=============================================================================

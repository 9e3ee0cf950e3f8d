------------------------------ MODULE ParcelLog ------------------------------
(***************************************************************************)
(* What a parcel is to its user: a log of words and a position in it.      *)
(* Nothing is said of buffers, of their growth or of who owns them.        *)
(***************************************************************************)
EXTENDS Integers

CONSTANTS Cells,        \* what a word may be
          Lengths       \* how many words one write may have

VARIABLES size, log,    \* the words 0 .. size - 1
          pos           \* where the next word is read or written

vars == <<size, log, pos>>

Larger(m, n) == IF m > n THEN m ELSE n

Init == size = 0 /\ pos = 0 /\ log = [i \in {} |-> 0]

\* Words are written at the position, over what is there or after the end.
Put(n, w) ==
    /\ pos' = pos + n
    /\ size' = Larger(size, pos + n)
    /\ log' = [i \in 0 .. size' - 1 |-> IF i < pos \/ i >= pos + n THEN log[i] ELSE w[i - pos]]

\* Words are read only within the log.
Get == pos' \in pos .. size /\ UNCHANGED <<size, log>>

Rewind == pos' = 0 /\ UNCHANGED <<size, log>>

\* The log is replaced: emptied, or by what was received.
Replace == /\ pos' = 0 /\ size' \in Nat
           /\ log' \in [0 .. size' - 1 -> Cells]

Next == \/ \E n \in Lengths : \E w \in [0 .. n - 1 -> Cells] : Put(n, w)
        \/ Get \/ Rewind \/ Replace

Spec == Init /\ [][Next]_vars
=============================================================================

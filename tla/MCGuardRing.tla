----------------------------- MODULE MCGuardRing -----------------------------
(***************************************************************************)
(* Values of GuardRing's constants that a cfg cannot write.                *)
(***************************************************************************)
EXTENDS GuardRing, TLC

\* The slots of guards are interchangeable; the reduction is used by the runs
\* that check no liveness.
Slots == Permutations(Guards)

AllKinds      == Kinds
OnlyBroadcast == {"broadcast"}
OnlyInstrumentation == {"instrumentation"}
=============================================================================

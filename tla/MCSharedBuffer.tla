--------------------------- MODULE MCSharedBuffer ----------------------------
(***************************************************************************)
(* The symmetry of SharedBuffer's runs, which check no liveness: users,    *)
(* blocks and contents are interchangeable.                                *)
(***************************************************************************)
EXTENDS SharedBuffer, TLC

Alike == Permutations(Users) \cup Permutations(Blocks) \cup Permutations(Contents)
=============================================================================

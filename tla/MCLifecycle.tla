----------------------------- MODULE MCLifecycle -----------------------------
(***************************************************************************)
(* Instances of MemoryLifecycle for TLC.                                   *)
(***************************************************************************)
EXTENDS MemoryLifecycleInv, TLC

CONSTANTS m1, m2, m3, m4

\* The evidence of one fact is grounded, that of the others is not.
OneGrounded == {m1}
NoneGrounded == {}

Symmetry == Permutations(Memories) \union Permutations(Calls) \union Permutations(Tags)
==============================================================================

------------------------------- MODULE MCMirror -------------------------------
(***************************************************************************)
(* Instances of FactMirror for TLC.                                        *)
(***************************************************************************)
EXTENDS FactMirror, TLC

CONSTANTS m1, m2

\* Every fact has a grounded quote, or none has.
AllGrounded == Memories
NoneGrounded == {}

Symmetry == Permutations(Memories) \union Permutations(Tags)
==============================================================================

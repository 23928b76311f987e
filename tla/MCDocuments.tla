----------------------------- MODULE MCDocuments -----------------------------
(***************************************************************************)
(* Instances of DocumentStore for TLC.                                     *)
(***************************************************************************)
EXTENDS DocumentStore, TLC

CONSTANTS x1, u

\* A text captured from a web page.
OneUrl == x1 :> u

\* Behaviours are followed until a maintenance request meets another request of
\* its namespace.
UntilRaced == raced = {}

Symmetry == Permutations(Docs) \union Permutations(Tags) \union Permutations(Calls)
==============================================================================

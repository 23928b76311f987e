---------------------------- MODULE MemoryServing ----------------------------
(***************************************************************************)
(* What the memory store promises a reader while documents are ingested:   *)
(* a memory is learned once, may be retired once, and is never removed,    *)
(* rewritten or brought back; a memory that replaces another is learned    *)
(* only after the one it replaces has left the served set.                 *)
(*                                                                         *)
(* The promise of the header of engine/memory.rs ("kept for history but    *)
(* flagged is_latest=false; search returns only the new one").             *)
(***************************************************************************)
CONSTANTS Memories, None

VARIABLES
    status,     \* how a reader sees each memory
    replaces    \* the memory each learned memory replaces

vars == <<status, replaces>>

Init == /\ status = [m \in Memories |-> "unknown"]
        /\ replaces = [m \in Memories |-> None]

In(s) == {m \in Memories : status[m] = s}

\* New memories appear, served or quarantined.
Learn(S) ==
    /\ S \subseteq In("unknown")
    /\ \E seen \in [S -> {"served", "quarantined"}],
         old \in [S -> In("retired") \union {None}] :
          /\ status' = [m \in Memories |-> IF m \in S THEN seen[m] ELSE status[m]]
          /\ replaces' = [m \in Memories |-> IF m \in S THEN old[m] ELSE replaces[m]]

\* Served memories are retired; a quarantined one was never served.
Retire(S) ==
    /\ S \subseteq In("served")
    /\ status' = [m \in Memories |-> IF m \in S THEN "retired" ELSE status[m]]
    /\ UNCHANGED replaces

Next == \E S \in SUBSET Memories : Learn(S) \/ Retire(S)

Spec == Init /\ [][Next]_vars
==============================================================================

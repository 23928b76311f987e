--------------------------- MODULE ReconcilePolicy ---------------------------
(***************************************************************************)
(* The reconcile policy of engine/memory.rs: how a classifier verdict on   *)
(* one new fact becomes an action on the memory graph.  Pure, no state.    *)
(*                                                                         *)
(* Facts and stored memories are named by their point ids; text, vectors   *)
(* and scores are abstracted.  The classifier is a language model, so its  *)
(* verdict is any verdict.  A reference is the neighbour it points at;     *)
(* None stands for index 0 and for every index past the list.              *)
(***************************************************************************)
CONSTANTS
    Memories,   \* point ids (uuid v4): the facts that can ever be stored
    None        \* "no memory"

ASSUME NoneAssumption == None \notin Memories

Relation == {"New", "Duplicate", "Update", "Extend"}

Action == [relation   : Relation \union {"NeedsReview"},
           supersedes : Memories \union {None},
           extends    : Memories \union {None}]

\* What the classifier may answer for a fact with these neighbours.
Verdict(neighbors) == [relation   : Relation,
                       reference  : neighbors \union {None},
                       confidence : {"High", "Low"}]

Store(relation) == [relation |-> relation, supersedes |-> None, extends |-> None]

PlainNew == Store("New")

(***************************************************************************)
(* The policy.  Only a confident UPDATE that names a neighbour supersedes; *)
(* any other UPDATE is quarantined.  Only a confident DUPLICATE is dropped.*)
(***************************************************************************)
ActionFor(v) ==
    CASE v.relation = "Update" /\ v.confidence = "High" /\ v.reference # None ->
            [relation |-> "Update", supersedes |-> v.reference, extends |-> None]
      [] v.relation = "Update" /\ ~(v.confidence = "High" /\ v.reference # None) ->
            Store("NeedsReview")
      [] v.relation = "Duplicate" /\ v.confidence = "High" ->
            Store("Duplicate")
      [] v.relation = "Extend" /\ v.reference # None ->
            [relation |-> "Extend", supersedes |-> None, extends |-> v.reference]
      [] OTHER -> PlainNew

\* What one fact can become.  A fact with no neighbour over the threshold is
\* NEW and never reaches the classifier.
Outcomes(neighbors) ==
    IF neighbors = {} THEN {PlainNew}
                      ELSE {ActionFor(v) : v \in Verdict(neighbors)}

\* The plans one batched classification can produce, where near maps each fact
\* of the batch to its neighbours.
ClassifiedPlans(near) ==
    {p \in [DOMAIN near -> UNION {Outcomes(near[m]) : m \in DOMAIN near}] :
        \A m \in DOMAIN near : p[m] \in Outcomes(near[m])}

\* No usable model, a failed call, or a reply without an array: every fact NEW.
DegradedPlan(near) == [m \in DOMAIN near |-> PlainNew]
==============================================================================

------------------------ MODULE MemoryLifecycleProofs ------------------------
(***************************************************************************)
(* Proofs about MemoryLifecycle, for any number of calls, facts, neighbours*)
(* and flip attempts, with and without a relational store or a memory      *)
(* graph.                                                                  *)
(***************************************************************************)
EXTENDS MemoryLifecycle, TLAPS

-----------------------------------------------------------------------------
(* The policy.                                                             *)

\* Whatever the classifier answers, the action is well formed and links a fact
\* only to one of the neighbours it was shown (memory.rs:105).
LEMMA PolicyLinksToNeighbours ==
    ASSUME NEW N \in SUBSET Memories, NEW a \in Outcomes(N)
    PROVE  /\ a \in Action
           /\ {a.supersedes, a.extends} \subseteq N \union {None}
<1>1. CASE N = {}
  BY <1>1 DEF Outcomes, PlainNew, Store, Action, Relation
<1>2. CASE N # {}
  <2>1. PICK v \in Verdict(N) : a = ActionFor(v)
    BY <1>2 DEF Outcomes
  <2>2. v.reference \in N \union {None} /\ v.relation \in Relation
    BY DEF Verdict
  <2>. QED
    BY <2>1, <2>2 DEF ActionFor, PlainNew, Store, Action, Relation
<1>. QED BY <1>1, <1>2

\* A plan that reconciliation can produce covers exactly the batch, and links
\* each fact only to its own neighbours.
LEMMA PlansLinkToNeighbours ==
    ASSUME NEW nb, DOMAIN nb \subseteq Memories, nb \in [DOMAIN nb -> SUBSET Memories],
           NEW p \in ClassifiedPlans(nb) \union {DegradedPlan(nb)}
    PROVE  /\ DOMAIN p = DOMAIN nb
           /\ p \in [DOMAIN nb -> Action]
           /\ \A m \in DOMAIN nb :
                 {p[m].supersedes, p[m].extends} \subseteq nb[m] \union {None}
<1>1. CASE p \in ClassifiedPlans(nb)
  <2>1. /\ DOMAIN p = DOMAIN nb
        /\ p = [m \in DOMAIN nb |-> p[m]]
        /\ \A m \in DOMAIN nb : p[m] \in Outcomes(nb[m])
    BY <1>1 DEF ClassifiedPlans
  <2>2. \A m \in DOMAIN nb : nb[m] \in SUBSET Memories
    OBVIOUS
  <2>3. \A m \in DOMAIN nb : /\ p[m] \in Action
                             /\ {p[m].supersedes, p[m].extends} \subseteq nb[m] \union {None}
    BY <2>1, <2>2, PolicyLinksToNeighbours
  <2>. QED BY <2>1, <2>3
<1>2. CASE p = DegradedPlan(nb)
  BY <1>2 DEF DegradedPlan, PlainNew, Store, Action, Relation
<1>. QED BY <1>1, <1>2

-----------------------------------------------------------------------------
(* Type correctness.                                                       *)

LEMMA PointIsTyped ==
    ASSUME TypeOK, NEW c \in Calls, pc[c] # "idle", NEW m \in Kept(c)
    PROVE  PointOf(c, m) \in Point /\ RowOf(c, m) \in Row
  BY DEF TypeOK, Kept, PointOf, RowOf, Point, Row, Action

LEMMA UpsertIsTyped ==
    ASSUME TypeOK, NEW c \in Calls, pc[c] # "idle", NEW S \in SUBSET Kept(c)
    PROVE  /\ DOMAIN Upserted(c, S) = DOMAIN points \union S
           /\ Upserted(c, S) \in [DOMAIN points \union S -> Point]
           /\ DOMAIN points \union S \subseteq Memories
<1>1. \A m \in S : PointOf(c, m) \in Point
  BY PointIsTyped
<1>2. Kept(c) \subseteq Memories
  BY DEF TypeOK, Kept
<1>. QED BY <1>1, <1>2 DEF Upserted, TypeOK

LEMMA DemoteIsTyped ==
    ASSUME TypeOK, NEW S
    PROVE  /\ DOMAIN Demoted(S) = DOMAIN points
           /\ Demoted(S) \in [DOMAIN points -> Point]
<1>1. \A m \in DOMAIN points : points[m] \in Point
  BY DEF TypeOK
<1>2. \A m \in DOMAIN points : [points[m] EXCEPT !.is_latest = FALSE] \in Point
  BY <1>1 DEF Point
<1>. QED BY <1>1, <1>2 DEF Demoted

\* The type invariant, split by the part of the state it speaks of.
StoresOK == /\ DOMAIN points \subseteq Memories /\ points \in [DOMAIN points -> Point]
            /\ DOMAIN rows \subseteq Memories /\ rows \in [DOMAIN rows -> Row]
            /\ evidence \subseteq Memories

LocalsOK == /\ pc \in [Calls -> Phases]
            /\ tag \in [Calls -> Tags \union {None}]
            /\ \A c \in Calls : pc[c] # "idle" => tag[c] \in Tags
            /\ DOMAIN near = Calls /\ DOMAIN plan = Calls
            /\ \A c \in Calls : /\ DOMAIN near[c] \subseteq Memories
                                 /\ near[c] \in [DOMAIN near[c] -> SUBSET Memories]
            /\ \A c \in Calls : /\ DOMAIN plan[c] \subseteq Memories
                                 /\ plan[c] \in [DOMAIN plan[c] -> Action]
            /\ todo \in [Calls -> SUBSET Memories]
            /\ \A c \in Calls : pc[c] \in MirrorPhases => todo[c] \subseteq DOMAIN plan[c]
            /\ tries \in [Calls -> Nat]

LEMMA TypeOKSplits ==
    TypeOK <=> StoresOK /\ LocalsOK /\ minted \subseteq Memories /\ failed \in BOOLEAN
  BY DEF TypeOK, StoresOK, LocalsOK

LEMMA EndsIsTyped ==
    ASSUME LocalsOK, NEW c \in Calls, Ends(c)
    PROVE  LocalsOK'
  BY DEF LocalsOK, Ends, Nothing, Phases, MirrorPhases

LEMMA GoesIsTyped ==
    ASSUME LocalsOK, NEW c \in Calls, pc[c] # "idle",
           NEW phase \in Phases, NEW S \in SUBSET DOMAIN plan[c], Goes(c, phase, S)
    PROVE  LocalsOK'
  BY DEF LocalsOK, Goes

LEMMA BatchIsTyped ==
    ASSUME LocalsOK, NEW c \in Calls
    PROVE  /\ Kept(c) \subseteq Memories
           /\ Kept(c) \subseteq DOMAIN plan[c]
           /\ Superseding(c) \subseteq Kept(c)
           /\ Plain(c) \subseteq Kept(c)
  BY DEF LocalsOK, Kept, Superseding, Plain

LEMMA MirrorsIsTyped ==
    ASSUME LocalsOK, NEW c \in Calls, pc[c] # "idle", Mirrors(c)
    PROVE  LocalsOK'
<1>1. "pg_insert" \in Phases
  BY DEF Phases, MirrorPhases
<1>. QED BY <1>1, EndsIsTyped, GoesIsTyped, BatchIsTyped DEF Mirrors

LEMMA InsertIsTyped ==
    ASSUME StoresOK, NEW m \in Memories, NEW row \in Row
    PROVE  /\ DOMAIN RowInserted(m, row) = DOMAIN rows \union {m}
           /\ RowInserted(m, row) \in [DOMAIN rows \union {m} -> Row]
  BY DEF StoresOK, RowInserted

LEMMA MarkIsTyped ==
    ASSUME StoresOK, NEW m \in Memories, NEW old
    PROVE  /\ DOMAIN RowMarked(old, m) = DOMAIN rows
           /\ RowMarked(old, m) \in [DOMAIN rows -> Row]
  BY DEF StoresOK, RowMarked, Row

\* A Qdrant write that only upserts or demotes keeps the stores typed.
LEMMA QdrantWriteIsTyped ==
    ASSUME TypeOK, NEW c \in Calls, pc[c] # "idle", UNCHANGED <<rows, evidence>>,
           \/ \E S \in SUBSET Kept(c) : points' = Upserted(c, S)
           \/ \E S : points' = Demoted(S)
    PROVE  StoresOK'
<1>1. CASE \E S \in SUBSET Kept(c) : points' = Upserted(c, S)
  <2>1. PICK S \in SUBSET Kept(c) : points' = Upserted(c, S)
    BY <1>1
  <2>2. /\ Upserted(c, S) \in [DOMAIN points \union S -> Point]
        /\ DOMAIN Upserted(c, S) = DOMAIN points \union S
        /\ DOMAIN points \union S \subseteq Memories
    BY UpsertIsTyped
  <2>3. DOMAIN points' \subseteq Memories /\ points' \in [DOMAIN points' -> Point]
    BY <2>1, <2>2
  <2>. QED BY <2>3 DEF StoresOK, TypeOK
<1>2. CASE \E S : points' = Demoted(S)
  <2>1. PICK S : points' = Demoted(S)
    BY <1>2
  <2>. QED BY <2>1, DemoteIsTyped DEF StoresOK, TypeOK
<1>. QED BY <1>1, <1>2

LEMMA InitIsTyped == Init => TypeOK
<1>. SUFFICES ASSUME Init PROVE TypeOK
  OBVIOUS
<1>1. StoresOK
  BY DEF Init, StoresOK, Nothing
<1>2. LocalsOK
  BY DEF Init, LocalsOK, Nothing, Phases, MirrorPhases
<1>. QED BY <1>1, <1>2, TypeOKSplits DEF Init

LEMMA StepIsTyped ==
    ASSUME TypeOK, NEW c \in Calls, Step(c) \/ StoreFailure(c) \/ Abort(c)
    PROVE  TypeOK'
<1>a. StoresOK /\ LocalsOK /\ minted \subseteq Memories /\ failed \in BOOLEAN
  BY TypeOKSplits
<1>b. /\ UNCHANGED minted
      /\ failed' \in BOOLEAN
  BY <1>a
     DEF Step, StoreFailure, Abort, SearchNeighbors, Reconcile, WritePlain, Flip,
         WriteSuperseding, PgInsertMemory, PgMarkSuperseded, PgInsertEvidence,
         PgEvidenceRejected, PgLoopDone, WritePlainFails, FlipFails,
         WriteSupersedingFails, PgLoopFails
<1>c. UNCHANGED stores => StoresOK'
  BY <1>a DEF StoresOK, stores
<1>e. StoresOK' /\ LocalsOK' => TypeOK'
  BY <1>a, <1>b DEF TypeOK, StoresOK, LocalsOK
<1>d. {"plain", "flip", "supersede", "pg_insert", "pg_mark", "pg_evidence"} \subseteq Phases
  BY DEF Phases, MirrorPhases
<1>1. ASSUME NEW m \in Memories, SearchNeighbors(c, m)
      PROVE  TypeOK'
  <2>1. StoresOK'
    BY <1>1, <1>a, <1>c DEF SearchNeighbors
  <2>2. Active(tag[c]) \subseteq Memories
    BY DEF Active, Tagged, TypeOK
  <2>3. LocalsOK'
    BY <1>1, <1>a, <2>2 DEF LocalsOK, MirrorPhases, SearchNeighbors
  <2>. QED BY <1>e, <2>1, <2>3
<1>2. CASE Reconcile(c)
  <2>1. StoresOK'
    BY <1>2, <1>a, <1>c DEF Reconcile
  <2>2. PICK p \in ClassifiedPlans(near[c]) \union {DegradedPlan(near[c])} :
           plan' = [plan EXCEPT ![c] = p]
    BY <1>2 DEF Reconcile
  <2>3. DOMAIN p \subseteq Memories /\ p \in [DOMAIN p -> Action]
    <3>1. DOMAIN near[c] \subseteq Memories /\ near[c] \in [DOMAIN near[c] -> SUBSET Memories]
      BY DEF TypeOK
    <3>2. DOMAIN p = DOMAIN near[c] /\ p \in [DOMAIN near[c] -> Action]
      BY <3>1, PlansLinkToNeighbours
    <3>. QED BY <3>1, <3>2
  <2>4. LocalsOK'
    BY <1>2, <1>a, <2>2, <2>3, <1>d DEF LocalsOK, MirrorPhases, Reconcile, Nothing
  <2>. QED BY <1>e, <2>1, <2>4
<1>3. CASE WritePlain(c)
  <2>1. StoresOK'
    BY <1>3, <1>a, QdrantWriteIsTyped, BatchIsTyped DEF WritePlain
  <2>2. LocalsOK'
    BY <1>3, <1>a, <1>d, MirrorsIsTyped, GoesIsTyped DEF WritePlain
  <2>. QED BY <1>e, <2>1, <2>2
<1>4. CASE Flip(c)
  <2>1. StoresOK'
    BY <1>4, <1>a, QdrantWriteIsTyped DEF Flip
  <2>2. LocalsOK'
    BY <1>4, <1>a, <1>d, GoesIsTyped DEF Flip
  <2>. QED BY <1>e, <2>1, <2>2
<1>5. CASE WriteSuperseding(c)
  <2>1. StoresOK'
    BY <1>5, <1>a, QdrantWriteIsTyped, BatchIsTyped DEF WriteSuperseding
  <2>2. LocalsOK'
    BY <1>5, <1>a, MirrorsIsTyped DEF WriteSuperseding
  <2>. QED BY <1>e, <2>1, <2>2
<1>6. ASSUME NEW m \in Memories, PgInsertMemory(c, m)
      PROVE  TypeOK'
  <2>1. LocalsOK'
    BY <1>6, <1>a DEF LocalsOK, PgInsertMemory
  <2>2. RowOf(c, m) \in Row
    BY <1>6 DEF TypeOK, MirrorPhases, PgInsertMemory, RowOf, Row, Action
  <2>3. StoresOK'
    <3>1. /\ DOMAIN rows' = DOMAIN rows \union {m}
          /\ rows' \in [DOMAIN rows \union {m} -> Row]
      BY <1>6, <1>a, <2>2, InsertIsTyped DEF PgInsertMemory
    <3>. QED BY <1>6, <1>a, <3>1 DEF StoresOK, PgInsertMemory
  <2>. QED BY <1>e, <2>1, <2>3
<1>7. ASSUME NEW m \in Memories, PgMarkSuperseded(c, m)
      PROVE  TypeOK'
  <2>1. LocalsOK'
    BY <1>7, <1>a DEF LocalsOK, PgMarkSuperseded
  <2>2. StoresOK'
    BY <1>7, <1>a, MarkIsTyped DEF StoresOK, PgMarkSuperseded
  <2>. QED BY <1>e, <2>1, <2>2
<1>8. ASSUME NEW m \in Memories, PgInsertEvidence(c, m)
      PROVE  TypeOK'
  BY <1>8, <1>a, <1>e DEF LocalsOK, StoresOK, PgInsertEvidence
<1>9. ASSUME NEW m \in Memories, PgEvidenceRejected(c, m)
      PROVE  TypeOK'
  BY <1>9, <1>a, <1>e, <1>c, EndsIsTyped DEF PgEvidenceRejected
<1>10. ASSUME AdvanceMirror(c)
       PROVE  LocalsOK'
  BY <1>10, <1>a, <1>d, EndsIsTyped, GoesIsTyped, BatchIsTyped DEF AdvanceMirror
<1>11. CASE PgLoopDone(c)
  BY <1>11, <1>10, <1>e, <1>c DEF PgLoopDone
<1>12. CASE PgLoopFails(c)
  BY <1>12, <1>10, <1>e, <1>c DEF PgLoopFails
<1>13. CASE WritePlainFails(c)
  <2>1. StoresOK'
    BY <1>13, <1>a, QdrantWriteIsTyped, BatchIsTyped DEF WritePlainFails
  <2>. QED BY <1>13, <1>a, <1>e, <2>1, EndsIsTyped DEF WritePlainFails
<1>14. CASE FlipFails(c)
  <2>1. StoresOK'
    BY <1>14, <1>a, QdrantWriteIsTyped DEF FlipFails
  <2>2. LocalsOK'
    <3>1. CASE tries[c] + 1 < FlipTries
      BY <1>14, <3>1, <1>a DEF FlipFails, LocalsOK, MirrorPhases
    <3>2. CASE ~(tries[c] + 1 < FlipTries)
      BY <1>14, <3>2, <1>a, EndsIsTyped DEF FlipFails
    <3>. QED BY <3>1, <3>2
  <2>. QED BY <1>e, <2>1, <2>2
<1>15. CASE WriteSupersedingFails(c)
  <2>1. StoresOK'
    BY <1>15, <1>a, QdrantWriteIsTyped, BatchIsTyped DEF WriteSupersedingFails
  <2>. QED BY <1>15, <1>a, <1>e, <2>1, EndsIsTyped DEF WriteSupersedingFails
<1>16. CASE Abort(c)
  BY <1>16, <1>a, <1>e, <1>c, EndsIsTyped DEF Abort
<1>. QED
  BY <1>1, <1>2, <1>3, <1>4, <1>5, <1>6, <1>7, <1>8, <1>9, <1>11, <1>12, <1>13, <1>14,
     <1>15, <1>16 DEF Step, StoreFailure

LEMMA IndexIsTyped ==
    ASSUME TypeOK, NEW c \in Calls, NEW t \in Tags, NEW B \in SUBSET Memories,
           IndexMemories(c, t, B)
    PROVE  TypeOK'
<1>1. PlainNew \in Action
  BY DEF PlainNew, Store, Action, Relation
<1>2. StoresOK'
  BY TypeOKSplits DEF IndexMemories, StoresOK, stores
<1>3. LocalsOK'
  BY TypeOKSplits, <1>1 DEF IndexMemories, LocalsOK, Nothing, Phases, MirrorPhases
<1>4. (minted \subseteq Memories)' /\ (failed \in BOOLEAN)'
  BY TypeOKSplits DEF IndexMemories
<1>. QED BY <1>2, <1>3, <1>4 DEF TypeOK, StoresOK, LocalsOK

LEMMA NextIsTyped == TypeOK /\ [Next]_vars => TypeOK'
<1>1. CASE UNCHANGED vars
  BY <1>1 DEF TypeOK, vars, stores, locals
<1>2. CASE Next
  BY <1>2, IndexIsTyped, StepIsTyped DEF Next
<1>. QED BY <1>1, <1>2

\* Every variable keeps its type in every behaviour of index_memories calls.
THEOREM TypeCorrect == Spec => []TypeOK
  BY InitIsTyped, NextIsTyped, PTL DEF Spec
==============================================================================

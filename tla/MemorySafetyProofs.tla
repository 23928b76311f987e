-------------------------- MODULE MemorySafetyProofs --------------------------
(***************************************************************************)
(* The safety properties of MemoryLifecycle are invariants, for any number *)
(* of calls, facts, neighbours and flip attempts, and what readers of the  *)
(* index are promised holds: MemoryLifecycle implements MemoryServing.     *)
(*                                                                         *)
(* The argument: a step changes the index in one of two ways only.  Either *)
(* it publishes facts the acting call owns and has not written, whose      *)
(* targets are demoted already, or it demotes memories.  Either way the    *)
(* index only grows (nothing is removed, relinked or served again), which  *)
(* is all that the other calls rely on.                                    *)
(***************************************************************************)
EXTENDS MemoryLifecycleProofs, MemoryLifecycleInv

\* Nothing is removed, rewritten or brought back.
Grows ==
    /\ DOMAIN points \subseteq DOMAIN points'
    /\ \A m \in DOMAIN points :
          /\ points'[m].tag = points[m].tag
          /\ points'[m].needs_review = points[m].needs_review
          /\ points'[m].supersedes = points[m].supersedes
          /\ points'[m].extends = points[m].extends
          /\ ~points[m].is_latest => ~points'[m].is_latest

\* The two ways a call changes the index.
Publishes(c, S) ==
    /\ pc[c] # "idle"
    /\ S \subseteq Kept(c)
    /\ S \intersect DOMAIN points = {}
    /\ AllDemoted({plan[c][m].supersedes : m \in S} \ {None})
    /\ points' = Upserted(c, S)

Retires(c, S) ==
    /\ pc[c] = "flip"
    /\ S \subseteq Superseded(c)
    /\ points' = Demoted(S)

-----------------------------------------------------------------------------
(* What the two do to the index.                                           *)

LEMMA PointIsAPoint ==
    ASSUME TypeOK, NEW m \in DOMAIN points
    PROVE  /\ points[m] \in Point
           /\ m \in Memories
  BY DEF TypeOK

\* The index after publishing S, and what S links to.
Published(c, S) ==
    /\ DOMAIN points' = DOMAIN points \union S
    /\ \A m \in DOMAIN points : points'[m] = points[m]
    /\ \A m \in S : /\ m \in Kept(c)
                    /\ points'[m] = PointOf(c, m)
                    /\ points'[m].tag = tag[c]
                    /\ points'[m].is_latest
                    /\ points'[m].supersedes = plan[c][m].supersedes
                    /\ points'[m].extends = plan[c][m].extends
    /\ \A m \in S : plan[c][m].supersedes # None =>
          /\ plan[c][m].supersedes \in DOMAIN points
          /\ ~points[plan[c][m].supersedes].is_latest

LEMMA PublishedPoints ==
    ASSUME TypeOK, NEW c \in Calls, NEW S, Publishes(c, S)
    PROVE  Published(c, S)
<1>1. points' = Upserted(c, S) /\ S \intersect DOMAIN points = {}
  BY DEF Publishes
<1>2. DOMAIN points' = DOMAIN points \union S
  BY <1>1 DEF Upserted
<1>3. \A m \in DOMAIN points : points'[m] = points[m]
  BY <1>1 DEF Upserted
<1>4. ASSUME NEW m \in S
      PROVE  /\ points'[m] = PointOf(c, m)
             /\ points'[m].tag = tag[c]
             /\ points'[m].is_latest
             /\ points'[m].supersedes = plan[c][m].supersedes
             /\ points'[m].extends = plan[c][m].extends
  <2>1. points'[m] = PointOf(c, m)
    BY <1>1 DEF Upserted
  <2>. QED BY <2>1 DEF PointOf
<1>. QED BY <1>2, <1>3, <1>4 DEF Published, Publishes, AllDemoted

LEMMA RetiredPoints ==
    ASSUME TypeOK, NEW c, NEW S, Retires(c, S)
    PROVE  /\ DOMAIN points' = DOMAIN points
           /\ \A m \in DOMAIN points :
                 /\ m \notin S => points'[m] = points[m]
                 /\ m \in S => points'[m] = [points[m] EXCEPT !.is_latest = FALSE]
  BY DEF Retires, Demoted

LEMMA RetiringKeepsPayload ==
    ASSUME TypeOK, NEW c, NEW S, Retires(c, S), NEW m \in DOMAIN points
    PROVE  /\ points'[m].tag = points[m].tag
           /\ points'[m].needs_review = points[m].needs_review
           /\ points'[m].supersedes = points[m].supersedes
           /\ points'[m].extends = points[m].extends
           /\ points'[m].is_latest = (points[m].is_latest /\ m \notin S)
<1>1. points[m] \in Point
  BY PointIsAPoint
<1>2. CASE m \in S
  BY <1>1, <1>2, RetiredPoints DEF Point
<1>3. CASE m \notin S
  BY <1>1, <1>3, RetiredPoints DEF Point
<1>. QED BY <1>2, <1>3

LEMMA PublishingGrows ==
    ASSUME TypeOK, NEW c \in Calls, NEW S, Publishes(c, S)
    PROVE  Grows
  BY PublishedPoints DEF Grows, Published

LEMMA RetiringGrows ==
    ASSUME TypeOK, NEW c, NEW S, Retires(c, S)
    PROVE  Grows
  BY RetiredPoints, RetiringKeepsPayload DEF Grows

LEMMA StandingStillGrows ==
    ASSUME UNCHANGED points
    PROVE  Grows
  BY DEF Grows

-----------------------------------------------------------------------------
(* Every step of a call publishes, retires, or leaves the index alone.     *)

LEMMA BatchParts ==
    ASSUME NEW c
    PROVE  /\ Kept(c) \subseteq DOMAIN plan[c]
           /\ DOMAIN plan[c] \subseteq Batch(c)
           /\ DOMAIN near[c] \subseteq Batch(c)
           /\ todo[c] \subseteq Batch(c)
           /\ Plain(c) \subseteq Kept(c)
           /\ Superseding(c) \subseteq Kept(c)
           /\ \A m \in Plain(c) : plan[c][m].supersedes = None
           /\ \A m \in Superseding(c) : /\ plan[c][m].supersedes # None
                                        /\ plan[c][m].supersedes \in Superseded(c)
           /\ Kept(c) = Plain(c) \union Superseding(c)
  BY DEF Kept, Batch, Plain, Superseding, Superseded

LEMMA PlainPublishes ==
    ASSUME LifecycleInv, NEW c \in Calls, pc[c] = "plain",
           NEW S \in SUBSET Plain(c), points' = Upserted(c, S)
    PROVE  Publishes(c, S)
<1>1. Batch(c) \intersect DOMAIN points = {}
  BY DEF LifecycleInv, OnCourse, Unwritten
<1>2. \A m \in S : plan[c][m].supersedes = None
  BY BatchParts
<1>. QED BY <1>1, <1>2, BatchParts DEF Publishes, AllDemoted

LEMMA SupersedingPublishes ==
    ASSUME LifecycleInv, NEW c \in Calls, pc[c] = "supersede",
           NEW S \in SUBSET Superseding(c), points' = Upserted(c, S)
    PROVE  Publishes(c, S)
<1>1. /\ Superseding(c) \intersect DOMAIN points = {}
      /\ AllDemoted(Superseded(c))
  BY DEF LifecycleInv, OnCourse, Unwritten, Written
<1>. QED BY <1>1, BatchParts DEF Publishes, AllDemoted

LEMMA IndexEffect ==
    ASSUME LifecycleInv, NEW c \in Calls, Step(c) \/ StoreFailure(c) \/ Abort(c)
    PROVE  UNCHANGED points \/ \E S : Publishes(c, S) \/ Retires(c, S)
<1>1. CASE WritePlain(c)
  BY <1>1, PlainPublishes DEF WritePlain
<1>2. CASE WritePlainFails(c)
  BY <1>2, PlainPublishes DEF WritePlainFails
<1>3. CASE WriteSuperseding(c)
  BY <1>3, SupersedingPublishes DEF WriteSuperseding
<1>4. CASE WriteSupersedingFails(c)
  BY <1>4, SupersedingPublishes DEF WriteSupersedingFails
<1>5. CASE Flip(c)
  BY <1>5 DEF Flip, Retires
<1>6. CASE FlipFails(c)
  BY <1>6 DEF FlipFails, Retires
<1>7. ASSUME ~WritePlain(c), ~WritePlainFails(c), ~WriteSuperseding(c),
             ~WriteSupersedingFails(c), ~Flip(c), ~FlipFails(c)
      PROVE  UNCHANGED points
  BY <1>7 DEF Step, StoreFailure, Abort, stores, SearchNeighbors, Reconcile, PgInsertMemory,
              PgMarkSuperseded, PgInsertEvidence, PgEvidenceRejected, PgLoopDone, PgLoopFails
<1>. QED BY <1>1, <1>2, <1>3, <1>4, <1>5, <1>6, <1>7

LEMMA IndexGrows ==
    ASSUME LifecycleInv, NEW c \in Calls, Step(c) \/ StoreFailure(c) \/ Abort(c)
    PROVE  Grows
  BY IndexEffect, PublishingGrows, RetiringGrows, StandingStillGrows DEF LifecycleInv

-----------------------------------------------------------------------------
(* The index properties survive both.                                      *)

LEMMA PublishingIsOrdered ==
    ASSUME LifecycleInv, NEW c \in Calls, NEW S, Publishes(c, S)
    PROVE  ReplacementWaitsForDemotion'
<1>1. ReplacementWaitsForDemotion /\ Published(c, S)
  BY PublishedPoints DEF LifecycleInv
<1>2. ASSUME NEW m \in DOMAIN points', points'[m].supersedes # None
      PROVE  /\ points'[m].supersedes \in DOMAIN points
             /\ ~points[points'[m].supersedes].is_latest
  <2>1. CASE m \in S
    BY <1>1, <1>2, <2>1 DEF Published
  <2>2. CASE m \in DOMAIN points
    BY <1>1, <1>2, <2>2 DEF Published, ReplacementWaitsForDemotion
  <2>. QED BY <1>1, <2>1, <2>2 DEF Published
<1>. QED BY <1>1, <1>2 DEF Published, ReplacementWaitsForDemotion

LEMMA PublishingStaysInNamespace ==
    ASSUME LifecycleInv, NEW c \in Calls, NEW S, Publishes(c, S)
    PROVE  LinksStayInNamespace'
<1>1. LinksStayInNamespace /\ Published(c, S)
  BY PublishedPoints DEF LifecycleInv
<1>2. ASSUME NEW m \in DOMAIN points',
             NEW old \in {points'[m].supersedes, points'[m].extends} \ {None}
      PROVE  /\ old \in DOMAIN points
             /\ points[old].tag = points'[m].tag
             /\ ~points[old].needs_review
  <2>1. CASE m \in S
    <3>1. /\ points'[m].tag = tag[c]
          /\ old \in {plan[c][m].supersedes, plan[c][m].extends} \ {None}
          /\ m \in DOMAIN plan[c]
      BY <1>1, <1>2, <2>1 DEF Published, Kept
    <3>2. old \in Linkable(tag[c])
      BY <3>1 DEF LifecycleInv, OnCourse, LinkedPlan
    <3>. QED BY <3>1, <3>2 DEF Linkable, Tagged
  <2>2. CASE m \in DOMAIN points
    BY <1>1, <1>2, <2>2 DEF Published, LinksStayInNamespace
  <2>. QED BY <1>1, <2>1, <2>2 DEF Published
<1>. QED BY <1>1, <1>2 DEF Published, LinksStayInNamespace

LEMMA RetiringKeepsOrder ==
    ASSUME LifecycleInv, NEW c, NEW S, Retires(c, S)
    PROVE  ReplacementWaitsForDemotion' /\ LinksStayInNamespace'
<1>1. TypeOK /\ ReplacementWaitsForDemotion /\ LinksStayInNamespace
  BY DEF LifecycleInv
<1>2. DOMAIN points' = DOMAIN points
  BY <1>1, RetiredPoints
<1>3. ReplacementWaitsForDemotion'
  BY <1>1, <1>2, RetiringKeepsPayload DEF ReplacementWaitsForDemotion
<1>4. LinksStayInNamespace'
  BY <1>1, <1>2, RetiringKeepsPayload DEF LinksStayInNamespace
<1>. QED BY <1>3, <1>4

-----------------------------------------------------------------------------
(* The calls that do not act.                                              *)

Acts(c) == \/ \E t \in Tags, B \in SUBSET Memories : IndexMemories(c, t, B)
           \/ Step(c) \/ StoreFailure(c) \/ Abort(c)

Stands(d) == /\ pc'[d] = pc[d]
             /\ tag'[d] = tag[d]
             /\ near'[d] = near[d]
             /\ plan'[d] = plan[d]
             /\ todo'[d] = todo[d]

LEMMA EndsAlone ==
    ASSUME LocalsOK, NEW c \in Calls, NEW d \in Calls \ {c}, Ends(c)
    PROVE  Stands(d)
  BY DEF LocalsOK, Ends, Stands

LEMMA GoesAlone ==
    ASSUME LocalsOK, NEW c \in Calls, NEW d \in Calls \ {c}, NEW phase, NEW S,
           Goes(c, phase, S)
    PROVE  Stands(d)
  BY DEF LocalsOK, Goes, Stands

LEMMA MirrorsAlone ==
    ASSUME LocalsOK, NEW c \in Calls, NEW d \in Calls \ {c},
           Mirrors(c) \/ AdvanceMirror(c)
    PROVE  Stands(d)
  BY EndsAlone, GoesAlone DEF Mirrors, AdvanceMirror

LEMMA OthersStand ==
    ASSUME LocalsOK, NEW c \in Calls, NEW d \in Calls \ {c}, Acts(c)
    PROVE  Stands(d)
<1>1. ASSUME NEW t \in Tags, NEW B \in SUBSET Memories, IndexMemories(c, t, B)
      PROVE  Stands(d)
  BY <1>1 DEF IndexMemories, Stands, LocalsOK
<1>2. ASSUME NEW m \in Memories, SearchNeighbors(c, m)
      PROVE  Stands(d)
  BY <1>2 DEF SearchNeighbors, Stands, LocalsOK
<1>3. CASE Reconcile(c)
  BY <1>3 DEF Reconcile, Stands, LocalsOK
<1>4. CASE WritePlain(c)
  BY <1>4, MirrorsAlone, GoesAlone DEF WritePlain
<1>5. CASE WritePlainFails(c)
  BY <1>5, EndsAlone DEF WritePlainFails
<1>6. CASE Flip(c)
  BY <1>6, GoesAlone DEF Flip
<1>7. CASE FlipFails(c)
  <2>1. CASE tries[c] + 1 < FlipTries
    BY <1>7, <2>1 DEF FlipFails, Stands
  <2>2. CASE ~(tries[c] + 1 < FlipTries)
    BY <1>7, <2>2, EndsAlone DEF FlipFails
  <2>. QED BY <2>1, <2>2
<1>8. CASE WriteSuperseding(c)
  BY <1>8, MirrorsAlone DEF WriteSuperseding
<1>9. CASE WriteSupersedingFails(c)
  BY <1>9, EndsAlone DEF WriteSupersedingFails
<1>10. ASSUME NEW m \in Memories,
              PgInsertMemory(c, m) \/ PgMarkSuperseded(c, m) \/ PgInsertEvidence(c, m)
       PROVE  Stands(d)
  BY <1>10 DEF PgInsertMemory, PgMarkSuperseded, PgInsertEvidence, Stands, LocalsOK
<1>11. ASSUME NEW m \in Memories, PgEvidenceRejected(c, m)
       PROVE  Stands(d)
  BY <1>11, EndsAlone DEF PgEvidenceRejected
<1>12. CASE PgLoopDone(c) \/ PgLoopFails(c)
  BY <1>12, MirrorsAlone DEF PgLoopDone, PgLoopFails
<1>13. CASE Abort(c)
  BY <1>13, EndsAlone DEF Abort
<1>. QED
  BY <1>1, <1>2, <1>3, <1>4, <1>5, <1>6, <1>7, <1>8, <1>9, <1>10, <1>11, <1>12, <1>13
     DEF Acts, Step, StoreFailure

\* A call that stands still stays on course while the index grows by facts that
\* are not its own.
LEMMA StandingStaysOnCourse ==
    ASSUME NEW d \in Calls, OnCourse(d), Stands(d), Grows,
           Batch(d) \intersect DOMAIN points' \subseteq DOMAIN points
    PROVE  OnCourse(d)' /\ Batch(d)' = Batch(d)
<1>1. /\ Batch(d)' = Batch(d)
      /\ Kept(d)' = Kept(d)
      /\ Superseding(d)' = Superseding(d)
      /\ Plain(d)' = Plain(d)
      /\ Superseded(d)' = Superseded(d)
  BY DEF Stands, Batch, Kept, Superseding, Plain, Superseded
<1>2. Linkable(tag[d]) \subseteq Linkable(tag[d])'
  BY DEF Grows, Linkable, Tagged, Stands
<1>3. LinkedPlan(d)'
  BY <1>2 DEF OnCourse, LinkedPlan, Stands
<1>4. Unwritten(d)'
  BY <1>1, BatchParts DEF OnCourse, Unwritten, Stands
<1>5. \A S : /\ AllDemoted(S) => AllDemoted(S)'
             /\ StoredAs(d, S) => StoredAs(d, S)'
  BY DEF Grows, AllDemoted, StoredAs, Stands
<1>6. Written(d)'
  BY <1>1, <1>5 DEF OnCourse, Written, Stands, AllDemoted, StoredAs
<1>. QED BY <1>1, <1>3, <1>4, <1>6 DEF OnCourse, Stands

-----------------------------------------------------------------------------
(* The call that acts.                                                     *)

LEMMA EndedIsOnCourse ==
    ASSUME LocalsOK, NEW c \in Calls, Ends(c)
    PROVE  OnCourse(c)' /\ Batch(c)' = {}
<1>1. /\ pc'[c] = "idle"
      /\ DOMAIN near'[c] = {}
      /\ DOMAIN plan'[c] = {}
      /\ todo'[c] = {}
  BY DEF LocalsOK, Ends, Nothing
<1>. QED
  BY <1>1 DEF OnCourse, LinkedPlan, Unwritten, Written, Batch, MirrorPhases

\* Going to the next phase keeps the plan, and the facts it is about.
LEMMA GoingKeepsPlan ==
    ASSUME LocalsOK, NEW c \in Calls, NEW phase, NEW S \in SUBSET Kept(c), Goes(c, phase, S)
    PROVE  /\ pc'[c] = phase /\ todo'[c] = S
           /\ tag'[c] = tag[c] /\ near'[c] = near[c] /\ plan'[c] = plan[c]
           /\ Kept(c)' = Kept(c) /\ Superseding(c)' = Superseding(c)
           /\ Plain(c)' = Plain(c) /\ Superseded(c)' = Superseded(c)
           /\ Batch(c)' \subseteq Batch(c)
<1>1. /\ pc'[c] = phase /\ todo'[c] = S
      /\ tag'[c] = tag[c] /\ near'[c] = near[c] /\ plan'[c] = plan[c]
  BY DEF LocalsOK, Goes
<1>2. Kept(c)' = Kept(c)
  BY <1>1 DEF Kept
<1>3. /\ Superseding(c)' = Superseding(c) /\ Superseded(c)' = Superseded(c)
      /\ Plain(c)' = Plain(c)
  BY <1>1, <1>2 DEF Superseding, Superseded, Plain
<1>4. Batch(c)' \subseteq Batch(c)
  BY <1>1, BatchParts DEF Batch
<1>. QED BY <1>1, <1>2, <1>3, <1>4

LEMMA LinksOutlastSteps ==
    ASSUME NEW c \in Calls, LinkedPlan(c), Grows,
           tag'[c] = tag[c], near'[c] = near[c], plan'[c] = plan[c]
    PROVE  LinkedPlan(c)'
<1>1. Linkable(tag[c]) \subseteq Linkable(tag[c])'
  BY DEF Grows, Linkable, Tagged
<1>. QED BY <1>1 DEF LinkedPlan

LEMMA MirroringIsOnCourse ==
    ASSUME LifecycleInv, NEW c \in Calls, Grows, Mirrors(c), pc[c] # "idle",
           \A m \in Kept(c) : m \in DOMAIN points' /\ points'[m].supersedes = plan[c][m].supersedes,
           \A old \in Superseded(c) : old \in DOMAIN points' /\ ~points'[old].is_latest
    PROVE  OnCourse(c)' /\ Batch(c)' \subseteq Batch(c)
<1>0. LocalsOK
  BY TypeOKSplits DEF LifecycleInv
<1>1. CASE ~HasDb
  BY <1>0, <1>1, EndedIsOnCourse DEF Mirrors
<1>2. CASE HasDb
  <2>1. Goes(c, "pg_insert", Kept(c))
    BY <1>2 DEF Mirrors
  <2>2. /\ pc'[c] = "pg_insert" /\ todo'[c] = Kept(c)
        /\ tag'[c] = tag[c] /\ near'[c] = near[c] /\ plan'[c] = plan[c]
        /\ Kept(c)' = Kept(c) /\ Superseded(c)' = Superseded(c)
        /\ Batch(c)' \subseteq Batch(c)
    BY <1>0, <2>1, GoingKeepsPlan
  <2>3. LinkedPlan(c)'
    BY <2>2, LinksOutlastSteps DEF LifecycleInv, OnCourse
  <2>4. Written(c)'
    BY <2>2 DEF Written, StoredAs, AllDemoted, MirrorPhases
  <2>5. Unwritten(c)'
    BY <2>2 DEF Unwritten
  <2>. QED BY <2>2, <2>3, <2>4, <2>5 DEF OnCourse
<1>. QED BY <1>1, <1>2

LEMMA SearchingIsOnCourse ==
    ASSUME LifecycleInv, NEW c \in Calls, NEW m \in Memories, SearchNeighbors(c, m)
    PROVE  OnCourse(c)' /\ Batch(c)' \subseteq Batch(c)
<1>0. LocalsOK /\ OnCourse(c)
  BY TypeOKSplits DEF LifecycleInv
<1>1. PICK S \in SUBSET Active(tag[c]) :
         near' = [near EXCEPT ![c] = [k \in DOMAIN near[c] \union {m} |->
                                         IF k = m THEN S ELSE near[c][k]]]
  BY DEF SearchNeighbors
<1>2. /\ pc[c] = "search" /\ pc'[c] = "search" /\ m \in todo[c]
      /\ DOMAIN near'[c] = DOMAIN near[c] \union {m}
      /\ \A k \in DOMAIN near'[c] : near'[c][k] = IF k = m THEN S ELSE near[c][k]
      /\ todo'[c] = todo[c] \ {m}
      /\ points' = points /\ tag' = tag /\ plan' = plan
  <2>1. /\ pc[c] = "search" /\ pc'[c] = "search" /\ m \in todo[c]
        /\ todo'[c] = todo[c] \ {m}
        /\ points' = points /\ tag' = tag /\ plan' = plan
    BY <1>0 DEF SearchNeighbors, LocalsOK, stores
  <2>2. near'[c] = [k \in DOMAIN near[c] \union {m} |-> IF k = m THEN S ELSE near[c][k]]
    BY <1>0, <1>1 DEF LocalsOK
  <2>. QED BY <2>1, <2>2
<1>3. Batch(c)' \subseteq Batch(c)
  BY <1>2 DEF Batch
<1>4. S \subseteq Linkable(tag[c]) /\ Linkable(tag[c])' = Linkable(tag[c])
  BY <1>2 DEF Active, Linkable, Tagged
<1>5. LinkedPlan(c)'
  BY <1>0, <1>2, <1>4 DEF OnCourse, LinkedPlan
<1>. QED
  BY <1>0, <1>2, <1>3, <1>5 DEF OnCourse, Unwritten, Written, MirrorPhases

LEMMA ReconcilingIsOnCourse ==
    ASSUME LifecycleInv, NEW c \in Calls, Reconcile(c)
    PROVE  OnCourse(c)' /\ Batch(c)' \subseteq Batch(c)
<1>0. LocalsOK /\ OnCourse(c)
  BY TypeOKSplits DEF LifecycleInv
<1>1. PICK p \in ClassifiedPlans(near[c]) \union {DegradedPlan(near[c])} :
         plan' = [plan EXCEPT ![c] = p]
  BY DEF Reconcile
<1>2. /\ DOMAIN p = DOMAIN near[c]
      /\ \A m \in DOMAIN near[c] :
            {p[m].supersedes, p[m].extends} \subseteq near[c][m] \union {None}
  BY <1>0, PlansLinkToNeighbours DEF LocalsOK
<1>3. /\ pc[c] = "search" /\ pc'[c] = "plain" /\ todo'[c] = {}
      /\ DOMAIN near'[c] = {} /\ plan'[c] = p
      /\ points' = points /\ tag' = tag
  BY <1>0, <1>1 DEF Reconcile, LocalsOK, Nothing, stores
<1>4. Batch(c)' \subseteq Batch(c)
  BY <1>2, <1>3 DEF Batch
<1>5. Linkable(tag[c])' = Linkable(tag[c])
  BY <1>3 DEF Linkable, Tagged
<1>6. LinkedPlan(c)'
  BY <1>0, <1>2, <1>3, <1>5 DEF OnCourse, LinkedPlan
<1>. QED
  BY <1>0, <1>3, <1>4, <1>6 DEF OnCourse, Unwritten, Written, MirrorPhases

LEMMA WritingPlainIsOnCourse ==
    ASSUME LifecycleInv, NEW c \in Calls, WritePlain(c)
    PROVE  OnCourse(c)' /\ Batch(c)' \subseteq Batch(c)
<1>0. LocalsOK /\ OnCourse(c) /\ TypeOK
  BY TypeOKSplits DEF LifecycleInv
<1>1. pc[c] = "plain" /\ Publishes(c, Plain(c)) /\ Grows
  BY <1>0, PlainPublishes, PublishingGrows DEF WritePlain
<1>2. Published(c, Plain(c))
  BY <1>0, <1>1, PublishedPoints
<1>3. CASE Superseding(c) = {}
  <2>1. Kept(c) = Plain(c) /\ Superseded(c) = {}
    BY <1>3 DEF Plain, Superseded
  <2>2. Mirrors(c)
    BY <1>3 DEF WritePlain
  <2>. QED BY <1>1, <1>2, <2>1, <2>2, MirroringIsOnCourse DEF Published
<1>4. CASE Superseding(c) # {}
  <2>1. Goes(c, "flip", {})
    BY <1>4 DEF WritePlain
  <2>2. /\ pc'[c] = "flip"
        /\ tag'[c] = tag[c] /\ near'[c] = near[c] /\ plan'[c] = plan[c]
        /\ Superseding(c)' = Superseding(c) /\ Plain(c)' = Plain(c)
        /\ Batch(c)' \subseteq Batch(c)
    BY <1>0, <2>1, GoingKeepsPlan
  <2>3. LinkedPlan(c)'
    BY <1>0, <1>1, <2>2, LinksOutlastSteps DEF OnCourse
  <2>4. Superseding(c) \intersect DOMAIN points = {}
    BY <1>0, <1>1, BatchParts DEF OnCourse, Unwritten
  <2>5. Superseding(c) \intersect DOMAIN points' = {}
    BY <1>2, <2>4 DEF Published, Plain
  <2>6. Unwritten(c)' /\ Written(c)'
    BY <1>2, <2>2, <2>5 DEF Unwritten, Written, Published, StoredAs, MirrorPhases
  <2>. QED BY <2>2, <2>3, <2>6 DEF OnCourse
<1>. QED BY <1>3, <1>4

LEMMA FlippingIsOnCourse ==
    ASSUME LifecycleInv, NEW c \in Calls, Flip(c)
    PROVE  OnCourse(c)' /\ Batch(c)' \subseteq Batch(c)
<1>0. LocalsOK /\ OnCourse(c) /\ TypeOK
  BY TypeOKSplits DEF LifecycleInv
<1>1. pc[c] = "flip" /\ Retires(c, Superseded(c)) /\ Goes(c, "supersede", {})
  BY DEF Flip, Retires
<1>2. Grows
  BY <1>0, <1>1, RetiringGrows
<1>3. /\ pc'[c] = "supersede"
      /\ tag'[c] = tag[c] /\ near'[c] = near[c] /\ plan'[c] = plan[c]
      /\ Kept(c)' = Kept(c) /\ Superseding(c)' = Superseding(c)
      /\ Plain(c)' = Plain(c) /\ Superseded(c)' = Superseded(c)
      /\ Batch(c)' \subseteq Batch(c)
  BY <1>0, <1>1, GoingKeepsPlan
<1>4. LinkedPlan(c)'
  BY <1>0, <1>2, <1>3, LinksOutlastSteps DEF OnCourse
<1>5. DOMAIN points' = DOMAIN points
  BY <1>0, <1>1, RetiredPoints
<1>6. \A old \in Superseded(c) : old \in DOMAIN points /\ ~points'[old].is_latest
  <2>1. Superseded(c) \subseteq DOMAIN points
    BY <1>0 DEF OnCourse, LinkedPlan, Superseded, Superseding, Kept, Linkable, Tagged
  <2>. QED BY <1>0, <1>1, <2>1, RetiringKeepsPayload
<1>7. StoredAs(c, Plain(c)) /\ Superseding(c) \intersect DOMAIN points = {}
  BY <1>0, <1>1 DEF OnCourse, Unwritten, Written
<1>8. Unwritten(c)' /\ Written(c)'
  BY <1>2, <1>3, <1>5, <1>6, <1>7
     DEF Unwritten, Written, StoredAs, AllDemoted, MirrorPhases, Grows
<1>. QED BY <1>3, <1>4, <1>8 DEF OnCourse

LEMMA RetryingIsOnCourse ==
    ASSUME LifecycleInv, NEW c \in Calls, FlipFails(c)
    PROVE  OnCourse(c)' /\ Batch(c)' \subseteq Batch(c)
<1>0. LocalsOK /\ OnCourse(c) /\ TypeOK
  BY TypeOKSplits DEF LifecycleInv
<1>1. pc[c] = "flip" /\ \E S : Retires(c, S)
  BY DEF FlipFails, Retires
<1>2. CASE tries[c] + 1 < FlipTries
  <2>1. Stands(c)
    BY <1>2 DEF FlipFails, Stands
  <2>2. Grows /\ DOMAIN points' = DOMAIN points
    BY <1>0, <1>1, RetiringGrows, RetiredPoints
  <2>. QED BY <1>0, <2>1, <2>2, StandingStaysOnCourse
<1>3. CASE ~(tries[c] + 1 < FlipTries)
  BY <1>0, <1>3, EndedIsOnCourse DEF FlipFails
<1>. QED BY <1>2, <1>3

LEMMA SupersedingIsOnCourse ==
    ASSUME LifecycleInv, NEW c \in Calls, WriteSuperseding(c)
    PROVE  OnCourse(c)' /\ Batch(c)' \subseteq Batch(c)
<1>0. LocalsOK /\ OnCourse(c) /\ TypeOK
  BY TypeOKSplits DEF LifecycleInv
<1>1. pc[c] = "supersede" /\ Publishes(c, Superseding(c)) /\ Mirrors(c)
  BY SupersedingPublishes DEF WriteSuperseding
<1>2. Grows /\ Published(c, Superseding(c))
  BY <1>0, <1>1, PublishingGrows, PublishedPoints
<1>3. StoredAs(c, Plain(c)) /\ AllDemoted(Superseded(c))
  BY <1>0, <1>1 DEF OnCourse, Written
<1>4. \A m \in Kept(c) : m \in DOMAIN points' /\ points'[m].supersedes = plan[c][m].supersedes
  BY <1>2, <1>3, BatchParts DEF Grows, Published, StoredAs
<1>5. \A old \in Superseded(c) : old \in DOMAIN points' /\ ~points'[old].is_latest
  BY <1>2, <1>3 DEF Grows, AllDemoted
<1>. QED BY <1>1, <1>2, <1>4, <1>5, MirroringIsOnCourse

LEMMA LoopingIsOnCourse ==
    ASSUME LifecycleInv, NEW c \in Calls, NEW m \in Memories,
           PgInsertMemory(c, m) \/ PgMarkSuperseded(c, m) \/ PgInsertEvidence(c, m)
    PROVE  OnCourse(c)' /\ Batch(c)' \subseteq Batch(c)
<1>0. LocalsOK /\ OnCourse(c)
  BY TypeOKSplits DEF LifecycleInv
<1>1. /\ pc[c] \in MirrorPhases /\ pc' = pc
      /\ todo'[c] \subseteq todo[c]
      /\ points' = points /\ tag' = tag /\ near' = near /\ plan' = plan
  BY <1>0 DEF PgInsertMemory, PgMarkSuperseded, PgInsertEvidence, LocalsOK, MirrorPhases
<1>2. Batch(c)' \subseteq Batch(c)
  BY <1>1 DEF Batch
<1>3. LinkedPlan(c)'
  BY <1>0, <1>1, StandingStillGrows, LinksOutlastSteps DEF OnCourse
<1>4. /\ Kept(c)' = Kept(c) /\ Superseding(c)' = Superseding(c)
      /\ Superseded(c)' = Superseded(c)
  BY <1>1 DEF Kept, Superseding, Superseded
<1>5. Unwritten(c)' /\ Written(c)'
  BY <1>0, <1>1, <1>4 DEF OnCourse, Unwritten, Written, StoredAs, AllDemoted, MirrorPhases
<1>. QED BY <1>1, <1>2, <1>3, <1>5 DEF OnCourse, MirrorPhases

LEMMA AdvancingIsOnCourse ==
    ASSUME LifecycleInv, NEW c \in Calls, AdvanceMirror(c), UNCHANGED points
    PROVE  OnCourse(c)' /\ Batch(c)' \subseteq Batch(c)
<1>0. LocalsOK /\ OnCourse(c) /\ Grows
  BY TypeOKSplits, StandingStillGrows DEF LifecycleInv
<1>1. CASE Ends(c)
  BY <1>0, <1>1, EndedIsOnCourse
<1>2. ASSUME NEW phase \in {"pg_mark", "pg_evidence"}, NEW S \in SUBSET Kept(c),
             Goes(c, phase, S), pc[c] \in MirrorPhases,
             phase = "pg_mark" => S = Superseding(c)
      PROVE  OnCourse(c)' /\ Batch(c)' \subseteq Batch(c)
  <2>1. /\ pc'[c] = phase /\ todo'[c] = S
        /\ tag'[c] = tag[c] /\ near'[c] = near[c] /\ plan'[c] = plan[c]
        /\ Kept(c)' = Kept(c) /\ Superseding(c)' = Superseding(c)
        /\ Superseded(c)' = Superseded(c)
        /\ Batch(c)' \subseteq Batch(c)
    BY <1>0, <1>2, GoingKeepsPlan
  <2>2. LinkedPlan(c)'
    BY <1>0, <2>1, LinksOutlastSteps DEF OnCourse
  <2>3. StoredAs(c, Kept(c)) /\ AllDemoted(Superseded(c))
    BY <1>0, <1>2 DEF OnCourse, Written
  <2>4. Unwritten(c)' /\ Written(c)'
    BY <1>2, <2>1, <2>3 DEF Unwritten, Written, StoredAs, AllDemoted, MirrorPhases
  <2>. QED BY <1>2, <2>1, <2>2, <2>4 DEF OnCourse
<1>. QED BY <1>1, <1>2, BatchParts DEF AdvanceMirror, MirrorPhases

LEMMA ActingStaysOnCourse ==
    ASSUME LifecycleInv, NEW c \in Calls, Step(c) \/ StoreFailure(c) \/ Abort(c)
    PROVE  OnCourse(c)' /\ Batch(c)' \subseteq Batch(c)
<1>0. LocalsOK
  BY TypeOKSplits DEF LifecycleInv
<1>1. CASE Ends(c)
  BY <1>0, <1>1, EndedIsOnCourse
<1>2. CASE Step(c)
  <2>1. ASSUME PgLoopDone(c)
        PROVE  OnCourse(c)' /\ Batch(c)' \subseteq Batch(c)
    BY <2>1, AdvancingIsOnCourse DEF PgLoopDone, stores
  <2>. QED
    BY <1>1, <1>2, <2>1, SearchingIsOnCourse, ReconcilingIsOnCourse, WritingPlainIsOnCourse,
       FlippingIsOnCourse, SupersedingIsOnCourse, LoopingIsOnCourse
       DEF Step, PgEvidenceRejected
<1>3. CASE StoreFailure(c)
  <2>1. ASSUME PgLoopFails(c)
        PROVE  OnCourse(c)' /\ Batch(c)' \subseteq Batch(c)
    BY <2>1, AdvancingIsOnCourse DEF PgLoopFails, stores
  <2>. QED
    BY <1>1, <1>3, <2>1, RetryingIsOnCourse
       DEF StoreFailure, WritePlainFails, WriteSupersedingFails
<1>4. CASE Abort(c)
  BY <1>1, <1>4 DEF Abort
<1>. QED BY <1>2, <1>3, <1>4

LEMMA StartingIsOnCourse ==
    ASSUME LifecycleInv, NEW c \in Calls, NEW t \in Tags, NEW B \in SUBSET Memories,
           IndexMemories(c, t, B)
    PROVE  OnCourse(c)' /\ Batch(c)' \subseteq B /\ B \intersect minted = {}
<1>0. LocalsOK /\ OnCourse(c) /\ DOMAIN points \subseteq minted
  BY TypeOKSplits DEF LifecycleInv, BatchIsOwned
<1>1. /\ DOMAIN near[c] = {} /\ points' = points /\ near' = near
      /\ B \intersect minted = {}
      /\ pc'[c] = IF MemoryGraph THEN "search" ELSE "plain"
      /\ todo'[c] = IF MemoryGraph THEN B ELSE {}
      /\ plan'[c] = IF MemoryGraph THEN Nothing ELSE [m \in B |-> PlainNew]
  BY <1>0 DEF IndexMemories, LocalsOK, OnCourse, Batch, stores
<1>2. Batch(c)' \subseteq B
  BY <1>1 DEF Batch, Nothing
<1>3. LinkedPlan(c)'
  BY <1>1 DEF LinkedPlan, Nothing, PlainNew, Store
<1>. QED
  BY <1>0, <1>1, <1>2, <1>3 DEF OnCourse, Unwritten, Written, MirrorPhases

-----------------------------------------------------------------------------
(* The mirror.                                                             *)

LEMMA MirrorOutlastsGrowth ==
    ASSUME MirrorTrailsIndex, Grows, UNCHANGED rows
    PROVE  MirrorTrailsIndex'
  BY DEF MirrorTrailsIndex, Grows

LEMMA InsertingMirrors ==
    ASSUME LifecycleInv, NEW c \in Calls, NEW m \in Memories, PgInsertMemory(c, m)
    PROVE  MirrorTrailsIndex'
<1>1. m \in DOMAIN points
  BY DEF LifecycleInv, OnCourse, Written, StoredAs, PgInsertMemory, MirrorPhases
<1>2. /\ DOMAIN rows' = DOMAIN rows \union {m}
      /\ \A k \in DOMAIN rows : rows'[k] = rows[k]
      /\ m \notin DOMAIN rows => rows'[m] = RowOf(c, m)
      /\ points' = points
  BY DEF PgInsertMemory, RowInserted
<1>3. m \notin DOMAIN rows => rows'[m].superseded_by = None
  BY <1>2 DEF RowOf
<1>. QED BY <1>1, <1>2, <1>3 DEF LifecycleInv, MirrorTrailsIndex

LEMMA MarkingMirrors ==
    ASSUME LifecycleInv, NEW c \in Calls, NEW m \in Memories, PgMarkSuperseded(c, m)
    PROVE  MirrorTrailsIndex'
<1> DEFINE old == plan[c][m].supersedes
<1>1. /\ m \in Superseding(c)
      /\ StoredAs(c, Kept(c)) /\ AllDemoted(Superseded(c))
  BY DEF LifecycleInv, OnCourse, Written, PgMarkSuperseded, MirrorPhases
<1>2. /\ m \in DOMAIN points /\ points[m].supersedes = old
      /\ ~points[old].is_latest
  BY <1>1, BatchParts DEF StoredAs, AllDemoted
<1>3. /\ DOMAIN rows' = DOMAIN rows
      /\ \A k \in DOMAIN rows : k # old => rows'[k] = rows[k]
      /\ points' = points
  BY DEF PgMarkSuperseded, RowMarked
<1>4. ASSUME old \in DOMAIN rows
      PROVE  rows'[old].superseded_by = m
  <2>1. rows[old] \in Row
    BY <1>4 DEF LifecycleInv, TypeOK
  <2>2. rows'[old] = [rows[old] EXCEPT !.is_latest = FALSE, !.superseded_by = m]
    BY <1>4 DEF PgMarkSuperseded, RowMarked
  <2>. QED BY <2>1, <2>2 DEF Row
<1>. QED BY <1>2, <1>3, <1>4 DEF LifecycleInv, MirrorTrailsIndex

LEMMA MirrorKeepsTrailing ==
    ASSUME LifecycleInv, NEW c \in Calls, Step(c) \/ StoreFailure(c) \/ Abort(c)
    PROVE  MirrorTrailsIndex'
<1>1. CASE \E m \in Memories : PgInsertMemory(c, m)
  BY <1>1, InsertingMirrors
<1>2. CASE \E m \in Memories : PgMarkSuperseded(c, m)
  BY <1>2, MarkingMirrors
<1>3. ASSUME ~\E m \in Memories : PgInsertMemory(c, m) \/ PgMarkSuperseded(c, m)
      PROVE  UNCHANGED rows
  BY <1>3 DEF Step, StoreFailure, Abort, stores, SearchNeighbors, Reconcile, WritePlain,
              WritePlainFails, Flip, FlipFails, WriteSuperseding, WriteSupersedingFails,
              PgInsertEvidence, PgEvidenceRejected, PgLoopDone, PgLoopFails
<1>. QED BY <1>1, <1>2, <1>3, IndexGrows, MirrorOutlastsGrowth DEF LifecycleInv

-----------------------------------------------------------------------------
(* The invariant is inductive.                                             *)

LEMMA InitIsOnCourse == Init => LifecycleInv
<1>. SUFFICES ASSUME Init PROVE LifecycleInv
  OBVIOUS
<1>1. TypeOK
  BY InitIsTyped
<1>2. DOMAIN points = {} /\ DOMAIN rows = {}
  BY DEF Init, Nothing
<1>3. ASSUME NEW c \in Calls
      PROVE  /\ Batch(c) = {} /\ pc[c] = "idle"
             /\ DOMAIN near[c] = {} /\ DOMAIN plan[c] = {}
  BY DEF Init, Batch, Nothing
<1>4. ASSUME NEW c \in Calls
      PROVE  OnCourse(c)
  BY <1>3 DEF OnCourse, LinkedPlan, Unwritten, Written, MirrorPhases
<1>. QED
  BY <1>1, <1>2, <1>3, <1>4
     DEF LifecycleInv, BatchIsOwned, ReplacementWaitsForDemotion, LinksStayInNamespace,
         MirrorTrailsIndex

LEMMA IndexStaysOrdered ==
    ASSUME LifecycleInv, NEW c \in Calls, Step(c) \/ StoreFailure(c) \/ Abort(c)
    PROVE  /\ ReplacementWaitsForDemotion' /\ LinksStayInNamespace'
           /\ DOMAIN points' \subseteq DOMAIN points \union Batch(c)
<1>1. CASE UNCHANGED points
  BY <1>1 DEF LifecycleInv, ReplacementWaitsForDemotion, LinksStayInNamespace
<1>2. ASSUME NEW S, Publishes(c, S)
      PROVE  /\ ReplacementWaitsForDemotion' /\ LinksStayInNamespace'
             /\ DOMAIN points' \subseteq DOMAIN points \union Batch(c)
  <2>1. ReplacementWaitsForDemotion' /\ LinksStayInNamespace'
    BY <1>2, PublishingIsOrdered, PublishingStaysInNamespace
  <2>2. DOMAIN points' = DOMAIN points \union S
    BY <1>2, PublishedPoints DEF LifecycleInv, Published
  <2>3. S \subseteq Batch(c)
    BY <1>2, BatchParts DEF Publishes
  <2>. QED BY <2>1, <2>2, <2>3
<1>3. ASSUME NEW S, Retires(c, S)
      PROVE  /\ ReplacementWaitsForDemotion' /\ LinksStayInNamespace'
             /\ DOMAIN points' \subseteq DOMAIN points \union Batch(c)
  BY <1>3, RetiringKeepsOrder, RetiredPoints DEF LifecycleInv
<1>. QED BY <1>1, <1>2, <1>3, IndexEffect

LEMMA StepKeepsInv ==
    ASSUME LifecycleInv, NEW c \in Calls, Step(c) \/ StoreFailure(c) \/ Abort(c)
    PROVE  LifecycleInv'
<1>1. TypeOK' /\ LocalsOK /\ minted' = minted
  <2>1. TypeOK'
    BY StepIsTyped DEF LifecycleInv
  <2>2. minted' = minted
    BY DEF Step, StoreFailure, Abort, SearchNeighbors, Reconcile, WritePlain, WritePlainFails,
           Flip, FlipFails, WriteSuperseding, WriteSupersedingFails, PgInsertMemory,
           PgMarkSuperseded, PgInsertEvidence, PgEvidenceRejected, PgLoopDone, PgLoopFails
  <2>. QED BY <2>1, <2>2, TypeOKSplits DEF LifecycleInv
<1>2. /\ ReplacementWaitsForDemotion' /\ LinksStayInNamespace'
      /\ DOMAIN points' \subseteq DOMAIN points \union Batch(c)
  BY IndexStaysOrdered
<1>3. MirrorTrailsIndex'
  BY MirrorKeepsTrailing
<1>4. OnCourse(c)' /\ Batch(c)' \subseteq Batch(c)
  BY ActingStaysOnCourse
<1>5. ASSUME NEW d \in Calls \ {c}
      PROVE  OnCourse(d)' /\ Batch(d)' = Batch(d)
  <2>1. Stands(d)
    BY <1>1, OthersStand DEF Acts
  <2>2. Batch(d) \intersect DOMAIN points' \subseteq DOMAIN points
    BY <1>2 DEF LifecycleInv, BatchIsOwned
  <2>. QED BY <2>1, <2>2, IndexGrows, StandingStaysOnCourse DEF LifecycleInv
<1>6. BatchIsOwned'
  <2>1. BatchIsOwned
    BY DEF LifecycleInv
  <2>2. (\A d \in Calls : Batch(d) \subseteq minted)'
    BY <1>1, <1>4, <1>5, <2>1 DEF BatchIsOwned
  <2>3. (\A d, e \in Calls : d # e => Batch(d) \intersect Batch(e) = {})'
    BY <1>4, <1>5, <2>1 DEF BatchIsOwned
  <2>4. (DOMAIN points \subseteq minted)'
    BY <1>1, <1>2, <2>1 DEF BatchIsOwned
  <2>. QED BY <2>2, <2>3, <2>4 DEF BatchIsOwned
<1>. QED BY <1>1, <1>2, <1>3, <1>4, <1>5, <1>6 DEF LifecycleInv

LEMMA StartKeepsInv ==
    ASSUME LifecycleInv, NEW c \in Calls, NEW t \in Tags, NEW B \in SUBSET Memories,
           IndexMemories(c, t, B)
    PROVE  LifecycleInv'
<1>1. TypeOK' /\ LocalsOK /\ minted' = minted \union B /\ UNCHANGED <<points, rows>>
  <2>1. TypeOK'
    BY IndexIsTyped DEF LifecycleInv
  <2>2. minted' = minted \union B /\ UNCHANGED <<points, rows>>
    BY DEF IndexMemories, stores
  <2>. QED BY <2>1, <2>2, TypeOKSplits DEF LifecycleInv
<1>2. ReplacementWaitsForDemotion' /\ LinksStayInNamespace' /\ MirrorTrailsIndex'
  BY <1>1 DEF LifecycleInv, ReplacementWaitsForDemotion, LinksStayInNamespace,
              MirrorTrailsIndex
<1>3. OnCourse(c)' /\ Batch(c)' \subseteq B /\ B \intersect minted = {}
  BY StartingIsOnCourse
<1>4. ASSUME NEW d \in Calls \ {c}
      PROVE  OnCourse(d)' /\ Batch(d)' = Batch(d)
  <2>1. Stands(d)
    BY <1>1, OthersStand DEF Acts
  <2>. QED BY <1>1, <2>1, StandingStillGrows, StandingStaysOnCourse DEF LifecycleInv
<1>5. BatchIsOwned'
  <2>1. BatchIsOwned
    BY DEF LifecycleInv
  <2>2. (\A d \in Calls : Batch(d) \subseteq minted)'
    BY <1>1, <1>3, <1>4, <2>1 DEF BatchIsOwned
  <2>3. (\A d, e \in Calls : d # e => Batch(d) \intersect Batch(e) = {})'
    BY <1>3, <1>4, <2>1 DEF BatchIsOwned
  <2>4. (DOMAIN points \subseteq minted)'
    BY <1>1, <2>1 DEF BatchIsOwned
  <2>. QED BY <2>2, <2>3, <2>4 DEF BatchIsOwned
<1>. QED BY <1>1, <1>2, <1>3, <1>4, <1>5 DEF LifecycleInv

LEMMA NextKeepsInv == LifecycleInv /\ [Next]_vars => LifecycleInv'
<1>1. ASSUME LifecycleInv, UNCHANGED vars
      PROVE  LifecycleInv'
  <2>1. TypeOK'
    BY <1>1, NextIsTyped DEF LifecycleInv
  <2>2. UNCHANGED <<points, rows, minted, pc, tag, near, plan, todo>>
    BY <1>1 DEF vars, stores, locals
  <2>3. ASSUME NEW c \in Calls
        PROVE  OnCourse(c)' /\ Batch(c)' = Batch(c)
    BY <1>1, <2>2, StandingStillGrows, StandingStaysOnCourse DEF LifecycleInv, Stands
  <2>4. BatchIsOwned'
    BY <1>1, <2>2, <2>3 DEF LifecycleInv, BatchIsOwned
  <2>. QED
    BY <1>1, <2>1, <2>2, <2>3, <2>4
       DEF LifecycleInv, ReplacementWaitsForDemotion, LinksStayInNamespace, MirrorTrailsIndex
<1>2. ASSUME LifecycleInv, Next
      PROVE  LifecycleInv'
  BY <1>2, StepKeepsInv, StartKeepsInv DEF Next
<1>. QED BY <1>1, <1>2

\* The strengthening holds in every reachable state.
THEOREM InvHolds == Spec => []LifecycleInv
  BY InitIsOnCourse, NextKeepsInv, PTL DEF Spec

\* Search never serves a memory together with one that supersedes it: the
\* order of the flip and the superseding write (mod.rs:1071) is enough,
\* whatever fails and however calls interleave.
THEOREM DemotionComesFirst == Spec => []ReplacementWaitsForDemotion
<1>1. LifecycleInv => ReplacementWaitsForDemotion
  BY DEF LifecycleInv
<1>. QED BY <1>1, InvHolds, PTL

\* Reconciliation never links a memory across namespaces or to a quarantined
\* memory (mod.rs:929), with stale neighbours too.
THEOREM NamespacesAreSealed == Spec => []LinksStayInNamespace
<1>1. LifecycleInv => LinksStayInNamespace
  BY DEF LifecycleInv
<1>. QED BY <1>1, InvHolds, PTL

\* Postgres never runs ahead of Qdrant (mod.rs:1112).
THEOREM MirrorFollows == Spec => []MirrorTrailsIndex
<1>1. LifecycleInv => MirrorTrailsIndex
  BY DEF LifecycleInv
<1>. QED BY <1>1, InvHolds, PTL

-----------------------------------------------------------------------------
(* Supersession is acyclic.                                                *)

\* A new point supersedes only points that were there before it.
LEMMA LinksPointBack ==
    ASSUME LifecycleInv, NEW c \in Calls, Step(c) \/ StoreFailure(c) \/ Abort(c)
    PROVE  \A m \in DOMAIN points' : points'[m].supersedes \in DOMAIN points \union {None}
<1>1. \A m \in DOMAIN points : points[m].supersedes \in DOMAIN points \union {None}
  BY DEF LifecycleInv, ReplacementWaitsForDemotion
<1>2. CASE UNCHANGED points
  BY <1>1, <1>2
<1>3. ASSUME NEW S, Publishes(c, S)
      PROVE  \A m \in DOMAIN points' : points'[m].supersedes \in DOMAIN points \union {None}
  <2>1. Published(c, S)
    BY <1>3, PublishedPoints DEF LifecycleInv
  <2>. QED BY <1>1, <2>1 DEF Published
<1>4. ASSUME NEW S, Retires(c, S)
      PROVE  \A m \in DOMAIN points' : points'[m].supersedes \in DOMAIN points \union {None}
  BY <1>1, <1>4, RetiredPoints, RetiringKeepsPayload DEF LifecycleInv
<1>. QED BY <1>2, <1>3, <1>4, IndexEffect

LEMMA StepKeepsAcyclic ==
    ASSUME LifecycleInv, SupersessionIsAcyclic, NEW c \in Calls,
           Step(c) \/ StoreFailure(c) \/ Abort(c)
    PROVE  SupersessionIsAcyclic'
<1>1. SUFFICES ASSUME NEW T \in SUBSET DOMAIN points', T # {}
               PROVE  \E m \in T : points'[m].supersedes \notin T
  BY DEF SupersessionIsAcyclic
<1>2. /\ DOMAIN points' \subseteq Memories
      /\ Grows
      /\ \A m \in DOMAIN points' : points'[m].supersedes \in DOMAIN points \union {None}
  <2>1. DOMAIN points' \subseteq Memories
    BY StepIsTyped DEF LifecycleInv, TypeOK
  <2>. QED BY <2>1, IndexGrows, LinksPointBack
<1>3. None \notin T
  BY <1>2, NoneAssumption
<1>4. CASE T \intersect DOMAIN points = {}
  BY <1>1, <1>2, <1>3, <1>4
<1>5. CASE T \intersect DOMAIN points # {}
  <2>1. PICK m \in T \intersect DOMAIN points :
           points[m].supersedes \notin T \intersect DOMAIN points
    BY <1>5 DEF SupersessionIsAcyclic
  <2>2. points'[m].supersedes = points[m].supersedes
    BY <1>2, <2>1 DEF Grows
  <2>. QED BY <1>2, <1>3, <2>1, <2>2
<1>. QED BY <1>4, <1>5

\* No memory supersedes itself through any chain (mod.rs:1033), for any number
\* of ingests racing on the same memories.
THEOREM ChainsAreAcyclic == Spec => []SupersessionIsAcyclic
<1>1. Init => SupersessionIsAcyclic
  BY DEF Init, Nothing, SupersessionIsAcyclic
<1>2. LifecycleInv /\ SupersessionIsAcyclic /\ [Next]_vars => SupersessionIsAcyclic'
  <2>1. ASSUME SupersessionIsAcyclic, UNCHANGED points
        PROVE  SupersessionIsAcyclic'
    BY <2>1 DEF SupersessionIsAcyclic
  <2>. QED BY <2>1, StepKeepsAcyclic DEF Next, IndexMemories, vars, stores
<1>. QED BY <1>1, <1>2, InvHolds, PTL DEF Spec

-----------------------------------------------------------------------------
(* Nothing acknowledged is lost.                                           *)

LEMMA ReturningIsComplete ==
    ASSUME LifecycleInv, NEW c \in Calls, pc'[c] = "idle", Step(c)
    PROVE  Kept(c) \subseteq DOMAIN points'
<1>0. LocalsOK /\ TypeOK /\ OnCourse(c)
  BY TypeOKSplits DEF LifecycleInv
<1>1. CASE WritePlain(c)
  <2>1. DOMAIN points' = DOMAIN points \union Plain(c)
    BY <1>1 DEF WritePlain, Upserted
  <2>2. Superseding(c) = {}
    BY <1>0, <1>1 DEF WritePlain, Goes, LocalsOK
  <2>. QED BY <2>1, <2>2, BatchParts
<1>2. CASE WriteSuperseding(c)
  <2>1. DOMAIN points' = DOMAIN points \union Superseding(c)
    BY <1>2 DEF WriteSuperseding, Upserted
  <2>2. StoredAs(c, Plain(c))
    BY <1>0, <1>2 DEF OnCourse, Written, WriteSuperseding
  <2>. QED BY <2>1, <2>2, BatchParts DEF StoredAs
<1>3. CASE pc[c] \in MirrorPhases
  <2>1. UNCHANGED points
    BY <1>3 DEF MirrorPhases, Step, SearchNeighbors, Reconcile, WritePlain, Flip,
                WriteSuperseding, PgInsertMemory, PgMarkSuperseded, PgInsertEvidence,
                PgEvidenceRejected, PgLoopDone, stores
  <2>. QED BY <1>0, <1>3, <2>1 DEF OnCourse, Written, StoredAs
<1>4. ASSUME ~WritePlain(c), ~WriteSuperseding(c)
      PROVE  pc[c] \in MirrorPhases
  <2>1. ~(\E m \in Memories : SearchNeighbors(c, m)) /\ ~Reconcile(c) /\ ~Flip(c)
    BY <1>0 DEF SearchNeighbors, Reconcile, Flip, Goes, LocalsOK
  <2>. QED
    BY <1>4, <2>1 DEF Step, PgInsertMemory, PgMarkSuperseded, PgInsertEvidence,
                      PgEvidenceRejected, PgLoopDone, AdvanceMirror, MirrorPhases
<1>. QED BY <1>1, <1>2, <1>3, <1>4

\* A call whose last step succeeds has stored every fact of its batch that is
\* not a duplicate ("never lose a fact", memory.rs:162).
THEOREM NothingAckedIsLost == Spec => AckedFactsAreIndexed
<1>1. LifecycleInv =>
        \A c \in Calls : pc'[c] = "idle" /\ Step(c) => Kept(c) \subseteq DOMAIN points'
  BY ReturningIsComplete
<1>. QED BY <1>1, InvHolds, PTL DEF AckedFactsAreIndexed

-----------------------------------------------------------------------------
(* Nothing is demoted in vain.                                             *)

\* m is replaced, or about to be.
Replaced(m) == \/ \E n \in DOMAIN points : points[n].supersedes = m
               \/ \E c \in Calls : pc[c] = "supersede" /\ m \in Superseded(c)

LEMMA ReplacedOutlasts ==
    ASSUME LifecycleInv, NEW c \in Calls, Step(c), NEW m, Replaced(m)
    PROVE  Replaced(m)'
<1>0. LocalsOK /\ TypeOK /\ Grows
  BY TypeOKSplits, IndexGrows DEF LifecycleInv
<1>1. CASE \E n \in DOMAIN points : points[n].supersedes = m
  BY <1>0, <1>1 DEF Replaced, Grows
<1>2. ASSUME NEW d \in Calls \ {c}, pc[d] = "supersede", m \in Superseded(d)
      PROVE  Replaced(m)'
  <2>1. Stands(d)
    BY <1>0, OthersStand DEF Acts
  <2>2. Superseded(d)' = Superseded(d)
    BY <2>1 DEF Stands, Superseded, Superseding, Kept
  <2>. QED BY <1>2, <2>1, <2>2 DEF Stands, Replaced
<1>3. ASSUME pc[c] = "supersede", m \in Superseded(c)
      PROVE  Replaced(m)'
  <2>1. WriteSuperseding(c)
    BY <1>3 DEF Step, SearchNeighbors, Reconcile, WritePlain, Flip, PgInsertMemory,
                PgMarkSuperseded, PgInsertEvidence, PgEvidenceRejected, PgLoopDone,
                AdvanceMirror
  <2>2. Published(c, Superseding(c))
    BY <1>0, <1>3, <2>1, SupersedingPublishes, PublishedPoints DEF WriteSuperseding
  <2>3. PICK n \in Superseding(c) : plan[c][n].supersedes = m
    BY <1>3 DEF Superseded
  <2>. QED BY <2>2, <2>3 DEF Published, Replaced
<1>. QED BY <1>1, <1>2, <1>3 DEF Replaced

LEMMA DemotingReplaces ==
    ASSUME LifecycleInv, NEW c \in Calls, Step(c),
           NEW m \in DOMAIN points', ~points'[m].is_latest,
           m \in DOMAIN points => points[m].is_latest
    PROVE  Replaced(m)'
<1>0. LocalsOK /\ TypeOK
  BY TypeOKSplits DEF LifecycleInv
<1>1. ASSUME NEW S, Publishes(c, S)
      PROVE  FALSE
  <2>1. Published(c, S)
    BY <1>0, <1>1, PublishedPoints
  <2>. QED BY <2>1 DEF Published
<1>2. PICK S : Retires(c, S)
  BY <1>1, IndexEffect
<1>3. pc[c] = "flip" /\ m \in Superseded(c)
  BY <1>0, <1>2, RetiredPoints, RetiringKeepsPayload DEF Retires
<1>4. Flip(c)
  BY <1>3 DEF Step, SearchNeighbors, Reconcile, WritePlain, WriteSuperseding, PgInsertMemory,
              PgMarkSuperseded, PgInsertEvidence, PgEvidenceRejected, PgLoopDone,
              AdvanceMirror
<1>5. pc'[c] = "supersede" /\ Superseded(c)' = Superseded(c)
  BY <1>0, <1>4, GoingKeepsPlan DEF Flip
<1>. QED BY <1>3, <1>5 DEF Replaced

\* While nothing has failed, a memory is demoted only for a replacement that is
\* stored or that its call is about to store (mod.rs:1071).
THEOREM DemotionIsNotInVain == Spec => []DemotionHasReplacement
<1>1. Init => DemotionHasReplacement
  BY DEF Init, Nothing, DemotionHasReplacement
<1>2. ASSUME LifecycleInv, DemotionHasReplacement, [Next]_vars
      PROVE  DemotionHasReplacement'
  <2>1. CASE UNCHANGED <<points, pc, plan, failed>>
    <3>1. \A c \in Calls : Superseded(c)' = Superseded(c)
      BY <2>1 DEF Superseded, Superseding, Kept
    <3>. QED BY <1>2, <2>1, <3>1 DEF DemotionHasReplacement
  <2>2. ASSUME NEW c \in Calls, Step(c), ~failed,
               NEW m \in DOMAIN points', ~points'[m].is_latest
        PROVE  Replaced(m)'
    <3>1. CASE m \in DOMAIN points /\ ~points[m].is_latest
      <4>1. Replaced(m)
        BY <1>2, <2>2, <3>1 DEF DemotionHasReplacement, Replaced
      <4>. QED BY <1>2, <2>2, <4>1, ReplacedOutlasts
    <3>2. CASE m \in DOMAIN points => points[m].is_latest
      BY <1>2, <2>2, <3>2, DemotingReplaces
    <3>. QED BY <3>1, <3>2
  <2>3. ASSUME NEW c \in Calls, Step(c)
        PROVE  DemotionHasReplacement'
    <3>1. failed' = failed
      BY <2>3 DEF Step, SearchNeighbors, Reconcile, WritePlain, Flip, WriteSuperseding,
                  PgInsertMemory, PgMarkSuperseded, PgInsertEvidence, PgEvidenceRejected,
                  PgLoopDone
    <3>. QED BY <2>2, <2>3, <3>1 DEF DemotionHasReplacement, Replaced
  <2>4. ASSUME NEW c \in Calls, StoreFailure(c) \/ Abort(c)
        PROVE  DemotionHasReplacement'
    BY <2>4 DEF DemotionHasReplacement, StoreFailure, Abort, WritePlainFails, FlipFails,
                WriteSupersedingFails, PgLoopFails
  <2>5. ASSUME NEW c \in Calls, NEW t \in Tags, NEW B \in SUBSET Memories,
               IndexMemories(c, t, B)
        PROVE  DemotionHasReplacement'
    <3>1. LocalsOK /\ points' = points /\ failed' = failed /\ pc[c] = "idle"
      <4>1. LocalsOK
        BY <1>2, TypeOKSplits DEF LifecycleInv
      <4>. QED BY <2>5, <4>1 DEF IndexMemories, stores
    <3>2. ASSUME NEW m \in DOMAIN points, Replaced(m)
          PROVE  Replaced(m)'
      <4>1. ASSUME NEW d \in Calls, pc[d] = "supersede", m \in Superseded(d)
            PROVE  Replaced(m)'
        <5>1. Stands(d)
          BY <2>5, <3>1, <4>1, OthersStand DEF Acts
        <5>2. Superseded(d)' = Superseded(d)
          BY <5>1 DEF Stands, Superseded, Superseding, Kept
        <5>. QED BY <4>1, <5>1, <5>2 DEF Stands, Replaced
      <4>. QED BY <3>1, <3>2, <4>1 DEF Replaced
    <3>. QED BY <1>2, <3>1, <3>2 DEF DemotionHasReplacement, Replaced
  <2>. QED BY <1>2, <2>1, <2>3, <2>4, <2>5 DEF Next, vars, locals, stores
<1>. QED BY <1>1, <1>2, InvHolds, PTL DEF Spec

-----------------------------------------------------------------------------
(* The index implements the abstract memory store.                         *)

LEMMA PublishingLearns ==
    ASSUME LifecycleInv, NEW c \in Calls, NEW S, Publishes(c, S)
    PROVE  Serving!Learn(S)
<1>1. Published(c, S) /\ S \subseteq Memories /\ S \intersect DOMAIN points = {}
  BY PublishedPoints DEF LifecycleInv, TypeOK, Publishes, Kept
<1>2. S \subseteq Serving!In("unknown")
  BY <1>1 DEF Serving!In, StatusOf
<1>3. \A m \in S : StatusOf(m)' \in {"served", "quarantined"}
  BY <1>1 DEF Published, StatusOf
<1>4. \A m \in S : ReplacedBy(m)' \in Serving!In("retired") \union {None}
  <2>1. ASSUME NEW m \in S, plan[c][m].supersedes # None
        PROVE  plan[c][m].supersedes \in Serving!In("retired")
    BY <1>1, <2>1 DEF Published, Serving!In, StatusOf, LifecycleInv, TypeOK
  <2>. QED BY <1>1, <2>1 DEF Published, ReplacedBy
<1>5. \A m \in Memories \ S : StatusOf(m)' = StatusOf(m) /\ ReplacedBy(m)' = ReplacedBy(m)
  BY <1>1 DEF Published, StatusOf, ReplacedBy
<1>6. [m \in S |-> StatusOf(m)'] \in [S -> {"served", "quarantined"}]
  BY <1>3
<1>7. [m \in S |-> ReplacedBy(m)'] \in [S -> Serving!In("retired") \union {None}]
  BY <1>4
<1>8. [m \in Memories |-> StatusOf(m)'] =
         [m \in Memories |-> IF m \in S THEN [k \in S |-> StatusOf(k)'][m]
                             ELSE [k \in Memories |-> StatusOf(k)][m]]
  BY <1>1, <1>5
<1>9. [m \in Memories |-> ReplacedBy(m)'] =
         [m \in Memories |-> IF m \in S THEN [k \in S |-> ReplacedBy(k)'][m]
                             ELSE [k \in Memories |-> ReplacedBy(k)][m]]
  BY <1>1, <1>5
<1>. QED BY <1>2, <1>6, <1>7, <1>8, <1>9 DEF Serving!Learn

LEMMA RetiringRetires ==
    ASSUME LifecycleInv, NEW c \in Calls, NEW S, Retires(c, S)
    PROVE  Serving!Retire(S \intersect Serving!In("served"))
<1>1. DOMAIN points' = DOMAIN points
  BY RetiredPoints DEF LifecycleInv
<1>2. \A m \in S : m \in DOMAIN points /\ ~points[m].needs_review
  BY DEF Retires, LifecycleInv, OnCourse, LinkedPlan, Superseded, Superseding, Kept,
         Linkable, Tagged
<1>3. ASSUME NEW m \in Memories
      PROVE  /\ ReplacedBy(m)' = ReplacedBy(m)
             /\ StatusOf(m)' = IF m \in S /\ StatusOf(m) = "served" THEN "retired"
                               ELSE StatusOf(m)
  <2>1. CASE m \notin DOMAIN points
    BY <1>1, <2>1 DEF StatusOf, ReplacedBy
  <2>2. CASE m \in DOMAIN points
    <3>1. /\ points'[m].needs_review = points[m].needs_review
          /\ points'[m].supersedes = points[m].supersedes
          /\ points'[m].is_latest = (points[m].is_latest /\ m \notin S)
      BY <2>2, RetiringKeepsPayload DEF LifecycleInv
    <3>. QED BY <1>1, <1>2, <2>2, <3>1 DEF StatusOf, ReplacedBy
  <2>. QED BY <2>1, <2>2
<1>. QED BY <1>3 DEF Serving!Retire, Serving!In

\* Whatever fails and however calls interleave, a reader sees a memory appear
\* once, perhaps retire once, and never a replacement next to what it replaces
\* (the header of memory.rs).
THEOREM IndexServes == Spec => ServingSpec
<1>1. Init => Serving!Init
  BY DEF Init, Nothing, Serving!Init, StatusOf, ReplacedBy
<1>2. LifecycleInv /\ [Next]_vars => [Serving!Next]_(Serving!vars)
  <2>1. ASSUME UNCHANGED points
        PROVE  UNCHANGED Serving!vars
    BY <2>1 DEF Serving!vars, StatusOf, ReplacedBy
  <2>2. ASSUME LifecycleInv, NEW c \in Calls, NEW S, Publishes(c, S) \/ Retires(c, S)
        PROVE  Serving!Next
    <3>1. CASE Publishes(c, S)
      <4>1. S \in SUBSET Memories
        BY <2>2, <3>1 DEF Publishes, Kept, LifecycleInv, TypeOK
      <4>. QED BY <2>2, <3>1, <4>1, PublishingLearns DEF Serving!Next
    <3>2. CASE Retires(c, S)
      <4>1. S \intersect Serving!In("served") \in SUBSET Memories
        BY DEF Serving!In
      <4>. QED BY <2>2, <3>2, <4>1, RetiringRetires DEF Serving!Next
    <3>. QED BY <2>2, <3>1, <3>2
  <2>3. ASSUME LifecycleInv, Next
        PROVE  [Serving!Next]_(Serving!vars)
    BY <2>1, <2>2, <2>3, IndexEffect DEF Next, IndexMemories, stores
  <2>. QED BY <2>1, <2>3 DEF vars, stores
<1>. QED BY <1>1, <1>2, InvHolds, PTL DEF Spec, ServingSpec, Serving!Spec
==============================================================================

--------------------------- MODULE FactMirrorProofs ---------------------------
(***************************************************************************)
(* Proofs about FactMirror, for any number of memories, namespaces, ingest *)
(* calls and maintenance requests.                                         *)
(*                                                                         *)
(* The argument: a memory has one namespace, that of the document it was   *)
(* distilled from, in every copy, request and call that knows it; only the *)
(* call that minted a memory, and a request that holds a snapshot of it,   *)
(* can store it; and until a snapshot is overtaken, neither is left for a  *)
(* memory once its erasure has begun.  While documents are ingested one at *)
(* a time, the index is ahead of the rows by what the call has yet to      *)
(* insert and to mark there, and behind them by half-done erasures only;   *)
(* so it can be rebuilt, and no rebuild brings a superseded memory back.   *)
(***************************************************************************)
EXTENDS FactMirror, MemorySafetyProofs

Copies == {"backfill", "rebuild"}
Ops == {"idle", "forget"} \union Copies

\* A maintenance request, by its type.
JobOK(r) ==
    /\ r.op \in Ops
    /\ DOMAIN r = {"op", "tag", "victim", "step", "snap"}
    /\ r.tag \in Tags \union {None}
    /\ r.op = "forget" => r.tag \in Tags /\ r.step \in {1, 2, 3}
    /\ DOMAIN r.snap \subseteq Memories
    /\ r.op = "backfill" => r.snap \in [DOMAIN r.snap -> Row]
    /\ r.op = "rebuild" => r.snap \in [DOMAIN r.snap -> Point]

JobsOK == DOMAIN job = Jobs /\ \A j \in Jobs : JobOK(job[j])

HistoryOK == /\ asked \subseteq minted /\ erased \subseteq asked
             /\ lost \subseteq Tags /\ raced \in BOOLEAN

\* Ids are used by the call they were minted for, and by what came of it.
Owned ==
    /\ DOMAIN points \subseteq minted /\ DOMAIN rows \subseteq minted
    /\ evidence \subseteq DOMAIN rows
    /\ \A c \in Calls : Batch(c) \subseteq minted /\ (pc[c] = "idle" => Batch(c) = {})
    /\ \A c, d \in Calls : c # d => Batch(c) \intersect Batch(d) = {}
    /\ \A j \in Jobs : /\ job[j].op \in Copies => DOMAIN job[j].snap \subseteq minted
                       /\ job[j].op = "forget" => job[j].victim \in asked

\* Something knows memory m as one of namespace t.
KnownIn(m, t) ==
    \/ m \in DOMAIN points /\ points[m].tag = t
    \/ m \in DOMAIN rows /\ rows[m].tag = t
    \/ \E c \in Calls : m \in Batch(c) /\ tag[c] = t
    \/ \E j \in Jobs : job[j].op \in Copies /\ m \in DOMAIN job[j].snap /\ job[j].snap[m].tag = t
    \/ \E j \in Jobs : job[j].op = "forget" /\ job[j].victim = m /\ job[j].tag = t

OneNamespace == \A m \in Memories, t, u \in Tags : KnownIn(m, t) /\ KnownIn(m, u) => t = u

\* The facts whose row call c has yet to insert.
ToStore(c) == {m \in Batch(c) : \/ pc[c] \in {"search", "plain", "flip", "supersede"}
                                \/ pc[c] = "pg_insert" /\ m \in todo[c]}

\* What holds until a snapshot is overtaken.
Erasing ==
    /\ erased \intersect (DOMAIN points \union DOMAIN rows) = {}
    /\ asked \intersect DOMAIN points \subseteq DOMAIN rows
    /\ \A c \in Calls : ToStore(c) \intersect (DOMAIN rows \union asked) = {}
    /\ \A j \in Jobs : job[j].op = "forget" /\ job[j].step \in {2, 3} =>
          job[j].victim \notin DOMAIN points /\ Copying = {}
    /\ \A j \in Jobs : job[j].op \in Copies =>
          DOMAIN job[j].snap \intersect erased = {} /\ \A c \in Calls : pc[c] = "idle"
    /\ \A j \in Jobs : job[j].op = "rebuild" => DOMAIN job[j].snap \subseteq DOMAIN rows

MirrorInv ==
    /\ TypeOK /\ JobsOK /\ HistoryOK /\ Owned /\ OneNamespace
    /\ ~raced => Erasing

LEMMA MirrorInvInit == MirrorInit => MirrorInv
<1>. SUFFICES ASSUME MirrorInit PROVE MirrorInv
  OBVIOUS
<1>1. TypeOK
  BY InitIsTyped DEF MirrorInit
<1>2. JobsOK /\ HistoryOK
  BY DEF MirrorInit, JobsOK, JobOK, HistoryOK, Idle, Nothing, Ops, Copies
<1>3. \A c \in Calls : Batch(c) = {}
  BY DEF MirrorInit, Init, Batch, Nothing
<1>4. Owned /\ OneNamespace /\ Erasing
  BY <1>3 DEF MirrorInit, Init, Owned, OneNamespace, KnownIn, Erasing, Nothing, Idle, Copies, ToStore
<1>. QED BY <1>1, <1>2, <1>4 DEF MirrorInv

-----------------------------------------------------------------------------
(* Ingestion.                                                              *)

\* What the step of a call does to the stores, and to what is its own.
Ingests(c) ==
    /\ pc[c] # "idle"
    /\ UNCHANGED minted
    /\ \A d \in Calls \ {c} : Stands(d)
    /\ DOMAIN points \subseteq DOMAIN points'
    /\ \A m \in DOMAIN points' : \/ m \in DOMAIN points /\ points'[m].tag = points[m].tag
                                 \/ m \in ToStore(c) /\ points'[m].tag = tag[c]
    /\ DOMAIN rows \subseteq DOMAIN rows'
    /\ \A m \in DOMAIN rows' : \/ m \in DOMAIN rows /\ rows'[m].tag = rows[m].tag
                               \/ m \in ToStore(c) \ ToStore(c)' /\ rows'[m].tag = tag[c]
    /\ evidence' \subseteq evidence \union DOMAIN rows
    /\ Batch(c)' \subseteq Batch(c) /\ ToStore(c)' \subseteq ToStore(c)
    /\ IF pc'[c] = "idle" THEN Batch(c)' = {} ELSE tag'[c] = tag[c]

\* The same, of the call's own variables.
Keeps(c) ==
    /\ Batch(c)' \subseteq Batch(c) /\ ToStore(c)' \subseteq ToStore(c)
    /\ IF pc'[c] = "idle" THEN Batch(c)' = {} ELSE tag'[c] = tag[c]

LEMMA EndsKeeps ==
    ASSUME LocalsOK, NEW c \in Calls, Ends(c)
    PROVE  Keeps(c)
<1>1. /\ pc'[c] = "idle"
      /\ DOMAIN near'[c] = {}
      /\ DOMAIN plan'[c] = {}
      /\ todo'[c] = {}
  BY DEF LocalsOK, Ends, Nothing
<1>. QED BY <1>1 DEF Keeps, Batch, ToStore

LEMMA GoesKeeps ==
    ASSUME LocalsOK, NEW c \in Calls, pc[c] # "idle", NEW phase, NEW S \in SUBSET Kept(c),
           Goes(c, phase, S), phase # "idle",
           pc[c] \notin {"search", "plain", "flip", "supersede"} => phase \in {"pg_mark", "pg_evidence"}
    PROVE  Keeps(c)
<1>1. Batch(c)' \subseteq Batch(c) /\ pc'[c] = phase /\ tag'[c] = tag[c]
  BY GoingKeepsPlan
<1>. QED BY <1>1 DEF Keeps, ToStore

LEMMA MirrorsKeeps ==
    ASSUME LocalsOK, NEW c \in Calls, pc[c] \in {"plain", "supersede"}, Mirrors(c)
    PROVE  Keeps(c)
  BY EndsKeeps, GoesKeeps DEF Mirrors

LEMMA AdvanceKeeps ==
    ASSUME LocalsOK, NEW c \in Calls, AdvanceMirror(c)
    PROVE  Keeps(c)
<1>1. Superseding(c) \subseteq Kept(c) /\ Kept(c) \intersect Grounded \subseteq Kept(c)
  BY BatchIsTyped
<1>. QED BY <1>1, EndsKeeps, GoesKeeps DEF AdvanceMirror

\* The same, of the index.
Stores(c) ==
    /\ DOMAIN points \subseteq DOMAIN points'
    /\ \A m \in DOMAIN points' : \/ m \in DOMAIN points /\ points'[m].tag = points[m].tag
                                 \/ m \in ToStore(c) /\ points'[m].tag = tag[c]

LEMMA UpsertStores ==
    ASSUME TypeOK, NEW c \in Calls, pc[c] \in {"plain", "supersede"}, NEW S \in SUBSET Kept(c),
           points' = Upserted(c, S)
    PROVE  Stores(c)
<1>1. S \subseteq ToStore(c)
  BY BatchParts DEF ToStore
<1>. QED BY <1>1 DEF Stores, Upserted, PointOf

LEMMA DemoteStores ==
    ASSUME TypeOK, NEW c \in Calls, NEW S, points' = Demoted(S)
    PROVE  Stores(c)
<1>1. \A m \in DOMAIN points : points[m] \in Point
  BY DEF TypeOK
<1>. QED BY <1>1 DEF Stores, Demoted, Point

LEMMA CallIngests ==
    ASSUME TypeOK, NEW c \in Calls, Step(c) \/ StoreFailure(c) \/ Abort(c)
    PROVE  Ingests(c)
<1>. USE DEF stores
<1>a. LocalsOK /\ StoresOK
  BY TypeOKSplits
<1>b. pc[c] # "idle" /\ UNCHANGED minted
  BY DEF Step, StoreFailure, Abort, SearchNeighbors, Reconcile, WritePlain, Flip,
         WriteSuperseding, PgInsertMemory, PgMarkSuperseded, PgInsertEvidence,
         PgEvidenceRejected, PgLoopDone, WritePlainFails, FlipFails,
         WriteSupersedingFails, PgLoopFails, AdvanceMirror
<1>c. \A d \in Calls \ {c} : Stands(d)
  BY <1>a, OthersStand DEF Acts
<1>d. UNCHANGED points => Stores(c)
  BY DEF Stores
<1>e. \A m \in DOMAIN rows : rows[m] \in Row
  BY <1>a DEF StoresOK
<1>f. ASSUME Keeps(c), Stores(c), UNCHANGED rows, evidence' \subseteq evidence \union DOMAIN rows PROVE Ingests(c)
  BY <1>b, <1>c, <1>f DEF Ingests, Keeps, Stores
<1>1. ASSUME NEW m \in Memories, SearchNeighbors(c, m) PROVE Ingests(c)
  <2>1. PICK S : near' = [near EXCEPT ![c] = [k \in DOMAIN near[c] \union {m} |-> IF k = m THEN S ELSE near[c][k]]]
    BY <1>1 DEF SearchNeighbors
  <2>2. DOMAIN near'[c] = DOMAIN near[c] \union {m} /\ todo'[c] = todo[c] \ {m} /\ m \in todo[c]
    BY <1>a, <1>1, <2>1 DEF SearchNeighbors, LocalsOK
  <2>3. Keeps(c)
    BY <1>1, <2>2 DEF SearchNeighbors, Keeps, Batch, ToStore
  <2>. QED BY <1>1, <1>d, <1>f, <2>3 DEF SearchNeighbors
<1>2. ASSUME Reconcile(c) PROVE Ingests(c)
  <2>1. PICK q \in ClassifiedPlans(near[c]) \union {DegradedPlan(near[c])} : plan' = [plan EXCEPT ![c] = q]
    BY <1>2 DEF Reconcile
  <2>2. DOMAIN q = DOMAIN near[c]
    BY <1>a, PlansLinkToNeighbours DEF LocalsOK
  <2>3. /\ DOMAIN plan'[c] = DOMAIN near[c] /\ DOMAIN near'[c] = {} /\ todo'[c] = {}
        /\ pc[c] = "search" /\ pc'[c] = "plain" /\ tag'[c] = tag[c]
    BY <1>a, <1>2, <2>1, <2>2 DEF Reconcile, LocalsOK, Nothing
  <2>4. Keeps(c)
    BY <2>3 DEF Keeps, Batch, ToStore
  <2>. QED BY <1>2, <1>d, <1>f, <2>4 DEF Reconcile
<1>3. ASSUME WritePlain(c) PROVE Ingests(c)
  <2>1. Plain(c) \subseteq Kept(c) /\ pc[c] = "plain"
    BY <1>3 DEF Plain, WritePlain
  <2>2. Keeps(c) /\ Stores(c)
    BY <1>a, <1>3, <2>1, MirrorsKeeps, GoesKeeps, UpsertStores DEF WritePlain
  <2>. QED BY <1>3, <1>f, <2>2 DEF WritePlain
<1>4. ASSUME WritePlainFails(c) PROVE Ingests(c)
  <2>1. Plain(c) \subseteq Kept(c) /\ pc[c] = "plain"
    BY <1>4 DEF Plain, WritePlainFails
  <2>2. Keeps(c) /\ Stores(c)
    BY <1>a, <1>4, <2>1, EndsKeeps, UpsertStores DEF WritePlainFails
  <2>. QED BY <1>4, <1>f, <2>2 DEF WritePlainFails
<1>5. ASSUME Flip(c) PROVE Ingests(c)
  <2>1. Keeps(c) /\ Stores(c)
    BY <1>a, <1>5, GoesKeeps, DemoteStores DEF Flip
  <2>. QED BY <1>5, <1>f, <2>1 DEF Flip
<1>6. ASSUME FlipFails(c) PROVE Ingests(c)
  <2>1. CASE tries[c] + 1 < FlipTries
    <3>1. Keeps(c)
      BY <1>6, <1>b, <2>1 DEF FlipFails, Keeps, Batch, ToStore
    <3>2. Stores(c)
      BY <1>6, DemoteStores DEF FlipFails
    <3>. QED BY <1>6, <1>f, <3>1, <3>2 DEF FlipFails
  <2>2. CASE ~(tries[c] + 1 < FlipTries)
    <3>1. Keeps(c) /\ Stores(c)
      BY <1>a, <1>6, <2>2, EndsKeeps, DemoteStores DEF FlipFails
    <3>. QED BY <1>6, <1>f, <3>1 DEF FlipFails
  <2>. QED BY <2>1, <2>2
<1>7. ASSUME WriteSuperseding(c) PROVE Ingests(c)
  <2>1. Superseding(c) \subseteq Kept(c) /\ pc[c] = "supersede"
    BY <1>7 DEF Superseding, WriteSuperseding
  <2>2. Keeps(c) /\ Stores(c)
    BY <1>a, <1>7, <2>1, MirrorsKeeps, UpsertStores DEF WriteSuperseding
  <2>. QED BY <1>7, <1>f, <2>2 DEF WriteSuperseding
<1>8. ASSUME WriteSupersedingFails(c) PROVE Ingests(c)
  <2>1. Superseding(c) \subseteq Kept(c) /\ pc[c] = "supersede"
    BY <1>8 DEF Superseding, WriteSupersedingFails
  <2>2. Keeps(c) /\ Stores(c)
    BY <1>a, <1>8, <2>1, EndsKeeps, UpsertStores DEF WriteSupersedingFails
  <2>. QED BY <1>8, <1>f, <2>2 DEF WriteSupersedingFails
<1>9. ASSUME NEW m \in Memories, PgInsertMemory(c, m) PROVE Ingests(c)
  <2>1. todo'[c] = todo[c] \ {m} /\ m \in todo[c] /\ pc[c] = "pg_insert" /\ pc' = pc /\ near' = near /\ plan' = plan /\ tag' = tag
    BY <1>a, <1>9 DEF PgInsertMemory, LocalsOK
  <2>2. Keeps(c) /\ m \in ToStore(c) \ ToStore(c)'
    BY <2>1 DEF Keeps, Batch, ToStore
  <2>3. rows' = RowInserted(m, RowOf(c, m)) /\ RowOf(c, m).tag = tag[c] /\ Stores(c) /\ evidence' = evidence
    BY <1>9, <1>d DEF PgInsertMemory, RowOf
  <2>. QED BY <1>b, <1>c, <2>2, <2>3 DEF Ingests, Keeps, Stores, RowInserted
<1>10. ASSUME NEW m \in Memories, PgMarkSuperseded(c, m) PROVE Ingests(c)
  <2>1. todo'[c] = todo[c] \ {m} /\ pc[c] = "pg_mark" /\ pc' = pc /\ near' = near /\ plan' = plan /\ tag' = tag
    BY <1>a, <1>10 DEF PgMarkSuperseded, LocalsOK
  <2>2. Keeps(c)
    BY <2>1 DEF Keeps, Batch, ToStore
  <2>3. \E old : rows' = RowMarked(old, m)
    BY <1>10 DEF PgMarkSuperseded
  <2>4. DOMAIN rows' = DOMAIN rows /\ \A k \in DOMAIN rows : rows'[k].tag = rows[k].tag
    BY <1>e, <2>3 DEF RowMarked, Row
  <2>5. Stores(c) /\ evidence' = evidence
    BY <1>10, <1>d DEF PgMarkSuperseded
  <2>. QED BY <1>b, <1>c, <2>2, <2>4, <2>5 DEF Ingests, Keeps, Stores
<1>11. ASSUME NEW m \in Memories, PgInsertEvidence(c, m) PROVE Ingests(c)
  <2>1. todo'[c] = todo[c] \ {m} /\ pc[c] = "pg_evidence" /\ pc' = pc /\ near' = near /\ plan' = plan /\ tag' = tag
    BY <1>a, <1>11 DEF PgInsertEvidence, LocalsOK
  <2>2. Keeps(c)
    BY <2>1 DEF Keeps, Batch, ToStore
  <2>. QED BY <1>11, <1>d, <1>f, <2>2 DEF PgInsertEvidence
<1>12. ASSUME NEW m \in Memories, PgEvidenceRejected(c, m) PROVE Ingests(c)
  BY <1>a, <1>12, <1>d, <1>f, EndsKeeps DEF PgEvidenceRejected
<1>13. ASSUME PgLoopDone(c) \/ PgLoopFails(c) PROVE Ingests(c)
  BY <1>a, <1>13, <1>d, <1>f, AdvanceKeeps DEF PgLoopDone, PgLoopFails
<1>14. ASSUME Abort(c) PROVE Ingests(c)
  BY <1>a, <1>14, <1>d, <1>f, EndsKeeps DEF Abort
<1>. QED BY <1>1, <1>2, <1>3, <1>4, <1>5, <1>6, <1>7, <1>8, <1>9, <1>10, <1>11, <1>12, <1>13, <1>14
     DEF Step, StoreFailure

LEMMA CallKeepsMirrorInv ==
    ASSUME MirrorInv, NEW c \in Calls, Step(c) \/ StoreFailure(c) \/ Abort(c),
           raced' = (raced \/ Copying # {}), UNCHANGED <<job, history>>
    PROVE  MirrorInv'
<1>. USE DEF history
<1>0. TypeOK /\ JobsOK /\ HistoryOK /\ Owned /\ OneNamespace /\ Ingests(c)
  BY CallIngests DEF MirrorInv
<1>1. TypeOK' /\ JobsOK' /\ HistoryOK'
  BY <1>0, StepIsTyped DEF JobsOK, JobOK, HistoryOK, Ingests
<1>2. /\ \A d \in Calls \ {c} : Batch(d)' = Batch(d) /\ ToStore(d)' = ToStore(d) /\ pc'[d] = pc[d] /\ tag'[d] = tag[d]
      /\ Batch(c)' \subseteq Batch(c) /\ ToStore(c)' \subseteq ToStore(c)
      /\ IF pc'[c] = "idle" THEN Batch(c)' = {} ELSE tag'[c] = tag[c]
      /\ ToStore(c) \subseteq Batch(c)
  BY <1>0 DEF Ingests, Stands, Batch, ToStore
<1>3. \A d \in Calls : Batch(d)' \subseteq Batch(d) /\ ToStore(d)' \subseteq ToStore(d)
  BY <1>2
<1>4. Owned'
  <2>1. DOMAIN points' \subseteq minted' /\ DOMAIN rows' \subseteq minted'
    BY <1>0, <1>2 DEF Ingests, Owned
  <2>2. evidence' \subseteq DOMAIN rows'
    BY <1>0 DEF Ingests, Owned
  <2>3. \A d \in Calls : Batch(d)' \subseteq minted' /\ (pc'[d] = "idle" => Batch(d)' = {})
    BY <1>0, <1>2 DEF Ingests, Owned
  <2>4. \A d, e \in Calls : d # e => Batch(d)' \intersect Batch(e)' = {}
    BY <1>0, <1>3 DEF Owned
  <2>. QED BY <1>0, <2>1, <2>2, <2>3, <2>4 DEF Owned, Ingests
<1>5. OneNamespace'
  <2>1. ASSUME NEW m \in Memories, NEW t \in Tags, KnownIn(m, t)' PROVE KnownIn(m, t)
    <3>1. CASE m \in DOMAIN points' /\ points'[m].tag = t
      BY <1>0, <1>2, <3>1 DEF Ingests, KnownIn
    <3>2. CASE m \in DOMAIN rows' /\ rows'[m].tag = t
      BY <1>0, <1>2, <3>2 DEF Ingests, KnownIn
    <3>3. CASE \E d \in Calls : m \in Batch(d)' /\ tag'[d] = t
      BY <1>2, <3>3 DEF KnownIn
    <3>. QED BY <2>1, <3>1, <3>2, <3>3 DEF KnownIn
  <2>. QED BY <1>0, <2>1 DEF OneNamespace
<1>6. ASSUME ~raced' PROVE Erasing'
  <2>1. ~raced /\ Copying = {} /\ Erasing
    BY <1>6 DEF MirrorInv
  <2>2. \A j \in Jobs : job[j].op \notin Copies
    BY <2>1 DEF Copying, Running, Copies
  <2>3. ToStore(c) \intersect (DOMAIN rows \union asked) = {} /\ erased \subseteq asked
    BY <1>0, <2>1 DEF Erasing, HistoryOK
  <2>4. \A m \in DOMAIN points' \ DOMAIN points : m \in ToStore(c)
    BY <1>0 DEF Ingests
  <2>5. DOMAIN rows \subseteq DOMAIN rows' /\ \A m \in DOMAIN rows' \ DOMAIN rows : m \in ToStore(c) \ ToStore(c)'
    BY <1>0 DEF Ingests
  <2>6. erased \intersect (DOMAIN points' \union DOMAIN rows') = {}
    BY <2>1, <2>3, <2>4, <2>5 DEF Erasing
  <2>7. asked \intersect DOMAIN points' \subseteq DOMAIN rows'
    BY <2>1, <2>3, <2>4, <2>5 DEF Erasing
  <2>8. ASSUME NEW d \in Calls, NEW m \in ToStore(d)', m \in DOMAIN rows' \union asked PROVE FALSE
    <3>1. m \notin DOMAIN rows \union asked
      BY <1>3, <2>1, <2>8 DEF Erasing
    <3>2. m \in ToStore(c) \ ToStore(c)'
      BY <2>5, <2>8, <3>1
    <3>3. d # c /\ m \in Batch(d) /\ m \in Batch(c)
      BY <1>2, <2>8, <3>2 DEF ToStore
    <3>. QED BY <1>0, <3>3 DEF Owned
  <2>9. \A j \in Jobs : job[j].op = "forget" /\ job[j].step \in {2, 3} => job[j].victim \notin DOMAIN points'
    BY <1>0, <2>1, <2>3, <2>4 DEF Erasing, Owned
  <2>10. Copying' = {}
    BY <2>1 DEF Copying, Running
  <2>. QED BY <2>2, <2>6, <2>7, <2>8, <2>9, <2>10 DEF Erasing, Copies
<1>. QED BY <1>1, <1>4, <1>5, <1>6 DEF MirrorInv

LEMMA IndexKeepsMirrorInv ==
    ASSUME MirrorInv, NEW c \in Calls, NEW t \in Tags, NEW B \in SUBSET Memories, IndexMemories(c, t, B),
           raced' = (raced \/ Copying # {}), UNCHANGED <<job, history>>
    PROVE  MirrorInv'
<1>. USE DEF history, stores
<1>0. TypeOK /\ JobsOK /\ HistoryOK /\ Owned /\ OneNamespace /\ LocalsOK
  BY TypeOKSplits DEF MirrorInv
<1>1. TypeOK' /\ JobsOK' /\ HistoryOK'
  BY <1>0, IndexIsTyped DEF JobsOK, JobOK, HistoryOK, IndexMemories
<1>2. \A d \in Calls \ {c} : Batch(d)' = Batch(d) /\ ToStore(d)' = ToStore(d) /\ pc'[d] = pc[d] /\ tag'[d] = tag[d]
  BY <1>0, OthersStand DEF Acts, Stands, Batch, ToStore
<1>3. /\ Batch(c)' \subseteq B /\ ToStore(c)' \subseteq B /\ pc'[c] # "idle" /\ tag'[c] = t
      /\ UNCHANGED stores /\ minted' = minted \union B /\ B \intersect minted = {}
  <2>1. DOMAIN near[c] = {} /\ pc[c] = "idle"
    BY <1>0 DEF Owned, Batch, IndexMemories
  <2>2. near'[c] = near[c] /\ todo'[c] \subseteq B /\ DOMAIN plan'[c] \subseteq B /\ pc'[c] # "idle" /\ tag'[c] = t
    BY <1>0 DEF LocalsOK, IndexMemories, Nothing
  <2>. QED BY <2>1, <2>2 DEF IndexMemories, Batch, ToStore
<1>4. Owned'
  BY <1>0, <1>2, <1>3 DEF Owned
<1>5. OneNamespace'
  <2>1. ASSUME NEW m \in Memories, NEW u \in Tags, KnownIn(m, u)'
        PROVE  IF m \in B THEN u = t ELSE KnownIn(m, u)
    <3>1. CASE m \in B
      <4>1. m \notin minted
        BY <1>3, <3>1
      <4>2. /\ m \notin DOMAIN points' /\ m \notin DOMAIN rows'
            /\ \A d \in Calls \ {c} : m \notin Batch(d)'
            /\ \A j \in Jobs : job'[j].op \in Copies => m \notin DOMAIN job'[j].snap
            /\ \A j \in Jobs : job'[j].op = "forget" => job'[j].victim # m
        BY <1>0, <1>2, <1>3, <4>1 DEF Owned, HistoryOK
      <4>3. \E d \in Calls : m \in Batch(d)' /\ tag'[d] = u
        BY <2>1, <4>2 DEF KnownIn
      <4>. QED BY <1>3, <3>1, <4>2, <4>3
    <3>2. CASE m \notin B
      BY <1>2, <1>3, <2>1, <3>2 DEF KnownIn
    <3>. QED BY <3>1, <3>2
  <2>. QED BY <1>0, <2>1 DEF OneNamespace
<1>6. ASSUME ~raced' PROVE Erasing'
  <2>1. ~raced /\ Copying = {} /\ Erasing
    BY <1>6 DEF MirrorInv
  <2>2. \A j \in Jobs : job[j].op \notin Copies
    BY <2>1 DEF Copying, Running, Copies
  <2>3. Copying' = {}
    BY <2>1 DEF Copying, Running
  <2>4. \A d \in Calls : ToStore(d)' \intersect (DOMAIN rows \union asked) = {}
    <3>1. B \intersect (DOMAIN rows \union asked) = {}
      BY <1>0, <1>3 DEF Owned, HistoryOK
    <3>. QED BY <1>2, <1>3, <2>1, <3>1 DEF Erasing
  <2>. QED BY <1>3, <2>1, <2>2, <2>3, <2>4 DEF Erasing, Copies
<1>. QED BY <1>1, <1>4, <1>5, <1>6 DEF MirrorInv

LEMMA IngestKeepsMirrorInv == MirrorInv /\ Ingest => MirrorInv'
  BY CallKeepsMirrorInv, IndexKeepsMirrorInv DEF Ingest, Next

-----------------------------------------------------------------------------
(* Maintenance requests.                                                   *)

LEMMA JobMoves ==
    ASSUME JobsOK, NEW j \in Jobs, NEW r, JobOK(r), Becomes(j, r)
    PROVE  JobsOK' /\ job'[j] = r /\ \A k \in Jobs \ {j} : job'[k] = job[k]
  BY DEF JobsOK, Becomes

LEMMA IdleIsTyped == JobOK(Idle) /\ Idle.op = "idle"
  BY DEF JobOK, Idle, Nothing, Ops

\* The stores after a deletion.
Shrinks ==
    /\ DOMAIN points' \subseteq DOMAIN points
    /\ points' = [m \in DOMAIN points' |-> points[m]]
    /\ DOMAIN rows' \subseteq DOMAIN rows
    /\ rows' = [m \in DOMAIN rows' |-> rows[m]]
    /\ evidence' \subseteq evidence /\ evidence' \subseteq DOMAIN rows'

LEMMA ErasesShrinks ==
    ASSUME TypeOK, evidence \subseteq DOMAIN rows, NEW m, NEW t, NEW k \in {1, 2, 3}, Erases(EraseOrder[k], m, t)
    PROVE  /\ Shrinks
           /\ k = 1 => points' = [n \in DOMAIN points \ {m} |-> points[n]] /\ UNCHANGED rows
           /\ k = 2 => UNCHANGED <<points, rows>>
           /\ k = 3 => UNCHANGED points /\ DOMAIN rows' = DOMAIN rows \ ({m} \intersect RowsOf(t))
<1>0. points = [n \in DOMAIN points |-> points[n]] /\ rows = [n \in DOMAIN rows |-> rows[n]]
  BY DEF TypeOK
<1>1. CASE k = 1
  <2>1. points' = [n \in DOMAIN points \ {m} |-> points[n]] /\ UNCHANGED <<rows, evidence>>
    BY <1>1 DEF Erases, EraseOrder
  <2>. QED BY <1>0, <1>1, <2>1 DEF Shrinks
<1>2. CASE k = 2
  <2>1. evidence' \subseteq evidence /\ UNCHANGED <<points, rows>>
    BY <1>2 DEF Erases, EraseOrder
  <2>. QED BY <1>0, <1>2, <2>1 DEF Shrinks
<1>3. CASE k = 3
  <2>1. /\ rows' = [n \in DOMAIN rows \ ({m} \intersect RowsOf(t)) |-> rows[n]]
        /\ evidence' = (IF m \in RowsOf(t) THEN evidence \ {m} ELSE evidence)
        /\ UNCHANGED points
    BY <1>3 DEF Erases, EraseOrder
  <2>. QED BY <1>0, <1>3, <2>1 DEF Shrinks
<1>. QED BY <1>1, <1>2, <1>3

LEMMA ShrinkingIsTyped ==
    ASSUME TypeOK, Shrinks, UNCHANGED <<minted, locals>>, failed' \in BOOLEAN
    PROVE  TypeOK'
<1>1. StoresOK' /\ LocalsOK'
  BY TypeOKSplits DEF Shrinks, StoresOK, LocalsOK, locals
<1>. QED BY <1>1, TypeOKSplits DEF TypeOK, StoresOK, LocalsOK

LEMMA CallsStandStill ==
    ASSUME UNCHANGED locals
    PROVE  \A c \in Calls : Batch(c)' = Batch(c) /\ ToStore(c)' = ToStore(c) /\ pc'[c] = pc[c] /\ tag'[c] = tag[c]
  BY DEF locals, Batch, ToStore

\* What is left after a deletion is still owned, and known as before.
LEMMA ShrinkingKeeps ==
    ASSUME MirrorInv, NEW j \in Jobs, Shrinks, UNCHANGED <<minted, locals, asked>>,
           \A k \in Jobs \ {j} : job'[k] = job[k],
           job'[j].op \notin Copies,
           job'[j].op = "forget" => job[j].op = "forget" /\ job'[j].victim = job[j].victim /\ job'[j].tag = job[j].tag
    PROVE  Owned' /\ OneNamespace'
<1>0. Owned /\ OneNamespace
  BY DEF MirrorInv
<1>1. \A c \in Calls : Batch(c)' = Batch(c) /\ pc'[c] = pc[c] /\ tag'[c] = tag[c]
  BY CallsStandStill
<1>2. Owned'
  BY <1>0, <1>1 DEF Owned, Shrinks
<1>3. ASSUME NEW m \in Memories, NEW t \in Tags, KnownIn(m, t)' PROVE KnownIn(m, t)
  BY <1>1, <1>3 DEF KnownIn, Shrinks
<1>. QED BY <1>0, <1>2, <1>3 DEF OneNamespace

LEMMA ForgetKeepsMirrorInv ==
    ASSUME MirrorInv, NEW j \in Jobs,
           \/ \E t \in Tags, m \in Memories : ForgetMemory(j, t, m)
           \/ ForgetStep(j) \/ ForgetFails(j)
    PROVE  MirrorInv'
<1>. USE DEF history, stores
<1>0. TypeOK /\ JobsOK /\ HistoryOK /\ Owned /\ OneNamespace /\ JobOK(job[j])
  BY DEF MirrorInv, JobsOK
<1>1. ASSUME NEW t \in Tags, NEW m \in Memories, ForgetMemory(j, t, m) PROVE MirrorInv'
  <2>. DEFINE r == [Idle EXCEPT !.op = "forget", !.tag = t, !.victim = m, !.step = 1]
  <2>1. JobOK(r) /\ r.op = "forget" /\ r.tag = t /\ r.victim = m /\ r.step = 1
    BY DEF JobOK, Idle, Nothing, Ops, Copies
  <2>a. JobsOK' /\ job'[j] = r /\ \A k \in Jobs \ {j} : job'[k] = job[k]
    BY <1>0, <1>1, <2>1, JobMoves DEF ForgetMemory
  <2>2. /\ JobsOK' /\ \A k \in Jobs \ {j} : job'[k] = job[k]
        /\ job'[j].op = "forget" /\ job'[j].tag = t /\ job'[j].victim = m /\ job'[j].step = 1
    BY <2>1, <2>a
  <2>. HIDE DEF r
  <2>3. UNCHANGED <<vars, erased, lost, raced>> /\ asked' = asked \union {m} /\ m \in DOMAIN rows /\ rows[m].tag = t
    BY <1>1 DEF ForgetMemory, RowsOf
  <2>4. \A c \in Calls : Batch(c)' = Batch(c) /\ ToStore(c)' = ToStore(c) /\ pc'[c] = pc[c] /\ tag'[c] = tag[c]
    BY <2>3, CallsStandStill DEF vars
  <2>5. TypeOK' /\ HistoryOK' /\ Owned'
    <3>1. TypeOK'
      BY <1>0, <2>3 DEF vars, locals, TypeOK
    <3>2. HistoryOK'
      BY <1>0, <2>3 DEF vars, HistoryOK, Owned
    <3>3. Owned'
      BY <1>0, <2>2, <2>3, <2>4 DEF vars, Owned, Copies
    <3>. QED BY <3>1, <3>2, <3>3
  <2>6. OneNamespace'
    <3>1. ASSUME NEW n \in Memories, NEW u \in Tags, KnownIn(n, u)' PROVE KnownIn(n, u)
      <4>1. job'[j].op = "forget" /\ job'[j].victim = m /\ job'[j].tag = t
        BY <2>2
      <4>2. CASE n = m /\ u = t
        BY <2>3, <4>2 DEF KnownIn
      <4>3. CASE ~(n = m /\ u = t)
        BY <2>2, <2>3, <2>4, <3>1, <4>1, <4>3 DEF KnownIn, vars, Copies
      <4>. QED BY <4>2, <4>3
    <3>. QED BY <1>0, <3>1 DEF OneNamespace
  <2>7. ASSUME ~raced' PROVE Erasing'
    <3>1. Copying' \subseteq Copying
      BY <2>1, <2>2 DEF Copying, Running
    <3>2. Erasing
      BY <2>3, <2>7 DEF MirrorInv
    <3>3. \A i \in Jobs : job'[i].op \in Copies \/ job'[i].step \in {2, 3} => job'[i] = job[i]
      BY <2>2 DEF Copies
    <3>. QED BY <2>3, <2>4, <3>1, <3>2, <3>3 DEF Erasing, vars, Copies
  <2>. QED BY <2>2, <2>5, <2>6, <2>7 DEF MirrorInv
<1>2. ASSUME ForgetStep(j) PROVE MirrorInv'
  <2>. DEFINE m == job[j].victim
              t == job[j].tag
              k == job[j].step
              r == IF k = 3 THEN Idle ELSE [job[j] EXCEPT !.step = k + 1]
  <2>1. /\ job[j].op = "forget" /\ k \in {1, 2, 3} /\ Erases(EraseOrder[k], m, t)
        /\ Becomes(j, r) /\ erased' = (IF k = 3 THEN erased \union {m} ELSE erased)
        /\ raced' = (raced \/ Copying \ {j} # {}) /\ UNCHANGED <<minted, locals, failed, asked, lost>>
    BY <1>0, <1>2 DEF ForgetStep, JobOK, EraseOrder, NotesRace
  <2>2. JobOK(r) /\ (k # 3 => r.op = "forget" /\ r.victim = m /\ r.tag = t /\ r.step = k + 1) /\ (k = 3 => r.op = "idle")
    BY <1>0, <2>1, IdleIsTyped DEF JobOK, Copies
  <2>3. JobsOK' /\ job'[j] = r /\ \A i \in Jobs \ {j} : job'[i] = job[i]
    BY <1>0, <2>1, <2>2, JobMoves
  <2>4. /\ Shrinks
        /\ k = 1 => points' = [n \in DOMAIN points \ {m} |-> points[n]] /\ UNCHANGED rows
        /\ k = 2 => UNCHANGED <<points, rows>>
        /\ k = 3 => UNCHANGED points /\ DOMAIN rows' = DOMAIN rows \ ({m} \intersect RowsOf(t))
    BY <1>0, <2>1, ErasesShrinks DEF Owned
  <2>5. TypeOK' /\ HistoryOK' /\ Owned' /\ OneNamespace'
    <3>1. TypeOK'
      BY <1>0, <2>1, <2>4, ShrinkingIsTyped DEF TypeOK
    <3>2. m \in asked
      BY <1>0, <2>1 DEF Owned
    <3>3. HistoryOK'
      BY <1>0, <2>1, <3>2 DEF HistoryOK
    <3>. QED BY <2>1, <2>2, <2>3, <2>4, <3>1, <3>3, ShrinkingKeeps DEF Copies
  <2>6. ASSUME ~raced' PROVE Erasing'
    <3>1. Erasing /\ ~raced /\ Copying = {}
      BY <2>1, <2>6 DEF MirrorInv, Copying, Running
    <3>2. Copying' = {} /\ \A i \in Jobs : job'[i].op \notin Copies
      <4>1. \A i \in Jobs : job[i].op \notin Copies  BY <3>1 DEF Copying, Running, Copies
      <4>2. r.op \notin Copies  BY <2>2 DEF Copies
      <4>3. \A i \in Jobs : job'[i].op \notin Copies
        <5>. HIDE DEF r
        <5>. QED BY <2>3, <4>1, <4>2
      <4>. QED BY <4>3 DEF Copying, Running, Copies
    <3>3. m \in asked /\ \A c \in Calls : ToStore(c)' = ToStore(c)
      BY <1>0, <2>1, CallsStandStill DEF Owned
    <3>4. k = 3 => m \notin DOMAIN points' /\ m \notin DOMAIN rows'
      <4>1. ASSUME k = 3, m \in DOMAIN rows PROVE rows[m].tag = t
        <5>1. m \in Memories /\ rows[m].tag \in Tags /\ t \in Tags
          BY <1>0, <2>1, <4>1 DEF TypeOK, JobOK, Row
        <5>2. KnownIn(m, t) /\ KnownIn(m, rows[m].tag)
          BY <2>1, <4>1 DEF KnownIn
        <5>. QED BY <1>0, <5>1, <5>2 DEF OneNamespace
      <4>. QED BY <2>1, <2>4, <3>1, <4>1 DEF Erasing, RowsOf
    <3>5. erased' \intersect (DOMAIN points' \union DOMAIN rows') = {}
      BY <2>1, <2>4, <3>1, <3>4 DEF Erasing, Shrinks
    <3>6. asked \intersect DOMAIN points' \subseteq DOMAIN rows'
      BY <2>1, <2>4, <3>1, <3>4 DEF Erasing, Shrinks
    <3>7. \A i \in Jobs : job'[i].op = "forget" /\ job'[i].step \in {2, 3} => job'[i].victim \notin DOMAIN points'
      <4>1. \A i \in Jobs \ {j} : job'[i].op = "forget" /\ job'[i].step \in {2, 3} => job'[i].victim \notin DOMAIN points'
        BY <2>3, <2>4, <3>1 DEF Erasing, Shrinks
      <4>2. k \in {1, 2} => m \notin DOMAIN points'
        BY <2>1, <2>4, <3>1 DEF Erasing
      <4>3. job'[j].op = "forget" => k \in {1, 2} /\ job'[j].victim = m
        BY <2>1, <2>2, <2>3
      <4>. QED BY <4>1, <4>2, <4>3
    <3>. QED BY <2>1, <2>4, <3>1, <3>2, <3>3, <3>5, <3>6, <3>7 DEF Erasing, Shrinks, Copies
  <2>. QED BY <2>3, <2>5, <2>6 DEF MirrorInv
<1>3. ASSUME ForgetFails(j) PROVE MirrorInv'
  <2>. DEFINE m == job[j].victim
              t == job[j].tag
              k == job[j].step
  <2>1. /\ job[j].op = "forget" /\ k \in {1, 2, 3}
        /\ Erases(EraseOrder[k], m, t) \/ UNCHANGED stores
        /\ Becomes(j, Idle) /\ failed' = TRUE
        /\ raced' = (raced \/ Copying \ {j} # {}) /\ UNCHANGED <<minted, locals, history>>
    BY <1>0, <1>3 DEF ForgetFails, JobOK, NotesRace
  <2>2. JobsOK' /\ job'[j] = Idle /\ \A i \in Jobs \ {j} : job'[i] = job[i]
    BY <1>0, <2>1, IdleIsTyped, JobMoves
  <2>3. /\ Shrinks
        /\ \/ UNCHANGED rows
           \/ k = 3 /\ UNCHANGED points /\ DOMAIN rows' = DOMAIN rows \ ({m} \intersect RowsOf(t))
    <3>1. CASE UNCHANGED stores
      BY <1>0, <3>1 DEF Shrinks, TypeOK, Owned
    <3>2. CASE Erases(EraseOrder[k], m, t)
      BY <1>0, <2>1, <3>2, ErasesShrinks DEF Owned
    <3>. QED BY <2>1, <3>1, <3>2
  <2>4. TypeOK' /\ HistoryOK' /\ Owned' /\ OneNamespace'
    <3>1. TypeOK'
      BY <1>0, <2>1, <2>3, ShrinkingIsTyped
    <3>. QED BY <1>0, <2>1, <2>2, <2>3, <3>1, ShrinkingKeeps, IdleIsTyped DEF HistoryOK, Copies
  <2>5. ASSUME ~raced' PROVE Erasing'
    <3>1. Erasing /\ ~raced /\ Copying = {}
      BY <2>1, <2>5 DEF MirrorInv, Copying, Running
    <3>2. Copying' = {} /\ \A i \in Jobs : job'[i].op \notin Copies
      BY <2>2, <3>1, IdleIsTyped DEF Copying, Running, Copies
    <3>3. \A c \in Calls : ToStore(c)' = ToStore(c)
      BY <2>1, CallsStandStill
    <3>4. asked \intersect DOMAIN points' \subseteq DOMAIN rows'
      BY <2>1, <2>3, <3>1 DEF Erasing, Shrinks
    <3>5. \A i \in Jobs : job'[i].op = "forget" /\ job'[i].step \in {2, 3} => job'[i].victim \notin DOMAIN points'
      BY <2>2, <2>3, <3>1, IdleIsTyped DEF Erasing, Shrinks
    <3>. QED BY <2>1, <2>3, <3>1, <3>2, <3>3, <3>4, <3>5 DEF Erasing, Shrinks, Copies
  <2>. QED BY <2>2, <2>4, <2>5 DEF MirrorInv
<1>. QED BY <1>1, <1>2, <1>3

\* A request that ends without a write leaves everything as it was.
LEMMA EndingKeeps ==
    ASSUME MirrorInv, NEW j \in Jobs, Becomes(j, Idle), UNCHANGED <<vars, history, raced>>
    PROVE  MirrorInv'
<1>. USE DEF history
<1>0. TypeOK /\ JobsOK /\ HistoryOK /\ Owned /\ OneNamespace
  BY DEF MirrorInv
<1>1. JobsOK' /\ job'[j] = Idle /\ (\A k \in Jobs \ {j} : job'[k] = job[k]) /\ Idle.op = "idle"
  BY <1>0, JobMoves, IdleIsTyped
<1>2. \A c \in Calls : Batch(c)' = Batch(c) /\ ToStore(c)' = ToStore(c) /\ pc'[c] = pc[c] /\ tag'[c] = tag[c]
  BY CallsStandStill DEF vars
<1>3. TypeOK' /\ HistoryOK'
  BY <1>0 DEF vars, stores, locals, TypeOK, HistoryOK
<1>4. Owned'
  BY <1>0, <1>1, <1>2 DEF vars, stores, Owned, Copies
<1>5. OneNamespace'
  <2>1. ASSUME NEW n \in Memories, NEW u \in Tags, KnownIn(n, u)' PROVE KnownIn(n, u)
    BY <1>1, <1>2, <2>1 DEF KnownIn, vars, stores, Copies
  <2>. QED BY <1>0, <2>1 DEF OneNamespace
<1>6. ASSUME ~raced' PROVE Erasing'
  <2>1. Erasing /\ Copying' \subseteq Copying
    BY <1>1, <1>6 DEF MirrorInv, Copying, Running
  <2>. QED BY <1>1, <1>2, <2>1 DEF Erasing, vars, stores, Copies
<1>. QED BY <1>1, <1>3, <1>4, <1>5, <1>6 DEF MirrorInv

\* A request takes a snapshot of memories of one namespace.
LEMMA SnapshotKeeps ==
    ASSUME MirrorInv, NEW j \in Jobs, NEW r, JobOK(r), Becomes(j, r), r.op \in Copies,
           \A m \in DOMAIN r.snap : KnownIn(m, r.snap[m].tag) /\ m \in DOMAIN points \union DOMAIN rows,
           r.op = "rebuild" => DOMAIN r.snap \subseteq DOMAIN rows,
           raced' = (raced \/ OthersBusy(j)), UNCHANGED <<vars, history>>
    PROVE  MirrorInv'
<1>. USE DEF history
<1>0. TypeOK /\ JobsOK /\ HistoryOK /\ Owned /\ OneNamespace
  BY DEF MirrorInv
<1>1. JobsOK' /\ job'[j] = r /\ (\A k \in Jobs \ {j} : job'[k] = job[k])
  BY <1>0, JobMoves
<1>2. \A c \in Calls : Batch(c)' = Batch(c) /\ ToStore(c)' = ToStore(c) /\ pc'[c] = pc[c] /\ tag'[c] = tag[c]
  BY CallsStandStill DEF vars
<1>3. TypeOK' /\ HistoryOK'
  BY <1>0 DEF vars, stores, locals, TypeOK, HistoryOK
<1>4. Owned'
  BY <1>0, <1>1, <1>2 DEF vars, stores, Owned, Copies
<1>5. OneNamespace'
  <2>1. ASSUME NEW n \in Memories, NEW u \in Tags, KnownIn(n, u)' PROVE KnownIn(n, u)
    BY <1>1, <1>2, <2>1 DEF KnownIn, vars, stores, Copies
  <2>. QED BY <1>0, <2>1 DEF OneNamespace
<1>6. ASSUME ~raced' PROVE Erasing'
  <2>1. Erasing /\ ~OthersBusy(j)
    BY <1>6 DEF MirrorInv
  <2>2. (\A c \in Calls : pc[c] = "idle") /\ \A k \in Jobs \ {j} : job[k].op = "idle"
    BY <2>1 DEF OthersBusy
  <2>3. DOMAIN r.snap \intersect erased = {}
    BY <2>1 DEF Erasing
  <2>. QED BY <1>1, <1>2, <2>1, <2>2, <2>3 DEF Erasing, vars, stores, Copies
<1>. QED BY <1>1, <1>3, <1>4, <1>5, <1>6 DEF MirrorInv

\* The points of a snapshot, or some of them, are written back.
LEMMA OverwritingKeeps ==
    ASSUME MirrorInv, NEW j \in Jobs, job[j].op = "rebuild", Becomes(j, Idle), NEW S \in SUBSET DOMAIN job[j].snap,
           points' = Overwritten([m \in S |-> job[j].snap[m]]),
           NotesRace(j), lost' \subseteq lost, UNCHANGED <<rows, evidence, minted, locals, failed, asked, erased>>
    PROVE  MirrorInv'
<1>0. TypeOK /\ JobsOK /\ HistoryOK /\ Owned /\ OneNamespace /\ JobOK(job[j])
  BY DEF MirrorInv, JobsOK
<1>1. JobsOK' /\ job'[j] = Idle /\ (\A k \in Jobs \ {j} : job'[k] = job[k]) /\ Idle.op = "idle"
  BY <1>0, JobMoves, IdleIsTyped
<1>2. \A c \in Calls : Batch(c)' = Batch(c) /\ ToStore(c)' = ToStore(c) /\ pc'[c] = pc[c] /\ tag'[c] = tag[c]
  BY CallsStandStill
<1>3. /\ DOMAIN points' = DOMAIN points \union S
      /\ \A m \in DOMAIN points' : points'[m] = IF m \in S THEN job[j].snap[m] ELSE points[m]
      /\ points' = [m \in DOMAIN points' |-> points'[m]]
  BY DEF Overwritten
<1>4. TypeOK' /\ HistoryOK'
  <2>1. \A m \in S : job[j].snap[m] \in Point /\ m \in Memories
    BY <1>0 DEF JobOK
  <2>2. points' \in [DOMAIN points' -> Point] /\ DOMAIN points' \subseteq Memories
    BY <1>0, <1>3, <2>1 DEF TypeOK
  <2>. QED BY <1>0, <2>2 DEF locals, TypeOK, HistoryOK, NotesRace
<1>5. Owned'
  BY <1>0, <1>1, <1>2, <1>3 DEF Owned, Copies
<1>6. OneNamespace'
  <2>1. ASSUME NEW n \in Memories, NEW u \in Tags, KnownIn(n, u)' PROVE KnownIn(n, u)
    BY <1>1, <1>2, <1>3, <2>1 DEF KnownIn, Copies
  <2>. QED BY <1>0, <2>1 DEF OneNamespace
<1>7. ASSUME ~raced' PROVE Erasing'
  <2>1. Erasing /\ Copying' \subseteq Copying /\ j \in Copying
    BY <1>1, <1>7 DEF MirrorInv, NotesRace, Copying, Running
  <2>2. S \intersect erased = {} /\ S \subseteq DOMAIN rows
    BY <2>1 DEF Erasing, Copies
  <2>3. \A k \in Jobs : job[k].op = "forget" => job[k].step \notin {2, 3}
    BY <2>1 DEF Erasing
  <2>. QED BY <1>1, <1>2, <1>3, <2>1, <2>2, <2>3 DEF Erasing, Copies
<1>. QED BY <1>1, <1>4, <1>5, <1>6, <1>7 DEF MirrorInv

\* A row of a snapshot is inserted.
LEMMA InsertingKeeps ==
    ASSUME MirrorInv, NEW j \in Jobs, NEW n \in Memories, BackfillRow(j, n)
    PROVE  MirrorInv'
<1>. USE DEF history
<1>. DEFINE r == [job[j] EXCEPT !.snap = [k \in DOMAIN job[j].snap \ {n} |-> job[j].snap[k]]]
<1>0. TypeOK /\ JobsOK /\ HistoryOK /\ Owned /\ OneNamespace /\ JobOK(job[j])
  BY DEF MirrorInv, JobsOK
<1>1. /\ job[j].op = "backfill" /\ n \in DOMAIN job[j].snap
      /\ rows' = RowInserted(n, job[j].snap[n]) /\ Becomes(j, r) /\ NotesRace(j)
      /\ UNCHANGED <<points, evidence, minted, locals, failed, history>>
  BY DEF BackfillRow
<1>2. /\ JobOK(r) /\ r.op = "backfill" /\ DOMAIN r.snap = DOMAIN job[j].snap \ {n}
      /\ \A k \in DOMAIN r.snap : r.snap[k] = job[j].snap[k]
  BY <1>0, <1>1 DEF JobOK
<1>. HIDE DEF r
<1>3. JobsOK' /\ job'[j] = r /\ (\A k \in Jobs \ {j} : job'[k] = job[k])
  BY <1>0, <1>1, <1>2, JobMoves
<1>4. \A c \in Calls : Batch(c)' = Batch(c) /\ ToStore(c)' = ToStore(c) /\ pc'[c] = pc[c] /\ tag'[c] = tag[c]
  BY <1>1, CallsStandStill
<1>5. /\ DOMAIN rows' = DOMAIN rows \union {n}
      /\ \A k \in DOMAIN rows : rows'[k] = rows[k]
      /\ n \notin DOMAIN rows => rows'[n] = job[j].snap[n]
      /\ rows' = [k \in DOMAIN rows' |-> rows'[k]]
  BY <1>1 DEF RowInserted
<1>6. TypeOK' /\ HistoryOK'
  <2>1. job[j].snap[n] \in Row
    BY <1>0, <1>1 DEF JobOK
  <2>2. rows' \in [DOMAIN rows' -> Row] /\ DOMAIN rows' \subseteq Memories
    BY <1>0, <1>5, <2>1 DEF TypeOK
  <2>. QED BY <1>0, <1>1, <2>2 DEF locals, TypeOK, HistoryOK, NotesRace
<1>7. Owned'
  BY <1>0, <1>1, <1>2, <1>3, <1>4, <1>5 DEF Owned, Copies
<1>8. OneNamespace'
  <2>1. ASSUME NEW k \in Memories, NEW u \in Tags, KnownIn(k, u)' PROVE KnownIn(k, u)
    <3>1. CASE k \in DOMAIN rows' /\ rows'[k].tag = u
      BY <1>1, <1>5, <3>1 DEF KnownIn, Copies
    <3>2. CASE \E i \in Jobs : job'[i].op \in Copies /\ k \in DOMAIN job'[i].snap /\ job'[i].snap[k].tag = u
      BY <1>1, <1>2, <1>3, <3>2 DEF KnownIn, Copies
    <3>3. CASE \E i \in Jobs : job'[i].op = "forget" /\ job'[i].victim = k /\ job'[i].tag = u
      BY <1>2, <1>3, <3>3 DEF KnownIn
    <3>. QED BY <1>1, <1>4, <2>1, <3>1, <3>2, <3>3 DEF KnownIn
  <2>. QED BY <1>0, <2>1 DEF OneNamespace
<1>9. ASSUME ~raced' PROVE Erasing'
  <2>1. Erasing /\ Copying' \subseteq Copying /\ j \in Copying
    BY <1>1, <1>2, <1>3, <1>9 DEF MirrorInv, NotesRace, Copying, Running
  <2>2. n \notin erased /\ \A c \in Calls : pc[c] = "idle"
    BY <1>1, <2>1 DEF Erasing, Copies
  <2>3. \A c \in Calls : ToStore(c) = {}
    BY <2>2 DEF ToStore
  <2>4. \A k \in Jobs : job[k].op = "forget" => job[k].step \notin {2, 3}
    BY <2>1 DEF Erasing
  <2>5. \A k \in Jobs : job'[k].op \in Copies =>
           DOMAIN job'[k].snap \intersect erased = {} /\ (job'[k].op = "rebuild" => DOMAIN job'[k].snap \subseteq DOMAIN rows')
    BY <1>1, <1>2, <1>3, <1>5, <2>1 DEF Erasing, Copies
  <2>6. \A k \in Jobs : job'[k].op = "forget" => job'[k].step \notin {2, 3}
    BY <1>2, <1>3, <2>4
  <2>. QED BY <1>1, <1>4, <1>5, <2>1, <2>2, <2>3, <2>5, <2>6 DEF Erasing, Copies
<1>. QED BY <1>3, <1>6, <1>7, <1>8, <1>9 DEF MirrorInv

LEMMA MirrorInvStep == MirrorInv /\ [MirrorNext]_mirrorVars => MirrorInv'
<1>. SUFFICES ASSUME MirrorInv, [MirrorNext]_mirrorVars PROVE MirrorInv'
  OBVIOUS
<1>. USE DEF history
<1>0. TypeOK /\ JobsOK /\ HistoryOK /\ Owned /\ OneNamespace
  BY DEF MirrorInv
<1>1. ASSUME NEW j \in Jobs, NEW t \in Tags, BackfillToPg(j, t) PROVE MirrorInv'
  <2>1. PICK S \in SUBSET Tagged(t) :
           Becomes(j, [Idle EXCEPT !.op = "backfill", !.tag = t, !.snap = [m \in S |-> RowFrom(points[m])]])
    BY <1>1 DEF BackfillToPg
  <2>. DEFINE r == [Idle EXCEPT !.op = "backfill", !.tag = t, !.snap = [m \in S |-> RowFrom(points[m])]]
  <2>2. \A m \in S : m \in DOMAIN points /\ RowFrom(points[m]) \in Row /\ RowFrom(points[m]).tag = points[m].tag
    BY <1>0 DEF Tagged, TypeOK, RowFrom, Point, Row
  <2>3. r.op = "backfill" /\ DOMAIN r.snap = S /\ \A m \in S : r.snap[m] = RowFrom(points[m])
    BY DEF Idle
  <2>4. JobOK(r)
    <3>1. S \subseteq Memories /\ [m \in S |-> RowFrom(points[m])] \in [S -> Row]
      BY <1>0, <2>2 DEF TypeOK
    <3>. QED BY <3>1 DEF JobOK, Idle, Ops, Copies
  <2>5. \A m \in DOMAIN r.snap : KnownIn(m, r.snap[m].tag) /\ m \in DOMAIN points \union DOMAIN rows
    BY <2>2, <2>3 DEF KnownIn
  <2>. HIDE DEF r
  <2>6. r.op \in Copies /\ r.op # "rebuild" /\ Becomes(j, r)
    BY <2>1, <2>3 DEF Copies, r
  <2>. QED BY <1>1, <2>4, <2>5, <2>6, SnapshotKeeps DEF BackfillToPg
<1>2. ASSUME NEW j \in Jobs, NEW t \in Tags, RebuildIndexFromPg(j, t) PROVE MirrorInv'
  <2>. DEFINE r == [Idle EXCEPT !.op = "rebuild", !.tag = t, !.snap = [m \in RowsOf(t) |-> FactOf(rows[m])]]
  <2>2. \A m \in RowsOf(t) : m \in DOMAIN rows /\ FactOf(rows[m]) \in Point /\ FactOf(rows[m]).tag = rows[m].tag
    BY <1>0 DEF RowsOf, TypeOK, FactOf, Point, Row
  <2>3. r.op = "rebuild" /\ DOMAIN r.snap = RowsOf(t) /\ \A m \in RowsOf(t) : r.snap[m] = FactOf(rows[m])
    BY DEF Idle
  <2>4. JobOK(r)
    <3>1. RowsOf(t) \subseteq Memories /\ [m \in RowsOf(t) |-> FactOf(rows[m])] \in [RowsOf(t) -> Point]
      BY <1>0, <2>2 DEF TypeOK
    <3>. QED BY <3>1 DEF JobOK, Idle, Ops, Copies
  <2>5. \A m \in DOMAIN r.snap : KnownIn(m, r.snap[m].tag) /\ m \in DOMAIN rows
    BY <2>2, <2>3 DEF KnownIn
  <2>6. Becomes(j, r)
    BY <1>2 DEF RebuildIndexFromPg
  <2>. HIDE DEF r
  <2>7. r.op \in Copies
    BY <2>3 DEF Copies
  <2>. QED BY <1>2, <2>4, <2>5, <2>6, <2>7, SnapshotKeeps DEF RebuildIndexFromPg
<1>3. ASSUME NEW j \in Jobs, RebuildUpsert(j) PROVE MirrorInv'
  <2>1. job[j].snap = [m \in DOMAIN job[j].snap |-> job[j].snap[m]]
    BY <1>0, <1>3 DEF RebuildUpsert, JobsOK, JobOK
  <2>2. points' = Overwritten([m \in DOMAIN job[j].snap |-> job[j].snap[m]])
    BY <1>3, <2>1 DEF RebuildUpsert
  <2>. QED BY <1>3, <2>2, OverwritingKeeps DEF RebuildUpsert
<1>4. ASSUME NEW j \in Jobs, RebuildFails(j) PROVE MirrorInv'
  BY <1>4, OverwritingKeeps DEF RebuildFails
<1>5. ASSUME NEW j \in Jobs, BackfillEnds(j) PROVE MirrorInv'
  BY <1>5, EndingKeeps DEF BackfillEnds
<1>6. CASE LoseIndex
  <2>1. \A c \in Calls : Batch(c)' = Batch(c) /\ ToStore(c)' = ToStore(c) /\ pc'[c] = pc[c] /\ tag'[c] = tag[c]
    BY <1>6, CallsStandStill DEF LoseIndex
  <2>2. points' = Nothing /\ DOMAIN points' = {}
    BY <1>6 DEF LoseIndex, Nothing
  <2>3. TypeOK' /\ JobsOK' /\ HistoryOK'
    BY <1>0, <1>6, <2>2 DEF LoseIndex, Nothing, locals, TypeOK, JobsOK, JobOK, HistoryOK
  <2>4. Owned'
    BY <1>0, <1>6, <2>1, <2>2 DEF LoseIndex, Owned
  <2>5. OneNamespace'
    <3>1. ASSUME NEW n \in Memories, NEW u \in Tags, KnownIn(n, u)' PROVE KnownIn(n, u)
      BY <1>6, <2>1, <2>2, <3>1 DEF LoseIndex, KnownIn
    <3>. QED BY <1>0, <3>1 DEF OneNamespace
  <2>6. ~raced' => Erasing'
    BY <1>6, <2>1, <2>2 DEF LoseIndex, MirrorInv, Erasing, Copying, Running
  <2>. QED BY <2>3, <2>4, <2>5, <2>6 DEF MirrorInv
<1>7. CASE UNCHANGED mirrorVars
  <2>1. \A c \in Calls : Batch(c)' = Batch(c) /\ ToStore(c)' = ToStore(c)
    BY <1>7, CallsStandStill DEF mirrorVars, vars
  <2>2. TypeOK' /\ JobsOK' /\ HistoryOK'
    BY <1>0, <1>7 DEF mirrorVars, vars, stores, locals, TypeOK, JobsOK, JobOK, HistoryOK
  <2>3. Owned' /\ (~raced' => Erasing')
    BY <1>0, <1>7, <2>1 DEF mirrorVars, vars, stores, locals, MirrorInv, Owned, Erasing, Copying, Running
  <2>4. OneNamespace'
    <3>1. ASSUME NEW n \in Memories, NEW u \in Tags, KnownIn(n, u)' PROVE KnownIn(n, u)
      BY <1>7, <2>1, <3>1 DEF mirrorVars, vars, stores, locals, KnownIn
    <3>. QED BY <1>0, <3>1 DEF OneNamespace
  <2>. QED BY <2>2, <2>3, <2>4 DEF MirrorInv
<1>. QED BY <1>1, <1>2, <1>3, <1>4, <1>5, <1>6, <1>7, IngestKeepsMirrorInv, ForgetKeepsMirrorInv, InsertingKeeps
     DEF MirrorNext, Maintain

LEMMA MirrorInvHolds == MirrorSpec => []MirrorInv
  BY MirrorInvInit, MirrorInvStep, PTL DEF MirrorSpec

-----------------------------------------------------------------------------
(* The theorems.                                                           *)

\* Points, rows, snapshots and requests keep their types, however ingests and
\* maintenance interleave, and an erasure is only ever of a minted memory.
THEOREM MirrorTyped == MirrorSpec => []MirrorTypeOK
<1>1. MirrorInv => MirrorTypeOK
  <2>1. DOMAIN EraseOrder = {1, 2, 3}
    BY DEF EraseOrder
  <2>. QED BY <2>1 DEF MirrorInv, JobsOK, JobOK, HistoryOK, Owned, MirrorTypeOK, Ops, Copies
<1>. QED BY <1>1, MirrorInvHolds, PTL

\* "a forgotten fact can never be resurrected by a later index rebuild"
\* (mod.rs:1608): until a snapshot is overtaken, what was reported erased is in
\* no copy, whatever ingests, rebuilds and backfills follow.
THEOREM ForgottenStays == MirrorSpec => []ForgottenStaysErased
<1>1. MirrorInv => ForgottenStaysErased
  BY DEF MirrorInv, Erasing, Owned, ForgottenStaysErased
<1>. QED BY <1>1, MirrorInvHolds, PTL

\* "a mid-way failure can simply be retried" (mod.rs:1610): the row, which lets a
\* retry through the ownership gate, outlives the vector.
THEOREM ErasureRetryable == MirrorSpec => []ErasureIsRetryable
<1>1. MirrorInv => ErasureIsRetryable
  BY DEF MirrorInv, Erasing, ErasureIsRetryable
<1>. QED BY <1>1, MirrorInvHolds, PTL

\* "never a cross-tenant erasure" (mod.rs:1606): a vector goes only for a request
\* of its own namespace, or with the whole index.
THEOREM ErasureIsScoped == MirrorSpec => ErasureStaysInNamespace
<1>. DEFINE Removed(m) == \E j \in Running("forget") : job[j].victim = m /\ job[j].tag = points[m].tag
<1>1. MirrorInv /\ [MirrorNext]_mirrorVars =>
         [LoseIndex \/ \A m \in DOMAIN points \ DOMAIN points' : Removed(m)]_mirrorVars
  <2>. SUFFICES ASSUME MirrorInv, MirrorNext, ~LoseIndex, NEW m \in DOMAIN points \ DOMAIN points'
                PROVE  Removed(m)
    OBVIOUS
  <2>0. TypeOK /\ JobsOK /\ Owned /\ OneNamespace
    BY DEF MirrorInv
  <2>1. ~Ingest
    <3>1. ASSUME NEW c \in Calls, Step(c) \/ StoreFailure(c) \/ Abort(c) PROVE FALSE
      BY <2>0, <3>1, CallIngests DEF Ingests
    <3>. QED BY <3>1 DEF Ingest, Next, IndexMemories, stores
  <2>2. PICK j \in Jobs : Maintain(j)
    BY SMTT(40), <2>1 DEF MirrorNext
  <2>3. ForgetStep(j) \/ ForgetFails(j)
    BY <2>2 DEF Maintain, ForgetMemory, BackfillToPg, BackfillRow, BackfillEnds, RebuildIndexFromPg,
       RebuildUpsert, RebuildFails, Overwritten, vars, stores
  <2>4. /\ job[j].op = "forget" /\ job[j].step \in {1, 2, 3} /\ job[j].tag \in Tags
        /\ Erases(EraseOrder[job[j].step], job[j].victim, job[j].tag)
    BY <2>0, <2>3 DEF ForgetStep, ForgetFails, JobsOK, JobOK, stores
  <2>5. job[j].victim = m
    <3>. DEFINE k == job[j].step
    <3>1. /\ k = 1 => points' = [n \in DOMAIN points \ {job[j].victim} |-> points[n]]
          /\ k \in {2, 3} => UNCHANGED points
      BY <2>0, <2>4, ErasesShrinks DEF Owned
    <3>2. UNCHANGED points \/ points' = [n \in DOMAIN points \ {job[j].victim} |-> points[n]]
      BY <2>4, <3>1
    <3>. QED BY <3>2
  <2>6. m \in Memories /\ points[m].tag \in Tags
    BY <2>0 DEF TypeOK, Point
  <2>7. KnownIn(m, points[m].tag) /\ KnownIn(m, job[j].tag)
    BY <2>4, <2>5 DEF KnownIn
  <2>8. job[j].tag = points[m].tag
    BY <2>0, <2>4, <2>6, <2>7 DEF OneNamespace
  <2>. QED BY <2>4, <2>5, <2>8 DEF Running
<1>. QED BY <1>1, MirrorInvHolds, PTL DEF MirrorSpec, ErasureStaysInNamespace

-----------------------------------------------------------------------------
(* The index is derived from the rows.                                     *)
(*                                                                         *)
(* One document is ingested at a time.  Then the index is ahead of the     *)
(* rows by what the call has yet to insert and to mark, and behind them by *)
(* the memories whose erasure is half done.                                *)

Retired(p) == [p EXCEPT !.is_latest = FALSE]

\* The facts for which call c has still to mark the row they supersede.
ToMark(c) == {m \in Superseding(c) : \/ pc[c] \in {"supersede", "pg_insert"}
                                     \/ pc[c] = "pg_mark" /\ m \in todo[c]}

Unmarked(m) == \E c \in Calls : \E n \in ToMark(c) : plan[c][n].supersedes = m

HalfErased(m) == \E j \in Jobs : /\ job[j].op = "forget" /\ job[j].step \in {2, 3}
                                 /\ job[j].victim = m

Accounted == \A m \in DOMAIN points : m \in DOMAIN rows \/ \E c \in Calls : m \in ToStore(c)

Indexed == \A m \in DOMAIN rows : rows[m].tag \notin lost => m \in DOMAIN points \/ HalfErased(m)

\* A point is what its row says, or a retired one whose row is yet to be marked.
Agrees(m) == \/ points[m] = FactOf(rows[m])
             \/ Unmarked(m) /\ points[m] = Retired(FactOf(rows[m]))

Agreeing == \A m \in DOMAIN points \intersect DOMAIN rows : Agrees(m)

\* A call links its facts to memories that are not of its batch.
LinksAbroad(c) ==
    /\ \A m \in DOMAIN near[c] : near[c][m] \intersect Batch(c) = {}
    /\ \A m \in DOMAIN plan[c] : plan[c][m].supersedes \notin Batch(c)

\* How far call c is with the index.
Indexing(c) ==
    /\ pc[c] \in {"search", "plain"} => Batch(c) \intersect DOMAIN points = {}
    /\ pc[c] \in {"flip", "supersede"} => /\ Batch(c) \intersect DOMAIN points \subseteq Plain(c)
                                          /\ tag[c] \notin lost => Plain(c) \subseteq DOMAIN points
    /\ pc[c] = "pg_insert" => /\ todo[c] \subseteq Kept(c)
                              /\ tag[c] \notin lost => todo[c] \subseteq DOMAIN points
    /\ pc[c] = "pg_mark" => todo[c] \subseteq Superseding(c)
    /\ \A m \in ToStore(c) \intersect DOMAIN points : points[m] = PointOf(c, m)
    /\ pc[c] \in {"supersede"} \union MirrorPhases =>
          \A m \in Superseded(c) \intersect DOMAIN points : ~points[m].is_latest

\* A copy has lost nothing yet to another request.
Snapshots ==
    /\ \A j \in Running("backfill") : DOMAIN job[j].snap \subseteq DOMAIN rows
    /\ \A j \in Running("rebuild") : /\ DOMAIN job[j].snap = RowsOf(job[j].tag)
                                     /\ \A m \in DOMAIN job[j].snap : job[j].snap[m] = FactOf(rows[m])

Derived ==
    /\ Accounted /\ Indexed /\ Agreeing /\ Snapshots
    /\ \A c \in Calls : LinksAbroad(c) /\ Indexing(c)

DerivedInv == MirrorInv /\ (~failed /\ ~raced => Derived)

LEMMA PointOfItsRow ==
    ASSUME NEW c, NEW m
    PROVE  FactOf(RowOf(c, m)) = PointOf(c, m)
  BY DEF FactOf, RowOf, PointOf

LEMMA FactsAreTyped ==
    ASSUME NEW row \in Row
    PROVE  FactOf(row) \in Point /\ FactOf(row).tag = row.tag
  BY DEF Row, Point, FactOf

LEMMA SamePoint ==
    ASSUME NEW p \in Point, NEW q \in Point, p.tag = q.tag, p.is_latest = q.is_latest,
           p.needs_review = q.needs_review, p.supersedes = q.supersedes, p.extends = q.extends
    PROVE  p = q
  BY DEF Point

LEMMA RetiredPoint ==
    ASSUME NEW p \in Point
    PROVE  /\ Retired(p) \in Point /\ Retired(p).is_latest = FALSE
           /\ Retired(p).tag = p.tag /\ Retired(p).needs_review = p.needs_review
           /\ Retired(p).supersedes = p.supersedes /\ Retired(p).extends = p.extends
  BY DEF Point, Retired

LEMMA MarkingRetires ==
    ASSUME NEW row \in Row, NEW new \in Memories
    PROVE  FactOf([row EXCEPT !.is_latest = FALSE, !.superseded_by = new]) = Retired(FactOf(row))
<1>. DEFINE marked == [row EXCEPT !.is_latest = FALSE, !.superseded_by = new]
<1>1. /\ marked \in Row /\ marked.is_latest = FALSE
      /\ marked.tag = row.tag /\ marked.needs_review = row.needs_review
      /\ marked.supersedes = row.supersedes /\ marked.extends = row.extends
  BY DEF Row
<1>. HIDE DEF marked
<1>2. FactOf(marked) \in Point /\ FactOf(row) \in Point
  BY <1>1, FactsAreTyped
<1>3. Retired(FactOf(row)) \in Point /\ FactOf(marked).is_latest = Retired(FactOf(row)).is_latest
  BY <1>1, <1>2, RetiredPoint DEF FactOf
<1>4. FactOf(marked) = Retired(FactOf(row))
  <2>1. PICK f \in Point : f = FactOf(row)
    BY <1>2
  <2>2. PICK q \in Point : q = FactOf(marked)
    BY <1>2
  <2>3. f.tag = row.tag /\ f.needs_review = row.needs_review /\ f.supersedes = row.supersedes /\ f.extends = row.extends
    BY <2>1 DEF FactOf
  <2>4. q.tag = row.tag /\ q.needs_review = row.needs_review /\ q.supersedes = row.supersedes /\ q.extends = row.extends
    BY <1>1, <2>2 DEF FactOf
  <2>5. q = Retired(f)
    <3>1. PICK r \in Point : r = Retired(f)
      BY <1>3, <2>1
    <3>2. /\ r.is_latest = q.is_latest /\ r.tag = q.tag /\ r.needs_review = q.needs_review
          /\ r.supersedes = q.supersedes /\ r.extends = q.extends
      BY <1>3, <2>1, <2>2, <2>3, <2>4, <3>1, RetiredPoint
    <3>. QED BY <3>1, <3>2, SamePoint
  <2>. QED BY <2>1, <2>2, <2>5
<1>. QED BY <1>4 DEF marked

LEMMA RetiredOnce ==
    ASSUME NEW p \in Point
    PROVE  /\ ~p.is_latest => Retired(p) = p
           /\ Retired(Retired(p)) = Retired(p)
<1>1. PICK r \in Point : r = Retired(p)
  BY RetiredPoint
<1>2. PICK q \in Point : q = Retired(r)
  BY RetiredPoint
<1>3. /\ r.is_latest = FALSE /\ q.is_latest = FALSE
      /\ r.tag = p.tag /\ r.needs_review = p.needs_review /\ r.supersedes = p.supersedes /\ r.extends = p.extends
      /\ q.tag = r.tag /\ q.needs_review = r.needs_review /\ q.supersedes = r.supersedes /\ q.extends = r.extends
  BY <1>1, <1>2, RetiredPoint
<1>4. q = r
  BY <1>3, SamePoint
<1>5. ~p.is_latest => r = p
  <2>1. p.is_latest \in BOOLEAN
    BY DEF Point
  <2>. QED BY <1>3, <2>1, SamePoint
<1>. QED BY <1>1, <1>2, <1>4, <1>5

\* Call c is the only one, no request holds a snapshot, and none moves.
Alone(c) ==
    /\ TypeOK /\ Owned /\ Erasing /\ Derived
    /\ \A d \in Calls : d = c
    /\ UNCHANGED <<job, lost>>

\* What the invariant says of the index, after a step of c.
Advanced(c) == Accounted' /\ Indexed' /\ Agreeing' /\ LinksAbroad(c)' /\ Indexing(c)'

LEMMA AloneKnows ==
    ASSUME NEW c \in Calls, Alone(c)
    PROVE  /\ LocalsOK /\ StoresOK
           /\ LinksAbroad(c) /\ Indexing(c) /\ Accounted /\ Indexed /\ Agreeing
           /\ ToStore(c) \intersect DOMAIN rows = {}
           /\ \A m \in DOMAIN points : m \in DOMAIN rows \/ m \in ToStore(c)
           /\ \A m : Unmarked(m) <=> \E n \in ToMark(c) : plan[c][n].supersedes = m
           /\ \A m : (Unmarked(m))' <=> \E n \in ToMark(c)' : plan'[c][n].supersedes = m
           /\ \A m : (HalfErased(m))' <=> HalfErased(m)
           /\ ToStore(c) \subseteq Batch(c) /\ None \notin Batch(c)
<1>1. LocalsOK /\ StoresOK
  BY TypeOKSplits DEF Alone
<1>2. \A d \in Calls : d = c
  BY DEF Alone
<1>3. ToStore(c) \subseteq Batch(c) /\ None \notin Batch(c)
  BY <1>1, NoneAssumption DEF ToStore, Batch, LocalsOK
<1>4. ToStore(c) \intersect DOMAIN rows = {}
  BY DEF Alone, Erasing
<1>5. LinksAbroad(c) /\ Indexing(c) /\ Accounted /\ Indexed /\ Agreeing
  BY DEF Alone, Derived
<1>6. \A m \in DOMAIN points : m \in DOMAIN rows \/ m \in ToStore(c)
  BY <1>2, <1>5 DEF Accounted
<1>7. \A m : Unmarked(m) <=> \E n \in ToMark(c) : plan[c][n].supersedes = m
  BY <1>2 DEF Unmarked
<1>8. \A m : (Unmarked(m))' <=> \E n \in ToMark(c)' : plan'[c][n].supersedes = m
  BY <1>2 DEF Unmarked
<1>9. \A m : (HalfErased(m))' <=> HalfErased(m)
  BY DEF Alone, HalfErased
<1>. QED BY <1>1, <1>3, <1>4, <1>5, <1>6, <1>7, <1>8, <1>9

\* The index stands still.
LEMMA StandingStillDerives ==
    ASSUME NEW c \in Calls, Alone(c), UNCHANGED <<points, rows>>,
           ToStore(c) \intersect DOMAIN points \subseteq ToStore(c)',
           \A n \in ToMark(c) : n \in ToMark(c)' /\ plan'[c][n].supersedes = plan[c][n].supersedes
    PROVE  Accounted' /\ Indexed' /\ Agreeing'
<1>1. Accounted'
  BY AloneKnows DEF Accounted
<1>2. Indexed'
  BY AloneKnows DEF Indexed, Alone
<1>3. Agreeing'
  <2>. SUFFICES ASSUME NEW m \in DOMAIN points \intersect DOMAIN rows
                PROVE  Agrees(m)'
    BY DEF Agreeing, Alone
  <2>1. Agrees(m)
    BY AloneKnows DEF Agreeing
  <2>2. Unmarked(m) => (Unmarked(m))'
    BY AloneKnows
  <2>. QED BY <2>1, <2>2 DEF Agrees
<1>. QED BY <1>1, <1>2, <1>3

\* Facts of the batch are stored.
LEMMA StoringDerives ==
    ASSUME NEW c \in Calls, Alone(c), NEW S, S \subseteq ToStore(c), points' = Upserted(c, S), UNCHANGED rows,
           (ToStore(c) \intersect DOMAIN points) \union S \subseteq ToStore(c)',
           \A n \in ToMark(c) : n \in ToMark(c)' /\ plan'[c][n].supersedes = plan[c][n].supersedes
    PROVE  /\ Accounted' /\ Indexed' /\ Agreeing'
           /\ DOMAIN points' = DOMAIN points \union S
           /\ \A m \in S : points'[m] = PointOf(c, m)
           /\ \A m \in DOMAIN points \ S : points'[m] = points[m]
<1>1. /\ DOMAIN points' = DOMAIN points \union S
      /\ \A m \in S : points'[m] = PointOf(c, m)
      /\ \A m \in DOMAIN points \ S : points'[m] = points[m]
  BY DEF Upserted
<1>2. Accounted'
  BY <1>1, AloneKnows DEF Accounted
<1>3. Indexed'
  BY <1>1, AloneKnows DEF Indexed, Alone
<1>4. Agreeing'
  <2>. SUFFICES ASSUME NEW m \in DOMAIN points' \intersect DOMAIN rows
                PROVE  Agrees(m)'
    BY DEF Agreeing, Alone
  <2>1. m \notin S /\ m \in DOMAIN points /\ points'[m] = points[m]
    BY <1>1, AloneKnows
  <2>2. Agrees(m)
    BY <2>1, AloneKnows DEF Agreeing
  <2>3. Unmarked(m) => (Unmarked(m))'
    BY AloneKnows
  <2>. QED BY <2>1, <2>2, <2>3 DEF Agrees
<1>. QED BY <1>1, <1>2, <1>3, <1>4
LEMMA GoingKeepsLinks ==
    ASSUME LocalsOK, NEW c \in Calls, NEW phase, NEW S \in SUBSET Kept(c), Goes(c, phase, S), LinksAbroad(c)
    PROVE  /\ LinksAbroad(c)'
           /\ \A m : PointOf(c, m)' = PointOf(c, m)
<1>1. tag'[c] = tag[c] /\ near'[c] = near[c] /\ plan'[c] = plan[c] /\ Batch(c)' \subseteq Batch(c)
  BY GoingKeepsPlan
<1>2. LinksAbroad(c)'
  BY <1>1 DEF LinksAbroad
<1>. QED BY <1>1, <1>2 DEF PointOf

LEMMA EndedDerives ==
    ASSUME LocalsOK, NEW c \in Calls, Ends(c)
    PROVE  LinksAbroad(c)' /\ Indexing(c)' /\ ToStore(c)' = {}
<1>1. pc'[c] = "idle" /\ DOMAIN near'[c] = {} /\ DOMAIN plan'[c] = {}
  BY DEF LocalsOK, Ends, Nothing
<1>2. ToStore(c)' = {}
  BY <1>1 DEF ToStore
<1>3. LinksAbroad(c)'
  BY <1>1 DEF LinksAbroad
<1>4. Indexing(c)'
  BY <1>1, <1>2 DEF Indexing, MirrorPhases
<1>. QED BY <1>2, <1>3, <1>4

LEMMA SearchingDerives ==
    ASSUME NEW c \in Calls, Alone(c), NEW m \in Memories, SearchNeighbors(c, m)
    PROVE  Advanced(c)
<1>0. LocalsOK /\ LinksAbroad(c) /\ Indexing(c) /\ pc[c] = "search" /\ m \in todo[c]
  BY AloneKnows DEF SearchNeighbors
<1>1. PICK S \in SUBSET Active(tag[c]) :
         near' = [near EXCEPT ![c] = [k \in DOMAIN near[c] \union {m} |-> IF k = m THEN S ELSE near[c][k]]]
  BY DEF SearchNeighbors
<1>2. /\ DOMAIN near'[c] = DOMAIN near[c] \union {m}
      /\ \A k \in DOMAIN near'[c] : near'[c][k] = IF k = m THEN S ELSE near[c][k]
      /\ todo'[c] = todo[c] \ {m} /\ pc' = pc /\ tag' = tag /\ plan' = plan /\ UNCHANGED <<points, rows>>
  BY <1>0, <1>1 DEF SearchNeighbors, LocalsOK, stores
<1>3. Batch(c)' = Batch(c)
  BY <1>0, <1>2 DEF Batch
<1>4. ToStore(c)' = ToStore(c) /\ ToStore(c) = Batch(c) /\ ToMark(c) = {}
  BY <1>0, <1>2, <1>3 DEF ToStore, ToMark
<1>5. Batch(c) \intersect DOMAIN points = {}
  BY <1>0 DEF Indexing
<1>6. LinksAbroad(c)'
  <2>1. S \subseteq DOMAIN points
    BY <1>1 DEF Active, Tagged
  <2>. QED BY <1>0, <1>2, <1>3, <1>5, <2>1 DEF LinksAbroad
<1>7. Indexing(c)'
  BY <1>0, <1>2, <1>3, <1>4, <1>5 DEF Indexing, MirrorPhases
<1>8. Accounted' /\ Indexed' /\ Agreeing'
  BY <1>2, <1>4, StandingStillDerives
<1>. QED BY <1>6, <1>7, <1>8 DEF Advanced

LEMMA ReconcilingDerives ==
    ASSUME NEW c \in Calls, Alone(c), Reconcile(c)
    PROVE  Advanced(c)
<1>0. LocalsOK /\ LinksAbroad(c) /\ Indexing(c) /\ pc[c] = "search" /\ todo[c] = {} /\ None \notin Batch(c)
  BY AloneKnows DEF Reconcile
<1>1. PICK q \in ClassifiedPlans(near[c]) \union {DegradedPlan(near[c])} : plan' = [plan EXCEPT ![c] = q]
  BY DEF Reconcile
<1>2. /\ DOMAIN q = DOMAIN near[c]
      /\ \A k \in DOMAIN near[c] : q[k].supersedes \in near[c][k] \union {None}
  BY <1>0, PlansLinkToNeighbours DEF LocalsOK
<1>3. /\ plan'[c] = q /\ DOMAIN near'[c] = {} /\ todo'[c] = {} /\ pc'[c] = "plain" /\ tag' = tag
      /\ UNCHANGED <<points, rows>>
  BY <1>0, <1>1 DEF Reconcile, LocalsOK, Nothing, stores
<1>4. Batch(c)' \subseteq Batch(c)
  BY <1>2, <1>3 DEF Batch
<1>5. Batch(c) \intersect DOMAIN points = {} /\ ToStore(c) \subseteq Batch(c) /\ ToStore(c)' = Batch(c)' /\ ToMark(c) = {}
  BY <1>0, <1>3 DEF Indexing, ToStore, ToMark
<1>6. LinksAbroad(c)'
  BY <1>0, <1>2, <1>3, <1>4 DEF LinksAbroad, Batch
<1>7. Indexing(c)'
  BY <1>3, <1>4, <1>5 DEF Indexing, MirrorPhases
<1>8. Accounted' /\ Indexed' /\ Agreeing'
  BY <1>3, <1>5, StandingStillDerives
<1>. QED BY <1>6, <1>7, <1>8 DEF Advanced

\* The Qdrant writes are done, and every fact the call keeps is in the index.
LEMMA MirroringDerives ==
    ASSUME HasDb, LocalsOK, NEW c \in Calls, Mirrors(c), LinksAbroad(c), pc[c] # "idle", UNCHANGED lost,
           tag[c] \notin lost => Kept(c) \subseteq DOMAIN points',
           \A m \in Kept(c) \intersect DOMAIN points' : points'[m] = PointOf(c, m),
           \A m \in Superseded(c) \intersect DOMAIN points' : ~points'[m].is_latest
    PROVE  /\ LinksAbroad(c)' /\ Indexing(c)'
           /\ pc'[c] = "pg_insert" /\ ToStore(c)' = Kept(c) /\ ToMark(c)' = Superseding(c) /\ plan'[c] = plan[c]
<1>1. Goes(c, "pg_insert", Kept(c))
  BY DEF Mirrors
<1>2. /\ pc'[c] = "pg_insert" /\ todo'[c] = Kept(c) /\ tag'[c] = tag[c] /\ plan'[c] = plan[c]
      /\ Kept(c)' = Kept(c) /\ Superseding(c)' = Superseding(c) /\ Superseded(c)' = Superseded(c)
  BY <1>1, GoingKeepsPlan
<1>3. LinksAbroad(c)' /\ \A m : PointOf(c, m)' = PointOf(c, m)
  BY <1>1, GoingKeepsLinks
<1>4. ToStore(c)' = Kept(c) /\ ToMark(c)' = Superseding(c)
  BY <1>2 DEF ToStore, ToMark, Batch
<1>5. Indexing(c)'
  BY <1>2, <1>3, <1>4 DEF Indexing
<1>. QED BY <1>2, <1>3, <1>4, <1>5
LEMMA WritingPlainDerives ==
    ASSUME HasDb, NEW c \in Calls, Alone(c), WritePlain(c)
    PROVE  Advanced(c)
<1>0. LocalsOK /\ LinksAbroad(c) /\ Indexing(c) /\ pc[c] = "plain" /\ UNCHANGED <<rows, lost>>
  BY AloneKnows DEF WritePlain, Alone
<1>1. points' = Upserted(c, Plain(c)) /\ (IF Superseding(c) = {} THEN Mirrors(c) ELSE Goes(c, "flip", {}))
  BY DEF WritePlain
<1>2. ToStore(c) = Batch(c) /\ ToMark(c) = {} /\ Batch(c) \intersect DOMAIN points = {}
  BY <1>0 DEF ToStore, ToMark, Indexing
<1>3. Plain(c) \subseteq Kept(c) /\ Kept(c) \subseteq DOMAIN plan[c] /\ DOMAIN plan[c] \subseteq Batch(c)
  BY BatchParts
<1>4. /\ DOMAIN points' = DOMAIN points \union Plain(c)
      /\ \A m \in Plain(c) : points'[m] = PointOf(c, m)
  BY <1>1 DEF Upserted
<1>5. CASE Superseding(c) = {}
  <2>1. Kept(c) = Plain(c) /\ Superseded(c) = {}
    BY <1>5 DEF Plain, Superseded
  <2>2. /\ LinksAbroad(c)' /\ Indexing(c)' /\ ToStore(c)' = Kept(c)
    BY <1>0, <1>1, <1>4, <1>5, <2>1, MirroringDerives
  <2>3. Accounted' /\ Indexed' /\ Agreeing'
    BY <1>0, <1>1, <1>2, <1>3, <2>1, <2>2, StoringDerives
  <2>. QED BY <2>2, <2>3 DEF Advanced
<1>6. CASE Superseding(c) # {}
  <2>1. Goes(c, "flip", {}) /\ {} \in SUBSET Kept(c)
    BY <1>1, <1>6
  <2>2. /\ pc'[c] = "flip" /\ tag'[c] = tag[c] /\ plan'[c] = plan[c]
        /\ Plain(c)' = Plain(c) /\ Batch(c)' \subseteq Batch(c)
    BY <1>0, <2>1, GoingKeepsPlan
  <2>3. LinksAbroad(c)' /\ \A m : PointOf(c, m)' = PointOf(c, m)
    BY <1>0, <2>1, GoingKeepsLinks
  <2>4. ToStore(c)' = Batch(c)' /\ Plain(c) \subseteq Batch(c)'
    BY <1>3, <2>2 DEF ToStore, Batch
  <2>5. Batch(c)' \intersect DOMAIN points' \subseteq Plain(c)
    BY <1>2, <1>4, <2>2
  <2>6. Indexing(c)'
    BY <1>4, <2>2, <2>3, <2>4, <2>5 DEF Indexing, MirrorPhases
  <2>7. Accounted' /\ Indexed' /\ Agreeing'
    BY <1>0, <1>1, <1>2, <1>3, <2>4, StoringDerives
  <2>. QED BY <2>3, <2>6, <2>7 DEF Advanced
<1>. QED BY <1>5, <1>6

LEMMA FlippingDerives ==
    ASSUME NEW c \in Calls, Alone(c), Flip(c)
    PROVE  Advanced(c)
<1>0. LocalsOK /\ StoresOK /\ LinksAbroad(c) /\ Indexing(c) /\ pc[c] = "flip" /\ UNCHANGED <<rows, lost>>
  BY AloneKnows DEF Flip, Alone
<1>1. Goes(c, "supersede", {}) /\ {} \in SUBSET Kept(c)
  BY DEF Flip
<1>2. /\ pc'[c] = "supersede" /\ tag'[c] = tag[c] /\ plan'[c] = plan[c]
      /\ Plain(c)' = Plain(c) /\ Superseding(c)' = Superseding(c) /\ Superseded(c)' = Superseded(c)
      /\ Batch(c)' \subseteq Batch(c)
  BY <1>0, <1>1, GoingKeepsPlan
<1>3. LinksAbroad(c)' /\ \A m : PointOf(c, m)' = PointOf(c, m)
  BY <1>0, <1>1, GoingKeepsLinks
<1>4. /\ ToStore(c) = Batch(c) /\ ToStore(c)' = Batch(c)' /\ ToMark(c) = {} /\ ToMark(c)' = Superseding(c)
      /\ Plain(c) \subseteq DOMAIN plan[c] /\ DOMAIN plan[c] \subseteq Batch(c)'
  BY <1>0, <1>2, BatchParts DEF ToStore, ToMark, Batch
<1>5. /\ DOMAIN points' = DOMAIN points
      /\ \A m \in DOMAIN points : points'[m] = IF m \in Superseded(c) THEN Retired(points[m]) ELSE points[m]
  BY DEF Flip, Demoted, Retired
<1>6. Superseded(c) \intersect Batch(c) = {}
  BY <1>0 DEF LinksAbroad, Superseded, Superseding, Kept
<1>7. Batch(c) \intersect DOMAIN points \subseteq Plain(c)
  BY <1>0 DEF Indexing
<1>8. Indexing(c)'
  <2>1. \A m \in ToStore(c)' \intersect DOMAIN points' : points'[m] = PointOf(c, m)'
    BY <1>0, <1>2, <1>3, <1>4, <1>5, <1>6 DEF Indexing
  <2>2. \A m \in Superseded(c) \intersect DOMAIN points' : ~points'[m].is_latest
    BY <1>0, <1>5, RetiredPoint DEF StoresOK
  <2>3. Batch(c)' \intersect DOMAIN points' \subseteq Plain(c)
    BY <1>2, <1>5, <1>7
  <2>4. tag[c] \notin lost => Plain(c) \subseteq DOMAIN points'
    BY <1>0, <1>5 DEF Indexing
  <2>. QED BY <1>0, <1>2, <2>1, <2>2, <2>3, <2>4 DEF Indexing
<1>9. Accounted'
  <2>1. \A m \in DOMAIN points : m \in DOMAIN rows \/ m \in Batch(c)'
    BY <1>4, <1>7, AloneKnows
  <2>. QED BY <1>0, <1>4, <1>5, <2>1 DEF Accounted
<1>10. Indexed'
  BY <1>0, <1>5, AloneKnows DEF Indexed
<1>11. Agreeing'
  <2>. SUFFICES ASSUME NEW m \in DOMAIN points \intersect DOMAIN rows
                PROVE  Agrees(m)'
    BY <1>0, <1>5 DEF Agreeing
  <2>1. points[m] = FactOf(rows[m])
    BY <1>4, AloneKnows DEF Agreeing, Agrees
  <2>2. m \in Superseded(c) => (Unmarked(m))'
    BY <1>2, <1>4, AloneKnows DEF Superseded
  <2>3. points'[m] = IF m \in Superseded(c) THEN Retired(FactOf(rows[m])) ELSE FactOf(rows[m])
    BY <1>5, <2>1
  <2>. QED BY <1>0, <2>2, <2>3 DEF Agrees
<1>. QED BY <1>3, <1>8, <1>9, <1>10, <1>11 DEF Advanced

LEMMA SupersedingDerives ==
    ASSUME HasDb, NEW c \in Calls, Alone(c), WriteSuperseding(c)
    PROVE  Advanced(c)
<1>0. LocalsOK /\ LinksAbroad(c) /\ Indexing(c) /\ pc[c] = "supersede" /\ UNCHANGED <<rows, lost>>
  BY AloneKnows DEF WriteSuperseding, Alone
<1>1. points' = Upserted(c, Superseding(c)) /\ Mirrors(c)
  BY DEF WriteSuperseding
<1>2. /\ Plain(c) \union Superseding(c) = Kept(c) /\ Kept(c) \subseteq Batch(c)
      /\ ToStore(c) = Batch(c) /\ ToMark(c) = Superseding(c)
  BY <1>0, BatchParts DEF ToStore, ToMark
<1>3. /\ DOMAIN points' = DOMAIN points \union Superseding(c)
      /\ \A m \in Superseding(c) : points'[m] = PointOf(c, m)
      /\ \A m \in DOMAIN points \ Superseding(c) : points'[m] = points[m]
  BY <1>1 DEF Upserted
<1>4. tag[c] \notin lost => Kept(c) \subseteq DOMAIN points'
  BY <1>0, <1>2, <1>3 DEF Indexing
<1>5. \A m \in Kept(c) \intersect DOMAIN points' : points'[m] = PointOf(c, m)
  BY <1>0, <1>2, <1>3 DEF Indexing
<1>6. \A m \in Superseded(c) \intersect DOMAIN points' : ~points'[m].is_latest
  <2>1. Superseded(c) \intersect Batch(c) = {}
    BY <1>0 DEF LinksAbroad, Superseded, Superseding, Kept
  <2>. QED BY <1>0, <1>2, <1>3, <2>1 DEF Indexing
<1>7. /\ LinksAbroad(c)' /\ Indexing(c)' /\ ToStore(c)' = Kept(c) /\ ToMark(c)' = Superseding(c) /\ plan'[c] = plan[c]
  BY <1>0, <1>1, <1>4, <1>5, <1>6, MirroringDerives
<1>8. ToStore(c) \intersect DOMAIN points \subseteq Kept(c)
  BY <1>0, <1>2 DEF Indexing
<1>9. Accounted' /\ Indexed' /\ Agreeing'
  BY <1>0, <1>1, <1>2, <1>7, <1>8, StoringDerives
<1>. QED BY <1>7, <1>9 DEF Advanced
LEMMA InsertingRowDerives ==
    ASSUME NEW c \in Calls, Alone(c), NEW m \in Memories, PgInsertMemory(c, m)
    PROVE  Advanced(c)
<1>0. LocalsOK /\ LinksAbroad(c) /\ Indexing(c) /\ pc[c] = "pg_insert" /\ m \in todo[c] /\ UNCHANGED <<points, lost>>
  BY AloneKnows DEF PgInsertMemory, Alone
<1>1. rows' = RowInserted(m, RowOf(c, m)) /\ todo'[c] = todo[c] \ {m} /\ UNCHANGED <<pc, tag, near, plan>>
  BY <1>0 DEF PgInsertMemory, LocalsOK
<1>2. /\ Batch(c)' \subseteq Batch(c) /\ Kept(c)' = Kept(c) /\ Superseded(c)' = Superseded(c)
      /\ \A n : PointOf(c, n)' = PointOf(c, n)
  BY <1>1 DEF Batch, Kept, Superseded, Superseding, PointOf
<1>3. todo[c] \subseteq Kept(c) /\ Kept(c) \subseteq DOMAIN plan[c] /\ ToStore(c) = todo[c] /\ ToStore(c)' = todo[c] \ {m}
  BY <1>0, <1>1 DEF Indexing, Kept, ToStore, Batch
<1>4. ToMark(c)' = ToMark(c)
  BY <1>0, <1>1 DEF ToMark, Superseding, Kept
<1>5. /\ m \notin DOMAIN rows /\ DOMAIN rows' = DOMAIN rows \union {m} /\ rows'[m] = RowOf(c, m)
      /\ \A n \in DOMAIN rows : rows'[n] = rows[n]
  BY <1>0, <1>1, <1>3, AloneKnows DEF RowInserted
<1>6. RowOf(c, m).tag = tag[c] /\ (tag[c] \notin lost => m \in DOMAIN points)
      /\ (m \in DOMAIN points => points[m] = FactOf(RowOf(c, m)))
  BY <1>0, <1>3, PointOfItsRow DEF Indexing, RowOf
<1>7. LinksAbroad(c)'
  BY <1>0, <1>1, <1>2 DEF LinksAbroad
<1>8. Indexing(c)'
  BY <1>0, <1>1, <1>2, <1>3 DEF Indexing
<1>9. Accounted'
  BY <1>0, <1>3, <1>5, AloneKnows DEF Accounted
<1>10. Indexed'
  BY <1>0, <1>5, <1>6, AloneKnows DEF Indexed
<1>11. Agreeing'
  <2>. SUFFICES ASSUME NEW n \in DOMAIN points \intersect DOMAIN rows'
                PROVE  Agrees(n)'
    BY <1>0 DEF Agreeing
  <2>1. CASE n = m
    BY <1>0, <1>5, <1>6, <2>1 DEF Agrees
  <2>2. CASE n # m
    <3>1. Agrees(n) /\ rows'[n] = rows[n]
      BY <1>5, <2>2, AloneKnows DEF Agreeing
    <3>2. Unmarked(n) => (Unmarked(n))'
      BY <1>1, <1>4, AloneKnows
    <3>. QED BY <1>0, <3>1, <3>2 DEF Agrees
  <2>. QED BY <2>1, <2>2
<1>. QED BY <1>7, <1>8, <1>9, <1>10, <1>11 DEF Advanced

LEMMA MarkingRowDerives ==
    ASSUME NEW c \in Calls, Alone(c), NEW m \in Memories, PgMarkSuperseded(c, m)
    PROVE  Advanced(c)
<1>. DEFINE old == plan[c][m].supersedes
<1>0. /\ LocalsOK /\ StoresOK /\ LinksAbroad(c) /\ Indexing(c) /\ pc[c] = "pg_mark" /\ m \in todo[c]
      /\ UNCHANGED <<points, lost>>
  BY AloneKnows DEF PgMarkSuperseded, Alone
<1>1. rows' = RowMarked(old, m) /\ todo'[c] = todo[c] \ {m} /\ UNCHANGED <<pc, tag, near, plan>>
  BY <1>0 DEF PgMarkSuperseded, LocalsOK
<1>2. /\ Batch(c)' \subseteq Batch(c) /\ Superseding(c)' = Superseding(c) /\ Superseded(c)' = Superseded(c)
      /\ ToStore(c) = {} /\ ToStore(c)' = {}
  BY <1>0, <1>1 DEF Batch, Kept, Superseded, Superseding, ToStore
<1>3. todo[c] \subseteq Superseding(c) /\ ToMark(c) = todo[c] /\ ToMark(c)' = todo[c] \ {m} /\ old \in Superseded(c)
  BY <1>0, <1>1 DEF Indexing, ToMark, Superseding, Superseded, Kept
<1>4. /\ DOMAIN rows' = DOMAIN rows
      /\ \A n \in DOMAIN rows : n # old => rows'[n] = rows[n]
      /\ old \in DOMAIN rows => rows'[old] = [rows[old] EXCEPT !.is_latest = FALSE, !.superseded_by = m]
  BY <1>1 DEF RowMarked
<1>5. \A n \in DOMAIN rows : rows'[n].tag = rows[n].tag
  <2>1. \A row \in Row : [row EXCEPT !.is_latest = FALSE, !.superseded_by = m].tag = row.tag
    BY DEF Row
  <2>. QED BY <1>0, <1>4, <2>1 DEF StoresOK
<1>6. LinksAbroad(c)'
  BY <1>0, <1>1, <1>2 DEF LinksAbroad
<1>7. Indexing(c)'
  BY <1>0, <1>1, <1>2, <1>3 DEF Indexing
<1>8. Accounted' /\ Indexed'
  BY <1>0, <1>2, <1>4, <1>5, AloneKnows DEF Accounted, Indexed
<1>9. Agreeing'
  <2>. SUFFICES ASSUME NEW n \in DOMAIN points \intersect DOMAIN rows
                PROVE  Agrees(n)'
    BY <1>0, <1>4, <1>5 DEF Agreeing
  <2>1. Agrees(n)
    BY AloneKnows DEF Agreeing
  <2>2. CASE n = old
    <3>1. PICK row \in Row : row = rows[n]
      BY <1>0 DEF StoresOK
    <3>2. PICK f \in Point : f = FactOf(row)
      BY FactsAreTyped
    <3>3. FactOf([row EXCEPT !.is_latest = FALSE, !.superseded_by = m]) = Retired(f)
      BY <3>2, MarkingRetires
    <3>4. FactOf(rows'[n]) = Retired(f)
      BY <1>4, <2>2, <3>1, <3>3
    <3>5. points[n] \in Point /\ ~points[n].is_latest
      BY <1>0, <1>3, <2>2 DEF StoresOK, Indexing, MirrorPhases
    <3>6. points[n] = f \/ points[n] = Retired(f)
      BY <2>1, <3>1, <3>2 DEF Agrees
    <3>7. points[n] = Retired(f)
      BY <3>5, <3>6, RetiredOnce
    <3>. QED BY <1>0, <3>4, <3>7 DEF Agrees
  <2>3. CASE n # old
    <3>1. rows'[n] = rows[n]
      BY <1>4, <2>3
    <3>2. Unmarked(n) => (Unmarked(n))'
      BY <1>1, <1>3, <2>3, AloneKnows
    <3>. QED BY <1>0, <2>1, <3>1, <3>2 DEF Agrees
  <2>. QED BY <2>2, <2>3
<1>. QED BY <1>6, <1>7, <1>8, <1>9 DEF Advanced

LEMMA LoopingDerives ==
    ASSUME NEW c \in Calls, Alone(c),
           PgLoopDone(c) \/ \E m \in Memories : PgInsertEvidence(c, m) \/ PgEvidenceRejected(c, m)
    PROVE  Advanced(c)
<1>0. LocalsOK /\ LinksAbroad(c) /\ Indexing(c) /\ UNCHANGED <<points, rows, lost>>
  BY AloneKnows DEF PgLoopDone, PgInsertEvidence, PgEvidenceRejected, Alone, stores
<1>1. ASSUME pc[c] = "pg_evidence" PROVE ToStore(c) = {} /\ ToMark(c) = {}
  BY <1>1 DEF ToStore, ToMark
<1>2. ASSUME pc[c] = "pg_evidence", Ends(c) PROVE Advanced(c)
  BY <1>0, <1>1, <1>2, EndedDerives, StandingStillDerives DEF Advanced
<1>3. ASSUME NEW m \in Memories, PgInsertEvidence(c, m) PROVE Advanced(c)
  <2>1. pc[c] = "pg_evidence" /\ todo'[c] = todo[c] \ {m} /\ UNCHANGED <<pc, tag, near, plan>>
    BY <1>0, <1>3 DEF PgInsertEvidence, LocalsOK
  <2>2. Batch(c)' \subseteq Batch(c) /\ Superseded(c)' = Superseded(c) /\ ToStore(c)' = {}
    BY <2>1 DEF Batch, Superseded, Superseding, Kept, ToStore
  <2>3. LinksAbroad(c)'
    BY <1>0, <2>1, <2>2 DEF LinksAbroad
  <2>4. Indexing(c)'
    BY <1>0, <2>1, <2>2 DEF Indexing
  <2>. QED BY <1>0, <1>1, <2>1, <2>3, <2>4, StandingStillDerives DEF Advanced
<1>4. ASSUME NEW phase \in {"pg_mark", "pg_evidence"}, NEW S \in SUBSET Kept(c), Goes(c, phase, S),
             phase = "pg_mark" => pc[c] = "pg_insert" /\ S = Superseding(c),
             phase = "pg_evidence" => pc[c] = "pg_mark", todo[c] = {}
      PROVE  Advanced(c)
  <2>1. /\ pc'[c] = phase /\ todo'[c] = S /\ plan'[c] = plan[c]
        /\ Superseding(c)' = Superseding(c) /\ Superseded(c)' = Superseded(c)
    BY <1>0, <1>4, GoingKeepsPlan
  <2>2. LinksAbroad(c)'
    BY <1>0, <1>4, GoingKeepsLinks
  <2>3. ToStore(c) = {} /\ ToStore(c)' = {}
    BY <1>4, <2>1 DEF ToStore
  <2>4. ToMark(c) \subseteq ToMark(c)'
    BY <1>4, <2>1 DEF ToMark
  <2>5. Indexing(c)'
    BY <1>0, <1>4, <2>1, <2>3 DEF Indexing, MirrorPhases
  <2>. QED BY <1>0, <2>1, <2>2, <2>3, <2>4, <2>5, StandingStillDerives DEF Advanced
<1>5. CASE PgLoopDone(c)
  <2>1. Superseding(c) \in SUBSET Kept(c) /\ Kept(c) \intersect Grounded \in SUBSET Kept(c)
    BY BatchParts
  <2>. QED BY <1>2, <1>4, <1>5, <2>1 DEF PgLoopDone, AdvanceMirror
<1>. QED BY <1>2, <1>3, <1>5 DEF PgEvidenceRejected

LEMMA StepDerives ==
    ASSUME HasDb, NEW c \in Calls, Alone(c), Step(c)
    PROVE  Advanced(c)
  BY SearchingDerives, ReconcilingDerives, WritingPlainDerives, FlippingDerives, SupersedingDerives,
     InsertingRowDerives, MarkingRowDerives, LoopingDerives
  DEF Step
LEMMA CallKeepsDerived ==
    ASSUME HasDb, \A d, e \in Calls : d = e, MirrorInv, NEW c \in Calls,
           Step(c) \/ StoreFailure(c) \/ Abort(c), ~failed /\ ~raced => Derived,
           raced' = (raced \/ Copying # {}), UNCHANGED <<job, history>>
    PROVE  ~failed' /\ ~raced' => Derived'
<1>. SUFFICES ASSUME ~failed', ~raced' PROVE Derived'
  OBVIOUS
<1>1. Step(c)
  BY DEF StoreFailure, WritePlainFails, FlipFails, WriteSupersedingFails, PgLoopFails, Abort
<1>2. UNCHANGED failed
  BY <1>1 DEF Step, SearchNeighbors, Reconcile, WritePlain, Flip, WriteSuperseding, PgInsertMemory,
              PgMarkSuperseded, PgInsertEvidence, PgEvidenceRejected, PgLoopDone
<1>3. Derived /\ Copying = {} /\ Alone(c)
  BY <1>2 DEF Alone, MirrorInv, history
<1>4. Advanced(c)
  BY <1>1, <1>3, StepDerives
<1>5. Snapshots'
  BY <1>3 DEF Snapshots, Copying, Running
<1>. QED BY <1>4, <1>5 DEF Derived, Advanced

LEMMA IndexKeepsDerived ==
    ASSUME \A d, e \in Calls : d = e, MirrorInv, NEW c \in Calls,
           NEW t \in Tags, NEW B \in SUBSET Memories, IndexMemories(c, t, B), ~failed /\ ~raced => Derived,
           raced' = (raced \/ Copying # {}), UNCHANGED <<job, history>>
    PROVE  ~failed' /\ ~raced' => Derived'
<1>. SUFFICES ASSUME ~failed', ~raced' PROVE Derived'
  OBVIOUS
<1>1. Derived /\ Copying = {} /\ Alone(c) /\ Owned /\ pc[c] = "idle" /\ UNCHANGED <<points, rows, lost>>
  BY DEF Alone, MirrorInv, history, IndexMemories, stores
<1>2. LocalsOK /\ None \notin B /\ B \intersect DOMAIN points = {}
  BY <1>1, AloneKnows, NoneAssumption DEF Owned, IndexMemories
<1>3. Batch(c) = {} /\ ToStore(c) = {} /\ ToMark(c) = {}
  BY <1>1 DEF Owned, ToStore, ToMark
<1>4. /\ pc'[c] \in {"search", "plain"} /\ todo'[c] \subseteq B /\ near' = near /\ DOMAIN near[c] = {}
      /\ DOMAIN plan'[c] \subseteq B /\ \A m \in DOMAIN plan'[c] : plan'[c][m].supersedes = None
  BY <1>2, <1>3 DEF IndexMemories, LocalsOK, Batch, Nothing, PlainNew, Store
<1>5. Batch(c)' \subseteq B
  BY <1>4 DEF Batch
<1>6. LinksAbroad(c)'
  BY <1>2, <1>4, <1>5 DEF LinksAbroad
<1>7. Indexing(c)'
  BY <1>1, <1>2, <1>4, <1>5 DEF Indexing, MirrorPhases, ToStore
<1>8. Accounted' /\ Indexed' /\ Agreeing'
  BY <1>1, <1>3, StandingStillDerives
<1>9. Snapshots'
  BY <1>1 DEF Snapshots, Copying, Running
<1>. QED BY <1>1, <1>6, <1>7, <1>8, <1>9 DEF Derived, Alone

LEMMA IngestKeepsDerived ==
    ASSUME HasDb, \A d, e \in Calls : d = e, DerivedInv, Ingest
    PROVE  ~failed' /\ ~raced' => Derived'
<1>1. MirrorInv /\ (~failed /\ ~raced => Derived)
  BY DEF DerivedInv
<1>. QED BY <1>1, CallKeepsDerived, IndexKeepsDerived DEF Ingest, Next
LEMMA CallsKeepCourse ==
    ASSUME UNCHANGED locals
    PROVE  /\ \A c \in Calls : /\ ToStore(c)' = ToStore(c) /\ Plain(c)' = Plain(c) /\ Superseded(c)' = Superseded(c)
                               /\ Batch(c)' = Batch(c) /\ Kept(c)' = Kept(c) /\ Superseding(c)' = Superseding(c)
                               /\ LinksAbroad(c) => LinksAbroad(c)'
                               /\ \A m : PointOf(c, m)' = PointOf(c, m)
           /\ \A m : (Unmarked(m))' <=> Unmarked(m)
  BY DEF locals, ToStore, Batch, Plain, Superseding, Superseded, Kept, LinksAbroad, PointOf, Unmarked, ToMark

\* The stores, the calls and the deletions stand still.
LEMMA QuietDerives ==
    ASSUME Derived, UNCHANGED <<points, rows, locals, lost>>, \A m : HalfErased(m) => (HalfErased(m))'
    PROVE  Accounted' /\ Indexed' /\ Agreeing' /\ \A c \in Calls : LinksAbroad(c)' /\ Indexing(c)'
<1>1. Accounted' /\ Indexed' /\ Agreeing'
  BY CallsKeepCourse DEF Derived, Accounted, Indexed, Agreeing, Agrees
<1>2. ASSUME NEW c \in Calls PROVE LinksAbroad(c)' /\ Indexing(c)'
  BY CallsKeepCourse DEF Derived, locals, Indexing
<1>. QED BY <1>1, <1>2

\* While no document is ingested, the index has no facts of its own.
LEMMA RestingDerives ==
    ASSUME Derived, \A c \in Calls : pc[c] = "idle", UNCHANGED locals
    PROVE  /\ DOMAIN points \subseteq DOMAIN rows
           /\ \A m \in DOMAIN points : points[m] = FactOf(rows[m])
           /\ \A c \in Calls : LinksAbroad(c)' /\ Indexing(c)'
<1>1. \A c \in Calls : ToStore(c) = {} /\ ToMark(c) = {}
  BY DEF ToStore, ToMark
<1>2. DOMAIN points \subseteq DOMAIN rows
  BY <1>1 DEF Derived, Accounted
<1>3. \A m \in DOMAIN points : points[m] = FactOf(rows[m])
  BY <1>1, <1>2 DEF Derived, Agreeing, Agrees, Unmarked
<1>4. \A c \in Calls : LinksAbroad(c)' /\ Indexing(c)'
  BY <1>1, CallsKeepCourse DEF Derived, locals, Indexing, MirrorPhases
<1>. QED BY <1>2, <1>3, <1>4

LEMMA ForgettingDerives ==
    ASSUME MirrorInv, NEW j \in Jobs, ForgetStep(j), Derived, ~raced'
    PROVE  Derived'
<1>. USE DEF history, stores
<1>. DEFINE m == job[j].victim
            t == job[j].tag
            k == job[j].step
<1>0. /\ TypeOK /\ JobsOK /\ Owned /\ OneNamespace /\ JobOK(job[j])
      /\ Accounted /\ Indexed /\ Agreeing /\ \A c \in Calls : LinksAbroad(c) /\ Indexing(c)
  BY DEF MirrorInv, JobsOK, Derived
<1>1. /\ job[j].op = "forget" /\ k \in {1, 2, 3} /\ Erases(EraseOrder[k], m, t)
      /\ Becomes(j, IF k = 3 THEN Idle ELSE [job[j] EXCEPT !.step = k + 1])
      /\ ~raced /\ Copying = {} /\ UNCHANGED <<locals, lost>>
  <2>1. raced' = (raced \/ Copying \ {j} # {})
    BY DEF ForgetStep, NotesRace
  <2>2. job[j].op = "forget"
    BY DEF ForgetStep
  <2>. QED BY <1>0, <2>1, <2>2 DEF ForgetStep, JobOK, EraseOrder, Copying, Running
<1>2. /\ \A i \in Jobs \ {j} : job'[i] = job[i]
      /\ k # 3 => job'[j].op = "forget" /\ job'[j].victim = m /\ job'[j].step = k + 1
      /\ k = 3 => job'[j].op = "idle"
  <2>. DEFINE r == IF k = 3 THEN Idle ELSE [job[j] EXCEPT !.step = k + 1]
  <2>1. JobOK(r) /\ (k # 3 => r.op = "forget" /\ r.victim = m /\ r.step = k + 1) /\ (k = 3 => r.op = "idle")
    BY <1>0, <1>1, IdleIsTyped DEF JobOK, Copies
  <2>2. JobsOK' /\ job'[j] = r /\ \A i \in Jobs \ {j} : job'[i] = job[i]
    BY <1>0, <1>1, <2>1, JobMoves
  <2>. HIDE DEF r
  <2>. QED BY <2>1, <2>2
<1>3. /\ Shrinks
      /\ k = 1 => points' = [n \in DOMAIN points \ {m} |-> points[n]] /\ UNCHANGED rows
      /\ k = 2 => UNCHANGED <<points, rows>>
      /\ k = 3 => UNCHANGED points /\ DOMAIN rows' = DOMAIN rows \ ({m} \intersect RowsOf(t))
  BY <1>0, <1>1, ErasesShrinks DEF Owned
<1>4. m \in asked /\ (k \in {2, 3} => m \notin DOMAIN points) /\ \A c \in Calls : m \notin ToStore(c)
  BY <1>0, <1>1 DEF Owned, MirrorInv, Erasing
<1>5. \A n \in DOMAIN points \ DOMAIN points' : n = m /\ k = 1
  BY <1>1, <1>3
<1>6. \A n \in DOMAIN rows \ DOMAIN rows' : n = m /\ k = 3
  BY <1>1, <1>3
<1>7. k = 3 => m \notin DOMAIN rows'
  <2>. SUFFICES ASSUME k = 3, m \in DOMAIN rows PROVE rows[m].tag = t
    BY <1>3 DEF RowsOf
  <2>1. m \in Memories /\ rows[m].tag \in Tags /\ t \in Tags
    BY <1>0, <1>1 DEF TypeOK, JobOK, Row
  <2>2. KnownIn(m, t) /\ KnownIn(m, rows[m].tag)
    BY <1>1 DEF KnownIn
  <2>. QED BY <1>0, <2>1, <2>2 DEF OneNamespace
<1>8. Accounted'
  BY <1>0, <1>1, <1>3, <1>4, <1>6, CallsKeepCourse DEF Accounted, Shrinks
<1>9. Indexed'
  <2>. SUFFICES ASSUME NEW n \in DOMAIN rows', rows[n].tag \notin lost, n \notin DOMAIN points'
                PROVE  (HalfErased(n))'
    BY <1>1, <1>3 DEF Indexed, Shrinks
  <2>1. n = m \/ HalfErased(n)
    BY <1>0, <1>3, <1>5 DEF Indexed, Shrinks
  <2>2. CASE n = m
    BY <1>1, <1>2, <1>7, <2>2 DEF HalfErased
  <2>3. CASE n # m /\ HalfErased(n)
    BY <1>2, <2>3 DEF HalfErased
  <2>. QED BY <2>1, <2>2, <2>3
<1>10. Agreeing'
  <2>. SUFFICES ASSUME NEW n \in DOMAIN points' \intersect DOMAIN rows'
                PROVE  Agrees(n)'
    BY <1>1 DEF Agreeing
  <2>1. points'[n] = points[n] /\ rows'[n] = rows[n] /\ n \in DOMAIN points \intersect DOMAIN rows
    BY <1>3 DEF Shrinks
  <2>2. Agrees(n)
    BY <1>0, <2>1 DEF Agreeing
  <2>. QED BY <1>1, <2>1, <2>2, CallsKeepCourse DEF Agrees
<1>11. ASSUME NEW c \in Calls PROVE LinksAbroad(c)' /\ Indexing(c)'
  <2>1. LinksAbroad(c) /\ Indexing(c)
    BY <1>0
  <2>2. DOMAIN points' \subseteq DOMAIN points /\ \A n \in DOMAIN points' : points'[n] = points[n]
    BY <1>3 DEF Shrinks
  <2>3. m \notin ToStore(c) /\ \A n \in DOMAIN points : n # m => n \in DOMAIN points'
    BY <1>4, <1>5
  <2>4. pc[c] \in {"flip", "supersede"} => m \notin Plain(c)
    BY <2>3, BatchParts DEF ToStore
  <2>5. pc[c] = "pg_insert" => m \notin todo[c]
    BY <2>3, BatchParts DEF ToStore
  <2>. QED BY <1>1, <2>1, <2>2, <2>3, <2>4, <2>5, CallsKeepCourse DEF locals, Indexing
<1>12. Snapshots'
  <2>1. \A i \in Jobs : job'[i].op \notin Copies
    BY <1>1, <1>2 DEF Copying, Running, Copies
  <2>. QED BY <2>1 DEF Snapshots, Running, Copies
<1>. QED BY <1>8, <1>9, <1>10, <1>11, <1>12 DEF Derived
\* A request begins.
LEMMA BeginningDerives ==
    ASSUME MirrorInv, NEW j \in Jobs, job[j].op = "idle", NEW r, Becomes(j, r), Derived, UNCHANGED <<vars, history>>,
           r.op \in Copies => ~OthersBusy(j),
           r.op = "backfill" => DOMAIN r.snap \subseteq DOMAIN points,
           r.op = "rebuild" => /\ DOMAIN r.snap = RowsOf(r.tag)
                               /\ \A m \in DOMAIN r.snap : r.snap[m] = FactOf(rows[m])
    PROVE  Derived'
<1>. USE DEF vars, stores, history
<1>1. job'[j] = r /\ \A k \in Jobs \ {j} : job'[k] = job[k]
  BY DEF MirrorInv, JobsOK, Becomes
<1>2. \A m : HalfErased(m) => (HalfErased(m))'
  BY <1>1 DEF HalfErased
<1>3. Accounted' /\ Indexed' /\ Agreeing' /\ \A c \in Calls : LinksAbroad(c)' /\ Indexing(c)'
  BY <1>2, QuietDerives
<1>4. r.op = "backfill" => DOMAIN r.snap \subseteq DOMAIN rows
  BY RestingDerives DEF OthersBusy, Copies
<1>5. RowsOf(r.tag)' = RowsOf(r.tag) /\ \A k \in Jobs : RowsOf(job[k].tag)' = {m \in DOMAIN rows : rows[m].tag = job'[k].tag}
  BY DEF RowsOf
<1>6. Snapshots'
  BY <1>1, <1>4, <1>5 DEF Derived, Snapshots, Running, RowsOf
<1>. QED BY <1>3, <1>6 DEF Derived

\* A copy ends, or goes on with less to do, and has changed no row.
LEMMA CopyingAloneDerives ==
    ASSUME MirrorInv, NEW j \in Jobs, job[j].op \in Copies, NEW r, Becomes(j, r), Derived, ~raced',
           NotesRace(j) \/ (UNCHANGED raced), UNCHANGED <<rows, locals>>,
           r.op # "idle" => /\ r.op = "backfill" /\ job[j].op = "backfill"
                            /\ DOMAIN r.snap \subseteq DOMAIN job[j].snap
    PROVE  /\ Snapshots' /\ \A m : (HalfErased(m))' <=> HalfErased(m)
           /\ ~raced /\ \A c \in Calls : pc[c] = "idle"
<1>1. job'[j] = r /\ \A k \in Jobs \ {j} : job'[k] = job[k]
  BY DEF MirrorInv, JobsOK, Becomes
<1>2. ~raced /\ Erasing
  <2>1. ~raced
    BY DEF NotesRace
  <2>. QED BY <2>1 DEF MirrorInv
<1>3. \A c \in Calls : pc[c] = "idle"
  BY <1>2 DEF Erasing
<1>4. \A m : (HalfErased(m))' <=> HalfErased(m)
  BY <1>1 DEF HalfErased, Copies
<1>5. Snapshots'
  BY <1>1 DEF Derived, Snapshots, Running, RowsOf
<1>. QED BY <1>2, <1>3, <1>4, <1>5

\* A backfill finds every row there already.
LEMMA BackfillKeepsRows ==
    ASSUME TypeOK, Derived, NEW j \in Jobs, NEW m \in Memories, BackfillRow(j, m)
    PROVE  UNCHANGED <<points, rows>>
<1>1. m \in DOMAIN rows /\ rows' = RowInserted(m, job[j].snap[m])
  BY DEF BackfillRow, Derived, Snapshots, Running
<1>2. rows' = [k \in DOMAIN rows |-> rows[k]]
  BY <1>1 DEF RowInserted
<1>3. rows' = rows
  BY <1>2 DEF TypeOK
<1>. QED BY <1>3 DEF BackfillRow

LEMMA BackfillDerives ==
    ASSUME MirrorInv, NEW j \in Jobs, BackfillEnds(j) \/ \E m \in Memories : BackfillRow(j, m), Derived, ~raced'
    PROVE  Derived'
<1>. USE DEF history, vars, stores
<1>0. job[j].op = "backfill" /\ Derived /\ DOMAIN job[j].snap \subseteq DOMAIN rows /\ TypeOK
  BY DEF BackfillEnds, BackfillRow, Derived, Snapshots, Running, MirrorInv
<1>1. PICK r : /\ Becomes(j, r)
               /\ r.op # "idle" => r.op = "backfill" /\ DOMAIN r.snap \subseteq DOMAIN job[j].snap
  <2>1. CASE BackfillEnds(j)
    <3>1. Becomes(j, Idle) /\ Idle.op = "idle"
      BY <2>1, IdleIsTyped DEF BackfillEnds
    <3>. HIDE DEF Idle, Becomes
    <3>. QED BY <3>1
  <2>2. ASSUME NEW m \in Memories, BackfillRow(j, m)
        PROVE  \E r : /\ Becomes(j, r)
                      /\ r.op # "idle" => r.op = "backfill" /\ DOMAIN r.snap \subseteq DOMAIN job[j].snap
    <3>. DEFINE r == [job[j] EXCEPT !.snap = [k \in DOMAIN job[j].snap \ {m} |-> job[j].snap[k]]]
    <3>1. r.op = "backfill" /\ DOMAIN r.snap \subseteq DOMAIN job[j].snap
      BY <1>0 DEF MirrorInv, JobsOK, JobOK
    <3>2. Becomes(j, r)
      BY <2>2 DEF BackfillRow
    <3>. HIDE DEF r
    <3>. QED BY <3>1, <3>2
  <2>. QED BY <2>1, <2>2
<1>2. UNCHANGED <<points, rows, locals, lost>> /\ (NotesRace(j) \/ UNCHANGED raced)
  <2>1. CASE BackfillEnds(j)
    BY <2>1 DEF BackfillEnds
  <2>2. ASSUME NEW m \in Memories, BackfillRow(j, m) PROVE UNCHANGED <<points, rows, locals, lost>> /\ NotesRace(j)
    BY <1>0, <2>2, BackfillKeepsRows DEF BackfillRow
  <2>. QED BY <2>1, <2>2
<1>3. Snapshots' /\ \A m : (HalfErased(m))' <=> HalfErased(m)
  BY <1>0, <1>1, <1>2, CopyingAloneDerives DEF Copies
<1>. QED BY <1>2, <1>3, QuietDerives DEF Derived

\* Points are written as the rows have them; with all of a namespace's, its
\* index is there again.
LEMMA RebuildDerives ==
    ASSUME MirrorInv, NEW j \in Jobs, RebuildUpsert(j) \/ RebuildFails(j), Derived, ~raced'
    PROVE  Derived'
<1>. USE DEF history
<1>1. /\ job[j].op = "rebuild" /\ Becomes(j, Idle) /\ NotesRace(j) /\ UNCHANGED <<rows, locals>>
      /\ JobsOK
  BY DEF RebuildUpsert, RebuildFails, MirrorInv
<1>2. PICK S \in SUBSET DOMAIN job[j].snap :
         /\ points' = Overwritten([m \in S |-> job[j].snap[m]])
         /\ \/ lost' = lost
            \/ lost' = lost \ {job[j].tag} /\ S = DOMAIN job[j].snap
  <2>1. CASE RebuildUpsert(j)
    <3>1. job[j].snap = [m \in DOMAIN job[j].snap |-> job[j].snap[m]]
      BY <1>1 DEF JobsOK, JobOK
    <3>2. points' = Overwritten([m \in DOMAIN job[j].snap |-> job[j].snap[m]])
      BY <2>1, <3>1 DEF RebuildUpsert
    <3>. QED BY <2>1, <3>2 DEF RebuildUpsert
  <2>2. CASE RebuildFails(j)
    <3>1. PICK S \in SUBSET DOMAIN job[j].snap : points' = Overwritten([m \in S |-> job[j].snap[m]])
      BY <2>2 DEF RebuildFails
    <3>2. lost' = lost
      BY <2>2 DEF RebuildFails
    <3>. QED BY <3>1, <3>2
  <2>. QED BY <2>1, <2>2
<1>3. /\ Snapshots' /\ \A m : (HalfErased(m))' <=> HalfErased(m)
      /\ \A c \in Calls : pc[c] = "idle"
  <2>1. Idle.op = "idle" /\ job[j].op \in Copies
    BY <1>1, IdleIsTyped DEF Copies
  <2>. QED BY <1>1, <2>1, CopyingAloneDerives
<1>4. /\ DOMAIN job[j].snap = RowsOf(job[j].tag)
      /\ \A m \in DOMAIN job[j].snap : job[j].snap[m] = FactOf(rows[m])
  BY <1>1 DEF Derived, Snapshots, Running
<1>5. /\ DOMAIN points \subseteq DOMAIN rows
      /\ \A m \in DOMAIN points : points[m] = FactOf(rows[m])
      /\ \A c \in Calls : LinksAbroad(c)' /\ Indexing(c)'
  BY <1>1, <1>3, RestingDerives
<1>6. /\ DOMAIN points' = DOMAIN points \union S /\ S \subseteq DOMAIN rows
      /\ \A m \in S : points'[m] = FactOf(rows[m])
      /\ \A m \in DOMAIN points \ S : points'[m] = points[m]
  BY <1>2, <1>4 DEF Overwritten, RowsOf
<1>7. ASSUME NEW m \in DOMAIN rows, rows[m].tag \notin lost' PROVE m \in S \/ rows[m].tag \notin lost
  BY <1>2, <1>4, <1>7 DEF RowsOf
<1>8. Accounted'
  BY <1>1, <1>5, <1>6 DEF Accounted
<1>9. Indexed'
  BY <1>1, <1>3, <1>6, <1>7 DEF Derived, Indexed
<1>10. Agreeing'
  BY <1>1, <1>5, <1>6 DEF Agreeing, Agrees
<1>. QED BY <1>3, <1>5, <1>8, <1>9, <1>10 DEF Derived

LEMMA LosingDerives ==
    ASSUME MirrorInv, LoseIndex, Derived
    PROVE  Derived'
<1>0. TypeOK /\ DOMAIN points' = {} /\ lost' = Tags /\ UNCHANGED <<rows, locals, job>>
  BY DEF MirrorInv, LoseIndex, Nothing
<1>1. \A m \in DOMAIN rows : rows[m].tag \in Tags
  BY <1>0 DEF TypeOK, Row
<1>2. Accounted' /\ Indexed' /\ Agreeing'
  BY <1>0, <1>1 DEF Accounted, Indexed, Agreeing
<1>3. ASSUME NEW c \in Calls PROVE LinksAbroad(c)' /\ Indexing(c)'
  <2>1. LinksAbroad(c) /\ Indexing(c) /\ (pc[c] # "idle" => tag[c] \in Tags)
    BY <1>0 DEF Derived, TypeOK
  <2>. QED BY <1>0, <2>1, CallsKeepCourse DEF locals, Indexing
<1>4. Snapshots'
  BY <1>0 DEF Derived, Snapshots, Running, RowsOf
<1>. QED BY <1>2, <1>3, <1>4 DEF Derived
LEMMA DerivedInvInit == MirrorInit => DerivedInv
<1>. SUFFICES ASSUME MirrorInit PROVE DerivedInv
  OBVIOUS
<1>1. /\ DOMAIN points = {} /\ DOMAIN rows = {} /\ \A j \in Jobs : job[j].op = "idle"
      /\ \A c \in Calls : pc[c] = "idle" /\ DOMAIN near[c] = {} /\ DOMAIN plan[c] = {}
  BY IdleIsTyped DEF MirrorInit, Init, Nothing
<1>2. Accounted /\ Indexed /\ Agreeing /\ Snapshots
  BY <1>1 DEF Accounted, Indexed, Agreeing, Snapshots, Running
<1>3. \A c \in Calls : LinksAbroad(c) /\ Indexing(c)
  BY <1>1 DEF LinksAbroad, Indexing, MirrorPhases
<1>. QED BY <1>2, <1>3, MirrorInvInit DEF DerivedInv, Derived

LEMMA DerivedInvStep ==
    ASSUME HasDb, \A c, d \in Calls : c = d
    PROVE  DerivedInv /\ [MirrorNext]_mirrorVars => DerivedInv'
<1>. SUFFICES ASSUME DerivedInv, [MirrorNext]_mirrorVars, ~failed', ~raced' PROVE Derived'
  BY MirrorInvStep DEF DerivedInv
<1>. USE DEF history
<1>0. MirrorInv /\ (~failed /\ ~raced => Derived)
  BY DEF DerivedInv
<1>1. CASE Ingest
  BY <1>1, IngestKeepsDerived
<1>2. CASE LoseIndex
  <2>1. ~failed /\ ~raced
    BY <1>2 DEF LoseIndex
  <2>. QED BY <1>0, <1>2, <2>1, LosingDerives
<1>3. CASE UNCHANGED mirrorVars
  <2>1. Derived
    BY <1>0, <1>3 DEF mirrorVars, vars
  <2>2. \A m : HalfErased(m) => (HalfErased(m))'
    BY <1>3 DEF mirrorVars, HalfErased
  <2>3. UNCHANGED <<points, rows, locals, lost, job>>
    BY <1>3 DEF mirrorVars, vars, stores
  <2>4. Snapshots'
    BY <2>1, <2>3 DEF Derived, Snapshots, Running, RowsOf
  <2>. QED BY <2>1, <2>2, <2>3, <2>4, QuietDerives DEF Derived
<1>4. ASSUME NEW j \in Jobs, Maintain(j) PROVE Derived'
  <2>1. ~ForgetFails(j) /\ UNCHANGED failed
    BY <1>4 DEF Maintain, ForgetMemory, ForgetStep, ForgetFails, BackfillToPg, BackfillRow, BackfillEnds,
                RebuildIndexFromPg, RebuildUpsert, RebuildFails, vars
  <2>2. ~raced
    BY <1>4 DEF Maintain, ForgetMemory, ForgetStep, ForgetFails, BackfillToPg, BackfillRow, BackfillEnds,
                RebuildIndexFromPg, RebuildUpsert, RebuildFails, NotesRace
  <2>3. Derived
    BY <1>0, <2>1, <2>2
  <2>4. ASSUME NEW t \in Tags, NEW m \in Memories, ForgetMemory(j, t, m) PROVE Derived'
    <3>. DEFINE r == [Idle EXCEPT !.op = "forget", !.tag = t, !.victim = m, !.step = 1]
    <3>1. r.op = "forget"
      BY DEF Idle
    <3>2. Becomes(j, r) /\ job[j].op = "idle" /\ UNCHANGED <<points, rows, locals, lost>>
      BY <2>4 DEF ForgetMemory, vars, stores
    <3>. HIDE DEF r
    <3>3. job'[j] = r /\ \A k \in Jobs \ {j} : job'[k] = job[k]
      BY <1>0, <3>2 DEF MirrorInv, JobsOK, Becomes
    <3>4. \A n : HalfErased(n) => (HalfErased(n))'
      BY <3>2, <3>3 DEF HalfErased
    <3>5. Snapshots'
      BY <2>3, <3>1, <3>2, <3>3 DEF Derived, Snapshots, Running, RowsOf
    <3>. QED BY <2>3, <3>2, <3>4, <3>5, QuietDerives DEF Derived
  <2>5. ASSUME NEW t \in Tags, BackfillToPg(j, t) PROVE Derived'
    <3>1. PICK S \in SUBSET Tagged(t) :
             Becomes(j, [Idle EXCEPT !.op = "backfill", !.tag = t, !.snap = [m \in S |-> RowFrom(points[m])]])
      BY <2>5 DEF BackfillToPg
    <3>. DEFINE r == [Idle EXCEPT !.op = "backfill", !.tag = t, !.snap = [m \in S |-> RowFrom(points[m])]]
    <3>2. r.op = "backfill" /\ DOMAIN r.snap \subseteq DOMAIN points
      BY DEF Idle, Tagged
    <3>3. Becomes(j, r) /\ job[j].op = "idle" /\ UNCHANGED <<vars, history>> /\ ~OthersBusy(j)
      BY <2>5, <3>1 DEF BackfillToPg
    <3>. HIDE DEF r
    <3>. QED BY <1>0, <2>3, <3>2, <3>3, BeginningDerives
  <2>6. ASSUME NEW t \in Tags, RebuildIndexFromPg(j, t) PROVE Derived'
    <3>. DEFINE r == [Idle EXCEPT !.op = "rebuild", !.tag = t, !.snap = [m \in RowsOf(t) |-> FactOf(rows[m])]]
    <3>1. r.op = "rebuild" /\ r.tag = t /\ DOMAIN r.snap = RowsOf(t) /\ \A m \in DOMAIN r.snap : r.snap[m] = FactOf(rows[m])
      BY DEF Idle
    <3>2. Becomes(j, r) /\ job[j].op = "idle" /\ UNCHANGED <<vars, history>> /\ ~OthersBusy(j)
      BY <2>6 DEF RebuildIndexFromPg
    <3>. HIDE DEF r
    <3>. QED BY <1>0, <2>3, <3>1, <3>2, BeginningDerives
  <2>. QED BY <1>0, <1>4, <2>1, <2>3, <2>4, <2>5, <2>6, ForgettingDerives, BackfillDerives, RebuildDerives
       DEF Maintain
<1>. QED BY <1>1, <1>2, <1>3, <1>4 DEF MirrorNext

\* "losing Qdrant is recoverable, not data loss" (mod.rs:2290): with documents
\* ingested one at a time, for any number of memories, namespaces and maintenance
\* requests, an index that was never lost, or was rebuilt since, holds at rest
\* what Postgres would give a rebuild.  Of two ingests that overlap, one can mark
\* a row that the other has yet to insert: the run mirror_drift.
THEOREM IndexIsRecoverable ==
    ASSUME HasDb, \A c, d \in Calls : c = d
    PROVE  MirrorSpec => []IndexIsDerived
<1>1. DerivedInv => IndexIsDerived
  <2>. SUFFICES ASSUME DerivedInv, ~failed, ~raced, \A c \in Calls : pc[c] = "idle", \A j \in Jobs : job[j].op # "forget",
                       NEW t \in Tags \ lost
                PROVE  Tagged(t) = RowsOf(t) /\ \A m \in RowsOf(t) : points[m] = FactOf(rows[m])
    BY DEF IndexIsDerived
  <2>1. Derived /\ TypeOK /\ OneNamespace
    BY DEF DerivedInv, MirrorInv
  <2>2. DOMAIN points \subseteq DOMAIN rows
    BY <2>1 DEF Derived, Accounted, ToStore
  <2>3. RowsOf(t) \subseteq DOMAIN points
    BY <2>1 DEF Derived, Indexed, HalfErased, RowsOf
  <2>4. \A m \in RowsOf(t) : points[m] = FactOf(rows[m])
    BY <2>1, <2>3 DEF Derived, Agreeing, Agrees, Unmarked, ToMark, RowsOf
  <2>5. \A m \in DOMAIN points : rows[m].tag = points[m].tag
    <3>1. ASSUME NEW m \in DOMAIN points PROVE rows[m].tag = points[m].tag
      <4>1. m \in Memories /\ points[m].tag \in Tags /\ rows[m].tag \in Tags
        BY <2>1, <2>2, <3>1 DEF TypeOK, Point, Row
      <4>2. KnownIn(m, points[m].tag) /\ KnownIn(m, rows[m].tag)
        BY <2>2, <3>1 DEF KnownIn
      <4>. QED BY <2>1, <4>1, <4>2 DEF OneNamespace
    <3>. QED BY <3>1
  <2>. QED BY <2>2, <2>3, <2>4, <2>5 DEF Tagged, RowsOf
<1>. QED BY <1>1, DerivedInvInit, DerivedInvStep, PTL DEF MirrorSpec
-----------------------------------------------------------------------------
(* What is superseded stays retired.                                       *)

\* A link of what is stored: to a memory no call has yet to store.
Settled(old) == old \in minted \union {None} /\ \A c \in Calls : old \notin ToStore(c)

SettledLinks == /\ \A m \in DOMAIN points : Settled(points[m].supersedes)
                /\ \A m \in DOMAIN rows : Settled(rows[m].supersedes)

MintedLinks(c) == /\ \A m \in DOMAIN near[c] : near[c][m] \subseteq minted
                  /\ \A m \in DOMAIN plan[c] : plan[c][m].supersedes \in minted \union {None}

PointsRetired == \A m \in DOMAIN points :
    points[m].supersedes \in DOMAIN points => ~points[points[m].supersedes].is_latest

RowsRetired == \A m \in DOMAIN rows :
    rows[m].supersedes \in DOMAIN rows =>
        ~rows[rows[m].supersedes].is_latest \/ Unmarked(rows[m].supersedes)

Retiring == SettledLinks /\ PointsRetired /\ RowsRetired /\ \A c \in Calls : MintedLinks(c)

RetiringInv == DerivedInv /\ (~failed /\ ~raced => Retiring)

\* What a step that does not fail writes to the index.
LEMMA StepWritesPoints ==
    ASSUME NEW c \in Calls, Step(c)
    PROVE  \/ UNCHANGED points
           \/ pc[c] = "plain" /\ points' = Upserted(c, Plain(c))
           \/ pc[c] = "supersede" /\ points' = Upserted(c, Superseding(c))
           \/ pc[c] = "flip" /\ points' = Demoted(Superseded(c))
  BY DEF Step, SearchNeighbors, Reconcile, WritePlain, Flip, WriteSuperseding, PgInsertMemory,
         PgMarkSuperseded, PgInsertEvidence, PgEvidenceRejected, PgLoopDone, stores

\* ... and to the rows.
LEMMA StepWritesRows ==
    ASSUME NEW c \in Calls, Step(c)
    PROVE  \/ UNCHANGED rows
           \/ \E m \in todo[c] : pc[c] = "pg_insert" /\ rows' = RowInserted(m, RowOf(c, m))
           \/ \E m \in todo[c] : pc[c] = "pg_mark" /\ rows' = RowMarked(plan[c][m].supersedes, m)
  BY DEF Step, SearchNeighbors, Reconcile, WritePlain, Flip, WriteSuperseding, PgInsertMemory,
         PgMarkSuperseded, PgInsertEvidence, PgEvidenceRejected, PgLoopDone, stores

\* A row that is yet to be marked stays so until it is.
LEMMA StepMarks ==
    ASSUME HasDb, LocalsOK, NEW c \in Calls, Step(c), NEW n \in ToMark(c)
    PROVE  \/ n \in ToMark(c)' /\ plan'[c][n].supersedes = plan[c][n].supersedes
           \/ pc[c] = "pg_mark" /\ rows' = RowMarked(plan[c][n].supersedes, n)
<1>0. n \in Superseding(c) /\ (pc[c] \in {"supersede", "pg_insert"} \/ (pc[c] = "pg_mark" /\ n \in todo[c]))
  BY DEF ToMark
<1>1. CASE WriteSuperseding(c)
  <2>1. Goes(c, "pg_insert", Kept(c))
    BY <1>1 DEF WriteSuperseding, Mirrors
  <2>2. pc'[c] = "pg_insert" /\ plan'[c] = plan[c] /\ Superseding(c)' = Superseding(c)
    BY <2>1, GoingKeepsPlan
  <2>. QED BY <1>0, <2>2 DEF ToMark
<1>2. ASSUME NEW m \in Memories, PgInsertMemory(c, m)
      PROVE  n \in ToMark(c)' /\ plan'[c][n].supersedes = plan[c][n].supersedes
  BY <1>0, <1>2 DEF PgInsertMemory, ToMark, Superseding, Kept
<1>3. ASSUME NEW m \in Memories, PgMarkSuperseded(c, m), n # m
      PROVE  n \in ToMark(c)' /\ plan'[c][n].supersedes = plan[c][n].supersedes
  <2>1. todo'[c] = todo[c] \ {m} /\ UNCHANGED <<pc, plan>>
    BY <1>3 DEF PgMarkSuperseded, LocalsOK
  <2>. QED BY <1>0, <1>3, <2>1 DEF PgMarkSuperseded, ToMark, Superseding, Kept
<1>4. CASE PgLoopDone(c)
  <2>1. pc[c] = "pg_insert" /\ Goes(c, "pg_mark", Superseding(c))
    BY <1>0, <1>4 DEF PgLoopDone, AdvanceMirror
  <2>2. Superseding(c) \in SUBSET Kept(c)
    BY BatchParts
  <2>3. pc'[c] = "pg_mark" /\ todo'[c] = Superseding(c) /\ plan'[c] = plan[c] /\ Superseding(c)' = Superseding(c)
    BY <2>1, <2>2, GoingKeepsPlan
  <2>. QED BY <1>0, <2>3 DEF ToMark
<1>. QED BY <1>0, <1>1, <1>2, <1>3, <1>4 DEF Step, SearchNeighbors, Reconcile, WritePlain, Flip, PgMarkSuperseded,
        PgInsertEvidence, PgEvidenceRejected

\* A call learns only of memories that are in the index.
LEMMA StepLinks ==
    ASSUME TypeOK, Owned, HasDb, NEW c \in Calls, Step(c), MintedLinks(c), UNCHANGED minted
    PROVE  MintedLinks(c)'
<1>0. LocalsOK /\ DOMAIN points \subseteq minted
  BY TypeOKSplits DEF Owned
<1>1. ASSUME near'[c] = near[c], plan'[c] = plan[c] PROVE MintedLinks(c)'
  BY <1>1 DEF MintedLinks
<1>2. ASSUME Ends(c) PROVE MintedLinks(c)'
  BY <1>0, <1>2 DEF LocalsOK, Ends, Nothing, MintedLinks
<1>3. ASSUME NEW phase, NEW S, Goes(c, phase, S) PROVE MintedLinks(c)'
  BY <1>1, <1>3 DEF Goes
<1>4. ASSUME NEW m \in Memories, SearchNeighbors(c, m) PROVE MintedLinks(c)'
  <2>1. PICK S \in SUBSET Active(tag[c]) :
           near' = [near EXCEPT ![c] = [k \in DOMAIN near[c] \union {m} |-> IF k = m THEN S ELSE near[c][k]]]
    BY <1>4 DEF SearchNeighbors
  <2>2. /\ DOMAIN near'[c] = DOMAIN near[c] \union {m} /\ plan' = plan
        /\ \A k \in DOMAIN near'[c] : near'[c][k] = IF k = m THEN S ELSE near[c][k]
    BY <1>0, <1>4, <2>1 DEF SearchNeighbors, LocalsOK
  <2>3. S \subseteq minted
    BY <1>0, <2>1 DEF Active, Tagged
  <2>. QED BY <2>2, <2>3 DEF MintedLinks
<1>5. CASE Reconcile(c)
  <2>1. PICK q \in ClassifiedPlans(near[c]) \union {DegradedPlan(near[c])} : plan' = [plan EXCEPT ![c] = q]
    BY <1>5 DEF Reconcile
  <2>2. /\ DOMAIN q = DOMAIN near[c]
        /\ \A k \in DOMAIN near[c] : q[k].supersedes \in near[c][k] \union {None}
    BY <1>0, PlansLinkToNeighbours DEF LocalsOK
  <2>3. plan'[c] = q /\ DOMAIN near'[c] = {}
    BY <1>0, <1>5, <2>1 DEF Reconcile, LocalsOK, Nothing
  <2>. QED BY <2>2, <2>3 DEF MintedLinks
<1>. QED BY <1>1, <1>2, <1>3, <1>4, <1>5 DEF Step, WritePlain, Flip, WriteSuperseding, PgInsertMemory, PgMarkSuperseded,
        PgInsertEvidence, PgEvidenceRejected, PgLoopDone, AdvanceMirror, Mirrors
LEMMA StepSettles ==
    ASSUME NEW c \in Calls, Alone(c), Ingests(c), Step(c), Retiring
    PROVE  SettledLinks'
<1>0. /\ StoresOK /\ LinksAbroad(c) /\ MintedLinks(c) /\ SettledLinks /\ ToStore(c) \subseteq Batch(c)
      /\ \A d \in Calls : d = c
  BY AloneKnows DEF Retiring, Alone
<1>1. \A old : Settled(old) => (Settled(old))'
  BY <1>0 DEF Ingests, Settled
<1>2. \A m \in Kept(c) : Settled(plan[c][m].supersedes)
  BY <1>0 DEF Kept, MintedLinks, LinksAbroad, Settled
<1>3. \A m \in DOMAIN points' : \/ m \in DOMAIN points /\ points'[m].supersedes = points[m].supersedes
                                \/ m \in Kept(c) /\ points'[m].supersedes = plan[c][m].supersedes
  <2>1. ASSUME NEW S \in SUBSET Kept(c), points' = Upserted(c, S), NEW m \in DOMAIN points'
        PROVE  \/ m \in DOMAIN points /\ points'[m].supersedes = points[m].supersedes
               \/ m \in Kept(c) /\ points'[m].supersedes = plan[c][m].supersedes
    BY <2>1 DEF Upserted, PointOf
  <2>2. ASSUME points' = Demoted(Superseded(c)), NEW m \in DOMAIN points'
        PROVE  m \in DOMAIN points /\ points'[m].supersedes = points[m].supersedes
    BY <1>0, <2>2 DEF Demoted, StoresOK, Point
  <2>3. Plain(c) \in SUBSET Kept(c) /\ Superseding(c) \in SUBSET Kept(c)
    BY BatchParts
  <2>. QED BY <2>1, <2>2, <2>3, StepWritesPoints
<1>4. \A m \in DOMAIN rows' : \/ m \in DOMAIN rows /\ rows'[m].supersedes = rows[m].supersedes
                              \/ m \in Kept(c) /\ rows'[m].supersedes = plan[c][m].supersedes
  <2>1. ASSUME NEW n \in todo[c], pc[c] = "pg_insert", rows' = RowInserted(n, RowOf(c, n)), NEW m \in DOMAIN rows'
        PROVE  \/ m \in DOMAIN rows /\ rows'[m].supersedes = rows[m].supersedes
               \/ m \in Kept(c) /\ rows'[m].supersedes = plan[c][m].supersedes
    <3>1. n \in Kept(c)
      BY <2>1, AloneKnows DEF Indexing
    <3>. QED BY <2>1, <3>1 DEF RowInserted, RowOf
  <2>2. ASSUME NEW n \in todo[c], rows' = RowMarked(plan[c][n].supersedes, n), NEW m \in DOMAIN rows'
        PROVE  m \in DOMAIN rows /\ rows'[m].supersedes = rows[m].supersedes
    BY <1>0, <2>2 DEF RowMarked, StoresOK, Row
  <2>. QED BY <2>1, <2>2, StepWritesRows
<1>. QED BY <1>0, <1>1, <1>2, <1>3, <1>4 DEF SettledLinks

LEMMA StepRetiresPoints ==
    ASSUME NEW c \in Calls, Alone(c), Step(c), Retiring
    PROVE  PointsRetired'
<1>0. /\ StoresOK /\ LinksAbroad(c) /\ Indexing(c) /\ SettledLinks /\ PointsRetired /\ None \notin DOMAIN points
  BY AloneKnows, NoneAssumption DEF Retiring, StoresOK
<1>1. CASE UNCHANGED points
  BY <1>0, <1>1 DEF PointsRetired
<1>2. ASSUME NEW S \in SUBSET Kept(c), S \subseteq ToStore(c), points' = Upserted(c, S),
             \A m \in S : plan[c][m].supersedes \in DOMAIN points => ~points[plan[c][m].supersedes].is_latest
      PROVE  PointsRetired'
  <2>. SUFFICES ASSUME NEW m \in DOMAIN points', points'[m].supersedes \in DOMAIN points'
                PROVE  ~points'[points'[m].supersedes].is_latest
    BY DEF PointsRetired
  <2>. DEFINE old == points'[m].supersedes
  <2>1. /\ DOMAIN points' = DOMAIN points \union S
        /\ \A n \in S : points'[n].supersedes = plan[c][n].supersedes
        /\ \A n \in DOMAIN points \ S : points'[n] = points[n]
    BY <1>2 DEF Upserted, PointOf
  <2>2. old \notin S
    <3>1. CASE m \in S
      BY <1>0, <1>2, <2>1, <3>1, AloneKnows DEF LinksAbroad, Kept
    <3>2. CASE m \notin S
      BY <1>0, <1>2, <2>1, <3>2 DEF SettledLinks, Settled
    <3>. QED BY <3>1, <3>2
  <2>3. old \in DOMAIN points /\ points'[old] = points[old]
    BY <2>1, <2>2
  <2>4. ~points[old].is_latest
    BY <1>0, <1>2, <2>1, <2>3 DEF PointsRetired
  <2>. QED BY <2>3, <2>4
<1>3. CASE pc[c] = "plain" /\ points' = Upserted(c, Plain(c))
  <2>1. /\ Plain(c) \in SUBSET Kept(c) /\ Plain(c) \subseteq ToStore(c)
        /\ \A m \in Plain(c) : plan[c][m].supersedes = None
    BY <1>3, BatchParts DEF ToStore
  <2>. QED BY <1>0, <1>2, <1>3, <2>1
<1>4. CASE pc[c] = "supersede" /\ points' = Upserted(c, Superseding(c))
  <2>1. /\ Superseding(c) \in SUBSET Kept(c) /\ Superseding(c) \subseteq ToStore(c)
        /\ \A m \in Superseding(c) : plan[c][m].supersedes \in Superseded(c)
    BY <1>4, BatchParts DEF ToStore
  <2>2. \A n \in Superseded(c) \intersect DOMAIN points : ~points[n].is_latest
    BY <1>0, <1>4 DEF Indexing
  <2>. QED BY <1>2, <1>4, <2>1, <2>2
<1>5. CASE points' = Demoted(Superseded(c))
  <2>1. DOMAIN points' = DOMAIN points
    BY <1>5 DEF Demoted
  <2>2. \A m \in DOMAIN points : /\ points'[m].supersedes = points[m].supersedes
                                 /\ ~points[m].is_latest => ~points'[m].is_latest
    BY <1>0, <1>5 DEF Demoted, StoresOK, Point
  <2>. QED BY <1>0, <2>1, <2>2 DEF PointsRetired
<1>. QED BY <1>1, <1>3, <1>4, <1>5, StepWritesPoints

LEMMA StepRetiresRows ==
    ASSUME HasDb, NEW c \in Calls, Alone(c), Step(c), Retiring
    PROVE  RowsRetired'
<1>0. /\ LocalsOK /\ StoresOK /\ LinksAbroad(c) /\ Indexing(c) /\ SettledLinks /\ RowsRetired /\ None \notin DOMAIN rows
  BY AloneKnows, NoneAssumption DEF Retiring, StoresOK
\* What is yet to be marked stays so, or has been.
<1>1. ASSUME NEW old, Unmarked(old), old \in DOMAIN rows'
      PROVE  (Unmarked(old))' \/ ~rows'[old].is_latest
  <2>1. PICK n \in ToMark(c) : plan[c][n].supersedes = old
    BY <1>1, AloneKnows
  <2>2. CASE n \in ToMark(c)' /\ plan'[c][n].supersedes = plan[c][n].supersedes
    BY <2>1, <2>2, AloneKnows
  <2>3. CASE rows' = RowMarked(plan[c][n].supersedes, n)
    <3>1. rows'[old] = [rows[old] EXCEPT !.is_latest = FALSE, !.superseded_by = n] /\ rows[old] \in Row
      BY <1>0, <1>1, <2>1, <2>3 DEF RowMarked, StoresOK
    <3>. QED BY <3>1 DEF Row
  <2>. QED BY <1>0, <2>1, <2>2, <2>3, StepMarks
<1>2. CASE UNCHANGED rows
  BY <1>0, <1>1, <1>2 DEF RowsRetired
<1>3. ASSUME NEW m \in todo[c], pc[c] = "pg_insert", rows' = RowInserted(m, RowOf(c, m))
      PROVE  RowsRetired'
  <2>1. m \in Kept(c) /\ m \in ToStore(c) /\ m \notin DOMAIN rows /\ plan[c][m].supersedes \notin Batch(c) /\ m \in Batch(c)
    BY <1>0, <1>3, AloneKnows DEF Indexing, LinksAbroad, ToStore, Batch, Kept
  <2>2. /\ DOMAIN rows' = DOMAIN rows \union {m} /\ rows'[m].supersedes = plan[c][m].supersedes
        /\ \A n \in DOMAIN rows : rows'[n] = rows[n]
    BY <1>3, <2>1 DEF RowInserted, RowOf
  <2>. SUFFICES ASSUME NEW n \in DOMAIN rows', NEW old \in DOMAIN rows', old = rows'[n].supersedes
                PROVE  ~rows'[old].is_latest \/ (Unmarked(old))'
    BY DEF RowsRetired
  <2>3. old \in DOMAIN rows
    BY <1>0, <2>1, <2>2 DEF SettledLinks, Settled
  <2>4. ~rows[old].is_latest \/ Unmarked(old)
    <3>1. CASE n = m
      <4>1. m \in ToMark(c) /\ plan[c][m].supersedes = old
        BY <1>0, <1>3, <2>1, <2>2, <2>3, <3>1 DEF ToMark, Superseding
      <4>. QED BY <4>1, AloneKnows
    <3>2. CASE n # m
      BY <1>0, <2>2, <2>3, <3>2 DEF RowsRetired
    <3>. QED BY <3>1, <3>2
  <2>. QED BY <1>1, <2>2, <2>3, <2>4
<1>4. ASSUME NEW m \in todo[c], rows' = RowMarked(plan[c][m].supersedes, m)
      PROVE  RowsRetired'
  <2>1. DOMAIN rows' = DOMAIN rows
    BY <1>4 DEF RowMarked
  <2>2. ASSUME NEW n \in DOMAIN rows
        PROVE  rows'[n].supersedes = rows[n].supersedes /\ (~rows[n].is_latest => ~rows'[n].is_latest)
    <3>1. PICK row \in Row : row = rows[n]
      BY <1>0 DEF StoresOK
    <3>2. rows'[n] = row \/ rows'[n] = [row EXCEPT !.is_latest = FALSE, !.superseded_by = m]
      BY <1>4, <3>1 DEF RowMarked
    <3>. QED BY <3>1, <3>2 DEF Row
  <2>. QED BY <1>0, <1>1, <2>1, <2>2 DEF RowsRetired
<1>. QED BY <1>2, <1>3, <1>4, StepWritesRows
\* The calls stand still, and a store has lost something at most.
LEMMA ShrinkingRetires ==
    ASSUME Retiring, UNCHANGED <<locals, minted>>,
           DOMAIN points' \subseteq DOMAIN points, \A m \in DOMAIN points' : points'[m] = points[m],
           DOMAIN rows' \subseteq DOMAIN rows, \A m \in DOMAIN rows' : rows'[m] = rows[m]
    PROVE  Retiring'
<1>1. \A old : /\ Settled(old) => (Settled(old))'
               /\ Unmarked(old) => (Unmarked(old))'
  BY CallsKeepCourse DEF Settled
<1>2. SettledLinks'
  BY <1>1 DEF Retiring, SettledLinks
<1>3. PointsRetired'
  BY DEF Retiring, PointsRetired
<1>4. RowsRetired'
  BY <1>1 DEF Retiring, RowsRetired
<1>5. \A c \in Calls : MintedLinks(c)'
  BY DEF Retiring, MintedLinks, locals
<1>. QED BY <1>2, <1>3, <1>4, <1>5 DEF Retiring

LEMMA CallKeepsRetiring ==
    ASSUME HasDb, \A d, e \in Calls : d = e, MirrorInv, Derived, Retiring, Copying = {}, ~raced, NEW c \in Calls, Step(c),
           UNCHANGED <<job, history>>
    PROVE  Retiring'
<1>1. Alone(c) /\ Ingests(c) /\ TypeOK /\ Owned
  BY CallIngests DEF Alone, MirrorInv, history
<1>2. MintedLinks(c)'
  BY <1>1, StepLinks DEF Retiring, Ingests
<1>3. SettledLinks' /\ PointsRetired' /\ RowsRetired'
  BY <1>1, StepSettles, StepRetiresPoints, StepRetiresRows
<1>. QED BY <1>1, <1>2, <1>3 DEF Retiring, Alone

LEMMA IndexKeepsRetiring ==
    ASSUME \A d, e \in Calls : d = e, MirrorInv, Retiring, NEW c \in Calls,
           NEW t \in Tags, NEW B \in SUBSET Memories, IndexMemories(c, t, B)
    PROVE  Retiring'
<1>0. LocalsOK /\ Owned /\ pc[c] = "idle" /\ UNCHANGED <<points, rows>> /\ minted' = minted \union B /\ B \intersect minted = {}
  BY TypeOKSplits DEF MirrorInv, IndexMemories, stores
<1>1. None \notin B
  BY NoneAssumption
<1>2. /\ todo'[c] \subseteq B /\ near' = near /\ DOMAIN near[c] = {} /\ DOMAIN plan'[c] \subseteq B
      /\ \A m \in DOMAIN plan'[c] : plan'[c][m].supersedes = None
  BY <1>0 DEF Owned, IndexMemories, LocalsOK, Batch, Nothing, PlainNew, Store
<1>3. ToStore(c)' \subseteq B /\ ToMark(c) = {}
  BY <1>0, <1>2 DEF ToStore, Batch, ToMark
<1>4. \A old : Settled(old) => (Settled(old))'
  BY <1>0, <1>1, <1>3 DEF Settled
<1>5. \A old : ~Unmarked(old)
  BY <1>3 DEF Unmarked
<1>6. MintedLinks(c)'
  BY <1>2 DEF MintedLinks
<1>7. SettledLinks' /\ PointsRetired' /\ RowsRetired'
  BY <1>0, <1>4, <1>5 DEF Retiring, SettledLinks, PointsRetired, RowsRetired
<1>. QED BY <1>6, <1>7 DEF Retiring

\* A rebuild, at rest, writes what the rows say.
LEMMA RebuildRetires ==
    ASSUME \A c \in Calls : pc[c] = "idle", UNCHANGED <<rows, locals, minted>>, Retiring, Derived'
    PROVE  Retiring'
<1>1. \A c \in Calls : ToStore(c)' = {} /\ ToMark(c)' = {} /\ ToMark(c) = {}
  BY DEF locals, ToStore, ToMark
<1>2. DOMAIN points' \subseteq DOMAIN rows
  BY <1>1 DEF Derived, Accounted
<1>3. \A m \in DOMAIN points' : points'[m].supersedes = rows[m].supersedes /\ points'[m].is_latest = rows[m].is_latest
  <2>1. \A m \in DOMAIN points' : points'[m] = FactOf(rows[m])
    BY <1>1, <1>2 DEF Derived, Agreeing, Agrees, Unmarked
  <2>2. \A row : FactOf(row).supersedes = row.supersedes /\ FactOf(row).is_latest = row.is_latest
    BY DEF FactOf
  <2>. QED BY <2>1, <2>2
<1>4. \A old : Settled(old) => (Settled(old))'
  BY CallsKeepCourse DEF Settled
<1>5. SettledLinks'
  BY <1>2, <1>3, <1>4 DEF Retiring, SettledLinks
<1>6. RowsRetired' /\ \A m \in DOMAIN rows : rows[m].supersedes \in DOMAIN rows => ~rows[rows[m].supersedes].is_latest
  BY <1>1 DEF Retiring, RowsRetired, Unmarked
<1>7. PointsRetired'
  BY <1>2, <1>3, <1>6 DEF PointsRetired
<1>8. \A c \in Calls : MintedLinks(c)'
  BY DEF Retiring, MintedLinks, locals
<1>. QED BY <1>5, <1>6, <1>7, <1>8 DEF Retiring

LEMMA RetiringInvInit == MirrorInit => RetiringInv
<1>. SUFFICES ASSUME MirrorInit PROVE RetiringInv
  OBVIOUS
<1>1. DOMAIN points = {} /\ DOMAIN rows = {} /\ \A c \in Calls : DOMAIN near[c] = {} /\ DOMAIN plan[c] = {}
  BY DEF MirrorInit, Init, Nothing
<1>2. Retiring
  BY <1>1 DEF Retiring, SettledLinks, PointsRetired, RowsRetired, MintedLinks
<1>. QED BY <1>2, DerivedInvInit DEF RetiringInv

LEMMA RetiringInvStep ==
    ASSUME HasDb, \A c, d \in Calls : c = d
    PROVE  RetiringInv /\ [MirrorNext]_mirrorVars => RetiringInv'
<1>. SUFFICES ASSUME RetiringInv, [MirrorNext]_mirrorVars, ~failed', ~raced' PROVE Retiring'
  BY DerivedInvStep DEF RetiringInv
<1>. USE DEF history, stores
<1>0. DerivedInv /\ MirrorInv /\ (~failed /\ ~raced => Derived /\ Retiring) /\ Derived'
  BY DerivedInvStep DEF RetiringInv, DerivedInv
<1>1. CASE Ingest
  <2>1. ~raced /\ Copying = {} /\ UNCHANGED <<job, history>>
    BY <1>1 DEF Ingest
  <2>2. ASSUME NEW c \in Calls, NEW t \in Tags, NEW B \in SUBSET Memories, IndexMemories(c, t, B) PROVE Retiring'
    <3>1. UNCHANGED failed
      BY <2>2 DEF IndexMemories
    <3>. QED BY <1>0, <2>1, <2>2, <3>1, IndexKeepsRetiring
  <2>3. ASSUME NEW c \in Calls, Step(c) PROVE Retiring'
    <3>1. UNCHANGED failed
      BY <2>3 DEF Step, SearchNeighbors, Reconcile, WritePlain, Flip, WriteSuperseding, PgInsertMemory,
                  PgMarkSuperseded, PgInsertEvidence, PgEvidenceRejected, PgLoopDone
    <3>. QED BY <1>0, <2>1, <2>3, <3>1, CallKeepsRetiring
  <2>4. ASSUME NEW c \in Calls, StoreFailure(c) \/ Abort(c) PROVE failed'
    BY <2>4 DEF StoreFailure, WritePlainFails, FlipFails, WriteSupersedingFails, PgLoopFails, Abort
  <2>. QED BY <1>1, <2>2, <2>3, <2>4 DEF Ingest, Next
<1>2. CASE LoseIndex
  <2>1. DOMAIN points' = {} /\ UNCHANGED <<rows, locals, minted, failed, raced>>
    BY <1>2 DEF LoseIndex, Nothing
  <2>. QED BY <1>0, <2>1, ShrinkingRetires
<1>3. CASE UNCHANGED mirrorVars
  BY <1>0, <1>3, ShrinkingRetires DEF mirrorVars, vars
<1>4. ASSUME NEW j \in Jobs, Maintain(j) PROVE Retiring'
  <2>1. UNCHANGED <<failed, locals, minted>>
    BY <1>4 DEF Maintain, ForgetMemory, ForgetStep, ForgetFails, BackfillToPg, BackfillRow, BackfillEnds,
                RebuildIndexFromPg, RebuildUpsert, RebuildFails, vars
  <2>2. ~raced
    BY <1>4 DEF Maintain, ForgetMemory, ForgetStep, ForgetFails, BackfillToPg, BackfillRow, BackfillEnds,
                RebuildIndexFromPg, RebuildUpsert, RebuildFails, NotesRace
  <2>3. Derived /\ Retiring /\ TypeOK /\ JobsOK /\ Owned /\ Erasing
    BY <1>0, <2>1, <2>2 DEF MirrorInv
  <2>4. CASE UNCHANGED <<points, rows>>
    BY <2>1, <2>3, <2>4, ShrinkingRetires
  <2>5. CASE ForgetStep(j)
    <3>1. job[j].op = "forget" /\ Erases(EraseOrder[job[j].step], job[j].victim, job[j].tag) /\ job[j].step \in {1, 2, 3}
      BY <2>3, <2>5 DEF ForgetStep, JobsOK, JobOK
    <3>2. Shrinks
      BY <2>3, <3>1, ErasesShrinks DEF Owned
    <3>. QED BY <2>1, <2>3, <3>2, ShrinkingRetires DEF Shrinks
  <2>6. ASSUME NEW m \in Memories, BackfillRow(j, m) PROVE UNCHANGED <<points, rows>>
    BY <2>3, <2>6, BackfillKeepsRows
  <2>7. CASE RebuildUpsert(j) \/ RebuildFails(j)
    <3>1. job[j].op = "rebuild" /\ UNCHANGED rows
      BY <2>7 DEF RebuildUpsert, RebuildFails
    <3>2. \A c \in Calls : pc[c] = "idle"
      BY <2>3, <3>1 DEF Erasing, Copies
    <3>. QED BY <1>0, <2>1, <2>3, <3>1, <3>2, RebuildRetires
  <2>. QED BY <1>4, <2>1, <2>4, <2>5, <2>6, <2>7 DEF Maintain, ForgetMemory, ForgetFails, BackfillToPg, BackfillEnds,
          RebuildIndexFromPg, vars
<1>. QED BY <1>1, <1>2, <1>3, <1>4 DEF MirrorNext

\* "a rebuild/backfill reconciles any drift" (mod.rs:1115) is true of documents
\* ingested one at a time, for any number of memories, namespaces and maintenance
\* requests: no memory is served once one that supersedes it is stored, whatever
\* is lost, erased and rebuilt.  That it fails without a failure and without a
\* race of snapshots takes two ingests that overlap: the run mirror_drift.
THEOREM RetiredOneByOne ==
    ASSUME HasDb, \A c, d \in Calls : c = d
    PROVE  MirrorSpec => []SupersededStaysRetired
<1>1. RetiringInv => SupersededStaysRetired
  BY DEF RetiringInv, Retiring, PointsRetired, SupersededStaysRetired
<1>. QED BY <1>1, RetiringInvInit, RetiringInvStep, PTL DEF MirrorSpec
=============================================================================

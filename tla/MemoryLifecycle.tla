--------------------------- MODULE MemoryLifecycle ---------------------------
(***************************************************************************)
(* Concurrent fact ingestion: index_memories of engine/mod.rs.             *)
(*                                                                         *)
(* Each call in Calls is one future running index_memories for one         *)
(* document: search the neighbours of every fact, let the classifier       *)
(* reconcile the batch, write to Qdrant, then mirror to Postgres.  Nothing *)
(* locks the facts collection, so the steps of different calls interleave  *)
(* at every await.                                                         *)
(*                                                                         *)
(* Any store call may fail, any number of times.  A failed write may still *)
(* have taken effect on any part of the batch (the HTTP client gives up    *)
(* after 30 s, the store need not).  Abort is a future dropped between two *)
(* awaits: a client that disconnects, or the process dying.                *)
(*                                                                         *)
(* Abstracted: text and vectors (a fact is its point id, its neighbours    *)
(* are any TopK active memories of the namespace), expiry (an expired      *)
(* memory is one the search did not return), kind/confidence/title, and    *)
(* the embedding call (it fails before anything is written).               *)
(***************************************************************************)
EXTENDS ReconcilePolicy, Naturals, FiniteSets

CONSTANTS
    Calls,        \* concurrent index_memories calls
    Tags,         \* namespaces (container_tag)
    TopK,         \* RECONCILE_TOPK
    FlipTries,    \* attempts at the supersession flip
    MemoryGraph,  \* cfg.memory_graph: reconcile at all?
    HasDb,        \* is a relational store attached?
    Grounded,     \* facts whose evidence quote is found in a chunk
    MaxFacts      \* bound: facts of one document

ASSUME LifecycleAssumption ==
    /\ TopK \in Nat
    /\ FlipTries \in Nat \ {0}
    /\ MaxFacts \in Nat
    /\ MemoryGraph \in BOOLEAN
    /\ HasDb \in BOOLEAN
    /\ Grounded \subseteq Memories

VARIABLES
    points,    \* Qdrant facts collection: id -> payload
    rows,      \* Postgres memories table: id -> row
    evidence,  \* ids with a memory_evidence row
    minted,    \* ids already handed out
    pc,        \* where each call is
    tag,       \* the namespace it writes to
    near,      \* neighbours read so far, per fact
    plan,      \* the reconciled actions, per fact
    todo,      \* facts left in the loop the call is in
    tries,     \* failed flips so far
    failed     \* history: has any store call failed, or any call aborted?

stores == <<points, rows, evidence>>
locals == <<pc, tag, near, plan, todo, tries>>
vars == <<stores, minted, locals, failed>>

MirrorPhases == {"pg_insert", "pg_mark", "pg_evidence"}

Phases == {"idle", "search", "plain", "flip", "supersede"} \union MirrorPhases

Point == [tag          : Tags,
          is_latest    : BOOLEAN,
          needs_review : BOOLEAN,
          supersedes   : Memories \union {None},
          extends      : Memories \union {None}]

Row == [tag           : Tags,
        is_latest     : BOOLEAN,
        needs_review  : BOOLEAN,
        supersedes    : Memories \union {None},
        superseded_by : Memories \union {None},
        extends       : Memories \union {None}]

Nothing == [m \in {} |-> None]      \* the empty map

-----------------------------------------------------------------------------
(* The facts of a batch, by what happens to them.                          *)

\* Everything but duplicates is stored.
Kept(c) == {m \in DOMAIN plan[c] : plan[c][m].relation # "Duplicate"}

Superseding(c) == {m \in Kept(c) : plan[c][m].supersedes # None}

\* Mutant: a quarantined fact is dropped instead of stored.
PlainWithoutQuarantine(c) ==
    {m \in Kept(c) \ Superseding(c) : plan[c][m].relation # "NeedsReview"}

Plain(c) == Kept(c) \ Superseding(c)

\* Mutant: the memories a fact extends are demoted too.
SupersededAndExtended(c) ==
    {plan[c][m].supersedes : m \in Superseding(c)} \union
    ({plan[c][m].extends : m \in Kept(c)} \ {None})

Superseded(c) == {plan[c][m].supersedes : m \in Superseding(c)}

\* Mutant: the payload is written without its "extends" key.
PointWithoutExtends(c, m) == [tag          |-> tag[c],
                              is_latest    |-> TRUE,
                              needs_review |-> plan[c][m].relation = "NeedsReview",
                              supersedes   |-> plan[c][m].supersedes]

PointOf(c, m) == [tag          |-> tag[c],
                  is_latest    |-> TRUE,
                  needs_review |-> plan[c][m].relation = "NeedsReview",
                  supersedes   |-> plan[c][m].supersedes,
                  extends      |-> plan[c][m].extends]

RowOf(c, m) == [tag           |-> tag[c],
                is_latest     |-> TRUE,
                needs_review  |-> plan[c][m].relation = "NeedsReview",
                supersedes    |-> plan[c][m].supersedes,
                superseded_by |-> None,
                extends       |-> plan[c][m].extends]

-----------------------------------------------------------------------------
(* The stores' operations.                                                 *)

\* Mutant: the search is not scoped to the namespace.
ActiveAnywhere(t) == {m \in DOMAIN points :
                         points[m].is_latest /\ ~points[m].needs_review}

\* tagged_filter: every search is confined to one namespace.
Tagged(t) == {m \in DOMAIN points : points[m].tag = t}

\* Mutant: quarantined memories take part in reconciliation.
ActiveOrQuarantined(t) == {m \in Tagged(t) : points[m].is_latest}

\* active_facts_filter: what a reconcile search may return.
Active(t) == {m \in Tagged(t) : points[m].is_latest /\ ~points[m].needs_review}

Upserted(c, S) == [m \in DOMAIN points \union S |->
                      IF m \in S THEN PointOf(c, m) ELSE points[m]]

\* set_payload {is_latest: false}: merges into the points that exist.
Demoted(S) == [m \in DOMAIN points |->
                  IF m \in S THEN [points[m] EXCEPT !.is_latest = FALSE]
                             ELSE points[m]]

\* insert ... on conflict (id) do nothing
RowInserted(m, row) == [k \in DOMAIN rows \union {m} |->
                           IF k \in DOMAIN rows THEN rows[k] ELSE row]

\* Mutant: the update links the old row but leaves it current.
RowMarkedStillLatest(old, new) ==
    [k \in DOMAIN rows |->
        IF k = old THEN [rows[k] EXCEPT !.superseded_by = new] ELSE rows[k]]

\* update memories set ... where id = old: touches a row only if there is one.
RowMarked(old, new) == [k \in DOMAIN rows |->
    IF k = old THEN [rows[k] EXCEPT !.is_latest = FALSE, !.superseded_by = new]
               ELSE rows[k]]

-----------------------------------------------------------------------------
(* Control.                                                                *)

\* The call returns, or its future is dropped.
Ends(c) == /\ pc' = [pc EXCEPT ![c] = "idle"]
           /\ tag' = [tag EXCEPT ![c] = None]
           /\ near' = [near EXCEPT ![c] = Nothing]
           /\ plan' = [plan EXCEPT ![c] = Nothing]
           /\ todo' = [todo EXCEPT ![c] = {}]
           /\ tries' = [tries EXCEPT ![c] = 0]

\* Moves to a phase whose loop, if it has one, runs over S.
Goes(c, phase, S) == /\ pc' = [pc EXCEPT ![c] = phase]
                     /\ todo' = [todo EXCEPT ![c] = S]
                     /\ UNCHANGED <<tag, near, plan, tries>>

\* The Qdrant writes are done: mirror them if a relational store is attached.
Mirrors(c) == IF HasDb THEN Goes(c, "pg_insert", Kept(c)) ELSE Ends(c)

Init == /\ points = Nothing
        /\ rows = Nothing
        /\ evidence = {}
        /\ minted = {}
        /\ pc = [c \in Calls |-> "idle"]
        /\ tag = [c \in Calls |-> None]
        /\ near = [c \in Calls |-> Nothing]
        /\ plan = [c \in Calls |-> Nothing]
        /\ todo = [c \in Calls |-> {}]
        /\ tries = [c \in Calls |-> 0]
        /\ failed = FALSE

-----------------------------------------------------------------------------
(* Reconciliation.                                                         *)

\* Mutant: point ids are derived from the text, so a fact seen again reuses one.
IndexMemoriesReusingIds(c, t, B) ==
    /\ pc[c] = "idle"
    /\ B # {} /\ Cardinality(B) <= MaxFacts
    /\ minted' = minted \union B
    /\ pc' = [pc EXCEPT ![c] = "search"]
    /\ tag' = [tag EXCEPT ![c] = t]
    /\ todo' = [todo EXCEPT ![c] = B]
    /\ UNCHANGED <<stores, near, plan, tries, failed>>

\* A document of namespace t was distilled into the facts B.
IndexMemories(c, t, B) ==
    /\ pc[c] = "idle"
    /\ B # {} /\ B \intersect minted = {} /\ Cardinality(B) <= MaxFacts
    /\ minted' = minted \union B
    /\ pc' = [pc EXCEPT ![c] = IF MemoryGraph THEN "search" ELSE "plain"]
    /\ tag' = [tag EXCEPT ![c] = t]
    /\ todo' = [todo EXCEPT ![c] = IF MemoryGraph THEN B ELSE {}]
    /\ plan' = [plan EXCEPT ![c] = IF MemoryGraph THEN Nothing
                                   ELSE [m \in B |-> PlainNew]]
    /\ UNCHANGED <<stores, near, tries, failed>>

\* One fact's neighbour search; a failed search counts as no neighbours.
SearchNeighbors(c, m) ==
    /\ pc[c] = "search" /\ m \in todo[c]
    /\ \E S \in SUBSET Active(tag[c]) :
          /\ Cardinality(S) <= TopK
          /\ near' = [near EXCEPT ![c] =
                        [k \in DOMAIN near[c] \union {m} |->
                            IF k = m THEN S ELSE near[c][k]]]
    /\ todo' = [todo EXCEPT ![c] = @ \ {m}]
    /\ UNCHANGED <<stores, minted, pc, tag, plan, tries, failed>>

\* memory::reconcile over the whole batch, in one model call.
Reconcile(c) ==
    /\ pc[c] = "search" /\ todo[c] = {}
    /\ \E p \in ClassifiedPlans(near[c]) \union {DegradedPlan(near[c])} :
          plan' = [plan EXCEPT ![c] = p]
    /\ near' = [near EXCEPT ![c] = Nothing]
    /\ pc' = [pc EXCEPT ![c] = "plain"]
    /\ UNCHANGED <<stores, minted, tag, todo, tries, failed>>

-----------------------------------------------------------------------------
(* The Qdrant writes.                                                      *)

\* Mutant: the whole batch is written at once, ahead of the flip.
WritePlainAndSuperseding(c) ==
    /\ pc[c] = "plain"
    /\ points' = Upserted(c, Kept(c))
    /\ IF Superseding(c) = {} THEN Mirrors(c) ELSE Goes(c, "flip", {})
    /\ UNCHANGED <<rows, evidence, minted, failed>>

WritePlain(c) ==
    /\ pc[c] = "plain"
    /\ points' = Upserted(c, Plain(c))
    /\ IF Superseding(c) = {} THEN Mirrors(c) ELSE Goes(c, "flip", {})
    /\ UNCHANGED <<rows, evidence, minted, failed>>

\* An empty upsert sends nothing, so only a non-empty one can fail.
WritePlainFails(c) ==
    /\ pc[c] = "plain" /\ Plain(c) # {}
    /\ failed' = TRUE
    /\ \E S \in SUBSET Plain(c) : points' = Upserted(c, S)
    /\ Ends(c)
    /\ UNCHANGED <<rows, evidence, minted>>

Flip(c) ==
    /\ pc[c] = "flip"
    /\ points' = Demoted(Superseded(c))
    /\ Goes(c, "supersede", {})
    /\ UNCHANGED <<rows, evidence, minted, failed>>

\* Mutant: giving up on the flip does not stop the superseding write.
FlipFailsThenWrites(c) ==
    /\ pc[c] = "flip"
    /\ failed' = TRUE
    /\ \E S \in SUBSET Superseded(c) : points' = Demoted(S)
    /\ IF tries[c] + 1 < FlipTries
       THEN /\ tries' = [tries EXCEPT ![c] = @ + 1]
            /\ UNCHANGED <<pc, tag, near, plan, todo>>
       ELSE Goes(c, "supersede", {})
    /\ UNCHANGED <<rows, evidence, minted>>

\* Mutant: giving up on the flip still mirrors the batch.
FlipFailsThenMirrors(c) ==
    /\ pc[c] = "flip"
    /\ failed' = TRUE
    /\ \E S \in SUBSET Superseded(c) : points' = Demoted(S)
    /\ IF tries[c] + 1 < FlipTries
       THEN /\ tries' = [tries EXCEPT ![c] = @ + 1]
            /\ UNCHANGED <<pc, tag, near, plan, todo>>
       ELSE Mirrors(c)
    /\ UNCHANGED <<rows, evidence, minted>>

\* Mutant: after the last attempt the three attempts start over.
FlipFailsForever(c) ==
    /\ pc[c] = "flip"
    /\ failed' = TRUE
    /\ \E S \in SUBSET Superseded(c) : points' = Demoted(S)
    /\ tries' = [tries EXCEPT ![c] = (@ + 1) % FlipTries]
    /\ UNCHANGED <<rows, evidence, minted, pc, tag, near, plan, todo>>

\* After the last attempt the superseding facts are dropped with an error.
FlipFails(c) ==
    /\ pc[c] = "flip"
    /\ failed' = TRUE
    /\ \E S \in SUBSET Superseded(c) : points' = Demoted(S)
    /\ IF tries[c] + 1 < FlipTries
       THEN /\ tries' = [tries EXCEPT ![c] = @ + 1]
            /\ UNCHANGED <<pc, tag, near, plan, todo>>
       ELSE Ends(c)
    /\ UNCHANGED <<rows, evidence, minted>>

WriteSuperseding(c) ==
    /\ pc[c] = "supersede"
    /\ points' = Upserted(c, Superseding(c))
    /\ Mirrors(c)
    /\ UNCHANGED <<rows, evidence, minted, failed>>

WriteSupersedingFails(c) ==
    /\ pc[c] = "supersede"
    /\ failed' = TRUE
    /\ \E S \in SUBSET Superseding(c) : points' = Upserted(c, S)
    /\ Ends(c)
    /\ UNCHANGED <<rows, evidence, minted>>

-----------------------------------------------------------------------------
(* The Postgres mirror: three loops, one awaited statement per row.        *)

PgInsertMemory(c, m) ==
    /\ pc[c] = "pg_insert" /\ m \in todo[c]
    /\ rows' = RowInserted(m, RowOf(c, m))
    /\ todo' = [todo EXCEPT ![c] = @ \ {m}]
    /\ UNCHANGED <<points, evidence, minted, pc, tag, near, plan, tries, failed>>

PgMarkSuperseded(c, m) ==
    /\ pc[c] = "pg_mark" /\ m \in todo[c]
    /\ rows' = RowMarked(plan[c][m].supersedes, m)
    /\ todo' = [todo EXCEPT ![c] = @ \ {m}]
    /\ UNCHANGED <<points, evidence, minted, pc, tag, near, plan, tries, failed>>

\* memory_id references memories(id): no row, no evidence.
PgInsertEvidence(c, m) ==
    /\ pc[c] = "pg_evidence" /\ m \in todo[c] /\ m \in DOMAIN rows
    /\ evidence' = evidence \union {m}
    /\ todo' = [todo EXCEPT ![c] = @ \ {m}]
    /\ UNCHANGED <<points, rows, minted, pc, tag, near, plan, tries, failed>>

\* From one loop to the next; the errors of a loop are only logged.
AdvanceMirror(c) ==
    \/ pc[c] = "pg_insert" /\ Goes(c, "pg_mark", Superseding(c))
    \/ pc[c] = "pg_mark" /\ Goes(c, "pg_evidence", Kept(c) \intersect Grounded)
    \/ pc[c] = "pg_evidence" /\ Ends(c)

PgLoopDone(c) ==
    /\ todo[c] = {}
    /\ AdvanceMirror(c)
    /\ UNCHANGED <<stores, minted, failed>>

\* A failed statement ends its loop and leaves the rest of the loop undone.
PgLoopFails(c) ==
    /\ todo[c] # {}
    /\ failed' = TRUE
    /\ AdvanceMirror(c)
    /\ UNCHANGED <<stores, minted>>

\* The foreign key rejects the evidence of a memory whose row is missing.
PgEvidenceRejected(c, m) ==
    /\ pc[c] = "pg_evidence" /\ m \in todo[c] /\ m \notin DOMAIN rows
    /\ Ends(c)
    /\ UNCHANGED <<stores, minted, failed>>

-----------------------------------------------------------------------------
Abort(c) ==
    /\ pc[c] # "idle"
    /\ failed' = TRUE
    /\ Ends(c)
    /\ UNCHANGED <<stores, minted>>

Step(c) ==
    \/ \E m \in Memories : SearchNeighbors(c, m)
    \/ Reconcile(c)
    \/ WritePlain(c)
    \/ Flip(c)
    \/ WriteSuperseding(c)
    \/ \E m \in Memories : PgInsertMemory(c, m)
    \/ \E m \in Memories : PgMarkSuperseded(c, m)
    \/ \E m \in Memories : PgInsertEvidence(c, m)
    \/ \E m \in Memories : PgEvidenceRejected(c, m)
    \/ PgLoopDone(c)

StoreFailure(c) ==
    \/ WritePlainFails(c)
    \/ FlipFails(c)
    \/ WriteSupersedingFails(c)
    \/ PgLoopFails(c)

Next == \E c \in Calls :
    \/ \E t \in Tags, B \in SUBSET Memories : IndexMemories(c, t, B)
    \/ Step(c)
    \/ StoreFailure(c)
    \/ Abort(c)

Spec == Init /\ [][Next]_vars

\* The runtime keeps polling a future that is ready, and every store call
\* returns, with success or with an error (30 s timeout on Qdrant requests).
FairSpec == Spec /\ \A c \in Calls : WF_vars(Step(c) \/ StoreFailure(c))

-----------------------------------------------------------------------------
(***************************************************************************)
(* Properties.                                                             *)
(***************************************************************************)

\* Every variable has its type.
TypeOK ==
    /\ DOMAIN points \subseteq Memories /\ points \in [DOMAIN points -> Point]
    /\ DOMAIN rows \subseteq Memories /\ rows \in [DOMAIN rows -> Row]
    /\ evidence \subseteq Memories
    /\ minted \subseteq Memories
    /\ pc \in [Calls -> Phases]
    /\ tag \in [Calls -> Tags \union {None}]
    /\ \A c \in Calls : pc[c] # "idle" => tag[c] \in Tags
    /\ DOMAIN near = Calls /\ DOMAIN plan = Calls
    /\ \A c \in Calls : /\ DOMAIN near[c] \subseteq Memories
                         /\ near[c] \in [DOMAIN near[c] -> SUBSET Memories]
    /\ \A c \in Calls : /\ DOMAIN plan[c] \subseteq Memories
                         /\ plan[c] \in [DOMAIN plan[c] -> Action]
    /\ todo \in [Calls -> SUBSET Memories]
    /\ \A c \in Calls : pc[c] \in MirrorPhases => todo[c] \subseteq DOMAIN plan[c]
    /\ tries \in [Calls -> Nat]
    /\ failed \in BOOLEAN

\* index_memories demotes first and writes the new value only after that
\* (mod.rs:1071): whatever fails or interleaves, search never serves a memory
\* together with one that supersedes it.
ReplacementWaitsForDemotion ==
    \A m \in DOMAIN points :
        LET old == points[m].supersedes IN
        old # None => old \in DOMAIN points /\ ~points[old].is_latest

\* A memory supersedes or extends only a memory of its own namespace, and
\* never a quarantined one, however stale the neighbours were that the
\* classifier saw.
LinksStayInNamespace ==
    \A m \in DOMAIN points :
        \A old \in {points[m].supersedes, points[m].extends} \ {None} :
            /\ old \in DOMAIN points
            /\ points[old].tag = points[m].tag
            /\ ~points[old].needs_review

\* No memory supersedes itself through any chain: every set of memories has one
\* whose predecessor lies outside it.
SupersessionIsAcyclic ==
    \A S \in SUBSET DOMAIN points :
        S # {} => \E m \in S : points[m].supersedes \notin S

\* Postgres trails Qdrant ("only after the Qdrant writes above succeed",
\* mod.rs:1112): a row has its point, and a row marked superseded names a
\* stored point that really supersedes it and has a demoted point of its own.
MirrorTrailsIndex ==
    /\ DOMAIN rows \subseteq DOMAIN points
    /\ \A m \in DOMAIN rows :
          LET new == rows[m].superseded_by IN
          new # None => /\ new \in DOMAIN points
                        /\ points[new].supersedes = m
                        /\ ~points[m].is_latest

\* While no call has failed, a memory leaves the served set only for a
\* replacement that is stored or that its call is about to store.
DemotionHasReplacement ==
    ~failed =>
        \A m \in DOMAIN points :
            ~points[m].is_latest =>
                \/ \E n \in DOMAIN points : points[n].supersedes = m
                \/ \E c \in Calls : pc[c] = "supersede" /\ m \in Superseded(c)

\* How a reader of the index sees a memory.
StatusOf(m) ==
    IF m \notin DOMAIN points THEN "unknown"
    ELSE IF ~points[m].is_latest THEN "retired"
    ELSE IF points[m].needs_review THEN "quarantined"
    ELSE "served"

ReplacedBy(m) == IF m \in DOMAIN points THEN points[m].supersedes ELSE None

Serving == INSTANCE MemoryServing WITH
    status   <- [m \in Memories |-> StatusOf(m)],
    replaces <- [m \in Memories |-> ReplacedBy(m)]

\* "The old memory is kept for history but flagged is_latest=false; search
\* returns only the new one" (memory.rs:7): the stored points implement the
\* abstract memory store, step by step.
ServingSpec == Serving!Spec

\* A call whose last step succeeds has every fact of its batch in the index,
\* duplicates excepted ("never lose a fact", memory.rs:166).
AckedFactsAreIndexed ==
    [][\A c \in Calls :
          pc'[c] = "idle" /\ Step(c) => Kept(c) \subseteq DOMAIN points']_vars

\* Every call returns: the flip is retried a bounded number of times.
CallsReturn == \A c \in Calls : pc[c] # "idle" ~> pc[c] = "idle"

\* "search returns only the new one" (memory.rs:8): a memory has at most one
\* served replacement.
OneServedReplacement ==
    \A m, n \in {k \in DOMAIN points : points[k].is_latest /\ points[k].supersedes # None} :
        points[m].supersedes = points[n].supersedes => m = n
==============================================================================

------------------------------ MODULE FactMirror ------------------------------
(***************************************************************************)
(* The two copies of the facts, maintained while documents are ingested:   *)
(* Qdrant (points) and Postgres (rows, evidence), with the requests that   *)
(* move facts from one to the other or erase them from both:               *)
(* forget_memory, backfill_to_pg and rebuild_index_from_pg of engine/mod.rs*)
(* and the loss of the whole vector index, which a rebuild is to undo.     *)
(*                                                                         *)
(* Ingestion is MemoryLifecycle, unchanged.  Every job in Jobs is one HTTP *)
(* request; nothing excludes two of them, or one of them and an ingest.    *)
(* backfill and rebuild read a snapshot first and write it back later.     *)
(*                                                                         *)
(* Abstracted: documents and chunks (copied by the same two passes), text  *)
(* and embeddings, legacy points without lifecycle fields, the audit row,  *)
(* and the pages of a scroll (256 points each) that succeeds.              *)
(***************************************************************************)
EXTENDS MemoryLifecycle, Sequences

CONSTANT Jobs       \* concurrent maintenance requests

VARIABLES
    job,       \* what each request is doing
    asked,     \* history: memories whose erasure has passed its gate
    erased,    \* history: memories whose erasure returned Ok(true)
    lost,      \* history: namespaces whose index was lost and not rebuilt since
    raced      \* history: has a snapshot been overtaken by another actor?

history == <<asked, erased, lost>>
mirrorVars == <<vars, job, history, raced>>

Idle == [op |-> "idle", tag |-> None, victim |-> None, step |-> 0, snap |-> Nothing]

\* The order in which forget_memory and delete_memory erase the copies.
EraseRowFirst == <<"evidence", "row", "vector">>     \* Mutant
EraseOrder == <<"vector", "evidence", "row">>

Running(op) == {j \in Jobs : job[j].op = op}

\* Requests between their snapshot and their last write.
Copying == Running("backfill") \union Running("rebuild")

\* Something but j is in the middle of its work.
OthersBusy(j) ==
    \/ \E c \in Calls : pc[c] # "idle"
    \/ \E k \in Jobs \ {j} : job[k].op # "idle"

Becomes(j, r) == job' = [job EXCEPT ![j] = r]

\* A write of j while another request holds a snapshot.
NotesRace(j) == raced' = (raced \/ Copying \ {j} # {})

-----------------------------------------------------------------------------
(* The two conversions between a point and a row.                          *)

\* Mutant: a rebuilt point loses its "extends" link.
FactOfWithoutExtends(row) == [tag          |-> row.tag,
                              is_latest    |-> row.is_latest,
                              needs_review |-> row.needs_review,
                              supersedes   |-> row.supersedes]

FactOf(row) == [tag          |-> row.tag,
                is_latest    |-> row.is_latest,
                needs_review |-> row.needs_review,
                supersedes   |-> row.supersedes,
                extends      |-> row.extends]

\* The payload does not say by what a memory was superseded.
RowFrom(point) == [tag           |-> point.tag,
                   is_latest     |-> point.is_latest,
                   needs_review  |-> point.needs_review,
                   supersedes    |-> point.supersedes,
                   superseded_by |-> None,
                   extends       |-> point.extends]

RowsOf(t) == {m \in DOMAIN rows : rows[m].tag = t}

\* Upsert replaces the whole payload.
Overwritten(new) == [m \in DOMAIN points \union DOMAIN new |->
                        IF m \in DOMAIN new THEN new[m] ELSE points[m]]

-----------------------------------------------------------------------------
(* Ingestion goes on.                                                      *)

Ingest == /\ Next
          /\ raced' = (raced \/ Copying # {})
          /\ UNCHANGED <<job, history>>

-----------------------------------------------------------------------------
(* Erasure.                                                                *)

\* Mutant: the gate does not look at the namespace.
ForgetMemoryAnywhere(j, t, m) ==
    /\ job[j].op = "idle"
    /\ m \in DOMAIN rows
    /\ Becomes(j, [Idle EXCEPT !.op = "forget", !.tag = t, !.victim = m, !.step = 1])
    /\ asked' = asked \union {m}
    /\ UNCHANGED <<vars, erased, lost, raced>>

\* The ownership gate.  A request it turns away returns Ok(false), unchanged.
ForgetMemory(j, t, m) ==
    /\ job[j].op = "idle"
    /\ m \in RowsOf(t)
    /\ Becomes(j, [Idle EXCEPT !.op = "forget", !.tag = t, !.victim = m, !.step = 1])
    /\ asked' = asked \union {m}
    /\ UNCHANGED <<vars, erased, lost, raced>>

\* One delete.  Evidence goes only while the row is there to vouch for the
\* namespace, and also by cascade with the row.
Erases(what, m, t) ==
    CASE what = "vector" ->
            /\ points' = [k \in DOMAIN points \ {m} |-> points[k]]
            /\ UNCHANGED <<rows, evidence>>
      [] what = "evidence" ->
            /\ evidence' = IF m \in RowsOf(t) THEN evidence \ {m} ELSE evidence
            /\ UNCHANGED <<points, rows>>
      [] what = "row" ->
            /\ rows' = [k \in DOMAIN rows \ ({m} \intersect RowsOf(t)) |-> rows[k]]
            /\ evidence' = IF m \in RowsOf(t) THEN evidence \ {m} ELSE evidence
            /\ UNCHANGED points

\* Mutant: a vector that could not be deleted does not stop the request.
ForgetStepBestEffort(j) ==
    LET m == job[j].victim
        k == job[j].step
    IN  /\ job[j].op = "forget"
        /\ \/ Erases(EraseOrder[k], m, job[j].tag)
           \/ EraseOrder[k] = "vector" /\ UNCHANGED stores
        /\ IF k = Len(EraseOrder)
           THEN Becomes(j, Idle) /\ erased' = erased \union {m}
           ELSE Becomes(j, [job[j] EXCEPT !.step = k + 1]) /\ UNCHANGED erased
        /\ NotesRace(j)
        /\ UNCHANGED <<minted, locals, failed, asked, lost>>

ForgetStep(j) ==
    LET m == job[j].victim
        k == job[j].step
    IN  /\ job[j].op = "forget"
        /\ Erases(EraseOrder[k], m, job[j].tag)
        /\ IF k = Len(EraseOrder)
           THEN Becomes(j, Idle) /\ erased' = erased \union {m}
           ELSE Becomes(j, [job[j] EXCEPT !.step = k + 1]) /\ UNCHANGED erased
        /\ NotesRace(j)
        /\ UNCHANGED <<minted, locals, failed, asked, lost>>

\* A delete returns an error, whether or not it took effect, or the request
\* is dropped before it.
ForgetFails(j) ==
    /\ job[j].op = "forget"
    /\ \/ Erases(EraseOrder[job[j].step], job[j].victim, job[j].tag)
       \/ UNCHANGED stores
    /\ Becomes(j, Idle)
    /\ failed' = TRUE
    /\ NotesRace(j)
    /\ UNCHANGED <<minted, locals, history>>

-----------------------------------------------------------------------------
(* Backfill: Qdrant to Postgres.                                           *)

\* scroll_all takes an error reply for the end of the collection, so a
\* backfill may go on with the part of the namespace it has read.
BackfillToPg(j, t) ==
    /\ job[j].op = "idle"
    /\ \E S \in SUBSET Tagged(t) :
          Becomes(j, [Idle EXCEPT !.op = "backfill", !.tag = t,
                                  !.snap = [m \in S |-> RowFrom(points[m])]])
    /\ raced' = (raced \/ OthersBusy(j))
    /\ UNCHANGED <<vars, history>>

\* insert_memories: one row, unless there is one already.
BackfillRow(j, m) ==
    /\ job[j].op = "backfill" /\ m \in DOMAIN job[j].snap
    /\ rows' = RowInserted(m, job[j].snap[m])
    /\ Becomes(j, [job[j] EXCEPT !.snap =
                      [k \in DOMAIN job[j].snap \ {m} |-> job[j].snap[k]]])
    /\ NotesRace(j)
    /\ UNCHANGED <<points, evidence, minted, locals, failed, history>>

\* The last row is in, or a statement failed, or the request was dropped:
\* the rows inserted so far stay, and another backfill may complete them.
BackfillEnds(j) ==
    /\ job[j].op = "backfill"
    /\ Becomes(j, Idle)
    /\ UNCHANGED <<vars, history, raced>>

-----------------------------------------------------------------------------
(* Rebuild: Postgres to Qdrant.                                            *)

\* memories_for_tag; the embedding of the statements is awaited after it.
RebuildIndexFromPg(j, t) ==
    /\ job[j].op = "idle"
    /\ Becomes(j, [Idle EXCEPT !.op = "rebuild", !.tag = t,
                               !.snap = [m \in RowsOf(t) |-> FactOf(rows[m])]])
    /\ raced' = (raced \/ OthersBusy(j))
    /\ UNCHANGED <<vars, history>>

RebuildUpsert(j) ==
    /\ job[j].op = "rebuild"
    /\ points' = Overwritten(job[j].snap)
    /\ lost' = lost \ {job[j].tag}
    /\ Becomes(j, Idle)
    /\ NotesRace(j)
    /\ UNCHANGED <<rows, evidence, minted, locals, failed, asked, erased>>

\* The embedder or the upsert fails, with any part of the points written, or
\* the request is dropped.
RebuildFails(j) ==
    /\ job[j].op = "rebuild"
    /\ \E S \in SUBSET DOMAIN job[j].snap :
          points' = Overwritten([m \in S |-> job[j].snap[m]])
    /\ Becomes(j, Idle)
    /\ NotesRace(j)
    /\ UNCHANGED <<rows, evidence, minted, locals, failed, history>>

-----------------------------------------------------------------------------
\* Qdrant comes back empty.
LoseIndex == /\ points # Nothing
             /\ points' = Nothing
             /\ lost' = Tags
             /\ UNCHANGED <<rows, evidence, minted, locals, failed, job, asked, erased, raced>>

MirrorInit == /\ Init
              /\ job = [j \in Jobs |-> Idle]
              /\ asked = {} /\ erased = {} /\ lost = {}
              /\ raced = FALSE

Maintain(j) ==
    \/ \E t \in Tags, m \in Memories : ForgetMemory(j, t, m)
    \/ ForgetStep(j)
    \/ ForgetFails(j)
    \/ \E t \in Tags : BackfillToPg(j, t)
    \/ \E m \in Memories : BackfillRow(j, m)
    \/ BackfillEnds(j)
    \/ \E t \in Tags : RebuildIndexFromPg(j, t)
    \/ RebuildUpsert(j)
    \/ RebuildFails(j)

MirrorNext == Ingest \/ LoseIndex \/ \E j \in Jobs : Maintain(j)

MirrorSpec == MirrorInit /\ [][MirrorNext]_mirrorVars

-----------------------------------------------------------------------------
(***************************************************************************)
(* Properties.                                                             *)
(***************************************************************************)

\* The requests have their types, and the stores keep theirs.
MirrorTypeOK ==
    /\ TypeOK
    /\ DOMAIN job = Jobs
    /\ \A j \in Jobs :
          /\ job[j].op \in {"idle", "forget", "backfill", "rebuild"}
          /\ job[j].tag \in Tags \union {None}
          /\ job[j].op = "forget" => /\ job[j].victim \in asked
                                     /\ job[j].step \in DOMAIN EraseOrder
          /\ DOMAIN job[j].snap \subseteq Memories
          /\ job[j].op = "backfill" => job[j].snap \in [DOMAIN job[j].snap -> Row]
          /\ job[j].op = "rebuild" => job[j].snap \in [DOMAIN job[j].snap -> Point]
    /\ asked \subseteq minted /\ erased \subseteq asked
    /\ lost \subseteq Tags
    /\ raced \in BOOLEAN

\* "a forgotten fact can never be resurrected by a later index rebuild"
\* (mod.rs:1608): what a request has reported erased is in neither copy again,
\* whatever ingests, later rebuilds and later backfills do.
ForgottenStaysErased ==
    ~raced => erased \intersect (DOMAIN points \union DOMAIN rows \union evidence) = {}

\* "a mid-way failure can simply be retried" (mod.rs:1610): as long as the
\* vector of a memory to be erased is in the index, its row is there to let
\* the retry through the ownership gate.
ErasureIsRetryable ==
    ~raced => asked \intersect DOMAIN points \subseteq DOMAIN rows

\* "losing Qdrant is recoverable, not data loss" (mod.rs:2290): whenever no
\* ingest is under way and none has failed, the index of a namespace that was
\* never lost, or was rebuilt since, holds exactly what Postgres would give a
\* rebuild: the same facts, current, superseded and quarantined alike.
IndexIsDerived ==
    ~failed /\ ~raced /\ (\A c \in Calls : pc[c] = "idle")
            /\ (\A j \in Jobs : job[j].op # "forget") =>
        \A t \in Tags \ lost :
            /\ Tagged(t) = RowsOf(t)
            /\ \A m \in RowsOf(t) : points[m] = FactOf(rows[m])

\* "never a cross-tenant erasure" (mod.rs:1606): the delete by id is not scoped
\* to a namespace, yet short of losing the index a vector goes only for a
\* request of its own namespace.
ErasureStaysInNamespace ==
    [][\/ LoseIndex
       \/ \A m \in DOMAIN points \ DOMAIN points' :
             \E j \in Running("forget") :
                job[j].victim = m /\ job[j].tag = points[m].tag]_mirrorVars

\* "not resurrectable by rebuild" (docs/ACCEPTANCE.md:23): the same, whatever
\* runs at the same time.
ForgottenIsNotServed == erased \intersect DOMAIN points = {}

\* "a rebuild/backfill reconciles any drift" (mod.rs:1115): with nothing failed
\* and every rebuild run by itself, no memory is served once one that
\* supersedes it is stored.
SupersededStaysRetired ==
    ~failed /\ ~raced =>
        \A m \in DOMAIN points :
            points[m].supersedes \in DOMAIN points =>
                ~points[points[m].supersedes].is_latest
==============================================================================

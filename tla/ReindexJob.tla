----------------------------- MODULE ReindexJob -----------------------------
(***************************************************************************)
(* Re-distillation of a namespace (reindex mode "facts", server main.rs):  *)
(* a background task lists the documents, rebuilds the text of each from   *)
(* its indexed chunks, deletes its facts and distills new ones, and tracks *)
(* its progress in a job row.  Every call can fail, a model may never      *)
(* answer, the process can die, and documents are added and deleted step   *)
(* by step and jobs overlap meanwhile.  A fact is named by the character   *)
(* of the text it states; the pass that made it tells facts of different   *)
(* distillations apart.                                                    *)
(***************************************************************************)
EXTENDS Chunker

CONSTANTS
    Doc,           \* documents of the namespace
    Job,           \* reindex requests
    Text,          \* what each document may say: [text, source, is_md, smart]
    CHUNK_TARGET, CHUNK_OVERLAP,
    SEGMENT_CHARS, \* length of a distilled segment
    ChunkLimit,    \* chunks read back per document (500 in the source)
    MinText,       \* shorter texts are not distilled again (200 in the source)
    MAX_FACTS_PER_SEGMENT,
    MAX_TOTAL_FACTS

ASSUME JobAssumption ==
    {CHUNK_TARGET, SEGMENT_CHARS, ChunkLimit, MinText,
     MAX_FACTS_PER_SEGMENT, MAX_TOTAL_FACTS} \subseteq Nat \ {0}
    /\ CHUNK_OVERLAP \in Nat /\ IsFiniteSet(Doc)

VARIABLES
    docs,      \* text, chunks and row of every document, its ingest and delete
    facts,     \* the facts in the index
    jobs,      \* the task and the row of every request
    late,      \* documents whose facts may be written after the delete took them
    marks      \* "unclear": an unusable reply, a misleading read, a fact dropped or
               \* forgotten; "overlap": of jobs, or of a job and an ingest

jobVars == <<docs, facts, jobs, late, marks>>

NoDoc == [st |-> "absent", from |-> {}, chunks |-> <<>>, row |-> FALSE,
          ingest |-> "done", left |-> {}, ok |-> TRUE]
NoRow == [state |-> "none", progress |-> 0, total |-> 0, error |-> FALSE]
NoJob == [pc |-> "none", queue |-> <<>>, done |-> 0, failed |-> 0,
          segs |-> <<>>, seg |-> 1, found |-> {}, row |-> NoRow]

JobInit ==
    /\ docs = [d \in Doc |-> NoDoc] /\ facts = {} /\ late = {} /\ marks = {}
    /\ jobs = [j \in Job |-> NoJob]

Fact(d, p, pass) == [doc |-> d, at |-> p, pass |-> pass]
FactsOf(d) == {f \in facts : f.doc = d}
At(j) == jobs[j].queue[jobs[j].done + 1]
Unclear(b) == IF b THEN {"unclear"} ELSE {}
Running(j) == jobs[j].pc \notin {"none", "over"}
Busy(d) == \E j \in Job : jobs[j].pc \in {"delete", "distill", "merge", "index"} /\ At(j) = d
Ingesting(d) == docs[d].ingest # "done"

-----------------------------------------------------------------------------
\* Ingest: the chunks are stored, by an upsert that may report an error though it
\* took effect, which ends the ingest.
add_document(d) ==
    /\ docs[d].st = "absent"
    /\ \E t \in Text[d], ingest \in {"row", "done"} :
         LET chunks == chunk_doc(t.text, t.source, t.is_md, t.smart,
                                 CHUNK_TARGET, CHUNK_OVERLAP)
         IN  /\ chunks # <<>>
             /\ docs' = [docs EXCEPT ![d] = [NoDoc EXCEPT !.st = "stored", !.from = {t},
                                                  !.chunks = chunks, !.ingest = ingest]]
    /\ UNCHANGED <<facts, jobs, late, marks>>

\* The row is inserted, if there is a database; an error is logged.
insert_document(d) ==
    /\ docs[d].ingest = "row"
    /\ \E row \in BOOLEAN :
         docs' = [docs EXCEPT ![d].row = row, ![d].ingest = "facts"]
    /\ UNCHANGED <<facts, jobs, late, marks>>

\* The facts follow, after the model's answers: all, one or, where a call fails or
\* the text is too short, none.  Errors are logged.
ingest_facts(d) ==
    /\ docs[d].ingest = "facts"
    /\ LET new == {Fact(d, p, "ingest") :
                      p \in UNION {Positions(t.text) : t \in docs[d].from}}
       IN  facts' \in {facts, facts \cup new, facts \cup {f \in new : f.at = 1}}
    /\ docs' = [docs EXCEPT ![d].ingest = "done"]
    /\ UNCHANGED <<jobs, late, marks>>

-----------------------------------------------------------------------------
\* A delete of a document that has chunks or facts (a failed look counts as none):
\* two deletes are sent and both are waited for.
delete_document_tagged(d) ==
    /\ docs[d].st \in {"stored", "half", "deleted"}
    /\ docs[d].chunks # <<>> \/ FactsOf(d) # {}
    /\ docs' = [docs EXCEPT ![d].st = "deleting", ![d].left = {"chunks", "facts"},
                            ![d].ok = TRUE]
    /\ late' = late \ {d}
    /\ UNCHANGED <<facts, jobs, marks>>

\* One of them is answered; it may fail, and may have taken effect then.
delete_by_filter(d, part) ==
    /\ docs[d].st = "deleting" /\ part \in docs[d].left
    /\ \E took, ok \in BOOLEAN :
         /\ ok => took
         /\ docs' = [docs EXCEPT ![d].left = @ \ {part}, ![d].ok = @ /\ ok,
                       ![d].chunks = IF took /\ part = "chunks" THEN <<>> ELSE @]
         /\ facts' = IF took /\ part = "facts" THEN facts \ FactsOf(d) ELSE facts
    /\ late' = late \cup {e \in {d} : part = "facts" /\ (Busy(d) \/ Ingesting(d))}
    /\ UNCHANGED <<jobs, marks>>

\* An error of either, or of the delete of the edges, is returned at once; a
\* retry after it finds nothing if both took effect.
delete_fails(d) ==
    /\ docs[d].st = "deleting" /\ docs[d].left = {}
    /\ docs' = [docs EXCEPT ![d].st = "half"]
    /\ UNCHANGED <<facts, jobs, late, marks>>

delete_succeeds(d) ==
    /\ docs[d].st = "deleting" /\ docs[d].left = {} /\ docs[d].ok
    /\ docs' = [docs EXCEPT ![d].st = "deleted"]
    /\ UNCHANGED <<facts, jobs, late, marks>>

\* forget_memory erases one fact of the index, here by its statement.
forget_memory(f) ==
    /\ facts' = facts \ {f} /\ marks' = marks \cup {"unclear"}
    /\ UNCHANGED <<docs, jobs, late>>

-----------------------------------------------------------------------------
\* The registry: the documents table, which keeps deleted documents, or the
\* indexed chunks if there is no database.
list_document_ids == {{d \in Doc : docs[d].row},
                      {d \in Doc : docs[d].chunks # <<>>}}

\* The row of a new job; none without a database, or if the insert fails.
job_create(total) == {NoRow, [NoRow EXCEPT !.state = "queued", !.total = total]}

reindex(j) ==
    /\ jobs[j].pc = "none"
    /\ \E listed \in list_document_ids : \E row \in job_create(Cardinality(listed)) :
         jobs' = [jobs EXCEPT ![j] = [NoJob EXCEPT !.pc = "start", !.row = row,
                                                   !.queue = SetToSeq(listed)]]
    /\ marks' = marks \cup {m \in {"overlap"} : \E i \in Job \ {j} : Running(i)}
    /\ UNCHANGED <<docs, facts, late>>

\* A row update that fails is logged and leaves the row as it was.
job_update(row, new) == IF row.state = "none" THEN {row} ELSE {row, new}

\* What the task does next: the next document, or the end of the loop.
Next_pc(job, done) == IF done < Len(job.queue) THEN "load" ELSE "finish"

job_starts(j) ==
    /\ jobs[j].pc = "start"
    /\ \E row \in job_update(jobs[j].row, [jobs[j].row EXCEPT !.state = "running"]) :
         jobs' = [jobs EXCEPT ![j].row = row, ![j].pc = Next_pc(jobs[j], 0)]
    /\ UNCHANGED <<docs, facts, late, marks>>

\* Mutant: a failed document is not counted.
document_done_uncounted(j, failed) ==
    LET done == jobs[j].done + 1
    IN  \E row \in job_update(jobs[j].row, [jobs[j].row EXCEPT !.state = "running",
                                                            !.progress = done]) :
          jobs' = [jobs EXCEPT ![j] = [@ EXCEPT
              !.pc = Next_pc(jobs[j], done), !.done = done, !.row = row,
              !.segs = <<>>, !.seg = 1, !.found = {}]]

\* Mutant: a failed document is tried again, for as long as it fails.
document_done_retrying(j, failed) ==
    LET done == IF failed THEN jobs[j].done ELSE jobs[j].done + 1
    IN  \E row \in job_update(jobs[j].row, [jobs[j].row EXCEPT !.state = "running",
                                                            !.progress = done]) :
          jobs' = [jobs EXCEPT ![j] = [@ EXCEPT
              !.pc = Next_pc(jobs[j], done), !.done = done, !.row = row,
              !.segs = <<>>, !.seg = 1, !.found = {}]]

After_document(job, row, failed) ==
    [job EXCEPT !.pc = Next_pc(job, job.done + 1), !.done = job.done + 1, !.row = row,
                !.failed = job.failed + (IF failed THEN 1 ELSE 0),
                !.segs = <<>>, !.seg = 1, !.found = {}]

\* The document is done, with or without an error; the loop goes on.
document_done(j, failed) ==
    \E row \in job_update(jobs[j].row, [jobs[j].row EXCEPT !.state = "running",
                                                   !.progress = jobs[j].done + 1]) :
        jobs' = [jobs EXCEPT ![j] = After_document(@, row, failed)]

\* Mutant: the text is taken from the registry, not from the indexed chunks.
reconstruct_from_registry(d) ==
    FlattenSeq(SetToSeq({t.text : t \in docs[d].from}))

\* Up to ChunkLimit chunks of the document are read back.
doc_chunks_indexed(d) ==
    SubSeq(docs[d].chunks, 1, IF Len(docs[d].chunks) < ChunkLimit
                              THEN Len(docs[d].chunks) ELSE ChunkLimit)

\* In order, with a blank line between them.
reconstruct_doc_text(d) ==
    LET chunks == doc_chunks_indexed(d)
        joined[n \in 0 .. Len(chunks)] ==
            IF n = 0 THEN <<>>
            ELSE IF joined[n - 1] = <<>> THEN chunks[n]
            ELSE joined[n - 1] \o Break \o chunks[n]
    IN  joined[Len(chunks)]

\* The chunks are read: a failed request fails the document, an error reply of
\* the store counts as no chunks, and a short text ends it without an error, as
\* does a model that is not configured with one.
reindex_doc_facts(j) ==
    /\ jobs[j].pc = "load"
    /\ \/ /\ document_done(j, TRUE)
          /\ UNCHANGED <<late, marks>>
       \/ /\ Len(trim(reconstruct_doc_text(At(j)))) < MinText
          /\ document_done(j, FALSE)
          /\ UNCHANGED <<late, marks>>
       \/ /\ Len(trim(reconstruct_doc_text(At(j)))) >= MinText
          /\ marks' = marks \cup {"unclear"}
          /\ document_done(j, FALSE)
          /\ UNCHANGED late
       \/ LET text == reconstruct_doc_text(At(j))
          IN  /\ Len(trim(text)) >= MinText
              /\ marks' = marks \cup Unclear(Len(docs[At(j)].chunks) > ChunkLimit)
              /\ late' = late \cup {d \in {At(j)} : docs[d].st = "deleting"}
              /\ jobs' = [jobs EXCEPT ![j].pc = "delete",
                                      ![j].segs = chunk_text(text, SEGMENT_CHARS, 0)]
    /\ UNCHANGED <<docs, facts>>

\* Mutant: the old facts stay.
delete_no_doc(d) == facts

delete_by_doc(d) == facts \ FactsOf(d)

\* The facts of the document are deleted, in every namespace, before any new
\* one exists; an error may come after the delete took effect.  An ingest that is
\* still to store its facts will add them to those of the job.
redistill_doc(j) ==
    /\ jobs[j].pc = "delete"
    /\ \/ /\ facts' = delete_by_doc(At(j))
          /\ jobs' = [jobs EXCEPT ![j].pc = "distill"]
          /\ marks' = marks \cup {m \in {"overlap"} : Ingesting(At(j))}
       \/ /\ facts' \in {facts, delete_by_doc(At(j))}
          /\ document_done(j, TRUE)
          /\ UNCHANGED marks
    /\ UNCHANGED <<docs, late>>

\* What the model may answer for a segment: an array of facts, one whose last
\* statement is under 8 bytes, one of none or nothing like an array, or an array
\* cut off on its way.
Reply == {"array", "brief", "none", "cut"}
FieldName == 0

\* The first n, in the order of the text.
Capped(S, n) == {p \in S : Cardinality({q \in S : q <= p}) <= n}

\* Of a cut array the quoted strings are harvested, the names of its fields too.
parse_facts(seg, cap) == Capped(Positions(seg) \cup {FieldName}, cap)

\* Short statements are dropped, then those past the cap.
parse_typed_facts(seg, reply, cap) ==
    CASE reply = "array" -> Capped(Positions(seg), cap)
      [] reply = "brief" -> Capped({p \in Positions(seg) : \E q \in Positions(seg) : p < q}, cap)
      [] reply = "none"  -> {}
      [] OTHER           -> parse_facts(seg, cap)

\* After the last segment, or the first that fails: several segments are merged
\* by the model, unless they hold nothing.
After_segments(job, found) ==
    IF found = {} \/ Len(job.segs) = 1
    THEN [job EXCEPT !.pc = "index", !.found = Capped(found, MAX_TOTAL_FACTS)]
    ELSE [job EXCEPT !.pc = "merge", !.found = found]

distill_segment(j) ==
    /\ jobs[j].pc = "distill"
    /\ LET job == jobs[j]
           seg == job.segs[job.seg]
       IN
       \/ \E reply \in Reply :
            LET facts_of == parse_typed_facts(seg, reply, MAX_FACTS_PER_SEGMENT)
                found == job.found \cup facts_of
                after == IF job.seg < Len(job.segs)
                         THEN [job EXCEPT !.found = found, !.seg = @ + 1]
                         ELSE After_segments(job, found)
            IN  /\ marks' = marks \cup Unclear(facts_of # Positions(seg)
                                               \/ after.found # found)
                /\ jobs' = [jobs EXCEPT ![j] = after]
       \/ /\ job.seg = 1
          /\ document_done(j, TRUE)
          /\ UNCHANGED marks
       \/ /\ job.seg > 1
          /\ jobs' = [jobs EXCEPT ![j] = After_segments(job, job.found)]
          /\ marks' = marks \cup {"unclear"}
    /\ UNCHANGED <<docs, facts, late>>

\* The model's merge keeps all or, here, one of the facts; if it answers none or
\* the call fails, exact repeats are dropped locally.  The cap holds for both.
merge_facts(j) ==
    /\ jobs[j].pc = "merge"
    /\ \E kept \in {jobs[j].found, {CHOOSE p \in jobs[j].found : TRUE}} :
         LET found == Capped(kept, MAX_TOTAL_FACTS) IN
         /\ jobs' = [jobs EXCEPT ![j].found = found, ![j].pc = "index"]
         /\ marks' = marks \cup Unclear(found # jobs[j].found)
    /\ UNCHANGED <<docs, facts, late>>

\* index_memories stores the facts, if there are any, but for what it judges a
\* duplicate of a memory of the namespace; a failed one may have stored some.
index_memories(j) ==
    /\ jobs[j].pc = "index"
    /\ LET new == {Fact(At(j), p, j) : p \in jobs[j].found}
           one == {CHOOSE f \in new : TRUE}
       IN
       \/ /\ facts' = facts \cup new
          /\ document_done(j, FALSE)
          /\ UNCHANGED marks
       \/ /\ new # {} /\ facts # {}
          /\ facts' = facts \cup (new \ one)
          /\ marks' = marks \cup {"unclear"}
          /\ document_done(j, FALSE)
       \/ /\ new # {}
          /\ facts' \in {facts, facts \cup one}
          /\ document_done(j, TRUE)
          /\ UNCHANGED marks
    /\ UNCHANGED <<docs, late>>

\* The model is called without a timeout: a request may stay unanswered.
model_silent(j) ==
    /\ jobs[j].pc \in {"distill", "merge", "index"}
    /\ jobs' = [jobs EXCEPT ![j].pc = "silent"]
    /\ UNCHANGED <<docs, facts, late, marks>>

\* Always done, with an error if a document failed.
job_finishes(j) ==
    /\ jobs[j].pc = "finish"
    /\ \E row \in job_update(jobs[j].row, [jobs[j].row EXCEPT !.state = "done",
               !.progress = jobs[j].done, !.error = jobs[j].failed > 0]) :
         jobs' = [jobs EXCEPT ![j].pc = "over", ![j].row = row]
    /\ UNCHANGED <<docs, facts, late, marks>>

\* The process dies: the tasks with it, their rows as they are, and the ingests
\* and deletes under way.
restart ==
    /\ docs' = [d \in Doc |-> [docs[d] EXCEPT !.ingest = "done", !.left = {},
                                   !.st = IF @ = "deleting" THEN "half" ELSE @]]
    /\ jobs' = [j \in Job |-> IF Running(j) THEN [NoJob EXCEPT !.pc = "over",
                                                               !.row = jobs[j].row]
                              ELSE jobs[j]]
    /\ UNCHANGED <<facts, late, marks>>

JobStep(j) ==
    \/ job_starts(j)      \/ reindex_doc_facts(j) \/ redistill_doc(j)
    \/ distill_segment(j) \/ merge_facts(j)       \/ index_memories(j)
    \/ job_finishes(j)

-----------------------------------------------------------------------------
Stored == {d \in Doc : docs[d].st = "stored"}

\* What ingest stores covers what the document says, in order; a markdown
\* heading is kept with its section, so one without a body is not.
ChunksKeepText ==
    [][\A d \in Stored' \ Stored : \A t \in docs'[d].from :
          KeepsText(t.text, docs'[d].chunks)]_jobVars

\* Chunk sizes: "roughly target", and overlap "carried between consecutive
\* chunks so context isn't lost at boundaries" (chunker.rs:1), rounds aside.
ChunksFitAndOverlap ==
    [][\A d \in Stored' \ Stored : \A t \in docs'[d].from :
          FitsAndOverlaps(docs'[d].chunks,
                ~(t.smart /\ (t.source = "chat" \/ looks_like_conversation(t.text))),
                CHUNK_TARGET, CHUNK_OVERLAP)]_jobVars

Clean(j) == jobs[j].row.state = "done" /\ ~jobs[j].row.error

\* From the row to the text: where every reply was usable, no cap or duplicate
\* dropped a fact and nothing overlapped, a job that reports done without an error
\* and after which none ran leaves every document that it listed with the facts of
\* its whole text, through chunking, the rebuilt text, its segments and the loop's
\* error counting.
CleanJobCoversText ==
    marks = {} /\ (\A j \in Job : jobs[j].pc = "none" \/ Clean(j)) =>
        \A j \in Job : \A d \in Stored \cap ToSet(jobs[j].queue) :
            Len(trim(reconstruct_doc_text(d))) >= MinText =>
                {f.at : f \in FactsOf(d)} = Positions(FlattenSeq(docs[d].chunks))

\* A job replaces facts, it does not add to them: while jobs do not overlap, with
\* each other or with the ingest of the document, its facts come from one
\* distillation.
OnePassPerDocument ==
    "overlap" \notin marks =>
        \A d \in Doc : Cardinality({f.pass : f \in FactsOf(d)}) <= 1

\* A job ends, whatever fails on its way, unless a model never answers.
JobEnds == \A j \in Job : Running(j) ~> (~Running(j) \/ jobs[j].pc = "silent")
=============================================================================

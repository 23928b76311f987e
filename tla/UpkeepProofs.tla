---------------------------- MODULE UpkeepProofs ----------------------------
(***************************************************************************)
(* Proofs about ReindexJob and ProfileCache, for any number of documents,  *)
(* texts, jobs and readers, whatever the chunker and the model answer.     *)
(*                                                                         *)
(* The argument: a job writes facts only of a document that it read with   *)
(* chunks in the index and whose facts it has deleted; without overlap     *)
(* nobody adds to them in between, since an id is ingested once.  When a   *)
(* delete takes the facts of a document, it either meets somebody at work  *)
(* on them, and the document is late, or finds no writer left; after it    *)
(* the chunks may still be read until they go too, which makes it late.  A *)
(* compile is stamped before it reads, so what it has read was in the      *)
(* index when its age was zero or later.                                   *)
(***************************************************************************)
EXTENDS ProfileCache, FiniteSetTheorems, TLAPS

\* Phases in which a job is to write the facts of its document, and those in
\* which it has deleted them already.
Writing == {"delete", "distill", "merge", "index"}
Emptied == {"distill", "merge", "index"}

JobFields == {"pc", "queue", "done", "failed", "segs", "seg", "found", "row"}

\* A job, by its type: while it is at a document, there is one left in the queue.
JobOK(r) ==
    /\ DOMAIN r = JobFields /\ r.queue \in Seq(Doc) /\ r.done \in Nat
    /\ r.pc \in Writing \cup {"load"} => r.done < Len(r.queue)
    /\ r.pc = "start" => r.done = 0

DocFields == {"st", "from", "chunks", "row", "ingest", "left", "ok"}

\* A document, by its type: what the deletes under way have left of it.
DocOK(r) ==
    /\ DOMAIN r = DocFields
    /\ r.st \in {"absent", "stored", "deleting", "half", "deleted"}
    /\ r.st = "absent" => r.chunks = <<>> /\ ~r.row /\ r.ingest = "done"
    /\ r.st = "deleted" => r.chunks = <<>>
    /\ r.st = "deleting" /\ r.ok /\ "chunks" \notin r.left => r.chunks = <<>>

\* Types; a job works on documents that were there; facts are of such, too.
JobsOK ==
    /\ DOMAIN docs = Doc /\ \A d \in Doc : DocOK(docs[d])
    /\ DOMAIN jobs = Job /\ \A j \in Job : JobOK(jobs[j])
    /\ \A j \in Job : \A i \in DOMAIN jobs[j].queue : docs[jobs[j].queue[i]].st # "absent"
    /\ \A f \in facts : f.doc \in Doc /\ docs[f.doc].st # "absent"

\* The delete of its facts took effect, and none of its steps has failed.
Emptying(r) == r.st = "deleted" \/ (r.st = "deleting" /\ r.ok /\ "facts" \notin r.left)

\* Such a document, unless it is late, has no facts and nobody to write some.
NoneWritten ==
    \A d \in Doc \ late : Emptying(docs[d]) =>
        /\ FactsOf(d) = {} /\ ~Ingesting(d)
        /\ \A j \in Job : jobs[j].pc \in Writing => At(j) # d

\* While nothing overlaps, one job runs; it writes facts where there are none and
\* none are to come, and so does an ingest.
OneAtATime ==
    "overlap" \notin marks =>
        /\ \A i, j \in Job : Running(i) /\ Running(j) => i = j
        /\ \A j \in Job : jobs[j].pc \in Emptied => FactsOf(At(j)) = {} /\ ~Ingesting(At(j))
        /\ \A d \in Doc : Ingesting(d) => FactsOf(d) = {}
        /\ \A f, g \in facts : f.doc = g.doc => f.pass = g.pass

JobInv == JobsOK /\ NoneWritten /\ OneAtATime

-----------------------------------------------------------------------------
\* What the steps of a job do.

\* The document a job is at, is one of its queue.
LEMMA AtQueue ==
    ASSUME JobsOK, NEW j \in Job, jobs[j].pc \in Writing \cup {"load"}
    PROVE  At(j) \in Doc /\ docs[At(j)].st # "absent"
<1>1. /\ jobs[j].queue \in Seq(Doc) /\ jobs[j].done \in Nat
      /\ jobs[j].done < Len(jobs[j].queue)
  BY DEF JobsOK, JobOK
<1>2. jobs[j].done + 1 \in DOMAIN jobs[j].queue  BY <1>1
<1> QED BY <1>1, <1>2 DEF JobsOK, At

\* A job goes on: what it may leave behind in facts, and where it may go.
JobMoves(j) ==
    /\ UNCHANGED docs /\ Running(j) /\ marks \subseteq marks' /\ late \subseteq late'
    /\ \A f \in facts' \ facts : jobs[j].pc = "index" /\ f.doc = At(j) /\ f.pass = j
    /\ \E r :
         /\ jobs' = [jobs EXCEPT ![j] = r] /\ JobOK(r) /\ r.queue = jobs[j].queue
         /\ r.pc \in Writing =>
              /\ r.done = jobs[j].done
              /\ \/ jobs[j].pc \in Writing
                 \/ docs[At(j)].chunks # <<>> /\ (docs[At(j)].st = "deleting" => At(j) \in late')
              /\ jobs[j].pc \in Writing \cup {"load"}
         /\ r.pc \in Emptied =>
              \/ jobs[j].pc \in Emptied /\ facts' \subseteq facts
              \/ /\ facts' = facts \ FactsOf(At(j))
                 /\ Ingesting(At(j)) => "overlap" \in marks'

\* The document is done: the job goes on to the next one or ends.
LEMMA DoneEffect ==
    ASSUME JobsOK, NEW j \in Job, NEW failed, document_done(j, failed)
    PROVE  \E r : /\ jobs' = [jobs EXCEPT ![j] = r] /\ JobOK(r)
                  /\ r.queue = jobs[j].queue /\ r.pc \in {"load", "finish"}
<1>1. PICK row : jobs' = [jobs EXCEPT ![j] = After_document(jobs[j], row, failed)]
  BY DEF document_done
<1>2. PICK pc, n : /\ pc = Next_pc(jobs[j], jobs[j].done + 1)
                   /\ n = jobs[j].failed + (IF failed THEN 1 ELSE 0)
  OBVIOUS
<1>3. PICK r : r = After_document(jobs[j], row, failed)  OBVIOUS
<1>4. jobs' = [jobs EXCEPT ![j] = r]  BY <1>1, <1>3
<1>5. JobOK(jobs[j])  BY DEF JobsOK
<1>6. /\ DOMAIN r = JobFields /\ r.pc = pc /\ r.queue = jobs[j].queue
      /\ r.done = jobs[j].done + 1
  BY <1>2, <1>3, <1>5 DEF After_document, JobOK, JobFields
<1>7. pc \in {"load", "finish"} /\ (pc = "load" => r.done < Len(r.queue))
  BY <1>2, <1>6 DEF Next_pc
<1>8. JobOK(r)  BY <1>5, <1>6, <1>7 DEF JobOK, Writing
<1> QED BY <1>4, <1>6, <1>7, <1>8

\* A step to a phase of the same document, or to one that has none.
LEMMA PhaseOK ==
    ASSUME NEW b, JobOK(b), NEW r, DOMAIN r = JobFields, r.queue = b.queue,
           r.done = b.done, r.pc # "start",
           r.pc \in Writing \cup {"load"} => b.done < Len(b.queue)
    PROVE  JobOK(r)
BY DEF JobOK

\* The task starts, and goes to its first document.
LEMMA StartMoves ==
    ASSUME JobsOK, NEW j \in Job, job_starts(j)
    PROVE  JobMoves(j)
<1>1. PICK row : jobs' = [jobs EXCEPT ![j].row = row, ![j].pc = Next_pc(jobs[j], 0)]
  BY DEF job_starts
<1>2. jobs[j].pc = "start" /\ UNCHANGED <<docs, facts, late, marks>>  BY DEF job_starts
<1>3. PICK pc : pc = Next_pc(jobs[j], 0)  OBVIOUS
<1>4. PICK r : r = [jobs[j] EXCEPT !.row = row, !.pc = pc]  OBVIOUS
<1>5. JobOK(jobs[j]) /\ j \in DOMAIN jobs  BY DEF JobsOK
<1>6. jobs' = [jobs EXCEPT ![j] = r]  BY <1>1, <1>3, <1>4, <1>5
<1>7. DOMAIN r = JobFields /\ r.pc = pc /\ r.queue = jobs[j].queue /\ r.done = 0
  BY <1>2, <1>4, <1>5 DEF JobOK, JobFields
<1>8. pc \in {"load", "finish"} /\ (pc = "load" => 0 < Len(jobs[j].queue))
  BY <1>3 DEF Next_pc
<1>9. JobOK(r)  BY <1>5, <1>7, <1>8 DEF JobOK, Writing
<1> QED BY <1>2, <1>6, <1>7, <1>8, <1>9 DEF JobMoves, Running, Writing, Emptied

\* A document without indexed chunks has no text.
LEMMA NoChunksNoText ==
    ASSUME NEW d, docs[d].chunks = <<>>
    PROVE  Len(trim(reconstruct_doc_text(d))) = 0
<1>1. doc_chunks_indexed(d) = <<>>
  <2>1. ChunkLimit \in Nat \ {0}  BY JobAssumption
  <2>2. Len(<<>>) = 0 /\ SubSeq(<<>>, 1, 0) = <<>>  OBVIOUS
  <2> QED BY <2>1, <2>2 DEF doc_chunks_indexed
<1>2. reconstruct_doc_text(d) = <<>>
  <2> DEFINE chunks == doc_chunks_indexed(d)
             Turns(f) == [n \in 0 .. Len(chunks) |->
                IF n = 0 THEN <<>>
                ELSE IF f[n - 1] = <<>> THEN chunks[n]
                ELSE f[n - 1] \o Break \o chunks[n]]
             joined == CHOOSE f : f = Turns(f)
  <2>1. Len(chunks) = 0  BY <1>1
  <2>2. \A f : Turns(f) = [n \in 0 .. 0 |-> <<>>]  BY <2>1
  <2>3. joined = Turns(joined)
    <3>1. \E f : f = Turns(f)  BY <2>2
    <3> HIDE DEF Turns
    <3> QED BY <3>1
  <2>4. joined[0] = <<>>
    <3>1. joined = [n \in 0 .. 0 |-> <<>>]  BY <2>2, <2>3
    <3> HIDE DEF joined
    <3> QED BY <3>1
  <2>5. reconstruct_doc_text(d) = joined[Len(chunks)]  BY DEF reconstruct_doc_text
  <2> HIDE DEF joined, chunks
  <2> QED BY <2>1, <2>4, <2>5
<1>3. trim(<<>>) = <<>>  BY DEF trim, Ink
<1>4. Len(<<>>) = 0  OBVIOUS
<1> QED BY <1>2, <1>3, <1>4

\* The chunks are read; the job deletes only if there are some.
LEMMA LoadMoves ==
    ASSUME JobsOK, NEW j \in Job, reindex_doc_facts(j)
    PROVE  JobMoves(j)
<1>1. jobs[j].pc = "load" /\ UNCHANGED <<docs, facts>>  BY DEF reindex_doc_facts
<1>2. marks \subseteq marks' /\ late \subseteq late'  BY DEF reindex_doc_facts, Unclear
<1>3. JobOK(jobs[j]) /\ j \in DOMAIN jobs  BY DEF JobsOK
<1>4. ASSUME NEW failed, document_done(j, failed) PROVE JobMoves(j)
  BY <1>1, <1>2, <1>4, DoneEffect DEF JobMoves, Running, Writing, Emptied
<1>5. ASSUME NEW text, NEW segs, text = reconstruct_doc_text(At(j)), Len(trim(text)) >= MinText,
             late' = late \cup {d \in {At(j)} : docs[d].st = "deleting"},
             jobs' = [jobs EXCEPT ![j].pc = "delete", ![j].segs = segs]
      PROVE  JobMoves(j)
  <2>1. docs[At(j)].chunks # <<>>
    <3> SUFFICES ASSUME docs[At(j)].chunks = <<>> PROVE FALSE  OBVIOUS
    <3>1. PICK m : m = Len(trim(text))  OBVIOUS
    <3>2. m = 0 /\ m >= MinText  BY <1>5, <3>1, NoChunksNoText
    <3> QED BY <3>2, JobAssumption
  <2>2. PICK r : r = [jobs[j] EXCEPT !.pc = "delete", !.segs = segs]  OBVIOUS
  <2>3. jobs' = [jobs EXCEPT ![j] = r]  BY <1>3, <1>5, <2>2
  <2>4. /\ DOMAIN r = JobFields /\ r.pc = "delete" /\ r.queue = jobs[j].queue
        /\ r.done = jobs[j].done
    BY <1>3, <2>2 DEF JobOK, JobFields
  <2>5. jobs[j].done < Len(jobs[j].queue)  BY <1>1, <1>3 DEF JobOK
  <2>6. JobOK(r)  BY <1>3, <2>4, <2>5, PhaseOK
  <2>7. docs[At(j)].st = "deleting" => At(j) \in late'  BY <1>5
  <2> QED BY <1>1, <1>2, <2>1, <2>3, <2>4, <2>6, <2>7 DEF JobMoves, Running, Writing, Emptied
<1> QED BY <1>4, <1>5 DEF reindex_doc_facts

\* The facts of the document are deleted.
LEMMA DeleteMoves ==
    ASSUME JobsOK, NEW j \in Job, redistill_doc(j)
    PROVE  JobMoves(j)
<1>1. /\ jobs[j].pc = "delete" /\ UNCHANGED <<docs, late>> /\ marks \subseteq marks'
  BY DEF redistill_doc
<1>2. facts' \subseteq facts  BY DEF redistill_doc, delete_by_doc
<1>3. JobOK(jobs[j]) /\ j \in DOMAIN jobs  BY DEF JobsOK
<1>4. CASE document_done(j, TRUE)
  BY <1>1, <1>2, <1>4, DoneEffect DEF JobMoves, Running, Writing, Emptied
<1>5. CASE /\ facts' = delete_by_doc(At(j))
           /\ jobs' = [jobs EXCEPT ![j].pc = "distill"]
           /\ marks' = marks \cup {m \in {"overlap"} : Ingesting(At(j))}
  <2>1. PICK r : r = [jobs[j] EXCEPT !.pc = "distill"]  OBVIOUS
  <2>2. jobs' = [jobs EXCEPT ![j] = r]  BY <1>3, <1>5, <2>1
  <2>3. /\ DOMAIN r = JobFields /\ r.pc = "distill" /\ r.queue = jobs[j].queue
        /\ r.done = jobs[j].done
    BY <1>3, <2>1 DEF JobOK, JobFields
  <2>4. jobs[j].done < Len(jobs[j].queue)  BY <1>1, <1>3 DEF JobOK, Writing
  <2>5. JobOK(r)  BY <1>3, <2>3, <2>4, PhaseOK
  <2>6. Ingesting(At(j)) => "overlap" \in marks'  BY <1>5
  <2> QED BY <1>1, <1>2, <1>5, <2>2, <2>3, <2>5, <2>6
          DEF JobMoves, Running, Writing, Emptied, delete_by_doc
<1> QED BY <1>4, <1>5 DEF redistill_doc

\* After the segments, the document's facts are to be written.
LEMMA AfterSegments ==
    ASSUME NEW job, JobOK(job), NEW found, NEW r, r = After_segments(job, found)
    PROVE  /\ DOMAIN r = JobFields /\ r.queue = job.queue /\ r.done = job.done
           /\ r.pc \in Emptied
<1>1. PICK few : few = Capped(found, MAX_TOTAL_FACTS)  OBVIOUS
<1>2. \/ r = [job EXCEPT !.pc = "index", !.found = few]
      \/ r = [job EXCEPT !.pc = "merge", !.found = found]
  BY <1>1 DEF After_segments
<1> QED BY <1>2 DEF JobOK, JobFields, Emptied

\* A segment is distilled, or the call fails.
LEMMA DistillMoves ==
    ASSUME JobsOK, NEW j \in Job, distill_segment(j)
    PROVE  JobMoves(j)
<1>1. jobs[j].pc = "distill" /\ UNCHANGED <<docs, facts, late>>
  BY ZenonT(40) DEF distill_segment
<1>2. JobOK(jobs[j]) /\ j \in DOMAIN jobs  BY DEF JobsOK
<1>3. PICK job, seg : job = jobs[j] /\ seg = job.segs[job.seg]  OBVIOUS
<1>4. ASSUME NEW r, jobs' = [jobs EXCEPT ![j] = r], DOMAIN r = JobFields, marks \subseteq marks',
             r.pc \in Emptied, r.queue = jobs[j].queue, r.done = jobs[j].done
      PROVE  JobMoves(j)
  <2>1. jobs[j].done < Len(jobs[j].queue)  BY <1>1, <1>2 DEF JobOK, Writing
  <2>2. r.pc # "start"  BY <1>4 DEF Emptied
  <2>3. JobOK(r)  BY <1>2, <1>4, <2>1, <2>2, PhaseOK
  <2> QED BY <1>1, <1>4, <2>3 DEF JobMoves, Running, Writing, Emptied
<1>5. CASE document_done(j, TRUE) /\ UNCHANGED marks
  BY <1>1, <1>5, DoneEffect DEF JobMoves, Running, Writing, Emptied
<1>6. CASE /\ jobs' = [jobs EXCEPT ![j] = After_segments(jobs[j], jobs[j].found)]
           /\ marks' = marks \cup {"unclear"}
  <2>1. PICK r : r = After_segments(jobs[j], jobs[j].found)  OBVIOUS
  <2> QED BY <1>2, <1>4, <1>6, <2>1, AfterSegments
<1>7. ASSUME NEW found, NEW r,
             r = IF job.seg < Len(job.segs)
                 THEN [job EXCEPT !.found = found, !.seg = job.seg + 1]
                 ELSE After_segments(job, found),
             marks \subseteq marks', jobs' = [jobs EXCEPT ![j] = r]
      PROVE  JobMoves(j)
  <2>1. CASE r = [job EXCEPT !.found = found, !.seg = job.seg + 1]
    <3>1. /\ DOMAIN r = JobFields /\ r.queue = job.queue /\ r.done = job.done
          /\ r.pc = job.pc
      BY <1>2, <1>3, <2>1 DEF JobOK, JobFields
    <3> QED BY <1>1, <1>3, <1>4, <1>7, <3>1 DEF Emptied
  <2>2. CASE r = After_segments(job, found)
    <3>1. JobOK(job)  BY <1>2, <1>3
    <3>2. DOMAIN r = JobFields /\ r.queue = job.queue /\ r.done = job.done /\ r.pc \in Emptied
      BY <2>2, <3>1, AfterSegments
    <3> QED BY <1>3, <1>4, <1>7, <3>2
  <2> QED BY <1>7, <2>1, <2>2
<1>8. CASE \E reply \in Reply :
            LET facts_of == parse_typed_facts(seg, reply, MAX_FACTS_PER_SEGMENT)
                found == job.found \cup facts_of
                after == IF job.seg < Len(job.segs)
                         THEN [job EXCEPT !.found = found, !.seg = @ + 1]
                         ELSE After_segments(job, found)
            IN  /\ marks' = marks \cup Unclear(facts_of # Positions(seg)
                                               \/ after.found # found)
                /\ jobs' = [jobs EXCEPT ![j] = after]
  <2>1. PICK reply \in Reply :
            LET facts_of == parse_typed_facts(seg, reply, MAX_FACTS_PER_SEGMENT)
                found == job.found \cup facts_of
                after == IF job.seg < Len(job.segs)
                         THEN [job EXCEPT !.found = found, !.seg = @ + 1]
                         ELSE After_segments(job, found)
            IN  /\ marks' = marks \cup Unclear(facts_of # Positions(seg)
                                               \/ after.found # found)
                /\ jobs' = [jobs EXCEPT ![j] = after]
    BY <1>8
  <2>2. PICK found : found = job.found \cup parse_typed_facts(seg, reply, MAX_FACTS_PER_SEGMENT)
    OBVIOUS
  <2>3. PICK r : r = IF job.seg < Len(job.segs)
                     THEN [job EXCEPT !.found = found, !.seg = job.seg + 1]
                     ELSE After_segments(job, found)
    OBVIOUS
  <2>4. marks \subseteq marks'  BY <2>1 DEF Unclear
  <2>5. jobs' = [jobs EXCEPT ![j] = r]  BY <2>1, <2>2, <2>3
  <2> QED BY <1>7, <2>3, <2>4, <2>5
<1> QED BY ZenonT(40), <1>3, <1>5, <1>6, <1>8 DEF distill_segment

\* The facts of the segments are merged.
LEMMA MergeMoves ==
    ASSUME JobsOK, NEW j \in Job, merge_facts(j)
    PROVE  JobMoves(j)
<1>1. jobs[j].pc = "merge" /\ UNCHANGED <<docs, facts, late>>  BY DEF merge_facts
<1>2. marks \subseteq marks'  BY DEF merge_facts, Unclear
<1>3. JobOK(jobs[j]) /\ j \in DOMAIN jobs  BY DEF JobsOK
<1>4. PICK kept : jobs' = [jobs EXCEPT ![j].found = kept, ![j].pc = "index"]
  BY DEF merge_facts
<1>5. PICK r : r = [jobs[j] EXCEPT !.found = kept, !.pc = "index"]  OBVIOUS
<1>6. jobs' = [jobs EXCEPT ![j] = r]  BY <1>3, <1>4, <1>5
<1>7. /\ DOMAIN r = JobFields /\ r.pc = "index" /\ r.queue = jobs[j].queue
      /\ r.done = jobs[j].done
  BY <1>3, <1>5 DEF JobOK, JobFields
<1>8. jobs[j].done < Len(jobs[j].queue)  BY <1>1, <1>3 DEF JobOK, Writing
<1>9. JobOK(r)  BY <1>3, <1>7, <1>8, PhaseOK
<1> QED BY <1>1, <1>2, <1>6, <1>7, <1>9 DEF JobMoves, Running, Writing, Emptied

\* The facts are stored, some or all of them.
LEMMA IndexMoves ==
    ASSUME JobsOK, NEW j \in Job, index_memories(j)
    PROVE  JobMoves(j)
<1> DEFINE new == {Fact(At(j), p, j) : p \in jobs[j].found}
           one == {CHOOSE f \in new : TRUE}
<1>1. jobs[j].pc = "index" /\ UNCHANGED <<docs, late>> /\ marks \subseteq marks'
  BY DEF index_memories
<1>2. PICK failed : document_done(j, failed)  BY DEF index_memories
<1>3. \A f \in facts' \ facts : f \in new
  <2>1. new # {} => one \subseteq new
    <3> HIDE DEF new
    <3> QED OBVIOUS
  <2>2. \/ facts' = facts \cup new
        \/ facts' = facts \cup (new \ one)
        \/ new # {} /\ facts' \in {facts, facts \cup one}
    BY DEF index_memories
  <2> HIDE DEF new, one
  <2> QED BY <2>1, <2>2
<1>4. \A f \in new : f.doc = At(j) /\ f.pass = j  BY DEF Fact
<1> HIDE DEF new
<1>5. PICK r : /\ jobs' = [jobs EXCEPT ![j] = r] /\ JobOK(r)
               /\ r.queue = jobs[j].queue /\ r.pc \in {"load", "finish"}
  BY <1>2, DoneEffect
<1> QED BY <1>1, <1>3, <1>4, <1>5 DEF JobMoves, Running, Writing, Emptied

\* The model does not answer.
LEMMA SilentMoves ==
    ASSUME JobsOK, NEW j \in Job, model_silent(j)
    PROVE  JobMoves(j)
<1>1. jobs[j].pc \in Emptied /\ UNCHANGED <<docs, facts, late, marks>>
  BY DEF model_silent, Emptied
<1>2. JobOK(jobs[j]) /\ j \in DOMAIN jobs  BY DEF JobsOK
<1>3. PICK r : r = [jobs[j] EXCEPT !.pc = "silent"]  OBVIOUS
<1>4. jobs' = [jobs EXCEPT ![j] = r]  BY <1>2, <1>3 DEF model_silent
<1>5. DOMAIN r = JobFields /\ r.pc = "silent" /\ r.queue = jobs[j].queue /\ r.done = jobs[j].done
  BY <1>2, <1>3 DEF JobOK, JobFields
<1>6. JobOK(r)  BY <1>2, <1>5 DEF JobOK, Writing
<1> QED BY <1>1, <1>4, <1>5, <1>6 DEF JobMoves, Running, Writing, Emptied

\* The row says done.
LEMMA FinishMoves ==
    ASSUME JobsOK, NEW j \in Job, job_finishes(j)
    PROVE  JobMoves(j)
<1>1. jobs[j].pc = "finish" /\ UNCHANGED <<docs, facts, late, marks>>  BY DEF job_finishes
<1>2. JobOK(jobs[j]) /\ j \in DOMAIN jobs  BY DEF JobsOK
<1>3. PICK row : jobs' = [jobs EXCEPT ![j].pc = "over", ![j].row = row]
  BY DEF job_finishes
<1>4. PICK r : r = [jobs[j] EXCEPT !.pc = "over", !.row = row]  OBVIOUS
<1>5. jobs' = [jobs EXCEPT ![j] = r]  BY <1>2, <1>3, <1>4
<1>6. /\ DOMAIN r = JobFields /\ r.pc = "over" /\ r.queue = jobs[j].queue
      /\ r.done = jobs[j].done
  BY <1>2, <1>4 DEF JobOK, JobFields
<1>7. JobOK(r)  BY <1>2, <1>6 DEF JobOK, Writing
<1> QED BY <1>1, <1>5, <1>6, <1>7 DEF JobMoves, Running, Writing, Emptied

\* Every step of a job is such a move.
LEMMA StepMoves ==
    ASSUME JobsOK, NEW j \in Job, JobStep(j)
    PROVE  JobMoves(j)
BY StartMoves, LoadMoves, DeleteMoves, DistillMoves, MergeMoves, IndexMoves, FinishMoves
   DEF JobStep

-----------------------------------------------------------------------------
\* What every step keeps.

\* A move of a job keeps the invariant.
LEMMA JobMovesKeep ==
    ASSUME JobInv, NEW j \in Job, JobMoves(j)
    PROVE  JobInv'
<1>1. PICK r :
         /\ jobs' = [jobs EXCEPT ![j] = r] /\ JobOK(r) /\ r.queue = jobs[j].queue
         /\ r.pc \in Writing =>
              /\ r.done = jobs[j].done
              /\ \/ jobs[j].pc \in Writing
                 \/ docs[At(j)].chunks # <<>> /\ (docs[At(j)].st = "deleting" => At(j) \in late')
              /\ jobs[j].pc \in Writing \cup {"load"}
         /\ r.pc \in Emptied =>
              \/ jobs[j].pc \in Emptied /\ facts' \subseteq facts
              \/ /\ facts' = facts \ FactsOf(At(j))
                 /\ Ingesting(At(j)) => "overlap" \in marks'
  BY DEF JobMoves
<1>2. /\ UNCHANGED docs /\ Running(j) /\ marks \subseteq marks' /\ late \subseteq late'
      /\ \A f \in facts' \ facts : jobs[j].pc = "index" /\ f.doc = At(j) /\ f.pass = j
  BY DEF JobMoves
<1>3. JobsOK /\ DOMAIN jobs = Job  BY DEF JobInv, JobsOK
<1>4. \A i \in Job : jobs'[i] = IF i = j THEN r ELSE jobs[i]  BY <1>1, <1>3
<1>5. jobs[j].pc \in Writing \cup {"load"} => At(j) \in Doc /\ docs[At(j)].st # "absent"
  BY <1>3, AtQueue
<1>6. r.pc \in Writing => At(j)' = At(j)  BY <1>1, <1>4 DEF At
<1>7. \A i \in Job : i # j => At(i)' = At(i) /\ (Running(i)' <=> Running(i))
  BY <1>4 DEF At, Running
<1>8. JobsOK'
  <2>1. DOMAIN jobs' = Job  BY <1>1, <1>3
  <2>2. \A i \in Job : JobOK(jobs'[i])
    BY <1>1, <1>3, <1>4 DEF JobsOK
  <2>3. \A i \in Job : \A n \in DOMAIN jobs'[i].queue : docs[jobs'[i].queue[n]].st # "absent"
    BY <1>1, <1>3, <1>4 DEF JobsOK
  <2>4. \A f \in facts' : f.doc \in Doc /\ docs[f.doc].st # "absent"
    BY <1>2, <1>3, <1>5 DEF JobsOK, Writing
  <2> QED BY <1>2, <1>3, <2>1, <2>2, <2>3, <2>4 DEF JobsOK
<1>9. NoneWritten'
  <2> SUFFICES ASSUME NEW d \in Doc, d \notin late', Emptying(docs[d])
               PROVE  /\ \A f \in facts' : f.doc # d
                      /\ ~Ingesting(d)
                      /\ \A i \in Job : jobs'[i].pc \in Writing => At(i)' # d
    BY <1>2 DEF NoneWritten, FactsOf, Ingesting, Emptying
  <2>1. /\ \A f \in facts : f.doc # d
        /\ ~Ingesting(d)
        /\ \A i \in Job : jobs[i].pc \in Writing => At(i) # d
    BY <1>2 DEF JobInv, NoneWritten, FactsOf
  <2>2. \A f \in facts' : f.doc # d  BY <1>2, <2>1 DEF Writing
  <2>3. r.pc \in Writing => At(j) # d
    <3>1. docs[d].st = "deleting" \/ docs[d].chunks = <<>>
      BY <1>3 DEF JobsOK, DocOK, Emptying
    <3> QED BY <1>1, <2>1, <3>1
  <2> QED BY <1>4, <1>6, <1>7, <2>1, <2>2, <2>3
<1>10. OneAtATime'
  <2> SUFFICES ASSUME "overlap" \notin marks'
               PROVE  /\ \A i, k \in Job : Running(i)' /\ Running(k)' => i = k
                      /\ \A i \in Job : jobs'[i].pc \in Emptied =>
                            FactsOf(At(i))' = {} /\ ~Ingesting(At(i))'
                      /\ \A d \in Doc : Ingesting(d) => FactsOf(d)' = {}
                      /\ \A f, g \in facts' : f.doc = g.doc => f.pass = g.pass
    BY <1>2 DEF OneAtATime, Ingesting
  <2>1. /\ \A i, k \in Job : Running(i) /\ Running(k) => i = k
        /\ \A i \in Job : jobs[i].pc \in Emptied =>
              FactsOf(At(i)) = {} /\ ~Ingesting(At(i))
        /\ \A d \in Doc : Ingesting(d) => FactsOf(d) = {}
        /\ \A f, g \in facts : f.doc = g.doc => f.pass = g.pass
    BY <1>2 DEF JobInv, OneAtATime
  <2>2. \A i \in Job : Running(i)' => i = j  BY <1>2, <1>7, <2>1
  <2>3. ASSUME NEW i \in Job, jobs'[i].pc \in Emptied
        PROVE  FactsOf(At(i))' = {} /\ ~Ingesting(At(i))'
    <3>1. i = j  BY <2>2, <2>3 DEF Emptied, Running
    <3>2. r.pc \in Emptied /\ r.pc \in Writing  BY <1>4, <2>3, <3>1 DEF Emptied, Writing
    <3>3. At(i)' = At(j)  BY <1>6, <3>1, <3>2
    <3>4. ~Ingesting(At(j))  BY <1>1, <2>1, <3>2
    <3>5. \A f \in facts' : f.doc # At(j)  BY <1>1, <2>1, <3>2 DEF FactsOf
    <3>6. FactsOf(At(i))' = {}  BY <3>3, <3>5 DEF FactsOf
    <3>7. ~Ingesting(At(i))'  BY <1>2, <3>3, <3>4 DEF Ingesting
    <3> QED BY <3>6, <3>7
  <2>4. ASSUME NEW f \in facts', NEW g \in facts', f.doc = g.doc PROVE f.pass = g.pass
    <3>1. CASE f \in facts /\ g \in facts  BY <2>1, <2>4, <3>1
    <3>2. CASE f \notin facts \/ g \notin facts
      <4>1. FactsOf(At(j)) = {}  BY <1>2, <2>1, <3>2 DEF Emptied
      <4>2. f.doc = At(j) /\ g.doc = At(j)  BY <1>2, <2>4, <3>2
      <4>3. f \notin facts /\ g \notin facts  BY <4>1, <4>2 DEF FactsOf
      <4> QED BY <1>2, <4>3
    <3> QED BY <3>1, <3>2
  <2>5. ASSUME NEW d \in Doc, Ingesting(d), NEW f \in facts' PROVE f.doc # d
    <3>1. CASE f \in facts  BY <2>1, <2>5, <3>1 DEF FactsOf
    <3>2. CASE f \notin facts
      <4>1. jobs[j].pc \in Emptied /\ f.doc = At(j)  BY <1>2, <2>5, <3>2 DEF Emptied
      <4> QED BY <2>1, <2>5, <4>1
    <3> QED BY <3>1, <3>2
  <2>6. \A d \in Doc : Ingesting(d) => FactsOf(d)' = {}  BY <2>5 DEF FactsOf
  <2> QED BY <2>2, <2>3, <2>4, <2>6
<1> QED BY <1>8, <1>9, <1>10 DEF JobInv

\* A finite set, listed: a sequence of its members.
LEMMA ListedOK ==
    ASSUME NEW S, S \subseteq Doc
    PROVE  SetToSeq(S) \in Seq(Doc) /\ \A i \in DOMAIN SetToSeq(S) : SetToSeq(S)[i] \in S
<1> DEFINE n == Cardinality(S)
<1>1. IsFiniteSet(S)  BY JobAssumption, FS_Subset
<1>2. n \in Nat /\ ExistsBijection(1 .. n, S)  BY <1>1, FS_CardinalityType
<1>3. \E f \in [1 .. n -> S] : IsInjective(f)
  BY <1>2 DEF ExistsBijection, Bijection, Injection, IsInjective
<1>4. SetToSeq(S) \in [1 .. n -> S]  BY <1>3 DEF SetToSeq
<1> HIDE DEF n
<1>5. PICK s : s = SetToSeq(S)  OBVIOUS
<1>6. s \in [1 .. n -> S] /\ s \in Seq(S)  BY <1>2, <1>4, <1>5
<1>7. s \in Seq(Doc) /\ DOMAIN s = 1 .. n  BY <1>2, <1>6
<1> QED BY <1>5, <1>6, <1>7

\* A document is there or not as before, and no job moves.
Lasting == /\ UNCHANGED jobs /\ DOMAIN docs' = Doc /\ \A d \in Doc : DocOK(docs'[d])
           /\ \A d \in Doc : docs[d].st # "absent" => docs'[d].st # "absent"
           /\ \A f \in facts' \ facts : f.doc \in Doc /\ docs'[f.doc].st # "absent"

LEMMA LastingOK ==
    ASSUME JobsOK, Lasting
    PROVE  /\ JobsOK'
           /\ \A j \in Job : At(j)' = At(j) /\ (Running(j)' <=> Running(j))
<1>1. \A j \in Job : \A i \in DOMAIN jobs[j].queue : jobs[j].queue[i] \in Doc
  BY DEF JobsOK, JobOK
<1>2. \A j \in Job : \A i \in DOMAIN jobs[j].queue : docs'[jobs[j].queue[i]].st # "absent"
  BY <1>1 DEF JobsOK, Lasting
<1>3. \A f \in facts' : f.doc \in Doc /\ docs'[f.doc].st # "absent"  BY DEF JobsOK, Lasting
<1>4. JobsOK'  BY <1>2, <1>3 DEF JobsOK, Lasting
<1> QED BY <1>4 DEF Lasting, At, Running

\* One document becomes x, which it may.
LEMMA DocBecomes ==
    ASSUME JobsOK, NEW d \in Doc, NEW x, docs' = [docs EXCEPT ![d] = x], DocOK(x),
           x.st # "absent", UNCHANGED jobs, \A f \in facts' \ facts : f.doc = d
    PROVE  /\ Lasting /\ \A e \in Doc : docs'[e] = IF e = d THEN x ELSE docs[e]
           /\ \A e \in Doc \ {d} : /\ Emptying(docs'[e]) <=> Emptying(docs[e])
                                   /\ Ingesting(e)' <=> Ingesting(e)
           /\ Ingesting(d)' <=> x.ingest # "done"
<1>1. DOMAIN docs = Doc /\ \A e \in Doc : DocOK(docs[e])  BY DEF JobsOK
<1>2. \A e \in Doc : docs'[e] = IF e = d THEN x ELSE docs[e]  BY <1>1
<1>3. DOMAIN docs' = Doc  BY <1>1
<1>4. Lasting  BY <1>1, <1>2, <1>3 DEF Lasting
<1>5. \A e \in Doc \ {d} : /\ Emptying(docs'[e]) <=> Emptying(docs[e])
                           /\ Ingesting(e)' <=> Ingesting(e)
  BY <1>2 DEF Ingesting
<1>6. Ingesting(d)' <=> x.ingest # "done"  BY <1>2 DEF Ingesting
<1> QED BY <1>2, <1>4, <1>5, <1>6

\* A document is ingested once, so that it had no facts before.
LEMMA IngestKeeps ==
    ASSUME JobInv, NEW d \in Doc, add_document(d)
    PROVE  JobInv'
<1>1. docs[d].st = "absent" /\ UNCHANGED <<facts, jobs, late, marks>>  BY DEF add_document
<1>2. JobsOK  BY DEF JobInv
<1>3. PICK x : docs' = [docs EXCEPT ![d] = x] /\ DocOK(x) /\ x.st = "stored"
  <2>1. PICK t, ingest, chunks :
          docs' = [docs EXCEPT ![d] = [NoDoc EXCEPT !.st = "stored", !.from = {t},
                                                    !.chunks = chunks, !.ingest = ingest]]
    BY DEF add_document
  <2>2. PICK x : x = [NoDoc EXCEPT !.st = "stored", !.from = {t}, !.chunks = chunks,
                                   !.ingest = ingest]
    OBVIOUS
  <2>3. DocOK(x) /\ x.st = "stored"  BY <2>2 DEF DocOK, DocFields, NoDoc
  <2> QED BY <2>1, <2>2, <2>3
<1>4. /\ Lasting /\ \A e \in Doc : docs'[e] = IF e = d THEN x ELSE docs[e]
      /\ \A e \in Doc \ {d} : /\ Emptying(docs'[e]) <=> Emptying(docs[e])
                              /\ Ingesting(e)' <=> Ingesting(e)
  BY <1>1, <1>2, <1>3, DocBecomes
<1>5. JobsOK' /\ \A j \in Job : At(j)' = At(j) /\ (Running(j)' <=> Running(j))
  BY <1>2, <1>4, LastingOK
<1>6. FactsOf(d) = {}  BY <1>1, <1>2 DEF JobsOK, FactsOf
<1>7. \A j \in Job : jobs[j].pc \in Writing => At(j) \in Doc /\ At(j) # d
  BY <1>1, <1>2, AtQueue
<1>8. NoneWritten'
  <2>1. ~Emptying(docs'[d])  BY <1>3, <1>4 DEF Emptying
  <2> QED BY <1>1, <1>4, <1>5, <2>1 DEF JobInv, NoneWritten, FactsOf
<1>9. OneAtATime'
  <2> SUFFICES ASSUME "overlap" \notin marks
               PROVE  /\ \A i, j \in Job : Running(i)' /\ Running(j)' => i = j
                      /\ \A j \in Job : jobs[j].pc \in Emptied =>
                            FactsOf(At(j)) = {} /\ ~Ingesting(At(j))'
                      /\ \A e \in Doc : Ingesting(e)' => FactsOf(e) = {}
                      /\ \A f, g \in facts : f.doc = g.doc => f.pass = g.pass
    BY <1>1, <1>5 DEF OneAtATime, FactsOf
  <2>1. /\ \A i, j \in Job : Running(i) /\ Running(j) => i = j
        /\ \A j \in Job : jobs[j].pc \in Emptied =>
              FactsOf(At(j)) = {} /\ ~Ingesting(At(j))
        /\ \A e \in Doc : Ingesting(e) => FactsOf(e) = {}
        /\ \A f, g \in facts : f.doc = g.doc => f.pass = g.pass
    BY DEF JobInv, OneAtATime
  <2>2. ASSUME NEW j \in Job, jobs[j].pc \in Emptied PROVE ~Ingesting(At(j))'
    <3>1. At(j) \in Doc \ {d}  BY <1>7, <2>2 DEF Emptied, Writing
    <3>2. ~Ingesting(At(j))  BY <2>1, <2>2
    <3>3. docs'[At(j)] = docs[At(j)]  BY <1>4, <3>1
    <3> QED BY <1>5, <3>2, <3>3 DEF Ingesting
  <2> QED BY <1>4, <1>5, <1>6, <2>1, <2>2
<1> QED BY <1>5, <1>8, <1>9 DEF JobInv

\* What is written of a document changes, but not what the invariant says of it.
LEMMA CalmKeeps ==
    ASSUME JobInv, Lasting, facts' \subseteq facts, marks \subseteq marks',
           \A d \in Doc \ late' : Emptying(docs'[d]) =>
               \/ d \notin late /\ Emptying(docs[d])
               \/ /\ FactsOf(d)' = {} /\ ~Ingesting(d)'
                  /\ \A j \in Job : jobs[j].pc \in Writing => At(j) # d,
           \A d \in Doc : Ingesting(d)' => Ingesting(d)
    PROVE  JobInv'
<1>1. JobsOK' /\ \A j \in Job : At(j)' = At(j) /\ (Running(j)' <=> Running(j))
  BY LastingOK DEF JobInv
<1>2. UNCHANGED jobs  BY DEF Lasting
<1>3. ASSUME NEW d PROVE FactsOf(d) = {} => FactsOf(d)' = {}  BY DEF FactsOf
<1>4. NoneWritten'
  BY <1>1, <1>2, <1>3 DEF JobInv, NoneWritten
<1>5. OneAtATime'
  <2> SUFFICES ASSUME "overlap" \notin marks'
               PROVE  /\ \A i, j \in Job : Running(i)' /\ Running(j)' => i = j
                      /\ \A j \in Job : jobs[j].pc \in Emptied =>
                            FactsOf(At(j))' = {} /\ ~Ingesting(At(j))'
                      /\ \A e \in Doc : Ingesting(e)' => FactsOf(e)' = {}
                      /\ \A f, g \in facts' : f.doc = g.doc => f.pass = g.pass
    BY <1>2 DEF OneAtATime
  <2>1. /\ \A i, j \in Job : Running(i) /\ Running(j) => i = j
        /\ \A j \in Job : jobs[j].pc \in Emptied =>
              FactsOf(At(j)) = {} /\ ~Ingesting(At(j))
        /\ \A e \in Doc : Ingesting(e) => FactsOf(e) = {}
        /\ \A f, g \in facts : f.doc = g.doc => f.pass = g.pass
    BY DEF JobInv, OneAtATime
  <2>2. ASSUME NEW j \in Job, jobs[j].pc \in Emptied
        PROVE  FactsOf(At(j))' = {} /\ ~Ingesting(At(j))'
    <3>1. At(j) \in Doc  BY <2>2, AtQueue DEF JobInv, Emptied, Writing
    <3>2. PICK e \in Doc : e = At(j)  BY <3>1
    <3>3. At(j)' = e  BY <1>1, <3>2
    <3>4. FactsOf(e) = {} /\ ~Ingesting(e)  BY <2>1, <2>2, <3>2
    <3>5. FactsOf(e)' = {} /\ ~Ingesting(e)'  BY <1>3, <3>4
    <3> QED BY <3>3, <3>5 DEF FactsOf, Ingesting
  <2> QED BY <1>1, <1>3, <2>1, <2>2
<1> QED BY <1>1, <1>4, <1>5 DEF JobInv

\* Facts that go.
LEMMA FewerKeep ==
    ASSUME JobInv, facts' \subseteq facts, UNCHANGED <<jobs, docs, late>>, marks \subseteq marks'
    PROVE  JobInv'
<1>1. Lasting  BY DEF JobInv, JobsOK, Lasting
<1>2. \A d \in Doc : Ingesting(d)' => Ingesting(d)  BY DEF Ingesting
<1> QED BY <1>1, <1>2, CalmKeeps

\* The steps of an ingest after its chunks.
LEMMA RowKeeps ==
    ASSUME JobInv, NEW d \in Doc, insert_document(d)
    PROVE  JobInv'
<1>1. docs[d].ingest = "row" /\ UNCHANGED <<facts, jobs, late, marks>>
  BY DEF insert_document
<1>2. JobsOK /\ DocOK(docs[d]) /\ DOMAIN docs = Doc  BY DEF JobInv, JobsOK
<1>3. PICK row \in BOOLEAN : docs' = [docs EXCEPT ![d].row = row, ![d].ingest = "facts"]
  BY DEF insert_document
<1>4. PICK x : x = [docs[d] EXCEPT !.row = row, !.ingest = "facts"]  OBVIOUS
<1>5. docs' = [docs EXCEPT ![d] = x]  BY <1>2, <1>3, <1>4 DEF DocOK
<1>6. docs[d].st # "absent"  BY <1>1, <1>2 DEF DocOK
<1>7. DocOK(x) /\ x.st # "absent" /\ (Emptying(x) <=> Emptying(docs[d]))
  BY <1>2, <1>4, <1>6 DEF DocOK, DocFields, Emptying
<1>8. /\ Lasting /\ \A e \in Doc : docs'[e] = IF e = d THEN x ELSE docs[e]
      /\ \A e \in Doc \ {d} : /\ Emptying(docs'[e]) <=> Emptying(docs[e])
                              /\ Ingesting(e)' <=> Ingesting(e)
  BY <1>1, <1>2, <1>5, <1>7, DocBecomes
<1>9. Ingesting(d)  BY <1>1 DEF Ingesting
<1>10. \A e \in Doc : Ingesting(e)' => Ingesting(e)  BY <1>8, <1>9
<1>11. \A e \in Doc : Emptying(docs'[e]) => Emptying(docs[e])  BY <1>7, <1>8
<1> QED BY <1>1, <1>8, <1>10, <1>11, CalmKeeps

LEMMA IngestFactsKeeps ==
    ASSUME JobInv, NEW d \in Doc, ingest_facts(d)
    PROVE  JobInv'
<1> DEFINE new == {Fact(d, p, "ingest") :
                     p \in UNION {Positions(t.text) : t \in docs[d].from}}
<1>1. docs[d].ingest = "facts" /\ UNCHANGED <<jobs, late, marks>>  BY DEF ingest_facts
<1>2. JobsOK /\ DocOK(docs[d]) /\ DOMAIN docs = Doc  BY DEF JobInv, JobsOK
<1>3. PICK x : x = [docs[d] EXCEPT !.ingest = "done"]  OBVIOUS
<1>4. docs' = [docs EXCEPT ![d] = x]  BY <1>2, <1>3 DEF DocOK, ingest_facts
<1>5. docs[d].st # "absent"  BY <1>1, <1>2 DEF DocOK
<1>6. DocOK(x) /\ x.st # "absent" /\ (Emptying(x) <=> Emptying(docs[d])) /\ x.ingest = "done"
  BY <1>2, <1>3, <1>5 DEF DocOK, DocFields, Emptying
<1>7. facts \subseteq facts' /\ \A f \in facts' \ facts : f.doc = d /\ f.pass = "ingest"
  BY DEF ingest_facts, Fact
<1>8. /\ Lasting /\ \A e \in Doc : docs'[e] = IF e = d THEN x ELSE docs[e]
      /\ \A e \in Doc \ {d} : /\ Emptying(docs'[e]) <=> Emptying(docs[e])
                              /\ Ingesting(e)' <=> Ingesting(e)
      /\ ~Ingesting(d)'
  BY <1>1, <1>2, <1>4, <1>6, <1>7, DocBecomes
<1>9. JobsOK' /\ \A j \in Job : At(j)' = At(j) /\ (Running(j)' <=> Running(j))
  BY <1>2, <1>8, LastingOK
<1>10. Ingesting(d)  BY <1>1 DEF Ingesting
<1>11. NoneWritten'
  <2> SUFFICES ASSUME NEW e \in Doc, e \notin late, Emptying(docs'[e])
               PROVE  /\ \A f \in facts' : f.doc # e
                      /\ ~Ingesting(e)'
                      /\ \A j \in Job : jobs[j].pc \in Writing => At(j) # e
    BY <1>1, <1>9 DEF NoneWritten, FactsOf
  <2>1. Emptying(docs[e])  BY <1>6, <1>8
  <2>2. FactsOf(e) = {} /\ ~Ingesting(e) /\ \A j \in Job : jobs[j].pc \in Writing => At(j) # e
    BY <2>1 DEF JobInv, NoneWritten
  <2>3. e # d  BY <1>10, <2>2
  <2> QED BY <1>7, <1>8, <2>2, <2>3 DEF FactsOf
<1>12. OneAtATime'
  <2> SUFFICES ASSUME "overlap" \notin marks
               PROVE  /\ \A i, j \in Job : Running(i)' /\ Running(j)' => i = j
                      /\ \A j \in Job : jobs[j].pc \in Emptied =>
                            FactsOf(At(j))' = {} /\ ~Ingesting(At(j))'
                      /\ \A e \in Doc : Ingesting(e)' => FactsOf(e)' = {}
                      /\ \A f, g \in facts' : f.doc = g.doc => f.pass = g.pass
    BY <1>1 DEF OneAtATime
  <2>1. /\ \A i, j \in Job : Running(i) /\ Running(j) => i = j
        /\ \A j \in Job : jobs[j].pc \in Emptied =>
              FactsOf(At(j)) = {} /\ ~Ingesting(At(j))
        /\ \A e \in Doc : Ingesting(e) => FactsOf(e) = {}
        /\ \A f, g \in facts : f.doc = g.doc => f.pass = g.pass
    BY DEF JobInv, OneAtATime
  <2>2. \A e \in Doc \ {d} : FactsOf(e) = {} => FactsOf(e)' = {}  BY <1>7 DEF FactsOf
  <2>3. ASSUME NEW j \in Job, jobs[j].pc \in Emptied
        PROVE  FactsOf(At(j))' = {} /\ ~Ingesting(At(j))'
    <3>1. At(j) \in Doc  BY <1>2, <2>3, AtQueue DEF Emptied, Writing
    <3>2. PICK e \in Doc : e = At(j)  BY <3>1
    <3>3. At(j)' = e  BY <1>9, <3>2
    <3>4. FactsOf(e) = {} /\ ~Ingesting(e)  BY <2>1, <2>3, <3>2
    <3>5. FactsOf(e)' = {} /\ ~Ingesting(e)'  BY <1>8, <1>10, <2>2, <3>4
    <3> QED BY <3>3, <3>5 DEF FactsOf, Ingesting
  <2>4. ASSUME NEW e \in Doc, Ingesting(e)' PROVE FactsOf(e)' = {}
    <3>1. e # d /\ Ingesting(e)  BY <1>8, <2>4
    <3> QED BY <2>1, <2>2, <3>1
  <2>5. \A f \in facts : f.doc # d  BY <1>10, <2>1 DEF FactsOf
  <2>6. \A f, g \in facts' : f.doc = g.doc => f.pass = g.pass  BY <1>7, <2>1, <2>5
  <2> QED BY <1>9, <2>1, <2>3, <2>4, <2>6
<1> QED BY <1>9, <1>11, <1>12 DEF JobInv

\* A delete begins: what was said of the document no longer is.
LEMMA BeginKeeps ==
    ASSUME JobInv, NEW d \in Doc, delete_document_tagged(d)
    PROVE  JobInv'
<1>1. /\ docs[d].st # "absent" /\ UNCHANGED <<facts, jobs, marks>> /\ late' = late \ {d}
  BY DEF delete_document_tagged
<1>2. JobsOK /\ DocOK(docs[d]) /\ DOMAIN docs = Doc  BY DEF JobInv, JobsOK
<1>3. PICK x : x = [docs[d] EXCEPT !.st = "deleting", !.left = {"chunks", "facts"}, !.ok = TRUE]
  OBVIOUS
<1>4. docs' = [docs EXCEPT ![d] = x]  BY <1>2, <1>3 DEF DocOK, delete_document_tagged
<1>5. DocOK(x) /\ x.st # "absent" /\ ~Emptying(x) /\ x.ingest = docs[d].ingest
  BY <1>2, <1>3 DEF DocOK, DocFields, Emptying
<1>6. /\ Lasting /\ \A e \in Doc : docs'[e] = IF e = d THEN x ELSE docs[e]
      /\ \A e \in Doc \ {d} : /\ Emptying(docs'[e]) <=> Emptying(docs[e])
                              /\ Ingesting(e)' <=> Ingesting(e)
  BY <1>1, <1>2, <1>4, <1>5, DocBecomes
<1>7. \A e \in Doc : Ingesting(e)' => Ingesting(e)  BY <1>5, <1>6 DEF Ingesting
<1>8. \A e \in Doc \ late' : Emptying(docs'[e]) => e \notin late /\ Emptying(docs[e])
  BY <1>1, <1>5, <1>6
<1> QED BY <1>1, <1>6, <1>7, <1>8, CalmKeeps

\* A delete takes the chunks, or the facts, and then notices who is to write some.
LEMMA PartKeeps ==
    ASSUME JobInv, NEW d \in Doc, NEW part, delete_by_filter(d, part)
    PROVE  JobInv'
<1>1. docs[d].st = "deleting" /\ part \in docs[d].left /\ UNCHANGED <<jobs, marks>>
  BY DEF delete_by_filter
<1>2. JobsOK /\ DocOK(docs[d]) /\ DOMAIN docs = Doc  BY DEF JobInv, JobsOK
<1>3. PICK took \in BOOLEAN, ok \in BOOLEAN :
         /\ ok => took
         /\ docs' = [docs EXCEPT ![d].left = @ \ {part}, ![d].ok = @ /\ ok,
                       ![d].chunks = IF took /\ part = "chunks" THEN <<>> ELSE @]
         /\ facts' = IF took /\ part = "facts" THEN facts \ FactsOf(d) ELSE facts
  BY DEF delete_by_filter
<1>4. PICK still, chunks : /\ still = (docs[d].ok /\ ok)
                           /\ chunks = IF took /\ part = "chunks" THEN <<>> ELSE docs[d].chunks
  OBVIOUS
<1>5. PICK x : x = [docs[d] EXCEPT !.left = docs[d].left \ {part}, !.ok = still,
                                   !.chunks = chunks]
  OBVIOUS
<1>6. docs' = [docs EXCEPT ![d] = x]
  BY <1>2, <1>3, <1>4, <1>5 DEF DocOK, DocFields
<1>7. /\ DOMAIN x = DocFields /\ x.st = "deleting" /\ x.left = docs[d].left \ {part}
      /\ x.ok = still /\ x.chunks = chunks /\ x.ingest = docs[d].ingest
  BY <1>1, <1>2, <1>5 DEF DocOK, DocFields
<1>8. DocOK(x)
  <2>1. x.ok /\ "chunks" \notin x.left => x.chunks = <<>>
    <3> SUFFICES ASSUME x.ok, "chunks" \notin x.left, chunks # <<>> PROVE FALSE
      BY <1>7
    <3>1. docs[d].ok /\ took  BY <1>3, <1>4, <1>7
    <3>2. part # "chunks" /\ chunks = docs[d].chunks  BY <1>4, <3>1
    <3> QED BY <1>1, <1>2, <1>7, <3>1, <3>2 DEF DocOK
  <2> QED BY <1>2, <1>7, <2>1 DEF DocOK
<1>9. facts' \subseteq facts  BY <1>3
<1>10. /\ Lasting /\ \A e \in Doc : docs'[e] = IF e = d THEN x ELSE docs[e]
       /\ \A e \in Doc \ {d} : /\ Emptying(docs'[e]) <=> Emptying(docs[e])
                               /\ Ingesting(e)' <=> Ingesting(e)
  BY <1>1, <1>2, <1>6, <1>7, <1>8, <1>9, DocBecomes
<1>11. \A e \in Doc : Ingesting(e)' => Ingesting(e)  BY <1>7, <1>10 DEF Ingesting
<1>12. late' = late \cup {e \in {d} : part = "facts" /\ (Busy(d) \/ Ingesting(d))}
  BY DEF delete_by_filter
<1>13. ASSUME d \notin late', Emptying(docs'[d])
       PROVE  \/ d \notin late /\ Emptying(docs[d])
              \/ /\ FactsOf(d)' = {} /\ ~Ingesting(d)'
                 /\ \A j \in Job : jobs[j].pc \in Writing => At(j) # d
  <2>1. x.ok /\ "facts" \notin x.left  BY <1>7, <1>10, <1>13 DEF Emptying
  <2>2. docs[d].ok /\ took  BY <1>3, <1>4, <1>7, <2>1
  <2>3. CASE part = "facts"
    <3>1. ~Busy(d) /\ ~Ingesting(d)  BY <1>12, <1>13, <2>3
    <3>2. FactsOf(d)' = {}  BY <1>3, <2>2, <2>3 DEF FactsOf
    <3> QED BY <1>11, <3>1, <3>2 DEF Busy, Writing
  <2>4. CASE part # "facts"
    <3>1. "facts" \notin docs[d].left  BY <1>7, <2>1, <2>4
    <3> QED BY <1>1, <1>12, <1>13, <2>2, <3>1 DEF Emptying
  <2> QED BY <2>3, <2>4
<1>14. ASSUME NEW e \in Doc \ late', Emptying(docs'[e])
       PROVE  \/ e \notin late /\ Emptying(docs[e])
              \/ /\ FactsOf(e)' = {} /\ ~Ingesting(e)'
                 /\ \A j \in Job : jobs[j].pc \in Writing => At(j) # e
  <2>1. CASE e = d  BY <1>13, <1>14, <2>1
  <2>2. CASE e # d  BY <1>10, <1>12, <1>14, <2>2
  <2> QED BY <2>1, <2>2
<1> QED BY <1>1, <1>9, <1>10, <1>11, <1>14, CalmKeeps

\* A delete ends.
LEMMA EndKeeps ==
    ASSUME JobInv, NEW d \in Doc, delete_fails(d) \/ delete_succeeds(d)
    PROVE  JobInv'
<1>1. /\ docs[d].st = "deleting" /\ docs[d].left = {} /\ UNCHANGED <<facts, jobs, late, marks>>
      /\ \E st \in {"half", "deleted"} : /\ docs' = [docs EXCEPT ![d].st = st]
                                         /\ st = "deleted" => docs[d].ok
  BY DEF delete_fails, delete_succeeds
<1>2. JobsOK /\ DocOK(docs[d]) /\ DOMAIN docs = Doc  BY DEF JobInv, JobsOK
<1>3. PICK st \in {"half", "deleted"} : /\ docs' = [docs EXCEPT ![d].st = st]
                                        /\ st = "deleted" => docs[d].ok
  BY <1>1
<1>4. PICK x : x = [docs[d] EXCEPT !.st = st]  OBVIOUS
<1>5. docs' = [docs EXCEPT ![d] = x]  BY <1>2, <1>3, <1>4 DEF DocOK
<1>6. /\ DocOK(x) /\ x.st # "absent" /\ x.ingest = docs[d].ingest
      /\ Emptying(x) => Emptying(docs[d])
  BY <1>1, <1>2, <1>3, <1>4 DEF DocOK, DocFields, Emptying
<1>7. /\ Lasting /\ \A e \in Doc : docs'[e] = IF e = d THEN x ELSE docs[e]
      /\ \A e \in Doc \ {d} : /\ Emptying(docs'[e]) <=> Emptying(docs[e])
                              /\ Ingesting(e)' <=> Ingesting(e)
  BY <1>1, <1>2, <1>5, <1>6, DocBecomes
<1>8. \A e \in Doc : Ingesting(e)' => Ingesting(e)  BY <1>6, <1>7 DEF Ingesting
<1>9. \A e \in Doc : Emptying(docs'[e]) => Emptying(docs[e])  BY <1>6, <1>7
<1> QED BY <1>1, <1>7, <1>8, <1>9, CalmKeeps

\* A request lists documents that were there, and is marked if it overlaps.
LEMMA RequestKeeps ==
    ASSUME JobInv, NEW j \in Job, reindex(j)
    PROVE  JobInv'
<1>1. /\ jobs[j].pc = "none" /\ UNCHANGED <<docs, facts, late>>
      /\ marks' = marks \cup {m \in {"overlap"} : \E i \in Job \ {j} : Running(i)}
  BY DEF reindex
<1>2. JobsOK /\ DOMAIN jobs = Job  BY DEF JobInv, JobsOK
<1>3. PICK listed \in list_document_ids : \E row \in job_create(Cardinality(listed)) :
         jobs' = [jobs EXCEPT ![j] = [NoJob EXCEPT !.pc = "start", !.row = row,
                                                   !.queue = SetToSeq(listed)]]
  BY DEF reindex
<1>4. listed \subseteq Doc /\ \A d \in listed : docs[d].st # "absent"
  BY <1>2, <1>3 DEF list_document_ids, JobsOK, DocOK
<1>5. PICK queue : queue = SetToSeq(listed)  OBVIOUS
<1>6. queue \in Seq(Doc) /\ \A i \in DOMAIN queue : docs[queue[i]].st # "absent"
  BY <1>4, <1>5, ListedOK
<1>7. PICK row : jobs' = [jobs EXCEPT ![j] = [NoJob EXCEPT !.pc = "start", !.row = row,
                                                           !.queue = queue]]
  BY <1>3, <1>5
<1>8. PICK r : r = [NoJob EXCEPT !.pc = "start", !.row = row, !.queue = queue]  OBVIOUS
<1>9. /\ DOMAIN r = JobFields /\ r.pc = "start" /\ r.queue = queue /\ r.done = 0
  BY <1>8 DEF NoJob, JobFields
<1>10. jobs' = [jobs EXCEPT ![j] = r]  BY <1>7, <1>8
<1>11. \A i \in Job : jobs'[i] = IF i = j THEN r ELSE jobs[i]  BY <1>2, <1>10
<1>12. \A i \in Job : i # j => At(i)' = At(i) /\ (Running(i)' <=> Running(i))
  BY <1>11 DEF At, Running
<1>13. JobOK(r)  BY <1>6, <1>9 DEF JobOK, Writing
<1>14. JobsOK'
  <2>1. DOMAIN jobs' = Job /\ \A i \in Job : JobOK(jobs'[i])
    BY <1>2, <1>10, <1>11, <1>13 DEF JobsOK
  <2>2. \A i \in Job : \A n \in DOMAIN jobs'[i].queue : docs[jobs'[i].queue[n]].st # "absent"
    BY <1>2, <1>6, <1>9, <1>11 DEF JobsOK
  <2> QED BY <1>1, <1>2, <2>1, <2>2 DEF JobsOK
<1>15. NoneWritten'
  <2>1. \A i \in Job : jobs'[i].pc \in Writing =>
                         jobs[i].pc \in Writing /\ At(i)' = At(i)
    BY <1>9, <1>11, <1>12 DEF Writing
  <2> QED BY <1>1, <2>1 DEF JobInv, NoneWritten, FactsOf, Ingesting, Emptying
<1>16. OneAtATime'
  <2>1. "overlap" \notin marks' => "overlap" \notin marks /\ \A i \in Job \ {j} : ~Running(i)
    BY <1>1
  <2>2. \A i \in Job : jobs'[i].pc \in Emptied => i # j /\ jobs[i].pc \in Emptied
    BY <1>9, <1>11 DEF Emptied
  <2> QED BY <1>1, <1>12, <2>1, <2>2 DEF JobInv, OneAtATime, FactsOf, Ingesting
<1> QED BY <1>14, <1>15, <1>16 DEF JobInv

\* A restart ends every job.
LEMMA RestartKeeps ==
    ASSUME JobInv, restart
    PROVE  JobInv'
<1>1. UNCHANGED <<facts, late, marks>>  BY DEF restart
<1>2. JobsOK  BY DEF JobInv
<1>3. \A j \in Job : \/ ~Running(j) /\ jobs'[j] = jobs[j]
                     \/ /\ jobs'[j].pc = "over" /\ JobOK(jobs'[j])
                        /\ jobs'[j].queue = <<>>
  <2> TAKE j \in Job
  <2>1. CASE ~Running(j)  BY <2>1 DEF restart
  <2>2. CASE Running(j)
    <3>1. PICK r : r = [NoJob EXCEPT !.pc = "over", !.row = jobs[j].row]  OBVIOUS
    <3>2. /\ DOMAIN r = JobFields /\ r.pc = "over" /\ r.queue = <<>> /\ r.done = 0
      BY <3>1 DEF NoJob, JobFields
    <3>3. JobOK(r)
      <4>1. <<>> \in Seq(Doc)  OBVIOUS
      <4> QED BY <3>2, <4>1 DEF JobOK, Writing
    <3>4. jobs'[j] = r  BY <2>2, <3>1 DEF restart
    <3> QED BY <3>2, <3>3, <3>4
  <2> QED BY <2>1, <2>2
<1>4. ASSUME NEW d \in Doc
      PROVE  /\ DocOK(docs'[d]) /\ ~Ingesting(d)' /\ (docs[d].st # "absent" => docs'[d].st # "absent")
             /\ Emptying(docs'[d]) => Emptying(docs[d])
  <2>1. DocOK(docs[d])  BY <1>2 DEF JobsOK
  <2>2. PICK st : st = IF docs[d].st = "deleting" THEN "half" ELSE docs[d].st  OBVIOUS
  <2>3. PICK x : x = [docs[d] EXCEPT !.ingest = "done", !.left = {}, !.st = st]  OBVIOUS
  <2>4. docs'[d] = x  BY <2>2, <2>3 DEF restart
  <2>5. /\ DOMAIN x = DocFields /\ x.ingest = "done" /\ x.st = st
        /\ x.chunks = docs[d].chunks /\ x.row = docs[d].row
    BY <2>1, <2>3 DEF DocOK, DocFields
  <2>6. DocOK(x) /\ st # "deleting" /\ (docs[d].st # "absent" => st # "absent")
    BY <2>1, <2>2, <2>5 DEF DocOK
  <2>7. Emptying(x) => Emptying(docs[d])  BY <2>2, <2>5, <2>6 DEF Emptying
  <2> QED BY <2>4, <2>5, <2>6, <2>7 DEF Ingesting
<1>5. JobsOK'
  <2>1. DOMAIN jobs' = Job /\ DOMAIN docs' = Doc  BY DEF restart
  <2>2. \A j \in Job : \A i \in DOMAIN jobs[j].queue : jobs[j].queue[i] \in Doc
    BY <1>2 DEF JobsOK, JobOK
  <2>3. ASSUME NEW j \in Job
        PROVE  JobOK(jobs'[j]) /\ \A i \in DOMAIN jobs'[j].queue : docs'[jobs'[j].queue[i]].st # "absent"
    <3>1. CASE ~Running(j) /\ jobs'[j] = jobs[j]  BY <1>2, <1>4, <2>2, <3>1 DEF JobsOK
    <3>2. CASE JobOK(jobs'[j]) /\ jobs'[j].queue = <<>>
      <4>1. DOMAIN jobs'[j].queue = {}  BY <3>2
      <4> QED BY <3>2, <4>1
    <3> QED BY <1>3, <3>1, <3>2
  <2>4. \A f \in facts' : f.doc \in Doc /\ docs'[f.doc].st # "absent"
    BY <1>1, <1>2, <1>4 DEF JobsOK
  <2> QED BY <1>4, <2>1, <2>3, <2>4 DEF JobsOK
<1>6. \A j \in Job : ~Running(j)' /\ jobs'[j].pc \notin Writing /\ jobs'[j].pc \notin Emptied
  BY <1>3 DEF Running, Writing, Emptied
<1>7. NoneWritten'
  <2>1. \A d \in Doc : Emptying(docs[d])' => Emptying(docs[d])  BY <1>4 DEF Emptying
  <2> QED BY <1>1, <1>4, <1>6, <2>1 DEF JobInv, NoneWritten, FactsOf
<1>8. OneAtATime'  BY <1>1, <1>4, <1>6 DEF JobInv, OneAtATime, FactsOf
<1> QED BY <1>5, <1>7, <1>8 DEF JobInv

LEMMA JobStarts ==
    ASSUME Init
    PROVE  JobInv
<1>1. DocOK(NoDoc)  BY DEF DocOK, DocFields, NoDoc
<1>2. JobOK(NoJob) /\ NoJob.queue = <<>>
  <2>1. PICK r : r = NoJob  OBVIOUS
  <2>2. DOMAIN r = JobFields /\ r.pc = "none" /\ r.queue = <<>> /\ r.done = 0
    BY <2>1 DEF NoJob, JobFields
  <2>3. <<>> \in Seq(Doc)  OBVIOUS
  <2>4. JobOK(r)  BY <2>2, <2>3 DEF JobOK, Writing
  <2> QED BY <2>1, <2>2, <2>4
<1>3. JobsOK  BY <1>1, <1>2 DEF Init, JobInit, JobsOK
<1>4. NoneWritten /\ OneAtATime
  BY DEF Init, JobInit, NoneWritten, OneAtATime, FactsOf, Running, NoDoc, NoJob, Writing,
         Emptied, Emptying, Ingesting
<1> QED BY <1>3, <1>4 DEF JobInv

\* Every step of the system.
LEMMA JobSteps ==
    ASSUME JobInv, [Next]_vars
    PROVE  JobInv'
<1>1. CASE UNCHANGED jobVars
  <2>1. facts' \subseteq facts /\ marks \subseteq marks' /\ UNCHANGED <<jobs, docs, late>>
    BY <1>1 DEF jobVars
  <2> QED BY <2>1, FewerKeep
<1>2. ASSUME NEW d \in Doc, add_document(d) PROVE JobInv'  BY <1>2, IngestKeeps
<1>3. ASSUME NEW f \in facts, forget_memory(f) PROVE JobInv'
  BY <1>3, FewerKeep DEF forget_memory
<1>4. ASSUME NEW j \in Job, reindex(j) PROVE JobInv'  BY <1>4, RequestKeeps
<1>5. ASSUME NEW j \in Job, JobStep(j) PROVE JobInv'
  BY <1>5, StepMoves, JobMovesKeep DEF JobInv
<1>6. ASSUME NEW d \in Doc, Deletes(d) PROVE JobInv'  BY <1>6, EndKeeps DEF Deletes
<1>7. CASE Restarts  BY <1>7, RestartKeeps DEF Restarts
<1>8. ASSUME NEW d \in Doc, insert_document(d) \/ ingest_facts(d) PROVE JobInv'
  BY <1>8, RowKeeps, IngestFactsKeeps
<1>9. ASSUME NEW d \in Doc, delete_document_tagged(d) \/ delete_fails(d) PROVE JobInv'
  BY <1>9, BeginKeeps, EndKeeps
<1>10. ASSUME NEW d \in Doc, NEW part, delete_by_filter(d, part) PROVE JobInv'
  BY <1>10, PartKeeps
<1>11. ASSUME NEW j \in Job, model_silent(j) PROVE JobInv'
  BY <1>11, SilentMoves, JobMovesKeep DEF JobInv
<1> QED BY <1>1, <1>2, <1>3, <1>4, <1>5, <1>6, <1>7, <1>8, <1>9, <1>10, <1>11
        DEF Next, FactSteps, vars

LEMMA JobsHold == Spec => []JobInv
<1>1. Init => JobInv  BY JobStarts
<1>2. JobInv /\ [Next]_vars => JobInv'  BY JobSteps
<1> QED BY <1>1, <1>2, PTL DEF Spec

\* A job replaces the facts of a document: while it overlaps neither another job nor
\* the ingest of the document, all of them come from the ingest or from one job,
\* whatever fails or is deleted, step by step, meanwhile.
THEOREM OnePass == Spec => []OnePassPerDocument
<1>1. JobInv => OnePassPerDocument
  <2> SUFFICES ASSUME JobInv, "overlap" \notin marks, NEW d \in Doc
               PROVE  Cardinality({f.pass : f \in FactsOf(d)}) <= 1
    BY DEF OnePassPerDocument
  <2> DEFINE passes == {f.pass : f \in FactsOf(d)}
  <2>1. \A f, g \in FactsOf(d) : f.pass = g.pass  BY DEF JobInv, OneAtATime, FactsOf
  <2>2. passes = {} \/ \E p : passes = {p}
    <3>1. \A p, q \in passes : p = q  BY <2>1
    <3> HIDE DEF passes
    <3> QED BY <3>1
  <2> HIDE DEF passes
  <2>3. Cardinality(passes) \in {0, 1}  BY <2>2, FS_EmptySet, FS_Singleton
  <2> QED BY <2>3 DEF passes
<1> QED BY <1>1, JobsHold, PTL
-----------------------------------------------------------------------------
\* The profile: who holds statements, how old they may be.

Ages == 0 .. PROFILE_TTL

\* What the cache and the compiles hold: statements, the age of their stamp,
\* and whether a delete overtook them.
Held == {<<cache.says, cache.age, cache.overtaken>>} \cup
        {<<compiles[r].facts, compiles[r].age, compiles[r].overtaken>> : r \in Reader}
Asserted == UNION {h[1] : h \in Held}

\* Records as they are built; who holds nothing, holds no statement.
HoldersOK ==
    /\ DOMAIN cache = DOMAIN NoEntry /\ (~cache.on => cache.says = {})
    /\ DOMAIN compiles = Reader
    /\ \A r \in Reader : /\ DOMAIN compiles[r] = DOMAIN NoCompile
                         /\ compiles[r].pc = "idle" => compiles[r].facts = {}

\* What is held and is no longer stated is gone for no longer than its stamp is
\* old: it was stated when the stamp was taken, or later.
AgesOK ==
    /\ DOMAIN gone = Asserted \ Stated /\ \A s \in DOMAIN gone : gone[s] \in Ages
    /\ \A h \in Held : h[2] \in Ages /\ \A s \in h[1] \ Stated : gone[s] <= h[2]

\* An acknowledged delete, which no writer has overtaken.
Gone(d) == docs[d].st = "deleted" /\ d \notin late

\* Only what a delete has overtaken holds statements of a deleted document.
DeletesSeen ==
    \A h \in Held : h[3] \/ \A d \in Doc : Gone(d) => \A s \in h[1] : s[1] # d

\* A step holds only what was held, with its stamp, or what is stated now.
HeldMoves ==
    \A h \in Held' : \/ h[1] = {} /\ h[2] \in Ages
                     \/ h[1] = Stated /\ UNCHANGED jobVars /\ h[2] \in Ages
                     \/ \E g \in Held : /\ h[1] \subseteq g[1] /\ h[2] = g[2]
                                        /\ g[3] => h[3]

\* The set of holders after a step, written out.
LEMMA HeldNext ==
    Held' = {<<cache'.says, cache'.age, cache'.overtaken>>} \cup
        {<<compiles'[r].facts, compiles'[r].age, compiles'[r].overtaken>> : r \in Reader}
BY DEF Held

\* Statements keep their ages while they are gone.
LEMMA AgesKept ==
    ASSUME AgesOK, HeldMoves, KeepsAges
    PROVE  AgesOK'
<1> DEFINE stated == {Statement(f) : f \in facts'}
           asserted == cache'.says \cup UNION {compiles'[r].facts : r \in Reader}
<1>1. Stated' = stated  BY DEF Stated, Statement
<1>2. Asserted' = asserted
  <2>1. \A s : s \in Asserted' <=> \E h \in Held' : s \in h[1]  BY DEF Asserted
  <2>2. \A s : (\E h \in Held' : s \in h[1]) <=>
                s \in cache'.says \/ \E r \in Reader : s \in compiles'[r].facts
    <3>1. ASSUME NEW s, NEW h \in Held', s \in h[1]
          PROVE  s \in cache'.says \/ \E r \in Reader : s \in compiles'[r].facts
      BY <3>1, HeldNext
    <3>2. ASSUME NEW s, s \in cache'.says PROVE \E h \in Held' : s \in h[1]
      <4>1. PICK h : h = <<cache'.says, cache'.age, cache'.overtaken>>  OBVIOUS
      <4>2. h \in Held'  BY <4>1, HeldNext
      <4> QED BY <3>2, <4>1, <4>2
    <3>3. ASSUME NEW s, NEW r \in Reader, s \in compiles'[r].facts
          PROVE  \E h \in Held' : s \in h[1]
      <4>1. PICK h : h = <<compiles'[r].facts, compiles'[r].age, compiles'[r].overtaken>>
        OBVIOUS
      <4>2. h \in Held'  BY <4>1, HeldNext
      <4> QED BY <3>3, <4>1, <4>2
    <3> QED BY <3>1, <3>2, <3>3
  <2>3. \A s : s \in asserted <=>
                s \in cache'.says \/ \E r \in Reader : s \in compiles'[r].facts
    OBVIOUS
  <2> HIDE DEF asserted
  <2>4. \A s : s \in Asserted' <=> s \in asserted  BY <2>1, <2>2, <2>3
  <2> QED BY <2>4
<1>3. gone' = [s \in asserted \ stated |-> IF s \in DOMAIN gone THEN gone[s] ELSE 0]
  BY DEF KeepsAges
<1>4. 0 \in Ages /\ \A n \in Ages : n >= 0  BY ProfileAssumption DEF Ages
<1> HIDE DEF stated, asserted
<1>5. DOMAIN gone' = Asserted' \ Stated' /\ \A s \in DOMAIN gone' : gone'[s] \in Ages
  BY <1>1, <1>2, <1>3, <1>4 DEF AgesOK
<1>6. ASSUME NEW h \in Held', NEW s \in h[1] \ Stated', h[2] \in Ages,
             s \in DOMAIN gone => gone[s] <= h[2]
      PROVE  gone'[s] <= h[2]
  <2>1. s \in Asserted'
    <3>1. Asserted' = UNION {k[1] : k \in Held'}  BY DEF Asserted
    <3> QED BY <1>6, <3>1
  <2>2. gone'[s] = IF s \in DOMAIN gone THEN gone[s] ELSE 0  BY <1>1, <1>2, <1>3, <1>6, <2>1
  <2> QED BY <1>4, <1>6, <2>2
<1>7. ASSUME NEW h \in Held'
      PROVE  h[2] \in Ages /\ \A s \in h[1] \ Stated' : gone'[s] <= h[2]
  <2>1. CASE h[1] = {} /\ h[2] \in Ages  BY <2>1
  <2>2. CASE h[1] = Stated /\ UNCHANGED jobVars /\ h[2] \in Ages
    <3>1. Stated' = Stated  BY <2>2 DEF Stated, jobVars
    <3> QED BY <2>2, <3>1
  <2>3. CASE \E g \in Held : h[1] \subseteq g[1] /\ h[2] = g[2]
    <3>1. PICK g \in Held : h[1] \subseteq g[1] /\ h[2] = g[2]  BY <2>3
    <3>2. h[2] \in Ages  BY <3>1 DEF AgesOK
    <3>3. ASSUME NEW s \in h[1] \ Stated' PROVE gone'[s] <= h[2]
      <4>1. s \in DOMAIN gone => s \notin Stated  BY DEF AgesOK
      <4>2. s \in DOMAIN gone => gone[s] <= h[2]  BY <3>1, <3>3, <4>1 DEF AgesOK
      <4> QED BY <1>6, <3>2, <3>3, <4>2
    <3> QED BY <3>2, <3>3
  <2> QED BY <2>1, <2>2, <2>3 DEF HeldMoves
<1> QED BY <1>5, <1>7 DEF AgesOK

\* What is held is of no deleted document, unless the delete has marked it.
LEMMA SeenKept ==
    ASSUME DeletesSeen, NoneWritten, HeldMoves,
           \A d \in Doc : Gone(d)' /\ ~Gone(d) =>
               \A h \in Held' : h[3] \/ \A s \in h[1] : s[1] # d
    PROVE  DeletesSeen'
<1>1. ASSUME NEW h \in Held', ~h[3], NEW d \in Doc, Gone(d)', Gone(d), NEW s \in h[1]
      PROVE  s[1] # d
  <2>1. Gone(d)  BY <1>1
  <2>2. CASE h[1] = Stated
    <3>1. PICK f \in facts : s = Statement(f)  BY <1>1, <2>2 DEF Stated
    <3>2. f.doc # d  BY <2>1 DEF NoneWritten, FactsOf, Gone, Emptying
    <3> QED BY <3>1, <3>2 DEF Statement
  <2>3. CASE \E g \in Held : h[1] \subseteq g[1] /\ (g[3] => h[3])
    BY <1>1, <2>1, <2>3 DEF DeletesSeen
  <2> QED BY <1>1, <2>2, <2>3 DEF HeldMoves
<1> QED BY <1>1 DEF DeletesSeen

\* Holders that stay as they are.
LEMMA SameHolders ==
    ASSUME HoldersOK, UNCHANGED <<cache, compiles>>
    PROVE  HoldersOK' /\ HeldMoves
<1>1. HoldersOK'  BY DEF HoldersOK, NoEntry, NoCompile
<1>2. Held' = Held  BY DEF Held
<1> QED BY <1>1, <1>2 DEF HeldMoves

\* Where a holder's statements may come from, in a step.
Sourced(h) ==
    \/ h[1] = {} /\ h[2] \in Ages
    \/ h[1] = Stated /\ UNCHANGED jobVars /\ h[2] \in Ages
    \/ \E g \in Held : h[1] \subseteq g[1] /\ h[2] = g[2] /\ (g[3] => h[3])

\* One reader's compile becomes c; the cache stays, is emptied or replaced.
LEMMA ReaderMoves ==
    ASSUME HoldersOK, NEW r \in Reader, NEW c, compiles' = [compiles EXCEPT ![r] = c],
           DOMAIN c = DOMAIN NoCompile, c.pc = "idle" => c.facts = {},
           DOMAIN cache' = DOMAIN NoEntry, ~cache'.on => cache'.says = {},
           Sourced(<<c.facts, c.age, c.overtaken>>),
           Sourced(<<cache'.says, cache'.age, cache'.overtaken>>)
    PROVE  HoldersOK' /\ HeldMoves
<1>1. \A q \in Reader : compiles'[q] = IF q = r THEN c ELSE compiles[q]
  BY DEF HoldersOK
<1>2. HoldersOK'
  <2>1. DOMAIN compiles' = Reader  BY DEF HoldersOK
  <2>2. \A q \in Reader : /\ DOMAIN compiles'[q] = DOMAIN NoCompile
                          /\ compiles'[q].pc = "idle" => compiles'[q].facts = {}
    BY <1>1 DEF HoldersOK
  <2> QED BY <2>1, <2>2 DEF HoldersOK, NoEntry, NoCompile
<1>3. ASSUME NEW h \in Held', h \notin Held
      PROVE  h \in {<<c.facts, c.age, c.overtaken>>,
                    <<cache'.says, cache'.age, cache'.overtaken>>}
  BY <1>1, <1>3, HeldNext DEF Held
<1>4. \A h \in Held : h[1] \subseteq h[1] /\ h[2] = h[2]  OBVIOUS
<1>5. \A h \in Held' : Sourced(h)
  <2>1. \A h \in Held : Sourced(h)  BY <1>4 DEF Sourced
  <2> QED BY <1>3, <2>1
<1> QED BY <1>2, <1>5 DEF HeldMoves, Sourced
\* The steps of a reader: a compile starts, reads, is answered and is inserted.
LEMMA ReaderSteps ==
    ASSUME HoldersOK, AgesOK, NEW r \in Reader, ProfileStep(r), UNCHANGED jobVars
    PROVE  HoldersOK' /\ HeldMoves
<1>1. /\ DOMAIN compiles[r] = DOMAIN NoCompile /\ r \in DOMAIN compiles
      /\ DOMAIN cache = DOMAIN NoEntry
  BY DEF HoldersOK
<1>2. 0 \in Ages  BY ProfileAssumption DEF Ages
<1>3. PICK g : g = <<compiles[r].facts, compiles[r].age, compiles[r].overtaken>>  OBVIOUS
<1>4. g \in Held /\ g[2] \in Ages  BY <1>3 DEF Held, AgesOK
<1>5. <<cache.says, cache.age, cache.overtaken>> \in Held  BY DEF Held
<1>6. ASSUME cache' \in {cache, NoEntry},
             compiles' = [compiles EXCEPT ![r] = [NoCompile EXCEPT !.pc = "scroll"]]
      PROVE  HoldersOK' /\ HeldMoves
  <2>1. PICK c : c = [NoCompile EXCEPT !.pc = "scroll"]  OBVIOUS
  <2>2. DOMAIN c = DOMAIN NoCompile /\ c.pc = "scroll" /\ c.facts = {} /\ c.age = 0
    BY <2>1 DEF NoCompile
  <2>3. \/ cache' = cache
        \/ cache'.says = {} /\ cache'.age = 0 /\ DOMAIN cache' = DOMAIN NoEntry
    BY <1>6 DEF NoEntry
  <2>4. ~cache'.on => cache'.says = {}  BY <1>6 DEF HoldersOK, NoEntry
  <2>5. Sourced(<<c.facts, c.age, c.overtaken>>)  BY <1>2, <2>2 DEF Sourced
  <2>6. Sourced(<<cache'.says, cache'.age, cache'.overtaken>>)
    <3>1. CASE cache' = cache  BY <1>5, <3>1 DEF Sourced
    <3>2. CASE cache'.says = {} /\ cache'.age = 0  BY <1>2, <3>2 DEF Sourced
    <3> QED BY <2>3, <3>1, <3>2
  <2>7. compiles' = [compiles EXCEPT ![r] = c] /\ DOMAIN cache' = DOMAIN NoEntry
    BY <1>1, <1>6, <2>1, <2>3
  <2> HIDE DEF Sourced
  <2> QED BY <2>2, <2>4, <2>5, <2>6, <2>7, ReaderMoves
<1>7. ASSUME NEW c, compiles' = [compiles EXCEPT ![r] = c], UNCHANGED cache,
             DOMAIN c = DOMAIN NoCompile, c.pc # "idle",
             c.facts = Stated \/ c.facts \subseteq compiles[r].facts,
             c.age = compiles[r].age, c.overtaken = compiles[r].overtaken
      PROVE  HoldersOK' /\ HeldMoves
  <2>1. ~cache'.on => cache'.says = {}  BY <1>7 DEF HoldersOK
  <2>2. Sourced(<<c.facts, c.age, c.overtaken>>)
    <3>1. CASE c.facts = Stated  BY <1>3, <1>4, <1>7, <3>1 DEF Sourced
    <3>2. CASE c.facts \subseteq compiles[r].facts
      BY <1>3, <1>4, <1>7, <3>2 DEF Sourced
    <3> QED BY <1>7, <3>1, <3>2
  <2>3. Sourced(<<cache'.says, cache'.age, cache'.overtaken>>)
    BY <1>5, <1>7 DEF Sourced
  <2> QED BY <1>1, <1>7, <2>1, <2>2, <2>3, ReaderMoves
<1>8. ASSUME compile(r) PROVE HoldersOK' /\ HeldMoves
  <2>1. PICK says \in {Stated, {}} :
          compiles' = [compiles EXCEPT ![r].facts = says,
                          ![r].pc = IF says = {} THEN "insert" ELSE "ask"]
    BY <1>8 DEF compile
  <2>2. PICK pc : pc = IF says = {} THEN "insert" ELSE "ask"  OBVIOUS
  <2>3. PICK c : c = [compiles[r] EXCEPT !.facts = says, !.pc = pc]  OBVIOUS
  <2>4. compiles' = [compiles EXCEPT ![r] = c]
    BY <1>1, <2>1, <2>2, <2>3 DEF NoCompile
  <2>5. /\ DOMAIN c = DOMAIN NoCompile /\ c.pc # "idle" /\ c.facts = says
        /\ c.age = compiles[r].age /\ c.overtaken = compiles[r].overtaken
    BY <1>1, <2>2, <2>3 DEF NoCompile
  <2> QED BY <1>7, <1>8, <2>1, <2>4, <2>5 DEF compile
<1>9. ASSUME compiled(r) PROVE HoldersOK' /\ HeldMoves
  <2>1. PICK says \in {compiles[r].facts, {}} :
          compiles' = [compiles EXCEPT ![r].facts = says, ![r].pc = "insert"]
    BY <1>9 DEF compiled
  <2>2. PICK c : c = [compiles[r] EXCEPT !.facts = says, !.pc = "insert"]  OBVIOUS
  <2>3. compiles' = [compiles EXCEPT ![r] = c]  BY <1>1, <2>1, <2>2 DEF NoCompile
  <2>4. /\ DOMAIN c = DOMAIN NoCompile /\ c.pc # "idle" /\ c.facts = says
        /\ c.age = compiles[r].age /\ c.overtaken = compiles[r].overtaken
    BY <1>1, <2>2 DEF NoCompile
  <2> QED BY <1>7, <1>9, <2>1, <2>3, <2>4 DEF compiled
<1>10. ASSUME insert_profile(r) PROVE HoldersOK' /\ HeldMoves
  <2>1. /\ compiles' = [compiles EXCEPT ![r] = NoCompile]
        /\ cache' = [on |-> TRUE, says |-> compiles[r].facts, age |-> compiles[r].age,
                     overtaken |-> compiles[r].overtaken]
    BY <1>10 DEF insert_profile
  <2>2. /\ DOMAIN cache' = DOMAIN NoEntry /\ cache'.on
        /\ <<cache'.says, cache'.age, cache'.overtaken>> = g
    BY <1>3, <2>1 DEF NoEntry
  <2>3. NoCompile.facts = {} /\ NoCompile.age = 0  BY DEF NoCompile
  <2>4. g[1] \subseteq g[1]  OBVIOUS
  <2>5. PICK c : c = NoCompile  OBVIOUS
  <2>6. Sourced(<<c.facts, c.age, c.overtaken>>)  BY <1>2, <2>3, <2>5 DEF Sourced
  <2>7. Sourced(<<cache'.says, cache'.age, cache'.overtaken>>)
    BY <1>4, <2>2, <2>4 DEF Sourced
  <2>8. DOMAIN c = DOMAIN NoCompile /\ c.facts = {}  BY <2>3, <2>5
  <2>9. compiles' = [compiles EXCEPT ![r] = c]  BY <2>1, <2>5
  <2> QED BY <2>2, <2>6, <2>7, <2>8, <2>9, ReaderMoves
<1> QED BY <1>6, <1>8, <1>9, <1>10 DEF ProfileStep, profile_tagged, refresh_profile

\* A delete drops the entry and marks every compile that has read the document.
LEMMA DropsMove ==
    ASSUME HoldersOK, AgesOK, NEW d, invalidate_profile(d)
    PROVE  HoldersOK' /\ HeldMoves /\ \A h \in Held' : h[3] \/ \A s \in h[1] : s[1] # d
<1>1. 0 \in Ages  BY ProfileAssumption DEF Ages
<1>2. cache' = NoEntry  BY DEF invalidate_profile
<1>3. \A r \in Reader : compiles'[r] = [compiles[r] EXCEPT
                          !.overtaken = compiles[r].overtaken \/ \E s \in compiles[r].facts : s[1] = d]
  BY DEF invalidate_profile
<1>4. ASSUME NEW r \in Reader
      PROVE  /\ DOMAIN compiles'[r] = DOMAIN NoCompile /\ compiles'[r].pc = compiles[r].pc
             /\ compiles'[r].facts = compiles[r].facts /\ compiles'[r].age = compiles[r].age
             /\ compiles'[r].overtaken <=>
                    compiles[r].overtaken \/ \E s \in compiles[r].facts : s[1] = d
  <2>1. DOMAIN compiles[r] = DOMAIN NoCompile  BY DEF HoldersOK
  <2>2. PICK b : b = (compiles[r].overtaken \/ \E s \in compiles[r].facts : s[1] = d)
    OBVIOUS
  <2>3. compiles'[r] = [compiles[r] EXCEPT !.overtaken = b]  BY <1>3, <2>2
  <2> QED BY <2>1, <2>2, <2>3 DEF NoCompile
<1>5. HoldersOK'
  <2>1. DOMAIN compiles' = Reader  BY DEF invalidate_profile
  <2> QED BY <1>2, <1>4, <2>1 DEF HoldersOK, NoEntry, NoCompile
<1>6. NoEntry.says = {} /\ NoEntry.age = 0  BY DEF NoEntry
<1>7. ASSUME NEW h \in Held'
      PROVE  /\ \/ h[1] = {} /\ h[2] \in Ages
                \/ \E g \in Held : h[1] \subseteq g[1] /\ h[2] = g[2] /\ (g[3] => h[3])
             /\ h[3] \/ \A s \in h[1] : s[1] # d
  <2>1. CASE h = <<cache'.says, cache'.age, cache'.overtaken>>  BY <1>1, <1>2, <1>6, <2>1
  <2>2. ASSUME NEW r \in Reader,
               h = <<compiles'[r].facts, compiles'[r].age, compiles'[r].overtaken>>
        PROVE  /\ \E g \in Held : h[1] \subseteq g[1] /\ h[2] = g[2] /\ (g[3] => h[3])
               /\ h[3] \/ \A s \in h[1] : s[1] # d
    <3>1. PICK g : g = <<compiles[r].facts, compiles[r].age, compiles[r].overtaken>>
      OBVIOUS
    <3>2. g \in Held  BY <3>1 DEF Held
    <3>3. h[1] = g[1] /\ h[2] = g[2] /\ (g[3] => h[3])  BY <1>4, <2>2, <3>1
    <3>4. h[3] \/ \A s \in h[1] : s[1] # d  BY <1>4, <2>2
    <3> QED BY <3>2, <3>3, <3>4
  <2> QED BY <2>1, <2>2, HeldNext
<1> QED BY <1>5, <1>7 DEF HeldMoves

\* A restart empties memory.
LEMMA RestartMoves ==
    ASSUME Restarts
    PROVE  HoldersOK' /\ HeldMoves
<1>1. 0 \in Ages  BY ProfileAssumption DEF Ages
<1>2. cache' = NoEntry /\ compiles' = [r \in Reader |-> NoCompile]  BY DEF Restarts
<1>3. /\ NoEntry.says = {} /\ NoEntry.age = 0
      /\ NoCompile.facts = {} /\ NoCompile.age = 0
  BY DEF NoEntry, NoCompile
<1>4. \A h \in Held' : h[1] = {} /\ h[2] \in Ages  BY <1>1, <1>2, <1>3, HeldNext
<1> QED BY <1>2, <1>3, <1>4 DEF HoldersOK, HeldMoves

\* The clock: stamps and absences get older together.
LEMMA TickKeeps ==
    ASSUME HoldersOK, AgesOK, DeletesSeen, Tick, UNCHANGED jobVars
    PROVE  HoldersOK' /\ AgesOK' /\ DeletesSeen'
<1>1. \A n \in Ages : Older(n) \in Ages  BY ProfileAssumption DEF Ages, Older
<1>2. \A m, n \in Ages : m <= n => Older(m) <= Older(n)
  BY ProfileAssumption DEF Ages, Older
<1>3. Stated' = Stated /\ \A d : Gone(d)' <=> Gone(d)  BY DEF Stated, jobVars, Gone
<1>4. /\ DOMAIN cache' = DOMAIN NoEntry /\ (~cache'.on => cache'.says = {})
      /\ cache'.says = cache.says /\ cache'.overtaken = cache.overtaken
      /\ cache'.age = Older(cache.age) \/ (cache.says = {} /\ cache'.age = cache.age)
  <2>1. DOMAIN cache = DOMAIN NoEntry /\ (~cache.on => cache.says = {})  BY DEF HoldersOK
  <2>2. PICK n : n = Older(cache.age)  OBVIOUS
  <2>3. cache' = IF cache.on THEN [cache EXCEPT !.age = n] ELSE cache  BY <2>2 DEF Tick
  <2>4. CASE cache.on
    <3>1. cache' = [cache EXCEPT !.age = n]  BY <2>3, <2>4
    <3>2. DOMAIN cache = {"on", "says", "age", "overtaken"}  BY <2>1 DEF NoEntry
    <3>3. /\ DOMAIN cache' = DOMAIN cache /\ cache'.on = cache.on
          /\ cache'.says = cache.says /\ cache'.overtaken = cache.overtaken
          /\ cache'.age = n
      BY <3>1, <3>2
    <3> QED BY <2>1, <2>2, <2>4, <3>3
  <2>5. CASE ~cache.on  BY <2>1, <2>3, <2>5
  <2> QED BY <2>4, <2>5
<1>5. ASSUME NEW r \in Reader
      PROVE  /\ DOMAIN compiles'[r] = DOMAIN NoCompile /\ compiles'[r].pc = compiles[r].pc
             /\ compiles'[r].facts = compiles[r].facts
             /\ compiles'[r].overtaken = compiles[r].overtaken
             /\ \/ compiles'[r].age = Older(compiles[r].age)
                \/ compiles[r].facts = {} /\ compiles'[r].age = compiles[r].age
  <2>1. /\ DOMAIN compiles[r] = DOMAIN NoCompile
        /\ compiles[r].pc = "idle" => compiles[r].facts = {}
    BY DEF HoldersOK
  <2>2. PICK n : n = Older(compiles[r].age)  OBVIOUS
  <2>3. compiles'[r] = IF compiles[r].pc = "idle" THEN compiles[r]
                       ELSE [compiles[r] EXCEPT !.age = n]
    BY <2>2 DEF Tick
  <2> QED BY <2>1, <2>2, <2>3 DEF NoCompile
<1>6. HoldersOK'
  <2>1. DOMAIN compiles' = Reader  BY DEF Tick
  <2> QED BY <1>4, <1>5, <2>1 DEF HoldersOK, NoEntry, NoCompile
<1>7. ASSUME NEW h \in Held'
      PROVE  \E g \in Held : /\ h[1] = g[1] /\ h[3] = g[3]
                             /\ h[2] = Older(g[2]) \/ (g[1] = {} /\ h[2] = g[2])
  <2>1. CASE h = <<cache'.says, cache'.age, cache'.overtaken>>
    <3>1. PICK g : g = <<cache.says, cache.age, cache.overtaken>>  OBVIOUS
    <3>2. g \in Held  BY <3>1 DEF Held
    <3>3. h[1] = g[1] /\ h[3] = g[3]  BY <1>4, <2>1, <3>1
    <3>4. h[2] = cache'.age /\ g[2] = cache.age /\ g[1] = cache.says  BY <2>1, <3>1
    <3>5. h[2] = Older(g[2]) \/ (g[1] = {} /\ h[2] = g[2])  BY <1>4, <3>4
    <3> QED BY <3>2, <3>3, <3>5
  <2>2. ASSUME NEW r \in Reader,
               h = <<compiles'[r].facts, compiles'[r].age, compiles'[r].overtaken>>
        PROVE  \E g \in Held : /\ h[1] = g[1] /\ h[3] = g[3]
                               /\ h[2] = Older(g[2]) \/ (g[1] = {} /\ h[2] = g[2])
    <3>1. PICK g : g = <<compiles[r].facts, compiles[r].age, compiles[r].overtaken>>
      OBVIOUS
    <3>2. g \in Held  BY <3>1 DEF Held
    <3>3. h[1] = g[1] /\ h[3] = g[3]  BY <1>5, <2>2, <3>1
    <3>4. h[2] = compiles'[r].age /\ g[2] = compiles[r].age /\ g[1] = compiles[r].facts
      BY <2>2, <3>1
    <3>5. h[2] = Older(g[2]) \/ (g[1] = {} /\ h[2] = g[2])  BY <1>5, <3>4
    <3> QED BY <3>2, <3>3, <3>5
  <2> QED BY <2>1, <2>2, HeldNext
<1>8. Asserted' = Asserted
  <2>1. ASSUME NEW g \in Held PROVE \E h \in Held' : h[1] = g[1]
    <3>1. CASE g = <<cache.says, cache.age, cache.overtaken>>
      <4>1. PICK h : h = <<cache'.says, cache'.age, cache'.overtaken>>  OBVIOUS
      <4>2. h \in Held'  BY <4>1, HeldNext
      <4> QED BY <1>4, <3>1, <4>1, <4>2
    <3>2. ASSUME NEW r \in Reader,
                 g = <<compiles[r].facts, compiles[r].age, compiles[r].overtaken>>
          PROVE  \E h \in Held' : h[1] = g[1]
      <4>1. PICK h : h = <<compiles'[r].facts, compiles'[r].age, compiles'[r].overtaken>>
        OBVIOUS
      <4>2. h \in Held'  BY <4>1, HeldNext
      <4> QED BY <1>5, <3>2, <4>1, <4>2
    <3> QED BY <3>1, <3>2 DEF Held
  <2>2. \A s : s \in Asserted' <=> \E h \in Held' : s \in h[1]  BY DEF Asserted
  <2>3. \A s : s \in Asserted <=> \E h \in Held : s \in h[1]  BY DEF Asserted
  <2>4. \A s : s \in Asserted' <=> s \in Asserted  BY <1>7, <2>1, <2>2, <2>3
  <2> QED BY <2>4
<1>9. AgesOK'
  <2>1. gone' = [s \in DOMAIN gone |-> Older(gone[s])]  BY DEF Tick
  <2>2. DOMAIN gone' = Asserted' \ Stated' /\ \A s \in DOMAIN gone' : gone'[s] \in Ages
    BY <1>1, <1>3, <1>8, <2>1 DEF AgesOK
  <2>3. ASSUME NEW h \in Held'
        PROVE  h[2] \in Ages /\ \A s \in h[1] \ Stated' : gone'[s] <= h[2]
    <3>1. PICK g \in Held : /\ h[1] = g[1] /\ h[3] = g[3]
                            /\ h[2] = Older(g[2]) \/ (g[1] = {} /\ h[2] = g[2])
      BY <1>7
    <3>2. g[2] \in Ages /\ \A s \in g[1] \ Stated : gone[s] <= g[2]  BY DEF AgesOK
    <3>3. ASSUME NEW s \in h[1] \ Stated' PROVE gone'[s] <= h[2]
      <4>1. s \in g[1] \ Stated /\ s \in Asserted  BY <1>3, <3>1, <3>3 DEF Asserted
      <4>2. s \in DOMAIN gone /\ gone[s] \in Ages  BY <4>1 DEF AgesOK
      <4>3. gone'[s] = Older(gone[s]) /\ h[2] = Older(g[2])  BY <2>1, <3>1, <4>1, <4>2
      <4> QED BY <1>2, <3>2, <4>1, <4>2, <4>3
    <3> QED BY <1>1, <3>1, <3>2, <3>3
  <2> QED BY <2>2, <2>3 DEF AgesOK
<1>10. DeletesSeen'  BY <1>3, <1>7 DEF DeletesSeen
<1> QED BY <1>6, <1>9, <1>10
\* All of it together.
ProfileInv == JobInv /\ HoldersOK /\ AgesOK /\ DeletesSeen

LEMMA ProfileStarts ==
    ASSUME Init
    PROVE  ProfileInv
<1>1. JobInv  BY JobStarts
<1>2. /\ cache = NoEntry /\ gone = <<>> /\ compiles = [r \in Reader |-> NoCompile]
      /\ docs = [d \in Doc |-> NoDoc]
  BY DEF Init, JobInit, ProfileInit
<1>3. 0 \in Ages  BY ProfileAssumption DEF Ages
<1>4. HoldersOK  BY <1>2 DEF HoldersOK, NoEntry, NoCompile
<1>5. ASSUME NEW h \in Held PROVE h[1] = {} /\ h[2] = 0
  <2>1. \/ h = <<cache.says, cache.age, cache.overtaken>>
        \/ \E r \in Reader : h = <<compiles[r].facts, compiles[r].age, compiles[r].overtaken>>
    BY DEF Held
  <2>2. cache.says = {} /\ cache.age = 0  BY <1>2 DEF NoEntry
  <2>3. \A r \in Reader : compiles[r].facts = {} /\ compiles[r].age = 0
    BY <1>2 DEF NoCompile
  <2> QED BY <2>1, <2>2, <2>3
<1>6. AgesOK
  <2>1. Asserted = {}  BY <1>5 DEF Asserted
  <2>2. DOMAIN <<>> = {}  OBVIOUS
  <2>3. DOMAIN gone = {}  BY <1>2, <2>2
  <2> QED BY <1>3, <1>5, <2>1, <2>3 DEF AgesOK
<1>7. DeletesSeen  BY <1>5 DEF DeletesSeen
<1> QED BY <1>1, <1>4, <1>6, <1>7 DEF ProfileInv

\* A document is gone by the end of a delete only.
LEMMA OnlyDeletes ==
    ASSUME JobInv, FactSteps \/ Restarts, NEW d \in Doc, Gone(d)'
    PROVE  Gone(d)
<1>1. JobsOK /\ DOMAIN docs = Doc /\ \A e \in Doc : DOMAIN docs[e] = DocFields
  BY DEF JobInv, JobsOK, DocOK
<1>2. ASSUME NEW e \in Doc, NEW x, docs' = [docs EXCEPT ![e] = x],
             x.st = "deleted" => docs[e].st = "deleted",
             late \subseteq late' \/ (late' = late \ {e} /\ x.st # "deleted")
      PROVE  Gone(d)
  <2>1. docs'[d] = IF d = e THEN x ELSE docs[d]  BY <1>1, <1>2
  <2>2. docs[d].st = "deleted"  BY <1>2, <2>1 DEF Gone
  <2>3. d \notin late  BY <1>2, <2>1 DEF Gone
  <2> QED BY <2>2, <2>3 DEF Gone
<1>3. ASSUME NEW e \in Doc, add_document(e) PROVE Gone(d)
  <2>1. PICK t, ingest, chunks :
          docs' = [docs EXCEPT ![e] = [NoDoc EXCEPT !.st = "stored", !.from = {t},
                                                    !.chunks = chunks, !.ingest = ingest]]
    BY <1>3 DEF add_document
  <2>2. PICK x : x = [NoDoc EXCEPT !.st = "stored", !.from = {t}, !.chunks = chunks,
                                   !.ingest = ingest]
    OBVIOUS
  <2>3. x.st = "stored" /\ late' = late  BY <1>3, <2>2 DEF NoDoc, add_document
  <2> QED BY <1>2, <2>1, <2>2, <2>3
<1>4. ASSUME NEW e \in Doc, insert_document(e) PROVE Gone(d)
  <2>1. PICK row : docs' = [docs EXCEPT ![e].row = row, ![e].ingest = "facts"]
    BY <1>4 DEF insert_document
  <2>2. PICK x : x = [docs[e] EXCEPT !.row = row, !.ingest = "facts"]  OBVIOUS
  <2>3. docs' = [docs EXCEPT ![e] = x] /\ x.st = docs[e].st /\ late' = late
    BY <1>1, <1>4, <2>1, <2>2 DEF DocFields, insert_document
  <2> QED BY <1>2, <2>3
<1>5. ASSUME NEW e \in Doc, ingest_facts(e) PROVE Gone(d)
  <2>1. PICK x : x = [docs[e] EXCEPT !.ingest = "done"]  OBVIOUS
  <2>2. docs' = [docs EXCEPT ![e] = x] /\ x.st = docs[e].st /\ late' = late
    BY <1>1, <1>5, <2>1 DEF DocFields, ingest_facts
  <2> QED BY <1>2, <2>2
<1>6. ASSUME NEW e \in Doc, delete_document_tagged(e) PROVE Gone(d)
  <2>1. PICK x : x = [docs[e] EXCEPT !.st = "deleting", !.left = {"chunks", "facts"}, !.ok = TRUE]
    OBVIOUS
  <2>2. docs' = [docs EXCEPT ![e] = x] /\ x.st = "deleting" /\ late' = late \ {e}
    BY <1>1, <1>6, <2>1 DEF DocFields, delete_document_tagged
  <2> QED BY <1>2, <2>2
<1>7. ASSUME NEW e \in Doc, delete_fails(e) PROVE Gone(d)
  <2>1. PICK x : x = [docs[e] EXCEPT !.st = "half"]  OBVIOUS
  <2>2. docs' = [docs EXCEPT ![e] = x] /\ x.st = "half" /\ late' = late
    BY <1>1, <1>7, <2>1 DEF DocFields, delete_fails
  <2> QED BY <1>2, <2>2
<1>8. ASSUME NEW e \in Doc, NEW part, delete_by_filter(e, part) PROVE Gone(d)
  <2>1. PICK took, ok, left, chunks :
          docs' = [docs EXCEPT ![e].left = left, ![e].ok = ok, ![e].chunks = chunks]
    <3>1. PICK took \in BOOLEAN, ok \in BOOLEAN :
            docs' = [docs EXCEPT ![e].left = @ \ {part}, ![e].ok = @ /\ ok,
                       ![e].chunks = IF took /\ part = "chunks" THEN <<>> ELSE @]
      BY <1>8 DEF delete_by_filter
    <3>2. PICK still, chunks : /\ still = (docs[e].ok /\ ok)
                               /\ chunks = IF took /\ part = "chunks" THEN <<>> ELSE docs[e].chunks
      OBVIOUS
    <3> QED BY <1>1, <3>1, <3>2 DEF DocFields
  <2>2. PICK x : x = [docs[e] EXCEPT !.left = left, !.ok = ok, !.chunks = chunks]  OBVIOUS
  <2>3. docs' = [docs EXCEPT ![e] = x] /\ x.st = docs[e].st
    BY <1>1, <2>1, <2>2 DEF DocFields
  <2>4. late \subseteq late'  BY <1>8 DEF delete_by_filter
  <2> QED BY <1>2, <2>3, <2>4
<1>9. ASSUME NEW f, forget_memory(f) PROVE Gone(d)  BY <1>9 DEF forget_memory, Gone
<1>10. ASSUME NEW j \in Job, reindex(j) PROVE Gone(d)  BY <1>10 DEF reindex, Gone
<1>11. ASSUME NEW j \in Job, JobStep(j) \/ model_silent(j) PROVE Gone(d)
  <2>1. JobMoves(j)  BY <1>1, <1>11, StepMoves, SilentMoves
  <2> QED BY <2>1 DEF JobMoves, Gone
<1>12. CASE Restarts
  <2>1. PICK st : st = IF docs[d].st = "deleting" THEN "half" ELSE docs[d].st  OBVIOUS
  <2>2. PICK x : x = [docs[d] EXCEPT !.ingest = "done", !.left = {}, !.st = st]  OBVIOUS
  <2>3. docs'[d] = x /\ late' = late  BY <1>12, <2>1, <2>2 DEF Restarts, restart
  <2>4. x.st = st  BY <1>1, <2>2 DEF DocFields
  <2> QED BY <2>1, <2>3, <2>4 DEF Gone
<1> QED BY <1>3, <1>4, <1>5, <1>6, <1>7, <1>8, <1>9, <1>10, <1>11, <1>12 DEF FactSteps

LEMMA ProfileSteps ==
    ASSUME ProfileInv, [Next]_vars
    PROVE  ProfileInv'
<1>1. JobInv'  BY JobSteps DEF ProfileInv
<1>2. NoneWritten /\ JobInv /\ HoldersOK /\ AgesOK /\ DeletesSeen
  BY DEF ProfileInv, JobInv
<1>3. ASSUME KeepsAges, HoldersOK', HeldMoves,
             \A d \in Doc : Gone(d)' /\ ~Gone(d) =>
                 \A h \in Held' : h[3] \/ \A s \in h[1] : s[1] # d
      PROVE  ProfileInv'
  BY <1>1, <1>2, <1>3, AgesKept, SeenKept DEF ProfileInv
<1>4. CASE FactSteps /\ UNCHANGED <<cache, compiles>> /\ KeepsAges
  BY <1>2, <1>3, <1>4, SameHolders, OnlyDeletes
<1>5. ASSUME NEW d \in Doc, Deletes(d), KeepsAges PROVE ProfileInv'
  <2>1. \A e \in Doc : Gone(e)' /\ ~Gone(e) => e = d
    <3>1. DOMAIN docs = Doc  BY <1>2 DEF JobInv, JobsOK
    <3>2. \A e \in Doc : e # d => docs'[e] = docs[e]
      BY <1>5, <3>1 DEF Deletes, delete_succeeds
    <3>3. late' = late  BY <1>5 DEF Deletes, delete_succeeds
    <3> QED BY <3>2, <3>3 DEF Gone
  <2> QED BY <1>2, <1>3, <1>5, <2>1, DropsMove DEF Deletes
<1>6. CASE Restarts /\ KeepsAges
  BY <1>2, <1>3, <1>6, RestartMoves, OnlyDeletes
<1>7. ASSUME NEW r \in Reader, ProfileStep(r), UNCHANGED jobVars, KeepsAges
      PROVE  ProfileInv'
  <2>1. \A d \in Doc : Gone(d)' <=> Gone(d)  BY <1>7 DEF jobVars, Gone
  <2> QED BY <1>2, <1>3, <1>7, <2>1, ReaderSteps
<1>8. CASE Tick /\ UNCHANGED jobVars
  BY <1>1, <1>2, <1>8, TickKeeps DEF ProfileInv
<1>9. CASE UNCHANGED vars
  <2>1. UNCHANGED <<jobVars, cache, compiles, gone, docs, facts, late>>
    BY <1>9 DEF vars, profileVars, jobVars
  <2>2. HoldersOK'  BY <1>2, <2>1, SameHolders
  <2>3. Held' = Held /\ Stated' = Stated  BY <2>1 DEF Held, Stated
  <2>4. AgesOK' /\ DeletesSeen'
    <3>1. Asserted' = Asserted  BY <2>3 DEF Asserted
    <3> QED BY <1>2, <2>1, <2>3, <3>1 DEF AgesOK, DeletesSeen, Gone
  <2> QED BY <1>1, <2>2, <2>4 DEF ProfileInv
<1> QED BY <1>4, <1>5, <1>6, <1>7, <1>8, <1>9 DEF Next

LEMMA ProfileHolds == Spec => []ProfileInv
<1>1. Init => ProfileInv  BY ProfileStarts
<1>2. ProfileInv /\ [Next]_vars => ProfileInv'  BY ProfileSteps
<1> QED BY <1>1, <1>2, PTL DEF Spec

\* A served profile asserts nothing that left the index before its stamp was
\* taken, whoever compiled it and whatever was forgotten or rewritten meanwhile.
THEOREM Fresh == Spec => []ServedIsAsFreshAsStamped
<1>1. ProfileInv => ServedIsAsFreshAsStamped
  <2> SUFFICES ASSUME ProfileInv, NEW s \in cache.says \ Stated PROVE gone[s] <= cache.age
    BY DEF ServedIsAsFreshAsStamped
  <2>1. PICK h : h = <<cache.says, cache.age, cache.overtaken>>  OBVIOUS
  <2>2. h \in Held /\ s \in h[1] \ Stated  BY <2>1 DEF Held
  <2> QED BY <2>1, <2>2 DEF ProfileInv, AgesOK
<1> QED BY <1>1, ProfileHolds, PTL

\* A document whose delete was acknowledged keeps no fact, if no job and no ingest
\* had its text when its facts went, and, unless a compile had read it by then, no
\* statement in the profile, for any jobs, readers, failures and restarts.
THEOREM NotAsserted == Spec => []DeletedIsNotAsserted
<1>1. ProfileInv => DeletedIsNotAsserted
  <2> SUFFICES ASSUME ProfileInv, NEW d \in Doc \ late, docs[d].st = "deleted"
               PROVE  /\ FactsOf(d) = {}
                      /\ cache.overtaken \/ \A s \in cache.says : s[1] # d
    BY DEF DeletedIsNotAsserted
  <2>1. FactsOf(d) = {}  BY DEF ProfileInv, JobInv, NoneWritten, Emptying
  <2>2. PICK h : h = <<cache.says, cache.age, cache.overtaken>>  OBVIOUS
  <2>3. h \in Held  BY <2>2 DEF Held
  <2>4. h[3] \/ \A s \in h[1] : s[1] # d  BY <2>3 DEF ProfileInv, DeletesSeen, Gone
  <2> QED BY <2>1, <2>2, <2>4
<1> QED BY <1>1, ProfileHolds, PTL
=============================================================================

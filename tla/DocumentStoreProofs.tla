------------------------- MODULE DocumentStoreProofs -------------------------
(***************************************************************************)
(* Proofs about DocumentStore, for any number of documents, namespaces,    *)
(* chunks, concurrent calls and maintenance requests, with and without the *)
(* graph.                                                                  *)
(***************************************************************************)
EXTENDS DocumentStore, TLAPS

-----------------------------------------------------------------------------
(* Type correctness.                                                       *)

Phases == {"idle", "lookup", "chunks", "doc_row", "chunk_rows", "facts", "fact_rows", "edges"}
Ops == {"idle", "delete", "backfill", "rebuild", "rebuild_facts"}

Call == [at : Phases, tag : Tags \union {None}, content : Contents \union {None},
         doc : Docs \union {None}]
Job == [op : Ops, tag : Tags \union {None}, doc : Docs \union {None},
        left : SUBSET (Docs \union Collections), snap : SUBSET AllParts(Docs)]

StoresOK ==
    /\ DOMAIN about \subseteq Docs
    /\ about \in [DOMAIN about -> [tag : Tags, content : Contents]]
    /\ chunks \subseteq AllParts(DOMAIN about)
    /\ facts \subseteq DOMAIN about /\ edges \subseteq DOMAIN about
    /\ DOMAIN docRows \subseteq DOMAIN about
    /\ chunkRows \subseteq AllParts(DOMAIN docRows)
    /\ factRows \subseteq DOMAIN docRows

\* A call past the lookup stores a document of its namespace and text.
CallOK(r) ==
    /\ r \in Call
    /\ r.at # "idle" => r.tag \in Tags /\ r.content \in Contents
    /\ r.at \notin {"idle", "lookup"} =>
          /\ r.doc \in DOMAIN about
          /\ about[r.doc].tag = r.tag /\ about[r.doc].content = r.content
    /\ r.at = "chunk_rows" => r.doc \in DOMAIN docRows

CallsOK == DOMAIN call = Calls /\ \A c \in Calls : CallOK(call[c])

\* A maintenance request handles documents of its namespace.
JobOK(r) ==
    /\ r \in Job
    /\ r.op # "idle" => r.tag \in Tags
    /\ r.op = "delete" => r.doc \in In(r.tag) /\ r.left \subseteq Collections
    /\ r.op = "backfill" => r.snap \subseteq AllParts(In(r.tag)) /\ r.left \subseteq In(r.tag)
    /\ r.op = "rebuild" => r.snap \subseteq AllParts(DOMAIN docRows \intersect In(r.tag))
    /\ r.op = "rebuild_facts" => r.left \subseteq In(r.tag)

JobsOK == DOMAIN job = Jobs /\ \A j \in Jobs : JobOK(job[j])

HistoryOK == /\ gone \subseteq DOMAIN about
             /\ lost \subseteq Tags /\ raced \subseteq Tags
             /\ failed \in BOOLEAN

DocInv == StoresOK /\ CallsOK /\ JobsOK /\ HistoryOK

LEMMA DocInvInit == Init => DocInv
<1>. SUFFICES ASSUME Init PROVE DocInv
  OBVIOUS
<1>1. StoresOK /\ HistoryOK
  BY DEF Init, StoresOK, HistoryOK, AllParts
<1>2. CallsOK
  BY DEF Init, CallsOK, CallOK, NoCall, Call, Phases
<1>3. JobsOK
  BY DEF Init, JobsOK, JobOK, NoJob, Job, Ops
<1>. QED BY <1>1, <1>2, <1>3 DEF DocInv

\* Ids keep their meaning, and documents their rows.
Grown ==
    /\ DOMAIN about \subseteq DOMAIN about'
    /\ \A d \in DOMAIN about : about'[d] = about[d]
    /\ DOMAIN docRows \subseteq DOMAIN docRows'

LEMMA InGrows ==
    ASSUME Grown, NEW t
    PROVE  In(t) \subseteq In(t)'
  BY DEF Grown, In

LEMMA CallStaysOK ==
    ASSUME Grown, NEW r, CallOK(r)
    PROVE  CallOK(r)'
  BY DEF Grown, CallOK, Call, Phases

LEMMA JobStaysOK ==
    ASSUME Grown, NEW r, JobOK(r)
    PROVE  JobOK(r)'
<1>1. In(r.tag) \subseteq In(r.tag)'
  BY InGrows
<1>2. AllParts(In(r.tag)) \subseteq AllParts(In(r.tag)')
  BY <1>1 DEF AllParts
<1>3. AllParts(DOMAIN docRows \intersect In(r.tag)) \subseteq AllParts(DOMAIN docRows' \intersect In(r.tag)')
  BY <1>1 DEF AllParts, Grown
<1>. QED BY <1>1, <1>2, <1>3 DEF JobOK

LEMMA CallsStayOK ==
    ASSUME Grown, CallsOK, UNCHANGED call
    PROVE  CallsOK'
  BY CallStaysOK DEF CallsOK

LEMMA JobsStayOK ==
    ASSUME Grown, JobsOK, UNCHANGED job
    PROVE  JobsOK'
  BY JobStaysOK DEF JobsOK

LEMMA CallMovesOK ==
    ASSUME Grown, CallsOK, NEW c \in Calls, NEW r, CallOK(r), Sets(c, r)
    PROVE  CallsOK'
  BY CallStaysOK DEF CallsOK, Sets

LEMMA JobMovesOK ==
    ASSUME Grown, JobsOK, NEW j \in Jobs, NEW r, JobOK(r), Becomes(j, r)
    PROVE  JobsOK'
  BY JobStaysOK DEF JobsOK, Becomes

\* A call returns, or goes on to another phase with its document.
LEMMA CallReturnsOK ==
    ASSUME Grown, CallsOK, NEW c \in Calls, NEW d \in Docs \union {None}, Returns(c, d)
    PROVE  CallsOK'
<1>1. CallOK([NoCall EXCEPT !.doc = d])
  BY DEF CallOK, NoCall, Call, Phases
<1>. QED BY <1>1, CallMovesOK DEF Returns

LEMMA CallGoesOK ==
    ASSUME Grown, CallsOK, NEW c \in Calls, call[c].at \notin {"idle", "lookup"},
           NEW phase \in Phases \ {"chunk_rows"}, Sets(c, [call[c] EXCEPT !.at = phase])
    PROVE  CallsOK'
<1>1. CallOK([call[c] EXCEPT !.at = phase])
  BY DEF CallsOK, CallOK, Call
<1>. QED BY <1>1, CallMovesOK

LEMMA CallGoesOnOK ==
    ASSUME Grown, StoresOK, CallsOK, NEW c \in Calls, call[c].at \notin {"idle", "lookup"}, Goes(c)
    PROVE  CallsOK'
<1>1. call[c].doc \in Docs /\ "edges" \in Phases
  BY DEF CallsOK, CallOK, StoresOK, Phases
<1>. QED BY <1>1, CallReturnsOK, CallGoesOK DEF Goes

\* A request ends.
LEMMA JobEndsOK ==
    ASSUME Grown, JobsOK, NEW j \in Jobs, Becomes(j, NoJob)
    PROVE  JobsOK'
<1>1. JobOK(NoJob)
  BY DEF JobOK, NoJob, Job, Ops
<1>. QED BY <1>1, JobMovesOK

-----------------------------------------------------------------------------
\* The steps of add_document that leave the meaning of ids and the rows of
\* documents alone.
LEMMA StillGrown ==
    ASSUME UNCHANGED <<about, docRows>>
    PROVE  Grown
  BY DEF Grown

LEMMA AddIsTyped ==
    ASSUME DocInv, NEW c \in Calls, Add(c)
    PROVE  DocInv'
<1>. USE DEF DocInv, index, registry, history
<1>0. c \in Calls /\ call[c] \in Call /\ CallOK(call[c])
  BY DEF CallsOK, CallOK
<1>1. ASSUME NEW t \in Tags, NEW x \in Contents, AddDocument(c, t, x) PROVE DocInv'
  <2>1. CallOK([NoCall EXCEPT !.at = "lookup", !.tag = t, !.content = x])
    BY DEF CallOK, NoCall, Call, Phases
  <2>2. Grown
    BY <1>1, StillGrown DEF AddDocument
  <2>3. CallsOK' /\ JobsOK'
    BY <1>1, <2>1, <2>2, CallMovesOK, JobsStayOK DEF AddDocument
  <2>. QED BY <1>1, <2>3 DEF AddDocument, StoresOK, HistoryOK
<1>2. CASE Deduplicate(c)
  <2>1. PICK d \in Found(call[c].tag, call[c].content) : Returns(c, d)
    BY <1>2 DEF Deduplicate
  <2>2. d \in Docs /\ Grown
    BY <1>2, <2>1, StillGrown DEF Deduplicate, Found, In, StoresOK
  <2>3. CallsOK' /\ JobsOK'
    BY <1>2, <2>1, <2>2, CallReturnsOK, JobsStayOK DEF Deduplicate
  <2>. QED BY <1>2, <2>3 DEF Deduplicate, StoresOK, HistoryOK
<1>3. ASSUME NEW d \in Docs, ChunkAndEmbed(c, d) PROVE DocInv'
  <2>1. call[c].at = "lookup" /\ call[c].tag \in Tags /\ call[c].content \in Contents
    BY <1>0, <1>3 DEF CallOK, ChunkAndEmbed
  <2>2. /\ DOMAIN about' = DOMAIN about \union {d} /\ d \notin DOMAIN about
        /\ about'[d] = [tag |-> call[c].tag, content |-> call[c].content]
        /\ \A k \in DOMAIN about : about'[k] = about[k]
    BY <1>3 DEF ChunkAndEmbed
  <2>3. Grown /\ StoresOK' /\ HistoryOK'
    <3>1. Grown
      BY <1>3, <2>2 DEF Grown, ChunkAndEmbed
    <3>2. about' \in [DOMAIN about' -> [tag : Tags, content : Contents]]
      BY <1>3, <2>1, <2>2 DEF ChunkAndEmbed, StoresOK
    <3>3. StoresOK'
      BY <1>3, <2>2, <3>2 DEF ChunkAndEmbed, StoresOK, AllParts
    <3>. QED BY <1>3, <2>2, <3>1, <3>3 DEF ChunkAndEmbed, HistoryOK
  <2>4. CallOK(call[c])' 
    BY <1>0, <1>3, <2>1, <2>2 DEF ChunkAndEmbed, Sets, CallOK, CallsOK, Call, Phases
  <2>5. \A k \in Calls \ {c} : call'[k] = call[k]
    BY <1>3 DEF ChunkAndEmbed, Sets, CallsOK
  <2>6. CallsOK'
    BY <1>3, <2>3, <2>4, <2>5, CallStaysOK DEF ChunkAndEmbed, Sets, CallsOK
  <2>. QED BY <1>3, <2>3, <2>6, JobsStayOK DEF ChunkAndEmbed
<1>4. CASE UpsertChunks(c)
  <2>1. call[c].at = "chunks" /\ Grown
    BY <1>4, StillGrown DEF UpsertChunks
  <2>2. CallsOK' /\ JobsOK'
    BY <1>4, <2>1, CallGoesOK, JobsStayOK DEF UpsertChunks, Phases
  <2>. QED BY <1>0, <1>4, <2>1, <2>2 DEF UpsertChunks, CallOK, StoresOK, HistoryOK, AllParts
<1>5. CASE UpsertChunksFails(c)
  <2>1. call[c].at = "chunks" /\ Grown
    BY <1>5, StillGrown DEF UpsertChunksFails
  <2>2. CallsOK' /\ JobsOK'
    BY <1>5, <2>1, CallReturnsOK, JobsStayOK DEF UpsertChunksFails
  <2>. QED BY <1>0, <1>5, <2>1, <2>2 DEF UpsertChunksFails, CallOK, StoresOK, HistoryOK, AllParts
<1>6. CASE InsertDocument(c)
  <2>1. call[c].at = "doc_row" /\ call[c].doc \in DOMAIN about
    BY <1>0, <1>6 DEF InsertDocument, CallOK
  <2>2. /\ UNCHANGED <<about, index, chunkRows, factRows, job, history>>
        /\ DOMAIN docRows \subseteq DOMAIN docRows'
        /\ DOMAIN docRows' \subseteq DOMAIN docRows \union {call[c].doc}
    BY <1>6 DEF InsertDocument, DocInserted
  <2>3. Grown
    BY <2>2 DEF Grown
  <2>4. ASSUME Sets(c, [call[c] EXCEPT !.at = "facts"]) PROVE CallsOK'
    BY <2>1, <2>3, <2>4, CallGoesOK DEF Phases
  <2>5. ASSUME Sets(c, [call[c] EXCEPT !.at = "chunk_rows"]), call[c].doc \in DOMAIN docRows'
        PROVE  CallsOK'
    <3>1. CallOK(call[c])'
      BY <1>0, <2>1, <2>2, <2>5 DEF Sets, CallsOK, CallOK, Call, Phases
    <3>2. \A k \in Calls \ {c} : call'[k] = call[k]
      BY <2>5 DEF Sets, CallsOK
    <3>. QED BY <2>3, <2>5, <3>1, <3>2, CallStaysOK DEF Sets, CallsOK
  <2>6. CallsOK' /\ JobsOK'
    BY <1>6, <2>2, <2>3, <2>4, <2>5, JobsStayOK DEF InsertDocument, DocInserted
  <2>. QED BY <2>1, <2>2, <2>6 DEF StoresOK, HistoryOK, AllParts
<1>7. CASE UpsertChunkRows(c)
  <2>1. call[c].at = "chunk_rows" /\ Grown
    BY <1>7, StillGrown DEF UpsertChunkRows
  <2>2. CallsOK' /\ JobsOK'
    BY <1>7, <2>1, CallGoesOK, JobsStayOK DEF UpsertChunkRows, Phases
  <2>. QED BY <1>0, <1>7, <2>1, <2>2 DEF UpsertChunkRows, CallOK, StoresOK, HistoryOK, AllParts
<1>8. CASE MirrorFails(c)
  <2>1. call[c].at \in {"doc_row", "chunk_rows"} /\ Grown
    BY <1>8, StillGrown DEF MirrorFails
  <2>2. CallsOK' /\ JobsOK'
    BY <1>8, <2>1, CallGoesOK, JobsStayOK DEF MirrorFails, Phases
  <2>. QED BY <1>0, <1>8, <2>1, <2>2 DEF MirrorFails, CallOK, StoresOK, HistoryOK, AllParts
<1>9. CASE NoFacts(c)
  <2>1. CallsOK' /\ JobsOK'
    BY <1>9, StillGrown, CallGoesOnOK, JobsStayOK DEF NoFacts
  <2>. QED BY <1>9, <2>1 DEF NoFacts, StoresOK, HistoryOK
<1>10. CASE IndexFacts(c)
  <2>1. CallsOK' /\ JobsOK'
    BY <1>10, StillGrown, CallGoesOK, JobsStayOK DEF IndexFacts, Phases
  <2>. QED BY <1>0, <1>10, <2>1 DEF IndexFacts, CallOK, StoresOK, HistoryOK
<1>11. CASE InsertFactRows(c)
  <2>1. CallsOK' /\ JobsOK'
    BY <1>11, StillGrown, CallGoesOnOK, JobsStayOK DEF InsertFactRows
  <2>. QED BY <1>11, <2>1 DEF InsertFactRows, StoresOK, HistoryOK
<1>12. CASE IndexFactsFails(c)
  <2>1. CallsOK' /\ JobsOK'
    BY <1>12, StillGrown, CallGoesOnOK, JobsStayOK DEF IndexFactsFails
  <2>. QED BY <1>0, <1>12, <2>1 DEF IndexFactsFails, CallOK, StoresOK, HistoryOK
<1>13. CASE IndexEdges(c)
  <2>1. call[c].at = "edges" /\ call[c].doc \in DOMAIN about
    BY <1>0, <1>13 DEF IndexEdges, CallOK
  <2>2. CallsOK' /\ JobsOK'
    BY <1>13, <2>1, StillGrown, CallReturnsOK, JobsStayOK DEF IndexEdges, StoresOK
  <2>. QED BY <1>13, <2>1, <2>2 DEF IndexEdges, StoresOK, HistoryOK
<1>14. CASE Abort(c)
  <2>1. CallsOK' /\ JobsOK'
    BY <1>14, StillGrown, CallReturnsOK, JobsStayOK DEF Abort
  <2>. QED BY <1>14, <2>1 DEF Abort, StoresOK, HistoryOK
<1>. QED BY <1>1, <1>2, <1>3, <1>4, <1>5, <1>6, <1>7, <1>8, <1>9, <1>10, <1>11, <1>12, <1>13, <1>14 DEF Add

\* The steps of a delete.
LEMMA DeleteIsTyped ==
    ASSUME DocInv, NEW j \in Jobs, Delete(j)
    PROVE  DocInv'
<1>. USE DEF DocInv, index, registry, history
<1>0. job[j] \in Job /\ JobOK(job[j])
  BY DEF JobsOK, JobOK
<1>1. ASSUME NEW d \in Docs, NEW t \in Tags, DeleteDocument(j, d, t) PROVE DocInv'
  <2>1. JobOK([NoJob EXCEPT !.op = "delete", !.tag = t, !.doc = d, !.left = Collections])
    BY <1>1 DEF DeleteDocument, JobOK, NoJob, Job, Ops
  <2>2. CallsOK' /\ JobsOK'
    BY <1>1, <2>1, StillGrown, JobMovesOK, CallsStayOK DEF DeleteDocument, Starts
  <2>. QED BY <1>1, <2>2 DEF DeleteDocument, Starts, StoresOK, HistoryOK
<1>2. ASSUME NEW what \in Collections, DeletePoints(j, what) PROVE DocInv'
  <2>1. JobOK([job[j] EXCEPT !.left = @ \ {what}])
    BY <1>0, <1>2 DEF DeletePoints, JobOK, Job
  <2>2. CallsOK' /\ JobsOK'
    BY <1>2, <2>1, StillGrown, JobMovesOK, CallsStayOK DEF DeletePoints
  <2>. QED BY <1>2, <2>2 DEF DeletePoints, Cleared, StoresOK, HistoryOK
<1>3. CASE DeletePointsFails(j)
  <2>1. CallsOK' /\ JobsOK'
    BY <1>3, StillGrown, JobEndsOK, CallsStayOK DEF DeletePointsFails
  <2>. QED BY <1>3, <2>1 DEF DeletePointsFails, Cleared, StoresOK, HistoryOK
<1>4. CASE DeleteEdges(j)
  <2>1. CallsOK' /\ JobsOK'
    BY <1>4, StillGrown, JobEndsOK, CallsStayOK DEF DeleteEdges
  <2>. QED BY <1>0, <1>4, <2>1 DEF DeleteEdges, StoresOK, HistoryOK, JobOK, In
<1>5. CASE DeleteEdgesFails(j)
  <2>1. CallsOK' /\ JobsOK'
    BY <1>5, StillGrown, JobEndsOK, CallsStayOK DEF DeleteEdgesFails
  <2>. QED BY <1>5, <2>1 DEF DeleteEdgesFails, StoresOK, HistoryOK
<1>. QED BY <1>1, <1>2, <1>3, <1>4, <1>5 DEF Delete

\* The steps of a backfill or a rebuild.
LEMMA ReindexIsTyped ==
    ASSUME DocInv, NEW j \in Jobs, Reindex(j)
    PROVE  DocInv'
<1>. USE DEF DocInv, index, registry, history
<1>0. job[j] \in Job /\ JobOK(job[j])
  BY DEF JobsOK, JobOK
<1>1. ASSUME NEW t \in Tags, BackfillToPg(j, t) PROVE DocInv'
  <2>1. PICK S \in SUBSET {p \in chunks : p[1] \in In(t)}, F \in SUBSET (facts \intersect In(t)) :
           /\ Starts(j, [NoJob EXCEPT !.op = "backfill", !.tag = t, !.left = F, !.snap = S])
           /\ failed' = (failed \/ S # {p \in chunks : p[1] \in In(t)} \/ F # facts \intersect In(t))
           /\ UNCHANGED <<about, index, registry, call, gone, lost>>
    BY <1>1 DEF BackfillToPg, scroll_all
  <2>2. S \subseteq AllParts(In(t)) /\ S \subseteq AllParts(Docs) /\ F \subseteq Docs
    BY DEF StoresOK, AllParts, In
  <2>3. JobOK([NoJob EXCEPT !.op = "backfill", !.tag = t, !.left = F, !.snap = S])
    BY <2>2 DEF JobOK, NoJob, Job, Ops
  <2>4. CallsOK' /\ JobsOK'
    BY <2>1, <2>3, StillGrown, JobMovesOK, CallsStayOK DEF Starts
  <2>. QED BY <2>1, <2>4 DEF Starts, StoresOK, HistoryOK
<1>2. ASSUME NEW t \in Tags, RebuildIndexFromPg(j, t) PROVE DocInv'
  <2>1. /\ ChunkRowsOf(t) \subseteq AllParts(DOMAIN docRows \intersect In(t))
        /\ ChunkRowsOf(t) \subseteq AllParts(Docs)
    BY DEF StoresOK, AllParts, In, ChunkRowsOf
  <2>2. JobOK([NoJob EXCEPT !.op = "rebuild", !.tag = t, !.snap = ChunkRowsOf(t)])
    BY <2>1 DEF JobOK, NoJob, Job, Ops
  <2>3. CallsOK' /\ JobsOK'
    BY <1>2, <2>2, StillGrown, JobMovesOK, CallsStayOK DEF RebuildIndexFromPg, Starts
  <2>. QED BY <1>2, <2>3 DEF RebuildIndexFromPg, Starts, StoresOK, HistoryOK
<1>3. CASE BackfillInserts(j)
  <2>1. /\ DocsOf(job[j].snap) \subseteq DOMAIN about
        /\ job[j].snap \subseteq AllParts(DocsOf(job[j].snap))
    BY <1>0, <1>3 DEF BackfillInserts, JobOK, DocsOf, AllParts, In
  <2>2. /\ UNCHANGED <<about, index, call, history>>
        /\ DOMAIN docRows' = DOMAIN docRows \union DocsOf(job[j].snap)
        /\ chunkRows' = chunkRows \union job[j].snap
        /\ factRows' \subseteq factRows \union DOMAIN docRows'
        /\ Becomes(j, NoJob)
    BY <1>3 DEF BackfillInserts
  <2>3. Grown
    BY <2>2 DEF Grown
  <2>4. CallsOK' /\ JobsOK'
    BY <2>2, <2>3, JobEndsOK, CallsStayOK
  <2>. QED BY <2>1, <2>2, <2>4 DEF StoresOK, HistoryOK, AllParts
<1>4. CASE BackfillFails(j)
  <2>1. /\ DocsOf(job[j].snap) \subseteq DOMAIN about
        /\ job[j].snap \subseteq AllParts(DocsOf(job[j].snap))
    BY <1>0, <1>4 DEF BackfillFails, JobOK, DocsOf, AllParts, In
  <2>2. PICK N \in SUBSET DocsOf(job[j].snap), C \in SUBSET job[j].snap, F \in SUBSET job[j].left :
           /\ C # {} => N = DocsOf(job[j].snap)
           /\ DOMAIN docRows' = DOMAIN docRows \union N
           /\ chunkRows' = chunkRows \union C
           /\ F \subseteq DOMAIN docRows'
           /\ factRows' = factRows \union F
    BY <1>4 DEF BackfillFails
  <2>3. UNCHANGED <<about, index, call, gone, lost, raced>> /\ failed' = TRUE /\ Becomes(j, NoJob)
    BY <1>4 DEF BackfillFails
  <2>4. Grown
    BY <2>2, <2>3 DEF Grown
  <2>5. CallsOK' /\ JobsOK'
    BY <2>3, <2>4, JobEndsOK, CallsStayOK
  <2>. QED BY <2>1, <2>2, <2>3, <2>5 DEF StoresOK, HistoryOK, AllParts
<1>5. CASE RebuildChunks(j)
  <2>1. JobOK([job[j] EXCEPT !.op = "rebuild_facts", !.left = factRows \intersect In(job[j].tag)])
    BY <1>0, <1>5 DEF RebuildChunks, JobOK, Job, Ops, StoresOK, In
  <2>2. CallsOK' /\ JobsOK'
    BY <1>5, <2>1, StillGrown, JobMovesOK, CallsStayOK DEF RebuildChunks
  <2>. QED BY <1>0, <1>5, <2>2 DEF RebuildChunks, JobOK, StoresOK, HistoryOK, AllParts
<1>6. CASE RebuildFacts(j)
  <2>1. CallsOK' /\ JobsOK'
    BY <1>6, StillGrown, JobEndsOK, CallsStayOK DEF RebuildFacts
  <2>. QED BY <1>0, <1>6, <2>1 DEF RebuildFacts, JobOK, StoresOK, HistoryOK, In
<1>7. CASE RebuildFails(j)
  <2>1. CallsOK' /\ JobsOK'
    BY <1>7, StillGrown, JobEndsOK, CallsStayOK DEF RebuildFails
  <2>. QED BY <1>0, <1>7, <2>1 DEF RebuildFails, JobOK, StoresOK, HistoryOK, AllParts, In
<1>. QED BY <1>1, <1>2, <1>3, <1>4, <1>5, <1>6, <1>7 DEF Reindex

LEMMA DocInvStep == DocInv /\ [Next]_vars => DocInv'
<1>. SUFFICES ASSUME DocInv, [Next]_vars PROVE DocInv'
  OBVIOUS
<1>1. CASE LoseIndex
  <2>1. CallsOK' /\ JobsOK'
    BY <1>1, StillGrown, CallsStayOK, JobsStayOK DEF LoseIndex, registry, DocInv
  <2>2. Busy \subseteq Tags /\ Active \subseteq Tags
    BY DEF Busy, Active, DocInv, CallsOK, JobsOK, CallOK, JobOK
  <2>. QED BY <1>1, <2>1, <2>2 DEF LoseIndex, registry, DocInv, StoresOK, HistoryOK
<1>2. CASE UNCHANGED vars
  <2>1. Grown
    BY <1>2, StillGrown DEF vars, registry
  <2>. QED BY <1>2, <2>1, CallsStayOK, JobsStayOK
           DEF vars, index, registry, history, DocInv, StoresOK, HistoryOK
<1>. QED BY <1>1, <1>2, AddIsTyped, DeleteIsTyped, ReindexIsTyped DEF Next

LEMMA DocInvHolds == Spec => []DocInv
<1>1. Init => DocInv
  BY DocInvInit
<1>2. DocInv /\ [Next]_vars => DocInv'
  BY DocInvStep
<1>. QED BY <1>1, <1>2, PTL DEF Spec

\* DocTypeOK holds in every behaviour: the registry respects the foreign keys of
\* the schema, and nothing is stored under an id that was never minted.
THEOREM DocumentsTyped == Spec => []DocTypeOK
<1>1. DocInv => DocTypeOK
  BY DEF DocInv, StoresOK, CallsOK, CallOK, HistoryOK, DocTypeOK
<1>. QED BY <1>1, DocInvHolds, PTL

-----------------------------------------------------------------------------
(* One call at a time takes a step.                                        *)

LEMMA CallsAreOthers ==
    ASSUME CallsOK, NEW c \in Calls, Add(c)
    PROVE  \A k \in Calls \ {c} : call'[k] = call[k]
  BY ZenonT(40)
     DEF CallsOK, Add, AddDocument, Deduplicate, ChunkAndEmbed, UpsertChunks, UpsertChunksFails,
         InsertDocument, UpsertChunkRows, MirrorFails, NoFacts, IndexFacts, InsertFactRows,
         IndexFactsFails, IndexEdges, Abort, Goes, Returns, Sets

LEMMA CallsAreAlone ==
    ASSUME NEW j \in Jobs, Delete(j) \/ Reindex(j) \/ LoseIndex \/ UNCHANGED vars
    PROVE  UNCHANGED call
<1>1. CASE Delete(j)
  BY <1>1 DEF Delete, DeleteDocument, DeletePoints, DeletePointsFails, DeleteEdges, DeleteEdgesFails
<1>2. CASE Reindex(j)
  BY <1>2 DEF Reindex, BackfillToPg, RebuildIndexFromPg, BackfillInserts, BackfillFails,
              RebuildChunks, RebuildFacts, RebuildFails
<1>. QED BY <1>1, <1>2 DEF LoseIndex, vars

-----------------------------------------------------------------------------
(* What a namespace that no two requests have met in keeps.                *)

Storing == Phases \ {"idle", "lookup"}
Stored == Storing \ {"chunks"}

\* A request has the namespace to itself, until the namespace counts as raced.
Alone ==
    \A j \in Jobs : job[j].op # "idle" /\ job[j].tag \notin raced =>
        /\ \A c \in Calls : call[c].at # "idle" => call[c].tag # job[j].tag
        /\ \A k \in Jobs \ {j} : job[k].op # "idle" => job[k].tag # job[j].tag

\* Once upserted, the chunks of a call stay.
ChunksStay ==
    \A c \in Calls : call[c].at \in Stored /\ call[c].tag \notin raced \union lost =>
        AllParts({call[c].doc}) \subseteq chunks

\* What a delete has cleared stays cleared.
ClearedStays ==
    \A j \in Jobs : job[j].op = "delete" /\ job[j].tag \notin raced =>
        /\ "chunks" \notin job[j].left => job[j].doc \notin DocsOf(chunks)
        /\ "facts" \notin job[j].left => job[j].doc \notin facts

\* No call is about to store a deleted document.
GoneStays ==
    \A d \in gone : about[d].tag \notin raced =>
        /\ d \notin DocsOf(chunks) \union facts \union edges
        /\ \A c \in Calls : call[c].at \in Storing => call[c].doc # d

\* Without the graph there are no edges.
NoGraph == ~TemporalGraph => edges = {} /\ \A c \in Calls : call[c].at # "edges"

StoreInv == Alone /\ ChunksStay /\ ClearedStays /\ GoneStays /\ NoGraph

-----------------------------------------------------------------------------
(* What the registry and the index keep of one another while nothing fails. *)

\* All the chunks of a document, or none.
Whole(C) == \A p \in C : AllParts({p[1]}) \subseteq C

\* A row says what its document is, or nothing.
RowsSay ==
    \A d \in DOMAIN docRows :
        /\ docRows[d].hash \in {None, about[d].content}
        /\ docRows[d].url \in {None, UrlOf[about[d].content]}

ChunksWhole ==
    /\ Whole(chunks) /\ Whole(chunkRows)
    /\ \A j \in Jobs : job[j].op \in {"backfill", "rebuild"} => Whole(job[j].snap)

\* A document row has its chunk rows, or gets them next.
RowsCovered ==
    \A d \in DOMAIN docRows :
        \/ AllParts({d}) \subseteq chunkRows
        \/ \E c \in Calls : call[c].at = "chunk_rows" /\ call[c].doc = d

\* Stored text has a document row, its own or one of its source, or gets one next.
TextHasRow ==
    \A d \in DocsOf(chunks) :
        \/ \E c \in Calls : call[c].at = "doc_row" /\ call[c].doc = d
        \/ \E e \in DOMAIN docRows \intersect In(about[d].tag) :
              SameSource(about[e].content, about[d].content)

\* A registered document has its text, unless it is deleted, or being deleted.
RowHasText ==
    \A d \in DOMAIN docRows \ gone : about[d].tag \notin raced \union lost =>
        \/ AllParts({d}) \subseteq chunks
        \/ \E j \in Jobs : job[j].op = "delete" /\ job[j].doc = d /\ "chunks" \notin job[j].left

\* What a maintenance request has read is still so.
SnapshotsHold ==
    \A j \in Jobs : job[j].tag \notin raced =>
        /\ job[j].op = "backfill" => job[j].snap \subseteq chunks
        /\ job[j].op = "rebuild" =>
              AllParts(DOMAIN docRows \intersect In(job[j].tag)) \subseteq job[j].snap
        /\ job[j].op = "rebuild_facts" =>
              AllParts(DOMAIN docRows \intersect In(job[j].tag)) \subseteq chunks

RegistryInv ==
    /\ RowsSay
    /\ ~failed => ChunksWhole /\ RowsCovered /\ TextHasRow /\ RowHasText /\ SnapshotsHold

LEMMA StoreInvInit == Init => StoreInv
  BY DEF Init, StoreInv, Alone, ChunksStay, ClearedStays, GoneStays, NoGraph, NoCall, NoJob, Stored, Storing

\* What a step of a call does, as far as StoreInv is concerned.
AddEffect(c) ==
    /\ UNCHANGED <<job, gone, lost>> /\ raced \subseteq raced'
    /\ \A d \in DOMAIN about : about'[d] = about[d]
    /\ \A k \in Calls \ {c} : call'[k] = call[k]
    /\ chunks \subseteq chunks' /\ chunks' \subseteq chunks \union AllParts({call[c].doc})
    /\ facts' \subseteq facts \union {call[c].doc}
    /\ edges' \subseteq edges \union {call[c].doc}
    /\ call[c].at \notin Storing => UNCHANGED index
    /\ call[c].at # "edges" => UNCHANGED edges
    /\ IF call[c].at = "idle"
       THEN call'[c].at = "lookup" /\ raced' = raced \union ({call'[c].tag} \intersect Active)
       ELSE call'[c].at # "idle" => call'[c].tag = call[c].tag
    /\ call'[c].at \in Storing =>
          IF call[c].at \in Storing THEN call'[c].doc = call[c].doc
                                    ELSE call'[c].at = "chunks" /\ call'[c].doc \notin DOMAIN about
    /\ call'[c].at \in Stored => call[c].at \in Stored \/ AllParts({call[c].doc}) \subseteq chunks'
    /\ call'[c].at = "edges" => TemporalGraph

LEMMA AddDoes ==
    ASSUME DocInv, NEW c \in Calls, Add(c)
    PROVE  AddEffect(c)
<1>. USE DEF AddEffect, index, registry, history, Sets, Returns, Goes, NoCall, Stored, Storing, Phases
<1>0. DOMAIN call = Calls /\ CallOK(call[c]) /\ call[c] \in Call
  BY DEF DocInv, CallsOK, CallOK
<1>a. ASSUME NEW t \in Tags, NEW x \in Contents, AddDocument(c, t, x) PROVE AddEffect(c)
  BY <1>0, <1>a DEF AddDocument
<1>b. ASSUME NEW d \in Docs, ChunkAndEmbed(c, d) PROVE AddEffect(c)
  BY <1>0, <1>b DEF ChunkAndEmbed, Call
<1>1. CASE Deduplicate(c)
  BY <1>0, <1>1 DEF Deduplicate, Call
<1>2. CASE UpsertChunks(c)
  BY <1>0, <1>2 DEF UpsertChunks, Call
<1>3. CASE UpsertChunksFails(c)
  BY <1>0, <1>3 DEF UpsertChunksFails, Call
<1>4. CASE InsertDocument(c)
  BY <1>0, <1>4 DEF InsertDocument, Call
<1>5. CASE UpsertChunkRows(c)
  BY <1>0, <1>5 DEF UpsertChunkRows, Call
<1>6. CASE MirrorFails(c)
  BY <1>0, <1>6 DEF MirrorFails, Call
<1>7. CASE NoFacts(c)
  BY <1>0, <1>7 DEF NoFacts, Call
<1>8. CASE IndexFacts(c)
  BY <1>0, <1>8 DEF IndexFacts, Call
<1>9. CASE InsertFactRows(c)
  BY <1>0, <1>9 DEF InsertFactRows, Call
<1>10. CASE IndexFactsFails(c)
  BY <1>0, <1>10 DEF IndexFactsFails, Call
<1>11. CASE IndexEdges(c)
  BY <1>0, <1>11 DEF IndexEdges, Call
<1>12. CASE Abort(c)
  BY <1>0, <1>12 DEF Abort, Call
<1>. QED BY <1>a, <1>b, <1>1, <1>2, <1>3, <1>4, <1>5, <1>6, <1>7, <1>8, <1>9, <1>10, <1>11, <1>12 DEF Add

LEMMA AddKeepsStoreInv ==
    ASSUME DocInv, StoreInv, NEW c \in Calls, Add(c)
    PROVE  StoreInv'
<1>. USE DEF StoreInv
<1>1. AddEffect(c)
  BY AddDoes
<1>2. \A k \in Calls : call[k].at \in Storing =>
         call[k].doc \in DOMAIN about /\ about[call[k].doc].tag = call[k].tag
  BY DEF DocInv, CallsOK, CallOK, Storing, Phases
<1>3. /\ \A j \in Jobs : job[j].op = "delete" => job[j].doc \in In(job[j].tag)
      /\ gone \subseteq DOMAIN about
  BY DEF DocInv, JobsOK, JobOK, HistoryOK
<1>4. Alone'
  BY <1>1 DEF AddEffect, Alone, Active
<1>5. ChunksStay'
  <2>. SUFFICES ASSUME NEW k \in Calls, call'[k].at \in Stored, call'[k].tag \notin raced' \union lost'
                PROVE  AllParts({call'[k].doc}) \subseteq chunks'
    BY DEF ChunksStay
  <2>1. CASE k # c
    BY <1>1, <2>1 DEF ChunksStay, AddEffect
  <2>2. CASE k = c
    BY <1>1, <2>2 DEF ChunksStay, AddEffect, Stored, Storing, Phases
  <2>. QED BY <2>1, <2>2
<1>6. \A j \in Jobs : job[j].op # "idle" /\ job[j].tag \notin raced /\ call[c].at # "idle" =>
         call[c].tag # job[j].tag
  BY DEF Alone
<1>7. ClearedStays'
  <2>. SUFFICES ASSUME NEW j \in Jobs, job[j].op = "delete", job[j].tag \notin raced
                PROVE  /\ "chunks" \notin job[j].left => job[j].doc \notin DocsOf(chunks')
                       /\ "facts" \notin job[j].left => job[j].doc \notin facts'
    BY <1>1 DEF AddEffect, ClearedStays
  <2>1. about[job[j].doc].tag = job[j].tag /\ job[j].doc \in DOMAIN about
    BY <1>3 DEF In
  <2>2. CASE call[c].at \in Storing
    <3>1. call[c].doc # job[j].doc
      BY <1>2, <1>6, <2>1, <2>2 DEF Storing
    <3>2. \A q \in chunks' : q[1] = job[j].doc => q \in chunks
      BY <1>1, <3>1 DEF AddEffect, AllParts
    <3>. QED BY <1>1, <3>1, <3>2 DEF AddEffect, ClearedStays, DocsOf
  <2>3. CASE call[c].at \notin Storing
    BY <1>1, <2>3 DEF AddEffect, ClearedStays, index
  <2>. QED BY <2>2, <2>3
<1>8. GoneStays'
  <2>. SUFFICES ASSUME NEW d \in gone, about[d].tag \notin raced
                PROVE  /\ d \notin DocsOf(chunks') \union facts' \union edges'
                       /\ \A k \in Calls : call'[k].at \in Storing => call'[k].doc # d
    BY <1>1, <1>3 DEF AddEffect, GoneStays
  <2>1. /\ d \notin DocsOf(chunks) \union facts \union edges
        /\ \A k \in Calls : call[k].at \in Storing => call[k].doc # d
    BY DEF GoneStays
  <2>2. \A k \in Calls : call'[k].at \in Storing => call'[k].doc # d
    BY <1>1, <1>3, <2>1 DEF AddEffect
  <2>3. CASE call[c].at \in Storing
    <3>1. \A q \in chunks' : q[1] = d => q \in chunks
      BY <1>1, <2>1, <2>3 DEF AddEffect, AllParts
    <3>. QED BY <1>1, <2>1, <2>2, <2>3, <3>1 DEF AddEffect, DocsOf
  <2>4. CASE call[c].at \notin Storing
    BY <1>1, <2>1, <2>2, <2>4 DEF AddEffect, index
  <2>. QED BY <2>3, <2>4
<1>9. NoGraph'
  BY <1>1 DEF AddEffect, NoGraph
<1>. QED BY <1>4, <1>5, <1>7, <1>8, <1>9

\* What a step of a maintenance request does.
JobEffect(j) ==
    /\ UNCHANGED <<about, call>> /\ raced \subseteq raced'
    /\ \A k \in Jobs \ {j} : job'[k] = job[k]
    /\ IF job[j].op = "idle"
       THEN /\ UNCHANGED <<index, gone, lost>>
            /\ job'[j].op = "delete" => job'[j].left = Collections
            /\ raced' = raced \union ({job'[j].tag} \intersect (Busy \union Active))
       ELSE /\ job'[j].op # "idle" => job'[j].tag = job[j].tag
            /\ lost \subseteq lost' \union {job[j].tag}

DeleteEffect(j) ==
    /\ chunks \ AllParts({job[j].doc}) \subseteq chunks' /\ chunks' \subseteq chunks
    /\ facts' \subseteq facts /\ edges' \subseteq edges
    /\ gone' \subseteq gone \union {job[j].doc} /\ UNCHANGED lost
    /\ job[j].doc \in gone' \ gone => job[j].left = {} /\ (TemporalGraph => job[j].doc \notin edges')
    /\ job'[j].op # "idle" =>
          /\ job'[j].op = "delete" /\ job'[j].doc = job[j].doc
          /\ \/ "chunks" \in job'[j].left \/ "chunks" \notin job[j].left
             \/ job[j].doc \notin DocsOf(chunks')
          /\ \/ "facts" \in job'[j].left \/ "facts" \notin job[j].left
             \/ job[j].doc \notin facts'

ReindexEffect(j) ==
    /\ chunks \subseteq chunks' /\ chunks' \subseteq chunks \union AllParts(In(job[j].tag) \ gone')
    /\ facts' \subseteq facts \union (In(job[j].tag) \ gone') /\ UNCHANGED edges
    /\ gone' \subseteq gone
    /\ job'[j].op # "delete"

LEMMA DeleteDoes ==
    ASSUME DocInv, NEW j \in Jobs, Delete(j)
    PROVE  JobEffect(j) /\ (job[j].op # "idle" => job[j].op = "delete" /\ DeleteEffect(j))
<1>. USE DEF JobEffect, DeleteEffect, index, registry, history, Becomes, NoJob, Starts, Collections
<1>0. DOMAIN job = Jobs /\ JobOK(job[j]) /\ job[j] \in Job
  BY DEF DocInv, JobsOK, JobOK
<1>1. ASSUME NEW d \in Docs, NEW t \in Tags, DeleteDocument(j, d, t)
      PROVE  JobEffect(j) /\ job[j].op = "idle"
  BY <1>0, <1>1 DEF DeleteDocument
<1>2. ASSUME NEW what \in Collections, DeletePoints(j, what)
      PROVE  JobEffect(j) /\ job[j].op = "delete" /\ DeleteEffect(j)
  BY <1>0, <1>2 DEF DeletePoints, Cleared, Job, DocsOf, AllParts, DocInv, StoresOK
<1>3. ASSUME DeletePointsFails(j) PROVE JobEffect(j) /\ job[j].op = "delete" /\ DeleteEffect(j)
  BY <1>0, <1>3 DEF DeletePointsFails, Cleared, DocInv, HistoryOK
<1>4. ASSUME DeleteEdges(j) PROVE JobEffect(j) /\ job[j].op = "delete" /\ DeleteEffect(j)
  BY <1>0, <1>4 DEF DeleteEdges
<1>5. ASSUME DeleteEdgesFails(j) PROVE JobEffect(j) /\ job[j].op = "delete" /\ DeleteEffect(j)
  BY <1>0, <1>5 DEF DeleteEdgesFails
<1>. QED BY <1>1, <1>2, <1>3, <1>4, <1>5 DEF Delete

LEMMA ReindexDoes ==
    ASSUME DocInv, NEW j \in Jobs, Reindex(j)
    PROVE  /\ JobEffect(j) /\ job[j].op # "delete"
           /\ job[j].op # "idle" => ReindexEffect(j)
           /\ job'[j].op # "delete"
<1>. USE DEF JobEffect, ReindexEffect, index, registry, history, Becomes, NoJob, Starts
<1>0. DOMAIN job = Jobs /\ JobOK(job[j]) /\ job[j] \in Job
  BY DEF DocInv, JobsOK, JobOK
<1>. DEFINE Goal == /\ JobEffect(j) /\ job[j].op # "delete"
                    /\ job[j].op # "idle" => ReindexEffect(j)
                    /\ job'[j].op # "delete"
<1>1. ASSUME NEW t \in Tags, BackfillToPg(j, t) PROVE Goal
  BY <1>0, <1>1 DEF BackfillToPg
<1>2. ASSUME NEW t \in Tags, RebuildIndexFromPg(j, t) PROVE Goal
  BY <1>0, <1>2 DEF RebuildIndexFromPg
<1>3. ASSUME BackfillInserts(j) PROVE Goal
  BY <1>0, <1>3 DEF BackfillInserts
<1>4. ASSUME BackfillFails(j) PROVE Goal
  BY <1>0, <1>4 DEF BackfillFails
<1>5. ASSUME RebuildChunks(j) PROVE Goal
  <2>1. job[j].snap \subseteq AllParts(In(job[j].tag) \ gone')
    BY <1>0, <1>5 DEF RebuildChunks, JobOK, AllParts, DocsOf
  <2>. QED BY <1>0, <1>5, <2>1 DEF RebuildChunks, Job
<1>6. ASSUME RebuildFacts(j) PROVE Goal
  BY <1>0, <1>6 DEF RebuildFacts, JobOK
<1>7. ASSUME RebuildFails(j) PROVE Goal
  <2>1. CASE job[j].op = "rebuild"
    <3>1. PICK C \in SUBSET job[j].snap : chunks' = chunks \union C /\ gone' = gone \ DocsOf(C)
      BY <1>7, <2>1 DEF RebuildFails
    <3>2. C \subseteq AllParts(In(job[j].tag) \ gone')
      BY <1>0, <2>1, <3>1 DEF JobOK, AllParts, DocsOf
    <3>. QED BY <1>0, <1>7, <2>1, <3>1, <3>2 DEF RebuildFails
  <2>2. CASE job[j].op = "rebuild_facts"
    BY <1>0, <1>7, <2>2 DEF RebuildFails, JobOK
  <2>. QED BY <1>7, <2>1, <2>2 DEF RebuildFails
<1>. QED BY <1>1, <1>2, <1>3, <1>4, <1>5, <1>6, <1>7 DEF Reindex

\* A maintenance request has its namespace to itself, before and after its step.
LEMMA JobKeepsAlone ==
    ASSUME DocInv, Alone, NEW j \in Jobs, JobEffect(j)
    PROVE  Alone'
<1>1. \A k \in Jobs : k # j => job'[k] = job[k]
  BY DEF JobEffect
<1>2. UNCHANGED call /\ raced \subseteq raced'
  BY DEF JobEffect
<1>3. CASE job[j].op = "idle"
  <2>1. raced' = raced \union ({job'[j].tag} \intersect (Busy \union Active))
    BY <1>3 DEF JobEffect
  <2>2. job'[j].tag \notin raced' /\ job'[j].op # "idle" => job'[j].tag \notin Busy \union Active
    BY <2>1 DEF DocInv, Alone
  <2>. QED BY <1>1, <1>2, <1>3, <2>1, <2>2 DEF Alone, Busy, Active
<1>4. CASE job[j].op # "idle"
  <2>1. job'[j].op # "idle" => job'[j].tag = job[j].tag
    BY <1>4 DEF JobEffect
  <2>. QED BY <1>1, <1>2, <1>4, <2>1 DEF Alone
<1>. QED BY <1>3, <1>4

LEMMA DeleteKeepsStoreInv ==
    ASSUME DocInv, StoreInv, NEW j \in Jobs, Delete(j)
    PROVE  StoreInv'
<1>. USE DEF StoreInv
<1>1. JobEffect(j)
  BY DeleteDoes
<1>2. \A k \in Calls : call[k].at \in Storing =>
         call[k].doc \in DOMAIN about /\ about[call[k].doc].tag = call[k].tag
  BY DEF DocInv, CallsOK, CallOK, Storing, Phases
<1>3. /\ \A k \in Jobs : job[k].op = "delete" => job[k].doc \in In(job[k].tag)
      /\ gone \subseteq DOMAIN about
  BY DEF DocInv, JobsOK, JobOK, HistoryOK
<1>4. Alone' /\ NoGraph'
  <2>1. ~TemporalGraph => edges' = {}
    BY <1>1, DeleteDoes DEF JobEffect, DeleteEffect, NoGraph, index
  <2>. QED BY <1>1, <2>1, JobKeepsAlone DEF JobEffect, NoGraph
<1>5. CASE job[j].op = "idle"
  BY <1>1, <1>4, <1>5 DEF JobEffect, index, ChunksStay, ClearedStays, GoneStays, Collections
<1>6. CASE job[j].op # "idle"
  <2>0. job[j].op = "delete" /\ DeleteEffect(j) /\ job[j].doc \in In(job[j].tag)
    BY <1>3, <1>6, DeleteDoes
  <2>1. ChunksStay'
    <3>. SUFFICES ASSUME NEW k \in Calls, call[k].at \in Stored, call[k].tag \notin raced' \union lost'
                  PROVE  AllParts({call[k].doc}) \subseteq chunks'
      BY <1>1 DEF ChunksStay, JobEffect
    <3>1. call[k].tag \notin raced \union lost /\ AllParts({call[k].doc}) \subseteq chunks
      BY <1>1, <2>0 DEF JobEffect, DeleteEffect, ChunksStay
    <3>2. call[k].tag # job[j].tag
      BY <1>6, <3>1 DEF Alone, Stored, Storing, Phases
    <3>3. call[k].doc # job[j].doc
      BY <1>2, <2>0, <3>2 DEF In, Stored
    <3>. QED BY <2>0, <3>1, <3>3 DEF DeleteEffect, AllParts
  <2>2. ClearedStays'
    BY <1>1, <2>0 DEF JobEffect, DeleteEffect, ClearedStays, DocsOf
  <2>3. GoneStays'
    <3>. SUFFICES ASSUME NEW d \in gone', about[d].tag \notin raced
                  PROVE  /\ d \notin DocsOf(chunks') \union facts' \union edges'
                         /\ \A k \in Calls : call[k].at \in Storing => call[k].doc # d
      BY <1>1 DEF JobEffect, GoneStays
    <3>1. CASE d \in gone
      BY <2>0, <3>1 DEF DeleteEffect, GoneStays, DocsOf
    <3>2. CASE d \notin gone
      <4>1. d = job[j].doc /\ job[j].left = {} /\ about[d].tag = job[j].tag
        BY <2>0, <3>2 DEF DeleteEffect, In
      <4>2. d \notin DocsOf(chunks') \union facts'
        BY <2>0, <4>1 DEF DeleteEffect, ClearedStays, DocsOf
      <4>3. d \notin edges'
        BY <1>4, <2>0, <3>2, <4>1 DEF DeleteEffect, NoGraph
      <4>4. \A k \in Calls : call[k].at \in Storing => call[k].doc # d
        BY <1>2, <1>6, <4>1 DEF Alone, Storing
      <4>. QED BY <4>2, <4>3, <4>4
    <3>. QED BY <3>1, <3>2
  <2>. QED BY <1>4, <2>1, <2>2, <2>3
<1>. QED BY <1>5, <1>6

LEMMA ReindexKeepsStoreInv ==
    ASSUME DocInv, StoreInv, NEW j \in Jobs, Reindex(j)
    PROVE  StoreInv'
<1>. USE DEF StoreInv
<1>1. JobEffect(j) /\ job[j].op # "delete" /\ job'[j].op # "delete"
  BY ReindexDoes
<1>2. \A k \in Jobs : job[k].op = "delete" => job[k].doc \in In(job[k].tag)
  BY DEF DocInv, JobsOK, JobOK
<1>3. Alone' /\ NoGraph'
  <2>1. ~TemporalGraph => edges' = {}
    BY <1>1, ReindexDoes DEF JobEffect, ReindexEffect, NoGraph, index
  <2>. QED BY <1>1, <2>1, JobKeepsAlone DEF JobEffect, NoGraph
<1>4. CASE job[j].op = "idle"
  BY <1>1, <1>3, <1>4 DEF JobEffect, index, ChunksStay, ClearedStays, GoneStays
<1>5. CASE job[j].op # "idle"
  <2>0. ReindexEffect(j)
    BY <1>5, ReindexDoes
  <2>1. ChunksStay'
    BY <1>1, <1>5, <2>0 DEF JobEffect, ReindexEffect, ChunksStay, Alone, Stored, Storing, Phases
  <2>2. ClearedStays'
    <3>. SUFFICES ASSUME NEW k \in Jobs, job[k].op = "delete", job[k].tag \notin raced
                  PROVE  /\ "chunks" \notin job[k].left => job[k].doc \notin DocsOf(chunks')
                         /\ "facts" \notin job[k].left => job[k].doc \notin facts'
      BY <1>1 DEF JobEffect, ClearedStays
    <3>1. k # j /\ job[k].tag # job[j].tag
      BY <1>1, <1>5 DEF Alone
    <3>2. job[k].doc \notin In(job[j].tag)
      BY <1>2, <3>1 DEF In
    <3>. QED BY <2>0, <3>2 DEF ReindexEffect, ClearedStays, DocsOf, AllParts
  <2>3. GoneStays'
    BY <1>1, <2>0 DEF JobEffect, ReindexEffect, GoneStays, DocsOf, AllParts
  <2>. QED BY <1>3, <2>1, <2>2, <2>3
<1>. QED BY <1>4, <1>5

LEMMA StoreInvHolds == Spec => [](DocInv /\ StoreInv)
<1>1. Init => StoreInv
  BY StoreInvInit
<1>2. DocInv /\ StoreInv /\ [Next]_vars => StoreInv'
  <2>. SUFFICES ASSUME DocInv, StoreInv, [Next]_vars PROVE StoreInv'
    OBVIOUS
  <2>1. CASE LoseIndex
    <3>1. \A c \in Calls : call[c].at # "idle" => call[c].tag \in raced'
      BY <2>1 DEF LoseIndex, Busy
    <3>2. \A j \in Jobs : job[j].op # "idle" => job[j].tag \in raced'
      BY <2>1 DEF LoseIndex, Active
    <3>3. \A c \in Calls : call[c].at # "idle" => call[c].tag \in lost'
      BY <2>1 DEF LoseIndex, DocInv, CallsOK, CallOK
    <3>. QED BY <2>1, <3>2, <3>3 DEF LoseIndex, registry, StoreInv, Alone, ChunksStay, ClearedStays,
             GoneStays, NoGraph, DocsOf, Stored, Storing
  <2>2. CASE UNCHANGED vars
    BY <2>2 DEF vars, index, registry, history, StoreInv, Alone, ChunksStay, ClearedStays, GoneStays, NoGraph
  <2>. QED BY <2>1, <2>2, AddKeepsStoreInv, DeleteKeepsStoreInv, ReindexKeepsStoreInv DEF Next
<1>. QED BY <1>1, <1>2, DocInvHolds, PTL DEF Spec

\* The cascade of a delete (mod.rs:2527) is total: after Ok(true) nothing of the
\* document is in any collection, whatever calls and requests run meanwhile in
\* other namespaces, until a rebuild stores it again.
THEOREM DeleteTotal == Spec => []DeleteIsTotal
<1>1. StoreInv => DeleteIsTotal
  BY DEF StoreInv, GoneStays, DeleteIsTotal
<1>. QED BY <1>1, StoreInvHolds, PTL

\* "Returning Ok(doc_id) means chunks are embedded, upserted, and searchable"
\* (mod.rs:502), for every document a call stored itself.
THEOREM OkSearchable == Spec => OkMeansSearchable
<1>. DEFINE Searchable == \A c \in Calls, d \in Docs :
               Acknowledges(c, d) /\ call[c].at # "lookup" => AllParts({d}) \subseteq chunks'
<1>1. DocInv /\ StoreInv /\ [Next]_vars => Searchable
  <2>. SUFFICES ASSUME DocInv, StoreInv, [Next]_vars, NEW c \in Calls, NEW d \in Docs,
                       Acknowledges(c, d), call[c].at # "lookup"
                PROVE  AllParts({d}) \subseteq chunks'
    OBVIOUS
  <2>. USE DEF Acknowledges
  <2>1. Add(c)
    BY CallsAreOthers, CallsAreAlone DEF Next, DocInv, LoseIndex, vars
  <2>2. AddEffect(c) /\ DOMAIN call = Calls /\ call[c] \in Call
    BY <2>1, AddDoes DEF DocInv, CallsOK, CallOK
  <2>3. call[c].tag \notin raced \union lost
    BY <2>2 DEF AddEffect
  <2>4. call[c].at \in Stored /\ d = call[c].doc
    <3>1. ~Abort(c) /\ ~UpsertChunksFails(c)
      BY <2>2, DocumentAssumption DEF Abort, UpsertChunksFails, Returns, Sets, NoCall
    <3>2. NoFacts(c) \/ InsertFactRows(c) \/ IndexFactsFails(c) \/ IndexEdges(c)
      BY <2>1, <2>2, <3>1 DEF Add, AddDocument, Deduplicate, ChunkAndEmbed, UpsertChunks, InsertDocument,
               UpsertChunkRows, MirrorFails, IndexFacts, Sets, Call
    <3>. QED BY <2>2, <3>2 DEF NoFacts, InsertFactRows, IndexFactsFails, IndexEdges, Goes, Returns,
             Sets, Stored, Storing, Phases, NoCall, Call
  <2>. QED BY <2>2, <2>3, <2>4 DEF StoreInv, ChunksStay, AddEffect
<1>. QED BY <1>1, StoreInvHolds, PTL DEF Spec, OkMeansSearchable

-----------------------------------------------------------------------------
(* The registry covers the index.                                          *)

LEMMA RegistryInvInit == Init => RegistryInv
  BY DEF Init, RegistryInv, RowsSay, ChunksWhole, Whole, RowsCovered, TextHasRow, RowHasText,
         SnapshotsHold, NoJob, DocsOf

\* What a step of a call does to the registry.
LEMMA AddWrites ==
    ASSUME DocInv, NEW c \in Calls, Add(c)
    PROVE  /\ failed => failed'
           /\ call[c].at = "doc_row" =>
                 /\ UNCHANGED <<chunks, chunkRows>>
                 /\ \/ failed' /\ UNCHANGED docRows
                    \/ Conflicts(call[c].doc) /\ UNCHANGED docRows /\ call'[c].at = "facts"
                    \/ /\ docRows' = DocInserted(call[c].doc,
                              [hash |-> about[call[c].doc].content, url |-> UrlOf[about[call[c].doc].content]])
                       /\ call'[c].at = "chunk_rows" /\ call'[c].doc = call[c].doc
           /\ call[c].at # "doc_row" => UNCHANGED docRows
           /\ call[c].at = "chunks" => /\ UNCHANGED chunkRows
                                       /\ ~failed' => /\ chunks' = chunks \union AllParts({call[c].doc})
                                                      /\ call'[c].at = "doc_row" /\ call'[c].doc = call[c].doc
           /\ call[c].at # "chunks" => UNCHANGED chunks
           /\ call[c].at = "chunk_rows" /\ ~failed' => chunkRows' = chunkRows \union AllParts({call[c].doc})
           /\ call[c].at # "chunk_rows" => UNCHANGED chunkRows
<1>. USE DEF index, registry, history, Sets, Returns, Goes, NoCall
<1>0. DOMAIN call = Calls /\ CallOK(call[c]) /\ call[c] \in Call /\ failed \in BOOLEAN
  BY DEF DocInv, CallsOK, CallOK, HistoryOK
<1>a. ASSUME NEW t \in Tags, NEW x \in Contents, AddDocument(c, t, x) PROVE UNCHANGED <<chunks, registry, failed>> /\ call[c].at = "idle"
  BY <1>a DEF AddDocument
<1>b. ASSUME NEW d \in Docs, ChunkAndEmbed(c, d)
      PROVE  UNCHANGED <<chunks, registry>> /\ call[c].at = "lookup" /\ (failed => failed')
  BY <1>0, <1>b DEF ChunkAndEmbed
<1>c. ASSUME InsertDocument(c) PROVE /\ UNCHANGED <<chunks, chunkRows, failed>> /\ call[c].at = "doc_row"
                                     /\ \/ Conflicts(call[c].doc) /\ UNCHANGED docRows /\ call'[c].at = "facts"
                                        \/ /\ docRows' = DocInserted(call[c].doc,
                                              [hash |-> about[call[c].doc].content, url |-> UrlOf[about[call[c].doc].content]])
                                           /\ call'[c].at = "chunk_rows" /\ call'[c].doc = call[c].doc
  BY <1>0, <1>c DEF InsertDocument, Call
<1>d. ASSUME UpsertChunks(c) PROVE /\ UNCHANGED <<registry, failed>> /\ call[c].at = "chunks"
                                   /\ chunks' = chunks \union AllParts({call[c].doc})
                                   /\ call'[c].at = "doc_row" /\ call'[c].doc = call[c].doc
  BY <1>0, <1>d DEF UpsertChunks, Call
<1>e. ASSUME MirrorFails(c)
      PROVE  /\ failed' /\ UNCHANGED <<chunks, docRows>> /\ call[c].at \in {"doc_row", "chunk_rows"}
             /\ call[c].at = "doc_row" => UNCHANGED chunkRows
  BY <1>e DEF MirrorFails
<1>. QED BY <1>0, <1>a, <1>b, <1>c, <1>d, <1>e DEF Add, Deduplicate, UpsertChunksFails,
         UpsertChunkRows, NoFacts, IndexFacts, InsertFactRows, IndexFactsFails, IndexEdges, Abort

LEMMA JoinedWhole ==
    ASSUME NEW C, NEW D, Whole(C), Whole(D)
    PROVE  Whole(C \union D)
  BY DEF Whole

LEMMA DocWhole ==
    ASSUME NEW D
    PROVE  Whole(AllParts(D))
  BY DEF Whole, AllParts

LEMMA CutWhole ==
    ASSUME NEW C, NEW D, C \subseteq AllParts(D), Whole(C), NEW d
    PROVE  Whole(C \ AllParts({d}))
  BY DEF Whole, AllParts

LEMMA AddKeepsRegistryInv ==
    ASSUME DocInv, StoreInv, RegistryInv, NEW c \in Calls, Add(c)
    PROVE  RegistryInv'
<1>. DEFINE d == call[c].doc
            x == about[d].content
<1>1. AddEffect(c)
  BY AddDoes
<1>2. call[c].at = "doc_row" =>
         \/ UNCHANGED docRows
         \/ docRows' = DocInserted(d, [hash |-> x, url |-> UrlOf[x]])
  BY AddWrites
<1>3. call[c].at \in Storing => d \in DOMAIN about /\ about[d].tag = call[c].tag /\ about[d].content = call[c].content
  BY DEF DocInv, CallsOK, CallOK, Storing, Phases
<1>4. DOMAIN docRows \subseteq DOMAIN about
  BY DEF DocInv, StoresOK
<1>5. RowsSay'
  <2>1. CASE UNCHANGED docRows
    BY <1>1, <1>4, <2>1 DEF AddEffect, RegistryInv, RowsSay
  <2>2. CASE docRows # docRows'
    <3>1. docRows' = DocInserted(d, [hash |-> x, url |-> UrlOf[x]]) /\ call[c].at = "doc_row"
      BY <1>2, <2>2, AddWrites
    <3>2. d \in DOMAIN about
      BY <1>3, <3>1 DEF Storing, Phases
    <3>. QED BY <1>1, <1>4, <3>1, <3>2 DEF AddEffect, RegistryInv, RowsSay, DocInserted
  <2>. QED BY <2>1, <2>2
<1>. SUFFICES ASSUME ~failed'
              PROVE  (ChunksWhole /\ RowsCovered /\ TextHasRow /\ RowHasText /\ SnapshotsHold)'
  BY <1>5 DEF RegistryInv
<1>6. ~failed
  BY AddWrites
<1>7. RowsSay /\ ChunksWhole /\ RowsCovered /\ TextHasRow /\ RowHasText /\ SnapshotsHold
  BY <1>6 DEF RegistryInv
<1>8. ChunksWhole'
  <2>1. chunks' = chunks \/ chunks' = chunks \union AllParts({d})
    BY AddWrites
  <2>2. chunkRows' = chunkRows \/ chunkRows' = chunkRows \union AllParts({d})
    BY AddWrites
  <2>3. Whole(chunks)' /\ Whole(chunkRows)'
    BY <1>7, <2>1, <2>2, JoinedWhole, DocWhole DEF ChunksWhole, Whole
  <2>. QED BY <1>1, <1>7, <2>3 DEF AddEffect, ChunksWhole, Whole
<1>9. DOMAIN docRows' = DOMAIN docRows \/ (DOMAIN docRows' = DOMAIN docRows \union {d} /\ call[c].at = "doc_row" /\ call'[c].at = "chunk_rows" /\ call'[c].doc = d)
  BY AddWrites DEF DocInserted
<1>10. chunkRows \subseteq chunkRows'
  BY AddWrites
<1>11. RowsCovered'
  <2>. SUFFICES ASSUME NEW e \in DOMAIN docRows'
                PROVE  AllParts({e}) \subseteq chunkRows' \/ \E k \in Calls : call'[k].at = "chunk_rows" /\ call'[k].doc = e
    BY DEF RowsCovered
  <2>1. CASE e \notin DOMAIN docRows
    BY <1>9, <2>1
  <2>2. CASE AllParts({e}) \subseteq chunkRows
    BY <1>10, <2>2
  <2>3. ASSUME NEW k \in Calls, call[k].at = "chunk_rows", call[k].doc = e
        PROVE  AllParts({e}) \subseteq chunkRows' \/ \E q \in Calls : call'[q].at = "chunk_rows" /\ call'[q].doc = e
    <3>1. CASE k = c
      BY <2>3, <3>1, AddWrites
    <3>. QED BY <1>1, <2>3, <3>1 DEF AddEffect
  <2>. QED BY <1>7, <2>1, <2>2, <2>3 DEF RowsCovered
<1>12. TextHasRow'
  <2>. DEFINE Covered(f) == \E e \in DOMAIN docRows' :
                 /\ e \in DOMAIN about' /\ about'[e].tag = about'[f].tag
                 /\ SameSource(about'[e].content, about'[f].content)
  <2>. SUFFICES ASSUME NEW f \in DocsOf(chunks')
                PROVE  (\E k \in Calls : call'[k].at = "doc_row" /\ call'[k].doc = f) \/ Covered(f)
    BY DEF TextHasRow, In
  <2>1. CASE f \notin DocsOf(chunks)
    <3>1. call[c].at = "chunks"
      BY <2>1, AddWrites
    <3>. QED BY ZenonT(40), <2>1, <3>1, AddWrites DEF DocsOf, AllParts
  <2>2. CASE f \in DocsOf(chunks)
    <3>0. f \in DOMAIN about /\ about'[f] = about[f]
      BY <1>1, <2>2 DEF DocInv, StoresOK, DocsOf, AllParts, AddEffect
    <3>1. ASSUME NEW e \in DOMAIN docRows \intersect In(about[f].tag), SameSource(about[e].content, about[f].content)
          PROVE  Covered(f)
      <4>1. e \in DOMAIN docRows' /\ about'[e] = about[e] /\ e \in DOMAIN about'
        <5>1. DOMAIN about \subseteq DOMAIN about'
          BY AddIsTyped, <1>1, <1>9 DEF Add, AddDocument, Deduplicate, ChunkAndEmbed, UpsertChunks, UpsertChunksFails,
             InsertDocument, UpsertChunkRows, MirrorFails, NoFacts, IndexFacts, InsertFactRows,
             IndexFactsFails, IndexEdges, Abort
        <5>. QED BY SMTT(40), <1>1, <1>4, <1>9, <3>1, <5>1 DEF AddEffect
      <4>. QED BY <3>0, <3>1, <4>1 DEF In
    <3>2. ASSUME NEW k \in Calls, call[k].at = "doc_row", call[k].doc = f
          PROVE  (\E q \in Calls : call'[q].at = "doc_row" /\ call'[q].doc = f) \/ Covered(f)
      <4>1. CASE k # c
        BY <1>1, <3>2, <4>1 DEF AddEffect
      <4>2. CASE k = c /\ Conflicts(f)
        <5>1. PICK e \in Found(about[f].tag, about[f].content) : TRUE
          BY <4>2 DEF Conflicts
        <5>2. about[f].content \in Contents
          BY <3>0 DEF DocInv, StoresOK
        <5>3. SameSource(about[e].content, about[f].content)
          BY <1>7, <5>1, <5>2, DocumentAssumption DEF RowsSay, Found, SameSource
        <5>. QED BY <3>1, <5>1, <5>3 DEF Found
      <4>3. CASE k = c /\ ~Conflicts(f)
        <5>1. f \in DOMAIN docRows' /\ f \in DOMAIN about'
          BY <3>2, <4>3, AddWrites, AddIsTyped DEF DocInserted, DocInv, StoresOK
        <5>. QED BY <5>1 DEF SameSource
      <4>. QED BY <4>1, <4>2, <4>3
    <3>. QED BY <1>7, <2>2, <3>1, <3>2 DEF TextHasRow
  <2>. QED BY <2>1, <2>2
<1>13. RowHasText'
  <2>. SUFFICES ASSUME NEW e \in DOMAIN docRows' \ gone', about'[e].tag \notin raced' \union lost'
                PROVE  \/ AllParts({e}) \subseteq chunks'
                       \/ \E j \in Jobs : job'[j].op = "delete" /\ job'[j].doc = e /\ "chunks" \notin job'[j].left
    BY DEF RowHasText
  <2>1. CASE e \in DOMAIN docRows
    BY <1>1, <1>4, <1>7, <2>1 DEF AddEffect, RowHasText
  <2>2. CASE e \notin DOMAIN docRows
    <3>1. e = d /\ call[c].at = "doc_row"
      BY <1>9, <2>2
    <3>. QED BY <1>1, <1>3, <3>1 DEF AddEffect, StoreInv, ChunksStay, Stored, Storing, Phases
  <2>. QED BY <2>1, <2>2
<1>14. SnapshotsHold'
  <2>1. \A j \in Jobs : job[j].tag \notin raced /\ job[j].op # "idle" =>
           DOMAIN docRows' \intersect In(job[j].tag)' = DOMAIN docRows \intersect In(job[j].tag)
    <3>. SUFFICES ASSUME NEW j \in Jobs, job[j].tag \notin raced, job[j].op # "idle"
                  PROVE  DOMAIN docRows' \intersect In(job[j].tag)' = DOMAIN docRows \intersect In(job[j].tag)
      OBVIOUS
    <3>0. DOMAIN docRows' \subseteq DOMAIN about' /\ DOMAIN docRows \subseteq DOMAIN docRows'
      BY <1>9, AddIsTyped DEF DocInv, StoresOK
    <3>1. CASE DOMAIN docRows' = DOMAIN docRows
      BY <1>1, <1>4, <3>0, <3>1 DEF AddEffect, In
    <3>2. CASE DOMAIN docRows' = DOMAIN docRows \union {d} /\ call[c].at = "doc_row"
      <4>1. about'[d].tag # job[j].tag
        BY <1>1, <1>3, <3>2 DEF AddEffect, StoreInv, Alone, Storing, Phases
      <4>. QED BY <1>1, <1>4, <3>0, <3>2, <4>1 DEF AddEffect, In
    <3>. QED BY <1>9, <3>1, <3>2
  <2>. QED BY <1>1, <1>7, <2>1 DEF AddEffect, SnapshotsHold
<1>. QED BY <1>8, <1>11, <1>12, <1>13, <1>14

\* What a step of a delete does that does not fail.
LEMMA DeleteWrites ==
    ASSUME DocInv, NEW j \in Jobs, Delete(j)
    PROVE  /\ UNCHANGED <<about, registry, call>> /\ (failed => failed')
           /\ job[j].op \in {"idle", "delete"} /\ job'[j].op \in {"idle", "delete"}
           /\ job[j].op = "idle" => UNCHANGED <<chunks, gone>>
           /\ ~failed' /\ job[j].op = "delete" =>
                 IF job'[j].op = "idle"
                 THEN UNCHANGED chunks /\ gone' = gone \union {job[j].doc}
                 ELSE /\ gone' = gone /\ job'[j].doc = job[j].doc /\ job'[j].left \subseteq job[j].left
                      /\ \/ UNCHANGED chunks
                         \/ chunks' = chunks \ AllParts({job[j].doc}) /\ "chunks" \notin job'[j].left
<1>. USE DEF index, registry, history, Becomes, Starts, NoJob
<1>0. DOMAIN job = Jobs /\ JobOK(job[j]) /\ job[j] \in Job /\ failed \in BOOLEAN
  BY DEF DocInv, JobsOK, JobOK, HistoryOK
<1>1. ASSUME NEW d \in Docs, NEW t \in Tags, DeleteDocument(j, d, t)
      PROVE  UNCHANGED <<about, registry, call, chunks, gone, failed>> /\ job[j].op = "idle" /\ job'[j].op = "delete"
  BY <1>0, <1>1 DEF DeleteDocument
<1>2. ASSUME NEW what \in Collections, DeletePoints(j, what)
      PROVE  /\ UNCHANGED <<about, registry, call, gone, failed>>
             /\ job[j].op = "delete" /\ job'[j].op = "delete"
             /\ job'[j].doc = job[j].doc /\ job'[j].left \subseteq job[j].left
             /\ \/ UNCHANGED chunks
                \/ chunks' = chunks \ AllParts({job[j].doc}) /\ "chunks" \notin job'[j].left
  BY <1>0, <1>2 DEF DeletePoints, Cleared, Job
<1>. QED BY SMTT(40), <1>0, <1>1, <1>2 DEF Delete, DeletePointsFails, DeleteEdges, DeleteEdgesFails

LEMMA DeleteKeepsRegistryInv ==
    ASSUME DocInv, StoreInv, RegistryInv, NEW j \in Jobs, Delete(j)
    PROVE  RegistryInv'
<1>. DEFINE d == job[j].doc
<1>1. JobEffect(j) /\ UNCHANGED <<about, registry, call>>
  BY DeleteDoes, DeleteWrites
<1>2. RowsSay'
  BY <1>1 DEF RegistryInv, RowsSay, registry
<1>. SUFFICES ASSUME ~failed'
              PROVE  (ChunksWhole /\ RowsCovered /\ TextHasRow /\ RowHasText /\ SnapshotsHold)'
  BY <1>2 DEF RegistryInv
<1>3. ChunksWhole /\ RowsCovered /\ TextHasRow /\ RowHasText /\ SnapshotsHold
  BY DeleteWrites DEF RegistryInv
<1>4. chunks' = chunks \/ (chunks' = chunks \ AllParts({d}) /\ job[j].op = "delete")
  BY DeleteWrites
<1>5. \A k \in Jobs : job'[k].op \in {"backfill", "rebuild", "rebuild_facts"} => job'[k] = job[k] /\ k # j
  BY <1>1, DeleteWrites DEF JobEffect
<1>6. ChunksWhole'
  <2>1. Whole(chunks)'
    BY <1>3, <1>4, CutWhole DEF ChunksWhole, Whole, DocInv, StoresOK
  <2>. QED BY <1>1, <1>3, <1>5, <2>1 DEF registry, ChunksWhole, Whole
<1>7. RowsCovered' /\ TextHasRow'
  BY <1>1, <1>3, <1>4 DEF registry, RowsCovered, TextHasRow, DocsOf, In
<1>8. RowHasText'
  <2>. SUFFICES ASSUME NEW e \in DOMAIN docRows \ gone', about[e].tag \notin raced' \union lost'
                PROVE  \/ AllParts({e}) \subseteq chunks'
                       \/ \E k \in Jobs : job'[k].op = "delete" /\ job'[k].doc = e /\ "chunks" \notin job'[k].left
    BY <1>1 DEF RowHasText, registry
  <2>1. e \notin gone /\ about[e].tag \notin raced \union lost
    BY <1>1, DeleteDoes, DeleteWrites DEF JobEffect, DeleteEffect
  <2>2. CASE AllParts({e}) \subseteq chunks
    <3>1. CASE chunks' = chunks
      BY <2>2, <3>1
    <3>2. CASE chunks' # chunks /\ e # d
      BY <1>4, <2>2, <3>2 DEF AllParts
    <3>3. CASE chunks' # chunks /\ e = d
      BY <3>3, DeleteWrites
    <3>. QED BY <3>1, <3>2, <3>3
  <2>3. ASSUME NEW k \in Jobs, job[k].op = "delete", job[k].doc = e, "chunks" \notin job[k].left
        PROVE  \E q \in Jobs : job'[q].op = "delete" /\ job'[q].doc = e /\ "chunks" \notin job'[q].left
    <3>1. CASE k = j
      BY <2>3, <3>1, DeleteWrites
    <3>. QED BY <1>1, <2>3, <3>1 DEF JobEffect
  <2>. QED BY <1>3, <2>1, <2>2, <2>3 DEF RowHasText
<1>9. SnapshotsHold'
  <2>. SUFFICES ASSUME NEW k \in Jobs, job[k].tag \notin raced', k # j, job'[k] = job[k],
                       job[k].op \in {"backfill", "rebuild", "rebuild_facts"}
                PROVE  /\ job[k].op = "backfill" => job[k].snap \subseteq chunks'
                       /\ job[k].op = "rebuild" =>
                             AllParts(DOMAIN docRows \intersect In(job[k].tag)) \subseteq job[k].snap
                       /\ job[k].op = "rebuild_facts" =>
                             AllParts(DOMAIN docRows \intersect In(job[k].tag)) \subseteq chunks'
    BY <1>1, <1>5 DEF SnapshotsHold, registry, In
  <2>1. job[k].tag \notin raced
    BY <1>1 DEF JobEffect
  <2>2. CASE chunks' = chunks
    BY <1>3, <2>1, <2>2 DEF SnapshotsHold
  <2>3. CASE chunks' # chunks
    <3>1. chunks' = chunks \ AllParts({d}) /\ job[j].op = "delete" /\ d \in In(job[j].tag)
      BY <1>4, <2>3 DEF DocInv, JobsOK, JobOK
    <3>2. job[j].tag # job[k].tag
      BY <2>1, <3>1 DEF StoreInv, Alone
    <3>3. d \notin In(job[k].tag)
      BY <3>1, <3>2 DEF In
    <3>4. job[k].op = "backfill" => job[k].snap \subseteq AllParts(In(job[k].tag))
      BY DEF DocInv, JobsOK, JobOK
    <3>. QED BY <1>3, <2>1, <3>1, <3>3, <3>4 DEF SnapshotsHold, AllParts
  <2>. QED BY <2>2, <2>3
<1>. QED BY <1>6, <1>7, <1>8, <1>9

LEMMA ReindexKeepsRegistryInv ==
    ASSUME DocInv, StoreInv, RegistryInv, NEW j \in Jobs, Reindex(j)
    PROVE  RegistryInv'
<1>. USE DEF index, registry, history
<1>0. /\ DOMAIN job = Jobs /\ JobOK(job[j]) /\ job[j] \in Job /\ failed \in BOOLEAN
      /\ StoresOK
  BY DEF DocInv, JobsOK, JobOK, HistoryOK
<1>1. JobEffect(j)
  BY ReindexDoes
<1>2. RowsSay
  BY DEF RegistryInv
<1>3. ASSUME ~failed PROVE ChunksWhole /\ RowsCovered /\ TextHasRow /\ RowHasText /\ SnapshotsHold
  BY <1>3 DEF RegistryInv
<1>4. \A k \in Jobs : job'[k].op = "delete" => k # j
  BY ReindexDoes
<1>5. \A k \in Jobs : job[k].op = "delete" => k # j
  BY ReindexDoes
<1>6. \A k \in Jobs \ {j} : job'[k] = job[k]
  BY <1>1 DEF JobEffect
<1>7. ASSUME NEW t \in Tags, BackfillToPg(j, t) PROVE RegistryInv'
  <2>1. PICK S \in SUBSET {p \in chunks : p[1] \in In(t)}, F \in SUBSET (facts \intersect In(t)) :
           /\ Starts(j, [NoJob EXCEPT !.op = "backfill", !.tag = t, !.left = F, !.snap = S])
           /\ failed' = (failed \/ S # {p \in chunks : p[1] \in In(t)} \/ F # facts \intersect In(t))
           /\ UNCHANGED <<about, index, registry, call, gone, lost>>
    BY <1>7 DEF BackfillToPg, scroll_all
  <2>2. RowsSay'
    BY <1>2, <2>1 DEF RowsSay
  <2>. SUFFICES ASSUME ~failed' PROVE (ChunksWhole /\ RowsCovered /\ TextHasRow /\ RowHasText /\ SnapshotsHold)'
    BY <2>2 DEF RegistryInv
  <2>3. ~failed /\ S = {p \in chunks : p[1] \in In(t)} /\ job'[j].op = "backfill" /\ job'[j].snap = S
    BY <1>0, <2>1 DEF Starts, Becomes, NoJob
  <2>4. ChunksWhole'
    <3>1. Whole(S)
      BY <1>0, <1>3, <2>3 DEF ChunksWhole, Whole, AllParts
    <3>. QED BY <1>3, <1>6, <2>1, <2>3, <3>1 DEF ChunksWhole, Whole
  <2>5. RowsCovered' /\ TextHasRow'
    BY <1>3, <2>1, <2>3 DEF RowsCovered, TextHasRow, In
  <2>6. RowHasText'
    BY <1>1, <1>3, <1>5, <1>6, <2>1, <2>3 DEF RowHasText, JobEffect
  <2>7. SnapshotsHold'
    BY <1>1, <1>3, <1>6, <2>1, <2>3 DEF SnapshotsHold, JobEffect, In
  <2>. QED BY <2>4, <2>5, <2>6, <2>7
<1>8. ASSUME NEW t \in Tags, RebuildIndexFromPg(j, t) PROVE RegistryInv'
  <2>1. UNCHANGED <<about, index, registry, call, gone, lost, failed>>
    BY <1>8 DEF RebuildIndexFromPg
  <2>2. RowsSay'
    BY <1>2, <2>1 DEF RowsSay
  <2>. SUFFICES ASSUME ~failed PROVE (ChunksWhole /\ RowsCovered /\ TextHasRow /\ RowHasText /\ SnapshotsHold)'
    BY <2>1, <2>2 DEF RegistryInv
  <2>3. /\ job'[j].op = "rebuild" /\ job'[j].snap = ChunkRowsOf(t) /\ job'[j].tag = t
        /\ t \in Busy => t \in raced'
    BY <1>0, <1>8 DEF RebuildIndexFromPg, Starts, Becomes, NoJob
  <2>4. ChunksWhole'
    <3>1. Whole(ChunkRowsOf(t))
      BY <1>0, <1>3 DEF ChunksWhole, Whole, AllParts, ChunkRowsOf
    <3>. QED BY <1>3, <1>6, <2>1, <2>3, <3>1 DEF ChunksWhole, Whole
  <2>5. RowsCovered' /\ TextHasRow'
    BY <1>3, <2>1 DEF RowsCovered, TextHasRow, In
  <2>6. RowHasText'
    BY <1>1, <1>3, <1>5, <1>6, <2>1 DEF RowHasText, JobEffect
  <2>7. ASSUME t \notin raced' PROVE AllParts(DOMAIN docRows \intersect In(t)) \subseteq ChunkRowsOf(t)
    <3>. SUFFICES ASSUME NEW d \in DOMAIN docRows \intersect In(t) PROVE AllParts({d}) \subseteq chunkRows
      BY DEF AllParts, ChunkRowsOf
    <3>1. ASSUME NEW c \in Calls, call[c].at = "chunk_rows", call[c].doc = d PROVE FALSE
      BY <2>3, <2>7, <3>1 DEF DocInv, CallsOK, CallOK, In, Busy
    <3>. QED BY <1>3, <3>1 DEF RowsCovered
  <2>8. SnapshotsHold'
    BY <1>1, <1>3, <1>6, <2>1, <2>3, <2>7 DEF SnapshotsHold, JobEffect, In
  <2>. QED BY <2>4, <2>5, <2>6, <2>8
<1>9. CASE BackfillInserts(j)
  <2>. DEFINE D == DocsOf(job[j].snap)
  <2>1. /\ UNCHANGED <<about, index, call, history>> /\ job[j].op = "backfill" /\ job'[j].op = "idle"
        /\ docRows' = [d \in DOMAIN docRows \union D |->
                          IF d \in DOMAIN docRows THEN docRows[d] ELSE [hash |-> None, url |-> None]]
        /\ chunkRows' = chunkRows \union job[j].snap
    BY <1>0, <1>9 DEF BackfillInserts, Becomes, NoJob
  <2>2. RowsSay'
    BY <1>2, <2>1 DEF RowsSay
  <2>. SUFFICES ASSUME ~failed PROVE (ChunksWhole /\ RowsCovered /\ TextHasRow /\ RowHasText /\ SnapshotsHold)'
    BY <2>1, <2>2 DEF RegistryInv
  <2>3. Whole(job[j].snap) /\ D \subseteq In(job[j].tag)
    BY <1>0, <1>3, <2>1 DEF ChunksWhole, JobOK, DocsOf, AllParts
  <2>4. \A d \in D : AllParts({d}) \subseteq job[j].snap
    BY <2>3 DEF Whole, DocsOf
  <2>5. ChunksWhole'
    <3>1. Whole(chunkRows \union job[j].snap)
      BY <1>3, <2>3, JoinedWhole DEF ChunksWhole
    <3>. QED BY <1>3, <1>6, <2>1, <3>1 DEF ChunksWhole, Whole
  <2>6. RowsCovered'
    BY <1>3, <2>1, <2>4 DEF RowsCovered
  <2>7. TextHasRow'
    BY <1>3, <2>1 DEF TextHasRow, In
  <2>8. RowHasText'
    <3>1. \A d \in D : about[d].tag \notin raced => AllParts({d}) \subseteq chunks
      BY <1>3, <2>1, <2>3, <2>4 DEF SnapshotsHold, In
    <3>2. \A k \in Jobs : job[k].op = "delete" => job'[k] = job[k]
      BY <1>5, <1>6
    <3>3. \A d \in DOMAIN docRows \ gone : about[d].tag \notin raced \union lost =>
             \/ AllParts({d}) \subseteq chunks
             \/ \E k \in Jobs : job'[k].op = "delete" /\ job'[k].doc = d /\ "chunks" \notin job'[k].left
      BY <1>3, <3>2 DEF RowHasText
    <3>4. DOMAIN docRows' = DOMAIN docRows \union D
      BY <2>1
    <3>. QED BY <2>1, <3>1, <3>3, <3>4 DEF RowHasText
  <2>9. SnapshotsHold'
    <3>1. ASSUME NEW k \in Jobs \ {j}, job[k].op # "idle", job[k].tag \notin raced
          PROVE  DOMAIN docRows' \intersect In(job[k].tag) = DOMAIN docRows \intersect In(job[k].tag)
      <4>1. job[k].tag # job[j].tag
        BY <2>1, <3>1 DEF StoreInv, Alone
      <4>. QED BY <2>1, <2>3, <4>1 DEF In
    <3>. QED BY <1>3, <1>6, <2>1, <3>1 DEF SnapshotsHold, In
  <2>. QED BY <2>5, <2>6, <2>7, <2>8, <2>9
<1>10. CASE BackfillFails(j)
  <2>1. /\ UNCHANGED about /\ failed' = TRUE
        /\ \A d \in DOMAIN docRows' : \/ d \in DOMAIN docRows /\ docRows'[d] = docRows[d]
                                      \/ docRows'[d] = [hash |-> None, url |-> None]
    BY <1>10 DEF BackfillFails
  <2>. QED BY <1>2, <2>1 DEF RegistryInv, RowsSay
<1>11. CASE RebuildChunks(j)
  <2>1. /\ UNCHANGED <<about, facts, edges, registry, call, lost, failed, raced>>
        /\ job[j].op = "rebuild" /\ job'[j].op = "rebuild_facts" /\ job'[j].tag = job[j].tag
        /\ chunks' = chunks \union job[j].snap
        /\ gone' = gone \ DocsOf(job[j].snap)
    BY <1>0, <1>11 DEF RebuildChunks, Becomes, Job
  <2>2. RowsSay'
    BY <1>2, <2>1 DEF RowsSay
  <2>. SUFFICES ASSUME ~failed PROVE (ChunksWhole /\ RowsCovered /\ TextHasRow /\ RowHasText /\ SnapshotsHold)'
    BY <2>1, <2>2 DEF RegistryInv
  <2>3. Whole(job[j].snap) /\ DocsOf(job[j].snap) \subseteq DOMAIN docRows \intersect In(job[j].tag)
    BY <1>0, <1>3, <2>1 DEF ChunksWhole, JobOK, DocsOf, AllParts
  <2>4. ChunksWhole'
    <3>1. Whole(chunks \union job[j].snap)
      BY <1>3, <2>3, JoinedWhole DEF ChunksWhole
    <3>. QED BY <1>3, <1>6, <2>1, <3>1 DEF ChunksWhole, Whole
  <2>5. RowsCovered'
    BY <1>3, <2>1 DEF RowsCovered
  <2>6. TextHasRow'
    <3>1. DocsOf(chunks') = DocsOf(chunks) \union DocsOf(job[j].snap)
      BY <2>1 DEF DocsOf
    <3>. QED BY <1>3, <2>1, <2>3, <3>1 DEF TextHasRow, In, SameSource
  <2>7. RowHasText'
    <3>1. \A d \in DocsOf(job[j].snap) : AllParts({d}) \subseteq chunks'
      BY <2>1, <2>3 DEF Whole, DocsOf
    <3>2. \A k \in Jobs : job[k].op = "delete" => job'[k] = job[k]
      BY <1>5, <1>6
    <3>3. \A d \in DOMAIN docRows \ gone : about[d].tag \notin raced \union lost =>
             \/ AllParts({d}) \subseteq chunks
             \/ \E k \in Jobs : job'[k].op = "delete" /\ job'[k].doc = d /\ "chunks" \notin job'[k].left
      BY <1>3, <3>2 DEF RowHasText
    <3>4. chunks \subseteq chunks'
      BY <2>1
    <3>5. \A d \in DOMAIN docRows \ gone' : d \in gone => d \in DocsOf(job[j].snap)
      BY <2>1
    <3>. QED BY <2>1, <3>1, <3>3, <3>4, <3>5 DEF RowHasText
  <2>8. SnapshotsHold'
    BY <1>3, <1>6, <2>1 DEF SnapshotsHold, In
  <2>. QED BY <2>4, <2>5, <2>6, <2>7, <2>8
<1>12. CASE RebuildFacts(j)
  <2>1. /\ UNCHANGED <<about, chunks, edges, registry, call, failed, raced>>
        /\ job[j].op = "rebuild_facts" /\ job'[j].op = "idle"
        /\ gone' = gone \ job[j].left /\ lost' = lost \ {job[j].tag}
    BY <1>0, <1>12 DEF RebuildFacts, Becomes, NoJob
  <2>2. RowsSay'
    BY <1>2, <2>1 DEF RowsSay
  <2>. SUFFICES ASSUME ~failed PROVE (ChunksWhole /\ RowsCovered /\ TextHasRow /\ RowHasText /\ SnapshotsHold)'
    BY <2>1, <2>2 DEF RegistryInv
  <2>3. ChunksWhole' /\ RowsCovered' /\ TextHasRow'
    BY <1>3, <1>6, <2>1 DEF ChunksWhole, Whole, RowsCovered, TextHasRow, In
  <2>4. RowHasText'
    <3>. SUFFICES ASSUME NEW e \in DOMAIN docRows \ gone', about[e].tag \notin raced \union lost'
                  PROVE  \/ AllParts({e}) \subseteq chunks
                         \/ \E k \in Jobs : job'[k].op = "delete" /\ job'[k].doc = e /\ "chunks" \notin job'[k].left
      BY <2>1 DEF RowHasText
    <3>1. CASE e \in In(job[j].tag)
      BY <1>3, <2>1, <3>1 DEF SnapshotsHold, AllParts, In
    <3>2. CASE e \notin In(job[j].tag)
      <4>1. e \notin gone /\ about[e].tag \notin raced \union lost
        BY <1>0, <2>1, <3>2 DEF JobOK, In, StoresOK
      <4>. QED BY <1>3, <1>5, <1>6, <2>1, <4>1 DEF RowHasText
    <3>. QED BY <3>1, <3>2
  <2>5. SnapshotsHold'
    BY <1>3, <1>6, <2>1 DEF SnapshotsHold, In
  <2>. QED BY <2>3, <2>4, <2>5
<1>13. CASE RebuildFails(j)
  BY <1>2, <1>13 DEF RebuildFails, RegistryInv, RowsSay
<1>. QED BY <1>7, <1>8, <1>9, <1>10, <1>11, <1>12, <1>13 DEF Reindex

LEMMA RegistryInvHolds == Spec => [](DocInv /\ StoreInv /\ RegistryInv)
<1>1. Init => RegistryInv
  BY RegistryInvInit
<1>2. DocInv /\ StoreInv /\ RegistryInv /\ [Next]_vars => RegistryInv'
  <2>. SUFFICES ASSUME DocInv, StoreInv, RegistryInv, [Next]_vars PROVE RegistryInv'
    OBVIOUS
  <2>1. CASE LoseIndex
    <3>1. \A k \in Jobs : job[k].op # "idle" => job[k].tag \in raced'
      BY <2>1 DEF LoseIndex, Active
    <3>2. \A d \in DOMAIN docRows : about[d].tag \in lost'
      BY <2>1 DEF LoseIndex, DocInv, StoresOK
    <3>. QED BY <2>1, <3>1, <3>2 DEF LoseIndex, registry, RegistryInv, RowsSay, ChunksWhole, Whole,
             RowsCovered, TextHasRow, RowHasText, SnapshotsHold, DocsOf
  <2>2. CASE UNCHANGED vars
    BY <2>2 DEF vars, index, registry, history, RegistryInv, RowsSay, ChunksWhole, Whole,
       RowsCovered, TextHasRow, RowHasText, SnapshotsHold, In
  <2>. QED BY <2>1, <2>2, AddKeepsRegistryInv, DeleteKeepsRegistryInv, ReindexKeepsRegistryInv DEF Next
<1>. QED BY <1>1, <1>2, StoreInvHolds, PTL DEF Spec

\* "a rebuild-index/backfill job reconciles any drift" (mod.rs:712): in a
\* namespace at rest, with no failure so far, the index and the registry hold the
\* same documents: all their chunks, on both sides.
THEOREM RegistryCovers == Spec => []RegistryCoversIndex
<1>1. DocInv /\ StoreInv /\ RegistryInv => RegistryCoversIndex
  <2>. SUFFICES ASSUME DocInv, RegistryInv, ~failed, NEW t \in Settled
                PROVE  /\ \A d \in DocsOf(chunks) \intersect In(t) :
                             \E e \in DOMAIN docRows \intersect In(t) :
                                 /\ SameSource(about[e].content, about[d].content)
                                 /\ AllParts({e}) \subseteq chunkRows
                       /\ t \notin lost =>
                             AllParts((DOMAIN docRows \intersect In(t)) \ gone) \subseteq chunks
    BY DEF RegistryCoversIndex
  <2>1. \A c \in Calls : call[c].at \in Storing => call[c].doc \notin In(t)
    BY DEF Settled, Busy, DocInv, CallsOK, CallOK, In, Storing, Phases
  <2>2. \A e \in DOMAIN docRows \intersect In(t) : AllParts({e}) \subseteq chunkRows
    BY <2>1 DEF RegistryInv, RowsCovered, Storing, Phases
  <2>3. \A j \in Jobs : job[j].op = "delete" => job[j].doc \notin In(t)
    BY DEF Settled, Active, DocInv, JobsOK, JobOK, In
  <2>4. \A d \in DocsOf(chunks) \intersect In(t) :
           \E e \in DOMAIN docRows \intersect In(t) : SameSource(about[e].content, about[d].content)
    BY <2>1 DEF RegistryInv, TextHasRow, Storing, Phases, In
  <2>5. ASSUME t \notin lost, NEW d \in (DOMAIN docRows \intersect In(t)) \ gone
        PROVE  AllParts({d}) \subseteq chunks
    BY <2>3, <2>5 DEF RegistryInv, RowHasText, Settled, In
  <2>. QED BY <2>2, <2>4, <2>5 DEF AllParts
<1>. QED BY <1>1, RegistryInvHolds, PTL

==============================================================================

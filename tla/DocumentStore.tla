---------------------------- MODULE DocumentStore ----------------------------
(***************************************************************************)
(* Documents: add_document and delete_document_tagged of engine/mod.rs,    *)
(* with the document half of backfill_to_pg and rebuild_index_from_pg.     *)
(*                                                                         *)
(* A document is stored in three Qdrant collections (chunks, facts, edges) *)
(* and three Postgres tables.  Qdrant is written first; the rows are a     *)
(* non-fatal mirror, and the registry that dedup asks.  Deleting touches   *)
(* Qdrant only.                                                            *)
(*                                                                         *)
(* Abstracted: extraction, OCR, redaction, distillation and embedding      *)
(* (before a write they only fail the call), the blob, and the facts and   *)
(* edges of a document, which are stored as a whole: MemoryLifecycle and   *)
(* FactMirror are about them one by one.                                   *)
(***************************************************************************)
EXTENDS Naturals, FiniteSets

CONSTANTS
    Docs,           \* document ids (uuid v4)
    None,
    Tags,           \* namespaces
    Contents,       \* document texts, as told apart by their hash
    UrlOf,          \* the canonical URL a text was captured from, or None
    Parts,          \* chunk indices of a document
    Calls,          \* concurrent add_document calls
    Jobs,           \* concurrent delete, backfill and rebuild requests
    TemporalGraph   \* cfg.temporal_graph: extract edges too?

ASSUME DocumentAssumption ==
    /\ None \notin Docs /\ None \notin Contents /\ None \notin Tags
    /\ DOMAIN UrlOf = Contents
    /\ Parts # {}
    /\ TemporalGraph \in BOOLEAN

VARIABLES
    about,      \* what each id in use is about: id -> [tag, content]
    chunks,     \* Qdrant chunks collection: <<doc, part>>
    facts,      \* documents with points in the facts collection
    edges,      \* documents with points in the graph collection
    docRows,    \* Postgres documents table: id -> [hash, url]
    chunkRows,  \* Postgres chunks table: <<doc, part>>
    factRows,   \* documents with rows in the memories table
    call,       \* what each add_document call is doing
    job,        \* what each maintenance request is doing
    gone,       \* history: documents deleted with Ok(true) and not rebuilt since
    lost,       \* history: namespaces whose index was lost and not rebuilt since
    failed,     \* history: has any request failed or been dropped?
    raced       \* history: namespaces where a maintenance request, or a loss, met a request

index == <<chunks, facts, edges>>
registry == <<docRows, chunkRows, factRows>>
history == <<gone, lost, failed, raced>>
vars == <<about, index, registry, call, job, history>>

NoCall == [at |-> "idle", tag |-> None, content |-> None, doc |-> None]
NoJob == [op |-> "idle", tag |-> None, doc |-> None, left |-> {}, snap |-> {}]

AllParts(D) == D \X Parts
DocsOf(C) == {p[1] : p \in C}           \* the documents some chunks belong to

In(t) == {d \in DOMAIN about : about[d].tag = t}

\* Collections a delete clears, before the graph.
Collections == {"chunks", "facts"}

\* The namespaces add_document calls, and maintenance requests, are at work in.
Busy == {call[c].tag : c \in {k \in Calls : call[k].at # "idle"}}
Active == {job[j].tag : j \in {k \in Jobs : job[k].op # "idle"}}

Sets(c, r) == call' = [call EXCEPT ![c] = r]
Becomes(j, r) == job' = [job EXCEPT ![j] = r]

\* The call returns Ok(d), or an error when d is None.
Returns(c, d) == Sets(c, [NoCall EXCEPT !.doc = d])

-----------------------------------------------------------------------------
(* The registry's operations.                                              *)

\* find_document_id: rows of the namespace with this hash or this URL.
Found(t, x) ==
    {d \in DOMAIN docRows \intersect In(t) :
        \/ docRows[d].hash = x
        \/ UrlOf[x] # None /\ docRows[d].url = UrlOf[x]}

\* insert ... on conflict (id) do nothing; a null hash or URL conflicts with
\* nothing.
DocInserted(d, row) ==
    [k \in DOMAIN docRows \union {d} |-> IF k \in DOMAIN docRows THEN docRows[k] ELSE row]

\* documents_tag_hash and documents_tag_url, the unique indexes.
Conflicts(d) == Found(about[d].tag, about[d].content) \ {d} # {}

-----------------------------------------------------------------------------
Init == /\ about = [d \in {} |-> None]
        /\ chunks = {} /\ facts = {} /\ edges = {}
        /\ docRows = [d \in {} |-> None]
        /\ chunkRows = {} /\ factRows = {}
        /\ call = [c \in Calls |-> NoCall]
        /\ job = [j \in Jobs |-> NoJob]
        /\ gone = {} /\ lost = {} /\ raced = {}
        /\ failed = FALSE

-----------------------------------------------------------------------------
(* add_document.                                                           *)

\* Up to the dedup lookup; the id is minted first but used only after it.
AddDocument(c, t, x) ==
    /\ call[c].at = "idle"
    /\ Sets(c, [NoCall EXCEPT !.at = "lookup", !.tag = t, !.content = x])
    /\ raced' = raced \union ({t} \intersect Active)
    /\ UNCHANGED <<about, index, registry, job, gone, lost, failed>>

\* The lookup finds the document: nothing is stored.
Deduplicate(c) ==
    /\ call[c].at = "lookup"
    /\ \E d \in Found(call[c].tag, call[c].content) : Returns(c, d)
    /\ UNCHANGED <<about, index, registry, job, history>>

\* It finds none, or fails, which counts as none.
ChunkAndEmbed(c, d) ==
    /\ call[c].at = "lookup" /\ d \notin DOMAIN about
    /\ \/ Found(call[c].tag, call[c].content) = {} /\ UNCHANGED failed
       \/ failed' = TRUE
    /\ about' = [k \in DOMAIN about \union {d} |->
                    IF k = d THEN [tag |-> call[c].tag, content |-> call[c].content]
                             ELSE about[k]]
    /\ Sets(c, [call[c] EXCEPT !.at = "chunks", !.doc = d])
    /\ UNCHANGED <<index, registry, job, gone, lost, raced>>

UpsertChunks(c) ==
    /\ call[c].at = "chunks"
    /\ chunks' = chunks \union AllParts({call[c].doc})
    /\ Sets(c, [call[c] EXCEPT !.at = "doc_row"])
    /\ UNCHANGED <<about, facts, edges, registry, job, history>>

\* Mutant: a failed upsert of the chunks is only logged.
UpsertChunksFailsQuietly(c) ==
    /\ call[c].at = "chunks"
    /\ \E C \in SUBSET AllParts({call[c].doc}) : chunks' = chunks \union C
    /\ Sets(c, [call[c] EXCEPT !.at = "doc_row"])
    /\ failed' = TRUE
    /\ UNCHANGED <<about, facts, edges, registry, job, gone, lost, raced>>

\* The whole call fails, whatever part of the upsert took effect.
UpsertChunksFails(c) ==
    /\ call[c].at = "chunks"
    /\ \E C \in SUBSET AllParts({call[c].doc}) : chunks' = chunks \union C
    /\ Returns(c, None)
    /\ failed' = TRUE
    /\ UNCHANGED <<about, facts, edges, registry, job, gone, lost, raced>>

\* The unique indexes turn away a second row for one source: the error is
\* logged, and the chunk rows are skipped.
InsertDocument(c) ==
    LET d == call[c].doc
        x == about[d].content
    IN  /\ call[c].at = "doc_row"
        /\ IF Conflicts(d)
           THEN Sets(c, [call[c] EXCEPT !.at = "facts"]) /\ UNCHANGED docRows
           ELSE /\ docRows' = DocInserted(d, [hash |-> x, url |-> UrlOf[x]])
                /\ Sets(c, [call[c] EXCEPT !.at = "chunk_rows"])
        /\ UNCHANGED <<about, index, chunkRows, factRows, job, history>>

UpsertChunkRows(c) ==
    /\ call[c].at = "chunk_rows"
    /\ chunkRows' = chunkRows \union AllParts({call[c].doc})
    /\ Sets(c, [call[c] EXCEPT !.at = "facts"])
    /\ UNCHANGED <<about, index, docRows, factRows, job, history>>

\* A failed statement ends the mirror of the document; the call goes on.
MirrorFails(c) ==
    /\ \/ call[c].at = "doc_row" /\ UNCHANGED registry
       \/ /\ call[c].at = "chunk_rows"
          /\ \E C \in SUBSET AllParts({call[c].doc}) : chunkRows' = chunkRows \union C
          /\ UNCHANGED <<docRows, factRows>>
    /\ Sets(c, [call[c] EXCEPT !.at = "facts"])
    /\ failed' = TRUE
    /\ UNCHANGED <<about, index, job, gone, lost, raced>>

\* On to the graph, if there is one; the call returns Ok otherwise.
Goes(c) == IF TemporalGraph THEN Sets(c, [call[c] EXCEPT !.at = "edges"])
                            ELSE Returns(c, call[c].doc)

\* A document without facts, or too short to distill, stores none.
NoFacts(c) ==
    /\ call[c].at = "facts"
    /\ Goes(c)
    /\ UNCHANGED <<about, index, registry, job, history>>

\* Distillation and the index writes of index_memories.
IndexFacts(c) ==
    /\ call[c].at = "facts"
    /\ facts' = facts \union {call[c].doc}
    /\ Sets(c, [call[c] EXCEPT !.at = "fact_rows"])
    /\ UNCHANGED <<about, chunks, edges, registry, job, history>>

\* Mutant: memory rows without a document row.
InsertFactRowsUnkeyed(c) ==
    /\ call[c].at = "fact_rows"
    /\ factRows' = factRows \union {call[c].doc}
    /\ Goes(c)
    /\ UNCHANGED <<about, index, docRows, chunkRows, job, history>>

\* Their mirror; a memory row needs its document row, and the error of a
\* missing one is logged like any other.
InsertFactRows(c) ==
    /\ call[c].at = "fact_rows"
    /\ factRows' = factRows \union ({call[c].doc} \intersect DOMAIN docRows)
    /\ Goes(c)
    /\ UNCHANGED <<about, index, docRows, chunkRows, job, history>>

\* Failures of either are logged.
IndexFactsFails(c) ==
    /\ \/ call[c].at = "facts" /\ facts' \in {facts, facts \union {call[c].doc}}
       \/ call[c].at = "fact_rows" /\ UNCHANGED facts
    /\ Goes(c)
    /\ failed' = TRUE
    /\ UNCHANGED <<about, chunks, edges, registry, job, gone, lost, raced>>

\* Extraction and index_edges, both non-fatal; the graph has no mirror.
IndexEdges(c) ==
    /\ call[c].at = "edges"
    /\ edges' \in {edges, edges \union {call[c].doc}}
    /\ Returns(c, call[c].doc)
    /\ UNCHANGED <<about, chunks, facts, registry, job, history>>

\* Extraction or embedding fails before a write, or the future is dropped.
Abort(c) ==
    /\ call[c].at # "idle"
    /\ Returns(c, None)
    /\ failed' = TRUE
    /\ UNCHANGED <<about, index, registry, job, gone, lost, raced>>

-----------------------------------------------------------------------------
(* delete_document_tagged.                                                 *)

\* A job starts, and notes what it overlaps.
Starts(j, r) == /\ job[j].op = "idle"
                /\ Becomes(j, r)
                /\ raced' = raced \union ({r.tag} \intersect (Busy \union Active))

\* The existence check: chunks or facts in the namespace.  Without any the
\* request returns Ok(false), unchanged.
DeleteDocument(j, d, t) ==
    /\ d \in In(t)
    /\ d \in DocsOf(chunks) \union facts
    /\ Starts(j, [NoJob EXCEPT !.op = "delete", !.tag = t, !.doc = d, !.left = Collections])
    /\ UNCHANGED <<about, index, registry, call, gone, lost, failed>>

Cleared(which, d) ==
    /\ chunks' = IF "chunks" \in which THEN chunks \ AllParts({d}) ELSE chunks
    /\ facts' = IF "facts" \in which THEN facts \ {d} ELSE facts

\* One of the two joined deletes answers.
DeletePoints(j, what) ==
    /\ job[j].op = "delete" /\ what \in job[j].left
    /\ Cleared({what}, job[j].doc)
    /\ Becomes(j, [job[j] EXCEPT !.left = @ \ {what}])
    /\ UNCHANGED <<about, edges, registry, call, history>>

\* Either delete fails: the request ends when both have answered.
DeletePointsFails(j) ==
    /\ job[j].op = "delete" /\ job[j].left # {}
    /\ \E which \in SUBSET job[j].left : Cleared(which, job[j].doc)
    /\ Becomes(j, NoJob)
    /\ failed' = TRUE
    /\ UNCHANGED <<about, edges, registry, call, gone, lost, raced>>

\* Mutant: the edges are left in the graph.
DeleteEdgesNot(j) ==
    /\ job[j].op = "delete" /\ job[j].left = {}
    /\ gone' = gone \union {job[j].doc}
    /\ Becomes(j, NoJob)
    /\ UNCHANGED <<about, index, registry, call, lost, failed, raced>>

\* The cascade, when the graph is on; then the request returns Ok(true).
DeleteEdges(j) ==
    /\ job[j].op = "delete" /\ job[j].left = {}
    /\ edges' = IF TemporalGraph THEN edges \ {job[j].doc} ELSE edges
    /\ gone' = gone \union {job[j].doc}
    /\ Becomes(j, NoJob)
    /\ UNCHANGED <<about, chunks, facts, registry, call, lost, failed, raced>>

DeleteEdgesFails(j) ==
    /\ TemporalGraph
    /\ job[j].op = "delete" /\ job[j].left = {}
    /\ edges' \in {edges, edges \ {job[j].doc}}
    /\ Becomes(j, NoJob)
    /\ failed' = TRUE
    /\ UNCHANGED <<about, chunks, facts, registry, call, gone, lost, raced>>

-----------------------------------------------------------------------------
(* backfill_to_pg: what was scrolled goes into the three tables, in order. *)

\* Page by page: an error reply passes for the end of the collection, so what
\* is collected may be any part of it.
scroll_all(points) == SUBSET points

BackfillToPg(j, t) ==
    LET inTag == {p \in chunks : p[1] \in In(t)}
    IN  \E S \in scroll_all(inTag), F \in scroll_all(facts \intersect In(t)) :
            /\ Starts(j, [NoJob EXCEPT !.op = "backfill", !.tag = t, !.left = F, !.snap = S])
            /\ failed' = (failed \/ S # inTag \/ F # facts \intersect In(t))
            /\ UNCHANGED <<about, index, registry, call, gone, lost>>

\* All three inserts: rows that exist stay as they are, a new document row has
\* neither hash nor URL.  A memory whose document has no row is rejected.
BackfillInserts(j) ==
    LET D == DocsOf(job[j].snap)
    IN  /\ job[j].op = "backfill"
        /\ docRows' = [d \in DOMAIN docRows \union D |->
                          IF d \in DOMAIN docRows THEN docRows[d]
                                                  ELSE [hash |-> None, url |-> None]]
        /\ chunkRows' = chunkRows \union job[j].snap
        /\ \E F \in SUBSET (job[j].left \intersect DOMAIN docRows') :
              /\ job[j].left \subseteq DOMAIN docRows' => F = job[j].left
              /\ factRows' = factRows \union F
        /\ Becomes(j, NoJob)
        /\ UNCHANGED <<about, index, call, history>>

\* A statement fails, and none after it is sent: some of the rows of one table,
\* all those of the tables before it.
BackfillFails(j) ==
    LET D == DocsOf(job[j].snap)
    IN  /\ job[j].op = "backfill"
        /\ \E N \in SUBSET D, C \in SUBSET job[j].snap, F \in SUBSET job[j].left :
              /\ C # {} => N = D
              /\ F # {} => N = D /\ C = job[j].snap
              /\ docRows' = [d \in DOMAIN docRows \union N |->
                                IF d \in DOMAIN docRows THEN docRows[d]
                                                        ELSE [hash |-> None, url |-> None]]
              /\ chunkRows' = chunkRows \union C
              /\ F \subseteq DOMAIN docRows'
              /\ factRows' = factRows \union F
        /\ Becomes(j, NoJob)
        /\ failed' = TRUE
        /\ UNCHANGED <<about, index, call, gone, lost, raced>>

-----------------------------------------------------------------------------
(* rebuild_index_from_pg.                                                  *)

\* Mutant: only documents that dedup knows are rebuilt.
HashedOnly(t) == {p \in chunkRows : /\ p[1] \in DOMAIN docRows \intersect In(t)
                                    /\ docRows[p[1]].hash # None}

\* The chunk rows of the documents of a namespace.
ChunkRowsOf(t) == {p \in chunkRows : p[1] \in DOMAIN docRows \intersect In(t)}

RebuildIndexFromPg(j, t) ==
    /\ Starts(j, [NoJob EXCEPT !.op = "rebuild", !.tag = t, !.snap = ChunkRowsOf(t)])
    /\ UNCHANGED <<about, index, registry, call, gone, lost, failed>>

\* The chunks are upserted, then the memories are read.
RebuildChunks(j) ==
    /\ job[j].op = "rebuild"
    /\ chunks' = chunks \union job[j].snap
    /\ gone' = gone \ DocsOf(job[j].snap)
    /\ Becomes(j, [job[j] EXCEPT !.op = "rebuild_facts",
                                 !.left = factRows \intersect In(job[j].tag)])
    /\ UNCHANGED <<about, facts, edges, registry, call, lost, failed, raced>>

RebuildFacts(j) ==
    /\ job[j].op = "rebuild_facts"
    /\ facts' = facts \union job[j].left
    /\ gone' = gone \ job[j].left
    /\ lost' = lost \ {job[j].tag}
    /\ Becomes(j, NoJob)
    /\ UNCHANGED <<about, chunks, edges, registry, call, failed, raced>>

RebuildFails(j) ==
    /\ \/ /\ job[j].op = "rebuild"
          /\ \E C \in SUBSET job[j].snap :
                /\ chunks' = chunks \union C
                /\ gone' = gone \ DocsOf(C)
          /\ UNCHANGED facts
       \/ /\ job[j].op = "rebuild_facts"
          /\ \E F \in SUBSET job[j].left :
                /\ facts' = facts \union F
                /\ gone' = gone \ F
          /\ UNCHANGED chunks
    /\ Becomes(j, NoJob)
    /\ failed' = TRUE
    /\ UNCHANGED <<about, edges, registry, call, lost, raced>>

\* Qdrant comes back empty.
LoseIndex == /\ chunks # {}
             /\ chunks' = {} /\ facts' = {} /\ edges' = {}
             /\ lost' = Tags
             /\ raced' = raced \union Busy \union Active
             /\ UNCHANGED <<about, registry, call, job, gone, failed>>

-----------------------------------------------------------------------------
Add(c) ==
    \/ \E t \in Tags, x \in Contents : AddDocument(c, t, x)
    \/ Deduplicate(c)
    \/ \E d \in Docs : ChunkAndEmbed(c, d)
    \/ UpsertChunks(c) \/ UpsertChunksFails(c)
    \/ InsertDocument(c) \/ UpsertChunkRows(c) \/ MirrorFails(c)
    \/ NoFacts(c) \/ IndexFacts(c) \/ InsertFactRows(c) \/ IndexFactsFails(c)
    \/ IndexEdges(c)
    \/ Abort(c)

Delete(j) ==
    \/ \E d \in Docs, t \in Tags : DeleteDocument(j, d, t)
    \/ \E what \in Collections : DeletePoints(j, what)
    \/ DeletePointsFails(j)
    \/ DeleteEdges(j) \/ DeleteEdgesFails(j)

Reindex(j) ==
    \/ \E t \in Tags : BackfillToPg(j, t) \/ RebuildIndexFromPg(j, t)
    \/ BackfillInserts(j) \/ BackfillFails(j)
    \/ RebuildChunks(j) \/ RebuildFacts(j) \/ RebuildFails(j)

Next == \/ \E c \in Calls : Add(c)
        \/ \E j \in Jobs : Delete(j) \/ Reindex(j)
        \/ LoseIndex

Spec == Init /\ [][Next]_vars

-----------------------------------------------------------------------------
(***************************************************************************)
(* Properties.                                                             *)
(***************************************************************************)

\* Every variable has its type, and the foreign keys of the schema hold.
DocTypeOK ==
    /\ DOMAIN about \subseteq Docs
    /\ about \in [DOMAIN about -> [tag : Tags, content : Contents]]
    /\ chunks \subseteq AllParts(DOMAIN about)
    /\ facts \subseteq DOMAIN about /\ edges \subseteq DOMAIN about
    /\ DOMAIN docRows \subseteq DOMAIN about
    /\ chunkRows \subseteq AllParts(DOMAIN docRows)
    /\ factRows \subseteq DOMAIN docRows
    /\ \A c \in Calls : call[c].at \notin {"idle", "lookup"} => call[c].doc \in DOMAIN about
    /\ gone \subseteq DOMAIN about /\ lost \subseteq Tags

\* c's step returns Ok(d), with nothing else under way that removes points.
Acknowledges(c, d) ==
    /\ call[c].at # "idle" /\ call'[c].at = "idle" /\ call'[c].doc = d
    /\ call[c].tag \notin raced' \union lost'

\* "Returning Ok(doc_id) means chunks are embedded, upserted, and searchable"
\* (mod.rs:502), for a document that was stored by this very call.
OkMeansSearchable ==
    [][\A c \in Calls, d \in Docs :
          Acknowledges(c, d) /\ call[c].at # "lookup" => AllParts({d}) \subseteq chunks']_vars

\* Namespaces at rest, where no maintenance request has met another request.
Settled == Tags \ (raced \union Busy \union Active)

SameSource(x, y) == x = y \/ (UrlOf[x] # None /\ UrlOf[x] = UrlOf[y])

\* "a rebuild-index/backfill job reconciles any drift" (mod.rs:712): with no
\* failure and no overlap with a maintenance request, whatever text can be
\* found is in the registry with all its chunks (under this id or, when two
\* ingests of one source raced, under the id of the other), and what is in the
\* registry and was not deleted can be found.
RegistryCoversIndex ==
    ~failed =>
        \A t \in Settled :
            /\ \A d \in DocsOf(chunks) \intersect In(t) :
                  \E e \in DOMAIN docRows \intersect In(t) :
                      /\ SameSource(about[e].content, about[d].content)
                      /\ AllParts({e}) \subseteq chunkRows
            /\ t \notin lost =>
                  AllParts((DOMAIN docRows \intersect In(t)) \ gone) \subseteq chunks

\* The cascade of a delete (mod.rs:2527): after Ok(true) nothing of the
\* document is left in any collection, until a rebuild stores it again.
DeleteIsTotal ==
    \A d \in gone :
        about[d].tag \notin raced => d \notin DocsOf(chunks) \union facts \union edges

\* "Returning Ok(doc_id) means chunks are embedded, upserted, and searchable"
\* (mod.rs:502), for every Ok(doc_id), while nothing has failed.
OkIsNeverEmpty ==
    [][\A c \in Calls, d \in Docs :
          Acknowledges(c, d) /\ ~failed => AllParts({d}) \subseteq chunks']_vars

\* "knowledge-graph edges derived from this document must go too"
\* (mod.rs:2527): while a document has edges, a delete still finds it.
EdgesFallWithDocument ==
    \A t \in Settled : edges \intersect In(t) \subseteq DocsOf(chunks) \union facts
==============================================================================

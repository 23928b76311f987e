---------------------------- MODULE TenantService ----------------------------
(***************************************************************************)
(* The server's handlers (main.rs) over the stores they share, for several *)
(* credentials at once: ingest, delete, forget, the five modes of reindex, *)
(* promotion of a memory into a shared scope, grants, aliases, the audit   *)
(* trail, and the reads a namespace has of itself.  A request acts in the  *)
(* namespace its credential resolves to; each await of its handler is a    *)
(* step of its own.                                                        *)
(*                                                                         *)
(* Abstracted: a document that is added is one chunk and one memory, both  *)
(* named by the request, and a re-distillation is of one document and      *)
(* writes one memory, named by the request as well; the dedup of           *)
(* documents, evidence, and failures inside one write of ingest, delete    *)
(* and forget are in MemoryLifecycle, DocumentStore and FactMirror.  A     *)
(* request that is turned away changes nothing.                            *)
(***************************************************************************)
EXTENDS SearchFilter

CONSTANTS
    Request,     \* requests; each is used once and names what it creates
    Bearer,      \* keys requests may carry
    Name,        \* tags and scopes a request may name
    Chunks0, Facts0, Rows0, DocRows0, ChunkRows0,   \* what the stores hold at the start
    MaxTime

VARIABLES
    acl,       \* grants: [principal, scope, capability] to who gave it
    chunks,    \* Qdrant: chunk id to payload
    facts,     \* Qdrant: memory id to payload
    rows,      \* Postgres: memory id to row
    docRows,   \* Postgres: document id to row
    chunkRows, \* Postgres: chunk id to document id
    aliases,   \* Postgres: <<tag, alias>> to canonical name
    audits,    \* Postgres: audit events
    req,       \* what each request is doing
    now        \* seconds

\* A point's payload, and the namespace it is of.
Payload(p) == p = [f \in DOMAIN p |-> p[f]] /\ "doc_id" \in DOMAIN p
NamespaceOf(p) == IF "container_tag" \in DOMAIN p THEN p.container_tag ELSE DEFAULT_TAG
Get(p, field, otherwise) == IF field \in DOMAIN p THEN p[field] ELSE otherwise

RowOf(tag, statement, doc, at) ==
    [container_tag |-> tag, statement |-> statement, document_id |-> doc, learned_at |-> at,
     is_latest |-> TRUE, needs_review |-> FALSE, superseded_at |-> Absent, extends |-> Absent,
     valid_until |-> Absent]
DocRowOf(tag, p, at) ==
    [container_tag |-> tag, source |-> Get(p, "source", Absent), reference |-> Get(p, "reference", Absent),
     captured_at |-> Get(p, "captured_at", at)]

\* Ids are fresh, times are numbers, and a point and a row of one id were
\* written for the same document.
ASSUME StoresAssumption ==
    /\ Request \cap (DOMAIN Chunks0 \cup DOMAIN Facts0 \cup DOMAIN Rows0 \cup DOMAIN ChunkRows0 \cup DOMAIN DocRows0) = {}
    /\ \A c \in DOMAIN Chunks0 : Payload(Chunks0[c]) /\ Chunks0[c].doc_id \notin Request
    /\ \A m \in DOMAIN Facts0 : /\ Payload(Facts0[m]) /\ Facts0[m].doc_id \notin Request
                                /\ "extends" \in DOMAIN Facts0[m] => Facts0[m].extends # Absent
    /\ \A m \in DOMAIN Rows0 : /\ DOMAIN Rows0[m] = DOMAIN RowOf(Absent, Absent, Absent, 0)
                               /\ Rows0[m].document_id \notin Request
    /\ \A c \in DOMAIN ChunkRows0 : /\ ChunkRows0[c] \notin Request
                                    /\ c \in DOMAIN Chunks0 => Chunks0[c].doc_id = ChunkRows0[c]
    /\ IsFiniteSet(DOMAIN Chunks0) /\ IsFiniteSet(DOMAIN ChunkRows0)
    /\ Absent \notin Int \cup Request \cup DOMAIN Facts0 \cup DOMAIN Rows0

registry == <<docRows, chunkRows>>
storeVars == <<acl, chunks, facts, rows, aliases, audits, registry>>
serviceVars == <<storeVars, req, now>>

\* The rows that a backfill is to insert, or that a rebuild has read, and the
\* documents whose chunks it has still to read.
NoBatch == [docs |-> <<>>, chunks |-> <<>>, facts |-> <<>>, left |-> {}]

NoRequest == [pc |-> "unused", policy |-> AnyTag, tag |-> Absent, act |-> Absent, what |-> Absent,
              onto |-> Absent, at |-> Absent, held |-> {}, row |-> Absent, batch |-> NoBatch]

ServiceInit ==
    /\ acl = <<>> /\ aliases = <<>> /\ audits = {}
    /\ chunks = Chunks0 /\ facts = Facts0 /\ rows = Rows0
    /\ docRows = DocRows0 /\ chunkRows = ChunkRows0
    /\ req = [r \in Request |-> NoRequest] /\ now = 0

-----------------------------------------------------------------------------
RowsOf(tag) == {m \in DOMAIN rows : rows[m].container_tag = tag}
PointsOf(points, tag) == {i \in DOMAIN points : Matches(tagged_filter(NoFilter, tag), points[i])}
Without(f, gone) == [k \in DOMAIN f \ gone |-> f[k]]
Single(k, v) == [j \in {k} |-> v]
With(f, k, v) == [j \in DOMAIN f \cup {k} |-> IF j = k THEN v ELSE f[j]]
Optional(field, value) == IF value = Absent THEN <<>> ELSE [f \in {field} |-> value]
Merged(p, q) == [f \in DOMAIN p \cup DOMAIN q |-> IF f \in DOMAIN q THEN q[f] ELSE p[f]]

\* An insert leaves the rows that are there as they are; an upsert replaces points.
Inserted(table, new) == Merged(new, table)
Upserted(points, new) == Merged(points, new)

Free(r) == req[r].pc = "unused"
At(r, pc) == req[r].pc = pc
Goes(r, pc) == req' = [req EXCEPT ![r].pc = pc]
Ends(r) == req' = [req EXCEPT ![r] = [NoRequest EXCEPT !.pc = "done", !.act = req[r].act]]

\* auth, then resolve_tag: a request runs in a context and acts in a namespace.
Contexts == UNION {context(b) : b \in Bearer}
Reachable(policy) == UNION {resolve(policy, n) : n \in Name}
Accepted(pc, act) ==
    UNION {{[NoRequest EXCEPT !.pc = pc, !.act = act, !.policy = p, !.tag = t] : t \in Reachable(p)} :
             p \in Contexts}
Becomes(r, new) == req' = [req EXCEPT ![r] = new]

insert_audit(event) == audits' = audits \cup {event}

\* Appended after the fact, and lost without a trace if that fails.  A
\* promotion is filed under the scope it writes to, as that scope's own act.
audit(r) ==
    /\ At(r, "audit")
    /\ LET q == req[r]
           event == IF q.act = "promote"
                    THEN [container_tag |-> q.onto, action |-> q.act, target_id |-> r]
                    ELSE [container_tag |-> q.tag, action |-> q.act, target_id |-> q.what]
       IN  insert_audit(event) \/ UNCHANGED audits
    /\ Ends(r)
    /\ UNCHANGED <<acl, chunks, facts, rows, aliases, registry>>

-----------------------------------------------------------------------------
(* Ingest.                                                                 *)

add_memory(r) ==
    /\ Free(r)
    /\ \E new \in Accepted("mirror", "ingest") :
         /\ Becomes(r, [new EXCEPT !.what = r])
         /\ chunks' = With(chunks, r, [doc_id |-> r, container_tag |-> new.tag,
                                        source |-> "api", captured_at |-> 0])
    /\ UNCHANGED <<acl, facts, rows, aliases, audits, registry>>

\* The rows of the document and of its chunk; an error is only logged.
mirror(r) ==
    /\ At(r, "mirror")
    /\ \/ /\ docRows' = Inserted(docRows, Single(req[r].what, DocRowOf(req[r].tag, [source |-> "api"], 0)))
          /\ chunkRows' = Inserted(chunkRows, Single(r, req[r].what)) \/ UNCHANGED chunkRows
       \/ UNCHANGED registry
    /\ Goes(r, "reconcile")
    /\ UNCHANGED <<acl, chunks, facts, rows, aliases, audits>>

\* The memory is classified against the current ones of its namespace; the
\* time that will date it is read then.
reconcile(r) ==
    /\ At(r, "reconcile")
    /\ LET near == {m \in DOMAIN facts :
                      Matches(active_facts_filter(tagged_filter(NoFilter, req[r].tag), now), facts[m])}
       IN  \E old \in near \cup {Absent} :
             req' = [req EXCEPT ![r].onto = old, ![r].at = now, ![r].pc = "store"]
    /\ UNCHANGED storeVars

\* An ingest ends with its audit event, a re-distillation was audited before.
Finishes(r) == IF req[r].act = "reindex" THEN Ends(r) ELSE Goes(r, "audit")

\* An error of index_memories is only logged: the document stays.
index_memories(r) ==
    /\ At(r, "store")
    /\ \/ /\ LET old == req[r].onto
                 kept == IF old \in DOMAIN facts THEN With(facts, old, With(facts[old], "is_latest", FALSE))
                         ELSE facts
             IN  facts' = With(kept, r, [doc_id |-> req[r].what, fact |-> r, is_latest |-> TRUE, needs_review |-> FALSE,
                                         captured_at |-> 0, container_tag |-> req[r].tag])
          /\ Goes(r, "insert")
       \/ Finishes(r) /\ UNCHANGED facts
    /\ UNCHANGED <<acl, chunks, rows, aliases, audits, registry>>

\* Mutant: the memory is dated like its document.
insert_memory_dated(r) ==
    /\ At(r, "insert")
    /\ req[r].what \in DOMAIN docRows /\ rows' = Inserted(rows, Single(r, RowOf(req[r].tag, r, req[r].what, 0)))
    /\ IF req[r].onto = Absent THEN Finishes(r) ELSE Goes(r, "mark")
    /\ UNCHANGED <<acl, chunks, facts, aliases, audits, registry>>

\* A row refers to the row of its document.
insert_memory(r) ==
    /\ At(r, "insert")
    /\ \/ /\ req[r].what \in DOMAIN docRows
          /\ rows' = Inserted(rows, Single(r, RowOf(req[r].tag, r, req[r].what, req[r].at)))
       \/ UNCHANGED rows
    /\ IF req[r].onto = Absent THEN Finishes(r) ELSE Goes(r, "mark")
    /\ UNCHANGED <<acl, chunks, facts, aliases, audits, registry>>

\* An earlier mark is overwritten; a missing row is not an error.
mark_superseded(r) ==
    /\ At(r, "mark")
    /\ LET old == req[r].onto
       IN  \/ /\ old \in DOMAIN rows
              /\ rows' = [rows EXCEPT ![old].is_latest = FALSE, ![old].superseded_at = req[r].at]
           \/ UNCHANGED rows
    /\ Finishes(r)
    /\ UNCHANGED <<acl, chunks, facts, aliases, audits, registry>>

-----------------------------------------------------------------------------
(* Erasure.                                                                *)

\* Of the points that match a document, only those of the namespace.
OfDoc(points, doc, tag) == {i \in DOMAIN points : Matches(doc_delete_filter(doc, tag), points[i])}

delete_memory(r) ==
    /\ Free(r)
    /\ \E new \in Accepted("audit", "delete"), doc \in {chunks[c].doc_id : c \in DOMAIN chunks} :
         /\ OfDoc(chunks, doc, new.tag) \cup OfDoc(facts, doc, new.tag) # {}
         /\ Becomes(r, [new EXCEPT !.what = doc])
         /\ chunks' = Without(chunks, OfDoc(chunks, doc, new.tag))
         /\ facts' = Without(facts, OfDoc(facts, doc, new.tag))
    /\ UNCHANGED <<acl, rows, aliases, audits, registry>>

\* The gate, then the vector, then the row.
forget_fact(r) ==
    /\ Free(r)
    /\ \E new \in Accepted("erase", "forget"), m \in DOMAIN rows :
         rows[m].container_tag = new.tag /\ Becomes(r, [new EXCEPT !.what = m])
    /\ UNCHANGED storeVars

erase_vector(r) ==
    /\ At(r, "erase")
    /\ \/ facts' = Without(facts, {req[r].what}) /\ Goes(r, "erase_row")
       \/ Ends(r) /\ UNCHANGED facts
    /\ UNCHANGED <<acl, chunks, rows, aliases, audits, registry>>

delete_row(r) ==
    /\ At(r, "erase_row")
    /\ \/ /\ rows' = Without(rows, {m \in {req[r].what} \cap DOMAIN rows :
                                       rows[m].container_tag = req[r].tag})
          /\ Goes(r, "audit")
       \/ Ends(r) /\ UNCHANGED rows
    /\ UNCHANGED <<acl, chunks, facts, aliases, audits, registry>>

-----------------------------------------------------------------------------
(* Reindex.                                                                *)

\* One request, five modes: facts, tags, latest, backfill or rebuild.
reindex(r) ==
    /\ Free(r)
    /\ \E mode \in {"redistill", "claim", "latest", "backfill", "rebuild"} : \E new \in Accepted(mode, "reindex") :
         /\ Becomes(r, [new EXCEPT !.at = now])
         /\ insert_audit([container_tag |-> new.tag, action |-> "reindex", target_id |-> Absent]) \/ UNCHANGED audits
    /\ UNCHANGED <<acl, chunks, facts, rows, aliases, registry>>

\* Every point without the field gets it, whosever it is.
set_payload_by_filter(points, field, value) ==
    [i \in DOMAIN points |-> Merged(Optional(field, value), points[i])]

claim_chunks(r) ==
    /\ At(r, "claim")
    /\ \/ /\ chunks' = set_payload_by_filter(chunks, "container_tag", req[r].tag)
          /\ Goes(r, "claim_facts")
       \/ UNCHANGED chunks /\ Ends(r)
    /\ UNCHANGED <<acl, facts, rows, aliases, audits, registry>>

claim_facts(r) ==
    /\ At(r, "claim_facts")
    /\ \/ /\ facts' = set_payload_by_filter(facts, "container_tag", req[r].tag)
          /\ Goes(r, "latest")
       \/ UNCHANGED facts /\ Ends(r)
    /\ UNCHANGED <<acl, chunks, rows, aliases, audits, registry>>

backfill_facts_latest(r) ==
    /\ At(r, "latest")
    /\ facts' = set_payload_by_filter(facts, "is_latest", TRUE) \/ UNCHANGED facts
    /\ Ends(r)
    /\ UNCHANGED <<acl, chunks, rows, aliases, audits, registry>>

DocsOf(tag) == {d \in DOMAIN docRows : docRows[d].container_tag = tag}

\* A document that is registered and has a text loses its facts, and not only
\* those of the namespace; what is distilled then goes through the lifecycle.
redistill_doc(r) ==
    /\ At(r, "redistill")
    /\ \/ \E d \in DocsOf(req[r].tag) \cap {chunks[c].doc_id : c \in DOMAIN chunks} :
            /\ facts' = Without(facts, {m \in DOMAIN facts : facts[m].doc_id = d})
            /\ req' = [req EXCEPT ![r].what = d, ![r].pc = "reconcile"] \/ Ends(r)
       \/ UNCHANGED facts /\ Ends(r)
    /\ UNCHANGED <<acl, chunks, rows, aliases, audits, registry>>

\* A backfill scrolls what the namespace has in Qdrant; a page that fails ends
\* the scroll quietly.
Reads(r, table, new, next) == req' = [req EXCEPT ![r].batch[table] = new, ![r].pc = next]

scroll_chunks(r) ==
    /\ At(r, "backfill")
    /\ \/ \E some \in SUBSET PointsOf(chunks, req[r].tag) :
            LET first(d) == chunks[CHOOSE c \in some : chunks[c].doc_id = d]
                docs == [d \in {chunks[c].doc_id : c \in some} |-> DocRowOf(req[r].tag, first(d), req[r].at)]
            IN  req' = [req EXCEPT ![r].batch.docs = docs, ![r].batch.chunks = [c \in some |-> chunks[c].doc_id],
                                   ![r].pc = "scroll_facts"]
       \/ Ends(r)
    /\ UNCHANGED storeVars

\* The row of a memory dates it by its document, and does not know when it was
\* superseded.
BackfilledRow(tag, p, at) ==
    [RowOf(tag, p.fact, p.doc_id, Get(p, "captured_at", at)) EXCEPT
        !.is_latest = Get(p, "is_latest", TRUE), !.needs_review = Get(p, "needs_review", FALSE),
        !.extends = Get(p, "extends", Absent), !.valid_until = Get(p, "valid_until", Absent)]

scroll_facts(r) ==
    /\ At(r, "scroll_facts")
    /\ \/ \E some \in SUBSET PointsOf(facts, req[r].tag) :
            Reads(r, "facts", [m \in some |-> BackfilledRow(req[r].tag, facts[m], req[r].at)], "insert_documents")
       \/ Ends(r)
    /\ UNCHANGED storeVars

\* Rows go in one by one: of a call that fails, some are in.
Part(table, some) == Restrict(table, some \cap DOMAIN table)

insert_documents(r) ==
    /\ At(r, "insert_documents")
    /\ \E some \in SUBSET DOMAIN req[r].batch.docs :
         /\ docRows' = Inserted(docRows, Part(req[r].batch.docs, some))
         /\ (some = DOMAIN req[r].batch.docs /\ Goes(r, "insert_chunks")) \/ Ends(r)
    /\ UNCHANGED <<acl, chunks, facts, rows, aliases, audits, chunkRows>>

insert_chunks(r) ==
    /\ At(r, "insert_chunks")
    /\ \E some \in SUBSET DOMAIN req[r].batch.chunks :
         /\ chunkRows' = Inserted(chunkRows, Part(req[r].batch.chunks, some))
         /\ (some = DOMAIN req[r].batch.chunks /\ Goes(r, "insert_memories")) \/ Ends(r)
    /\ UNCHANGED <<acl, chunks, facts, rows, aliases, audits, docRows>>

insert_memories(r) ==
    /\ At(r, "insert_memories")
    /\ LET new == req[r].batch.facts
       IN  \E some \in SUBSET {m \in DOMAIN new : new[m].document_id \in DOMAIN docRows} :
              rows' = Inserted(rows, Part(new, some))
    /\ Ends(r)
    /\ UNCHANGED <<acl, chunks, facts, aliases, audits, registry>>

\* A rebuild reads the rows of the namespace and puts points back under their
\* ids, whosever a point has become; an upsert that fails may have taken effect.
list_documents(r) ==
    /\ At(r, "rebuild")
    /\ \/ req' = [req EXCEPT ![r].batch.docs = Part(docRows, DocsOf(req[r].tag)),
                             ![r].batch.left = DocsOf(req[r].tag), ![r].pc = "read_chunks"]
       \/ Ends(r)
    /\ UNCHANGED storeVars

chunks_for_document(r) ==
    /\ At(r, "read_chunks")
    /\ \/ \E d \in req[r].batch.left :
            req' = [req EXCEPT ![r].batch.left = @ \ {d},
                               ![r].batch.chunks = Merged(@, Part(chunkRows, {c \in DOMAIN chunkRows : chunkRows[c] = d}))]
       \/ req[r].batch.left # {} /\ Ends(r)
    /\ UNCHANGED storeVars

ChunkPoint(tag, d, row) ==
    Merged([doc_id |-> d, source |-> row.source, captured_at |-> row.captured_at, container_tag |-> tag],
           Optional("reference", row.reference))
FactPoint(row) ==
    Merged([doc_id |-> row.document_id, fact |-> row.statement, is_latest |-> row.is_latest,
            needs_review |-> row.needs_review, captured_at |-> row.learned_at,
            container_tag |-> row.container_tag],
           Merged(Optional("extends", row.extends), Optional("valid_until", row.valid_until)))

rebuild_chunks(r) ==
    /\ At(r, "read_chunks") /\ req[r].batch.left = {}
    /\ LET read == req[r].batch
           points == [c \in DOMAIN read.chunks |->
                        ChunkPoint(req[r].tag, read.chunks[c], read.docs[read.chunks[c]])]
       IN  \E some \in SUBSET DOMAIN points :
              /\ chunks' = Upserted(chunks, Part(points, some))
              /\ (some = DOMAIN points /\ Goes(r, "read_memories")) \/ Ends(r)
    /\ UNCHANGED <<acl, facts, rows, aliases, audits, registry>>

read_memories(r) ==
    /\ At(r, "read_memories")
    /\ Reads(r, "facts", Part(rows, RowsOf(req[r].tag)), "rebuild_facts") \/ Ends(r)
    /\ UNCHANGED storeVars

rebuild_facts(r) ==
    /\ At(r, "rebuild_facts")
    /\ LET points == [m \in DOMAIN req[r].batch.facts |-> FactPoint(req[r].batch.facts[m])]
       IN  \E some \in SUBSET DOMAIN points : facts' = Upserted(facts, Part(points, some))
    /\ Ends(r)
    /\ UNCHANGED <<acl, chunks, rows, aliases, audits, registry>>

-----------------------------------------------------------------------------
(* Grants and promotion.                                                   *)

Entry(p, s, c) == [principal |-> p, scope |-> s, capability |-> c]

\* A grant that exists is left as it is.
grant_acl(e, by) == IF e \in DOMAIN acl THEN acl ELSE With(acl, e, by)
revoke_acl(e) == Without(acl, {e})

acl_grant(r) ==
    /\ Free(r)
    /\ \E policy \in Contexts, p, s \in Name \ {Absent}, c \in CAPABILITIES :
         /\ can_admin_scope(policy, s)
         /\ Becomes(r, [NoRequest EXCEPT !.pc = "audit", !.act = "acl_grant", !.policy = policy,
                                         !.tag = s, !.what = p])
         /\ acl' = grant_acl(Entry(p, s, c), policy)
    /\ UNCHANGED <<chunks, facts, rows, aliases, audits, registry>>

acl_revoke(r) ==
    /\ Free(r)
    /\ \E policy \in Contexts, e \in DOMAIN acl :
         /\ can_admin_scope(policy, e.scope)
         /\ Becomes(r, [NoRequest EXCEPT !.pc = "audit", !.act = "acl_revoke", !.policy = policy,
                                         !.tag = e.scope, !.what = e.principal])
         /\ acl' = revoke_acl(e)
    /\ UNCHANGED <<chunks, facts, rows, aliases, audits, registry>>

\* With each grant goes, for the properties, who gave it.
acls_for_principal(p) ==
    {[principal |-> p, scope |-> e.scope, capability |-> e.capability, by |-> acl[e]] :
        e \in {g \in DOMAIN acl : g.principal = p}}

\* The authority is checked once, before the memory is read.
promote_memory(r) ==
    /\ Free(r)
    /\ \E new \in Accepted("read", "promote"), m \in DOMAIN rows, to \in Name \ {Absent} :
         /\ can_promote(new.tag, to, acls_for_principal(new.tag))
         /\ Becomes(r, [new EXCEPT !.what = m, !.onto = to, !.held = acls_for_principal(new.tag)])
    /\ UNCHANGED storeVars

\* From the caller's own namespace only; whatever its state.
get_memory(r) ==
    /\ At(r, "read")
    /\ LET m == req[r].what
       IN  IF m \in DOMAIN rows /\ rows[m].container_tag = req[r].tag
           THEN req' = [req EXCEPT ![r].row = rows[m], ![r].at = now, ![r].pc = "copy"]
           ELSE Ends(r)
    /\ UNCHANGED storeVars

\* The copy is a current, reviewed memory of the other scope.  An upsert that
\* fails may have taken effect.
upsert_copy(r) ==
    /\ At(r, "copy")
    /\ LET src == req[r].row
           point == Merged([doc_id |-> src.document_id, fact |-> src.statement, is_latest |-> TRUE,
                            needs_review |-> FALSE, extends |-> req[r].what,
                            container_tag |-> req[r].onto, promoted_from_scope |-> req[r].tag],
                           Optional("valid_until", src.valid_until))
       IN  \/ facts' = With(facts, r, point) /\ \E pc \in {"insert_copy", "done"} : Goes(r, pc)
           \/ UNCHANGED facts /\ Ends(r)
    /\ UNCHANGED <<acl, chunks, rows, aliases, audits, registry>>

\* A row that cannot be inserted leaves the copy without one.
insert_copy(r) ==
    /\ At(r, "insert_copy")
    /\ LET src == req[r].row
           row == [RowOf(req[r].onto, src.statement, src.document_id, req[r].at)
                     EXCEPT !.extends = req[r].what, !.valid_until = src.valid_until]
       IN  \/ src.document_id \in DOMAIN docRows /\ rows' = Inserted(rows, Single(r, row))
           \/ UNCHANGED rows
    /\ Goes(r, "audit")
    /\ UNCHANGED <<acl, chunks, facts, aliases, audits, registry>>

-----------------------------------------------------------------------------
(* Aliases, and what a namespace reads of itself.                          *)

\* The surface form is stored normalized; a registered one is replaced.
add_alias(tag, alias, canonical) == With(aliases, <<tag, alias>>, canonical)

alias_add(r) ==
    /\ Free(r)
    /\ \E new \in Accepted("audit", "alias_add"), canonical \in {"one", "other"} :
         /\ Becomes(r, [new EXCEPT !.what = canonical])
         /\ aliases' = add_alias(new.tag, "alias", canonical)
    /\ UNCHANGED <<acl, chunks, facts, rows, audits, registry>>

\* Known at t: learned by then, not superseded, expired or quarantined then.
memories_as_of(memories, t) ==
    {m \in DOMAIN memories :
        LET row == memories[m]
        IN  /\ ~row.needs_review /\ row.learned_at <= t
            /\ row.superseded_at = Absent \/ row.superseded_at > t
            /\ row.valid_until = Absent \/ row.valid_until > t}

Tick == now < MaxTime /\ now' = now + 1 /\ UNCHANGED <<storeVars, req>>

ServiceStep(r) ==
    \/ add_memory(r)    \/ mirror(r)
    \/ reconcile(r)     \/ index_memories(r) \/ insert_memory(r) \/ mark_superseded(r)
    \/ delete_memory(r) \/ forget_fact(r) \/ erase_vector(r)  \/ delete_row(r)    \/ reindex(r)
    \/ redistill_doc(r) \/ claim_chunks(r) \/ claim_facts(r) \/ backfill_facts_latest(r)
    \/ scroll_chunks(r) \/ scroll_facts(r)
    \/ insert_documents(r) \/ insert_chunks(r) \/ insert_memories(r)
    \/ list_documents(r) \/ chunks_for_document(r) \/ rebuild_chunks(r)
    \/ read_memories(r) \/ rebuild_facts(r)
    \/ acl_grant(r)     \/ acl_revoke(r) \/ promote_memory(r) \/ get_memory(r)
    \/ upsert_copy(r)   \/ insert_copy(r) \/ alias_add(r)     \/ audit(r)

-----------------------------------------------------------------------------
(* Properties.                                                             *)

ActsAs(policy, tag) == policy.any \/ tag \in policy.tags

\* Everything the stores hold of one namespace.
Slice(t) ==
    [grants  |-> {e \in DOMAIN acl : e.scope = t},
     chunks  |-> {Hit(chunks, c) : c \in {i \in DOMAIN chunks : NamespaceOf(chunks[i]) = t}},
     facts   |-> {Hit(facts, m) : m \in {i \in DOMAIN facts : NamespaceOf(facts[i]) = t}},
     rows    |-> {Hit(rows, m) : m \in RowsOf(t)},
     docRows |-> {<<d, docRows[d]>> : d \in DocsOf(t)},
     chunkRows |-> {<<c, chunkRows[c]>> : c \in {k \in DOMAIN chunkRows : chunkRows[k] \in DocsOf(t)}},
     aliases |-> {<<k, aliases[k]>> : k \in {j \in DOMAIN aliases : j[1] = t}},
     audits  |-> {a \in audits : a.container_tag = t}]
=============================================================================

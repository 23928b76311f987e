------------------------------ MODULE Retrieval ------------------------------
(***************************************************************************)
(* Search across the scopes a namespace can see (engine/mod.rs             *)
(* retrieve_tagged and retrieve_for_plan_tagged), beside the requests that *)
(* change grants and stores (TenantService): the plan, the grants, the     *)
(* query vectors, two chunk searches and a fact search joined, the retry   *)
(* without the plan's constraints, grouping, reranking and provenance.     *)
(*                                                                         *)
(* Abstracted: vectors, scores and text.  A search returns any of the      *)
(* matching points in any order, hybrid or dense; the reranker keeps any   *)
(* of the candidates in any order.                                         *)
(***************************************************************************)
EXTENDS TenantService

CONSTANTS
    Plan,           \* plans: source, after, before, listy, and whether the
                    \* query was rewritten
    MultiQuery,     \* cfg.multi_query
    HIT_LIMIT,      \* hits of one chunk search, for a listy plan or not
    DOC_LIMIT,      \* documents of an answer, for a listy plan or not
    RERANK_LIMIT    \* documents handed to the reranker, unless an answer is longer

\* The server asks for 1 to 50 documents (main.rs:464), a listy plan for 20 or
\* more; 30 or more are ranked.
ASSUME LimitsAssumption ==
    /\ DOC_LIMIT \in [BOOLEAN -> Nat \ {0}] /\ RERANK_LIMIT \in Nat
    /\ \A plan \in Plan : plan.listy \in BOOLEAN

VARIABLE found    \* what each search has found so far

vars == <<serviceVars, found>>

\* The planner's answer, or the plain question if it fails.
Plain == [source |-> Absent, after |-> Absent, before |-> Absent, listy |-> FALSE, rewritten |-> FALSE]

NoSearch == [plan |-> Plain, scopes |-> {}, pending |-> {}, ok |-> TRUE, first |-> <<>>, second |-> <<>>,
             facts |-> {}, retried |-> FALSE, hits |-> <<>>, candidates |-> <<>>,
             documents |-> <<>>, provenance |-> {}]

RetrievalInit == found = [r \in Request |-> NoSearch]

Fails(r) == Ends(r) /\ found' = [found EXCEPT ![r] = NoSearch]
Finds(r, field, value) == found' = [found EXCEPT ![r][field] = value]
Constrained(r) == build_filter(found[r].plan) # NoFilter

HitLimit(r) == HIT_LIMIT[found[r].plan.listy]
DocLimit(r) == DOC_LIMIT[found[r].plan.listy]
GroupLimit(r) == IF DocLimit(r) > RERANK_LIMIT THEN DocLimit(r) ELSE RERANK_LIMIT

-----------------------------------------------------------------------------
search(r) ==
    /\ Free(r)
    /\ \E new \in Accepted("scopes", "search") : Becomes(r, new)
    /\ \E plan \in Plan \cup {Plain} : Finds(r, "plan", plan)
    /\ UNCHANGED storeVars

\* Its own scope and those it is granted; its own alone if the grants cannot be
\* read.
visible_scopes_for(r) ==
    /\ At(r, "scopes")
    /\ \E held \in {acls_for_principal(req[r].tag), {}} :
         /\ req' = [req EXCEPT ![r].held = held, ![r].pc = "embed"]
         /\ Finds(r, "scopes", visible_scopes(req[r].tag, held))
    /\ UNCHANGED storeVars

\* The question is searched as well when the plan's query differs from it.  A
\* failing embedder ends the request.
embed_query(r) ==
    /\ At(r, "embed")
    /\ \/ /\ req' = [req EXCEPT ![r].at = now, ![r].pc = "search"]
          /\ Finds(r, "pending", {"first", "facts"} \cup
                      (IF MultiQuery /\ found[r].plan.rewritten THEN {"second"} ELSE {}))
       \/ Fails(r)
    /\ UNCHANGED storeVars

Filter(r) == scope_filter(build_filter(found[r].plan), found[r].scopes)

\* The joined searches; one that fails ends none of the others.
Answers(r, query, field, value) ==
    /\ query \in found[r].pending
    /\ found' = [found EXCEPT ![r].pending = @ \ {query}, ![r][field] = value]
    /\ UNCHANGED <<storeVars, req>>

search_chunks(r, query) ==
    /\ At(r, "search")
    /\ \/ \E pool \in Pools(chunks, Filter(r), HitLimit(r)) : Answers(r, query, query, pool)
       \/ Answers(r, query, "ok", found[r].ok /\ query # "first")

search_facts(r) ==
    /\ At(r, "search")
    /\ LET f == active_facts_filter(Filter(r), req[r].at)
           hits == {Hit(facts, m) : m \in {i \in DOMAIN facts : Matches(f, facts[i])}}
       IN  \E some \in SUBSET hits : Answers(r, "facts", "facts", some)     \* {} if it fails

\* Only the first chunk search is needed for an answer.
union(r) ==
    /\ At(r, "search") /\ found[r].pending = {}
    /\ LET hits == Union(found[r].first, found[r].second)
       IN  IF ~found[r].ok THEN Fails(r)
           ELSE /\ Goes(r, IF hits = <<>> /\ Constrained(r) THEN "retry" ELSE "group")
                /\ Finds(r, "hits", hits)
    /\ UNCHANGED storeVars

\* Mutant: the retry drops the namespaces with the plan.
retry_anywhere(r) ==
    /\ At(r, "retry")
    /\ \E pool \in Pools(chunks, NoFilter, HitLimit(r)) :
         found' = [found EXCEPT ![r].hits = pool, ![r].retried = TRUE]
    /\ Goes(r, "group")
    /\ UNCHANGED storeVars

\* Source and time are dropped, the scopes stay.
retry(r) ==
    /\ At(r, "retry")
    /\ \/ \E pool \in Pools(chunks, scope_filter(NoFilter, found[r].scopes), HitLimit(r)) :
            /\ found' = [found EXCEPT ![r].hits = pool, ![r].retried = TRUE]
            /\ Goes(r, "group")
       \/ Fails(r)
    /\ UNCHANGED storeVars

group(r) ==
    /\ At(r, "group")
    /\ Finds(r, "candidates", group_chunk_hits(found[r].hits, GroupLimit(r)))
    /\ Goes(r, "rerank")
    /\ UNCHANGED storeVars

\* A reranker that fails, or finds nothing relevant, leaves the order as it is.
rerank(r) ==
    /\ At(r, "rerank")
    /\ LET results == found[r].candidates
           Cut(s) == SubSeq(s, 1, IF Len(s) < DocLimit(r) THEN Len(s) ELSE DocLimit(r))
           Ranked == IF Len(results) <= 1 THEN {}
                     ELSE (UNION {SetToSeqs(S) : S \in SUBSET ToSet(results)}) \ {<<>>}
       IN  \E ranked \in Ranked \cup {results} : Finds(r, "documents", Cut(ranked))
    /\ Goes(r, "provenance")
    /\ UNCHANGED storeVars

\* The current rows of the caller's own namespace that state the same.
memories_by_statement(tag, said) == {m \in RowsOf(tag) : rows[m].is_latest /\ rows[m].statement \in said}

memory_provenance(r) ==
    /\ At(r, "provenance")
    /\ LET said == {h.payload.fact : h \in found[r].facts}
           known == memories_by_statement(req[r].tag, said)
       IN  \E some \in {known, {}} : Finds(r, "provenance", {Hit(rows, m) : m \in some})
    /\ Goes(r, "answered")
    /\ UNCHANGED storeVars

SearchStep(r) ==
    \/ search(r)   \/ visible_scopes_for(r) \/ embed_query(r)
    \/ search_facts(r) \/ \E query \in {"first", "second"} : search_chunks(r, query)
    \/ union(r)    \/ retry(r) \/ group(r) \/ rerank(r) \/ memory_provenance(r)

Init == ServiceInit /\ RetrievalInit
Step(r) ==
    \/ ServiceStep(r) /\ UNCHANGED <<now, found>>
    \/ SearchStep(r) /\ UNCHANGED now
Next == (\E r \in Request : Step(r)) \/ (Tick /\ UNCHANGED found)
Spec == Init /\ [][Next]_vars

-----------------------------------------------------------------------------
(* Properties.                                                             *)

Namespaces == ({Trim(n) : n \in Name} \cup {DEFAULT_TAG}) \ {Absent}

\* An entitlement to write to t: the request acts as t, or promotes into it by a
\* grant that someone who acts as t has given to its namespace.
Entitled(q, t) ==
    /\ ActsAs(q.policy, q.tag)
    /\ \/ q.tag = t
       \/ /\ q.act = "promote" /\ q.onto = t
          /\ \E e \in q.held : /\ e.principal = q.tag /\ e.scope = t /\ ActsAs(e.by, t)
                               /\ e.capability \in {"promote", "admin"}

\* "the search can never surface another tenant's data" (mod.rs:1848): whatever
\* a search gathers, in whichever of its queries and however the grants change
\* meanwhile, is of the caller's own scope or of one that was granted to it,
\* when it looked, by someone who acts as that scope; and a timeline, profile,
\* export or as-of read holds nothing of another namespace.
AnswersStayInVisibleScopes ==
    /\ \A r \in Request : \A h \in ToSet(found[r].hits) \cup found[r].facts :
         LET s == NamespaceOf(h.payload)
         IN  /\ ActsAs(req[r].policy, req[r].tag)
             /\ s = req[r].tag \/ \E e \in req[r].held : e.scope = s /\ ActsAs(e.by, s)
    /\ \A t \in Namespaces :
         {NamespaceOf(chunks[c]) : c \in PointsOf(chunks, t)}
           \cup {NamespaceOf(facts[m]) : m \in PointsOf(facts, t)} \subseteq {t}

\* What the stores hold at the start that predates namespaces, or that an earlier
\* claim has parted: points that name no namespace; facts whose row is of another;
\* and documents of such points, or that two namespaces hold a part of.
Unclaimed(points) == {i \in DOMAIN points : "container_tag" \notin DOMAIN points[i]}
LegacyFacts ==
    Unclaimed(Facts0)
    \cup {m \in DOMAIN Facts0 \cap DOMAIN Rows0 : Rows0[m].container_tag # NamespaceOf(Facts0[m])}

\* <<document, namespace>> of each point and row that is not a promoted copy.
Originals(points) == {i \in DOMAIN points : "extends" \notin DOMAIN points[i]}
Mentions ==
    {<<Chunks0[c].doc_id, NamespaceOf(Chunks0[c])>> : c \in DOMAIN Chunks0}
    \cup {<<Facts0[m].doc_id, NamespaceOf(Facts0[m])>> : m \in Originals(Facts0)}
    \cup {<<d, DocRows0[d].container_tag>> : d \in DOMAIN DocRows0}
    \cup {<<Rows0[m].document_id, Rows0[m].container_tag>> : m \in {i \in DOMAIN Rows0 : Rows0[i].extends = Absent}}
LegacyDocs ==
    {Chunks0[c].doc_id : c \in Unclaimed(Chunks0)} \cup {Facts0[m].doc_id : m \in Unclaimed(Facts0)}
    \cup {p[1] : p \in {q \in Mentions : \E other \in Mentions : other[1] = q[1] /\ other[2] # q[2]}}

\* A claim gives facts that predate namespaces a namespace, but not their rows,
\* and not to the requests that have looked at them: a forget, an ingest or a
\* re-distillation still erases or supersedes such a fact, its vector and its
\* row, by its id.
ReachOfClaimed(q, t) ==
    LET old == IF q.act = "forget" THEN q.what ELSE q.onto
        Others(s) == [s EXCEPT !.facts = {h \in @ : h.id # old}, !.rows = {h \in @ : h.id # old}]
    IN  q.act \in {"ingest", "reindex", "forget"} /\ old \in LegacyFacts /\ Others(Slice(t)') = Others(Slice(t))

\* A reindex, of whichever namespace, changes of another one no more than this:
\* a claim takes the points that name no namespace; of a document that predates
\* namespaces, a rebuild takes back the chunks and facts that claims have given
\* away, a re-distillation takes the facts, and a backfill files the claimed
\* chunks under the namespace that has the document's row; a re-distillation
\* takes the copies promoted from its document; and the backfill of the lifecycle
\* completes the facts that predate it.
ReachOfReindex(t) ==
    LET was == Slice(t)
        is == Slice(t)'
        Others(s) == [s EXCEPT !.chunks = {}, !.facts = {}, !.chunkRows = {}]
        Completed(h) == [h EXCEPT !.payload = Merged(Optional("is_latest", TRUE), @)]
        Loose(h) == "extends" \in DOMAIN h.payload \/ h.payload.doc_id \in LegacyDocs \/ h.id \in LegacyFacts
    IN  /\ Others(was) = Others(is)
        /\ is.chunks \subseteq was.chunks
        /\ \A h \in was.chunks \ is.chunks : h.payload.doc_id \in LegacyDocs
        /\ was.chunkRows \subseteq is.chunkRows
        /\ \A k \in is.chunkRows \ was.chunkRows : k[2] \in LegacyDocs
        /\ is.facts \subseteq was.facts \cup {Completed(h) : h \in was.facts}
        /\ \A h \in was.facts : h \in is.facts \/ Completed(h) \in is.facts \/ Loose(h)

\* A step of a request that may write to t: one entitled to it, but for the
\* reach of a reindex, and of facts that were claimed.
MayWrite(t) ==
    \E r \in Request : req'[r] # req[r] /\
       LET q == IF Free(r) THEN req'[r] ELSE req[r]
       IN  \/ Entitled(q, t)
           \/ q.act = "reindex" /\ ReachOfReindex(t)
           \/ ReachOfClaimed(q, t)

\* "a wrong-tenant id is a no-op" (mod.rs:1605), "a delete can never reach
\* across tenants" (mod.rs:2625) and least privilege (scope.rs:59): what the
\* stores hold of a namespace changes only by a request that may write to it.
WritesStayInNamespace == [][\A t \in Namespaces : Slice(t)' # Slice(t) => MayWrite(t)]_storeVars

\* A backfill dates a memory that has no row by its document, and so adds it to
\* the past.
Backfilled(m) ==
    /\ m \notin DOMAIN rows
    /\ \E r \in Request : At(r, "insert_memories") /\ m \in DOMAIN req[r].batch.facts /\ req'[r] # req[r]

\* What was known at t changes no more, but for a memory that is forgotten, one
\* whose mark a second superseding request overwrites, and one a backfill finds
\* in the index without a row.
Settled(t) ==
    LET before == memories_as_of(rows, t)
        after == memories_as_of(rows', t)
    IN  /\ before \ after \subseteq DOMAIN rows \ DOMAIN rows'
        /\ \A m \in after \ before :
              (m \in DOMAIN rows /\ rows[m].superseded_at # Absent) \/ Backfilled(m)

\* Where a request holds the clock reading that dates what it writes.
Dating == {"store", "insert", "mark", "copy", "insert_copy"}

\* "what we knew as of t" (mod.rs:1639): once no request is to write by a clock
\* reading of t or before, the past of t is settled.
HistoryIsSettled ==
    [][\A t \in 0 .. now - 1 :
         (\A r \in Request : req[r].pc \in Dating => req[r].at > t) => Settled(t)]_rows

\* No hit is lost on the way to the reranker (mod.rs:1897): a hit of either
\* query is in the candidate of its document, or its document gave way to one
\* of the same reference found ahead of it, or the candidates are full of
\* documents found ahead of it.  And a wrong guess of the plan "shouldn't blank
\* the answer" (mod.rs:1973): it has documents whenever there was a hit.
HitsReachReranker ==
    \A r \in Request : req[r].pc \in {"rerank", "provenance", "answered"} =>
        LET hits == found[r].hits
            cs == found[r].candidates
            Ahead(c, i) == \E j \in 1 .. i - 1 : hits[j] = cs[c].chunks[1]
            Mine(c, h) == h \in ToSet(cs[c].chunks)
        IN  /\ \A i \in DOMAIN hits :
                 \/ \E c \in DOMAIN cs : Mine(c, hits[i])
                 \/ \E c \in DOMAIN cs : /\ cs[c].reference # Absent /\ Ahead(c, i)
                                         /\ "reference" \in DOMAIN hits[i].payload
                                         /\ cs[c].reference = hits[i].payload.reference
                                         /\ cs[c].doc # hits[i].payload.doc_id
                 \/ Len(cs) = GroupLimit(r) /\ \A c \in DOMAIN cs : Ahead(c, i) /\ cs[c].doc # hits[i].payload.doc_id
            /\ \A c, d \in DOMAIN cs :
                 (cs[c].doc = cs[d].doc \/ (cs[c].reference = cs[d].reference /\ cs[c].reference # Absent)) => c = d
            /\ req[r].pc # "rerank" => (found[r].documents = <<>> <=> hits = <<>>)
            /\ hits = <<>> => found[r].retried \/ ~Constrained(r)
=============================================================================

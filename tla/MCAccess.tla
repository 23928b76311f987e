------------------------------ MODULE MCAccess ------------------------------
(***************************************************************************)
(* A bounded instance of Retrieval: the namespace of ann, a shared scope   *)
(* team and the default namespace, each with its credential, and three     *)
(* requests.  The stores start with a document and a memory in each of the *)
(* two, a memory of ann under review that expires, and a chunk and a fact  *)
(* that predate namespaces.                                                *)
(***************************************************************************)
EXTENDS Retrieval

CONSTANTS ann, team, dflt, none, padded, blank, ka, ks, kd, kx, api, r1, r2, r3,
          ca1, ca2, cs1, cl1, ma, mb, ms, ml

MCTrim(n) == CASE n = padded -> team [] n = blank -> none [] OTHER -> n

MCTenants == << [key |-> kx, tags |-> <<>>], [key |-> ka, tags |-> <<team>>],
                [key |-> ka, tags |-> <<ann, none>>], [key |-> ks, tags |-> <<team, ann>>],
                [key |-> kd, tags |-> <<dflt>>] >>

Chunk(doc, tag, source, ref) ==
    [doc_id |-> doc, source |-> source, captured_at |-> 0]
      @@ Optional("container_tag", tag) @@ Optional("reference", ref)
MCChunks == (ca1 :> Chunk(ca1, ann, "api", "url")) @@ (ca2 :> Chunk(ca1, ann, "api", "url"))
         @@ (cs1 :> Chunk(cs1, team, "browser", "url")) @@ (cl1 :> Chunk(cl1, none, "api", none))

Fact(doc, tag, review, until) ==
    [doc_id |-> doc, fact |-> doc, is_latest |-> TRUE, needs_review |-> review,
     captured_at |-> 0, container_tag |-> tag] @@ Optional("valid_until", until)
MCFacts == (ma :> Fact(ca1, ann, FALSE, none)) @@ (mb :> Fact(ca1, ann, TRUE, 1)) @@ (ms :> Fact(cs1, team, FALSE, none))
        @@ (ml :> [doc_id |-> cl1, fact |-> cl1])

Row(tag, doc, review, until) ==
    [RowOf(tag, doc, doc, 0) EXCEPT !.needs_review = review, !.valid_until = until]
MCRows == (ma :> Row(ann, ca1, FALSE, none)) @@ (mb :> Row(ann, ca1, TRUE, 1)) @@ (ms :> Row(team, cs1, FALSE, none))
       @@ (ml :> Row(dflt, cl1, FALSE, none))

MCDocRows == (ca1 :> DocRowOf(ann, MCChunks[ca1], 0)) @@ (cs1 :> DocRowOf(team, MCChunks[cs1], 0))
          @@ (cl1 :> DocRowOf(dflt, MCChunks[cl1], 0))
MCChunkRows == (ca1 :> ca1) @@ (ca2 :> ca1) @@ (cs1 :> cs1)

Guess == [Plain EXCEPT !.source = "browser"]
MCPlan == { Guess, [Plain EXCEPT !.rewritten = TRUE],
            [Plain EXCEPT !.listy = TRUE, !.rewritten = TRUE, !.after = 1],
            [Plain EXCEPT !.before = 0, !.source = "meeting"] }

MCHits == (FALSE :> 2) @@ (TRUE :> 4)
MCDocs == (FALSE :> 1) @@ (TRUE :> 3)

\* Requests start in order, and only in this company.
Stories ==
    {<<"acl_grant", "promote", z>> : z \in {"acl_revoke", "forget", "reindex", "search"}}
    \cup {<<"acl_grant", "search", z>> : z \in {"acl_revoke", "delete"}}
    \cup {<<"ingest", "ingest">>, <<"ingest", "forget">>, <<"ingest", "reindex">>, <<"forget", "reindex">>,
          <<"reindex", "delete">>, <<"reindex", "ingest">>, <<"reindex", "search">>,
          <<"reindex", "reindex", "reindex">>, <<"alias_add", "alias_add", "delete">>, <<"search">>}

InTurn == <<r1, r2, r3>>
Beginnings == UNION {{SubSeq(st, 1, n) : n \in 0 .. Len(st)} : st \in Stories}
Told == LET started == Cardinality({r \in Request : ~Free(r)})
        IN  [i \in 1 .. started |-> req[InTurn[i]].act]
Turn(r) == \/ ~Free(r)
           \/ /\ \E i \in 1 .. 3 : InTurn[i] = r /\ \A j \in 1 .. i - 1 : ~Free(InTurn[j])
              /\ \E st \in Beginnings : Len(st) = Len(Told) + 1 /\ SubSeq(st, 1, Len(Told)) = Told

\* Grants on team, to ann or to a name that is no namespace.
UsefulGrants == \A e \in DOMAIN acl : e.principal \in {ann, padded} /\ e.scope # ann

\* Alone a request runs under any key and a search returns any hits in any
\* order; in company ann and team act as themselves, the default namespace only
\* beside a reindex, few plans differ, a search returns all hits or several in
\* one order, and no audit event is lost.
Sorted == <<ca1, ca2, cs1, cl1, r1, r2, r3>>
Position(h) == CHOOSE i \in DOMAIN Sorted : Sorted[i] = h.id
Narrow(r) ==
    /\ \/ <<req[r].policy.tags, req[r].tag>> \in {<<{}, none>>, <<{ann}, ann>>, <<{team, ann}, team>>}
       \/ /\ req[r].act \in {"ingest", "forget", "reindex"} /\ req[r].policy.tags = {dflt}
          /\ req[r2].act \in {none, "reindex", "ingest"} /\ (Free(r3) \/ req[r3].act = "reindex")
    /\ req[r].act = "ingest" => req[r].tag # team
    /\ found[r].plan \in {Plain, Guess}
    /\ \A f \in {"first", "hits"} :
         LET hits == found[r][f]
         IN  /\ \A i \in 2 .. Len(hits) : Position(hits[i-1]) < Position(hits[i])
             /\ Len(hits) # 1
    /\ Cardinality(found[r].facts) # 1

\* A backfill or rebuild comes first, beside an ingest of the same namespace or
\* a reindex of another mode; a third reindex is a rebuild that runs last.  In company
\* what they read is all there is and what they write all or nothing, and they do
\* not stop part of the way: a request that waits leaves the others the same stores.
Long(r) == req[r].pc \in {"backfill", "scroll_facts", "insert_documents", "insert_chunks", "insert_memories",
                          "rebuild", "read_chunks", "read_memories", "rebuild_facts"}
Beside ==
    /\ (\E r \in Request : Long(r)) =>
         Told \in {<<"reindex">>, <<"reindex", "reindex">>, <<"reindex", "ingest">>, <<"reindex", "reindex", "reindex">>}
    /\ Long(r1) => ~Long(r2)
    /\ Long(r1) /\ req[r2].act = "ingest" /\ ~At(r2, "done") => req[r2].tag = req[r1].tag
    /\ Told = <<"reindex", "reindex", "reindex">> =>
         req[r3].pc \in {"rebuild", "read_chunks", "read_memories", "rebuild_facts", "done"}
           /\ At(r1, "done") /\ At(r2, "done")

Entire(r) ==
    LET q == req[r]
    IN  /\ At(r, "backfill") /\ At(r, "scroll_facts")' => DOMAIN req[r].batch.chunks' = PointsOf(chunks, q.tag)
        /\ At(r, "scroll_facts") /\ At(r, "insert_documents")' => DOMAIN req[r].batch.facts' = PointsOf(facts, q.tag)
        /\ Long(r) /\ At(r, "done")' => \/ q.pc = "insert_memories" /\ DOMAIN q.batch.facts \subseteq DOMAIN rows'
                                      \/ /\ q.pc = "rebuild_facts"
                                         /\ \A m \in DOMAIN q.batch.facts : m \in DOMAIN facts' /\ facts'[m] = FactPoint(q.batch.facts[m])

InCompany == ~Free(r2) \/ req[r1].act # "search"
Audited == \A r \in Request : /\ At(r, "audit") /\ At(r, "done")' => audits' # audits
                              /\ Free(r) /\ req[r].act' = "reindex" /\ ~Free(r2)' =>
                                   \E a \in audits' : a.action = "reindex" /\ a.container_tag = req[r].tag'

MCNext ==
    /\ (\E r \in Request : Turn(r) /\ Step(r)) \/ (Tick /\ UNCHANGED found)
    /\ (Told \in Beginnings)' /\ UsefulGrants'
    /\ (InCompany => \A r \in Request : Narrow(r))' /\ Beside'
    /\ ~Free(r2) => \A r \in Request : Entire(r)
    /\ req[r1].act = "alias_add" \/ Audited
    /\ {req[r].act' : r \in Request} \cap {"acl_grant", "reindex"} # {} => now' <= 1
MCSpec == Init /\ [][MCNext]_vars
=============================================================================

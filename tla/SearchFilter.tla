---------------------------- MODULE SearchFilter ----------------------------
(***************************************************************************)
(* The filters every search, scroll and delete of a namespace carries      *)
(* (engine/mod.rs), and what Qdrant makes of them.  A point's payload is a *)
(* record; a field that is null or missing is not in its domain.           *)
(***************************************************************************)
EXTENDS TenantPolicy

NoFilter == [must |-> {}, should |-> {}, must_not |-> {}]

Is(key, value) == [key |-> key, op |-> "match", value |-> value]
IsEmpty(key) == [key |-> key, op |-> "is_empty", value |-> Absent]
Compare(key, op, value) == [key |-> key, op |-> op, value |-> value]

Holds(c, p) ==
    IF c.op = "is_empty" THEN c.key \notin DOMAIN p
    ELSE /\ c.key \in DOMAIN p
         /\ CASE c.op = "match" -> p[c.key] = c.value
              [] c.op = "gte"   -> p[c.key] >= c.value
              [] c.op = "lte"   -> p[c.key] <= c.value
              [] c.op = "lt"    -> p[c.key] < c.value

\* Every must, some should if there are any, and no must_not.
Matches(f, p) ==
    /\ \A c \in f.must : Holds(c, p)
    /\ f.should = {} \/ \E c \in f.should : Holds(c, p)
    /\ ~\E c \in f.must_not : Holds(c, p)

-----------------------------------------------------------------------------
\* Points without a namespace are of the default one.
InScope(s) == {Is("container_tag", s)} \cup
              (IF s = DEFAULT_TAG THEN {IsEmpty("container_tag")} ELSE {})

tagged_filter(base, tag) ==
    IF tag = DEFAULT_TAG THEN [base EXCEPT !.should = @ \cup InScope(tag)]
    ELSE [base EXCEPT !.must = @ \cup InScope(tag)]

scope_filter(base, scopes) ==
    CASE scopes = {} -> tagged_filter(base, DEFAULT_TAG)
      [] \E s \in scopes : scopes = {s} -> tagged_filter(base, CHOOSE s \in scopes : TRUE)
      [] OTHER -> [base EXCEPT !.should = @ \cup UNION {InScope(s) : s \in scopes}]

doc_delete_filter(doc, tag) ==
    tagged_filter([NoFilter EXCEPT !.must = {Is("doc_id", doc)}], tag)

\* Current, unexpired and reviewed; a missing field excludes nothing.
active_facts_filter(base, now) ==
    [base EXCEPT !.must_not = @ \cup {Is("is_latest", FALSE), Is("needs_review", TRUE),
                                       Compare("valid_until", "lt", now)}]

\* What a plan asks of source and capture time.
build_filter(plan) ==
    [NoFilter EXCEPT !.must =
        {Is("source", s) : s \in {plan.source} \ {Absent}}
        \cup {Compare("captured_at", "gte", t) : t \in {plan.after} \ {Absent}}
        \cup {Compare("captured_at", "lte", t) : t \in {plan.before} \ {Absent}}]

-----------------------------------------------------------------------------
Hit(points, i) == [id |-> i, payload |-> points[i]]

\* What a search may return: the best matching points, in any order of theirs.
Pools(points, f, limit) ==
    LET hits == {Hit(points, i) : i \in {j \in DOMAIN points : Matches(f, points[j])}}
    IN  UNION {SetToSeqs(S) : S \in {T \in SUBSET hits : Cardinality(T) <= limit}}

\* The hits of the second query that the first has not found are put behind.
Union(first, second) ==
    LET Seen(h) == \E i \in DOMAIN first : first[i].id = h.id
        pool[n \in 0 .. Len(second)] ==
            IF n = 0 THEN first
            ELSE IF Seen(second[n]) THEN pool[n - 1] ELSE Append(pool[n - 1], second[n])
    IN  pool[Len(second)]

Reference(h) == IF "reference" \in DOMAIN h.payload THEN h.payload.reference ELSE Absent
Candidate(h) == [doc |-> h.payload.doc_id, reference |-> Reference(h), chunks |-> <<h>>]
Held(rs, h) == \E i \in DOMAIN rs : rs[i].reference = Reference(h) /\ Reference(h) # Absent

\* Mutant: a reference counts as held for the document that carries it, too.
Gather_once(rs, h) == IF Held(rs, h) THEN rs ELSE Append(rs, Candidate(h))

\* A hit joins the candidate of its document; a new document whose reference
\* another one carries already is left out.
Gather(rs, h) ==
    LET Mine(i) == rs[i].doc = h.payload.doc_id
    IN  IF \E i \in DOMAIN rs : Mine(i)
        THEN [i \in DOMAIN rs |-> IF Mine(i) THEN [rs[i] EXCEPT !.chunks = Append(@, h)] ELSE rs[i]]
        ELSE IF Held(rs, h) THEN rs ELSE Append(rs, Candidate(h))

\* Hits are gathered by document in the order of their first hits.
group_chunk_hits(hits, limit) ==
    LET gathered[n \in 0 .. Len(hits)] == IF n = 0 THEN <<>> ELSE Gather(gathered[n - 1], hits[n])
        all == gathered[Len(hits)]
    IN  SubSeq(all, 1, IF Len(all) < limit THEN Len(all) ELSE limit)
=============================================================================

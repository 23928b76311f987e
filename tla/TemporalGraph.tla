---------------------------- MODULE TemporalGraph ----------------------------
(***************************************************************************)
(* The bi-temporal knowledge graph (engine/graph.rs and its users in       *)
(* engine/mod.rs).  An ingest asks the model for edges, parses them,       *)
(* embeds them, reads the latest edges of its namespace once, upserts its  *)
(* batch and then flags the edges it supersedes: four calls that other     *)
(* ingests and deletes interleave with.  Reads are operators on the stored *)
(* edges.  Values and key words are model values after case folding; the   *)
(* ids of points and documents are their numbers.                          *)
(***************************************************************************)
EXTENDS ProviderClient, Integers, FiniteSets

CONSTANTS
    Writer,       \* concurrent ingests, a subset of Caller
    Tag,          \* namespaces
    Word,         \* normalized subjects, predicates and values
    Nothing,      \* an empty or missing field of a row
    User,         \* the subject of a row that names none
    Reply,        \* what the extractor may answer: sequences of rows, or Garbage
    Garbage,      \* an answer without a JSON array
    DocDate,      \* capture dates of documents, in days; 0 when unknown
    Page,         \* points per page of a scroll (256)
    ReadCap,      \* edges an ingest scrolls at most (2000 in the source)
    AnswerCap,    \* edges an answer scrolls at most (4000)
    MaxIngest     \* bound on the number of ingests

Key == [word : Word \cup {Nothing}, dressed : BOOLEAN]
Row == [subject : Key, predicate : Key, object : Word \cup {Nothing},
        date : Int \cup {Nothing}, singular : {"true", "false", "missing"}]

ASSUME GraphAssumption ==
    /\ Writer \subseteq Caller /\ DocDate \subseteq Int
    /\ MaxIngest \in Nat /\ Page \in Nat \ {0} /\ ReadCap \in Nat /\ AnswerCap \in Nat
    /\ User \in Word /\ Nothing \notin Word
    /\ Reply \subseteq {Garbage} \cup Seq(Row)

VARIABLES
    edges,        \* stored edge points, oldest first; deletes blank them
    wr,           \* the ingest each writer is working on
    docs,         \* ingests so far, a document each; st says if it was deleted
    serial        \* no overlap, batch collision, incomplete read, upsert reported
                  \* failed that was not, failed flag or delete so far

graphVars == <<edges, wr, docs, serial>>
vars == <<calls, graphVars>>

Erased == [id |-> 0]       \* what a deleted point leaves

-----------------------------------------------------------------------------
\* Parsing.  A row spells its keys as [word, dressed]: punctuation and case are
\* what normalize_key drops.

normalize_key(k) == k.word

Usable(row) == normalize_key(row.predicate) # Nothing /\ row.object # Nothing

\* The date falls back to the document's (0 if that is unknown too); singular
\* is false only when the row says so.
EdgeOf(row, docDate) ==
    [subject   |-> IF normalize_key(row.subject) = Nothing THEN User
                   ELSE normalize_key(row.subject),
     predicate |-> normalize_key(row.predicate),
     object    |-> row.object,
     from      |-> IF row.date = Nothing THEN docDate ELSE row.date,
     singular  |-> row.singular # "false"]

\* The edges of the usable rows, pushed in the order of the rows.
parse_edges(reply, docDate) ==
    LET pushed[n \in 0 .. Len(reply)] ==
            IF n = 0 THEN <<>>
            ELSE IF Usable(reply[n])
                 THEN Append(pushed[n - 1], EdgeOf(reply[n], docDate))
                 ELSE pushed[n - 1]
    IN  IF reply = Garbage THEN <<>> ELSE pushed[Len(reply)]

-----------------------------------------------------------------------------
\* Supersession and resolution.

Stored == {edges[i] : i \in DOMAIN edges} \ {Erased}
group_key(e) == <<e.tag, e.subject, e.predicate>>
Group(t, s, p) == {e \in Stored : group_key(e) = <<t, s, p>>}

\* How many of n points a scroll may return: all, or the first pages, for it takes
\* an error reply for the end, never more than its cap; one that does not answer
\* counts as an empty collection.
Scrolled(n, cap) == {m \in 0 .. n : m <= cap /\ (m \in {n, cap} \/ m % Page = 0)}

\* The edges of the namespace not flagged as superseded, and what latest_edges
\* may return of them.
Latest(t) == {e \in Stored : e.tag = t /\ e.is_latest}
latest_edges(t) == {read \in SUBSET Latest(t) :
                      Cardinality(read) \in Scrolled(Cardinality(Latest(t)), ReadCap)}

Rivals(new, existing) ==
    {ex \in existing : ex.subject = new.subject /\ ex.predicate = new.predicate}

Supersedes(new, existing) ==
    IF ~new.singular THEN {}
    ELSE {ex.id : ex \in {r \in Rivals(new, existing) :
                            r.object # new.object /\ new.from >= r.from}}

\* Mutant: the dates are not compared.
LatestUnlessKnown(new, existing) ==
    \A ex \in Rivals(new, existing) : ex.object # new.object

StoredAsLatest(new, existing) ==
    ~new.singular \/ \A ex \in Rivals(new, existing) :
                        ex.object # new.object /\ new.from >= ex.from

\* Mutant: the members are not sorted.
Unsorted(order) == order

\* The places of the members that a sort by date, which is stable, puts no later
\* than the one at i.
DatedUpTo(order, i) ==
    {j \in DOMAIN order : \/ order[j].from < order[i].from
                          \/ order[j].from = order[i].from /\ j <= i}

ByDate(order) ==
    [k \in DOMAIN order |->
        order[CHOOSE i \in DOMAIN order : Cardinality(DatedUpTo(order, i)) = k]]

\* A loop over the items of s that pushes those at the positions kept.
Picked(s, kept) ==
    LET pushed[n \in 0 .. Len(s)] ==
            IF n = 0 THEN <<>>
            ELSE IF n \in kept THEN Append(pushed[n - 1], s[n])
                 ELSE pushed[n - 1]
    IN  pushed[Len(s)]

\* One group, its members in scroll order, as of a date: the objects by date
\* without immediate repeats, and as current the last member not after asOf,
\* else the first.  Whether a member is flagged latest plays no part.
resolve(order, asOf) ==
    LET sorted == ByDate(order)
        past == {i \in DOMAIN sorted : sorted[i].from <= asOf}
    IN  [timeline |-> Picked(sorted, {i \in DOMAIN sorted :
                                        i > 1 => sorted[i].object # sorted[i - 1].object}),
         current |-> sorted[IF past = {} THEN 1 ELSE Max(past)]]

\* The answer to a question whose search hit some edges: each attribute they
\* name, resolved from its edges that were scrolled, the superseded ones too; an
\* attribute of which none was scrolled is left out.
resolve_edges_tagged(hits, scrolled, asOf) ==
    LET Of(g) == {i \in DOMAIN scrolled : group_key(scrolled[i]) = g}
    IN  [g \in {group_key(h) : h \in {k \in hits : Of(group_key(k)) # {}}} |->
            resolve(Picked(scrolled, Of(g)), asOf)]

\* The instances of the event group that is hit best, the group of the first hit
\* that is not of a single value: the first edge scrolled of every object.
count_event_instances_tagged(hits, scrolled) ==
    LET events == {i \in DOMAIN hits : ~hits[i].singular}
        Instance(i) == group_key(scrolled[i]) = group_key(hits[Min(events)])
    IN  IF events = {} THEN <<>>
        ELSE Picked(scrolled, {i \in DOMAIN scrolled :
                              /\ Instance(i)
                              /\ \A j \in 1 .. i - 1 : Instance(j) =>
                                    scrolled[j].object # scrolled[i].object})

-----------------------------------------------------------------------------
\* Ingest.

IdleWriter == [pc |-> "idle", doc |-> 0, date |-> 0, batch |-> <<>>,
               known |-> {}, sup |-> {}]

GraphInit ==
    /\ edges = <<>> /\ docs = <<>> /\ serial = TRUE
    /\ wr = [w \in Writer |-> IdleWriter]

\* add_document reaches its step 6 under its own document id; a graph-only
\* ingest makes up an id that no document has.
extract_edges(w) ==
    /\ wr[w].pc = "idle" /\ calls[w].st = "idle" /\ Len(docs) < MaxIngest
    /\ \E t \in Tag, st \in {"indexed", "unlisted"} :
         docs' = Append(docs, [tag |-> t, st |-> st])
    /\ \E d \in DocDate :
         wr' = [wr EXCEPT ![w] = [IdleWriter EXCEPT !.pc = "extract", !.date = d,
                                                    !.doc = Len(docs) + 1]]
    /\ calls' = [calls EXCEPT ![w] = NewCall("chat", <<>>)]
    /\ UNCHANGED <<edges, serial>>

\* The model answered: no edges ends the ingest, else their statements are
\* embedded.
edges_extracted(w) ==
    /\ wr[w].pc = "extract" /\ calls[w].st = "ok"
    /\ \E reply \in Reply :
         LET batch == parse_edges(reply, wr[w].date)
         IN  /\ wr' = [wr EXCEPT ![w] = IF batch = <<>> THEN IdleWriter
                          ELSE [@ EXCEPT !.pc = "embed", !.batch = batch]]
             /\ calls' = [calls EXCEPT ![w] = IF batch = <<>> THEN NoCall
                            ELSE NewCall("embed", [i \in DOMAIN batch |-> i])]
    /\ UNCHANGED <<edges, docs, serial>>

\* A failed extraction or embedding ends the ingest; nothing was stored.
provider_failed(w) ==
    /\ wr[w].pc \in {"extract", "embed"} /\ calls[w].st = "err"
    /\ wr' = [wr EXCEPT ![w] = IdleWriter]
    /\ calls' = [calls EXCEPT ![w] = NoCall]
    /\ UNCHANGED <<edges, docs, serial>>

OthersIndexing(w) == \E v \in Writer \ {w} : wr[v].pc \in {"upsert", "flag"}

OneEdgePerGroup(batch) ==
    \A i, j \in DOMAIN batch :
        i # j => <<batch[i].subject, batch[i].predicate>>
                    # <<batch[j].subject, batch[j].predicate>>

\* The latest edges are read once for the whole batch.
index_edges_read(w) ==
    /\ wr[w].pc = "embed" /\ calls[w].st = "ok"
    /\ calls' = [calls EXCEPT ![w] = NoCall]
    /\ \E read \in latest_edges(docs[wr[w].doc].tag) :
         /\ wr' = [wr EXCEPT ![w].pc = "upsert", ![w].known = read]
         /\ serial' = (/\ serial /\ read = Latest(docs[wr[w].doc].tag)
                       /\ ~OthersIndexing(w) /\ OneEdgePerGroup(wr[w].batch))
    /\ UNCHANGED <<edges, docs>>

Point(w, i) ==
    LET e == wr[w].batch[i]
    IN  [id |-> Len(edges) + i, tag |-> docs[wr[w].doc].tag, doc |-> wr[w].doc,
         subject |-> e.subject, predicate |-> e.predicate, object |-> e.object,
         from |-> e.from, singular |-> e.singular,
         is_latest |-> StoredAsLatest(e, wr[w].known)]

\* Mutant: what the batch supersedes is flagged although its upsert failed.
upsert_unchecked(w) ==
    /\ wr[w].pc = "upsert"
    /\ LET batch == wr[w].batch
           sup == UNION {Supersedes(batch[i], wr[w].known) : i \in DOMAIN batch}
       IN  /\ edges' \in {edges, edges \o [i \in DOMAIN batch |-> Point(w, i)]}
           /\ wr' = [wr EXCEPT ![w] = IF sup = {} THEN IdleWriter
                        ELSE [@ EXCEPT !.pc = "flag", !.sup = sup]]
    /\ UNCHANGED <<calls, docs, serial>>

\* One upsert for the batch; if it reports an error the ingest ends and no flag is
\* touched, also when it timed out after the points were stored.
index_edges_upsert(w) ==
    /\ wr[w].pc = "upsert"
    /\ LET batch == wr[w].batch
           sup == UNION {Supersedes(batch[i], wr[w].known) : i \in DOMAIN batch}
       IN  \/ /\ edges' = edges \o [i \in DOMAIN batch |-> Point(w, i)]
              /\ wr' = [wr EXCEPT ![w] = IF sup = {} THEN IdleWriter
                           ELSE [@ EXCEPT !.pc = "flag", !.sup = sup]]
              /\ UNCHANGED serial
           \/ /\ wr' = [wr EXCEPT ![w] = IdleWriter]
              /\ \/ UNCHANGED <<edges, serial>>
                 \/ /\ edges' = edges \o [i \in DOMAIN batch |-> Point(w, i)]
                    /\ serial' = FALSE
    /\ UNCHANGED <<calls, docs>>

\* Mutant: every flag is set anew, which restores those of the others.
FlaggedAnew(ids) ==
    [i \in DOMAIN edges |-> IF edges[i] = Erased THEN Erased
                            ELSE [edges[i] EXCEPT !.is_latest = i \notin ids]]

Flagged(ids) ==
    [i \in DOMAIN edges |-> IF edges[i].id \in ids
                            THEN [edges[i] EXCEPT !.is_latest = FALSE]
                            ELSE edges[i]]

\* Flagging comes after the upsert, and a failure is only logged.
index_edges_flag(w) ==
    /\ wr[w].pc = "flag"
    /\ \/ edges' = Flagged(wr[w].sup) /\ UNCHANGED serial
       \/ serial' = FALSE /\ UNCHANGED edges
    /\ wr' = [wr EXCEPT ![w] = IdleWriter]
    /\ UNCHANGED <<calls, docs>>

\* Mutant: the delete does not cascade to the graph.
delete_without_cascade(n) ==
    /\ docs[n].st = "indexed"
    /\ docs' = [docs EXCEPT ![n].st = IF \E w \in Writer : wr[w].doc = n
                                      THEN "deleted_early" ELSE "deleted"]
    /\ serial' = FALSE
    /\ UNCHANGED <<calls, wr, edges>>

\* Deleting a document removes the edges that carry its id in its namespace.
\* A graph-only ingest made up its id, so no delete ever names it.
delete_document_tagged(n) ==
    /\ docs[n].st = "indexed"
    /\ edges' = [i \in DOMAIN edges |->
                    IF edges[i] # Erased /\ edges[i].tag = docs[n].tag /\ edges[i].doc = n
                    THEN Erased ELSE edges[i]]
    /\ docs' = [docs EXCEPT ![n].st = IF \E w \in Writer : wr[w].doc = n
                                      THEN "deleted_early" ELSE "deleted"]
    /\ serial' = FALSE
    /\ UNCHANGED <<calls, wr>>

IngestStep(w) ==
    \/ edges_extracted(w)  \/ provider_failed(w) \/ index_edges_read(w)
    \/ index_edges_upsert(w) \/ index_edges_flag(w)

\* Tasks other than ingests, with n > 0 inputs or tokens per call.
AgentStep(c, n) ==
    /\ \/ \E kind \in CallKind : call_starts(c, kind, [i \in 1 .. n |-> i])
       \/ call_returns(c)
    /\ UNCHANGED graphVars

Next ==
    \/ \E w \in Writer : extract_edges(w) \/ IngestStep(w)
    \/ \E n \in DOMAIN docs : delete_document_tagged(n)
    \/ \E c \in Caller : ClientStep(c) /\ UNCHANGED graphVars
    \/ \E c \in Caller \ Writer, n \in Nat \ {0} : AgentStep(c, n)

\* A request has some outcome (an answer, a failure, or silence for good), delays
\* end, and the task that ingests is polled: the runtime keeps driving it.
Fairness == \A w \in Writer : /\ WF_vars(ClientStep(w) /\ UNCHANGED graphVars)
                              /\ WF_vars(IngestStep(w))

Init == ClientInit /\ GraphInit
Spec == Init /\ [][Next]_vars /\ Fairness

-----------------------------------------------------------------------------
EdgeRow == [id : Nat \ {0}, tag : Tag, doc : 1 .. MaxIngest, subject : Word,
            predicate : Word, object : Word, from : Int, singular : BOOLEAN,
            is_latest : BOOLEAN]

GraphTypeOK ==
    /\ ClientTypeOK
    /\ edges \in Seq(EdgeRow \cup {Erased})
    /\ \A i \in DOMAIN edges : edges[i] = Erased \/ edges[i].id = i
    /\ docs \in Seq([tag : Tag,
                     st : {"indexed", "unlisted", "deleted", "deleted_early"}])
    /\ Len(docs) <= MaxIngest /\ serial \in BOOLEAN
    /\ \A w \in Writer :
         /\ wr[w].pc \in {"idle", "extract", "embed", "upsert", "flag"}
         /\ wr[w].doc \in 0 .. Len(docs)
         /\ wr[w].known \subseteq EdgeRow /\ wr[w].sup \subseteq DOMAIN edges

\* An edge loses its latest flag only to an edge that is stored: of the same
\* namespace, subject and predicate, with the same value or not older (or with
\* a value that was newer when the flagged one arrived).  Deletes aside, no
\* failure or overlap of ingests demotes a value without a reason on record.
DemotionHasReason ==
    (\A n \in DOMAIN docs : docs[n].st \in {"indexed", "unlisted"}) =>
        \A e \in Stored : ~e.is_latest =>
            \E f \in Stored \ {e} :
                /\ group_key(f) = group_key(e)
                /\ \/ f.id > e.id /\ f.singular /\ f.from >= e.from
                   \/ f.id < e.id /\ (f.object = e.object \/ f.from > e.from)

\* One value at a time: while ingests do not overlap, carry one edge per
\* attribute, read all the latest edges and know how their calls ended, every
\* attribute of single values has exactly one latest edge ("a newer value
\* supersedes the old", graph.rs:19).
OneLatestWhenSerial ==
    serial /\ (\A w \in Writer : wr[w].pc # "flag") =>
        \A e \in Stored :
            LET group == Group(e.tag, e.subject, e.predicate)
            IN  (\A f \in group : f.singular)
                    => Cardinality({f \in group : f.is_latest}) = 1

\* What the scroll of a namespace for an answer may return: its edges in any
\* order (ids are random), here every rotation of the stored one, both ways, up
\* to the cap or the page before an error.
scroll_all(t) ==
    LET order == Picked(edges, {i \in DOMAIN edges : edges[i] # Erased /\ edges[i].tag = t})
        Turn(k) == SubSeq(order, k + 1, Len(order)) \o SubSeq(order, 1, k)
        full == {Turn(k) : k \in DOMAIN order} \cup {Reverse(Turn(k)) : k \in DOMAIN order}
    IN  {SubSeq(s, 1, n) : s \in full, n \in Scrolled(Len(order), AnswerCap)}

\* The answer r to a question as of a date about an attribute with these edges:
\* its current value is dated last among those not after the date, its timeline is
\* complete, ascending and without repeats.
Resolved(r, group, asOf) ==
    /\ r.current \in group
    /\ \A f \in group :
          /\ f.from <= asOf => r.current.from <= asOf /\ f.from <= r.current.from
          /\ \E i \in DOMAIN r.timeline :
                r.timeline[i].object = f.object /\ r.timeline[i].from <= f.from
    /\ \A i \in 2 .. Len(r.timeline) :
          /\ r.timeline[i - 1].from <= r.timeline[i].from
          /\ r.timeline[i - 1].object # r.timeline[i].object

\* A count of the instances of e's group has every value once.
CountsOnce(e, members, order) ==
    LET values == count_event_instances_tagged(<<e>>, order)
    IN  \A f \in {m \in members : group_key(m) = group_key(e)} :
           Cardinality({i \in DOMAIN values : values[i].object = f.object}) = 1

ResolvesOver(members, order) ==
    /\ \A asOf \in {0} \cup {f.from : f \in members} :
          \A g \in {group_key(f) : f \in members} :
             Resolved(resolve_edges_tagged(members, order, asOf)[g],
                      {f \in members : group_key(f) = g}, asOf)
    /\ \A e \in {f \in members : ~f.singular} : CountsOnce(e, members, order)

\* Whatever the flags say after races and failed calls, whatever part of the edges
\* the scroll returns and in whatever order, an attribute resolves by event time
\* among the edges returned, and a count of instances has each of their distinct
\* values once; no edge that was returned changes the answer by being superseded.
ResolvesByEventTime ==
    \A t \in Tag : \A scrolled \in scroll_all(t) :
        ResolvesOver({scrolled[i] : i \in DOMAIN scrolled}, scrolled)

\* A deleted document keeps no edge in the graph, "or a forgotten fact keeps
\* resolving into answers" (mod.rs:2527), unless the delete overtook the ingest.
DeleteReachesGraph ==
    \A n \in DOMAIN docs : docs[n].st = "deleted" =>
        \A e \in Stored : e.doc # n

\* The past is never rewritten: a step may append edges, erase them or take
\* the latest flag away, never move a date, change a value or restore a flag.
HistoryIsKept ==
    [][\A i \in DOMAIN edges :
          /\ i \in DOMAIN edges'
          /\ edges'[i] \in {edges[i], Erased} \/
             (edges[i].is_latest /\ edges'[i] = [edges[i] EXCEPT !.is_latest = FALSE])
      ]_vars

\* Every ingest ends, retries being bounded, or its model never answers: no failure
\* that is reported leaves it waiting.
IngestEnds ==
    \A w \in Writer : (wr[w].pc # "idle") ~> (wr[w].pc = "idle" \/ calls[w].st = "silent")
=============================================================================

------------------------------- MODULE MCGraph -------------------------------
(***************************************************************************)
(* A bounded instance of TemporalGraph: two ingests at a time, three in    *)
(* all, over two attributes, and an agent that calls providers before the  *)
(* first ingest.                                                           *)
(***************************************************************************)
EXTENDS TemporalGraph

CONSTANTS w1, w2, agent, user, city, rome, oslo, none, garbage, t1, t2

Spelled(word, dressed) == [word |-> word, dressed |-> dressed]
RowOf(p, o, d, sing) == [subject |-> Spelled(none, TRUE), predicate |-> p,
                       object |-> o, date |-> d, singular |-> sing]
Rome(d, sing) == RowOf(Spelled(city, TRUE), rome, d, sing)
Oslo(d, sing) == RowOf(Spelled(city, FALSE), oslo, d, sing)

MCReply ==
    {garbage,
     << Rome(none, "true") >>, << Oslo(1, "true") >>, << Oslo(2, "missing") >>,
     << Rome(1, "true"), RowOf(Spelled(none, TRUE), oslo, 2, "true"), Oslo(2, "false") >>}

\* Provider calls share nothing, so one is in flight at a time here; a model that
\* stays silent holds its place, and the others go on as far as they need none.
OneCallAtATime == Cardinality({c \in Caller : calls'[c].st # "idle"}) <= 1

\* A graph-only ingest differs from another in what a delete can reach: one,
\* the first, is enough.
GraphOnlyFirst == \A n \in DOMAIN docs' : docs'[n].st = "unlisted" => n = 1

MCNext ==
    /\ \/ \E w \in Writer : extract_edges(w) \/ IngestStep(w)
       \/ \E n \in DOMAIN docs : delete_document_tagged(n)
       \/ \E c \in Caller : ClientStep(c) /\ UNCHANGED graphVars
       \/ \E c \in Caller \ Writer : docs = <<>> /\ AgentStep(c, 3)
    /\ OneCallAtATime /\ GraphOnlyFirst

MCSpec == Init /\ [][MCNext]_vars /\ Fairness
=============================================================================

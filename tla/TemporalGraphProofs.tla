------------------------- MODULE TemporalGraphProofs -------------------------
(***************************************************************************)
(* Proofs about TemporalGraph and the provider calls its writers make, for *)
(* any number of writers, documents, words, dates and replies.             *)
(*                                                                         *)
(* The argument: an edge never changes but for its flag, and an edge that  *)
(* a writer knows is still stored as it was read (KnownIsStored); so the   *)
(* reason a writer has to demote an edge, seen when it read, is a reason   *)
(* in the graph when it flags, whatever other writers did in between       *)
(* (ReasonStored).  Only a delete breaks it, by erasing the reason.        *)
(* What a read answers depends on the edges alone, not on flags or on the  *)
(* order of the scroll: a stable sort puts every member at a place of its  *)
(* own (PlacesOfSort), and a loop pushes what it keeps in order            *)
(* (PickedPlaces).                                                         *)
(***************************************************************************)
EXTENDS TemporalGraph, ProviderProofs

\* An edge as the parser makes it: what a row says, with the defaults.
BatchEdge == [subject : Word, predicate : Word, object : Word, from : Int,
              singular : BOOLEAN]

-----------------------------------------------------------------------------
\* The parser's loop.

\* What a loop over n items has pushed after each turn, if it pushes those kept.
Pushes(f, n, kept, val) ==
    f = [m \in 0 .. n |->
           IF m = 0 THEN <<>>
           ELSE IF m \in kept THEN Append(f[m - 1], val[m]) ELSE f[m - 1]]

\* There is such a function, for loops of any length.
LEMMA LoopExists ==
    ASSUME NEW n \in Nat, NEW kept, NEW val
    PROVE  \E f : Pushes(f, n, kept, val)
<1> DEFINE Turn(f, m) == IF m = 0 THEN <<>>
                         ELSE IF m \in kept THEN Append(f[m - 1], val[m]) ELSE f[m - 1]
           Runs(k) == \E f : f = [m \in 0 .. k |-> Turn(f, m)]
           T == {k \in Nat : ~Runs(k)}
<1> SUFFICES ASSUME T # {} PROVE FALSE  BY DEF T, Pushes
<1>1. PICK k \in T : \A j \in T : k <= j
  <2> HIDE DEF T
  <2>1. T \subseteq Nat  BY DEF T
  <2> QED BY <2>1, SmallestNumber
<1>2. k \in Nat /\ ~Runs(k)  OBVIOUS
<1>3. CASE k = 0
  <2> DEFINE f == [m \in 0 .. 0 |-> <<>>]
  <2>1. \A m \in 0 .. 0 : Turn(f, m) = <<>>  OBVIOUS
  <2>2. f = [m \in 0 .. 0 |-> Turn(f, m)]  BY <2>1
  <2>3. Runs(0)  BY <2>2
  <2> QED BY <1>2, <1>3, <2>3
<1>4. CASE k > 0
  <2>1. k - 1 \in Nat /\ k - 1 \notin T
    <3> HIDE DEF T
    <3> QED BY <1>1, <1>2, <1>4
  <2>2. Runs(k - 1)  BY <2>1
  <2>3. PICK f : f = [m \in 0 .. k - 1 |-> Turn(f, m)]  BY <2>2
  <2> DEFINE g == [m \in 0 .. k |-> IF m = k THEN Turn(f, k) ELSE f[m]]
  <2>4. ASSUME NEW m \in 0 .. k  PROVE g[m] = Turn(g, m)
    <3>1. CASE m = 0
      <4>1. f[0] = <<>>  BY <1>2, <1>4, <2>1, <2>3
      <4> QED BY <1>4, <3>1, <4>1
    <3>2. CASE m # 0
      <4>1. m - 1 \in 0 .. k - 1 /\ m - 1 # k  BY <3>2
      <4>2. g[m - 1] = f[m - 1]  BY <4>1
      <4>3. g[m] = Turn(f, m)
        <5>1. CASE m = k  BY <5>1
        <5>2. CASE m # k
          <6>1. m \in 0 .. k - 1  BY <5>2, <1>2
          <6>2. f[m] = Turn(f, m)  BY <2>3, <6>1
          <6> QED BY <5>2, <6>2
        <5> QED BY <5>1, <5>2
      <4> QED BY <3>2, <4>2, <4>3
    <3> QED BY <3>1, <3>2
  <2>5. g = [m \in 0 .. k |-> g[m]]  OBVIOUS
  <2>6. g = [m \in 0 .. k |-> Turn(g, m)]
    <3> HIDE DEF g, Turn
    <3> QED BY <2>4, <2>5
  <2> QED BY <1>2, <2>6
<1> QED BY <1>2, <1>3, <1>4

\* What the loop has pushed after every turn is a sequence of its items.
LEMMA LoopCollects ==
    ASSUME NEW n \in Nat, NEW kept, NEW val, NEW S, NEW f,
           \A m \in 1 .. n : m \in kept => val[m] \in S,
           Pushes(f, n, kept, val)
    PROVE  \A m \in 0 .. n : f[m] \in Seq(S)
<1> DEFINE T == {m \in 0 .. n : f[m] \notin Seq(S)}
<1> SUFFICES ASSUME T # {} PROVE FALSE  OBVIOUS
<1>1. PICK k \in T : \A j \in T : k <= j
  <2> HIDE DEF T
  <2>1. T \subseteq Nat  BY DEF T
  <2> QED BY <2>1, SmallestNumber
<1>2. k \in 0 .. n /\ f[k] \notin Seq(S)  OBVIOUS
<1>3. f[k] = IF k = 0 THEN <<>>
             ELSE IF k \in kept THEN Append(f[k - 1], val[k]) ELSE f[k - 1]
  BY <1>2 DEF Pushes
<1>4. k # 0  BY <1>2, <1>3
<1>5. k - 1 \in 0 .. n /\ k - 1 \notin T  BY <1>1, <1>2, <1>4
<1>6. f[k - 1] \in Seq(S)  BY <1>5
<1>7. k \in kept => val[k] \in S  BY <1>2, <1>4
<1>8. f[k] \in Seq(S)
  <2>1. CASE k \in kept
    <3>1. f[k] = Append(f[k - 1], val[k])  BY <1>3, <1>4, <2>1
    <3>2. val[k] \in S  BY <1>7, <2>1
    <3>3. \A q \in Seq(S), x \in S : Append(q, x) \in Seq(S)  OBVIOUS
    <3> QED BY <1>6, <3>1, <3>2, <3>3
  <2>2. CASE k \notin kept  BY <1>3, <1>4, <1>6, <2>2
  <2> QED BY <2>1, <2>2
<1> QED BY <1>2, <1>8

\* Whatever the model answers, the parser makes edges of it.
LEMMA ParsedEdges ==
    ASSUME NEW reply \in Reply, NEW d \in Int
    PROVE  parse_edges(reply, d) \in Seq(BatchEdge)
<1>1. CASE reply = Garbage  BY <1>1 DEF parse_edges
<1>2. CASE reply # Garbage
  <2> DEFINE n == Len(reply)
             kept == {m \in 1 .. n : Usable(reply[m])}
             val == [m \in 1 .. n |-> EdgeOf(reply[m], d)]
             Turns(f) == [m \in 0 .. n |->
                          IF m = 0 THEN <<>>
                          ELSE IF Usable(reply[m]) THEN Append(f[m - 1], EdgeOf(reply[m], d))
                          ELSE f[m - 1]]
             pushed == CHOOSE f : f = Turns(f)
  <2>1. reply \in Seq(Row) /\ n \in Nat  BY <1>2, GraphAssumption
  <2>2. \A m \in 1 .. n : m \in kept => val[m] \in BatchEdge
    <3> SUFFICES ASSUME NEW m \in 1 .. n, Usable(reply[m])
                 PROVE  EdgeOf(reply[m], d) \in BatchEdge
      OBVIOUS
    <3>1. reply[m] \in Row  BY <2>1
    <3> QED BY <3>1, GraphAssumption
            DEF EdgeOf, BatchEdge, Row, Key, Usable, normalize_key
  <2>3. \A f : Pushes(f, n, kept, val) <=> f = Turns(f)
    <3> SUFFICES ASSUME NEW f
                 PROVE  [m \in 0 .. n |->
                          IF m = 0 THEN <<>>
                          ELSE IF m \in kept THEN Append(f[m - 1], val[m]) ELSE f[m - 1]]
                        = Turns(f)
      BY SMTT(60) DEF Pushes
    <3>1. \A m \in 0 .. n : m # 0 => m \in 1 .. n  BY <2>1
    <3> QED BY <3>1
  <2>4. \E f : Pushes(f, n, kept, val)
    <3> HIDE DEF kept, val, n
    <3> QED BY <2>1, LoopExists
  <2>5. pushed = Turns(pushed)
    <3>1. \E f : f = Turns(f)
      <4> HIDE DEF Turns, kept, val, n
      <4> QED BY <2>3, <2>4
    <3> HIDE DEF Turns
    <3> QED BY <3>1
  <2>6. Pushes(pushed, n, kept, val)  BY <2>3, <2>5
  <2>7. parse_edges(reply, d) = pushed[n]  BY <1>2 DEF parse_edges
  <2>8. \A m \in 0 .. n : pushed[m] \in Seq(BatchEdge)
    <3> HIDE DEF kept, val, n, pushed
    <3> QED BY <2>1, <2>2, <2>6, LoopCollects
  <2>9. n \in 0 .. n  BY <2>1
  <2> QED BY <2>7, <2>8, <2>9
<1> QED BY <1>1, <1>2

-----------------------------------------------------------------------------
\* The inductive invariant.

WriterRecord == [pc : {"idle", "extract", "embed", "upsert", "flag"}, doc : Nat,
                 date : Int, batch : Seq(BatchEdge), known : SUBSET EdgeRow,
                 sup : SUBSET Nat]

DocRecord == [tag : Tag, st : {"indexed", "unlisted", "deleted", "deleted_early"}]

\* A writer at work has a document; it holds superseded ids only while it flags.
TypesOK ==
    /\ edges \in Seq(EdgeRow \cup {Erased})
    /\ \A i \in DOMAIN edges : edges[i] = Erased \/ edges[i].id = i
    /\ docs \in Seq(DocRecord) /\ Len(docs) <= MaxIngest /\ serial \in BOOLEAN
    /\ wr \in [Writer -> WriterRecord]
    /\ \A w \in Writer :
         /\ wr[w].doc \in 0 .. Len(docs) /\ wr[w].sup \subseteq DOMAIN edges
         /\ wr[w].pc # "idle" => wr[w].doc # 0
         /\ wr[w].pc # "flag" => wr[w].sup = {}
         /\ wr[w].pc \notin {"upsert", "flag"} => wr[w].known = {}

\* An edge belongs to the document it came from.
EdgesOwned ==
    \A i \in DOMAIN edges : edges[i] # Erased =>
        edges[i].doc \in DOMAIN docs /\ edges[i].tag = docs[edges[i].doc].tag

\* Nothing of a deleted document is stored, and no writer will store any.
DeletedIsGone ==
    \A n \in DOMAIN docs : docs[n].st = "deleted" =>
        /\ \A w \in Writer : wr[w].doc # n
        /\ \A i \in DOMAIN edges : edges[i] # Erased => edges[i].doc # n

\* What an edge says, whatever its flag.
SameEdge(e, k) ==
    /\ e.id = k.id /\ e.tag = k.tag /\ e.subject = k.subject
    /\ e.predicate = k.predicate /\ e.object = k.object
    /\ e.from = k.from /\ e.singular = k.singular

\* The edges a writer has read are of its namespace and, unless a delete erased
\* them, are stored as it read them.
KnownIsStored ==
    \A w \in Writer : \A k \in wr[w].known :
        /\ k.id \in DOMAIN edges /\ k.tag = docs[wr[w].doc].tag
        /\ edges[k.id] # Erased => SameEdge(edges[k.id], k)

Undeleted == \A n \in DOMAIN docs : docs[n].st \in {"indexed", "unlisted"}

\* Edge j is why edge i is not the latest: it replaced i, or i arrived late.
Replaces(j, i) ==
    /\ group_key(edges[j]) = group_key(edges[i])
    /\ j > i /\ edges[j].singular /\ edges[j].from >= edges[i].from
ArrivedLate(j, i) ==
    /\ group_key(edges[j]) = group_key(edges[i])
    /\ j < i /\ (edges[j].object = edges[i].object \/ edges[j].from > edges[i].from)

\* Every edge that is not the latest, or soon will not be, has its reason stored.
ReasonStored ==
    Undeleted =>
        /\ \A i \in DOMAIN edges : edges[i] # Erased
        /\ \A i \in DOMAIN edges : ~edges[i].is_latest =>
              \E j \in DOMAIN edges : Replaces(j, i) \/ ArrivedLate(j, i)
        /\ \A w \in Writer : \A i \in wr[w].sup : \E j \in DOMAIN edges : Replaces(j, i)

GraphInv == TypesOK /\ EdgesOwned /\ DeletedIsGone /\ KnownIsStored /\ ReasonStored

GraphIndInv == ClientInv /\ GraphInv

-----------------------------------------------------------------------------
\* Types.

\* An idle writer is one.
LEMMA IdleOK == IdleWriter \in WriterRecord
BY DEF IdleWriter, WriterRecord

\* The points of a batch carry its edges, under the ids that follow.
LEMMA PointsTyped ==
    ASSUME TypesOK, NEW w \in Writer, wr[w].pc = "upsert",
           NEW i \in DOMAIN wr[w].batch
    PROVE  /\ Point(w, i) \in EdgeRow /\ Point(w, i) # Erased
           /\ Point(w, i).id = Len(edges) + i
           /\ Point(w, i).doc = wr[w].doc /\ Point(w, i).tag = docs[wr[w].doc].tag
           /\ wr[w].doc \in DOMAIN docs
<1>1. /\ wr[w].batch \in Seq(BatchEdge) /\ wr[w].doc \in 1 .. Len(docs)
      /\ Len(docs) \in Nat /\ docs[wr[w].doc] \in DocRecord /\ Len(docs) <= MaxIngest
  BY DEF TypesOK, WriterRecord
<1>2. wr[w].batch[i] \in BatchEdge /\ i \in Nat \ {0} /\ Len(edges) \in Nat
  BY <1>1 DEF TypesOK
<1>3. StoredAsLatest(wr[w].batch[i], wr[w].known) \in BOOLEAN
  BY DEF StoredAsLatest
<1>4. Len(edges) + i \in Nat \ {0} /\ wr[w].doc \in 1 .. MaxIngest
  BY <1>1, <1>2, GraphAssumption
<1>5. Point(w, i) \in EdgeRow
  BY <1>1, <1>2, <1>3, <1>4 DEF Point, EdgeRow, BatchEdge, DocRecord
<1>6. Point(w, i).id # Erased.id  BY <1>4 DEF Point, Erased
<1> QED BY <1>1, <1>5, <1>6 DEF Point

\* Sequence u is s with t after it: every place of u is one of s or one of t.
Extends(u, s, t) ==
    /\ Len(u) = Len(s) + Len(t)
    /\ \A i \in DOMAIN s : i \in DOMAIN u /\ u[i] = s[i]
    /\ \A i \in DOMAIN t :
          /\ Len(s) + i \in DOMAIN u /\ Len(s) + i \notin DOMAIN s
          /\ u[Len(s) + i] = t[i]
    /\ \A k \in DOMAIN u : k \in DOMAIN s \/ \E i \in DOMAIN t : k = Len(s) + i

\* What concatenation does: the first sequence stays, the second follows.
LEMMA Concatenated ==
    ASSUME NEW E, NEW s \in Seq(E), NEW t \in Seq(E)
    PROVE  s \o t \in Seq(E) /\ Extends(s \o t, s, t)
<1> PICK u : u = s \o t  OBVIOUS
<1>1. u \in Seq(E)  OBVIOUS
<1>2. PICK a \in Nat, b \in Nat : a = Len(s) /\ b = Len(t)  OBVIOUS
<1>3. DOMAIN s = 1 .. a /\ DOMAIN t = 1 .. b  BY <1>2
<1>4. Len(u) = a + b /\ DOMAIN u = 1 .. (a + b)  BY <1>1, <1>2
<1>5. \A i \in 1 .. a : u[i] = s[i]  BY <1>1, <1>2
<1>6. \A i \in 1 .. b : u[a + i] = t[i]  BY <1>1, <1>2
<1>7. \A i \in 1 .. a : i \in 1 .. (a + b)  OBVIOUS
<1>8. \A i \in 1 .. b : a + i \in 1 .. (a + b) /\ a + i \notin 1 .. a  OBVIOUS
<1>9. ASSUME NEW k \in 1 .. (a + b), k \notin 1 .. a
      PROVE  \E i \in 1 .. b : k = a + i
  <2>1. k - a \in 1 .. b /\ k = a + (k - a)  BY <1>9
  <2> QED BY <2>1
<1>10. Extends(u, s, t)
  <2>1. Len(u) = Len(s) + Len(t)  BY <1>2, <1>4
  <2>2. \A i \in DOMAIN s : i \in DOMAIN u /\ u[i] = s[i]  BY <1>3, <1>4, <1>5, <1>7
  <2>3. \A i \in DOMAIN t : /\ a + i \in DOMAIN u /\ a + i \notin DOMAIN s
                            /\ u[a + i] = t[i]
    BY <1>3, <1>4, <1>6, <1>8
  <2>4. \A k \in DOMAIN u : k \in DOMAIN s \/ \E i \in DOMAIN t : k = a + i
    BY <1>3, <1>4, <1>9
  <2> HIDE <1>3, <1>4
  <2> QED BY <1>2, <2>1, <2>2, <2>3, <2>4 DEF Extends
<1> QED BY <1>1, <1>10

\* The upsert appends the points and moves nothing.
LEMMA UpsertAppends ==
    ASSUME TypesOK, NEW w \in Writer, wr[w].pc = "upsert",
           edges' = edges \o [i \in DOMAIN wr[w].batch |-> Point(w, i)]
    PROVE  /\ edges' \in Seq(EdgeRow \cup {Erased})
           /\ Len(edges') = Len(edges) + Len(wr[w].batch)
           /\ \A i \in DOMAIN edges : i \in DOMAIN edges' /\ edges'[i] = edges[i]
           /\ \A i \in DOMAIN wr[w].batch :
                 /\ Len(edges) + i \in DOMAIN edges' /\ Len(edges) + i \notin DOMAIN edges
                 /\ edges'[Len(edges) + i] = Point(w, i)
           /\ \A k \in DOMAIN edges' : k \in DOMAIN edges \/
                 \E i \in DOMAIN wr[w].batch : k = Len(edges) + i
<1> DEFINE E == EdgeRow \cup {Erased}
           new == [i \in DOMAIN wr[w].batch |-> Point(w, i)]
<1>1. edges \in Seq(E) /\ wr[w].batch \in Seq(BatchEdge)
  BY DEF TypesOK, WriterRecord
<1>2. new \in Seq(E) /\ Len(new) = Len(wr[w].batch)
  <2>1. \A i \in DOMAIN wr[w].batch : Point(w, i) \in E  BY PointsTyped
  <2> HIDE DEF E
  <2> QED BY <1>1, <2>1
<1>3. \A i \in DOMAIN wr[w].batch : new[i] = Point(w, i)  OBVIOUS
<1> HIDE DEF E, new
<1>4. edges' = edges \o new  BY DEF new
<1>5. DOMAIN new = DOMAIN wr[w].batch  BY DEF new
<1>6. edges' \in Seq(E) /\ Extends(edges', edges, new)
  BY <1>1, <1>2, <1>4, Concatenated
<1> QED BY <1>2, <1>3, <1>5, <1>6 DEF E, Extends

\* A writer's record changes and the documents and edges at most grow.
LEMMA WriterTyped ==
    ASSUME TypesOK, NEW w \in Writer, NEW r \in WriterRecord,
           wr' = [wr EXCEPT ![w] = r], serial' \in BOOLEAN,
           edges' \in Seq(EdgeRow \cup {Erased}),
           \A i \in DOMAIN edges' : edges'[i] = Erased \/ edges'[i].id = i,
           DOMAIN edges \subseteq DOMAIN edges',
           docs' \in Seq(DocRecord), Len(docs') <= MaxIngest, Len(docs) <= Len(docs'),
           r.doc \in 0 .. Len(docs'), r.sup \subseteq DOMAIN edges',
           r.pc # "idle" => r.doc # 0, r.pc # "flag" => r.sup = {},
           r.pc \notin {"upsert", "flag"} => r.known = {}
    PROVE  TypesOK'
<1> HIDE DEF WriterRecord
<1>1. wr' \in [Writer -> WriterRecord]  BY DEF TypesOK
<1>2. Len(docs) \in Nat /\ Len(docs') \in Nat  BY DEF TypesOK
<1>3. ASSUME NEW v \in Writer
      PROVE  /\ wr'[v].doc \in 0 .. Len(docs') /\ wr'[v].sup \subseteq DOMAIN edges'
             /\ wr'[v].pc # "idle" => wr'[v].doc # 0
             /\ wr'[v].pc # "flag" => wr'[v].sup = {}
             /\ wr'[v].pc \notin {"upsert", "flag"} => wr'[v].known = {}
  <2>1. CASE v = w
    <3>1. wr'[v] = r  BY <2>1 DEF TypesOK
    <3> QED BY <3>1
  <2>2. CASE v # w
    <3>1. wr'[v] = wr[v]  BY <2>2 DEF TypesOK
    <3> QED BY <1>2, <3>1 DEF TypesOK
  <2> QED BY <2>1, <2>2
<1> QED BY <1>1, <1>3 DEF TypesOK

\* The ingest goes back to idle, or waits for a call, without touching an edge.
LEMMA QuietTyped ==
    ASSUME TypesOK, NEW w \in Writer, NEW r \in WriterRecord,
           wr' = [wr EXCEPT ![w] = r], serial' \in BOOLEAN, UNCHANGED <<edges, docs>>,
           r.pc \notin {"upsert", "flag"}, r.known = {}, r.sup = {},
           r.doc \in 0 .. Len(docs), r.pc # "idle" => r.doc # 0
    PROVE  TypesOK'
<1>1. Len(docs) \in Nat  BY DEF TypesOK
<1> QED BY <1>1, WriterTyped DEF TypesOK

\* An ingest that starts keeps the types.
LEMMA ExtractTyped ==
    ASSUME TypesOK, NEW w \in Writer, extract_edges(w)
    PROVE  TypesOK'
<1>1. PICK t \in Tag, st \in {"indexed", "unlisted"} :
        docs' = Append(docs, [tag |-> t, st |-> st])
  BY DEF extract_edges
<1>2. PICK d \in DocDate :
        wr' = [wr EXCEPT ![w] = [IdleWriter EXCEPT !.pc = "extract", !.date = d,
                                                   !.doc = Len(docs) + 1]]
  BY DEF extract_edges
<1>3. Len(docs) \in Nat /\ Len(docs) < MaxIngest /\ UNCHANGED <<edges, serial>>
  BY DEF extract_edges, TypesOK
<1>4. docs' \in Seq(DocRecord) /\ Len(docs') = Len(docs) + 1
  <2>1. [tag |-> t, st |-> st] \in DocRecord  BY DEF DocRecord
  <2> HIDE DEF DocRecord
  <2> QED BY <1>1, <2>1 DEF TypesOK
<1>5. PICK r : r = [IdleWriter EXCEPT !.pc = "extract", !.date = d, !.doc = Len(docs) + 1]
  OBVIOUS
<1>6. /\ r \in WriterRecord /\ r.pc = "extract" /\ r.doc = Len(docs) + 1
      /\ r.known = {} /\ r.sup = {}
  <2>1. IdleWriter.known = {} /\ IdleWriter.sup = {}  BY DEF IdleWriter
  <2>2. d \in Int /\ Len(docs) + 1 \in Nat  BY <1>3, GraphAssumption
  <2> QED BY <1>5, <2>1, <2>2, IdleOK DEF WriterRecord
<1>7. wr' = [wr EXCEPT ![w] = r]  BY <1>2, <1>5
<1> QED BY <1>3, <1>4, <1>6, <1>7, WriterTyped, GraphAssumption DEF TypesOK

\* What a quiet step makes of the writer: idle again, or waiting for vectors.
LEMMA QuietSteps ==
    ASSUME TypesOK, NEW w \in Writer, edges_extracted(w) \/ provider_failed(w)
    PROVE  /\ UNCHANGED <<edges, docs, serial>>
           /\ wr[w].pc \in {"extract", "embed"}
           /\ \E r \in WriterRecord :
                /\ wr' = [wr EXCEPT ![w] = r]
                /\ r.pc \in {"idle", "embed"} /\ r.known = {} /\ r.sup = {}
                /\ r.doc \in {0, wr[w].doc}
                /\ r.pc # "idle" => r.doc # 0
<1>1. /\ UNCHANGED <<edges, docs, serial>> /\ wr[w].pc \in {"extract", "embed"}
  BY DEF edges_extracted, provider_failed
<1>2. /\ IdleWriter \in WriterRecord /\ IdleWriter.pc = "idle" /\ IdleWriter.doc = 0
      /\ IdleWriter.known = {} /\ IdleWriter.sup = {}
  BY IdleOK DEF IdleWriter
<1>3. CASE wr' = [wr EXCEPT ![w] = IdleWriter]  BY <1>1, <1>2, <1>3
<1>4. CASE edges_extracted(w) /\ wr' # [wr EXCEPT ![w] = IdleWriter]
  <2>1. PICK reply \in Reply :
          wr' = [wr EXCEPT ![w] = IF parse_edges(reply, wr[w].date) = <<>> THEN IdleWriter
                   ELSE [@ EXCEPT !.pc = "embed", !.batch = parse_edges(reply, wr[w].date)]]
    BY <1>4 DEF edges_extracted
  <2>2. PICK b : b = parse_edges(reply, wr[w].date)  OBVIOUS
  <2>3. wr[w] \in WriterRecord /\ wr[w].date \in Int  BY DEF TypesOK, WriterRecord
  <2>4. b \in Seq(BatchEdge)  BY <2>2, <2>3, ParsedEdges
  <2>5. PICK r : r = [wr[w] EXCEPT !.pc = "embed", !.batch = b]  OBVIOUS
  <2>6. /\ r \in WriterRecord /\ r.pc = "embed" /\ r.known = wr[w].known
        /\ r.sup = wr[w].sup /\ r.doc = wr[w].doc
    BY <2>3, <2>4, <2>5 DEF WriterRecord
  <2>7. wr' = [wr EXCEPT ![w] = r]  BY <1>4, <2>1, <2>2, <2>5
  <2>8. wr[w].known = {} /\ wr[w].sup = {} /\ wr[w].doc # 0  BY <1>1 DEF TypesOK
  <2> QED BY <1>1, <2>6, <2>7, <2>8
<1>5. CASE provider_failed(w)  BY <1>3, <1>5 DEF provider_failed
<1> QED BY <1>3, <1>4, <1>5

\* A stored edge that a reader gets is typed and says what is stored.
LEMMA LatestTyped ==
    ASSUME TypesOK, NEW t \in Tag, NEW k \in Latest(t)
    PROVE  /\ k \in EdgeRow /\ k.id \in DOMAIN edges /\ k = edges[k.id]
           /\ k.tag = t /\ k.is_latest
<1>1. PICK i \in DOMAIN edges : edges[i] = k /\ k # Erased /\ k.tag = t /\ k.is_latest
  BY DEF Latest, Stored
<1>2. edges[i] \in EdgeRow  BY <1>1 DEF TypesOK
<1>3. k.id = i  BY <1>1 DEF TypesOK
<1> QED BY <1>1, <1>2, <1>3

\* What the read makes of the writer: it knows nothing, or what was latest.
LEMMA ReadEffect ==
    ASSUME TypesOK, NEW w \in Writer, index_edges_read(w)
    PROVE  /\ UNCHANGED <<edges, docs>> /\ serial' \in BOOLEAN /\ wr[w].pc = "embed"
           /\ wr[w].doc \in DOMAIN docs
           /\ \E r \in WriterRecord :
                /\ wr' = [wr EXCEPT ![w] = r]
                /\ r.pc = "upsert" /\ r.doc = wr[w].doc /\ r.sup = {}
                /\ r.batch = wr[w].batch
                /\ r.known \subseteq Latest(docs[wr[w].doc].tag)
                /\ serial' => /\ serial /\ r.known = Latest(docs[wr[w].doc].tag)
                              /\ ~OthersIndexing(w) /\ OneEdgePerGroup(r.batch)
<1>1. /\ wr[w] \in WriterRecord /\ wr[w].sup = {} /\ wr[w].doc \in DOMAIN docs
      /\ wr[w].pc = "embed" /\ UNCHANGED <<edges, docs>>
      /\ docs[wr[w].doc].tag \in Tag
  <2>1. wr[w].pc = "embed" /\ UNCHANGED <<edges, docs>>  BY DEF index_edges_read
  <2>2. wr[w].doc \in 0 .. Len(docs) /\ wr[w].doc # 0 /\ docs \in Seq(DocRecord)
    BY <2>1 DEF TypesOK
  <2>3. wr[w].doc \in DOMAIN docs /\ docs[wr[w].doc] \in DocRecord  BY <2>2
  <2> QED BY <2>1, <2>3 DEF TypesOK, DocRecord
<1>2. PICK known \in latest_edges(docs[wr[w].doc].tag) :
        /\ wr' = [wr EXCEPT ![w].pc = "upsert", ![w].known = known]
        /\ serial' = (/\ serial /\ known = Latest(docs[wr[w].doc].tag)
                      /\ ~OthersIndexing(w) /\ OneEdgePerGroup(wr[w].batch))
  BY DEF index_edges_read
<1>3. known \subseteq Latest(docs[wr[w].doc].tag)  BY DEF latest_edges
<1>4. known \in SUBSET EdgeRow  BY <1>1, <1>3, LatestTyped
<1>5. PICK r : r = [wr[w] EXCEPT !.pc = "upsert", !.known = known]  OBVIOUS
<1>6. wr' = [wr EXCEPT ![w] = r]  BY <1>2, <1>5 DEF TypesOK
<1>7. /\ r \in WriterRecord /\ r.pc = "upsert" /\ r.doc = wr[w].doc /\ r.sup = {}
      /\ r.batch = wr[w].batch /\ r.known = known
  BY <1>1, <1>4, <1>5 DEF WriterRecord
<1>8. serial' \in BOOLEAN  BY <1>2
<1> QED BY <1>1, <1>2, <1>3, <1>6, <1>7, <1>8

\* What a successful upsert does: it appends the points, and the writer is done
\* or goes on with the ids that its batch supersedes.
SupOf(w) == UNION {Supersedes(wr[w].batch[i], wr[w].known) : i \in DOMAIN wr[w].batch}

\* The ids to supersede are those of singular rivals the writer read.
LEMMA SupersededAreKnown ==
    ASSUME NEW w \in Writer, NEW id \in SupOf(w)
    PROVE  \E i \in DOMAIN wr[w].batch, k \in wr[w].known :
              /\ id = k.id /\ wr[w].batch[i].singular
              /\ k.subject = wr[w].batch[i].subject
              /\ k.predicate = wr[w].batch[i].predicate
              /\ k.object # wr[w].batch[i].object
              /\ wr[w].batch[i].from >= k.from
<1>1. PICK i \in DOMAIN wr[w].batch : id \in Supersedes(wr[w].batch[i], wr[w].known)
  BY DEF SupOf
<1>2. PICK b, K : b = wr[w].batch[i] /\ K = wr[w].known  OBVIOUS
<1>3. b.singular /\ \E k \in Rivals(b, K) : id = k.id /\ k.object # b.object /\ b.from >= k.from
  BY <1>1, <1>2 DEF Supersedes
<1> QED BY <1>2, <1>3 DEF Rivals

\* What the upsert does to the graph and to its writer.
LEMMA UpsertEffect ==
    ASSUME TypesOK, KnownIsStored, NEW w \in Writer, index_edges_upsert(w)
    PROVE  /\ wr[w].pc = "upsert" /\ UNCHANGED docs
           /\ \/ UNCHANGED <<edges, serial>> /\ wr' = [wr EXCEPT ![w] = IdleWriter]
              \/ /\ edges' = edges \o [i \in DOMAIN wr[w].batch |-> Point(w, i)]
                 /\ \E r \in WriterRecord :
                      /\ wr' = [wr EXCEPT ![w] = r]
                      /\ r.pc \in {"idle", "flag"} /\ r.sup \subseteq SupOf(w)
                      /\ r.sup \subseteq DOMAIN edges /\ r.doc \in {0, wr[w].doc}
                      /\ r.pc = "idle" => r.sup = {} /\ r.known = {}
                      /\ r.pc = "flag" => r.doc = wr[w].doc /\ r.known = wr[w].known
                      /\ serial' = FALSE \/ (r.sup = SupOf(w) /\ serial' = serial)
<1>1. wr[w].pc = "upsert" /\ UNCHANGED docs  BY DEF index_edges_upsert
<1>2. wr[w] \in WriterRecord  BY DEF TypesOK
<1>3. SupOf(w) \subseteq DOMAIN edges
  BY SupersededAreKnown DEF KnownIsStored
<1>4. SupOf(w) \in SUBSET Nat  BY <1>3 DEF TypesOK
<1>5. CASE UNCHANGED <<edges, serial>> /\ wr' = [wr EXCEPT ![w] = IdleWriter]
  BY <1>1, <1>5
<1>6. IdleWriter.pc = "idle" /\ IdleWriter.sup = {} /\ IdleWriter.known = {}
            /\ IdleWriter.doc = 0
  BY DEF IdleWriter
<1>7. CASE /\ edges' = edges \o [i \in DOMAIN wr[w].batch |-> Point(w, i)]
           /\ wr' = [wr EXCEPT ![w] = IF SupOf(w) = {} THEN IdleWriter
                        ELSE [@ EXCEPT !.pc = "flag", !.sup = SupOf(w)]]
           /\ UNCHANGED serial
  <2>1. CASE SupOf(w) = {}  BY <1>1, <1>6, <1>7, <2>1, IdleOK
  <2>2. CASE SupOf(w) # {}
    <3>1. PICK r : r = [wr[w] EXCEPT !.pc = "flag", !.sup = SupOf(w)]  OBVIOUS
    <3>2. /\ r \in WriterRecord /\ r.pc = "flag" /\ r.sup = SupOf(w)
          /\ r.doc = wr[w].doc /\ r.known = wr[w].known
      BY <1>2, <1>4, <3>1 DEF WriterRecord
    <3>3. wr' = [wr EXCEPT ![w] = r]  BY <1>7, <2>2, <3>1
    <3> QED BY <1>1, <1>3, <1>7, <3>2, <3>3
  <2> QED BY <2>1, <2>2
<1>8. CASE /\ edges' = edges \o [i \in DOMAIN wr[w].batch |-> Point(w, i)]
           /\ wr' = [wr EXCEPT ![w] = IdleWriter] /\ serial' = FALSE
  <2>1. /\ IdleWriter.pc \in {"idle", "flag"} /\ IdleWriter.sup \subseteq SupOf(w)
        /\ IdleWriter.sup \subseteq DOMAIN edges /\ IdleWriter.doc \in {0, wr[w].doc}
    BY <1>6
  <2> QED BY <1>1, <1>6, <1>8, <2>1, IdleOK
<1> QED BY <1>5, <1>7, <1>8 DEF index_edges_upsert, SupOf

\* An edge without its latest flag is otherwise the edge.
LEMMA UnflaggedEdge ==
    ASSUME NEW e \in EdgeRow, NEW f, f = [e EXCEPT !.is_latest = FALSE]
    PROVE  /\ f \in EdgeRow /\ f # Erased /\ ~f.is_latest /\ f.doc = e.doc
           /\ SameEdge(f, e) /\ group_key(f) = group_key(e)
<1>1. f \in EdgeRow  BY DEF EdgeRow
<1>2. f.id # Erased.id  BY <1>1 DEF EdgeRow, Erased
<1>3. /\ f.id = e.id /\ f.tag = e.tag /\ f.doc = e.doc /\ f.subject = e.subject
      /\ f.predicate = e.predicate /\ f.object = e.object /\ f.from = e.from
      /\ f.singular = e.singular /\ f.is_latest = FALSE
  BY DEF EdgeRow
<1> QED BY <1>1, <1>2, <1>3 DEF SameEdge, group_key

\* What the flags do: they take the latest flag from the stored edges named.
LEMMA FlagEffect ==
    ASSUME TypesOK, NEW w \in Writer, index_edges_flag(w)
    PROVE  /\ wr[w].pc = "flag" /\ UNCHANGED docs
           /\ wr' = [wr EXCEPT ![w] = IdleWriter] /\ serial' \in BOOLEAN
           /\ edges' \in Seq(EdgeRow \cup {Erased}) /\ DOMAIN edges' = DOMAIN edges
           /\ \/ UNCHANGED edges /\ ~serial'
              \/ /\ UNCHANGED serial
                 /\ \A i \in DOMAIN edges :
                      edges'[i] = IF edges[i] # Erased /\ i \in wr[w].sup
                                  THEN [edges[i] EXCEPT !.is_latest = FALSE]
                                  ELSE edges[i]
<1>1. /\ wr[w].pc = "flag" /\ UNCHANGED docs /\ wr' = [wr EXCEPT ![w] = IdleWriter]
      /\ \/ edges' = Flagged(wr[w].sup) /\ UNCHANGED serial
         \/ ~serial' /\ serial' \in BOOLEAN /\ UNCHANGED edges
  BY DEF index_edges_flag
<1>2. CASE UNCHANGED edges /\ ~serial' /\ serial' \in BOOLEAN  BY <1>1, <1>2 DEF TypesOK
<1>3. CASE edges' = Flagged(wr[w].sup) /\ UNCHANGED serial
  <2>1. \A i \in DOMAIN edges : i # 0  BY DEF TypesOK
  <2>2. ASSUME NEW i \in DOMAIN edges
        PROVE  Flagged(wr[w].sup)[i] =
                 IF edges[i] # Erased /\ i \in wr[w].sup
                 THEN [edges[i] EXCEPT !.is_latest = FALSE] ELSE edges[i]
    <3>1. edges[i] = Erased => edges[i].id \notin wr[w].sup
      BY <2>1 DEF Erased, TypesOK
    <3>2. edges[i] # Erased => edges[i].id = i  BY DEF TypesOK
    <3> QED BY <3>1, <3>2 DEF Flagged
  <2>3. \A i \in DOMAIN edges : Flagged(wr[w].sup)[i] \in EdgeRow \cup {Erased}
    <3> SUFFICES ASSUME NEW i \in DOMAIN edges
                 PROVE  Flagged(wr[w].sup)[i] \in EdgeRow \cup {Erased}
      OBVIOUS
    <3>1. edges \in Seq(EdgeRow \cup {Erased})  BY DEF TypesOK
    <3>2. edges[i] \in EdgeRow \cup {Erased}  BY <3>1
    <3>3. edges[i] # Erased => [edges[i] EXCEPT !.is_latest = FALSE] \in EdgeRow
      BY <3>2, UnflaggedEdge
    <3> QED BY <2>2, <3>2, <3>3
  <2>4. DOMAIN Flagged(wr[w].sup) = DOMAIN edges  BY DEF Flagged
  <2>5. edges' \in Seq(EdgeRow \cup {Erased})
    <3>1. PICK n \in Nat : DOMAIN edges = 1 .. n  BY DEF TypesOK
    <3>2. PICK E, f : E = EdgeRow \cup {Erased} /\ f = edges'  OBVIOUS
    <3>3. f = [i \in 1 .. n |-> f[i]] /\ \A i \in 1 .. n : f[i] \in E
      BY <1>3, <2>3, <2>4, <3>1, <3>2 DEF Flagged
    <3>4. f \in Seq(E)  BY <3>3
    <3> QED BY <3>2, <3>4
  <2>6. serial' \in BOOLEAN  BY <1>3 DEF TypesOK
  <2> QED BY <1>1, <1>3, <2>2, <2>4, <2>5, <2>6
<1> QED BY <1>1, <1>2, <1>3

\* Replacing a member of a sequence.
Replaced(t, s, n, r, S) ==
    /\ t \in Seq(S) /\ Len(t) = Len(s) /\ t[n] = r
    /\ \A m \in DOMAIN s : m # n => t[m] = s[m]

\* Replacing one item of a sequence leaves the others.
LEMMA ReplacedAt ==
    ASSUME NEW S, NEW s \in Seq(S), NEW n \in DOMAIN s, NEW r \in S
    PROVE  Replaced([s EXCEPT ![n] = r], s, n, r, S)
BY DEF Replaced

\* What a delete does: it erases the edges of its document, and no others.
LEMMA DeleteEffect ==
    ASSUME TypesOK, EdgesOwned, NEW n \in DOMAIN docs, delete_document_tagged(n)
    PROVE  /\ UNCHANGED <<wr, calls>> /\ ~serial' /\ serial' \in BOOLEAN
           /\ docs[n].st = "indexed" /\ docs' \in Seq(DocRecord) /\ Len(docs') = Len(docs)
           /\ \A m \in DOMAIN docs : docs'[m].tag = docs[m].tag /\
                (m # n => docs'[m] = docs[m])
           /\ docs'[n].st = "deleted" => \A w \in Writer : wr[w].doc # n
           /\ docs'[n].st \in {"deleted", "deleted_early"}
           /\ edges' \in Seq(EdgeRow \cup {Erased}) /\ DOMAIN edges' = DOMAIN edges
           /\ \A i \in DOMAIN edges :
                edges'[i] = IF edges[i] # Erased /\ edges[i].doc = n
                            THEN Erased ELSE edges[i]
<1>1. /\ UNCHANGED <<wr, calls>> /\ ~serial' /\ serial' \in BOOLEAN
      /\ docs[n].st = "indexed"
      /\ edges' = [i \in DOMAIN edges |->
                    IF edges[i] # Erased /\ edges[i].tag = docs[n].tag /\ edges[i].doc = n
                    THEN Erased ELSE edges[i]]
  BY DEF delete_document_tagged
<1>2. PICK st \in {"deleted", "deleted_early"} :
        /\ docs' = [docs EXCEPT ![n].st = st]
        /\ st = "deleted" => \A w \in Writer : wr[w].doc # n
  BY DEF delete_document_tagged
<1>3. docs \in Seq(DocRecord) /\ docs[n] \in DocRecord
  <2>1. docs \in Seq(DocRecord)  BY DEF TypesOK
  <2>2. \A m \in DOMAIN docs : docs[m] \in DocRecord  BY <2>1
  <2> QED BY <2>1, <2>2
<1>4. PICK r : r = [docs[n] EXCEPT !.st = st]  OBVIOUS
<1>5. docs' = [docs EXCEPT ![n] = r]  BY <1>2, <1>4
<1>6. r \in DocRecord /\ r.st = st /\ r.tag = docs[n].tag  BY <1>3, <1>4 DEF DocRecord
<1>7. /\ docs' \in Seq(DocRecord) /\ Len(docs') = Len(docs) /\ docs'[n] = r
      /\ \A m \in DOMAIN docs : m # n => docs'[m] = docs[m]
  <2> HIDE DEF DocRecord
  <2>1. PICK S : S = DocRecord  OBVIOUS
  <2>2. PICK s \in Seq(S) : s = docs  BY <1>3, <2>1
  <2>3. n \in DOMAIN s /\ r \in S  BY <1>6, <2>1, <2>2
  <2>4. Replaced([s EXCEPT ![n] = r], s, n, r, S)  BY <2>3, ReplacedAt
  <2> QED BY <1>5, <2>1, <2>2, <2>4 DEF Replaced
<1>8. \A i \in DOMAIN edges :
        edges'[i] = IF edges[i] # Erased /\ edges[i].doc = n THEN Erased ELSE edges[i]
  BY <1>1 DEF EdgesOwned
<1>9. edges' \in Seq(EdgeRow \cup {Erased}) /\ DOMAIN edges' = DOMAIN edges
  <2>0. edges \in Seq(EdgeRow \cup {Erased})  BY DEF TypesOK
  <2>1. PICK k : k \in Nat /\ k = Len(edges) /\ DOMAIN edges = 1 .. k  BY <2>0
  <2>2. PICK E, f : E = EdgeRow \cup {Erased} /\ f = edges'  OBVIOUS
  <2>3. f = [i \in 1 .. k |-> f[i]] /\ \A i \in 1 .. k : f[i] \in E
    <3>1. \A i \in 1 .. k : edges[i] \in E  BY <2>0, <2>1, <2>2
    <3>2. \A i \in 1 .. k : f[i] \in E  BY <1>8, <2>1, <2>2, <3>1
    <3>3. f = [i \in 1 .. k |-> f[i]]  BY <1>1, <2>1, <2>2
    <3> QED BY <3>2, <3>3
  <2>4. f \in Seq(E)  BY <2>1, <2>3
  <2> QED BY <1>1, <2>2, <2>4
<1> QED BY <1>1, <1>2, <1>6, <1>7, <1>8, <1>9

\* Every step keeps the types.
LEMMA TypesStep ==
    ASSUME TypesOK, EdgesOwned, KnownIsStored, [Next]_vars
    PROVE  TypesOK'
<1>1. ASSUME NEW w \in Writer, extract_edges(w) PROVE TypesOK'
  BY <1>1, ExtractTyped
<1>2. ASSUME NEW w \in Writer, edges_extracted(w) \/ provider_failed(w) PROVE TypesOK'
  <2>1. PICK r \in WriterRecord :
                /\ wr' = [wr EXCEPT ![w] = r]
                /\ r.pc \in {"idle", "embed"} /\ r.known = {} /\ r.sup = {}
                /\ r.doc \in {0, wr[w].doc}
                /\ r.pc # "idle" => r.doc # 0
    BY <1>2, QuietSteps
  <2>2. UNCHANGED <<edges, docs, serial>>  BY <1>2, QuietSteps
  <2>3. r.doc \in 0 .. Len(docs) /\ serial' \in BOOLEAN
    <3>1. wr[w].doc \in 0 .. Len(docs) /\ Len(docs) \in Nat /\ serial \in BOOLEAN
      BY DEF TypesOK
    <3>2. 0 \in 0 .. Len(docs)  BY <3>1
    <3> QED BY <2>1, <2>2, <3>1, <3>2
  <2> QED BY <2>1, <2>2, <2>3, QuietTyped
<1>3. ASSUME NEW w \in Writer, index_edges_read(w) PROVE TypesOK'
  <2>1. PICK r \in WriterRecord :
                /\ wr' = [wr EXCEPT ![w] = r]
                /\ r.pc = "upsert" /\ r.doc = wr[w].doc /\ r.sup = {}
    BY <1>3, ReadEffect
  <2>2. UNCHANGED <<edges, docs>> /\ serial' \in BOOLEAN /\ wr[w].doc \in DOMAIN docs
    BY <1>3, ReadEffect
  <2>3. /\ wr[w].doc \in 1 .. Len(docs) /\ Len(docs) \in Nat  BY <2>2 DEF TypesOK
  <2> QED BY <2>1, <2>2, <2>3, WriterTyped DEF TypesOK
<1>4. ASSUME NEW w \in Writer, index_edges_upsert(w) PROVE TypesOK'
  <2>1. wr[w].pc = "upsert" /\ UNCHANGED docs  BY <1>4, UpsertEffect
  <2>4. serial' \in BOOLEAN  BY <1>4, UpsertEffect DEF TypesOK
  <2>2. CASE UNCHANGED <<edges, serial>> /\ wr' = [wr EXCEPT ![w] = IdleWriter]
    BY <2>1, <2>2, IdleOK, QuietTyped DEF TypesOK, IdleWriter
  <2>3. ASSUME NEW r \in WriterRecord,
               edges' = edges \o [i \in DOMAIN wr[w].batch |-> Point(w, i)],
               wr' = [wr EXCEPT ![w] = r], r.pc \in {"idle", "flag"},
               r.sup \subseteq DOMAIN edges, r.doc \in {0, wr[w].doc},
               r.pc = "idle" => r.sup = {} /\ r.known = {},
               r.pc = "flag" => r.doc = wr[w].doc /\ r.known = wr[w].known
        PROVE  TypesOK'
    <3>1. edges' \in Seq(EdgeRow \cup {Erased}) /\ DOMAIN edges \subseteq DOMAIN edges'
      BY <2>1, <2>3, UpsertAppends
    <3>2. ASSUME NEW k \in DOMAIN edges' PROVE edges'[k] = Erased \/ edges'[k].id = k
      <4>1. k \in DOMAIN edges \/ \E i \in DOMAIN wr[w].batch : k = Len(edges) + i
        BY <2>1, <2>3, UpsertAppends
      <4>2. CASE k \in DOMAIN edges
        BY <2>1, <2>3, <4>2, UpsertAppends DEF TypesOK
      <4>3. ASSUME NEW i \in DOMAIN wr[w].batch, k = Len(edges) + i
            PROVE  edges'[k].id = k
        BY <2>1, <2>3, <4>3, UpsertAppends, PointsTyped
      <4> QED BY <4>1, <4>2, <4>3
    <3>3. wr[w].doc \in 0 .. Len(docs) /\ wr[w].doc # 0 /\ Len(docs) \in Nat
      BY <2>1 DEF TypesOK
    <3>4. r.doc \in 0 .. Len(docs')  BY <2>1, <2>3, <3>3
    <3>5. /\ docs' \in Seq(DocRecord) /\ Len(docs') <= MaxIngest /\ Len(docs) <= Len(docs')
          /\ serial' \in BOOLEAN
      BY <2>1, <2>4, <3>3 DEF TypesOK
    <3>6. r.sup \subseteq DOMAIN edges'  BY <2>3, <3>1
    <3>7. /\ r.pc # "idle" => r.doc # 0
          /\ r.pc # "flag" => r.sup = {}
          /\ r.pc \notin {"upsert", "flag"} => r.known = {}
      BY <2>3, <3>3
    <3> QED BY <2>3, <3>1, <3>2, <3>4, <3>5, <3>6, <3>7, WriterTyped
  <2> QED BY <1>4, <2>2, <2>3, UpsertEffect
<1>5. ASSUME NEW w \in Writer, index_edges_flag(w) PROVE TypesOK'
  <2>1. /\ UNCHANGED docs /\ wr' = [wr EXCEPT ![w] = IdleWriter] /\ serial' \in BOOLEAN
        /\ edges' \in Seq(EdgeRow \cup {Erased}) /\ DOMAIN edges' = DOMAIN edges
    BY <1>5, FlagEffect
  <2>2. ASSUME NEW i \in DOMAIN edges' PROVE edges'[i] = Erased \/ edges'[i].id = i
    <3>1. CASE edges[i] = Erased  BY <1>5, <2>1, <3>1, FlagEffect
    <3>2. CASE edges[i] # Erased
      <4>1. edges[i] \in EdgeRow /\ edges[i].id = i  BY <2>1, <3>2 DEF TypesOK
      <4>2. edges'[i] \in {edges[i], [edges[i] EXCEPT !.is_latest = FALSE]}
        BY <1>5, <2>1, FlagEffect
      <4>3. [edges[i] EXCEPT !.is_latest = FALSE].id = i
        BY <4>1, UnflaggedEdge DEF SameEdge
      <4> QED BY <4>1, <4>2, <4>3
    <3> QED BY <3>1, <3>2
  <2>3. IdleWriter.doc = 0 /\ IdleWriter.sup = {} /\ IdleWriter.known = {}
          /\ IdleWriter.pc = "idle"
    BY DEF IdleWriter
  <2>4. Len(docs) \in Nat /\ Len(docs) <= MaxIngest /\ docs \in Seq(DocRecord)
    BY DEF TypesOK
  <2>5. 0 \in 0 .. Len(docs') /\ Len(docs') <= MaxIngest /\ Len(docs) <= Len(docs')
          /\ docs' \in Seq(DocRecord)
    BY <2>1, <2>4
  <2> QED BY <2>1, <2>2, <2>3, <2>5, IdleOK, WriterTyped
<1>6. ASSUME NEW n \in DOMAIN docs, delete_document_tagged(n) PROVE TypesOK'
  <2>1. /\ UNCHANGED wr /\ serial' \in BOOLEAN
        /\ docs' \in Seq(DocRecord) /\ Len(docs') = Len(docs)
        /\ edges' \in Seq(EdgeRow \cup {Erased}) /\ DOMAIN edges' = DOMAIN edges
    BY <1>6, DeleteEffect
  <2>2. \A i \in DOMAIN edges : edges'[i] \in {Erased, edges[i]}
    BY <1>6, DeleteEffect
  <2> QED BY <2>1, <2>2 DEF TypesOK
<1>7. CASE UNCHANGED graphVars  BY <1>7 DEF TypesOK, graphVars
<1> QED
  BY <1>1, <1>2, <1>3, <1>4, <1>5, <1>6, <1>7 DEF Next, IngestStep, AgentStep, vars

-----------------------------------------------------------------------------
\* What a step may do, whichever it is.

Unflagged(i) == edges'[i] = [edges[i] EXCEPT !.is_latest = FALSE]

\* An edge stays, is erased, or loses its flag to a writer that names it.
EdgesMove ==
    \A i \in DOMAIN edges :
        /\ i \in DOMAIN edges'
        /\ \/ edges'[i] = edges[i]
           \/ edges'[i] = Erased
           \/ edges[i] # Erased /\ Unflagged(i) /\ \E w \in Writer : i \in wr[w].sup

Appends(w) == wr[w].pc = "upsert" /\
              edges' = edges \o [i \in DOMAIN wr[w].batch |-> Point(w, i)]

\* A new edge is a point of a writer that upserts.
EdgesArrive ==
    \A k \in DOMAIN edges' : k \in DOMAIN edges \/
        \E w \in Writer : \E i \in DOMAIN wr[w].batch :
            Appends(w) /\ k = Len(edges) + i /\ edges'[k] = Point(w, i)

\* Documents stay where they are; a deleted one is gone at once.
DocsMove ==
    /\ \A m \in DOMAIN docs : m \in DOMAIN docs' /\ docs'[m].tag = docs[m].tag
    /\ \A m \in DOMAIN docs' : docs'[m].st = "deleted" =>
          /\ m \in DOMAIN docs
          /\ docs[m].st # "deleted" =>
                /\ \A w \in Writer : wr'[w].doc # m
                /\ \A i \in DOMAIN edges' : edges'[i] # Erased => edges'[i].doc # m
    /\ Undeleted' =>
          Undeleted /\ \A i \in DOMAIN edges : edges[i] # Erased => edges'[i] # Erased

\* What a writer knows it read now or before; what it supersedes it found out
\* when its batch was stored.
WritersMove ==
    \A v \in Writer :
        /\ wr'[v].doc \in {0, wr[v].doc, Len(docs) + 1}
        /\ \A k \in wr'[v].known :
              /\ wr'[v].doc = wr[v].doc /\ wr[v].doc \in DOMAIN docs
              /\ k \in wr[v].known \/ k \in Latest(docs[wr[v].doc].tag)
        /\ \A i \in wr'[v].sup : i \in wr[v].sup \/ (i \in SupOf(v) /\ Appends(v))

\* A writer at work, and one that knows an edge, has a document.
LEMMA BusyHasDoc ==
    ASSUME TypesOK, NEW w \in Writer, wr[w].pc # "idle"
    PROVE  wr[w].doc \in DOMAIN docs
<1>1. wr[w].doc \in 0 .. Len(docs) /\ wr[w].doc # 0 /\ docs \in Seq(DocRecord)
  BY DEF TypesOK
<1> QED BY <1>1

\* A writer that knows an edge has a document.
LEMMA KnownHasDoc ==
    ASSUME TypesOK, NEW w \in Writer, wr[w].known # {}
    PROVE  wr[w].doc \in DOMAIN docs
<1>1. wr[w].pc # "idle"  BY DEF TypesOK
<1> QED BY <1>1, BusyHasDoc

\* Steps that leave the edges and documents alone.
LEMMA StillMoves ==
    ASSUME TypesOK, UNCHANGED <<edges, docs>>
    PROVE  EdgesMove /\ EdgesArrive /\ DocsMove
<1>1. EdgesMove  BY DEF EdgesMove
<1>2. EdgesArrive  BY DEF EdgesArrive
<1>3. DocsMove  BY DEF DocsMove, Undeleted
<1> QED BY <1>1, <1>2, <1>3

\* A writer that ends or goes on without what it knew.
LEMMA WriterMoves ==
    ASSUME TypesOK, NEW w \in Writer, NEW r, wr' = [wr EXCEPT ![w] = r],
           r.doc \in {0, wr[w].doc, Len(docs) + 1},
           \A k \in r.known :
              /\ r.doc = wr[w].doc /\ wr[w].doc \in DOMAIN docs
              /\ k \in wr[w].known \/ k \in Latest(docs[wr[w].doc].tag),
           \A i \in r.sup : i \in wr[w].sup \/ (i \in SupOf(w) /\ Appends(w))
    PROVE  WritersMove
<1> SUFFICES ASSUME NEW v \in Writer
             PROVE
        /\ wr'[v].doc \in {0, wr[v].doc, Len(docs) + 1}
        /\ \A k \in wr'[v].known :
              /\ wr'[v].doc = wr[v].doc /\ wr[v].doc \in DOMAIN docs
              /\ k \in wr[v].known \/ k \in Latest(docs[wr[v].doc].tag)
        /\ \A i \in wr'[v].sup : i \in wr[v].sup \/ (i \in SupOf(v) /\ Appends(v))
  BY DEF WritersMove
<1>1. CASE v = w
  <2>1. wr'[v] = r  BY <1>1 DEF TypesOK
  <2> QED BY <1>1, <2>1
<1>2. CASE v # w
  <2>1. wr'[v] = wr[v]  BY <1>2 DEF TypesOK
  <2>2. wr[v].known # {} => wr[v].doc \in DOMAIN docs  BY KnownHasDoc
  <2> QED BY <2>1, <2>2
<1> QED BY <1>1, <1>2

\* A writer that goes idle moves no edge.
LEMMA IdleMoves ==
    ASSUME TypesOK, NEW w \in Writer, wr' = [wr EXCEPT ![w] = IdleWriter]
    PROVE  WritersMove
<1>1. IdleWriter.doc = 0 /\ IdleWriter.known = {} /\ IdleWriter.sup = {}
  BY DEF IdleWriter
<1> QED BY <1>1, WriterMoves

\* Starting an ingest adds a document and moves no edge.
LEMMA ExtractMoves ==
    ASSUME TypesOK, NEW w \in Writer, extract_edges(w)
    PROVE  EdgesMove /\ EdgesArrive /\ DocsMove /\ WritersMove
<1>1. UNCHANGED edges  BY DEF extract_edges
<1>2. EdgesMove /\ EdgesArrive  BY <1>1 DEF EdgesMove, EdgesArrive
<1>3. PICK d \in DocDate :
        wr' = [wr EXCEPT ![w] = [IdleWriter EXCEPT !.pc = "extract", !.date = d,
                                                   !.doc = Len(docs) + 1]]
  BY DEF extract_edges
<1>4. PICK r : r = [IdleWriter EXCEPT !.pc = "extract", !.date = d, !.doc = Len(docs) + 1]
  OBVIOUS
<1>5. r.doc = Len(docs) + 1 /\ r.known = {} /\ r.sup = {}
  BY <1>4 DEF IdleWriter
<1>6. WritersMove
  <2>1. wr' = [wr EXCEPT ![w] = r]  BY <1>3, <1>4
  <2> QED BY <1>5, <2>1, WriterMoves
<1>7. DocsMove
  <2>1. PICK new : /\ docs' = Append(docs, new) /\ new.st \in {"indexed", "unlisted"}
    BY DEF extract_edges
  <2>2. docs \in Seq(DocRecord)  BY DEF TypesOK
  <2>3. /\ \A m \in DOMAIN docs : m \in DOMAIN docs' /\ docs'[m] = docs[m]
        /\ \A m \in DOMAIN docs' : m \in DOMAIN docs \/ docs'[m] = new
    BY <2>1, <2>2
  <2> QED BY <1>1, <2>1, <2>3 DEF DocsMove, Undeleted
<1> QED BY <1>2, <1>6, <1>7

\* The upsert adds edges of its document and moves none.
LEMMA UpsertMoves ==
    ASSUME TypesOK, KnownIsStored, NEW w \in Writer, index_edges_upsert(w)
    PROVE  EdgesMove /\ EdgesArrive /\ DocsMove /\ WritersMove
<1>1. wr[w].pc = "upsert" /\ UNCHANGED docs  BY UpsertEffect
<1>2. CASE UNCHANGED <<edges, serial>> /\ wr' = [wr EXCEPT ![w] = IdleWriter]
  BY <1>1, <1>2, StillMoves, IdleMoves
<1>3. ASSUME NEW r \in WriterRecord,
             edges' = edges \o [i \in DOMAIN wr[w].batch |-> Point(w, i)],
             wr' = [wr EXCEPT ![w] = r], r.pc \in {"idle", "flag"},
             r.sup \subseteq SupOf(w), r.doc \in {0, wr[w].doc},
             r.pc = "idle" => r.sup = {} /\ r.known = {},
             r.pc = "flag" => r.doc = wr[w].doc /\ r.known = wr[w].known
      PROVE  EdgesMove /\ EdgesArrive /\ DocsMove /\ WritersMove
  <2>1. Appends(w)  BY <1>1, <1>3 DEF Appends
  <2>2. EdgesMove  BY <1>1, <1>3, UpsertAppends DEF EdgesMove
  <2>3. EdgesArrive
    <3> SUFFICES ASSUME NEW k \in DOMAIN edges', k \notin DOMAIN edges
                 PROVE  \E i \in DOMAIN wr[w].batch :
                          k = Len(edges) + i /\ edges'[k] = Point(w, i)
      BY <2>1 DEF EdgesArrive
    <3>1. PICK i \in DOMAIN wr[w].batch : k = Len(edges) + i
      BY <1>1, <1>3, UpsertAppends
    <3>2. edges'[Len(edges) + i] = Point(w, i)  BY <1>1, <1>3, UpsertAppends
    <3> QED BY <3>1, <3>2
  <2>4. DocsMove
    <3>1. \A i \in DOMAIN edges : edges'[i] = edges[i]  BY <1>1, <1>3, UpsertAppends
    <3> QED BY <1>1, <3>1 DEF DocsMove, Undeleted
  <2>5. WritersMove
    <3>1. wr[w].doc \in DOMAIN docs  BY <1>1, BusyHasDoc
    <3>2. \A k \in r.known : r.doc = wr[w].doc /\ k \in wr[w].known  BY <1>3
    <3>3. r.doc \in {0, wr[w].doc, Len(docs) + 1}  BY <1>3
    <3>4. \A i \in r.sup : i \in SupOf(w)  BY <1>3
    <3> QED BY <1>3, <2>1, <3>1, <3>2, <3>3, <3>4, WriterMoves
  <2> QED BY <2>2, <2>3, <2>4, <2>5
<1> QED BY <1>2, <1>3, UpsertEffect

\* What any step can do to the edges, the documents and the writers.
LEMMA StepMoves ==
    ASSUME TypesOK, EdgesOwned, KnownIsStored, [Next]_vars
    PROVE  EdgesMove /\ EdgesArrive /\ DocsMove /\ WritersMove
<1>1. ASSUME NEW w \in Writer, edges_extracted(w) \/ provider_failed(w)
      PROVE  EdgesMove /\ EdgesArrive /\ DocsMove /\ WritersMove
  <2>1. UNCHANGED <<edges, docs>>  BY <1>1, QuietSteps
  <2>2. PICK r \in WriterRecord :
                /\ wr' = [wr EXCEPT ![w] = r]
                /\ r.known = {} /\ r.sup = {} /\ r.doc \in {0, wr[w].doc}
    BY <1>1, QuietSteps
  <2>3. r.doc \in {0, wr[w].doc, Len(docs) + 1}  BY <2>2
  <2> QED BY <2>1, <2>2, <2>3, StillMoves, WriterMoves
<1>2. ASSUME NEW w \in Writer, index_edges_read(w)
      PROVE  EdgesMove /\ EdgesArrive /\ DocsMove /\ WritersMove
  <2>1. UNCHANGED <<edges, docs>> /\ wr[w].doc \in DOMAIN docs  BY <1>2, ReadEffect
  <2>2. PICK r \in WriterRecord :
                /\ wr' = [wr EXCEPT ![w] = r]
                /\ r.doc = wr[w].doc /\ r.sup = {}
                /\ r.known \subseteq Latest(docs[wr[w].doc].tag)
    BY <1>2, ReadEffect
  <2>3. r.doc \in {0, wr[w].doc, Len(docs) + 1}  BY <2>2
  <2>4. \A k \in r.known : k \in Latest(docs[wr[w].doc].tag)  BY <2>2
  <2> QED BY <2>1, <2>2, <2>3, <2>4, StillMoves, WriterMoves
<1>3. ASSUME NEW w \in Writer, index_edges_flag(w)
      PROVE  EdgesMove /\ EdgesArrive /\ DocsMove /\ WritersMove
  <2>1. UNCHANGED docs /\ wr' = [wr EXCEPT ![w] = IdleWriter] /\ DOMAIN edges' = DOMAIN edges
    BY <1>3, FlagEffect
  <2>2. ASSUME NEW i \in DOMAIN edges
        PROVE  \/ edges'[i] = edges[i]
               \/ edges[i] # Erased /\ Unflagged(i) /\ i \in wr[w].sup
    BY <1>3, FlagEffect DEF Unflagged
  <2>3. EdgesMove  BY <2>1, <2>2 DEF EdgesMove
  <2>4. EdgesArrive  BY <2>1 DEF EdgesArrive
  <2>5. ASSUME NEW i \in DOMAIN edges, edges[i] # Erased  PROVE edges'[i] # Erased
    <3>1. edges[i] \in EdgeRow  BY <2>5 DEF TypesOK
    <3> QED BY <2>2, <2>5, <3>1, UnflaggedEdge DEF Unflagged
  <2>6. DocsMove  BY <2>1, <2>5 DEF DocsMove, Undeleted
  <2> QED BY <2>1, <2>3, <2>4, <2>6, IdleMoves
<1>4. ASSUME NEW n \in DOMAIN docs, delete_document_tagged(n)
      PROVE  EdgesMove /\ EdgesArrive /\ DocsMove /\ WritersMove
  <2>1. /\ UNCHANGED wr /\ Len(docs') = Len(docs) /\ docs' \in Seq(DocRecord)
        /\ \A m \in DOMAIN docs : docs'[m].tag = docs[m].tag /\
                (m # n => docs'[m] = docs[m])
        /\ docs'[n].st = "deleted" => \A w \in Writer : wr[w].doc # n
        /\ docs'[n].st \in {"deleted", "deleted_early"}
        /\ DOMAIN edges' = DOMAIN edges
        /\ \A i \in DOMAIN edges :
                edges'[i] = IF edges[i] # Erased /\ edges[i].doc = n
                            THEN Erased ELSE edges[i]
    BY <1>4, DeleteEffect
  <2>2. DOMAIN docs' = DOMAIN docs  BY <2>1 DEF TypesOK
  <2>3. EdgesMove  BY <2>1 DEF EdgesMove
  <2>4. EdgesArrive  BY <2>1 DEF EdgesArrive
  <2>5. ~Undeleted'  BY <1>4, <2>1, <2>2 DEF Undeleted
  <2>6. DocsMove  BY <1>4, <2>1, <2>2, <2>5 DEF DocsMove
  <2>7. WritersMove  BY <2>1, KnownHasDoc DEF WritersMove
  <2> QED BY <2>3, <2>4, <2>6, <2>7
<1>5. CASE UNCHANGED graphVars
  <2>1. UNCHANGED <<edges, wr, docs>>  BY <1>5 DEF graphVars
  <2>2. WritersMove  BY <2>1, KnownHasDoc DEF WritersMove
  <2> QED BY <2>1, <2>2, StillMoves
<1> QED
  BY <1>1, <1>2, <1>3, <1>4, <1>5, ExtractMoves, UpsertMoves
  DEF Next, IngestStep, AgentStep, vars, graphVars

-----------------------------------------------------------------------------
\* The parts of the invariant, one step each.

\* Every step keeps the edges owned.
LEMMA OwnedStep ==
    ASSUME TypesOK, EdgesOwned, EdgesMove, EdgesArrive, DocsMove
    PROVE  EdgesOwned'
<1> SUFFICES ASSUME NEW i \in DOMAIN edges', edges'[i] # Erased
             PROVE  edges'[i].doc \in DOMAIN docs' /\ edges'[i].tag = docs'[edges'[i].doc].tag
  BY DEF EdgesOwned
<1>1. CASE i \in DOMAIN edges
  <2>1. edges[i] # Erased  BY <1>1, UnflaggedEdge DEF EdgesMove
  <2>2. edges[i] \in EdgeRow  BY <1>1, <2>1 DEF TypesOK
  <2>3. edges'[i].doc = edges[i].doc /\ edges'[i].tag = edges[i].tag
    BY ZenonT(40), <1>1, <2>2, UnflaggedEdge DEF EdgesMove, Unflagged, SameEdge
  <2>4. edges[i].doc \in DOMAIN docs /\ edges[i].tag = docs[edges[i].doc].tag
    BY <1>1, <2>1 DEF EdgesOwned
  <2> QED BY <2>3, <2>4 DEF DocsMove
<1>2. CASE i \notin DOMAIN edges
  <2>1. PICK w \in Writer : \E b \in DOMAIN wr[w].batch :
          wr[w].pc = "upsert" /\ edges'[i] = Point(w, b)
    BY <1>2 DEF EdgesArrive, Appends
  <2>2. /\ edges'[i].doc = wr[w].doc /\ edges'[i].tag = docs[wr[w].doc].tag
        /\ wr[w].doc \in DOMAIN docs
    BY <2>1, PointsTyped
  <2> QED BY <2>2 DEF DocsMove
<1> QED BY <1>1, <1>2

\* Every step keeps what is deleted gone.
LEMMA GoneStep ==
    ASSUME TypesOK, DeletedIsGone, EdgesMove, EdgesArrive, DocsMove, WritersMove
    PROVE  DeletedIsGone'
<1> SUFFICES ASSUME NEW n \in DOMAIN docs', docs'[n].st = "deleted"
             PROVE  /\ \A w \in Writer : wr'[w].doc # n
                    /\ \A i \in DOMAIN edges' : edges'[i] # Erased => edges'[i].doc # n
  BY DEF DeletedIsGone
<1>1. n \in DOMAIN docs  BY DEF DocsMove
<1>2. CASE docs[n].st # "deleted"  BY <1>2 DEF DocsMove
<1>3. CASE docs[n].st = "deleted"
  <2>1. /\ \A w \in Writer : wr[w].doc # n
        /\ \A i \in DOMAIN edges : edges[i] # Erased => edges[i].doc # n
    BY <1>1, <1>3 DEF DeletedIsGone
  <2>2. n # 0 /\ n # Len(docs) + 1
    <3>1. docs \in Seq(DocRecord)  BY DEF TypesOK
    <3> QED BY <1>1, <3>1
  <2>3. \A w \in Writer : wr'[w].doc # n  BY <2>1, <2>2 DEF WritersMove
  <2>4. ASSUME NEW i \in DOMAIN edges', edges'[i] # Erased  PROVE edges'[i].doc # n
    <3>1. CASE i \in DOMAIN edges
      <4>1. edges[i] # Erased  BY <2>4, <3>1 DEF EdgesMove
      <4>2. edges[i] \in EdgeRow  BY <3>1, <4>1 DEF TypesOK
      <4>3. edges'[i].doc = edges[i].doc
        BY <2>4, <3>1, <4>2, UnflaggedEdge DEF EdgesMove, Unflagged
      <4> QED BY <2>1, <3>1, <4>1, <4>3
    <3>2. CASE i \notin DOMAIN edges
      <4>1. PICK w \in Writer : \E b \in DOMAIN wr[w].batch :
              wr[w].pc = "upsert" /\ edges'[i] = Point(w, b)
        BY <3>2 DEF EdgesArrive, Appends
      <4>2. edges'[i].doc = wr[w].doc  BY <4>1, PointsTyped
      <4> QED BY <2>1, <4>2
    <3> QED BY <3>1, <3>2
  <2> QED BY <2>3, <2>4
<1> QED BY <1>2, <1>3

\* Every step keeps what the writers know stored.
LEMMA KnownStep ==
    ASSUME TypesOK, KnownIsStored, EdgesMove, DocsMove, WritersMove
    PROVE  KnownIsStored'
<1> SUFFICES ASSUME NEW w \in Writer, NEW k \in wr'[w].known
             PROVE  /\ k.id \in DOMAIN edges' /\ k.tag = docs'[wr'[w].doc].tag
                    /\ edges'[k.id] # Erased => SameEdge(edges'[k.id], k)
  BY DEF KnownIsStored
<1>1. /\ wr'[w].doc = wr[w].doc /\ wr[w].doc \in DOMAIN docs
      /\ k \in wr[w].known \/ k \in Latest(docs[wr[w].doc].tag)
  BY DEF WritersMove
<1>2. docs'[wr'[w].doc].tag = docs[wr[w].doc].tag  BY <1>1 DEF DocsMove
<1>3. /\ k.id \in DOMAIN edges /\ k.tag = docs[wr[w].doc].tag
      /\ edges[k.id] # Erased => SameEdge(edges[k.id], k)
  <2>1. CASE k \in wr[w].known  BY <2>1 DEF KnownIsStored
  <2>2. CASE k \in Latest(docs[wr[w].doc].tag)
    <3>1. docs[wr[w].doc].tag \in Tag
      <4>1. docs \in Seq(DocRecord)  BY DEF TypesOK
      <4>2. docs[wr[w].doc] \in DocRecord  BY <1>1, <4>1
      <4> QED BY <4>2 DEF DocRecord
    <3> QED BY <2>2, <3>1, LatestTyped DEF SameEdge
  <2> QED BY <1>1, <2>1, <2>2
<1>4. PICK i : i = k.id  OBVIOUS
<1>5. ASSUME edges'[i] # Erased  PROVE SameEdge(edges'[i], k)
  <2>1. edges[i] # Erased  BY <1>3, <1>4, <1>5 DEF EdgesMove
  <2>2. edges[i] \in EdgeRow /\ SameEdge(edges[i], k)  BY <1>3, <1>4, <2>1 DEF TypesOK
  <2>3. edges'[i] = edges[i] \/ SameEdge(edges'[i], edges[i])
    BY <1>3, <1>4, <1>5, <2>2, UnflaggedEdge DEF EdgesMove, Unflagged
  <2> QED BY <2>2, <2>3 DEF SameEdge
<1> QED BY <1>2, <1>3, <1>4, <1>5 DEF EdgesMove

\* While nothing is deleted, what an edge says never changes.
LEMMA EdgeStays ==
    ASSUME TypesOK, ReasonStored, EdgesMove, DocsMove, Undeleted',
           NEW i \in DOMAIN edges
    PROVE  /\ i \in DOMAIN edges' /\ edges[i] # Erased /\ edges'[i] # Erased
           /\ SameEdge(edges'[i], edges[i]) /\ group_key(edges'[i]) = group_key(edges[i])
           /\ edges'[i] = edges[i] \/ \E w \in Writer : i \in wr[w].sup
<1>1. Undeleted /\ edges[i] # Erased /\ edges'[i] # Erased /\ i \in DOMAIN edges'
  BY DEF DocsMove, ReasonStored, EdgesMove
<1>2. edges[i] \in EdgeRow  BY <1>1 DEF TypesOK
<1>3. CASE edges'[i] = edges[i]  BY <1>1, <1>3 DEF SameEdge
<1>4. CASE edges'[i] # edges[i]
  <2>1. Unflagged(i) /\ \E w \in Writer : i \in wr[w].sup  BY <1>1, <1>4 DEF EdgesMove
  <2> QED BY <1>1, <1>2, <2>1, UnflaggedEdge DEF Unflagged
<1> QED BY <1>3, <1>4

\* Every step keeps the reasons.
LEMMA ReasonStep ==
    ASSUME TypesOK, TypesOK', KnownIsStored, ReasonStored,
           EdgesMove, EdgesArrive, DocsMove, WritersMove
    PROVE  ReasonStored'
<1> SUFFICES ASSUME Undeleted'
             PROVE
        /\ \A i \in DOMAIN edges' : edges'[i] # Erased
        /\ \A i \in DOMAIN edges' : ~edges'[i].is_latest =>
              \E j \in DOMAIN edges' : Replaces(j, i)' \/ ArrivedLate(j, i)'
        /\ \A w \in Writer : \A i \in wr'[w].sup : \E j \in DOMAIN edges' : Replaces(j, i)'
  BY DEF ReasonStored
<1>1. Undeleted  BY DEF DocsMove
<1>2. ASSUME NEW i \in DOMAIN edges, NEW j \in DOMAIN edges
      PROVE  /\ Replaces(j, i) => Replaces(j, i)'
             /\ ArrivedLate(j, i) => ArrivedLate(j, i)'
  BY EdgeStays DEF Replaces, ArrivedLate, SameEdge
<1>3. ASSUME NEW k \in DOMAIN edges', k \notin DOMAIN edges
      PROVE  \E w \in Writer : \E b \in DOMAIN wr[w].batch :
                Appends(w) /\ k = Len(edges) + b /\ edges'[k] = Point(w, b)
  BY <1>3 DEF EdgesArrive
<1>4. ASSUME NEW i \in DOMAIN edges' PROVE edges'[i] # Erased
  <2>1. CASE i \in DOMAIN edges  BY <2>1, EdgeStays
  <2>2. CASE i \notin DOMAIN edges  BY <1>3, <2>2, PointsTyped DEF Appends
  <2> QED BY <2>1, <2>2
<1>5. ASSUME NEW w \in Writer, NEW i \in wr'[w].sup
      PROVE  \E j \in DOMAIN edges' : Replaces(j, i)'
  <2>1. CASE i \in wr[w].sup
    <3>1. i \in DOMAIN edges  BY <2>1 DEF TypesOK
    <3>2. PICK j \in DOMAIN edges : Replaces(j, i)  BY <1>1, <2>1 DEF ReasonStored
    <3> QED BY <1>2, <3>1, <3>2, EdgeStays
  <2>2. CASE i \in SupOf(w) /\ Appends(w)
    <3>1. PICK b \in DOMAIN wr[w].batch, k \in wr[w].known :
              /\ i = k.id /\ wr[w].batch[b].singular
              /\ k.subject = wr[w].batch[b].subject
              /\ k.predicate = wr[w].batch[b].predicate
              /\ wr[w].batch[b].from >= k.from
      BY <2>2, SupersededAreKnown
    <3>2. i \in DOMAIN edges /\ k.tag = docs[wr[w].doc].tag
      BY <3>1 DEF KnownIsStored
    <3>3. SameEdge(edges[i], k)  BY <3>1, <3>2, EdgeStays DEF KnownIsStored
    <3>4. SameEdge(edges'[i], edges[i])  BY <3>2, EdgeStays
    <3> PICK j : j = Len(edges) + b  OBVIOUS
    <3>5. j \in DOMAIN edges' /\ edges'[j] = Point(w, b)
      BY <2>2, UpsertAppends DEF Appends
    <3>6. j > i
      <4>1. edges \in Seq(EdgeRow \cup {Erased}) /\ wr[w].batch \in Seq(BatchEdge)
        BY DEF TypesOK, WriterRecord
      <4>2. i \in 1 .. Len(edges) /\ b \in Nat \ {0} /\ Len(edges) \in Nat
        BY <3>2, <4>1
      <4> QED BY <4>2
    <3>7. /\ edges'[j].tag = docs[wr[w].doc].tag
          /\ edges'[j].subject = wr[w].batch[b].subject
          /\ edges'[j].predicate = wr[w].batch[b].predicate
          /\ edges'[j].singular = wr[w].batch[b].singular
          /\ edges'[j].from = wr[w].batch[b].from
      BY <3>5 DEF Point
    <3>8. group_key(edges'[j]) = group_key(edges'[i]) /\ edges'[j].from >= edges'[i].from
      BY <3>1, <3>2, <3>3, <3>4, <3>7 DEF SameEdge, group_key
    <3>9. Replaces(j, i)'  BY <3>1, <3>6, <3>7, <3>8 DEF Replaces
    <3> QED BY <3>5, <3>9
  <2> QED BY <2>1, <2>2 DEF WritersMove
<1>6. ASSUME NEW i \in DOMAIN edges', ~edges'[i].is_latest
      PROVE  \E j \in DOMAIN edges' : Replaces(j, i)' \/ ArrivedLate(j, i)'
  <2>1. CASE i \in DOMAIN edges /\ edges'[i] = edges[i]
    <3>1. PICK j \in DOMAIN edges : Replaces(j, i) \/ ArrivedLate(j, i)
      BY <1>1, <1>6, <2>1 DEF ReasonStored
    <3> QED BY <1>2, <2>1, <3>1, EdgeStays
  <2>2. CASE i \in DOMAIN edges /\ edges'[i] # edges[i]
    <3>1. PICK w \in Writer : i \in wr[w].sup  BY <2>2, EdgeStays
    <3>2. PICK j \in DOMAIN edges : Replaces(j, i)  BY <1>1, <3>1 DEF ReasonStored
    <3> QED BY <1>2, <2>2, <3>2, EdgeStays
  <2>3. CASE i \notin DOMAIN edges
    <3>1. PICK w \in Writer : \E b \in DOMAIN wr[w].batch :
                Appends(w) /\ i = Len(edges) + b /\ edges'[i] = Point(w, b)
      BY <1>3, <2>3
    <3>2. PICK b \in DOMAIN wr[w].batch :
                Appends(w) /\ i = Len(edges) + b /\ edges'[i] = Point(w, b)
      BY <3>1
    <3>3. PICK new : new = wr[w].batch[b]  OBVIOUS
    <3>4. /\ edges'[i].tag = docs[wr[w].doc].tag /\ edges'[i].subject = new.subject
          /\ edges'[i].predicate = new.predicate /\ edges'[i].object = new.object
          /\ edges'[i].from = new.from
          /\ edges'[i].is_latest = StoredAsLatest(new, wr[w].known)
      BY <3>2, <3>3 DEF Point
    <3>5. PICK k \in wr[w].known :
            /\ k.subject = new.subject /\ k.predicate = new.predicate
            /\ ~(k.object # new.object /\ new.from >= k.from)
      BY <1>6, <3>4 DEF StoredAsLatest, Rivals
    <3>6. PICK j : j = k.id  OBVIOUS
    <3>7. j \in DOMAIN edges /\ k.tag = docs[wr[w].doc].tag
      BY <3>5, <3>6 DEF KnownIsStored
    <3>8. SameEdge(edges[j], k)  BY <3>6, <3>7, EdgeStays DEF KnownIsStored
    <3>9. SameEdge(edges'[j], edges[j]) /\ j \in DOMAIN edges'  BY <3>7, EdgeStays
    <3>10. j < i
      <4>1. edges \in Seq(EdgeRow \cup {Erased}) /\ wr[w].batch \in Seq(BatchEdge)
        BY DEF TypesOK, WriterRecord
      <4>2. j \in 1 .. Len(edges) /\ b \in Nat \ {0} /\ Len(edges) \in Nat
        BY <3>7, <4>1
      <4> QED BY <3>2, <4>2
    <3>11. group_key(edges'[j]) = group_key(edges'[i])
      BY <3>4, <3>5, <3>7, <3>8, <3>9 DEF SameEdge, group_key
    <3>12. k.from \in Int /\ new.from \in Int
      <4>1. k \in EdgeRow /\ new \in BatchEdge
        BY <3>3, <3>5 DEF TypesOK, WriterRecord
      <4> QED BY <4>1 DEF EdgeRow, BatchEdge
    <3>13. edges'[j].object = edges'[i].object \/ edges'[j].from > edges'[i].from
      BY <3>4, <3>5, <3>8, <3>9, <3>12 DEF SameEdge
    <3>14. ArrivedLate(j, i)'  BY <3>10, <3>11, <3>13 DEF ArrivedLate
    <3> QED BY <3>9, <3>14
  <2> QED BY <2>1, <2>2, <2>3
<1> QED BY <1>4, <1>5, <1>6

-----------------------------------------------------------------------------
\* Calls: every step leaves the calls alone, steps one, or starts or drops one.

\* Every step of the graph keeps every provider call in order.
LEMMA CallsStep ==
    ASSUME ClientInv, TypesOK, [Next]_vars
    PROVE  ClientInv'
<1>1. ASSUME NEW w \in Writer, extract_edges(w) PROVE ClientInv'
  <2>1. calls' = [calls EXCEPT ![w] = NewCall("chat", <<>>)]  BY <1>1 DEF extract_edges
  <2>2. CallOK(NewCall("chat", <<>>))
    <3>1. PICK kind \in CallKind : kind = "chat" /\ kind \notin BatchedKind \cup {"rerank"}
      BY Kinds DEF BatchedKind
    <3>2. PICK none : none = <<>>  OBVIOUS
    <3>3. none \in Seq(Nat)  BY <3>2
    <3>4. CallOK(NewCall(kind, none))  BY <3>1, <3>3, NewCallOK
    <3> QED BY <3>1, <3>2, <3>4
  <2>3. w \in Caller  BY GraphAssumption
  <2> QED BY <2>1, <2>2, <2>3, OneCallChanges
<1>2. ASSUME NEW w \in Writer, edges_extracted(w) PROVE ClientInv'
  <2>1. PICK reply \in Reply :
          calls' = [calls EXCEPT ![w] =
                      IF parse_edges(reply, wr[w].date) = <<>> THEN NoCall
                      ELSE NewCall("embed", [i \in DOMAIN parse_edges(reply, wr[w].date) |-> i])]
    BY <1>2 DEF edges_extracted
  <2>2. PICK b : b = parse_edges(reply, wr[w].date)  OBVIOUS
  <2>3. b \in Seq(BatchEdge)
    <3>1. wr[w].date \in Int  BY DEF TypesOK, WriterRecord
    <3> QED BY <2>2, <3>1, ParsedEdges
  <2>4. PICK asked : asked = [i \in DOMAIN b |-> i]  OBVIOUS
  <2>5. asked \in Seq(Nat) /\ (b # <<>> => asked # <<>>)
    <3>1. PICK n \in Nat : n = Len(b) /\ DOMAIN b = 1 .. n  BY <2>3
    <3>2. asked = [i \in 1 .. n |-> i]  BY <2>4, <3>1
    <3>3. asked \in Seq(Nat) /\ Len(asked) = n  BY <3>2
    <3>4. b # <<>> => n # 0  BY <2>3, <3>1
    <3> QED BY <3>3, <3>4
  <2>6. w \in Caller  BY GraphAssumption
  <2>7. CASE b = <<>>
    <3>1. calls' = [calls EXCEPT ![w] = NoCall]  BY <2>1, <2>2, <2>7
    <3> QED BY <2>6, <3>1, NoCallOK, OneCallChanges
  <2>8. CASE b # <<>>
    <3>1. calls' = [calls EXCEPT ![w] = NewCall("embed", asked)]
      BY <2>1, <2>2, <2>4, <2>8
    <3>2. CallOK(NewCall("embed", asked))  BY <2>5, <2>8, NewCallOK, Kinds
    <3> QED BY <2>6, <3>1, <3>2, OneCallChanges
  <2> QED BY <2>7, <2>8
<1>3. ASSUME NEW w \in Writer, provider_failed(w) \/ index_edges_read(w) PROVE ClientInv'
  <2>1. calls' = [calls EXCEPT ![w] = NoCall]
    BY <1>3 DEF provider_failed, index_edges_read
  <2>2. w \in Caller  BY GraphAssumption
  <2> QED BY <2>1, <2>2, NoCallOK, OneCallChanges
<1>4. CASE UNCHANGED calls  BY <1>4 DEF ClientInv
<1>5. ASSUME NEW w \in Writer, index_edges_upsert(w) \/ index_edges_flag(w)
      PROVE  UNCHANGED calls
  BY <1>5 DEF index_edges_upsert, index_edges_flag
<1>6. ASSUME NEW n \in DOMAIN docs, delete_document_tagged(n)  PROVE UNCHANGED calls
  BY <1>6 DEF delete_document_tagged
<1>7. ASSUME NEW c \in Caller, NEW n \in Nat \ {0}, AgentStep(c, n)  PROVE ClientInv'
  BY <1>7, AgentOK DEF AgentStep
<1> QED
  BY <1>1, <1>2, <1>3, <1>4, <1>5, <1>6, <1>7, ClientStepOK DEF Next, IngestStep, vars

-----------------------------------------------------------------------------
\* The invariant holds.

\* The invariant holds at first.
LEMMA GraphStarts == Init => GraphIndInv
<1> SUFFICES ASSUME Init PROVE GraphIndInv  OBVIOUS
<1>1. ClientInv  BY ClientStarts DEF Init
<1>2. /\ edges = <<>> /\ docs = <<>> /\ serial = TRUE
      /\ wr = [w \in Writer |-> IdleWriter]
  BY DEF Init, GraphInit
<1>3. /\ IdleWriter.doc = 0 /\ IdleWriter.sup = {} /\ IdleWriter.known = {}
      /\ IdleWriter.pc = "idle"
  BY DEF IdleWriter
<1>4. TypesOK  BY <1>2, <1>3, IdleOK, GraphAssumption DEF TypesOK
<1>5. EdgesOwned /\ DeletedIsGone /\ ReasonStored /\ KnownIsStored
  BY <1>2, <1>3 DEF EdgesOwned, DeletedIsGone, ReasonStored, KnownIsStored
<1> QED BY <1>1, <1>4, <1>5 DEF GraphIndInv, GraphInv

\* Every step keeps the invariant.
LEMMA GraphSteps == GraphIndInv /\ [Next]_vars => GraphIndInv'
<1> SUFFICES ASSUME GraphIndInv, [Next]_vars PROVE GraphIndInv'  OBVIOUS
<1>1. ClientInv /\ TypesOK /\ EdgesOwned /\ DeletedIsGone /\ KnownIsStored /\ ReasonStored
  BY DEF GraphIndInv, GraphInv
<1>2. TypesOK' /\ ClientInv'  BY <1>1, TypesStep, CallsStep
<1>3. EdgesMove /\ EdgesArrive /\ DocsMove /\ WritersMove  BY <1>1, StepMoves
<1> QED BY <1>1, <1>2, <1>3, OwnedStep, GoneStep, KnownStep, ReasonStep
        DEF GraphIndInv, GraphInv

\* Every ingest, delete and provider call keeps every edge owned by its document,
\* every deleted document gone, and every demotion explained.
THEOREM GraphInvariant == Spec => []GraphIndInv
BY GraphStarts, GraphSteps, PTL DEF Spec

\* The graph, its writers, documents and provider calls keep their types,
\* whatever the model answers, for any number of tasks, retries and documents.
THEOREM GraphTyped == Spec => []GraphTypeOK
<1>1. GraphIndInv => GraphTypeOK
  <2> SUFFICES ASSUME GraphIndInv PROVE GraphTypeOK  OBVIOUS
  <2>1. ClientTypeOK  BY ClientInvGives DEF GraphIndInv
  <2>2. TypesOK  BY DEF GraphIndInv, GraphInv
  <2>3. \A w \in Writer : wr[w] \in WriterRecord  BY <2>2 DEF TypesOK
  <2> QED BY <2>1, <2>2, <2>3 DEF GraphTypeOK, TypesOK, WriterRecord, DocRecord
<1> QED BY <1>1, GraphInvariant, PTL

\* A finished embedding call returns vector i for input i, whatever order the
\* provider answers in, however the inputs are batched and however often a batch
\* is retried.
THEOREM VectorsMatch == Spec => []VectorsMatchInputs
<1>1. GraphIndInv => VectorsMatchInputs  BY ClientInvGives DEF GraphIndInv
<1> QED BY <1>1, GraphInvariant, PTL

\* What a stream has handed over is at every moment one answer in its order, nothing
\* twice: no failure makes it start again, whichever lines are skipped or damaged.
THEOREM TokensOnce == Spec => []TokensDeliveredOnce
<1>1. GraphIndInv => TokensDeliveredOnce  BY ClientInvGives DEF GraphIndInv
<1> QED BY <1>1, GraphInvariant, PTL

\* Deletes aside, an edge that is not the latest has its reason in the graph:
\* however ingests overlap and whichever of their calls fail.
THEOREM DemotionExplained == Spec => []DemotionHasReason
<1>1. GraphIndInv => DemotionHasReason
  <2> SUFFICES ASSUME GraphIndInv, Undeleted, NEW e \in Stored, ~e.is_latest
               PROVE  \E f \in Stored \ {e} :
                /\ group_key(f) = group_key(e)
                /\ \/ f.id > e.id /\ f.singular /\ f.from >= e.from
                   \/ f.id < e.id /\ (f.object = e.object \/ f.from > e.from)
    BY DEF DemotionHasReason, Undeleted
  <2>1. TypesOK /\ ReasonStored  BY DEF GraphIndInv, GraphInv
  <2>2. PICK i \in DOMAIN edges : e = edges[i]  BY DEF Stored
  <2>3. PICK j \in DOMAIN edges : Replaces(j, i) \/ ArrivedLate(j, i)
    BY <2>1, <2>2 DEF ReasonStored
  <2>4. edges[i] # Erased /\ edges[j] # Erased  BY <2>1 DEF ReasonStored
  <2>5. edges[i].id = i /\ edges[j].id = j  BY <2>1, <2>4 DEF TypesOK
  <2>6. i \in Nat /\ j \in Nat  BY <2>1 DEF TypesOK
  <2>7. i # j  BY <2>3, <2>6 DEF Replaces, ArrivedLate
  <2>8. edges[j] \in Stored \ {e}  BY <2>2, <2>4, <2>5, <2>7 DEF Stored
  <2> QED BY <2>2, <2>3, <2>5, <2>8 DEF Replaces, ArrivedLate
<1> QED BY <1>1, GraphInvariant, PTL

\* A deleted document has no edge left and never gets one again, unless the delete
\* overtook its ingest.
THEOREM DeleteErases == Spec => []DeleteReachesGraph
<1>1. GraphIndInv => DeleteReachesGraph
  BY DEF GraphIndInv, GraphInv, DeletedIsGone, DeleteReachesGraph, Stored
<1> QED BY <1>1, GraphInvariant, PTL

\* No step moves a date, changes a value or restores a latest flag.
THEOREM PastIsKept == Spec => HistoryIsKept
<1>1. GraphIndInv /\ [Next]_vars =>
        [\A i \in DOMAIN edges :
          /\ i \in DOMAIN edges'
          /\ edges'[i] \in {edges[i], Erased} \/
             (edges[i].is_latest /\ edges'[i] = [edges[i] EXCEPT !.is_latest = FALSE])]_vars
  <2> SUFFICES ASSUME GraphIndInv, [Next]_vars, NEW i \in DOMAIN edges
               PROVE
          /\ i \in DOMAIN edges'
          /\ edges'[i] \in {edges[i], Erased} \/
             (edges[i].is_latest /\ edges'[i] = [edges[i] EXCEPT !.is_latest = FALSE])
    OBVIOUS
  <2>1. TypesOK /\ EdgesOwned /\ KnownIsStored  BY DEF GraphIndInv, GraphInv
  <2>2. EdgesMove  BY <2>1, StepMoves
  <2>3. CASE edges[i] # Erased /\ Unflagged(i)
    <3>1. edges[i] \in EdgeRow  BY <2>1, <2>3 DEF TypesOK
    <3>2. CASE edges[i].is_latest  BY <2>2, <2>3, <3>2 DEF Unflagged, EdgesMove
    <3>3. CASE ~edges[i].is_latest
      <4>1. edges[i].is_latest = FALSE  BY <3>1, <3>3 DEF EdgeRow
      <4>2. [edges[i] EXCEPT !.is_latest = FALSE] = edges[i]  BY <3>1, <4>1 DEF EdgeRow
      <4> QED BY <2>2, <2>3, <4>2 DEF Unflagged, EdgesMove
    <3> QED BY <3>2, <3>3
  <2>4. CASE edges'[i] = edges[i] \/ edges'[i] = Erased  BY <2>2, <2>4 DEF EdgesMove
  <2> QED BY <2>2, <2>3, <2>4 DEF EdgesMove
<1> QED BY <1>1, GraphInvariant, PTL DEF Spec, HistoryIsKept

-----------------------------------------------------------------------------
\* One latest edge while ingests do not overlap.

\* Edge j is the latest of its attribute once the flags that are due are set.
Live(j) == edges[j].is_latest /\ \A w \in Writer : j \notin wr[w].sup

SameGroup(i, j) == group_key(edges[i]) = group_key(edges[j])
AllSingular(i) == \A j \in DOMAIN edges : SameGroup(j, i) => edges[j].singular

Indexing(w) == wr[w].pc \in {"upsert", "flag"}
OneWriter == \A v, w \in Writer : Indexing(v) /\ Indexing(w) => v = w

\* What a writer has read is still what is latest.
ReadStillTrue ==
    \A w \in Writer : wr[w].pc = "upsert" =>
        /\ wr[w].known = Latest(docs[wr[w].doc].tag)
        /\ OneEdgePerGroup(wr[w].batch)

OnlyLive(j, i) ==
    /\ SameGroup(j, i) /\ Live(j)
    /\ \A k \in DOMAIN edges : SameGroup(k, i) /\ Live(k) => k = j

OneLive == \A i \in DOMAIN edges : AllSingular(i) => \E j \in DOMAIN edges : OnlyLive(j, i)

SerialInv == serial => Undeleted /\ OneWriter /\ ReadStillTrue /\ OneLive

\* Only a writer that is to flag has ids to flag.
LEMMA NothingToFlag ==
    ASSUME TypesOK, OneWriter, NEW w \in Writer, Indexing(w), NEW v \in Writer, v # w
    PROVE  ~Indexing(v) /\ wr[v].sup = {}
BY DEF TypesOK, OneWriter, Indexing

\* While the edges and the ids to flag stay, so do the live ones.
LEMMA LiveStays ==
    ASSUME UNCHANGED edges, \A v \in Writer : wr'[v].sup = wr[v].sup, OneLive
    PROVE  OneLive'
<1>1. \A j : Live(j)' <=> Live(j)  BY DEF Live
<1>2. \A i, j : (SameGroup(i, j)' <=> SameGroup(i, j)) /\ (AllSingular(i)' <=> AllSingular(i))
  BY DEF SameGroup, AllSingular, group_key
<1>3. \A i, j : OnlyLive(j, i)' <=> OnlyLive(j, i)  BY <1>1, <1>2 DEF OnlyLive
<1> QED BY <1>2, <1>3 DEF OneLive

\* A step before the read, or one that ends an ingest with nothing to flag.
LEMMA QuietSerial ==
    ASSUME TypesOK, SerialInv, UNCHANGED <<edges, serial>>,
           Undeleted => Undeleted',
           \A n \in DOMAIN docs : docs'[n].tag = docs[n].tag,
           NEW w \in Writer, NEW r, wr' = [wr EXCEPT ![w] = r],
           r.pc \notin {"upsert", "flag"}, r.sup = {}, wr[w].sup = {}
    PROVE  SerialInv'
<1> SUFFICES ASSUME serial PROVE (Undeleted /\ OneWriter /\ ReadStillTrue /\ OneLive)'
  BY DEF SerialInv
<1>1. \A v \in Writer : wr'[v] = IF v = w THEN r ELSE wr[v]  BY DEF TypesOK
<1>2. OneWriter'  BY <1>1 DEF SerialInv, OneWriter, Indexing
<1>3. ReadStillTrue'
  <2> SUFFICES ASSUME NEW v \in Writer, wr'[v].pc = "upsert"
               PROVE  (/\ wr[v].known = Latest(docs[wr[v].doc].tag)
                       /\ OneEdgePerGroup(wr[v].batch))'
    BY DEF ReadStillTrue
  <2>1. wr'[v] = wr[v]  BY <1>1
  <2>2. wr[v].doc \in DOMAIN docs  BY <2>1, BusyHasDoc
  <2>3. docs'[wr'[v].doc].tag = docs[wr[v].doc].tag  BY <2>1, <2>2
  <2>4. wr[v].known = Latest(docs[wr[v].doc].tag) /\ OneEdgePerGroup(wr[v].batch)
    BY <2>1 DEF SerialInv, ReadStillTrue
  <2> QED BY <2>1, <2>3, <2>4 DEF Latest, Stored
<1>4. OneLive'
  <2>1. \A v \in Writer : wr'[v].sup = wr[v].sup  BY <1>1
  <2> QED BY <2>1, LiveStays DEF SerialInv
<1> QED BY <1>2, <1>3, <1>4 DEF SerialInv
\* The read: nobody else is about to change what it saw.
LEMMA ReadSerial ==
    ASSUME TypesOK, SerialInv, NEW w \in Writer, index_edges_read(w)
    PROVE  SerialInv'
<1> SUFFICES ASSUME serial' PROVE (Undeleted /\ OneWriter /\ ReadStillTrue /\ OneLive)'
  BY DEF SerialInv
<1>1. PICK r \in WriterRecord :
        /\ wr' = [wr EXCEPT ![w] = r]
        /\ r.pc = "upsert" /\ r.doc = wr[w].doc /\ r.sup = {}
        /\ serial /\ r.known = Latest(docs[wr[w].doc].tag)
        /\ ~OthersIndexing(w) /\ OneEdgePerGroup(r.batch)
  BY ReadEffect
<1>2. UNCHANGED <<edges, docs>> /\ wr[w].pc = "embed"  BY ReadEffect
<1>3. \A v \in Writer : wr'[v] = IF v = w THEN r ELSE wr[v]  BY <1>1 DEF TypesOK
<1>4. \A v \in Writer : v # w => ~Indexing(v)'
  BY <1>1, <1>3 DEF OthersIndexing, Indexing
<1>5. OneWriter'  BY <1>4 DEF OneWriter
<1>6. ReadStillTrue'
  <2> SUFFICES ASSUME NEW v \in Writer, wr'[v].pc = "upsert"
               PROVE  (/\ wr[v].known = Latest(docs[wr[v].doc].tag)
                       /\ OneEdgePerGroup(wr[v].batch))'
    BY DEF ReadStillTrue
  <2>1. v = w  BY <1>4 DEF Indexing
  <2>2. wr'[v] = r  BY <1>3, <2>1
  <2> QED BY <1>1, <1>2, <2>1, <2>2 DEF Latest, Stored
<1>7. OneLive'
  <2>1. wr[w].sup = {}  BY <1>2 DEF TypesOK
  <2>2. \A v \in Writer : wr'[v].sup = wr[v].sup  BY <1>1, <1>3, <2>1
  <2> QED BY <1>1, <1>2, <2>2, LiveStays DEF SerialInv
<1>8. Undeleted'  BY <1>1, <1>2 DEF SerialInv, Undeleted
<1> QED BY <1>5, <1>6, <1>7, <1>8

\* The flags: the ids to flag lose what made them differ from the live ones.
LEMMA FlagSerial ==
    ASSUME TypesOK, ReasonStored, SerialInv, NEW w \in Writer, index_edges_flag(w)
    PROVE  SerialInv'
<1> SUFFICES ASSUME serial' PROVE (Undeleted /\ OneWriter /\ ReadStillTrue /\ OneLive)'
  BY DEF SerialInv
<1>1. /\ wr[w].pc = "flag" /\ UNCHANGED docs /\ wr' = [wr EXCEPT ![w] = IdleWriter]
      /\ DOMAIN edges' = DOMAIN edges /\ serial
      /\ \A i \in DOMAIN edges :
           edges'[i] = IF edges[i] # Erased /\ i \in wr[w].sup
                       THEN [edges[i] EXCEPT !.is_latest = FALSE]
                       ELSE edges[i]
  BY FlagEffect
<1>2. Undeleted /\ OneWriter /\ OneLive  BY <1>1 DEF SerialInv
<1>3. \A i \in DOMAIN edges : edges[i] \in EdgeRow /\ edges[i] # Erased
  BY <1>2 DEF ReasonStored, TypesOK
<1>4. \A v \in Writer : wr'[v] = IF v = w THEN IdleWriter ELSE wr[v]  BY <1>1 DEF TypesOK
<1>5. IdleWriter.pc = "idle" /\ IdleWriter.sup = {}  BY DEF IdleWriter
<1>6. \A v \in Writer : ~Indexing(v)' /\ wr'[v].sup = {}
  <2> SUFFICES ASSUME NEW v \in Writer PROVE ~Indexing(v)' /\ wr'[v].sup = {}  OBVIOUS
  <2>1. Indexing(w)  BY <1>1 DEF Indexing
  <2>2. CASE v = w  BY <1>4, <1>5, <2>2 DEF Indexing
  <2>3. CASE v # w  BY <1>2, <1>4, <2>1, <2>3, NothingToFlag DEF Indexing
  <2> QED BY <2>2, <2>3
<1>7. ASSUME NEW i \in DOMAIN edges
      PROVE  /\ group_key(edges'[i]) = group_key(edges[i])
             /\ edges'[i].singular = edges[i].singular
             /\ Live(i)' <=> Live(i)
  <2>1. Live(i) <=> edges[i].is_latest /\ i \notin wr[w].sup
    <3>1. \A v \in Writer : v # w => wr[v].sup = {}
      <4>1. Indexing(w)  BY <1>1 DEF Indexing
      <4> QED BY <1>2, <4>1, NothingToFlag
    <3> QED BY <3>1 DEF Live
  <2>2. Live(i)' <=> edges'[i].is_latest  BY <1>6 DEF Live
  <2>3. edges[i] \in EdgeRow /\ edges[i] # Erased  BY <1>3
  <2>4. CASE i \in wr[w].sup
    <3>1. edges'[i] = [edges[i] EXCEPT !.is_latest = FALSE]  BY <1>1, <2>3, <2>4
    <3> QED BY <2>1, <2>2, <2>3, <2>4, <3>1, UnflaggedEdge DEF SameEdge
  <2>5. CASE i \notin wr[w].sup
    <3>1. edges'[i] = edges[i]  BY <1>1, <2>5
    <3> QED BY <2>1, <2>2, <2>5, <3>1
  <2> QED BY <2>4, <2>5
<1>8. \A i, j \in DOMAIN edges :
        /\ SameGroup(i, j)' <=> SameGroup(i, j)
        /\ AllSingular(i)' <=> AllSingular(i)
  BY <1>1, <1>7 DEF SameGroup, AllSingular
<1>9. \A i, j \in DOMAIN edges : OnlyLive(j, i)' <=> OnlyLive(j, i)
  BY <1>1, <1>7, <1>8 DEF OnlyLive
<1>10. OneLive'  BY <1>1, <1>2, <1>8, <1>9 DEF OneLive
<1>11. OneWriter' /\ ReadStillTrue'  BY <1>6 DEF OneWriter, ReadStillTrue, Indexing
<1>12. Undeleted'  BY <1>1, <1>2 DEF Undeleted
<1> QED BY <1>10, <1>11, <1>12
\* The upsert of a writer that nobody disturbs: in each attribute it adds to,
\* either the new edge or the one before it is the live one.
LEMMA UpsertLive ==
    ASSUME TypesOK, ReasonStored, Undeleted, OneWriter, ReadStillTrue, OneLive,
           NEW w \in Writer, Appends(w),
           \A v \in Writer : wr'[v].sup = IF v = w THEN SupOf(w) ELSE wr[v].sup
    PROVE  OneLive'
<1> DEFINE B == wr[w].batch
           K == wr[w].known
           t == docs[wr[w].doc].tag
           n == Len(edges)
           KeyOf(e) == <<t, e.subject, e.predicate>>
<1>1. wr[w].pc = "upsert" /\ Indexing(w)  BY DEF Appends, Indexing
<1>2. K = Latest(t) /\ OneEdgePerGroup(B)  BY <1>1 DEF ReadStillTrue
<1>3. /\ B \in Seq(BatchEdge) /\ t \in Tag /\ n \in Nat /\ DOMAIN edges = 1 .. n
  <2>1. wr[w] \in WriterRecord /\ wr[w].doc \in DOMAIN docs /\ docs \in Seq(DocRecord)
    BY <1>1, BusyHasDoc DEF TypesOK
  <2>2. docs[wr[w].doc] \in DocRecord  BY <2>1
  <2> QED BY <2>1, <2>2 DEF TypesOK, WriterRecord, DocRecord
<1>4. \A i \in DOMAIN edges : i \in DOMAIN edges' /\ edges'[i] = edges[i]
  BY <1>1, UpsertAppends DEF Appends
<1>5. \A b \in DOMAIN B : n + b \in DOMAIN edges' /\ n + b \notin DOMAIN edges
                          /\ edges'[n + b] = Point(w, b)
  BY <1>1, UpsertAppends DEF Appends
<1>6. \A k \in DOMAIN edges' : k \in DOMAIN edges \/ \E b \in DOMAIN B : k = n + b
  BY <1>1, UpsertAppends DEF Appends
<1>7. \A b \in DOMAIN B : /\ group_key(Point(w, b)) = KeyOf(B[b])
                          /\ Point(w, b).singular = B[b].singular
                          /\ Point(w, b).is_latest = StoredAsLatest(B[b], K)
  BY DEF Point, group_key
<1>8. \A b, c \in DOMAIN B : KeyOf(B[b]) = KeyOf(B[c]) => b = c
  BY <1>2 DEF OneEdgePerGroup
<1>9. \A j \in DOMAIN edges : edges[j] \in EdgeRow /\ edges[j] # Erased /\ edges[j].id = j
  BY DEF ReasonStored, TypesOK
<1>10. \A v \in Writer : wr[v].sup = {}
  <2>1. wr[w].sup = {}  BY <1>1 DEF TypesOK
  <2> QED BY <1>1, <2>1, NothingToFlag
<1>11. \A j : Live(j) <=> edges[j].is_latest  BY <1>10 DEF Live
<1>12. \A j : Live(j)' <=> edges'[j].is_latest /\ j \notin SupOf(w)
  BY <1>10 DEF Live
<1>13. \A k : k \in K <=> \E j \in DOMAIN edges :
                             k = edges[j] /\ Live(j) /\ edges[j].tag = t
  BY <1>2, <1>9, <1>11 DEF Latest, Stored
<1>14. \A b \in DOMAIN B : \A k :
         k \in Rivals(B[b], K) <=> \E j \in DOMAIN edges :
                             k = edges[j] /\ Live(j) /\ group_key(edges[j]) = KeyOf(B[b])
  BY <1>13 DEF Rivals, group_key
<1>15. \A j : j \in SupOf(w) <=> \E b \in DOMAIN B :
         /\ j \in DOMAIN edges /\ Live(j) /\ group_key(edges[j]) = KeyOf(B[b])
         /\ B[b].singular /\ edges[j].object # B[b].object /\ B[b].from >= edges[j].from
  <2> SUFFICES ASSUME NEW j, NEW b \in DOMAIN B
               PROVE  j \in Supersedes(B[b], K) <=>
                 /\ j \in DOMAIN edges /\ Live(j) /\ group_key(edges[j]) = KeyOf(B[b])
                 /\ B[b].singular /\ edges[j].object # B[b].object
                 /\ B[b].from >= edges[j].from
    BY DEF SupOf
  <2>1. j \in Supersedes(B[b], K) <=>
          B[b].singular /\ \E k \in Rivals(B[b], K) :
             j = k.id /\ k.object # B[b].object /\ B[b].from >= k.from
    BY DEF Supersedes
  <2>2. ASSUME B[b].singular, NEW k \in Rivals(B[b], K), j = k.id,
               k.object # B[b].object, B[b].from >= k.from
        PROVE  /\ j \in DOMAIN edges /\ Live(j) /\ group_key(edges[j]) = KeyOf(B[b])
               /\ edges[j].object # B[b].object /\ B[b].from >= edges[j].from
    <3>1. PICK m \in DOMAIN edges :
            k = edges[m] /\ Live(m) /\ group_key(edges[m]) = KeyOf(B[b])
      BY <1>14
    <3>2. m = j  BY <1>9, <2>2, <3>1
    <3> QED BY <2>2, <3>1, <3>2
  <2>3. ASSUME j \in DOMAIN edges, Live(j), group_key(edges[j]) = KeyOf(B[b])
        PROVE  edges[j] \in Rivals(B[b], K) /\ edges[j].id = j
    BY <1>9, <1>14, <2>3
  <2> HIDE DEF B, K, KeyOf
  <2> QED BY <2>1, <2>2, <2>3
<1> HIDE DEF B, K, t, n, KeyOf
<1> SUFFICES ASSUME NEW i \in DOMAIN edges', AllSingular(i)'
             PROVE  \E j \in DOMAIN edges' : OnlyLive(j, i)'
  BY DEF OneLive
<1> DEFINE g == group_key(edges'[i])
<1>16. \A j \in DOMAIN edges' : group_key(edges'[j]) = g => edges'[j].singular
  BY DEF AllSingular, SameGroup
<1>17. \A j \in DOMAIN edges' :
         OnlyLive(j, i)' <=>
            /\ group_key(edges'[j]) = g /\ Live(j)'
            /\ \A k \in DOMAIN edges' : group_key(edges'[k]) = g /\ Live(k)' => k = j
  BY DEF OnlyLive, SameGroup
<1> HIDE DEF g
<1>18. ASSUME NEW i0 \in DOMAIN edges, group_key(edges[i0]) = g
       PROVE  \E m \in DOMAIN edges :
                 /\ group_key(edges[m]) = g /\ Live(m)
                 /\ \A k \in DOMAIN edges : group_key(edges[k]) = g /\ Live(k) => k = m
  <2>1. AllSingular(i0)  BY <1>4, <1>16, <1>18 DEF AllSingular, SameGroup
  <2>2. PICK m \in DOMAIN edges : OnlyLive(m, i0)  BY <2>1 DEF OneLive
  <2> QED BY <1>18, <2>2 DEF OnlyLive, SameGroup
<1>19. CASE \A b \in DOMAIN B : KeyOf(B[b]) # g
  <2>1. i \in DOMAIN edges
    <3> SUFFICES ASSUME NEW b \in DOMAIN B, i = n + b PROVE FALSE  BY <1>6
    <3> QED BY <1>5, <1>7, <1>19 DEF g
  <2>2. group_key(edges[i]) = g  BY <1>4, <2>1 DEF g
  <2>3. PICK m \in DOMAIN edges :
          /\ group_key(edges[m]) = g /\ Live(m)
          /\ \A k \in DOMAIN edges : group_key(edges[k]) = g /\ Live(k) => k = m
    BY <1>18, <2>1, <2>2
  <2>4. m \notin SupOf(w)  BY <1>15, <1>19, <2>3
  <2>5. m \in DOMAIN edges' /\ group_key(edges'[m]) = g /\ Live(m)'
    BY <1>4, <1>11, <1>12, <2>3, <2>4
  <2>6. ASSUME NEW k \in DOMAIN edges', group_key(edges'[k]) = g, Live(k)'  PROVE k = m
    <3>1. k \in DOMAIN edges  BY <1>5, <1>6, <1>7, <1>19, <2>6
    <3> QED BY <1>4, <1>11, <1>12, <2>3, <2>6, <3>1
  <2> QED BY <1>17, <2>5, <2>6
<1>20. ASSUME NEW b \in DOMAIN B, KeyOf(B[b]) = g  PROVE \E j \in DOMAIN edges' : OnlyLive(j, i)'
  <2> PICK p : p = n + b  OBVIOUS
  <2>1. p \in DOMAIN edges' /\ p \notin DOMAIN edges /\ group_key(edges'[p]) = g
        /\ edges'[p].is_latest = StoredAsLatest(B[b], K) /\ B[b].singular
    BY <1>5, <1>7, <1>16, <1>20
  <2>2. p \notin SupOf(w)  BY <1>15, <2>1
  <2>3. \A k \in DOMAIN edges' : group_key(edges'[k]) = g => k \in DOMAIN edges \/ k = p
    BY <1>5, <1>6, <1>7, <1>8, <1>20
  <2>4. Live(p)' <=> StoredAsLatest(B[b], K)  BY <1>12, <2>1, <2>2
  <2>5. CASE \A j \in DOMAIN edges : group_key(edges[j]) # g
    <3>1. Rivals(B[b], K) = {}  BY <1>14, <1>20, <2>5
    <3>2. Live(p)'  BY <2>4, <3>1 DEF StoredAsLatest
    <3>3. \A k \in DOMAIN edges' : group_key(edges'[k]) = g => k = p  BY <1>4, <2>3, <2>5
    <3> QED BY <1>17, <2>1, <3>2, <3>3
  <2>6. ASSUME NEW i0 \in DOMAIN edges, group_key(edges[i0]) = g
        PROVE  \E j \in DOMAIN edges' : OnlyLive(j, i)'
    <3>1. PICK m \in DOMAIN edges :
            /\ group_key(edges[m]) = g /\ Live(m)
            /\ \A k \in DOMAIN edges : group_key(edges[k]) = g /\ Live(k) => k = m
      BY <1>18, <2>6
    <3> DEFINE Newer == edges[m].object # B[b].object /\ B[b].from >= edges[m].from
    <3>2. \A k : k \in Rivals(B[b], K) <=> k = edges[m]  BY <1>14, <1>20, <3>1
    <3>3. StoredAsLatest(B[b], K) <=> Newer  BY <2>1, <3>2 DEF StoredAsLatest
    <3>4. m \in SupOf(w) <=> Newer
      <4>1. Newer => m \in SupOf(w)  BY <1>15, <1>20, <2>1, <3>1
      <4>2. ASSUME m \in SupOf(w) PROVE Newer
        <5>1. PICK c \in DOMAIN B :
                /\ group_key(edges[m]) = KeyOf(B[c])
                /\ edges[m].object # B[c].object /\ B[c].from >= edges[m].from
          BY <1>15, <4>2
        <5>2. c = b  BY <1>8, <1>20, <3>1, <5>1
        <5> QED BY <5>1, <5>2
      <4> QED BY <4>1, <4>2
    <3> HIDE DEF Newer
    <3>5. ASSUME NEW k \in DOMAIN edges', group_key(edges'[k]) = g, Live(k)'
          PROVE  k = p \/ k = m
      BY <1>4, <1>11, <1>12, <2>3, <3>1, <3>5
    <3>6. m \in DOMAIN edges' /\ group_key(edges'[m]) = g /\ (Live(m)' <=> ~Newer)
      BY <1>4, <1>11, <1>12, <3>1, <3>4
    <3>7. Live(p)' <=> Newer  BY <2>4, <3>3
    <3>8. CASE Newer   BY <1>17, <2>1, <3>5, <3>6, <3>7, <3>8
    <3>9. CASE ~Newer  BY <1>17, <3>5, <3>6, <3>7, <3>9
    <3> QED BY <3>8, <3>9
  <2> QED BY <2>5, <2>6
<1> QED BY <1>19, <1>20
\* The upsert keeps the invariant, whether it succeeds or not.
LEMMA UpsertSerial ==
    ASSUME TypesOK, KnownIsStored, ReasonStored, SerialInv,
           NEW w \in Writer, index_edges_upsert(w)
    PROVE  SerialInv'
<1>1. wr[w].pc = "upsert" /\ UNCHANGED docs  BY UpsertEffect
<1>2. CASE UNCHANGED <<edges, serial>> /\ wr' = [wr EXCEPT ![w] = IdleWriter]
  <2>1. IdleWriter.pc = "idle" /\ IdleWriter.sup = {}  BY DEF IdleWriter
  <2>2. wr[w].sup = {}  BY <1>1 DEF TypesOK
  <2>3. Undeleted => Undeleted'  BY <1>1 DEF Undeleted
  <2>4. \A n \in DOMAIN docs : docs'[n].tag = docs[n].tag  BY <1>1
  <2>5. IdleWriter.pc \notin {"upsert", "flag"}  BY <2>1
  <2> QED BY <1>1, <1>2, <2>1, <2>2, <2>3, <2>4, <2>5, QuietSerial
<1>3. ASSUME NEW r \in WriterRecord,
             edges' = edges \o [i \in DOMAIN wr[w].batch |-> Point(w, i)],
             wr' = [wr EXCEPT ![w] = r], r.pc \in {"idle", "flag"}, r.sup = SupOf(w),
             serial' = serial
      PROVE  SerialInv'
  <2> SUFFICES ASSUME serial PROVE (Undeleted /\ OneWriter /\ ReadStillTrue /\ OneLive)'
    BY <1>3 DEF SerialInv
  <2>1. Undeleted /\ OneWriter /\ ReadStillTrue /\ OneLive  BY DEF SerialInv
  <2>2. \A v \in Writer : wr'[v] = IF v = w THEN r ELSE wr[v]  BY <1>3 DEF TypesOK
  <2>3. Appends(w) /\ Indexing(w)  BY <1>1, <1>3 DEF Appends, Indexing
  <2>4. \A v \in Writer : v # w => ~Indexing(v)'
    BY <2>1, <2>2, <2>3, NothingToFlag DEF Indexing
  <2>5. OneWriter'  BY <2>4 DEF OneWriter
  <2>6. ReadStillTrue'
    <3>1. \A v \in Writer : wr'[v].pc # "upsert"  BY <1>3, <2>2, <2>4 DEF Indexing
    <3> QED BY <3>1 DEF ReadStillTrue
  <2>7. OneLive'
    <3>1. \A v \in Writer : wr'[v].sup = IF v = w THEN SupOf(w) ELSE wr[v].sup
      BY <1>3, <2>2
    <3> QED BY <2>1, <2>3, <3>1, UpsertLive
  <2> QED BY <1>1, <2>1, <2>5, <2>6, <2>7 DEF Undeleted
<1>4. serial' = FALSE => SerialInv'  BY DEF SerialInv
<1> QED BY <1>2, <1>3, <1>4, UpsertEffect

\* Every step keeps the invariant.
LEMMA SerialSteps == GraphIndInv /\ SerialInv /\ [Next]_vars => SerialInv'
<1> SUFFICES ASSUME GraphIndInv, SerialInv, [Next]_vars PROVE SerialInv'  OBVIOUS
<1>1. TypesOK /\ EdgesOwned /\ KnownIsStored /\ ReasonStored  BY DEF GraphIndInv, GraphInv
<1>2. ASSUME NEW w \in Writer, extract_edges(w) PROVE SerialInv'
  <2>1. PICK d \in DocDate :
          wr' = [wr EXCEPT ![w] = [IdleWriter EXCEPT !.pc = "extract", !.date = d,
                                                     !.doc = Len(docs) + 1]]
    BY <1>2 DEF extract_edges
  <2>2. PICK r : r = [IdleWriter EXCEPT !.pc = "extract", !.date = d, !.doc = Len(docs) + 1]
    OBVIOUS
  <2>3. r.pc = "extract" /\ r.sup = {}  BY <2>2 DEF IdleWriter
  <2>4. wr' = [wr EXCEPT ![w] = r]  BY <2>1, <2>2
  <2>5. UNCHANGED <<edges, serial>> /\ wr[w].pc = "idle"  BY <1>2 DEF extract_edges
  <2>6. wr[w].sup = {}  BY <1>1, <2>5 DEF TypesOK
  <2>7. PICK new : docs' = Append(docs, new) /\ new.st \in {"indexed", "unlisted"}
    BY <1>2 DEF extract_edges
  <2>8. docs \in Seq(DocRecord)  BY <1>1 DEF TypesOK
  <2>9. /\ \A n \in DOMAIN docs : docs'[n] = docs[n]
        /\ \A n \in DOMAIN docs' : n \in DOMAIN docs \/ docs'[n] = new
    BY <2>7, <2>8
  <2>10. Undeleted => Undeleted'  BY <2>7, <2>9 DEF Undeleted
  <2>11. \A n \in DOMAIN docs : docs'[n].tag = docs[n].tag  BY <2>9
  <2>12. r.pc \notin {"upsert", "flag"}  BY <2>3
  <2> QED BY <1>1, <2>3, <2>4, <2>5, <2>6, <2>10, <2>11, <2>12, QuietSerial
<1>3. ASSUME NEW w \in Writer, edges_extracted(w) \/ provider_failed(w) PROVE SerialInv'
  <2>1. UNCHANGED <<edges, docs, serial>> /\ wr[w].pc \in {"extract", "embed"}
    BY <1>1, <1>3, QuietSteps
  <2>2. PICK r \in WriterRecord :
          wr' = [wr EXCEPT ![w] = r] /\ r.pc \in {"idle", "embed"} /\ r.sup = {}
    BY <1>1, <1>3, QuietSteps
  <2>3. wr[w].sup = {}  BY <1>1, <2>1 DEF TypesOK
  <2>4. r.pc \notin {"upsert", "flag"}  BY <2>2
  <2>5. Undeleted => Undeleted'  BY <2>1 DEF Undeleted
  <2>6. \A n \in DOMAIN docs : docs'[n].tag = docs[n].tag  BY <2>1
  <2> QED BY <1>1, <2>1, <2>2, <2>3, <2>4, <2>5, <2>6, QuietSerial
<1>4. ASSUME NEW n \in DOMAIN docs, delete_document_tagged(n) PROVE SerialInv'
  BY <1>4 DEF delete_document_tagged, SerialInv
<1>5. CASE UNCHANGED graphVars
  <2>1. UNCHANGED <<edges, wr, docs, serial>>  BY <1>5 DEF graphVars
  <2>2. (OneWriter' <=> OneWriter) /\ (Undeleted' <=> Undeleted)
    BY <2>1 DEF OneWriter, Undeleted, Indexing
  <2>3. ReadStillTrue' <=> ReadStillTrue
    BY <2>1 DEF ReadStillTrue, Latest, Stored
  <2>4. OneLive => OneLive'  BY <2>1, LiveStays
  <2> QED BY <2>1, <2>2, <2>3, <2>4 DEF SerialInv
<1> QED
  BY <1>1, <1>2, <1>3, <1>4, <1>5, ReadSerial, UpsertSerial, FlagSerial
  DEF Next, IngestStep, AgentStep, vars, graphVars

\* "a newer value supersedes the old" (graph.rs:19): while ingests do not overlap,
\* carry one edge per attribute, read all the latest edges and know how their calls
\* ended, an attribute of single values has exactly one latest edge, however many
\* edges it has.
THEOREM OneLatest == Spec => []OneLatestWhenSerial
<1>1. Init => SerialInv
  <2> SUFFICES ASSUME Init PROVE SerialInv  OBVIOUS
  <2>1. edges = <<>> /\ docs = <<>> /\ wr = [w \in Writer |-> IdleWriter]
    BY DEF Init, GraphInit
  <2>2. IdleWriter.pc = "idle"  BY DEF IdleWriter
  <2> QED BY <2>1, <2>2 DEF SerialInv, Undeleted, OneWriter, ReadStillTrue, OneLive, Indexing
<1>2. GraphIndInv /\ SerialInv => OneLatestWhenSerial
  <2> SUFFICES ASSUME GraphIndInv, SerialInv, serial, \A w \in Writer : wr[w].pc # "flag",
                      NEW e \in Stored,
                      \A f \in Group(e.tag, e.subject, e.predicate) : f.singular
               PROVE  Cardinality({f \in Group(e.tag, e.subject, e.predicate) :
                                      f.is_latest}) = 1
    BY DEF OneLatestWhenSerial
  <2> DEFINE G == Group(e.tag, e.subject, e.predicate)
  <2>1. TypesOK /\ ReasonStored /\ Undeleted /\ OneLive
    BY DEF GraphIndInv, GraphInv, SerialInv
  <2>2. \A j \in DOMAIN edges : edges[j] # Erased /\ edges[j].id = j
    BY <2>1 DEF ReasonStored, TypesOK
  <2>3. \A j : Live(j) <=> edges[j].is_latest  BY <2>1 DEF Live, TypesOK
  <2>4. PICK i \in DOMAIN edges : e = edges[i]  BY DEF Stored
  <2>5. \A f : f \in G <=> \E j \in DOMAIN edges : f = edges[j] /\ SameGroup(j, i)
    BY <2>2, <2>4 DEF Group, Stored, SameGroup, group_key
  <2>6. AllSingular(i)  BY <2>5 DEF AllSingular
  <2>7. PICK m \in DOMAIN edges : OnlyLive(m, i)  BY <2>1, <2>6 DEF OneLive
  <2>8. {f \in G : f.is_latest} = {edges[m]}
    BY <2>3, <2>5, <2>7 DEF OnlyLive
  <2> QED BY <2>8, FS_Singleton
<1> QED BY <1>1, <1>2, SerialSteps, GraphInvariant, PTL DEF Spec-----------------------------------------------------------------------------
\* Reading by event time.

\* Loop r over the items of s up to the n-th: place i of r holds the item at g[i],
\* in order, and every place kept has been pushed.
Places(r, g, s, kept, n) ==
    /\ g \in [DOMAIN r -> kept \intersect (1 .. n)]
    /\ \A i, j \in DOMAIN r : i < j => g[i] < g[j]
    /\ \A k \in kept \intersect (1 .. n) : \E i \in DOMAIN r : g[i] = k
    /\ \A i \in DOMAIN r : r[i] = s[g[i]]

\* One turn of the loop that pushes.
LEMMA PlacesGrow ==
    ASSUME NEW S, NEW r \in Seq(S), NEW g, NEW s, NEW kept, NEW n \in Nat \ {0},
           Places(r, g, s, kept, n - 1), n \in kept, s[n] \in S
    PROVE  Append(r, s[n]) \in Seq(S) /\ \E h : Places(Append(r, s[n]), h, s, kept, n)
<1> PICK u : u = Append(r, s[n])  OBVIOUS
<1> PICK a \in Nat : a = Len(r)  OBVIOUS
<1>1. u \in Seq(S) /\ DOMAIN r = 1 .. a /\ DOMAIN u = 1 .. (a + 1)
  OBVIOUS
<1>2. u[a + 1] = s[n] /\ \A i \in 1 .. a : u[i] = r[i]
  OBVIOUS
<1> DEFINE h == [i \in 1 .. (a + 1) |-> IF i = a + 1 THEN n ELSE g[i]]
<1>3. /\ g \in [1 .. a -> kept \intersect (1 .. (n - 1))]
      /\ \A i, j \in 1 .. a : i < j => g[i] < g[j]
      /\ \A k \in kept \intersect (1 .. (n - 1)) : \E i \in 1 .. a : g[i] = k
      /\ \A i \in 1 .. a : r[i] = s[g[i]]
  BY <1>1 DEF Places
<1>4. h[a + 1] = n /\ \A i \in 1 .. a : h[i] = g[i] /\ h[i] \in kept /\ h[i] \in 1 .. (n - 1)
  BY <1>3
<1>5. \A i \in 1 .. (a + 1) : i \in 1 .. a \/ i = a + 1
  OBVIOUS
<1>6. 1 .. (n - 1) \subseteq 1 .. n /\ n \in 1 .. n /\ \A k \in 1 .. n : k \in 1 .. (n - 1) \/ k = n
  OBVIOUS
<1>7. h \in [1 .. (a + 1) -> kept \intersect (1 .. n)]
  <2>1. \A i \in 1 .. (a + 1) : h[i] \in kept \intersect (1 .. n)
    <3> HIDE DEF h
    <3> QED BY <1>4, <1>5, <1>6
  <2> QED BY <2>1
<1> HIDE DEF h
<1>8. \A i, j \in 1 .. (a + 1) : i < j => h[i] < h[j]
  <2> SUFFICES ASSUME NEW i \in 1 .. (a + 1), NEW j \in 1 .. (a + 1), i < j PROVE h[i] < h[j]
    OBVIOUS
  <2>1. i \in 1 .. a  OBVIOUS
  <2>2. CASE j \in 1 .. a  BY <1>3, <1>4, <2>1, <2>2
  <2>3. CASE j = a + 1  BY <1>4, <2>1, <2>3
  <2> QED BY <1>5, <2>2, <2>3
<1>9. \A k \in kept \intersect (1 .. n) : \E i \in 1 .. (a + 1) : h[i] = k
  <2> SUFFICES ASSUME NEW k \in kept \intersect (1 .. n) PROVE \E i \in 1 .. (a + 1) : h[i] = k
    OBVIOUS
  <2>1. CASE k = n  BY <1>4, <2>1
  <2>2. CASE k \in 1 .. (n - 1)
    <3>1. PICK i \in 1 .. a : g[i] = k  BY <1>3, <2>2
    <3> QED BY <1>4, <3>1
  <2> QED BY <1>6, <2>1, <2>2
<1>10. \A i \in 1 .. (a + 1) : u[i] = s[h[i]]
  BY <1>2, <1>3, <1>4, <1>5
<1>11. Places(u, h, s, kept, n)
  BY <1>1, <1>7, <1>8, <1>9, <1>10 DEF Places
<1> QED BY <1>1, <1>11

\* What the loop has pushed after every turn.
LEMMA LoopPlaces ==
    ASSUME NEW S, NEW s \in Seq(S), NEW kept, NEW f, Pushes(f, Len(s), kept, s)
    PROVE  \A m \in 0 .. Len(s) : f[m] \in Seq(S) /\ \E g : Places(f[m], g, s, kept, m)
<1> DEFINE n == Len(s)
           Good(m) == f[m] \in Seq(S) /\ \E g : Places(f[m], g, s, kept, m)
           T == {m \in 0 .. n : ~Good(m)}
<1>0. n \in Nat  OBVIOUS
<1> SUFFICES ASSUME T # {} PROVE FALSE  OBVIOUS
<1>1. PICK k \in T : \A j \in T : k <= j
  <2> HIDE DEF T, n
  <2>1. T \subseteq Nat  BY <1>0 DEF T
  <2> QED BY <2>1, SmallestNumber
<1>2. k \in 0 .. n /\ ~Good(k) /\ \A m \in 0 .. n : m < k => Good(m)
  <2> HIDE DEF Good
  <2> QED BY <1>0, <1>1
<1>3. f[k] = IF k = 0 THEN <<>> ELSE IF k \in kept THEN Append(f[k - 1], s[k]) ELSE f[k - 1]
  BY <1>2 DEF Pushes
<1>4. CASE k = 0
  <2>1. f[k] = <<>> /\ f[k] \in Seq(S) /\ DOMAIN f[k] = {}  BY <1>3, <1>4
  <2>2. \A x : Places(f[k], [i \in {} |-> x], s, kept, k)
    BY <1>4, <2>1 DEF Places
  <2> QED BY <1>2, <2>1, <2>2
<1>5. CASE k # 0
  <2>1. k \in Nat \ {0} /\ k - 1 \in 0 .. n /\ k - 1 < k /\ k \in 1 .. n  BY <1>0, <1>2, <1>5
  <2>2. PICK g : f[k - 1] \in Seq(S) /\ Places(f[k - 1], g, s, kept, k - 1)
    BY <1>2, <2>1
  <2>3. CASE k \in kept
    <3>1. s[k] \in S  BY <2>1
    <3> QED BY <1>2, <1>3, <1>5, <2>1, <2>2, <2>3, <3>1, PlacesGrow
  <2>4. CASE k \notin kept
    <3>1. f[k] = f[k - 1]  BY <1>3, <1>5, <2>4
    <3>2. kept \intersect (1 .. (k - 1)) = kept \intersect (1 .. k)  BY <2>1, <2>4
    <3>3. Places(f[k], g, s, kept, k)  BY <2>2, <3>1, <3>2 DEF Places
    <3> QED BY <1>2, <2>2, <3>1, <3>3
  <2> QED BY <2>3, <2>4
<1> QED BY <1>4, <1>5

\* What a loop pushes: the items at the places kept, in order.
LEMMA PickedPlaces ==
    ASSUME NEW S, NEW s \in Seq(S), NEW kept
    PROVE  Picked(s, kept) \in Seq(S) /\ \E g : Places(Picked(s, kept), g, s, kept, Len(s))
<1> DEFINE n == Len(s)
           Turns(f) == [m \in 0 .. n |->
                          IF m = 0 THEN <<>>
                          ELSE IF m \in kept THEN Append(f[m - 1], s[m]) ELSE f[m - 1]]
           pushed == CHOOSE f : f = Turns(f)
<1>1. n \in Nat /\ n \in 0 .. n  OBVIOUS
<1>2. \E f : f = Turns(f)
  <2>1. \E f : Pushes(f, n, kept, s)
    <3> HIDE DEF n
    <3> QED BY <1>1, LoopExists
  <2> QED BY <2>1 DEF Pushes
<1>3. Pushes(pushed, n, kept, s)
  <2>1. pushed = Turns(pushed)
    <3> HIDE DEF Turns
    <3> QED BY <1>2
  <2> HIDE DEF pushed
  <2> QED BY <2>1 DEF Pushes
<1>4. Picked(s, kept) = pushed[n]  BY DEF Picked
<1> HIDE DEF pushed
<1> QED BY <1>1, <1>3, <1>4, LoopPlaces

\* The order of a stable sort by date.
Precedes(order, j, i) == \/ order[j].from < order[i].from
                         \/ order[j].from = order[i].from /\ j <= i

\* Stored edges are dated.
LEMMA EdgesDated ==
    ASSUME NEW S \in Seq(EdgeRow)
    PROVE  \A i \in 1 .. Len(S) : S[i] \in EdgeRow /\ S[i].from \in Int
<1>1. \A i \in 1 .. Len(S) : S[i] \in EdgeRow  OBVIOUS
<1>2. \A e \in EdgeRow : e.from \in Int  BY DEF EdgeRow
<1> QED BY <1>1, <1>2

\* A member's place in the sorted order is its own, and every place is taken.
LEMMA PlacesOfSort ==
    ASSUME NEW order \in Seq(EdgeRow)
    PROVE  LET n == Len(order)
               place(i) == Cardinality(DatedUpTo(order, i))
           IN  /\ \A i \in 1 .. n : place(i) \in 1 .. n
               /\ \A i, j \in 1 .. n : i # j /\ Precedes(order, i, j) => place(i) < place(j)
               /\ \A k \in 1 .. n : \E i \in 1 .. n : place(i) = k
<1> DEFINE n == Len(order)
           place(i) == Cardinality(DatedUpTo(order, i))
<1>1. n \in Nat /\ DOMAIN order = 1 .. n /\ \A i \in 1 .. n : order[i].from \in Int
  BY EdgesDated
<1> HIDE DEF n
<1>2. IsFiniteSet(1 .. n) /\ Cardinality(1 .. n) = n
  BY <1>1, FS_Interval
<1>3. \A i \in 1 .. n : DatedUpTo(order, i) = {j \in 1 .. n : Precedes(order, j, i)}
  BY <1>1 DEF DatedUpTo, Precedes
<1>4. \A i \in 1 .. n : i \in DatedUpTo(order, i)
  BY <1>1, <1>3 DEF Precedes
<1>5. \A i \in 1 .. n : IsFiniteSet(DatedUpTo(order, i)) /\ place(i) \in Nat /\ place(i) <= n
  <2> TAKE i \in 1 .. n
  <2>1. DatedUpTo(order, i) \in SUBSET (1 .. n)  BY <1>3
  <2> QED BY <1>2, <2>1, FS_Subset, FS_CardinalityType
<1>6. \A i \in 1 .. n : place(i) \in 1 .. n
  <2> TAKE i \in 1 .. n
  <2>1. place(i) # 0  BY <1>4, <1>5, FS_EmptySet
  <2> QED BY <1>1, <1>5, <2>1
<1>7. ASSUME NEW i \in 1 .. n, NEW j \in 1 .. n, i # j, Precedes(order, i, j)
      PROVE  place(i) < place(j)
  <2>1. DatedUpTo(order, i) \in SUBSET DatedUpTo(order, j)
    BY <1>1, <1>3, <1>7 DEF Precedes
  <2>2. j \notin DatedUpTo(order, i)
    BY <1>1, <1>3, <1>7 DEF Precedes
  <2>3. place(i) <= place(j) /\ place(i) # place(j)
    BY <1>4, <1>5, <2>1, <2>2, FS_Subset
  <2> QED BY <1>5, <2>3
<1>8. \A i, j \in 1 .. n : i # j => place(i) # place(j)
  <2> SUFFICES ASSUME NEW i \in 1 .. n, NEW j \in 1 .. n, i # j PROVE place(i) # place(j)
    OBVIOUS
  <2>1. Precedes(order, i, j) \/ Precedes(order, j, i)  BY <1>1 DEF Precedes
  <2>2. place(i) \in Nat /\ place(j) \in Nat  BY <1>5
  <2>3. place(i) < place(j) \/ place(j) < place(i)  BY <1>7, <2>1
  <2> HIDE DEF place
  <2> QED BY <2>2, <2>3
<1>9. \A k \in 1 .. n : \E i \in 1 .. n : place(i) = k
  <2> DEFINE f == [i \in 1 .. n |-> place(i)]
  <2>1. f \in Injection(1 .. n, 1 .. n)
    <3>1. f \in [1 .. n -> 1 .. n]  BY <1>6
    <3>2. \A i, j \in 1 .. n : f[i] = f[j] => i = j  BY <1>8
    <3> HIDE DEF f
    <3> QED BY <3>1, <3>2 DEF Injection, IsInjective
  <2>2. f \in Surjection(1 .. n, 1 .. n)
    <3> HIDE DEF f
    <3> QED BY <1>2, <2>1, FS_Injection
  <2>3. \A k \in 1 .. n : \E i \in 1 .. n : f[i] = k
    <3> HIDE DEF f
    <3> QED BY <2>2 DEF Surjection
  <2> QED BY <2>3
<1> QED BY <1>6, <1>7, <1>9 DEF n

\* A sort by date keeps the members and puts them in the order of their dates.
LEMMA SortedByDate ==
    ASSUME NEW order \in Seq(EdgeRow)
    PROVE  /\ ByDate(order) \in Seq(EdgeRow)
           /\ \A k, l \in DOMAIN ByDate(order) :
                 k <= l => ByDate(order)[k].from <= ByDate(order)[l].from
           /\ \A k \in DOMAIN ByDate(order) : \E i \in DOMAIN order : ByDate(order)[k] = order[i]
           /\ \A i \in DOMAIN order : \E k \in DOMAIN ByDate(order) : ByDate(order)[k] = order[i]
<1> PICK n \in Nat : n = Len(order)  OBVIOUS
<1> DEFINE place(i) == Cardinality(DatedUpTo(order, i))
           at(k) == CHOOSE i \in 1 .. n : place(i) = k
           sorted == [k \in 1 .. n |-> order[at(k)]]
<1>1. DOMAIN order = 1 .. n /\ \A i \in 1 .. n : order[i] \in EdgeRow /\ order[i].from \in Int
  BY EdgesDated
<1>2. ByDate(order) = sorted  BY <1>1 DEF ByDate
<1>3. /\ \A i \in 1 .. n : place(i) \in 1 .. n
      /\ \A i, j \in 1 .. n : i # j /\ Precedes(order, i, j) => place(i) < place(j)
      /\ \A k \in 1 .. n : \E i \in 1 .. n : place(i) = k
  BY PlacesOfSort
<1> HIDE DEF place
<1>4. \A k \in 1 .. n : at(k) \in 1 .. n /\ place(at(k)) = k
  BY <1>3
<1> HIDE DEF at
<1>5. \A k \in 1 .. n : sorted[k] = order[at(k)]  OBVIOUS
<1>6. sorted \in Seq(EdgeRow) /\ DOMAIN sorted = 1 .. n
  BY <1>1, <1>4
<1> HIDE DEF sorted
<1>7. ASSUME NEW k \in 1 .. n, NEW l \in 1 .. n, k <= l
      PROVE  sorted[k].from <= sorted[l].from
  <2>1. CASE k = l
    <3>1. order[at(k)].from \in Int  BY <1>1, <1>4
    <3> QED BY <1>5, <2>1, <3>1
  <2>2. CASE k < l
    <3>1. at(k) # at(l) /\ ~(place(at(l)) < place(at(k)))  BY <1>4, <2>2
    <3>2. ~Precedes(order, at(l), at(k))  BY <1>3, <1>4, <3>1
    <3>3. order[at(k)].from \in Int /\ order[at(l)].from \in Int  BY <1>1, <1>4
    <3> QED BY <1>5, <3>2, <3>3 DEF Precedes
  <2> QED BY <1>7, <2>1, <2>2
<1>8. ASSUME NEW i \in 1 .. n  PROVE \E k \in 1 .. n : sorted[k] = order[i]
  <2>1. place(i) \in 1 .. n  BY <1>3
  <2>2. at(place(i)) = i
    <3>1. at(place(i)) \in 1 .. n /\ place(at(place(i))) = place(i)  BY <1>4, <2>1
    <3>2. ASSUME at(place(i)) # i PROVE FALSE
      <4>1. Precedes(order, at(place(i)), i) \/ Precedes(order, i, at(place(i)))
        BY <1>1, <3>1 DEF Precedes
      <4>2. place(i) < place(i)  BY <1>3, <3>1, <3>2, <4>1
      <4> QED BY <2>1, <4>2
    <3> QED BY <3>2
  <2> QED BY <1>5, <2>1, <2>2
<1> QED BY <1>1, <1>2, <1>4, <1>5, <1>6, <1>7, <1>8

\* The places of a timeline: a member is shown unless it repeats the object before.
Shown(sorted) == {i \in DOMAIN sorted : i > 1 => sorted[i].object # sorted[i - 1].object}

\* Between two that are shown, members have the object of the first.
LEMMA Repeats ==
    ASSUME NEW n \in Nat, NEW s, DOMAIN s = 1 .. n, NEW a \in 1 .. n, NEW b \in 1 .. n,
           \A k \in 1 .. n : a < k /\ k <= b => k \notin Shown(s)
    PROVE  a <= b => s[b].object = s[a].object
<1> DEFINE T == {k \in 1 .. n : a <= k /\ k <= b /\ s[k].object # s[a].object}
<1> SUFFICES ASSUME T # {} PROVE FALSE  OBVIOUS
<1>1. PICK k \in T : \A j \in T : k <= j
  <2> HIDE DEF T
  <2>1. T \subseteq Nat  BY DEF T
  <2> QED BY <2>1, SmallestNumber
<1>2. k \in 1 .. n /\ a < k /\ k <= b /\ k > 1  OBVIOUS
<1>3. k - 1 \in 1 .. n /\ a <= k - 1 /\ k - 1 <= b /\ k - 1 \notin T  BY <1>1, <1>2
<1>4. s[k - 1].object = s[a].object  BY <1>3
<1>5. s[k].object = s[k - 1].object  BY <1>2 DEF Shown
<1> QED BY <1>2, <1>4, <1>5

\* A timeline is complete, ascending and without immediate repeats.
LEMMA TimelineOK ==
    ASSUME NEW sorted \in Seq(EdgeRow),
           \A k, l \in DOMAIN sorted : k <= l => sorted[k].from <= sorted[l].from
    PROVE  LET timeline == Picked(sorted, Shown(sorted)) IN
           /\ \A k \in DOMAIN sorted :
                 \E i \in DOMAIN timeline : /\ timeline[i].object = sorted[k].object
                                            /\ timeline[i].from <= sorted[k].from
           /\ \A i \in 2 .. Len(timeline) :
                 /\ timeline[i - 1].from <= timeline[i].from
                 /\ timeline[i - 1].object # timeline[i].object
<1> PICK n \in Nat : n = Len(sorted)  OBVIOUS
<1> DEFINE shown == Shown(sorted)
<1> PICK timeline : timeline = Picked(sorted, shown)  OBVIOUS
<1>0. DOMAIN sorted = 1 .. n /\ shown \subseteq 1 .. n  BY DEF Shown
<1>1. \A k, l \in 1 .. n : k <= l => sorted[k].from <= sorted[l].from  BY <1>0
<1>2. PICK g : Places(timeline, g, sorted, shown, n) /\ timeline \in Seq(EdgeRow)
  BY PickedPlaces
<1> PICK m \in Nat : m = Len(timeline)  BY <1>2
<1>3. DOMAIN timeline = 1 .. m  BY <1>2
<1>4. /\ g \in [1 .. m -> shown]
      /\ \A i, j \in 1 .. m : i < j => g[i] < g[j]
      /\ \A k \in shown : \E i \in 1 .. m : g[i] = k
      /\ \A i \in 1 .. m : timeline[i] = sorted[g[i]]
  BY <1>0, <1>2, <1>3 DEF Places
<1>5. \A i \in 1 .. m : g[i] \in shown /\ g[i] \in 1 .. n  BY <1>0, <1>4
<1>6. ASSUME NEW k \in 1 .. n
      PROVE  \E i \in 1 .. m : timeline[i].object = sorted[k].object /\ timeline[i].from <= sorted[k].from
  <2> DEFINE B == {k - a : a \in {c \in shown : c <= k}}
  <2>1. 1 \in shown /\ 1 <= k  BY <1>0 DEF Shown
  <2>2. B # {} /\ B \subseteq Nat
    <3>1. \A c \in shown : c <= k => k - c \in Nat  BY <1>0
    <3> QED BY <2>1, <3>1
  <2>3. PICK d \in B : \A e \in B : d <= e
    <3> HIDE DEF B
    <3> QED BY <2>2, SmallestNumber
  <2>4. PICK a \in shown : a <= k /\ d = k - a  BY <2>3
  <2>5. a \in 1 .. n  BY <1>0, <2>4
  <2>6. ASSUME NEW c \in 1 .. n, a < c, c <= k, c \in shown  PROVE FALSE
    <3>1. k - c \in B  BY <2>6
    <3>2. d <= k - c  BY <2>3, <3>1
    <3> QED BY <2>4, <2>5, <2>6, <3>2
  <2>7. sorted[k].object = sorted[a].object  BY SMTT(40), <1>0, <2>4, <2>5, <2>6, Repeats
  <2>8. sorted[a].from <= sorted[k].from  BY <1>1, <2>4, <2>5
  <2>9. PICK i \in 1 .. m : g[i] = a  BY <1>4, <2>4
  <2> QED BY <1>4, <2>7, <2>8, <2>9
<1>7. ASSUME NEW i \in 2 .. m
      PROVE  /\ timeline[i - 1].from <= timeline[i].from
             /\ timeline[i - 1].object # timeline[i].object
  <2> DEFINE a == g[i - 1]
             b == g[i]
  <2>1. i \in 1 .. m /\ i - 1 \in 1 .. m /\ i - 1 < i  BY <1>7
  <2>2. a \in 1 .. n /\ b \in 1 .. n /\ a < b /\ b \in shown  BY <1>4, <1>5, <2>1
  <2>3. timeline[i - 1] = sorted[a] /\ timeline[i] = sorted[b]  BY <1>4, <2>1
  <2> HIDE DEF a, b
  <2>4. sorted[a].from <= sorted[b].from  BY <1>1, <2>2
  <2>5. b - 1 \in 1 .. n /\ a <= b - 1 /\ b > 1  BY <2>2
  <2>6. ASSUME NEW c \in 1 .. n, a < c, c <= b - 1, c \in shown  PROVE FALSE
    <3>1. PICK j \in 1 .. m : g[j] = c  BY <1>4, <2>6
    <3>2. a < g[j] /\ g[j] < b  BY <2>2, <2>6, <3>1
    <3>3. ~(j < i - 1) /\ j # i - 1 /\ ~(i < j) /\ j # i
      <4>1. j < i - 1 => g[j] < a  BY <1>4, <2>1 DEF a
      <4>2. i < j => b < g[j]  BY <1>4, <2>1 DEF b
      <4>3. g[j] \in Int  BY <2>6, <3>1
      <4> QED BY <2>2, <3>2, <4>1, <4>2, <4>3 DEF a, b
    <3> QED BY <2>1, <3>3
  <2>7. sorted[b - 1].object = sorted[a].object  BY <1>0, <2>2, <2>5, <2>6, Repeats
  <2>8. sorted[b].object # sorted[b - 1].object  BY <2>2, <2>5 DEF Shown
  <2> QED BY <2>3, <2>4, <2>7, <2>8
<1> QED BY <1>0, <1>3, <1>6, <1>7

\* A bounded set of numbers has a largest member.
LEMMA LargestPlace ==
    ASSUME NEW n \in Nat, NEW T, T \subseteq 1 .. n, T # {}
    PROVE  Max(T) \in T /\ \A j \in T : j <= Max(T)
<1> DEFINE D == {n - i : i \in T}
<1>1. D # {} /\ D \subseteq Nat
  <2>1. \A i \in T : n - i \in Nat  OBVIOUS
  <2> QED BY <2>1
<1>2. PICK d \in D : \A e \in D : d <= e
  <2> HIDE DEF D
  <2> QED BY <1>1, SmallestNumber
<1>3. PICK m \in T : d = n - m  OBVIOUS
<1>4. \A j \in T : m >= j
  <2> TAKE j \in T
  <2>1. d <= n - j  BY <1>2
  <2> QED BY <1>3, <2>1
<1>5. \E x \in T : \A y \in T : x >= y  BY <1>4
<1>6. Max(T) \in T /\ \A y \in T : Max(T) >= y  BY <1>5 DEF Max
<1> QED BY <1>6

\* The scroll of a namespace, in whatever order, with every edge at least once.
Scrolls(order, members) ==
    /\ order \in Seq(EdgeRow)
    /\ \A i \in DOMAIN order : order[i] \in members
    /\ \A f \in members : \E i \in DOMAIN order : order[i] = f

\* A loop that keeps the members with a property collects them all.
LEMMA PickedMembers ==
    ASSUME NEW order, NEW members, Scrolls(order, members), NEW kept, kept \subseteq DOMAIN order,
           NEW part, part = {order[i] : i \in kept}
    PROVE  Scrolls(Picked(order, kept), part)
<1> PICK n \in Nat : n = Len(order)  BY DEF Scrolls
<1> PICK r : r = Picked(order, kept)  OBVIOUS
<1>1. order \in Seq(EdgeRow) /\ DOMAIN order = 1 .. n  BY DEF Scrolls
<1>2. PICK g : Places(r, g, order, kept, n) /\ r \in Seq(EdgeRow)  BY <1>1, PickedPlaces
<1>3. kept \intersect (1 .. n) = kept  BY <1>1
<1>4. /\ \A i \in DOMAIN r : g[i] \in kept /\ r[i] = order[g[i]]
      /\ \A k \in kept : \E i \in DOMAIN r : g[i] = k
  BY <1>2, <1>3 DEF Places
<1> QED BY <1>2, <1>4 DEF Scrolls

\* One attribute: whatever the order of the scroll, its current value is dated last
\* among those not after the date, and its timeline is complete and ascending.
LEMMA ResolvedByDate ==
    ASSUME NEW order, NEW members, Scrolls(order, members), members # {}, NEW asOf \in Int
    PROVE  Resolved(resolve(order, asOf), members, asOf)
<1> PICK sorted : sorted = ByDate(order)  OBVIOUS
<1> DEFINE past == {i \in DOMAIN sorted : sorted[i].from <= asOf}
           now == IF past = {} THEN 1 ELSE Max(past)
           r == resolve(order, asOf)
<1>1. r.timeline = Picked(sorted, Shown(sorted)) /\ r.current = sorted[now]
  BY DEF resolve, Shown
<1>2. /\ sorted \in Seq(EdgeRow)
      /\ \A k, l \in DOMAIN sorted : k <= l => sorted[k].from <= sorted[l].from
      /\ \A k \in DOMAIN sorted : sorted[k] \in members
      /\ \A f \in members : \E k \in DOMAIN sorted : sorted[k] = f
  <2>1. order \in Seq(EdgeRow)  BY DEF Scrolls
  <2>2. /\ sorted \in Seq(EdgeRow)
        /\ \A k, l \in DOMAIN sorted : k <= l => sorted[k].from <= sorted[l].from
        /\ \A k \in DOMAIN sorted : \E i \in DOMAIN order : sorted[k] = order[i]
        /\ \A i \in DOMAIN order : \E k \in DOMAIN sorted : sorted[k] = order[i]
    BY <2>1, SortedByDate
  <2> QED BY <2>2 DEF Scrolls
<1> PICK n \in Nat : n = Len(sorted)  BY <1>2
<1>3. DOMAIN sorted = 1 .. n /\ \A k \in 1 .. n : sorted[k].from \in Int
  BY <1>2, EdgesDated
<1>4. n >= 1  BY <1>2, <1>3
<1>5. past \subseteq 1 .. n  BY <1>3
<1>6. past # {} => now \in past /\ \A j \in past : j <= now
  <2> HIDE DEF past
  <2> QED BY <1>5, LargestPlace
<1>7. now \in 1 .. n
  <2>1. past = {} => now = 1  OBVIOUS
  <2> HIDE DEF past, now
  <2>2. CASE past = {}  BY <1>4, <2>1, <2>2
  <2>3. CASE past # {}  BY <1>5, <1>6, <2>3
  <2> QED BY <2>2, <2>3
<1>8. \A f \in members : f.from <= asOf =>
         sorted[now].from <= asOf /\ f.from <= sorted[now].from
  <2> SUFFICES ASSUME NEW f \in members, f.from <= asOf
               PROVE  sorted[now].from <= asOf /\ f.from <= sorted[now].from
    OBVIOUS
  <2>1. PICK k \in 1 .. n : sorted[k] = f  BY <1>2, <1>3
  <2>2. k \in past  BY <1>3, <2>1
  <2>3. now \in past /\ k <= now  BY <1>6, <2>2
  <2> HIDE DEF now
  <2> QED BY <1>2, <1>3, <2>1, <2>3
<1> PICK timeline : timeline = Picked(sorted, Shown(sorted))  OBVIOUS
<1>9. /\ \A k \in DOMAIN sorted :
            \E i \in DOMAIN timeline : /\ timeline[i].object = sorted[k].object
                                       /\ timeline[i].from <= sorted[k].from
      /\ \A i \in 2 .. Len(timeline) : /\ timeline[i - 1].from <= timeline[i].from
                                        /\ timeline[i - 1].object # timeline[i].object
  BY <1>2, TimelineOK
<1>10. \A f \in members : \E i \in DOMAIN timeline : /\ timeline[i].object = f.object
                                                     /\ timeline[i].from <= f.from
  BY <1>2, <1>9
<1>11. r.current \in members  BY <1>1, <1>2, <1>3, <1>7
<1> HIDE DEF now, past, r
<1>12. \A f \in members : f.from <= asOf => r.current.from <= asOf /\ f.from <= r.current.from
  BY <1>1, <1>8
<1>13. r.timeline = timeline  BY <1>1
<1> QED BY <1>9, <1>10, <1>11, <1>12, <1>13 DEF r, Resolved

\* A count of instances has every value of the group once.
LEMMA CountedOnce ==
    ASSUME NEW order, NEW members, Scrolls(order, members),
           NEW e \in members, ~e.singular
    PROVE  CountsOnce(e, members, order)
<1> SUFFICES ASSUME NEW f \in members, group_key(f) = group_key(e)
             PROVE  LET values == count_event_instances_tagged(<<e>>, order)
                    IN  Cardinality({i \in DOMAIN values : values[i].object = f.object}) = 1
  BY DEF CountsOnce
<1> DEFINE Instance(i) == group_key(order[i]) = group_key(e)
           kept == {i \in DOMAIN order : /\ Instance(i)
                                         /\ \A j \in 1 .. i - 1 : Instance(j) =>
                                              order[j].object # order[i].object}
<1> PICK values : values = count_event_instances_tagged(<<e>>, order)  OBVIOUS
<1> PICK n \in Nat : n = Len(order)  BY DEF Scrolls
<1>1. order \in Seq(EdgeRow) /\ DOMAIN order = 1 .. n  BY DEF Scrolls
<1>2. values = Picked(order, kept)
  <2> DEFINE hits == <<e>>
             events == {i \in DOMAIN hits : ~hits[i].singular}
  <2>1. DOMAIN hits = {1} /\ hits[1] = e  OBVIOUS
  <2>2. events = {1}  BY <2>1
  <2>3. Min({1}) = 1  BY DEF Min
  <2>4. events # {} /\ hits[Min(events)] = e  BY <2>1, <2>2, <2>3
  <2> HIDE DEF hits
  <2> QED BY <2>4 DEF count_event_instances_tagged, hits
<1>3. PICK g : Places(values, g, order, kept, n)  BY <1>1, <1>2, PickedPlaces
<1>4. /\ \A i \in DOMAIN values : g[i] \in kept /\ values[i] = order[g[i]]
      /\ \A i, j \in DOMAIN values : i < j => g[i] < g[j]
      /\ \A k \in kept : k \in 1 .. n => \E i \in DOMAIN values : g[i] = k
  BY <1>3 DEF Places
<1>5. kept \subseteq 1 .. n  BY <1>1
<1> DEFINE T == {i \in 1 .. n : Instance(i) /\ order[i].object = f.object}
<1>6. T # {}
  <2>1. PICK i \in 1 .. n : order[i] = f  BY <1>1 DEF Scrolls
  <2> QED BY <2>1
<1>7. PICK k \in T : \A j \in T : k <= j
  <2>1. T \subseteq Nat  OBVIOUS
  <2> HIDE DEF T
  <2> QED BY <1>6, <2>1, SmallestNumber
<1>8. k \in kept
  <2>1. \A j \in 1 .. k - 1 : j \in 1 .. n /\ j < k  OBVIOUS
  <2>2. \A j \in 1 .. k - 1 : j \notin T  BY <1>7, <2>1
  <2> QED BY <1>1, <2>1, <2>2
<1>9. \A l \in kept : order[l].object = f.object => l = k
  <2> SUFFICES ASSUME NEW l \in kept, order[l].object = f.object, l # k PROVE FALSE
    OBVIOUS
  <2>1. l \in T  BY <1>1
  <2>2. k < l /\ k \in 1 .. l - 1  BY <1>1, <1>7, <2>1
  <2> QED BY <2>2
<1>10. k \in 1 .. n /\ order[k].object = f.object  OBVIOUS
<1> HIDE DEF T, kept
<1>11. PICK p \in DOMAIN values : g[p] = k  BY <1>4, <1>8, <1>10
<1>12. \A i \in DOMAIN values : values[i].object = f.object <=> i = p
  <2> SUFFICES ASSUME NEW i \in DOMAIN values, values[i].object = f.object, i # p PROVE FALSE
    BY <1>4, <1>10, <1>11
  <2>1. g[i] = k  BY <1>4, <1>9
  <2>2. DOMAIN values \subseteq Nat
    <3>1. values \in Seq(EdgeRow)  BY <1>1, <1>2, PickedPlaces
    <3> QED BY <3>1
  <2>3. i < p \/ p < i  BY <2>2
  <2>4. k < k  BY <1>4, <1>11, <2>1, <2>3
  <2> QED BY <1>10, <2>4
<1>13. {i \in DOMAIN values : values[i].object = f.object} = {p}  BY <1>11, <1>12
<1> QED BY <1>13, FS_Singleton

\* The stored order of a namespace is one of edges.
LEMMA StoredOrderTyped ==
    ASSUME TypesOK, NEW t
    PROVE  Picked(edges, {i \in DOMAIN edges : edges[i] # Erased /\ edges[i].tag = t})
              \in Seq(EdgeRow)
<1> DEFINE kept == {i \in DOMAIN edges : edges[i] # Erased /\ edges[i].tag = t}
           E == EdgeRow \cup {Erased}
<1> PICK base : base = Picked(edges, kept)  OBVIOUS
<1>1. edges \in Seq(E)  BY DEF TypesOK
<1>2. \A k \in kept : edges[k] \in EdgeRow
  <2>1. \A k \in DOMAIN edges : edges[k] \in E
    <3> HIDE DEF E
    <3> QED BY <1>1
  <2> QED BY <2>1
<1> HIDE DEF kept, E
<1>3. base \in Seq(E) /\ \E g : Places(base, g, edges, kept, Len(edges))
  BY <1>1, PickedPlaces
<1>4. PICK g : Places(base, g, edges, kept, Len(edges))  BY <1>3
<1>5. \A i \in DOMAIN base : base[i] \in EdgeRow  BY <1>2, <1>4 DEF Places
<1>6. base \in Seq(EdgeRow)
  <2>1. Len(base) \in Nat /\ DOMAIN base = 1 .. Len(base) /\ base = [i \in 1 .. Len(base) |-> base[i]]
    BY <1>3
  <2>2. \A i \in 1 .. Len(base) : base[i] \in EdgeRow  BY <1>5, <2>1
  <2>3. [i \in 1 .. Len(base) |-> base[i]] \in Seq(EdgeRow)  BY <2>1, <2>2
  <2> QED BY <2>1, <2>3
<1> QED BY <1>6 DEF kept

\* A part of a sequence is a sequence of its items.
LEMMA PartTyped ==
    ASSUME NEW S, NEW s \in Seq(S), NEW a \in Nat, NEW b \in Nat, a <= b, b <= Len(s)
    PROVE  SubSeq(s, a + 1, b) \in Seq(S) /\ Len(SubSeq(s, a + 1, b)) = b - a
OBVIOUS

\* A sequence reversed is one of its items, and as long.
LEMMA ReverseTyped ==
    ASSUME NEW S, NEW s \in Seq(S)
    PROVE  Reverse(s) \in Seq(S) /\ Len(Reverse(s)) = Len(s)
<1> PICK m \in Nat : m = Len(s)  OBVIOUS
<1>1. Reverse(s) = [i \in 1 .. m |-> s[m - i + 1]]  BY DEF Reverse
<1>2. \A i \in 1 .. m : m - i + 1 \in 1 .. m  OBVIOUS
<1>3. \A i \in 1 .. m : s[i] \in S  OBVIOUS
<1>4. \A i \in 1 .. m : s[m - i + 1] \in S  BY <1>2, <1>3
<1> QED BY <1>1, <1>4

\* The first n items of a rotation, or of one reversed.
LEMMA PartOfTurn ==
    ASSUME NEW S, NEW s \in Seq(S), NEW k \in DOMAIN s, NEW n \in 0 .. Len(s)
    PROVE  LET u == SubSeq(s, k + 1, Len(s)) \o SubSeq(s, 1, k)
           IN  SubSeq(u, 1, n) \in Seq(S) /\ SubSeq(Reverse(u), 1, n) \in Seq(S)
<1> PICK m \in Nat, z \in Nat : m = Len(s) /\ z = 0  OBVIOUS
<1>1. k \in Nat /\ k <= m /\ z <= k /\ n \in Nat /\ n <= m /\ z <= n /\ z + 1 = 1
  OBVIOUS
<1> PICK a : a = SubSeq(s, k + 1, m)  OBVIOUS
<1> PICK b : b = SubSeq(s, z + 1, k)  OBVIOUS
<1>2. a \in Seq(S) /\ Len(a) = m - k  BY <1>1, PartTyped
<1>3. b \in Seq(S) /\ Len(b) = k - z  BY <1>1, PartTyped
<1> PICK u : u = a \o b  OBVIOUS
<1>4. u \in Seq(S) /\ Len(u) = m
  <2>1. u \in Seq(S) /\ Len(u) = Len(a) + Len(b)  BY <1>2, <1>3
  <2> QED BY <1>1, <1>2, <1>3, <2>1
<1> PICK v : v = Reverse(u)  OBVIOUS
<1>5. v \in Seq(S) /\ Len(v) = m  BY <1>4, ReverseTyped
<1>6. SubSeq(u, z + 1, n) \in Seq(S)  BY <1>1, <1>4, PartTyped
<1>7. SubSeq(v, z + 1, n) \in Seq(S)  BY <1>1, <1>5, PartTyped
<1>8. u = SubSeq(s, k + 1, Len(s)) \o SubSeq(s, 1, k)  BY <1>1
<1> QED BY <1>1, <1>6, <1>7, <1>8

\* So every part of every order of it that a scroll may return is one of edges.
LEMMA ScrollTyped ==
    ASSUME TypesOK, NEW t, NEW scrolled \in scroll_all(t)
    PROVE  scrolled \in Seq(EdgeRow)
<1> DEFINE base == Picked(edges, {i \in DOMAIN edges : edges[i] # Erased /\ edges[i].tag = t})
           Turn(k) == SubSeq(base, k + 1, Len(base)) \o SubSeq(base, 1, k)
           full == {Turn(k) : k \in DOMAIN base} \cup {Reverse(Turn(k)) : k \in DOMAIN base}
<1>1. base \in Seq(EdgeRow)  BY StoredOrderTyped
<1>2. scroll_all(t) = {SubSeq(s, 1, n) : s \in full, n \in Scrolled(Len(base), AnswerCap)}
  BY DEF scroll_all
<1> HIDE DEF base
<1>3. PICK s \in full, n \in Scrolled(Len(base), AnswerCap) : scrolled = SubSeq(s, 1, n)
  <2> HIDE DEF full
  <2> QED BY <1>2
<1>4. PICK k \in DOMAIN base : s = Turn(k) \/ s = Reverse(Turn(k))  OBVIOUS
<1>5. n \in 0 .. Len(base)  BY <1>3 DEF Scrolled
<1>6. SubSeq(Turn(k), 1, n) \in Seq(EdgeRow) /\ SubSeq(Reverse(Turn(k)), 1, n) \in Seq(EdgeRow)
  BY <1>1, <1>5, PartOfTurn
<1> HIDE DEF Turn
<1> QED BY <1>3, <1>4, <1>6

\* "a deterministic event-time lookup instead of an LLM guess" (mod.rs:1234): whatever
\* races have done to the flags, whatever part of the edges a scroll returns and in
\* whatever order, an attribute resolves to the value dated last among those returned
\* that are not after the question's date, its timeline is complete for them, ascending
\* and without repeats, and a count of instances has each of their values once, for any
\* number of edges.
THEOREM ResolvedInTime == Spec => []ResolvesByEventTime
<1>1. GraphIndInv => ResolvesByEventTime
  <2> SUFFICES ASSUME GraphIndInv, NEW t \in Tag, NEW scrolled \in scroll_all(t)
               PROVE  ResolvesOver({scrolled[i] : i \in DOMAIN scrolled}, scrolled)
    BY DEF ResolvesByEventTime
  <2> DEFINE members == {scrolled[i] : i \in DOMAIN scrolled}
  <2>1. Scrolls(scrolled, members)
    <3>1. scrolled \in Seq(EdgeRow)  BY ScrollTyped DEF GraphIndInv, GraphInv
    <3> QED BY <3>1 DEF Scrolls
  <2> HIDE DEF members
  <2>2. \A e \in {f \in members : ~f.singular} : CountsOnce(e, members, scrolled)
    BY <2>1, CountedOnce
  <2>3. ASSUME NEW asOf \in {0} \cup {f.from : f \in members},
               NEW g \in {group_key(f) : f \in members}
        PROVE  Resolved(resolve_edges_tagged(members, scrolled, asOf)[g],
                        {f \in members : group_key(f) = g}, asOf)
    <3> DEFINE kept == {i \in DOMAIN scrolled : group_key(scrolled[i]) = g}
               part == {scrolled[i] : i \in kept}
    <3>1. /\ scrolled \in Seq(EdgeRow)
          /\ \A i \in DOMAIN scrolled : scrolled[i] \in members
          /\ \A f \in members : \E i \in DOMAIN scrolled : scrolled[i] = f
      BY <2>1 DEF Scrolls
    <3>2. asOf \in Int
      <4>1. \A f \in members : f.from \in Int  BY <3>1, EdgesDated
      <4> QED BY <4>1
    <3>3. part = {f \in members : group_key(f) = g}  BY <3>1
    <3>4. Scrolls(Picked(scrolled, kept), part)  BY <2>1, PickedMembers
    <3>5. part # {}  BY <3>3
    <3>6. resolve_edges_tagged(members, scrolled, asOf)[g] = resolve(Picked(scrolled, kept), asOf)
      <4>1. PICK f \in members : group_key(f) = g  OBVIOUS
      <4>2. kept # {}  BY <3>1, <4>1
      <4>3. g \in {group_key(h) : h \in {k \in members :
                     {i \in DOMAIN scrolled : group_key(scrolled[i]) = group_key(k)} # {}}}
        BY <4>1, <4>2
      <4> QED BY <4>3 DEF resolve_edges_tagged
    <3> HIDE DEF part, kept
    <3> QED BY <3>2, <3>3, <3>4, <3>5, <3>6, ResolvedByDate
  <2> QED BY <2>2, <2>3 DEF members, ResolvesOver
<1> QED BY <1>1, GraphInvariant, PTL
=============================================================================

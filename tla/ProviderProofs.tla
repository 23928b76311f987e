--------------------------- MODULE ProviderProofs ---------------------------
(***************************************************************************)
(* Proofs about ProviderClient, for any number of callers, attempts, inputs *)
(* and any batch size.                                                     *)
(*                                                                         *)
(* The argument: what a call has returned is always the vectors of the     *)
(* inputs before its position, in their order.  A step keeps it because a  *)
(* reply sorted by index is the batch that was asked (SortRestoresOrder),  *)
(* and a batch continues where the last one stopped (PartsJoin).  What a   *)
(* stream has handed over comes from the lines before its position.        *)
(***************************************************************************)
EXTENDS ProviderClient, FiniteSetTheorems, TLAPS

\* Every nonempty set of natural numbers has a smallest member.
LEMMA SmallestNumber ==
    ASSUME NEW T, T \subseteq Nat, T # {}
    PROVE  \E n \in T : \A m \in T : n <= m
<1> PICK k \in T : TRUE  OBVIOUS
<1> DEFINE S == 0 .. k
           R == StrictSubsetOrdering(S)
           F == {0 .. m : m \in {j \in T : j <= k}}
<1>1. IsFiniteSet(S)  BY FS_Interval
<1>2. IsWellFoundedOn(R, SUBSET S)
  BY <1>1, FS_StrictSubsetOrderingWellFounded, FS_FiniteSubsetsOfFinite
<1>3. F \subseteq SUBSET S /\ F # {}
  BY DEF F, S
<1>4. \E x \in F : \A y \in F : <<y, x>> \notin R
  <2> HIDE DEF F, R, S
  <2> QED BY <1>2, <1>3, WFMin
<1>5. PICK x \in F : \A y \in F : <<y, x>> \notin R  BY <1>4
<1>6. PICK n \in T : n <= k /\ x = 0 .. n  BY <1>5
<1>7. ASSUME NEW m \in T, m < n  PROVE FALSE
  <2>1. 0 .. m \in F  BY <1>6, <1>7
  <2>2. 0 .. m \subseteq 0 .. n /\ 0 .. m # 0 .. n  BY <1>6, <1>7
  <2>3. <<0 .. m, x>> \in R  BY <2>1, <2>2, <1>6, <1>3, <1>5 DEF StrictSubsetOrdering
  <2> QED BY <2>1, <2>3, <1>5
<1> QED BY <1>6, <1>7

\* An increasing map of 1 .. n onto itself is the identity.
LEMMA IncreasingIsIdentity ==
    ASSUME NEW n \in Nat, NEW g \in [1 .. n -> 1 .. n],
           \A i, j \in 1 .. n : i < j => g[i] < g[j],
           \A k \in 1 .. n : \E i \in 1 .. n : g[i] = k
    PROVE  \A i \in 1 .. n : g[i] = i
<1> DEFINE T == {i \in 1 .. n : g[i] # i}
<1> SUFFICES ASSUME T # {} PROVE FALSE  OBVIOUS
<1>1. PICK m \in T : \A i \in T : m <= i
  <2> HIDE DEF T
  <2>1. T \subseteq Nat  BY DEF T
  <2> QED BY <2>1, SmallestNumber
<1>2. \A i \in 1 .. n : i < m => g[i] = i  BY <1>1
<1>3. PICK k \in 1 .. n : g[k] = m  BY <1>1
<1>4. m \in 1 .. n /\ g[m] # m  BY <1>1
<1>5. ~(k < m)  BY <1>2, <1>3
<1>6. k # m  BY <1>3, <1>4
<1>7. m < k /\ g[m] < m  BY <1>3, <1>4, <1>5, <1>6
<1>8. g[m] \in 1 .. n /\ g[g[m]] = g[m]  BY <1>2, <1>4, <1>7
<1>9. g[g[m]] < g[m]  BY <1>4, <1>7, <1>8
<1> QED BY <1>8, <1>9

\* Sorting a reply by index puts the vector of input i at place i, in whatever
\* order the provider returned the batch.
LEMMA SortRestoresOrder ==
    ASSUME NEW batch \in Seq(Nat), NEW p \in Orders(batch), NEW reply,
           reply = [i \in DOMAIN batch |-> [index |-> p[i], vec |-> batch[p[i]]]]
    PROVE  InIndexOrder(reply) = batch
<1> DEFINE n == Len(batch)
           Sorts(q) == \A i, j \in DOMAIN reply :
                          i < j => reply[q[i]].index <= reply[q[j]].index
           sorted == CHOOSE q \in Orders(reply) : Sorts(q)
<1>1. n \in Nat /\ DOMAIN batch = 1 .. n /\ DOMAIN reply = 1 .. n  OBVIOUS
<1>2. \A q \in Orders(reply) :
         /\ q \in [1 .. n -> 1 .. n]
         /\ \A k \in 1 .. n : \E i \in 1 .. n : q[i] = k
         /\ \A i, j \in 1 .. n : q[i] = q[j] => i = j
  <2> SUFFICES ASSUME NEW q \in Bijection(1 .. n, 1 .. n)
               PROVE  /\ q \in [1 .. n -> 1 .. n]
                      /\ \A k \in 1 .. n : \E i \in 1 .. n : q[i] = k
                      /\ \A i, j \in 1 .. n : q[i] = q[j] => i = j
    BY <1>1 DEF Orders
  <2>1. q \in [1 .. n -> 1 .. n] /\ IsInjective(q)  BY DEF Bijection, Injection
  <2>2. \A k \in 1 .. n : \E i \in 1 .. n : q[i] = k  BY DEF Bijection, Surjection
  <2> QED BY <2>1, <2>2 DEF IsInjective
<1>3. /\ p \in [1 .. n -> 1 .. n]
      /\ \A k \in 1 .. n : \E i \in 1 .. n : p[i] = k
      /\ \A i, j \in 1 .. n : p[i] = p[j] => i = j
  BY <1>1 DEF Orders, Bijection, Injection, Surjection, IsInjective
<1>4. \A i \in 1 .. n : reply[i].index = p[i] /\ reply[i].vec = batch[p[i]]
  BY <1>1
<1>5. \E q \in Orders(reply) : Sorts(q)
  <2> DEFINE q == [k \in 1 .. n |-> CHOOSE i \in 1 .. n : p[i] = k]
  <2>1. \A k \in 1 .. n : q[k] \in 1 .. n /\ p[q[k]] = k  BY <1>3
  <2>2. \A i \in 1 .. n : q[p[i]] = i  BY <1>3, <2>1
  <2>3. q \in [1 .. n -> 1 .. n]  BY <2>1
  <2> HIDE DEF q
  <2>4. \A k \in 1 .. n : \E i \in 1 .. n : q[i] = k  BY <1>3, <2>2
  <2>5. \A i, j \in 1 .. n : q[i] = q[j] => i = j  BY <2>1
  <2>6. q \in Orders(reply)
    BY <1>1, <2>3, <2>4, <2>5 DEF Orders, Bijection, Injection, Surjection, IsInjective
  <2>7. \A i \in 1 .. n : reply[q[i]].index = i  BY <1>4, <2>1
  <2>8. Sorts(q)
    <3> SUFFICES ASSUME NEW i \in 1 .. n, NEW j \in 1 .. n, i < j
                 PROVE  reply[q[i]].index <= reply[q[j]].index
      BY <1>1
    <3>1. reply[q[i]].index = i /\ reply[q[j]].index = j  BY <2>7
    <3> QED BY <3>1
  <2> QED BY <2>6, <2>8
<1>6. sorted \in Orders(reply) /\ Sorts(sorted)
  <2> HIDE DEF Sorts
  <2> QED BY <1>5
<1>7. InIndexOrder(reply) = [i \in 1 .. n |-> reply[sorted[i]].vec]
  BY <1>1 DEF InIndexOrder
<1> HIDE DEF sorted
<1> DEFINE g == [i \in 1 .. n |-> p[sorted[i]]]
<1>8. sorted \in [1 .. n -> 1 .. n]  BY <1>2, <1>6
<1>9. g \in [1 .. n -> 1 .. n]  BY <1>3, <1>8
<1>10. \A i, j \in 1 .. n : i < j => g[i] < g[j]
  <2> SUFFICES ASSUME NEW i \in 1 .. n, NEW j \in 1 .. n, i < j  PROVE g[i] < g[j]
    OBVIOUS
  <2>1. g[i] <= g[j]  BY <1>1, <1>4, <1>6, <1>8
  <2>2. sorted[i] # sorted[j]  BY <1>2, <1>6
  <2>3. g[i] # g[j]  BY <1>3, <1>8, <2>2
  <2> HIDE DEF g
  <2>4. g[i] \in 1 .. n /\ g[j] \in 1 .. n  BY <1>9
  <2> QED BY <2>1, <2>3, <2>4
<1>11. \A k \in 1 .. n : \E i \in 1 .. n : g[i] = k
  <2> SUFFICES ASSUME NEW k \in 1 .. n  PROVE \E i \in 1 .. n : p[sorted[i]] = k
    OBVIOUS
  <2>1. PICK j \in 1 .. n : p[j] = k  BY <1>3
  <2>2. PICK i \in 1 .. n : sorted[i] = j  BY <1>2, <1>6
  <2> QED BY <2>1, <2>2
<1>12. \A i \in 1 .. n : g[i] = i
  <2> HIDE DEF g, n
  <2> QED BY <1>1, <1>9, <1>10, <1>11, IncreasingIsIdentity
<1>13. \A i \in 1 .. n : reply[sorted[i]].vec = batch[i]
  BY <1>4, <1>8, <1>12
<1>14. InIndexOrder(reply) = [i \in 1 .. n |-> batch[i]]  BY <1>7, <1>13
<1>15. batch = [i \in 1 .. n |-> batch[i]]  BY <1>1
<1> QED BY <1>14, <1>15

-----------------------------------------------------------------------------
\* A call in any of its states: what a batched one has returned so far is what was
\* asked, up to its position; a streamed one has handed over tokens up to its
\* position; a request in flight has something to ask for.
CallRecord == [st : {"idle", "sent", "backoff", "silent", "ok", "err"},
               kind : CallKind, asked : Seq(Nat), pos : Nat, out : Seq(Nat),
               attempt : 0 .. Attempts - 1]

CallOK(r) ==
    /\ r \in CallRecord
    /\ r.kind \in BatchedKind =>
         r.pos <= Len(r.asked) /\ r.out = SubSeq(r.asked, 1, r.pos)
    /\ r.kind \in StreamedKind => r.pos <= Len(r.asked) /\ HandedOnce(r.out, r.pos)
    /\ r.kind = "rerank" => r.asked # <<>>
    /\ r.kind \in BatchedKind /\ r.st \in {"sent", "backoff"} => r.pos < Len(r.asked)
    /\ r.kind \in BatchedKind /\ r.st = "ok" => r.pos = Len(r.asked)

\* The inductive invariant of the client: every call is in order.
ClientInv == /\ calls \in [Caller -> CallRecord]
             /\ \A c \in Caller : CallOK(calls[c])

\* The kinds of call, those sent in batches, and those handed over as they come.
LEMMA Kinds ==
    /\ CallKind = {"chat", "embed", "whole", "openai", "stream", "tools", "ocr",
                   "rerank", "transcribe"}
    /\ BatchedKind = {"embed", "openai"} /\ StreamedKind = {"stream", "whole"}
BY DEF CallKind, BatchedKind, StreamedKind, RetriedKind, SingleKind

\* Replacing one call by a call in order keeps every call in order.
LEMMA OneCallChanges ==
    ASSUME ClientInv, NEW c \in Caller, NEW r, CallOK(r),
           calls' = [calls EXCEPT ![c] = r]
    PROVE  ClientInv'
<1>1. r \in CallRecord  BY DEF CallOK
<1> HIDE DEF CallRecord
<1>2. calls' \in [Caller -> CallRecord]  BY <1>1 DEF ClientInv
<1>3. ASSUME NEW d \in Caller PROVE CallOK(calls'[d])
  <2>1. calls'[d] = IF d = c THEN r ELSE calls[d]  BY DEF ClientInv
  <2> QED BY <2>1 DEF ClientInv
<1> QED BY <1>2, <1>3 DEF ClientInv

\* A new call is in order, if a batched one has something to send.
LEMMA NewCallOK ==
    ASSUME NEW kind \in CallKind, NEW asked \in Seq(Nat),
           kind \in BatchedKind \cup {"rerank"} => asked # <<>>
    PROVE  CallOK(NewCall(kind, asked))
<1> DEFINE r == NewCall(kind, asked)
<1>1. r = [st |-> "sent", kind |-> kind, asked |-> asked, pos |-> 0,
           out |-> <<>>, attempt |-> 0]
  BY DEF NewCall
<1>2. r \in CallRecord  BY <1>1, ClientAssumption DEF CallRecord
<1>3. SubSeq(asked, 1, 0) = <<>> /\ Len(asked) \in Nat  OBVIOUS
<1>4. asked # <<>> => 0 < Len(asked)  OBVIOUS
<1>5. HandedOnce(<<>>, 0)  BY DEF HandedOnce
<1> SUFFICES CallOK(r)  OBVIOUS
<1> HIDE DEF r
<1> QED BY <1>1, <1>2, <1>3, <1>4, <1>5, Kinds DEF CallOK

\* No call is in order.
LEMMA NoCallOK == CallOK(NoCall)
<1>1. NoCall \in CallRecord  BY ClientAssumption, Kinds DEF CallRecord, NoCall
<1> QED BY <1>1, Kinds DEF CallOK, NoCall

\* Consecutive parts of a sequence join.
LEMMA PartsJoin ==
    ASSUME NEW s \in Seq(Nat), NEW a \in Nat, NEW b \in Nat, a <= b, b <= Len(s)
    PROVE  /\ SubSeq(s, 1, a) \in Seq(Nat)
           /\ SubSeq(s, a + 1, b) \in Seq(Nat) /\ Len(SubSeq(s, a + 1, b)) = b - a
           /\ SubSeq(s, 1, a) \o SubSeq(s, a + 1, b) = SubSeq(s, 1, b)
OBVIOUS

\* A line that hands over its token, a damaged one or none keeps the order.
LEMMA LineHandsOn ==
    ASSUME NEW out \in Seq(Nat), NEW n \in Nat, HandedOnce(out, n),
           NEW handed \in {<<n + 1>>, << 0 >>, <<>>}
    PROVE  out \o handed \in Seq(Nat) /\ HandedOnce(out \o handed, n + 1)
<1>1. CASE handed = <<>>
  <2>1. out \o handed = out  BY <1>1
  <2>2. \A i \in DOMAIN out : out[i] \in Nat  OBVIOUS
  <2> QED BY <2>1, <2>2 DEF HandedOnce
<1>2. ASSUME NEW token \in {n + 1, 0}, handed = <<token>>
      PROVE  out \o handed \in Seq(Nat) /\ HandedOnce(out \o handed, n + 1)
  <2> PICK u : u = out \o handed  OBVIOUS
  <2> PICK k \in Nat : k = Len(out)  OBVIOUS
  <2>1. token \in Nat  OBVIOUS
  <2>2. u \in Seq(Nat) /\ Len(u) = k + 1 /\ DOMAIN u = 1 .. (k + 1)  BY <1>2, <2>1
  <2>0. DOMAIN out = 1 .. k  OBVIOUS
  <2>3. \A i \in 1 .. k : u[i] = out[i] /\ out[i] \in Nat  BY <1>2
  <2>4. u[k + 1] = token  BY <1>2
  <2>5. /\ k <= n /\ \A i \in 1 .. k : u[i] <= n
        /\ \A i, j \in 1 .. k : i < j /\ u[i] # 0 /\ u[j] # 0 => u[i] < u[j]
    <3>1. \A i \in DOMAIN out : out[i] <= n  BY DEF HandedOnce
    <3>2. \A i, j \in DOMAIN out : i < j /\ out[i] # 0 /\ out[j] # 0 => out[i] < out[j]
      BY DEF HandedOnce
    <3>3. k <= n  BY DEF HandedOnce
    <3> QED BY <2>0, <2>3, <3>1, <3>2, <3>3
  <2>6. \A i \in 1 .. (k + 1) : i \in 1 .. k \/ i = k + 1  OBVIOUS
  <2>7. Len(u) <= n + 1 /\ \A i \in DOMAIN u : u[i] <= n + 1
    BY <2>2, <2>3, <2>4, <2>5, <2>6
  <2>8. ASSUME NEW i \in DOMAIN u, NEW j \in DOMAIN u, i < j, u[i] # 0, u[j] # 0
        PROVE  u[i] < u[j]
    <3>1. i \in 1 .. k  BY <2>2, <2>8
    <3>2. CASE j \in 1 .. k  BY <2>5, <2>8, <3>1, <3>2
    <3>3. CASE j = k + 1
      <4>1. u[j] = n + 1  BY <2>4, <2>8, <3>3
      <4>2. u[i] \in Nat /\ u[i] <= n  BY <2>3, <2>5, <3>1
      <4> QED BY <4>1, <4>2
    <3> QED BY <2>2, <2>6, <3>2, <3>3
  <2> QED BY <2>2, <2>7, <2>8 DEF HandedOnce
<1> QED BY <1>1, <1>2

\* A reply with a vector for every input, sorted, is the batch that was asked.
LEMMA ReplyIsBatch ==
    ASSUME NEW batch \in Seq(Nat), batch # <<>>, NEW reply \in BatchReply(batch),
           Len(reply) = Len(batch)
    PROVE  InIndexOrder(reply) = batch
<1> DEFINE full == {[i \in DOMAIN batch |-> [index |-> p[i], vec |-> batch[p[i]]]] :
                      p \in Orders(batch)}
<1>1. \A r \in full : Len(r) = Len(batch) /\ Len(Tail(r)) = Len(batch) - 1
  OBVIOUS
<1>2. reply \in full  BY <1>1 DEF BatchReply
<1> QED BY <1>2, SortRestoresOrder

\* The request in flight asks for the inputs after the position.
LEMMA RequestIsNext ==
    ASSUME NEW c \in Caller, NEW s \in Seq(Nat), NEW a \in Nat,
           calls[c].asked = s, calls[c].pos = a, a < Len(s)
    PROVE  \E e \in Nat :
             /\ a < e /\ e <= Len(s) /\ Request(c) = SubSeq(s, a + 1, e)
             /\ Request(c) \in Seq(Nat) /\ Request(c) # <<>>
             /\ a + Len(Request(c)) = e
             /\ SubSeq(s, 1, a) \o Request(c) = SubSeq(s, 1, e)
             /\ SubSeq(s, 1, e) \in Seq(Nat)
<1> DEFINE last == a + Batch
           e == IF last < Len(s) THEN last ELSE Len(s)
<1>1. Request(c) = SubSeq(s, a + 1, e)  BY DEF Request
<1>2. e \in Nat /\ a < e /\ a <= e /\ e <= Len(s)  BY ClientAssumption
<1> HIDE DEF e
<1>3. /\ Request(c) \in Seq(Nat) /\ Len(Request(c)) = e - a
      /\ SubSeq(s, 1, a) \o Request(c) = SubSeq(s, 1, e)
  <2>1. /\ SubSeq(s, a + 1, e) \in Seq(Nat) /\ Len(SubSeq(s, a + 1, e)) = e - a
        /\ SubSeq(s, 1, a) \o SubSeq(s, a + 1, e) = SubSeq(s, 1, e)
    BY <1>2, PartsJoin
  <2> QED BY <1>1, <2>1
<1>4. SubSeq(s, 1, e) \in Seq(Nat)  BY <1>2, PartsJoin
<1>5. a + Len(Request(c)) = e /\ Request(c) # <<>>  BY <1>2, <1>3
<1> QED BY <1>1, <1>2, <1>3, <1>4, <1>5

\* The next batch of vectors extends what was returned by what was asked.
LEMMA EmbedOK ==
    ASSUME ClientInv, NEW c \in Caller, embed_batch(c)
    PROVE  ClientInv'
<1> PICK r : r = calls[c]  OBVIOUS
<1>1. CallOK(r) /\ r.st = "sent" /\ r.kind \in BatchedKind
  BY DEF ClientInv, embed_batch
<1>2. /\ r \in CallRecord /\ r.pos < Len(r.asked) /\ r.out = SubSeq(r.asked, 1, r.pos)
      /\ r.asked \in Seq(Nat) /\ r.pos \in Nat
  BY <1>1, Kinds DEF CallOK, CallRecord
<1>3. PICK e \in Nat :
             /\ r.pos < e /\ e <= Len(r.asked)
             /\ Request(c) \in Seq(Nat) /\ Request(c) # <<>>
             /\ r.pos + Len(Request(c)) = e
             /\ r.out \o Request(c) = SubSeq(r.asked, 1, e)
             /\ SubSeq(r.asked, 1, e) \in Seq(Nat)
  <2>1. calls[c].asked = r.asked /\ calls[c].pos = r.pos  OBVIOUS
  <2>2. PICK s \in Seq(Nat), a \in Nat : s = r.asked /\ a = r.pos  BY <1>2
  <2>3. PICK e \in Nat :
             /\ a < e /\ e <= Len(s) /\ Request(c) = SubSeq(s, a + 1, e)
             /\ Request(c) \in Seq(Nat) /\ Request(c) # <<>>
             /\ a + Len(Request(c)) = e
             /\ SubSeq(s, 1, a) \o Request(c) = SubSeq(s, 1, e)
             /\ SubSeq(s, 1, e) \in Seq(Nat)
    BY <1>2, <2>1, <2>2, RequestIsNext
  <2> QED BY <1>2, <2>2, <2>3
<1>4. PICK reply \in BatchReply(Request(c)) :
        calls' = [calls EXCEPT ![c] = AfterReply(r, Request(c), reply)]
  BY DEF embed_batch
<1> DEFINE next == AfterReply(r, Request(c), reply)
<1>5. CallOK(next)
  <2>1. CASE Len(reply) # Len(Request(c))
    BY <1>1, <2>1, Kinds DEF CallOK, CallRecord, AfterReply
  <2>2. CASE Len(reply) = Len(Request(c))
    <3>1. InIndexOrder(reply) = Request(c)  BY <1>3, <2>2, ReplyIsBatch
    <3>2. next = [r EXCEPT !.out = SubSeq(r.asked, 1, e), !.pos = e, !.attempt = 0,
                           !.st = IF e = Len(r.asked) THEN "ok" ELSE "sent"]
      BY <1>3, <2>2, <3>1 DEF AfterReply
    <3>3. /\ next \in CallRecord
          /\ next.kind = r.kind /\ next.asked = r.asked /\ next.pos = e
          /\ next.out = SubSeq(r.asked, 1, e)
          /\ next.st = IF e = Len(r.asked) THEN "ok" ELSE "sent"
      <4>1. 0 \in 0 .. Attempts - 1  BY ClientAssumption
      <4> QED BY <1>2, <1>3, <3>2, <4>1 DEF CallRecord
    <3> QED BY <1>1, <1>2, <1>3, <3>3, Kinds DEF CallOK
  <2> QED BY <2>1, <2>2
<1> HIDE DEF next
<1> QED BY <1>4, <1>5, OneCallChanges DEF next

\* Reranked documents are among those asked for.
LEMMA RerankOK ==
    ASSUME ClientInv, NEW c \in Caller, rerank(c)
    PROVE  ClientInv'
<1> DEFINE r == calls[c]
<1>1. CallOK(r) /\ r.st = "sent" /\ r.kind = "rerank" /\ r.asked # <<>>
  BY DEF ClientInv, rerank, CallOK
<1>2. r \in CallRecord /\ r.asked \in Seq(Nat)  BY <1>1 DEF CallOK, CallRecord
<1>3. PICK ranked \in BatchReply(r.asked) :
         calls' = [calls EXCEPT ![c].st = "ok",
                                ![c].out = [i \in DOMAIN ranked |-> ranked[i].vec]]
  BY DEF rerank
<1> DEFINE out == [i \in DOMAIN ranked |-> ranked[i].vec]
           done == [r EXCEPT !.st = "ok", !.out = out]
<1>4. out \in Seq(Nat)
  <2>1. ASSUME NEW q \in [DOMAIN r.asked -> [index : Nat, vec : Nat]]
        PROVE  /\ [i \in DOMAIN q |-> q[i].vec] \in Seq(Nat)
               /\ [i \in DOMAIN Tail(q) |-> Tail(q)[i].vec] \in Seq(Nat)
    <3> DEFINE P == [index : Nat, vec : Nat]
               n == Len(r.asked)
    <3>1. \A v \in P : v.vec \in Nat  OBVIOUS
    <3> HIDE DEF P, r
    <3>2. n \in Nat /\ n # 0 /\ q \in [1 .. n -> P]  BY <1>1, <1>2 DEF P
    <3>3. q \in Seq(P) /\ Len(q) = n /\ q # <<>>  BY <3>2
    <3>4. Tail(q) \in Seq(P)  BY <3>3
    <3>5. \A s \in Seq(P) : [i \in DOMAIN s |-> s[i].vec] \in Seq(Nat)  BY <3>1
    <3> QED BY <3>3, <3>4, <3>5
  <2>2. ASSUME NEW p \in Orders(r.asked)
        PROVE  [i \in DOMAIN r.asked |-> [index |-> p[i], vec |-> r.asked[p[i]]]]
                  \in [DOMAIN r.asked -> [index : Nat, vec : Nat]]
    <3>1. p \in [DOMAIN r.asked -> DOMAIN r.asked]
      BY DEF Orders, Bijection, Injection
    <3> QED BY <1>2, <3>1
  <2>3. PICK full : full = {[i \in DOMAIN r.asked |-> [index |-> p[i], vec |-> r.asked[p[i]]]] :
                              p \in Orders(r.asked)}
    OBVIOUS
  <2>4. \A q \in full : q \in [DOMAIN r.asked -> [index : Nat, vec : Nat]]  BY <2>2, <2>3
  <2>5. ranked \in full \cup {Tail(q) : q \in full}  BY <2>3 DEF BatchReply
  <2>6. CASE ranked \in full  BY <2>1, <2>4, <2>6
  <2>7. CASE \E q \in full : ranked = Tail(q)  BY <2>1, <2>4, <2>7
  <2> QED BY <2>5, <2>6, <2>7
<1> HIDE DEF out
<1>5. calls' = [calls EXCEPT ![c] = done]  BY <1>3 DEF ClientInv, out
<1>6. CallOK(done)  BY <1>1, <1>2, <1>4, Kinds DEF CallOK, CallRecord
<1> HIDE DEF done
<1> QED BY <1>5, <1>6, OneCallChanges

\* Every step of a provider call keeps every call in order.
LEMMA ClientStepOK ==
    ASSUME ClientInv, NEW c \in Caller, ClientStep(c)
    PROVE  ClientInv'
<1> PICK r : r = calls[c]  OBVIOUS
<1>1. CallOK(r) /\ r \in CallRecord  BY DEF ClientInv, CallOK
<1>2. ASSUME NEW st \in {"ok", "err", "sent", "silent"}, r.kind \notin BatchedKind \/ st # "ok",
             r.kind \in BatchedKind /\ st = "sent" => r.pos < Len(r.asked),
             calls' = [calls EXCEPT ![c].st = st]
      PROVE  ClientInv'
  <2>1. calls' = [calls EXCEPT ![c] = [r EXCEPT !.st = st]]  BY <1>2
  <2>2. CallOK([r EXCEPT !.st = st])
    BY <1>1, <1>2, Kinds DEF CallOK, CallRecord
  <2> QED BY <2>1, <2>2, OneCallChanges
<1>3. CASE embed_batch(c)  BY <1>3, EmbedOK
<1>4. CASE complete_once(c) \/ chat_with_tools(c) \/ transcribe(c) \/ ocr(c)
  <2>1. \E kind \in {"chat", "tools", "transcribe", "ocr"}, st \in {"ok", "err"} :
          Returned(c, kind, st)
    BY <1>4 DEF complete_once, chat_with_tools, transcribe, ocr
  <2> QED BY <1>2, <2>1, Kinds DEF Returned
<1>5. CASE rerank(c)  BY <1>5, RerankOK
<1>6. CASE stream_line(c)
  <2>1. PICK handed \in {<<r.pos + 1>>, <<0>>, <<>>} :
          calls' = [calls EXCEPT ![c].pos = @ + 1, ![c].out = @ \o handed]
    BY <1>6 DEF stream_line
  <2>2. /\ r.kind = "stream" /\ r.pos < Len(r.asked) /\ r.asked \in Seq(Nat)
        /\ r.pos \in Nat /\ r.out \in Seq(Nat) /\ HandedOnce(r.out, r.pos)
    BY <1>1, <1>6, Kinds DEF stream_line, CallOK, CallRecord
  <2>3. PICK k, more : k = r.pos + 1 /\ more = r.out \o handed  OBVIOUS
  <2>4. PICK next : next = [r EXCEPT !.pos = k, !.out = more]  OBVIOUS
  <2>5. calls' = [calls EXCEPT ![c] = next]  BY <2>1, <2>3, <2>4 DEF ClientInv
  <2>6. k \in Nat /\ k <= Len(r.asked)  BY <2>2, <2>3
  <2>7. more \in Seq(Nat) /\ HandedOnce(more, k)  BY <2>2, <2>3, LineHandsOn
  <2>8. /\ next \in CallRecord /\ next.kind = "stream" /\ next.asked = r.asked
        /\ next.pos = k /\ next.out = more
    BY <1>1, <2>2, <2>4, <2>6, <2>7 DEF CallRecord
  <2>9. CallOK(next)  BY <2>6, <2>7, <2>8, Kinds DEF CallOK
  <2> QED BY <2>5, <2>9, OneCallChanges
<1>10. CASE complete_whole(c)
  <2>1. r.kind = "whole" /\ r.asked \in Seq(Nat)
    BY <1>1, <1>10 DEF complete_whole, CallRecord
  <2>2. PICK n \in Nat : n = Len(r.asked) /\ DOMAIN r.asked = 1 .. n  BY <2>1
  <2>3. PICK all : all = [i \in 1 .. n |-> i]  OBVIOUS
  <2>4. PICK next : next = [r EXCEPT !.st = "ok", !.pos = n, !.out = all]  OBVIOUS
  <2>5. calls' = [calls EXCEPT ![c] = next]
    BY <1>10, <2>2, <2>3, <2>4 DEF complete_whole, ClientInv
  <2>6. all \in Seq(Nat) /\ Len(all) = n  BY <2>3
  <2>7. HandedOnce(all, n)  BY <2>3, <2>6 DEF HandedOnce
  <2>8. /\ next \in CallRecord /\ next.kind = "whole" /\ next.asked = r.asked
        /\ next.pos = n /\ next.out = all
    BY <1>1, <2>1, <2>4, <2>6 DEF CallRecord
  <2>9. CallOK(next)  BY <2>2, <2>7, <2>8, Kinds DEF CallOK
  <2> QED BY <2>5, <2>9, OneCallChanges
<1>11. CASE provider_silent(c)
  <2>1. r.kind \notin BatchedKind  BY <1>11, Kinds DEF provider_silent, UntimedKind
  <2> QED BY <1>2, <1>11, <2>1 DEF provider_silent
<1>7. CASE stream_end(c)  BY <1>2, <1>7, Kinds DEF stream_end
<1>8. CASE request_fails(c)
  <2>1. PICK e \in Failure : calls' = [calls EXCEPT ![c] = AfterFailure(r, e)]
    BY <1>8 DEF request_fails
  <2>2. r.st = "sent" /\ r.attempt \in 0 .. Attempts - 1
    BY <1>1, <1>8 DEF request_fails, CallRecord
  <2>3. Retries(r, e) => r.attempt + 1 \in 0 .. Attempts - 1
    BY <2>2, ClientAssumption DEF Retries
  <2>4. CallOK(AfterFailure(r, e))
    BY <1>1, <2>2, <2>3, Kinds DEF CallOK, CallRecord, AfterFailure
  <2> QED BY <2>1, <2>4, OneCallChanges
<1>9. CASE backoff_ends(c)  BY <1>1, <1>2, <1>9, Kinds DEF backoff_ends, CallOK
<1> QED
  BY <1>3, <1>4, <1>5, <1>6, <1>7, <1>8, <1>9, <1>10, <1>11 DEF ClientStep

\* A task that starts or collects a call keeps every call in order.
LEMMA AgentOK ==
    ASSUME ClientInv, NEW c \in Caller, NEW n \in Nat \ {0},
           \/ \E kind \in CallKind : call_starts(c, kind, [i \in 1 .. n |-> i])
           \/ call_returns(c)
    PROVE  ClientInv'
<1> DEFINE asked == [i \in 1 .. n |-> i]
<1>1. asked \in Seq(Nat) /\ asked # <<>>
  <2>1. asked \in Seq(Nat) /\ Len(asked) = n  OBVIOUS
  <2> QED BY <2>1
<1> HIDE DEF asked
<1>2. ASSUME NEW kind \in CallKind, call_starts(c, kind, asked)  PROVE ClientInv'
  BY <1>1, <1>2, NewCallOK, OneCallChanges DEF call_starts
<1>3. CASE call_returns(c)  BY <1>3, NoCallOK, OneCallChanges DEF call_returns
<1> QED BY <1>2, <1>3 DEF asked

\* At first no task has a call.
LEMMA ClientStarts == ClientInit => ClientInv
<1> SUFFICES ASSUME ClientInit PROVE ClientInv  OBVIOUS
<1>1. NoCall \in CallRecord  BY NoCallOK DEF CallOK
<1> QED BY <1>1, NoCallOK DEF ClientInit, ClientInv

\* What the invariant says of the answers.
LEMMA ClientInvGives ==
    ASSUME ClientInv
    PROVE  ClientTypeOK /\ VectorsMatchInputs /\ TokensDeliveredOnce
<1>1. ClientTypeOK  BY DEF ClientInv, ClientTypeOK, CallRecord
<1>2. ASSUME NEW c \in Caller, calls[c].st = "ok", calls[c].kind \in BatchedKind
      PROVE  calls[c].out = calls[c].asked
  <2>1. CallOK(calls[c])  BY DEF ClientInv
  <2>2. calls[c].asked \in Seq(Nat) /\ calls[c].pos = Len(calls[c].asked)
    BY <1>2, <2>1 DEF CallOK, CallRecord
  <2> QED BY <1>2, <2>1, <2>2 DEF CallOK
<1>3. ASSUME NEW c \in Caller, calls[c].kind \in StreamedKind
      PROVE  HandedOnce(calls[c].out, Len(calls[c].asked))
  <2>1. CallOK(calls[c]) /\ calls[c] \in CallRecord  BY DEF ClientInv, CallOK
  <2>2. PICK out \in Seq(Nat), a \in Nat, n \in Nat :
          /\ out = calls[c].out /\ a = calls[c].pos /\ n = Len(calls[c].asked)
          /\ a <= n /\ HandedOnce(out, a)
    <3>1. /\ calls[c].out \in Seq(Nat) /\ calls[c].pos \in Nat
          /\ calls[c].asked \in Seq(Nat)
      BY <2>1 DEF CallRecord
    <3>2. Len(calls[c].asked) \in Nat  BY <3>1
    <3> QED BY <1>3, <2>1, <3>1, <3>2 DEF CallOK
  <2>3. \A i \in DOMAIN out : out[i] \in Nat  BY <2>2
  <2>4. HandedOnce(out, n)  BY <2>2, <2>3 DEF HandedOnce
  <2> QED BY <2>2, <2>4
<1> QED BY <1>1, <1>2, <1>3 DEF VectorsMatchInputs, TokensDeliveredOnce
=============================================================================

---------------------------- MODULE AccessProofs ----------------------------
(***************************************************************************)
(* Proofs about Retrieval and the stores it shares (TenantService), for    *)
(* any number of requests, credentials, namespaces, points and grants.     *)
(***************************************************************************)
EXTENDS Retrieval, FiniteSetTheorems, TLAPS

-----------------------------------------------------------------------------
(* Policies.                                                               *)

\* Every nonempty set of natural numbers has a smallest member.
LEMMA SmallestNumber ==
    ASSUME NEW T, T \subseteq Nat, T # {}
    PROVE  \E n \in T : \A m \in T : n <= m
<1> PICK k \in T : TRUE  OBVIOUS
<1> DEFINE S == 0 .. k
           R == StrictSubsetOrdering(S)
           F == {0 .. m : m \in {j \in T : j <= k}}
<1>1. IsFiniteSet(S)  BY FS_Interval
<1>2. IsWellFoundedOn(R, SUBSET S)
  BY <1>1, FS_StrictSubsetOrderingWellFounded, FS_FiniteSubsetsOfFinite
<1>3. F \subseteq SUBSET S /\ F # {}
  BY DEF F, S
<1>4. \E x \in F : \A y \in F : <<y, x>> \notin R
  <2> HIDE DEF F, R, S
  <2> QED BY <1>2, <1>3, WFMin
<1>5. PICK x \in F : \A y \in F : <<y, x>> \notin R  BY <1>4
<1>6. PICK n \in T : n <= k /\ x = 0 .. n  BY <1>5
<1>7. ASSUME NEW m \in T, m < n  PROVE FALSE
  <2>1. 0 .. m \in F  BY <1>6, <1>7
  <2>2. 0 .. m \subseteq 0 .. n /\ 0 .. m # 0 .. n  BY <1>6, <1>7
  <2>3. <<0 .. m, x>> \in R  BY <2>1, <2>2, <1>6, <1>3, <1>5 DEF StrictSubsetOrdering
  <2> QED BY <2>1, <2>3, <1>5
<1> QED BY <1>6, <1>7

\* A nonempty set of places has a first and a last one.
LEMMA PlacesHaveEnds ==
    ASSUME NEW n \in Nat, NEW S, S \subseteq 1 .. n, S # {}
    PROVE  Min(S) \in S /\ Max(S) \in S
<1>1. Min(S) \in S
  <2>1. S \subseteq Nat  OBVIOUS
  <2>2. \E x \in S : \A y \in S : x <= y  BY <2>1, SmallestNumber
  <2> QED BY <2>2 DEF Min
<1>2. Max(S) \in S
  <2> DEFINE T == {n - x : x \in S}
  <2>1. T \subseteq Nat /\ T # {}
    <3>1. \A x \in S : n - x \in Nat  OBVIOUS
    <3> QED BY <3>1
  <2>2. PICK k \in T : \A j \in T : k <= j
    <3> HIDE DEF T
    <3> QED BY <2>1, SmallestNumber
  <2>3. PICK x \in S : k = n - x  BY <2>2
  <2>4. \A y \in S : x >= y
    <3> TAKE y \in S
    <3>1. n - y \in T  OBVIOUS
    <3>2. n - x <= n - y  BY <2>2, <2>3, <3>1
    <3>3. x \in Int /\ y \in Int  OBVIOUS
    <3> QED BY <3>2, <3>3
  <2> QED BY <2>4 DEF Max
<1> QED BY <1>1, <1>2

\* The default of a policy is one of its tags ("never empty", tenant.rs:27).
Sound(p) == p.any \/ p.first \in p.tags

LEMMA KeysAreSound ==
    \A k \in DOMAIN keys : Sound(keys[k])
<1> DEFINE Mine(k) == {i \in Usable : Tenants[i].key = k}
           Latest(k) == Tenants[Max(Mine(k))]
           Policy(e) == IF "*" \in ToSet(e.tags) THEN AnyTag ELSE Only(e)
           listed == {Tenants[i].key : i \in Usable}
<1>1. ASSUME NEW k \in listed  PROVE Max(Mine(k)) \in Usable
  <2>1. Mine(k) # {} /\ Mine(k) \subseteq 1 .. Len(Tenants)
    BY TenantsAssumption DEF Usable
  <2>2. Max(Mine(k)) \in Mine(k)
    <3> HIDE DEF Mine
    <3> QED BY <2>1, PlacesHaveEnds, TenantsAssumption
  <2> QED BY <2>2
<1>2. ASSUME NEW i \in Usable  PROVE Sound(Policy(Tenants[i]))
  <2>1. i \in DOMAIN Tenants /\ Named(Tenants[i]) # {}  BY DEF Usable
  <2>2. Named(Tenants[i]) \subseteq 1 .. Len(Tenants[i].tags) /\ Len(Tenants[i].tags) \in Nat
    BY <2>1, TenantsAssumption DEF Named
  <2>3. Min(Named(Tenants[i])) \in Named(Tenants[i])  BY <2>1, <2>2, PlacesHaveEnds
  <2>4. Sound(Only(Tenants[i]))  BY <2>3 DEF Sound, Only
  <2>5. Sound(AnyTag)  BY DEF Sound, AnyTag
  <2> QED BY <2>4, <2>5
<1>3. keys = [k \in listed \cup ({ApiKey} \ {Absent}) |->
                IF k \in listed THEN Policy(Latest(k)) ELSE AnyTag]
  BY DEF keys
<1>4. Sound(AnyTag)  BY DEF Sound, AnyTag
<1> HIDE DEF Mine, Policy, listed
<1> QED BY <1>1, <1>2, <1>3, <1>4

LEMMA ContextsAreSound ==
    \A p \in Contexts : Sound(p)
<1>1. Sound(AnyTag)  BY DEF Sound, AnyTag
<1>2. ASSUME NEW b, NEW p \in context(b)  PROVE Sound(p)
  <2>1. CASE DOMAIN keys = {}  BY <1>1, <1>2, <2>1 DEF context
  <2>2. CASE DOMAIN keys # {}
    <3>1. PICK k \in {b} \cap DOMAIN keys : p = keys[k]  BY <1>2, <2>2 DEF context
    <3> QED BY <3>1, KeysAreSound
  <2> QED BY <2>1, <2>2
<1> QED BY <1>2 DEF Contexts

\* A request acts in a namespace its credential may act as (tenant.rs:33-49).
LEMMA ResolvedActsAs ==
    ASSUME NEW p, Sound(p), NEW n, NEW t \in resolve(p, n)
    PROVE  ActsAs(p, t)
BY DEF Sound, resolve, ActsAs

LEMMA AdminActsAs ==
    ASSUME NEW p \in Contexts, NEW s, can_admin_scope(p, s)
    PROVE  ActsAs(p, s)
BY ContextsAreSound, ResolvedActsAs DEF can_admin_scope
-----------------------------------------------------------------------------
(* Filters.                                                                *)

IsFilter(f) == DOMAIN f = {"must", "should", "must_not"}

LEMMA NoFilterIsFilter ==
    IsFilter(NoFilter) /\ NoFilter.should = {} /\ NoFilter.must = {} /\ NoFilter.must_not = {}
BY DEF IsFilter, NoFilter

LEMMA PlanFilterIsFilter ==
    \A plan : IsFilter(build_filter(plan)) /\ build_filter(plan).should = {}
BY DEF IsFilter, build_filter, NoFilter

\* A point that is in scope s is of namespace s.
LEMMA InScopeConfines ==
    ASSUME NEW s, NEW c \in InScope(s), NEW p, Holds(c, p)
    PROVE  NamespaceOf(p) = s
<1>1. CASE c = Is("container_tag", s)
  <2>1. c.op = "match" /\ c.key = "container_tag" /\ c.value = s  BY <1>1 DEF Is
  <2>2. "container_tag" \in DOMAIN p /\ p["container_tag"] = s  BY <2>1 DEF Holds
  <2> QED BY <2>2 DEF NamespaceOf
<1>2. CASE s = DEFAULT_TAG /\ c = IsEmpty("container_tag")
  <2>1. "container_tag" \notin DOMAIN p  BY <1>2 DEF IsEmpty, Holds
  <2> QED BY <1>2, <2>1 DEF NamespaceOf
<1> QED BY <1>1, <1>2 DEF InScope

\* The filter of a namespace finds points of it only.
LEMMA TaggedConfines ==
    ASSUME NEW base, IsFilter(base), base.should = {}, NEW t, NEW p,
           Matches(tagged_filter(base, t), p)
    PROVE  NamespaceOf(p) = t
<1>1. CASE t = DEFAULT_TAG
  <2>1. tagged_filter(base, t).should = InScope(t)
    BY <1>1 DEF tagged_filter, IsFilter
  <2>2. Is("container_tag", t) \in InScope(t)  BY DEF InScope
  <2>3. \E c \in InScope(t) : Holds(c, p)
    BY <2>1, <2>2 DEF Matches
  <2> QED BY <2>3, InScopeConfines
<1>2. CASE t # DEFAULT_TAG
  <2>1. InScope(t) \subseteq tagged_filter(base, t).must
    BY <1>2 DEF tagged_filter, IsFilter
  <2>2. Is("container_tag", t) \in InScope(t)  BY DEF InScope
  <2>3. Holds(Is("container_tag", t), p)
    BY <2>1, <2>2 DEF Matches
  <2> QED BY <2>2, <2>3, InScopeConfines
<1> QED BY <1>1, <1>2

\* The filter of some scopes finds points of these only.
LEMMA ScopesConfine ==
    ASSUME NEW base, IsFilter(base), base.should = {}, NEW scopes, scopes # {}, NEW p,
           Matches(scope_filter(base, scopes), p)
    PROVE  NamespaceOf(p) \in scopes
<1>1. CASE \E s \in scopes : scopes = {s}
  <2> DEFINE one == CHOOSE s \in scopes : TRUE
  <2>1. one \in scopes  OBVIOUS
  <2>2. scope_filter(base, scopes) = tagged_filter(base, one)  BY <1>1 DEF scope_filter
  <2> HIDE DEF one
  <2>3. NamespaceOf(p) = one  BY <2>2, TaggedConfines
  <2> QED BY <2>1, <2>3
<1>2. CASE ~\E s \in scopes : scopes = {s}
  <2> DEFINE named == UNION {InScope(s) : s \in scopes}
  <2>1. scope_filter(base, scopes) = [base EXCEPT !.should = @ \cup named]
    BY <1>2 DEF scope_filter
  <2>2. scope_filter(base, scopes).should = named  BY <2>1 DEF IsFilter
  <2>3. named # {}
    <3>1. PICK s \in scopes : TRUE  OBVIOUS
    <3>2. Is("container_tag", s) \in InScope(s)  BY DEF InScope
    <3> QED BY <3>1, <3>2
  <2>4. PICK c \in named : Holds(c, p)  BY <2>2, <2>3 DEF Matches
  <2>5. PICK s \in scopes : c \in InScope(s)  BY <2>4
  <2> QED BY <2>4, <2>5, InScopeConfines
<1> QED BY <1>1, <1>2

LEMMA ScopeFilterIsFilter ==
    ASSUME NEW base, IsFilter(base), NEW scopes
    PROVE  IsFilter(scope_filter(base, scopes))
BY DEF IsFilter, scope_filter, tagged_filter

LEMMA TaggedFilterIsFilter ==
    ASSUME NEW base, IsFilter(base), NEW t
    PROVE  IsFilter(tagged_filter(base, t))
BY DEF IsFilter, tagged_filter

\* Leaving out what is not current only narrows a filter.
LEMMA ActiveNarrows ==
    ASSUME NEW f, IsFilter(f), NEW at, NEW p, Matches(active_facts_filter(f, at), p)
    PROVE  Matches(f, p)
BY DEF IsFilter, active_facts_filter, Matches

\* What a read of one namespace returns is of that namespace.
LEMMA NamespacePoints ==
    ASSUME NEW points, NEW t, NEW i \in PointsOf(points, t)
    PROVE  i \in DOMAIN points /\ NamespaceOf(points[i]) = t
BY NoFilterIsFilter, TaggedConfines DEF PointsOf

\* A pool is a sequence of matching points.
LEMMA PoolsMatch ==
    ASSUME NEW points, NEW f, NEW limit, NEW pool \in Pools(points, f, limit)
    PROVE  /\ \A h \in ToSet(pool) : Matches(f, h.payload)
           /\ IsFiniteSet(DOMAIN points) => pool \in Seq(ToSet(pool))
<1> DEFINE found0 == {j \in DOMAIN points : Matches(f, points[j])}
           hits == {Hit(points, i) : i \in found0}
<1>1. PICK T \in SUBSET hits : pool \in SetToSeqs(T)  BY DEF Pools
<1>2. pool \in [1 .. Cardinality(T) -> T]  BY <1>1 DEF SetToSeqs
<1>3. ToSet(pool) \subseteq T  BY <1>2 DEF ToSet
<1>4. \A h \in hits : Matches(f, h.payload)  BY DEF Hit
<1>5. ASSUME IsFiniteSet(DOMAIN points)  PROVE pool \in Seq(ToSet(pool))
  <2>1. IsFiniteSet(found0)  BY <1>5, FS_Subset
  <2>2. IsFiniteSet(hits)
    <3> DEFINE g == [i \in found0 |-> Hit(points, i)]
    <3>1. g \in Surjection(found0, hits)
      <4> HIDE DEF found0
      <4> QED BY DEF Surjection
    <3> HIDE DEF g, hits, found0
    <3> QED BY <2>1, <3>1, FS_Surjection
  <2>3. IsFiniteSet(T)  BY <1>1, <2>2, FS_Subset
  <2>4. Cardinality(T) \in Nat  BY <2>3, FS_CardinalityType
  <2>5. pool = [i \in 1 .. Cardinality(T) |-> pool[i]]
        /\ \A i \in 1 .. Cardinality(T) : pool[i] \in ToSet(pool)
    BY <1>2 DEF ToSet
  <2> QED BY <2>4, <2>5
<1> QED BY <1>3, <1>4, <1>5
-----------------------------------------------------------------------------
(* Loops over hits.                                                        *)

\* A set that holds 0, and with each number the next one, holds them all.
LEMMA UpTo ==
    ASSUME NEW n \in Nat, NEW P, 0 \in P, \A m \in 1 .. n : m - 1 \in P => m \in P
    PROVE  \A m \in 0 .. n : m \in P
<1> DEFINE T == {m \in 0 .. n : m \notin P}
<1> SUFFICES ASSUME T # {} PROVE FALSE  OBVIOUS
<1>1. PICK k \in T : \A j \in T : k <= j
  <2>1. T \subseteq Nat  OBVIOUS
  <2> HIDE DEF T
  <2> QED BY <2>1, SmallestNumber
<1>2. k \in 0 .. n /\ k \notin P  OBVIOUS
<1>3. k # 0  BY <1>2
<1>4. k - 1 \in 0 .. n /\ k \in 1 .. n  BY <1>2, <1>3
<1>5. k - 1 \notin T  BY <1>1, <1>2
<1>6. k - 1 \in P  BY <1>4, <1>5
<1> QED BY <1>2, <1>4, <1>6

\* What a loop has after each of its turns: turn m makes step[m] of it.
Loop(f, n, init, step) ==
    f = [m \in 0 .. n |-> IF m = 0 THEN init ELSE step[m][f[m - 1]]]

\* There is such a function, for loops of any length.
LEMMA LoopExists ==
    ASSUME NEW n \in Nat, NEW S, NEW init \in S, NEW step \in [1 .. n -> [S -> S]]
    PROVE  \E f \in [0 .. n -> S] : Loop(f, n, init, step)
<1> DEFINE Turn(f, m) == IF m = 0 THEN init ELSE step[m][f[m - 1]]
           Runs(k) == \E f \in [0 .. k -> S] : f = [m \in 0 .. k |-> Turn(f, m)]
           P == {k \in 0 .. n : Runs(k)}
<1>1. 0 \in P
  <2> DEFINE f == [m \in 0 .. 0 |-> init]
  <2>1. f \in [0 .. 0 -> S]  OBVIOUS
  <2>2. f = [m \in 0 .. 0 |-> Turn(f, m)]  OBVIOUS
  <2>3. Runs(0)
    <3> HIDE DEF f
    <3> QED BY <2>1, <2>2
  <2> QED BY <2>3
<1>2. ASSUME NEW k \in 1 .. n, k - 1 \in P  PROVE k \in P
  <2>1. PICK f \in [0 .. k - 1 -> S] : f = [m \in 0 .. k - 1 |-> Turn(f, m)]  BY <1>2
  <2> DEFINE g == [m \in 0 .. k |-> IF m = k THEN Turn(f, k) ELSE f[m]]
  <2>2. ASSUME NEW m \in 0 .. k  PROVE g[m] = Turn(g, m) /\ g[m] \in S
    <3>1. CASE m = 0
      <4>1. 0 \in 0 .. k - 1 /\ m # k  BY <3>1
      <4>2. f[0] = init  BY <2>1, <4>1
      <4> QED BY <3>1, <4>1, <4>2
    <3>2. CASE m # 0
      <4>1. m - 1 \in 0 .. k - 1 /\ m - 1 # k /\ m - 1 \in 0 .. k /\ m \in 1 .. n  BY <3>2
      <4>2. g[m - 1] = f[m - 1] /\ f[m - 1] \in S  BY <4>1
      <4>3. g[m] = Turn(f, m)
        <5>1. CASE m = k  BY <5>1
        <5>2. CASE m # k
          <6>1. m \in 0 .. k - 1  BY <5>2
          <6>2. f[m] = Turn(f, m)  BY <2>1, <6>1
          <6> QED BY <5>2, <6>2
        <5> QED BY <5>1, <5>2
      <4>4. step[m] \in [S -> S]  BY <4>1
      <4> QED BY <3>2, <4>2, <4>3, <4>4
    <3> QED BY <3>1, <3>2
  <2>3. g = [m \in 0 .. k |-> g[m]]  OBVIOUS
  <2>4. g = [m \in 0 .. k |-> Turn(g, m)] /\ g \in [0 .. k -> S]
    <3> HIDE DEF g, Turn
    <3> QED BY <2>2, <2>3
  <2>5. Runs(k)
    <3> HIDE DEF g, Turn
    <3> QED BY <2>4
  <2>6. k \in 0 .. n  OBVIOUS
  <2> HIDE DEF Runs
  <2> QED BY <2>5, <2>6
<1>3. \A m \in 0 .. n : m \in P
  <2> HIDE DEF P
  <2> QED BY <1>1, <1>2, UpTo
<1>4. Runs(n)  BY <1>3
<1> QED BY <1>4 DEF Loop

\* The union of two pools holds hits of the two (mod.rs:1956).
LEMMA UnionOfPools ==
    ASSUME NEW H, NEW first \in Seq(H), NEW second \in Seq(H)
    PROVE  Union(first, second) \in Seq(H)
<1> DEFINE n == Len(second)
           Seen(h) == \E i \in DOMAIN first : first[i].id = h.id
           Turn(s, m) == IF Seen(second[m]) THEN s ELSE Append(s, second[m])
           step == [m \in 1 .. n |-> [s \in Seq(H) |-> Turn(s, m)]]
           Turns(f) == [m \in 0 .. n |-> IF m = 0 THEN first
                         ELSE IF Seen(second[m]) THEN f[m - 1] ELSE Append(f[m - 1], second[m])]
           pool == CHOOSE f : f = Turns(f)
<1>1. n \in Nat  OBVIOUS
<1>2. ASSUME NEW m \in 1 .. n, NEW s \in Seq(H)  PROVE Turn(s, m) \in Seq(H)
  <2>1. second[m] \in H  OBVIOUS
  <2>2. \A q \in Seq(H), x \in H : Append(q, x) \in Seq(H)  OBVIOUS
  <2> HIDE DEF Seen
  <2> QED BY <2>1, <2>2
<1>3. step \in [1 .. n -> [Seq(H) -> Seq(H)]]
  <2> HIDE DEF Turn, n
  <2> QED BY <1>2
<1>4. PICK f \in [0 .. n -> Seq(H)] : Loop(f, n, first, step)
  <2> HIDE DEF step, n
  <2> QED BY <1>1, <1>3, LoopExists
<1>5. f = Turns(f)
  <2>1. ASSUME NEW m \in 0 .. n, m # 0  PROVE step[m][f[m - 1]] = Turn(f[m - 1], m)
    <3>1. m \in 1 .. n /\ m - 1 \in 0 .. n  BY <1>1, <2>1
    <3> HIDE DEF Turn, n
    <3> QED BY <3>1
  <2>2. f = [m \in 0 .. n |-> IF m = 0 THEN first ELSE Turn(f[m - 1], m)]
    <3> HIDE DEF Turn, step, n
    <3> QED BY <1>4, <2>1 DEF Loop
  <2> HIDE DEF Seen, n
  <2> QED BY <2>2
<1>6. pool = Turns(pool)
  <2> HIDE DEF Turns
  <2> QED BY <1>5
<1>7. Union(first, second) = pool[n]  BY DEF Union
<1> DEFINE P == {m \in 0 .. n : pool[m] \in Seq(H)}
<1>8. 0 \in P
  <2>1. 0 \in 0 .. n  BY <1>1
  <2>2. pool[0] = first
    <3> HIDE DEF pool, Seen, n
    <3> QED BY <1>6, <2>1
  <2> HIDE DEF pool, n
  <2> QED BY <2>1, <2>2
<1>9. ASSUME NEW m \in 1 .. n, m - 1 \in P  PROVE m \in P
  <2>1. m \in 0 .. n /\ m # 0  BY <1>1
  <2>2. pool[m] = Turn(pool[m - 1], m)
    <3> HIDE DEF Seen, pool, n
    <3> QED BY <1>6, <2>1
  <2>3. pool[m - 1] \in Seq(H)  BY <1>9
  <2> HIDE DEF Turn, pool, n
  <2> QED BY <1>2, <2>1, <2>2, <2>3
<1>10. n \in P
  <2>1. n \in 0 .. n  BY <1>1
  <2> HIDE DEF P, n
  <2> QED BY <1>1, <1>8, <1>9, <2>1, UpTo
<1> QED BY <1>7, <1>10

-----------------------------------------------------------------------------
(* Tables, and what is put into them.                                      *)

LEMMA MergedIs ==
    ASSUME NEW p, NEW q
    PROVE  /\ DOMAIN Merged(p, q) = DOMAIN p \cup DOMAIN q
           /\ \A f \in DOMAIN q : Merged(p, q)[f] = q[f]
           /\ \A f \in DOMAIN p \ DOMAIN q : Merged(p, q)[f] = p[f]
BY DEF Merged

LEMMA InsertedIs ==
    ASSUME NEW table, NEW new
    PROVE  /\ DOMAIN Inserted(table, new) = DOMAIN table \cup DOMAIN new
           /\ \A k \in DOMAIN table : Inserted(table, new)[k] = table[k]
           /\ \A k \in DOMAIN new \ DOMAIN table : Inserted(table, new)[k] = new[k]
BY MergedIs DEF Inserted

LEMMA UpsertedIs ==
    ASSUME NEW points, NEW new
    PROVE  /\ DOMAIN Upserted(points, new) = DOMAIN points \cup DOMAIN new
           /\ \A k \in DOMAIN new : Upserted(points, new)[k] = new[k]
           /\ \A k \in DOMAIN points \ DOMAIN new : Upserted(points, new)[k] = points[k]
BY MergedIs DEF Upserted

LEMMA PartIs ==
    ASSUME NEW table, NEW some
    PROVE  /\ DOMAIN Part(table, some) = some \cap DOMAIN table
           /\ \A k \in some \cap DOMAIN table : Part(table, some)[k] = table[k]
BY DEF Part, Restrict

LEMMA SingleIs ==
    ASSUME NEW k, NEW v
    PROVE  DOMAIN Single(k, v) = {k} /\ Single(k, v)[k] = v
BY DEF Single

\* The steps that write to each store.
LEMMA Writers ==
    ASSUME NEW r, ServiceStep(r)
    PROVE  /\ acl' = acl \/ acl_grant(r) \/ acl_revoke(r)
           /\ \/ chunks' = chunks \/ add_memory(r) \/ delete_memory(r) \/ claim_chunks(r) \/ rebuild_chunks(r)
           /\ \/ facts' = facts \/ index_memories(r) \/ delete_memory(r) \/ erase_vector(r) \/ redistill_doc(r)
              \/ claim_facts(r) \/ backfill_facts_latest(r) \/ rebuild_facts(r) \/ upsert_copy(r)
           /\ \/ rows' = rows \/ insert_memory(r) \/ mark_superseded(r) \/ delete_row(r) \/ insert_memories(r)
              \/ insert_copy(r)
           /\ docRows' = docRows \/ mirror(r) \/ insert_documents(r)
           /\ chunkRows' = chunkRows \/ mirror(r) \/ insert_chunks(r)
           /\ aliases' = aliases \/ alias_add(r)
           /\ audits' = audits \/ reindex(r) \/ audit(r)
BY Zenon DEF ServiceStep, storeVars, registry, add_memory, mirror, reconcile, index_memories, insert_memory,
      mark_superseded, delete_memory, forget_fact, erase_vector, delete_row, reindex, redistill_doc,
      claim_chunks, claim_facts, backfill_facts_latest, scroll_chunks, scroll_facts, insert_documents,
      insert_chunks, insert_memories, list_documents, chunks_for_document, rebuild_chunks, read_memories,
      rebuild_facts, acl_grant, acl_revoke, promote_memory, get_memory, upsert_copy, insert_copy, alias_add,
      audit
-----------------------------------------------------------------------------
(* What a step does to the request that takes it.                          *)

SearchPc == {"embed", "search", "retry", "group", "rerank", "provenance", "answered"}

Shapes ==
    /\ DOMAIN req = Request /\ DOMAIN found = Request
    /\ \A r \in Request : /\ DOMAIN req[r] = DOMAIN NoRequest /\ DOMAIN req[r].batch = DOMAIN NoBatch
                          /\ DOMAIN found[r] = DOMAIN NoSearch

\* A request begins with a namespace its credential may act as, and what it
\* holds of the grants is what they were.
Begins(r) ==
    /\ Free(r) /\ req'[r].pc # "unused" /\ req'[r].batch = NoBatch
    /\ ActsAs(req'[r].policy, req'[r].tag)
    /\ req'[r].held \in {{}, acls_for_principal(req'[r].tag)}

\* It goes on as what it is,
Continues(r) ==
    /\ ~Free(r) /\ req'[r].pc # "unused"
    /\ req'[r].policy = req[r].policy /\ req'[r].tag = req[r].tag
    /\ req'[r].act = req[r].act
    /\ req'[r].held \in {req[r].held, {}, acls_for_principal(req[r].tag)}

\* or has ended.
Ended(r) == req'[r] = [NoRequest EXCEPT !.pc = "done", !.act = req[r].act]

Moves(r) ==
    /\ DOMAIN req' = Request /\ \A s \in Request \ {r} : req'[s] = req[s]
    /\ DOMAIN req'[r] = DOMAIN NoRequest /\ DOMAIN req'[r].batch = DOMAIN NoBatch
    /\ Begins(r) \/ Continues(r) \/ Ended(r)

\* A request the server accepts acts in a namespace of its credential.
LEMMA AcceptedActsAs ==
    ASSUME NEW pc, NEW act, NEW new \in Accepted(pc, act)
    PROVE  /\ DOMAIN new = DOMAIN NoRequest /\ new.pc = pc /\ new.act = act
           /\ ActsAs(new.policy, new.tag) /\ new.held = {} /\ new.at = Absent
           /\ new.what = Absent /\ new.onto = Absent /\ new.batch = NoBatch
<1> DEFINE Of(p) == {[NoRequest EXCEPT !.pc = pc, !.act = act, !.policy = p, !.tag = t] : t \in Reachable(p)}
<1>1. PICK p \in Contexts : new \in Of(p)
  <2>1. new \in UNION {Of(p) : p \in Contexts}  BY DEF Accepted
  <2> HIDE DEF Of
  <2> QED BY <2>1
<1>2. PICK t \in Reachable(p) :
        new = [NoRequest EXCEPT !.pc = pc, !.act = act, !.policy = p, !.tag = t]
  BY <1>1
<1>3. PICK n \in Name : t \in resolve(p, n)  BY <1>2 DEF Reachable
<1>4. ActsAs(p, t)  BY <1>3, ContextsAreSound, ResolvedActsAs
<1> QED BY <1>2, <1>4 DEF NoRequest

\* A request that an action begins with becomes what the action makes of it.
LEMMA BecomesIt ==
    ASSUME Shapes, NEW r \in Request, NEW new, Becomes(r, new)
    PROVE  DOMAIN req' = Request /\ req'[r] = new /\ \A s \in Request \ {r} : req'[s] = req[s]
BY DEF Shapes, Becomes

LEMMA GoesOn ==
    ASSUME Shapes, NEW r \in Request, ~Free(r), NEW pc, pc # "unused", Goes(r, pc)
    PROVE  /\ Moves(r) /\ Continues(r) /\ req'[r] = [req[r] EXCEPT !.pc = pc]
           /\ req'[r].pc = pc /\ req'[r].held = req[r].held
           /\ req'[r].what = req[r].what /\ req'[r].onto = req[r].onto /\ req'[r].at = req[r].at
           /\ req'[r].row = req[r].row /\ req'[r].batch = req[r].batch
<1>1. DOMAIN req = Request /\ DOMAIN req[r] = DOMAIN NoRequest /\ DOMAIN req[r].batch = DOMAIN NoBatch
  BY DEF Shapes
<1>2. /\ DOMAIN req' = Request /\ req'[r] = [req[r] EXCEPT !.pc = pc]
      /\ \A s \in Request \ {r} : req'[s] = req[s]
  BY <1>1 DEF Goes
<1>3. /\ req'[r].pc = pc /\ req'[r].held = req[r].held /\ DOMAIN req'[r] = DOMAIN NoRequest
      /\ req'[r].what = req[r].what /\ req'[r].onto = req[r].onto /\ req'[r].at = req[r].at
      /\ req'[r].row = req[r].row /\ req'[r].batch = req[r].batch
      /\ req'[r].policy = req[r].policy /\ req'[r].tag = req[r].tag /\ req'[r].act = req[r].act
  BY <1>1, <1>2 DEF NoRequest
<1>4. Continues(r)  BY <1>3 DEF Continues, Free
<1> QED BY <1>1, <1>2, <1>3, <1>4 DEF Moves

LEMMA EndsIt ==
    ASSUME Shapes, NEW r \in Request, Ends(r)
    PROVE  /\ Moves(r) /\ Ended(r) /\ DOMAIN req' = Request /\ req'[r].pc = "done"
           /\ req'[r].batch = NoBatch
<1>1. DOMAIN req = Request  BY DEF Shapes
<1>2. /\ DOMAIN req' = Request /\ req'[r] = [NoRequest EXCEPT !.pc = "done", !.act = req[r].act]
      /\ \A s \in Request \ {r} : req'[s] = req[s]
  BY <1>1 DEF Ends
<1>3. DOMAIN req'[r] = DOMAIN NoRequest /\ req'[r].batch = NoBatch /\ req'[r].pc = "done"
  BY <1>2 DEF NoRequest
<1> QED BY <1>2, <1>3 DEF Moves, Ended

\* It goes on with another batch.
LEMMA BatchesIt ==
    ASSUME Shapes, NEW r \in Request, ~Free(r), NEW pc, pc # "unused", NEW b, DOMAIN b = DOMAIN NoBatch,
           req' = [req EXCEPT ![r] = [[req[r] EXCEPT !.batch = b] EXCEPT !.pc = pc]]
    PROVE  /\ Moves(r) /\ Continues(r) /\ req'[r].batch = b
           /\ req'[r].pc = pc /\ req'[r].held = req[r].held
           /\ req'[r].what = req[r].what /\ req'[r].onto = req[r].onto /\ req'[r].at = req[r].at
<1>1. DOMAIN req = Request /\ DOMAIN req[r] = DOMAIN NoRequest  BY DEF Shapes
<1>2. PICK q : q = [[req[r] EXCEPT !.batch = b] EXCEPT !.pc = pc]  OBVIOUS
<1>3. DOMAIN req' = Request /\ req'[r] = q /\ \A s \in Request \ {r} : req'[s] = req[s]
  BY <1>1, <1>2
<1>4. /\ DOMAIN q = DOMAIN NoRequest /\ q.batch = b /\ q.pc = pc /\ q.held = req[r].held
      /\ q.what = req[r].what /\ q.onto = req[r].onto /\ q.at = req[r].at
      /\ q.policy = req[r].policy /\ q.tag = req[r].tag /\ q.act = req[r].act
  BY <1>1, <1>2 DEF NoRequest
<1>5. Continues(r)  BY <1>3, <1>4 DEF Continues
<1> QED BY <1>3, <1>4, <1>5 DEF Moves

\* What a request holds in its batch, it held before or has now read.
BatchMove(r) ==
    LET old == req[r].batch
        new == req'[r].batch
        t == req[r].tag
    IN  /\ \A d \in DOMAIN new.docs :
             \/ d \in DOMAIN old.docs /\ new.docs[d] = old.docs[d]
             \/ /\ new.docs[d].container_tag = t
                /\ d \in DocsOf(t) \/ \E c \in PointsOf(chunks, t) : chunks[c].doc_id = d
        /\ \A c \in DOMAIN new.chunks :
             \/ c \in DOMAIN old.chunks /\ new.chunks[c] = old.chunks[c]
             \/ c \in PointsOf(chunks, t) /\ new.chunks[c] = chunks[c].doc_id
             \/ c \in DOMAIN chunkRows /\ new.chunks[c] = chunkRows[c] /\ chunkRows[c] \in old.left
        /\ \A m \in DOMAIN new.facts :
             \/ m \in DOMAIN old.facts /\ new.facts[m] = old.facts[m]
             \/ m \in PointsOf(facts, t) /\ new.facts[m] = BackfilledRow(t, facts[m], req[r].at)
             \/ m \in RowsOf(t) /\ new.facts[m] = rows[m]
        /\ new.left \subseteq old.left \cup DocsOf(t)

LEMMA NothingBatched ==
    /\ DOMAIN NoBatch = {"docs", "chunks", "facts", "left"} /\ NoBatch.left = {}
    /\ DOMAIN NoBatch.docs = {} /\ DOMAIN NoBatch.chunks = {} /\ DOMAIN NoBatch.facts = {}
BY DEF NoBatch

LEMMA BatchKept ==
    ASSUME NEW r, req'[r].batch \in {req[r].batch, NoBatch}
    PROVE  BatchMove(r)
<1>1. CASE req'[r].batch = req[r].batch  BY <1>1 DEF BatchMove
<1>2. CASE req'[r].batch = NoBatch  BY <1>2, NothingBatched DEF BatchMove
<1> QED BY <1>1, <1>2

ReadingPc == {"backfill", "scroll_facts", "rebuild", "read_chunks", "read_memories"}
NextReadingPc == {"scroll_facts", "insert_documents", "read_chunks", "rebuild_facts"}

\* It has ended, or goes on as it is with what it has read.
Gleans(r) ==
    /\ Moves(r) /\ BatchMove(r) /\ req[r].pc \in ReadingPc
    /\ \/ Ends(r)
       \/ /\ Continues(r) /\ req'[r].pc \in NextReadingPc
          /\ req'[r].batch # req[r].batch \/ req'[r].pc # req[r].pc
          /\ req'[r].held = req[r].held /\ req'[r].what = req[r].what
          /\ req'[r].onto = req[r].onto /\ req'[r].at = req[r].at

LEMMA EndsGleaning ==
    ASSUME Shapes, NEW r \in Request, req[r].pc \in ReadingPc, Ends(r)
    PROVE  Gleans(r)
BY EndsIt, BatchKept DEF Gleans

LEMMA BatchGleaned ==
    ASSUME Shapes, NEW r \in Request, req[r].pc \in ReadingPc, NEW pc \in NextReadingPc, NEW b,
           DOMAIN b = DOMAIN NoBatch,
           req' = [req EXCEPT ![r] = [[req[r] EXCEPT !.batch = b] EXCEPT !.pc = pc]]
    PROVE  /\ req'[r].batch = b
           /\ BatchMove(r) /\ (b # req[r].batch \/ pc # req[r].pc) => Gleans(r)
<1>1. ~Free(r) /\ pc # "unused"  BY DEF Free, ReadingPc, NextReadingPc
<1>2. /\ Moves(r) /\ Continues(r) /\ req'[r].batch = b
      /\ req'[r].pc = pc /\ req'[r].held = req[r].held
      /\ req'[r].what = req[r].what /\ req'[r].onto = req[r].onto /\ req'[r].at = req[r].at
  BY <1>1, BatchesIt
<1> QED BY <1>2 DEF Gleans

LEMMA ReadGleaned ==
    ASSUME Shapes, NEW r \in Request, req[r].pc \in ReadingPc, NEW f \in DOMAIN NoBatch, NEW d,
           NEW pc \in NextReadingPc, Reads(r, f, d, pc)
    PROVE  /\ req'[r].batch[f] = d /\ \A g \in DOMAIN NoBatch \ {f} : req'[r].batch[g] = req[r].batch[g]
           /\ BatchMove(r) /\ pc # req[r].pc => Gleans(r)
<1>1. PICK b : b = [req[r].batch EXCEPT ![f] = d]  OBVIOUS
<1>2. DOMAIN req = Request /\ DOMAIN req[r] = DOMAIN NoRequest /\ DOMAIN req[r].batch = DOMAIN NoBatch
  BY DEF Shapes
<1>3. DOMAIN b = DOMAIN NoBatch /\ b[f] = d /\ \A g \in DOMAIN NoBatch \ {f} : b[g] = req[r].batch[g]
  BY <1>1, <1>2
<1>4. req' = [req EXCEPT ![r] = [[req[r] EXCEPT !.batch = b] EXCEPT !.pc = pc]]
  BY <1>1, <1>2 DEF NoRequest, Reads
<1>5. req'[r].batch = b /\ (BatchMove(r) /\ pc # req[r].pc => Gleans(r))
  BY <1>3, <1>4, BatchGleaned
<1> QED BY <1>3, <1>5

LEMMA ScrollChunksGleans ==
    ASSUME Shapes, NEW r \in Request, scroll_chunks(r)
    PROVE  Gleans(r)
<1>0. req[r].pc = "backfill" /\ "backfill" \in ReadingPc /\ "scroll_facts" \in NextReadingPc
  BY DEF scroll_chunks, At, ReadingPc, NextReadingPc
<1>1. CASE Ends(r)  BY <1>0, <1>1, EndsGleaning
<1>2. CASE ~Ends(r)
  <2>1. PICK some, docs, cs :
          /\ some \in SUBSET PointsOf(chunks, req[r].tag)
          /\ DOMAIN docs = {chunks[c].doc_id : c \in some}
          /\ \A d \in DOMAIN docs : \E p : docs[d] = DocRowOf(req[r].tag, p, req[r].at)
          /\ cs = [c \in some |-> chunks[c].doc_id]
          /\ req' = [req EXCEPT ![r].batch.docs = docs, ![r].batch.chunks = cs, ![r].pc = "scroll_facts"]
    <3>1. PICK some \in SUBSET PointsOf(chunks, req[r].tag) :
            LET first(d) == chunks[CHOOSE c \in some : chunks[c].doc_id = d]
                docs == [d \in {chunks[c].doc_id : c \in some} |-> DocRowOf(req[r].tag, first(d), req[r].at)]
            IN  req' = [req EXCEPT ![r].batch.docs = docs, ![r].batch.chunks = [c \in some |-> chunks[c].doc_id],
                                   ![r].pc = "scroll_facts"]
      BY <1>2 DEF scroll_chunks
    <3> DEFINE first(d) == chunks[CHOOSE c \in some : chunks[c].doc_id = d]
               docs == [d \in {chunks[c].doc_id : c \in some} |-> DocRowOf(req[r].tag, first(d), req[r].at)]
               cs == [c \in some |-> chunks[c].doc_id]
    <3>2. req' = [req EXCEPT ![r].batch.docs = docs, ![r].batch.chunks = cs, ![r].pc = "scroll_facts"]
      BY <3>1
    <3>3. DOMAIN docs = {chunks[c].doc_id : c \in some}
      <4> HIDE DEF first
      <4> QED OBVIOUS
    <3>4. \A d \in DOMAIN docs : \E p : docs[d] = DocRowOf(req[r].tag, p, req[r].at)
      <4> HIDE DEF first
      <4> QED OBVIOUS
    <3> HIDE DEF docs
    <3> QED BY <3>2, <3>3, <3>4
  <2>2. PICK b : b = [req[r].batch EXCEPT !.docs = docs, !.chunks = cs]  OBVIOUS
  <2>3. DOMAIN req = Request /\ DOMAIN req[r] = DOMAIN NoRequest /\ DOMAIN req[r].batch = DOMAIN NoBatch
    BY DEF Shapes
  <2>4. /\ DOMAIN b = DOMAIN NoBatch /\ b.docs = docs /\ b.chunks = cs
        /\ b.facts = req[r].batch.facts /\ b.left = req[r].batch.left
    BY <2>2, <2>3 DEF NoBatch
  <2>5. req' = [req EXCEPT ![r] = [[req[r] EXCEPT !.batch = b] EXCEPT !.pc = "scroll_facts"]]
    BY <2>1, <2>2, <2>3 DEF NoRequest
  <2>6. req'[r].batch = b  BY <1>0, <2>4, <2>5, BatchGleaned
  <2>7. \A p : DocRowOf(req[r].tag, p, req[r].at).container_tag = req[r].tag  BY DEF DocRowOf
  <2>8. \A d \in DOMAIN docs : /\ docs[d].container_tag = req[r].tag
                               /\ \E c \in PointsOf(chunks, req[r].tag) : chunks[c].doc_id = d
    BY <2>1, <2>7
  <2>9. \A c \in DOMAIN cs : c \in PointsOf(chunks, req[r].tag) /\ cs[c] = chunks[c].doc_id
    BY <2>1
  <2>10. BatchMove(r)  BY <2>4, <2>6, <2>8, <2>9 DEF BatchMove
  <2> QED BY <1>0, <2>4, <2>5, <2>10, BatchGleaned
<1> QED BY <1>1, <1>2

LEMMA ScrollFactsGleans ==
    ASSUME Shapes, NEW r \in Request, scroll_facts(r)
    PROVE  Gleans(r)
<1>0. /\ req[r].pc = "scroll_facts" /\ "scroll_facts" \in ReadingPc /\ "insert_documents" \in NextReadingPc
      /\ "facts" \in DOMAIN NoBatch
  BY NothingBatched DEF scroll_facts, At, ReadingPc, NextReadingPc
<1>1. CASE Ends(r)  BY <1>0, <1>1, EndsGleaning
<1>2. CASE ~Ends(r)
  <2>1. PICK some \in SUBSET PointsOf(facts, req[r].tag) :
          Reads(r, "facts", [m \in some |-> BackfilledRow(req[r].tag, facts[m], req[r].at)], "insert_documents")
    BY <1>2 DEF scroll_facts
  <2>2. PICK new : new = [m \in some |-> BackfilledRow(req[r].tag, facts[m], req[r].at)]  OBVIOUS
  <2>3. Reads(r, "facts", new, "insert_documents")  BY <2>1, <2>2
  <2>4. /\ req'[r].batch["facts"] = new
        /\ \A g \in DOMAIN NoBatch \ {"facts"} : req'[r].batch[g] = req[r].batch[g]
        /\ BatchMove(r) => Gleans(r)
    BY <1>0, <2>3, ReadGleaned
  <2>5. DOMAIN new = some /\ \A m \in some : new[m] = BackfilledRow(req[r].tag, facts[m], req[r].at)
    BY <2>2
  <2>6. BatchMove(r)  BY <2>1, <2>4, <2>5, NothingBatched DEF BatchMove
  <2> QED BY <2>4, <2>6
<1> QED BY <1>1, <1>2

LEMMA ReadMemoriesGleans ==
    ASSUME Shapes, NEW r \in Request, read_memories(r)
    PROVE  Gleans(r)
<1>0. /\ req[r].pc = "read_memories" /\ "read_memories" \in ReadingPc /\ "rebuild_facts" \in NextReadingPc
      /\ "facts" \in DOMAIN NoBatch
  BY NothingBatched DEF read_memories, At, ReadingPc, NextReadingPc
<1>1. CASE Ends(r)  BY <1>0, <1>1, EndsGleaning
<1>2. CASE ~Ends(r)
  <2>1. PICK new : new = Part(rows, RowsOf(req[r].tag))  OBVIOUS
  <2>2. Reads(r, "facts", new, "rebuild_facts")  BY <1>2, <2>1 DEF read_memories
  <2>3. /\ req'[r].batch["facts"] = new
        /\ \A g \in DOMAIN NoBatch \ {"facts"} : req'[r].batch[g] = req[r].batch[g]
        /\ BatchMove(r) => Gleans(r)
    BY <1>0, <2>2, ReadGleaned
  <2>4. \A m \in DOMAIN new : m \in RowsOf(req[r].tag) /\ new[m] = rows[m]
    BY <2>1, PartIs
  <2>5. BatchMove(r)  BY <2>3, <2>4, NothingBatched DEF BatchMove
  <2> QED BY <2>3, <2>5
<1> QED BY <1>1, <1>2

LEMMA ListDocumentsGleans ==
    ASSUME Shapes, NEW r \in Request, list_documents(r)
    PROVE  Gleans(r)
<1>0. /\ req[r].pc = "rebuild" /\ "rebuild" \in ReadingPc /\ "read_chunks" \in NextReadingPc
  BY DEF list_documents, At, ReadingPc, NextReadingPc
<1>1. CASE Ends(r)  BY <1>0, <1>1, EndsGleaning
<1>2. CASE ~Ends(r)
  <2>1. PICK docs, left : /\ docs = Part(docRows, DocsOf(req[r].tag)) /\ left = DocsOf(req[r].tag)
                          /\ req' = [req EXCEPT ![r].batch.docs = docs, ![r].batch.left = left,
                                                ![r].pc = "read_chunks"]
    BY <1>2 DEF list_documents
  <2>2. PICK b : b = [req[r].batch EXCEPT !.docs = docs, !.left = left]  OBVIOUS
  <2>3. DOMAIN req = Request /\ DOMAIN req[r] = DOMAIN NoRequest /\ DOMAIN req[r].batch = DOMAIN NoBatch
    BY DEF Shapes
  <2>4. /\ DOMAIN b = DOMAIN NoBatch /\ b.docs = docs /\ b.left = left
        /\ b.facts = req[r].batch.facts /\ b.chunks = req[r].batch.chunks
    BY <2>2, <2>3 DEF NoBatch
  <2>5. req' = [req EXCEPT ![r] = [[req[r] EXCEPT !.batch = b] EXCEPT !.pc = "read_chunks"]]
    BY <2>1, <2>2, <2>3 DEF NoRequest
  <2>6. req'[r].batch = b  BY <1>0, <2>4, <2>5, BatchGleaned
  <2>7. \A d \in DOMAIN docs : d \in DocsOf(req[r].tag) /\ docs[d] = docRows[d]
    BY <2>1, PartIs
  <2>8. BatchMove(r)  BY <2>1, <2>4, <2>6, <2>7 DEF BatchMove, DocsOf
  <2> QED BY <1>0, <2>4, <2>5, <2>8, BatchGleaned
<1> QED BY <1>1, <1>2

LEMMA MergedFrom ==
    ASSUME NEW p, NEW q, NEW m, m = Merged(p, q)
    PROVE  \A f \in DOMAIN m : (f \in DOMAIN p /\ m[f] = p[f]) \/ (f \in DOMAIN q /\ m[f] = q[f])
BY DEF Merged

LEMMA ReadChunksGleans ==
    ASSUME Shapes, NEW r \in Request, chunks_for_document(r)
    PROVE  Gleans(r)
<1>0. req[r].pc = "read_chunks" /\ "read_chunks" \in ReadingPc /\ "read_chunks" \in NextReadingPc
  BY DEF chunks_for_document, At, ReadingPc, NextReadingPc
<1>1. CASE Ends(r)  BY <1>0, <1>1, EndsGleaning
<1>2. CASE ~Ends(r)
  <2>1. PICK d \in req[r].batch.left :
            req' = [req EXCEPT ![r].batch.left = @ \ {d},
                               ![r].batch.chunks = Merged(@, Part(chunkRows, {c \in DOMAIN chunkRows : chunkRows[c] = d}))]
    BY <1>2 DEF chunks_for_document
  <2>2. PICK new, left, cs :
          /\ new = Part(chunkRows, {c \in DOMAIN chunkRows : chunkRows[c] = d})
          /\ left = req[r].batch.left \ {d} /\ cs = Merged(req[r].batch.chunks, new)
    OBVIOUS
  <2>3. DOMAIN req = Request /\ DOMAIN req[r] = DOMAIN NoRequest /\ DOMAIN req[r].batch = DOMAIN NoBatch
    BY DEF Shapes
  <2>4. PICK b : b = [req[r].batch EXCEPT !.left = left, !.chunks = cs]  OBVIOUS
  <2>5. /\ DOMAIN b = DOMAIN NoBatch /\ b.left = left /\ b.chunks = cs
        /\ b.facts = req[r].batch.facts /\ b.docs = req[r].batch.docs
    BY <2>3, <2>4 DEF NoBatch
  <2>6. req' = [req EXCEPT ![r] = [[req[r] EXCEPT !.batch = b] EXCEPT !.pc = "read_chunks"]]
    BY <1>0, <2>1, <2>2, <2>3, <2>4 DEF NoRequest, NoBatch
  <2>7. req'[r].batch = b  BY <1>0, <2>5, <2>6, BatchGleaned
  <2> PICK old : old = req[r].batch.chunks  OBVIOUS
  <2>11. \A c \in DOMAIN new : c \in DOMAIN chunkRows /\ chunkRows[c] = d /\ new[c] = chunkRows[c]
    <3>1. PICK some : some = {c \in DOMAIN chunkRows : chunkRows[c] = d}  OBVIOUS
    <3>2. new = Part(chunkRows, some)  BY <2>2, <3>1
    <3>3. DOMAIN new = some \cap DOMAIN chunkRows /\ \A k \in some \cap DOMAIN chunkRows : new[k] = chunkRows[k]
      BY <3>2, PartIs
    <3> QED BY <3>1, <3>3
  <2>8. \A c \in DOMAIN cs : \/ c \in DOMAIN req[r].batch.chunks /\ cs[c] = req[r].batch.chunks[c]
                             \/ c \in DOMAIN chunkRows /\ cs[c] = chunkRows[c] /\ chunkRows[c] = d
    <3>1. cs = Merged(old, new)  BY <2>2
    <3>2. \A c \in DOMAIN cs : (c \in DOMAIN old /\ cs[c] = old[c]) \/ (c \in DOMAIN new /\ cs[c] = new[c])
      BY <3>1, MergedFrom
    <3> QED BY <2>11, <3>2
  <2>9. BatchMove(r)  BY <2>2, <2>5, <2>7, <2>8 DEF BatchMove
  <2>10. b # req[r].batch  BY <2>2, <2>5
  <2> QED BY <1>0, <2>5, <2>6, <2>9, <2>10, BatchGleaned
<1> QED BY <1>1, <1>2

\* The steps that read.
Gleaning(r) ==
    scroll_chunks(r) \/ scroll_facts(r) \/ list_documents(r) \/ chunks_for_document(r) \/ read_memories(r)

LEMMA GleaningGleans ==
    ASSUME Shapes, NEW r \in Request, Gleaning(r)
    PROVE  Gleans(r) /\ UNCHANGED storeVars
<1>1. UNCHANGED storeVars
  BY DEF Gleaning, scroll_chunks, scroll_facts, list_documents, chunks_for_document, read_memories
<1> QED BY <1>1, ScrollChunksGleans, ScrollFactsGleans, ListDocumentsGleans, ReadChunksGleans,
           ReadMemoriesGleans DEF Gleaning

\* The pcs of a step are those of a service handler, and it does not begin by
\* dating what it writes.
Serves(r) ==
    /\ req[r].pc \notin SearchPc \cup {"scopes"}
    /\ req'[r].pc \notin SearchPc \cup {"scopes"}
    /\ Free(r) => req'[r].pc \notin Dating

\* A step that begins a request as one the server accepted.
LEMMA AcceptedBegins ==
    ASSUME Shapes, NEW r \in Request, NEW act, NEW made, NEW new, Free(r), Becomes(r, made),
           NEW pc \in {"mirror", "audit", "erase", "redistill", "claim", "latest", "backfill", "rebuild", "read"},
           new \in Accepted(pc, act),
           DOMAIN made = DOMAIN new, made.pc = new.pc, made.policy = new.policy,
           made.tag = new.tag, made.batch = new.batch, made.held \in {{}, acls_for_principal(new.tag)}
    PROVE  Moves(r) /\ Begins(r) /\ Serves(r) /\ BatchMove(r)
<1>1. /\ DOMAIN new = DOMAIN NoRequest /\ new.pc = pc /\ ActsAs(new.policy, new.tag)
      /\ new.held = {} /\ new.batch = NoBatch
  BY AcceptedActsAs
<1>2. DOMAIN req' = Request /\ req'[r] = made /\ \A s \in Request \ {r} : req'[s] = req[s]
  BY BecomesIt
<1>3. /\ req'[r].pc = pc /\ req'[r].policy = new.policy /\ req'[r].tag = new.tag
      /\ req'[r].batch = NoBatch
  BY <1>1, <1>2
<1>4. Begins(r)
  <2>1. ActsAs(req'[r].policy, req'[r].tag)  BY <1>1, <1>3
  <2>2. req'[r].held \in {{}, acls_for_principal(req'[r].tag)}  BY <1>2, <1>3
  <2> QED BY <1>3, <2>1, <2>2 DEF Begins
<1>5. Serves(r)  BY <1>3 DEF Serves, SearchPc, Free, Dating
<1>6. BatchMove(r)  BY <1>3, BatchKept
<1> QED BY <1>1, <1>2, <1>3, <1>4, <1>5, <1>6 DEF Moves

\* The fields that the handlers fill in.
LEMMA Filled ==
    ASSUME NEW new, DOMAIN new = DOMAIN NoRequest, NEW a, NEW b, NEW c
    PROVE  LET one == [new EXCEPT !.what = a]
               all == [new EXCEPT !.what = a, !.onto = b, !.held = c]
               timed == [new EXCEPT !.at = a]
           IN  /\ DOMAIN one = DOMAIN new /\ DOMAIN all = DOMAIN new /\ DOMAIN timed = DOMAIN new
               /\ one.batch = new.batch /\ all.batch = new.batch /\ timed.batch = new.batch
               /\ timed.pc = new.pc /\ timed.policy = new.policy /\ timed.tag = new.tag
               /\ timed.held = new.held /\ timed.act = new.act /\ timed.what = new.what
               /\ timed.onto = new.onto /\ timed.at = a
               /\ one.pc = new.pc /\ one.policy = new.policy /\ one.tag = new.tag
               /\ one.held = new.held /\ one.act = new.act /\ one.what = a /\ one.onto = new.onto
               /\ one.at = new.at /\ one.row = new.row
               /\ all.pc = new.pc /\ all.policy = new.policy /\ all.tag = new.tag
               /\ all.held = c /\ all.act = new.act /\ all.what = a /\ all.onto = b
               /\ all.at = new.at /\ all.row = new.row
BY DEF NoRequest

LEMMA AdminBegins ==
    ASSUME Shapes, NEW r \in Request, NEW act, NEW policy \in Contexts, NEW s, NEW p, Free(r),
           can_admin_scope(policy, s),
           Becomes(r, [NoRequest EXCEPT !.pc = "audit", !.act = act, !.policy = policy,
                                        !.tag = s, !.what = p])
    PROVE  /\ Moves(r) /\ Begins(r) /\ Serves(r) /\ BatchMove(r)
           /\ req'[r].tag = s /\ req'[r].policy = policy /\ req'[r].act = act
<1> DEFINE made == [NoRequest EXCEPT !.pc = "audit", !.act = act, !.policy = policy,
                                     !.tag = s, !.what = p]
<1>1. /\ DOMAIN made = DOMAIN NoRequest /\ made.pc = "audit" /\ made.act = act
      /\ made.policy = policy /\ made.tag = s /\ made.held = {} /\ made.batch = NoBatch
      /\ DOMAIN made.batch = DOMAIN NoBatch
  BY DEF NoRequest
<1>2. Becomes(r, made)  OBVIOUS
<1>3. ActsAs(policy, s)  BY AdminActsAs
<1> HIDE DEF made
<1>4. DOMAIN req' = Request /\ req'[r] = made /\ \A q \in Request \ {r} : req'[q] = req[q]
  BY <1>2, BecomesIt
<1>5. BatchMove(r)  BY <1>1, <1>4, BatchKept
<1> QED BY <1>1, <1>3, <1>4, <1>5 DEF Moves, Begins, Serves, SearchPc, Free, Dating

LEMMA ServiceMoves ==
    ASSUME Shapes, NEW r \in Request, ServiceStep(r)
    PROVE  Moves(r) /\ Serves(r) /\ BatchMove(r)
<1> USE DEF At
<1>1. CASE add_memory(r)
  <2>1. PICK new \in Accepted("mirror", "ingest") : Free(r) /\ Becomes(r, [new EXCEPT !.what = r])
    BY <1>1 DEF add_memory
  <2>2. PICK made : made = [new EXCEPT !.what = r]  OBVIOUS
  <2>3. DOMAIN new = DOMAIN NoRequest /\ new.held = {} /\ new.batch = NoBatch /\ new.pc = "mirror"  BY <2>1, AcceptedActsAs
  <2>4. /\ DOMAIN made = DOMAIN new /\ made.pc = new.pc /\ made.policy = new.policy
        /\ made.tag = new.tag /\ made.held = {} /\ made.batch = new.batch
    BY <2>2, <2>3, Filled
  <2> QED BY <2>1, <2>2, <2>3, <2>4, AcceptedBegins
<1>2. CASE delete_memory(r)
  <2>1. PICK new \in Accepted("audit", "delete") : \E doc : Free(r) /\ Becomes(r, [new EXCEPT !.what = doc])
    BY <1>2 DEF delete_memory
  <2>2. PICK doc : Free(r) /\ Becomes(r, [new EXCEPT !.what = doc])  BY <2>1
  <2>3. PICK made : made = [new EXCEPT !.what = doc]  OBVIOUS
  <2>4. DOMAIN new = DOMAIN NoRequest /\ new.held = {} /\ new.batch = NoBatch /\ new.pc = "audit"  BY <2>1, AcceptedActsAs
  <2>5. /\ DOMAIN made = DOMAIN new /\ made.pc = new.pc /\ made.policy = new.policy
        /\ made.tag = new.tag /\ made.held = {} /\ made.batch = new.batch
    BY <2>3, <2>4, Filled
  <2> QED BY <2>2, <2>3, <2>4, <2>5, AcceptedBegins
<1>3. CASE forget_fact(r)
  <2>1. PICK new \in Accepted("erase", "forget") : \E m : Free(r) /\ Becomes(r, [new EXCEPT !.what = m])
    BY <1>3 DEF forget_fact
  <2>2. PICK m : Free(r) /\ Becomes(r, [new EXCEPT !.what = m])  BY <2>1
  <2>3. PICK made : made = [new EXCEPT !.what = m]  OBVIOUS
  <2>4. DOMAIN new = DOMAIN NoRequest /\ new.held = {} /\ new.batch = NoBatch /\ new.pc = "erase"  BY <2>1, AcceptedActsAs
  <2>5. /\ DOMAIN made = DOMAIN new /\ made.pc = new.pc /\ made.policy = new.policy
        /\ made.tag = new.tag /\ made.held = {} /\ made.batch = new.batch
    BY <2>3, <2>4, Filled
  <2> QED BY <2>2, <2>3, <2>4, <2>5, AcceptedBegins
<1>4. CASE reindex(r)
  <2>1. PICK mode \in {"redistill", "claim", "latest", "backfill", "rebuild"} :
          \E new \in Accepted(mode, "reindex") : Free(r) /\ Becomes(r, [new EXCEPT !.at = now])
    BY <1>4 DEF reindex
  <2>2. PICK new \in Accepted(mode, "reindex") : Free(r) /\ Becomes(r, [new EXCEPT !.at = now])  BY <2>1
  <2>3. PICK made : made = [new EXCEPT !.at = now]  OBVIOUS
  <2>4. DOMAIN new = DOMAIN NoRequest /\ new.held = {} /\ new.batch = NoBatch /\ new.pc = mode
    BY <2>2, AcceptedActsAs
  <2>5. /\ DOMAIN made = DOMAIN new /\ made.pc = new.pc /\ made.policy = new.policy
        /\ made.tag = new.tag /\ made.held = {} /\ made.batch = new.batch
    BY <2>3, <2>4, Filled
  <2> QED BY <2>2, <2>3, <2>4, <2>5, AcceptedBegins
<1>5. CASE alias_add(r)
  <2>1. PICK new \in Accepted("audit", "alias_add") : \E c : Free(r) /\ Becomes(r, [new EXCEPT !.what = c])
    BY <1>5 DEF alias_add
  <2>2. PICK c : Free(r) /\ Becomes(r, [new EXCEPT !.what = c])  BY <2>1
  <2>3. PICK made : made = [new EXCEPT !.what = c]  OBVIOUS
  <2>4. DOMAIN new = DOMAIN NoRequest /\ new.held = {} /\ new.batch = NoBatch /\ new.pc = "audit"  BY <2>1, AcceptedActsAs
  <2>5. /\ DOMAIN made = DOMAIN new /\ made.pc = new.pc /\ made.policy = new.policy
        /\ made.tag = new.tag /\ made.held = {} /\ made.batch = new.batch
    BY <2>3, <2>4, Filled
  <2> QED BY <2>2, <2>3, <2>4, <2>5, AcceptedBegins
<1>6. CASE promote_memory(r)
  <2>1. PICK new \in Accepted("read", "promote") : \E m, to :
          Free(r) /\ Becomes(r, [new EXCEPT !.what = m, !.onto = to, !.held = acls_for_principal(new.tag)])
    BY <1>6 DEF promote_memory
  <2>2. PICK m, to :
          Free(r) /\ Becomes(r, [new EXCEPT !.what = m, !.onto = to, !.held = acls_for_principal(new.tag)])
    BY <2>1
  <2>3. PICK held : held = acls_for_principal(new.tag)  OBVIOUS
  <2>4. PICK made : made = [new EXCEPT !.what = m, !.onto = to, !.held = held]  OBVIOUS
  <2>5. DOMAIN new = DOMAIN NoRequest /\ new.pc = "read"  BY <2>1, AcceptedActsAs
  <2>6. /\ DOMAIN made = DOMAIN new /\ made.pc = new.pc /\ made.policy = new.policy
        /\ made.tag = new.tag /\ made.held = held /\ made.batch = new.batch
    BY <2>4, <2>5, Filled
  <2> QED BY <2>2, <2>3, <2>4, <2>5, <2>6, AcceptedBegins
<1>7. CASE acl_grant(r)
  <2>1. \E policy \in Contexts : \E p, s : /\ Free(r) /\ can_admin_scope(policy, s)
          /\ Becomes(r, [NoRequest EXCEPT !.pc = "audit", !.act = "acl_grant", !.policy = policy,
                                          !.tag = s, !.what = p])
    BY <1>7 DEF acl_grant
  <2> QED BY <2>1, AdminBegins
<1>8. CASE acl_revoke(r)
  <2>1. \E policy \in Contexts : \E e : /\ Free(r) /\ can_admin_scope(policy, e.scope)
          /\ Becomes(r, [NoRequest EXCEPT !.pc = "audit", !.act = "acl_revoke", !.policy = policy,
                                          !.tag = e.scope, !.what = e.principal])
    BY <1>8 DEF acl_revoke
  <2> QED BY <2>1, AdminBegins
<1>9. CASE reconcile(r)
  <2>1. PICK old : req' = [req EXCEPT ![r].onto = old, ![r].at = now, ![r].pc = "store"]
    BY <1>9 DEF reconcile
  <2>2. req[r].pc = "reconcile"  BY <1>9 DEF reconcile
  <2>3. req'[r].batch = req[r].batch  BY <2>1 DEF Shapes, NoRequest
  <2>4. Moves(r) /\ Serves(r)
    BY <2>1, <2>2, <2>3 DEF Shapes, NoRequest, Moves, Continues, Serves, SearchPc, Free, Dating
  <2> QED BY <2>3, <2>4, BatchKept
<1>10. CASE get_memory(r)
  <2>1. req[r].pc = "read"  BY <1>10 DEF get_memory
  <2>2. CASE Ends(r)  BY <2>1, <2>2, EndsIt, BatchKept DEF Serves, SearchPc, Free, Dating
  <2>3. CASE req' = [req EXCEPT ![r].row = rows[req[r].what], ![r].at = now, ![r].pc = "copy"]
    <3>1. req'[r].batch = req[r].batch  BY <2>3 DEF Shapes, NoRequest
    <3>2. Moves(r) /\ Serves(r)
      BY <2>1, <2>3, <3>1 DEF Shapes, NoRequest, Moves, Continues, Serves, SearchPc, Free, Dating
    <3> QED BY <3>1, <3>2, BatchKept
  <2> QED BY <1>10, <2>2, <2>3 DEF get_memory
<1>11. ASSUME NEW pc \in {"reconcile", "audit", "insert", "mark", "erase_row", "claim_facts", "latest",
                          "insert_chunks", "insert_memories", "read_memories", "insert_copy", "done"},
              Goes(r, pc), req[r].pc \notin SearchPc \cup {"scopes", "unused"}
       PROVE  Moves(r) /\ Serves(r) /\ BatchMove(r)
  <2>0. ~Free(r) /\ pc # "unused"  BY <1>11 DEF Free
  <2>1. Moves(r) /\ req'[r].pc = pc /\ req'[r].batch = req[r].batch  BY <1>11, <2>0, GoesOn
  <2>2. BatchMove(r)  BY <2>1, BatchKept
  <2> QED BY <1>11, <2>1, <2>2 DEF Serves, SearchPc, Free, Dating
<1>12. ASSUME Ends(r), req[r].pc \notin SearchPc \cup {"scopes"}
       PROVE  Moves(r) /\ Serves(r) /\ BatchMove(r)
  BY <1>12, EndsIt, BatchKept DEF Serves, SearchPc, Free, Dating
<1>13. ASSUME Finishes(r), req[r].pc \notin SearchPc \cup {"scopes", "unused"}
       PROVE  Moves(r) /\ Serves(r) /\ BatchMove(r)
  BY <1>11, <1>12, <1>13 DEF Finishes
<1>14. CASE mirror(r) \/ index_memories(r) \/ insert_memory(r) \/ mark_superseded(r)
  BY <1>14, <1>11, <1>13 DEF mirror, index_memories, insert_memory, mark_superseded, SearchPc
<1>15. CASE erase_vector(r) \/ delete_row(r)
  BY <1>15, <1>11, <1>12 DEF erase_vector, delete_row, SearchPc
<1>16. CASE claim_chunks(r) \/ claim_facts(r) \/ backfill_facts_latest(r)
  BY <1>16, <1>11, <1>12 DEF claim_chunks, claim_facts, backfill_facts_latest, SearchPc
<1>17. CASE redistill_doc(r)
  <2>1. req[r].pc = "redistill"  BY <1>17 DEF redistill_doc
  <2>2. CASE Ends(r)  BY <1>12, <2>1, <2>2 DEF SearchPc
  <2>3. ASSUME NEW d, req' = [req EXCEPT ![r].what = d, ![r].pc = "reconcile"]
        PROVE  Moves(r) /\ Serves(r) /\ BatchMove(r)
    <3>1. req'[r].batch = req[r].batch  BY <2>3 DEF Shapes, NoRequest
    <3>2. Moves(r) /\ Serves(r)
      BY <2>1, <2>3, <3>1 DEF Shapes, NoRequest, Moves, Continues, Serves, SearchPc, Free, Dating
    <3> QED BY <3>1, <3>2, BatchKept
  <2> QED BY <1>17, <2>2, <2>3 DEF redistill_doc
<1>18. CASE insert_documents(r)
  BY <1>18, <1>11, <1>12 DEF insert_documents, SearchPc
<1>19. CASE insert_chunks(r)
  BY <1>19, <1>11, <1>12 DEF insert_chunks, SearchPc
<1>20. CASE insert_memories(r) \/ rebuild_facts(r)
  BY <1>20, <1>12 DEF insert_memories, rebuild_facts, SearchPc
<1>21. CASE rebuild_chunks(r)
  BY <1>21, <1>11, <1>12 DEF rebuild_chunks, SearchPc
<1>22. CASE upsert_copy(r) \/ insert_copy(r) \/ audit(r)
  BY <1>22, <1>11, <1>12 DEF upsert_copy, insert_copy, audit, SearchPc
<1>23. CASE Gleaning(r)
  <2>1. Gleans(r)  BY <1>23, GleaningGleans
  <2>2. CASE Ends(r)  BY <1>12, <2>1, <2>2 DEF Gleans, ReadingPc, SearchPc
  <2> QED BY <2>1, <2>2 DEF Gleans, Serves, ReadingPc, NextReadingPc, SearchPc, Free, Dating
<1> QED BY <1>1, <1>2, <1>3, <1>4, <1>5, <1>6, <1>7, <1>8, <1>9, <1>10, <1>14, <1>15, <1>16, <1>17,
           <1>18, <1>19, <1>20, <1>21, <1>22, <1>23 DEF ServiceStep, Gleaning

-----------------------------------------------------------------------------
(* What a step does to what its search has found.                          *)

FoundMoves(r) ==
    /\ DOMAIN found' = Request /\ \A s \in Request \ {r} : found'[s] = found[s]
    /\ DOMAIN found'[r] = DOMAIN NoSearch

LEMMA FindsIt ==
    ASSUME Shapes, NEW r \in Request, NEW field \in DOMAIN NoSearch, NEW value, Finds(r, field, value)
    PROVE  /\ FoundMoves(r) /\ found'[r][field] = value
           /\ \A g \in DOMAIN NoSearch \ {field} : found'[r][g] = found[r][g]
<1>1. DOMAIN found = Request /\ DOMAIN found[r] = DOMAIN NoSearch  BY DEF Shapes
<1>2. found' = [found EXCEPT ![r] = [found[r] EXCEPT ![field] = value]]  BY DEF Finds
<1>3. PICK f : f = [found[r] EXCEPT ![field] = value]  OBVIOUS
<1>4. DOMAIN f = DOMAIN NoSearch /\ f[field] = value
      /\ \A g \in DOMAIN NoSearch \ {field} : f[g] = found[r][g]
  BY <1>1, <1>3
<1>5. found'[r] = f /\ DOMAIN found' = Request /\ \A s \in Request \ {r} : found'[s] = found[s]
  BY <1>1, <1>2, <1>3
<1> QED BY <1>4, <1>5 DEF FoundMoves

LEMMA FailsIt ==
    ASSUME Shapes, NEW r \in Request, Fails(r)
    PROVE  Moves(r) /\ Ended(r) /\ FoundMoves(r) /\ found'[r] = NoSearch
<1>1. DOMAIN found = Request  BY DEF Shapes
<1>2. found' = [found EXCEPT ![r] = NoSearch] /\ Ends(r)  BY DEF Fails
<1>3. found'[r] = NoSearch /\ DOMAIN found' = Request /\ \A s \in Request \ {r} : found'[s] = found[s]
  BY <1>1, <1>2
<1> QED BY <1>2, <1>3, EndsIt DEF FoundMoves

\* An answer of a joined search.
LEMMA AnswersIt ==
    ASSUME Shapes, NEW r \in Request, NEW query, NEW field \in DOMAIN NoSearch \ {"pending"}, NEW value,
           Answers(r, query, field, value)
    PROVE  /\ FoundMoves(r) /\ req' = req /\ UNCHANGED storeVars
           /\ query \in found[r].pending /\ found'[r].pending = found[r].pending \ {query}
           /\ found'[r][field] = value
           /\ \A g \in DOMAIN NoSearch \ {field, "pending"} : found'[r][g] = found[r][g]
<1>1. DOMAIN found = Request /\ DOMAIN found[r] = DOMAIN NoSearch  BY DEF Shapes
<1>2. "pending" \in DOMAIN NoSearch  BY DEF NoSearch
<1>3. PICK f : f = [[found[r] EXCEPT !.pending = @ \ {query}] EXCEPT ![field] = value]  OBVIOUS
<1>4. found' = [found EXCEPT ![r] = f]
  BY <1>3 DEF Answers
<1>5. DOMAIN f = DOMAIN NoSearch /\ f[field] = value /\ f.pending = found[r].pending \ {query}
      /\ \A g \in DOMAIN NoSearch \ {field, "pending"} : f[g] = found[r][g]
  BY <1>1, <1>2, <1>3
<1>6. found'[r] = f /\ DOMAIN found' = Request /\ \A s \in Request \ {r} : found'[s] = found[s]
  BY <1>1, <1>4
<1> QED BY <1>5, <1>6 DEF FoundMoves, Answers
-----------------------------------------------------------------------------
(* The invariant behind AnswersStayInVisibleScopes.                        *)

IsSeq(s) == s \in Seq(ToSet(s))
Gathered(f) == ToSet(f.first) \cup ToSet(f.second) \cup ToSet(f.hits) \cup f.facts

\* What a search has gathered is of the scopes it saw when it looked.
Confined(q, f) ==
    /\ IsSeq(f.first) /\ IsSeq(f.second) /\ IsSeq(f.hits)
    /\ q.pc \in SearchPc => /\ f.scopes = visible_scopes(q.tag, q.held)
                            /\ \A h \in Gathered(f) : NamespaceOf(h.payload) \in f.scopes
    /\ q.pc \notin SearchPc => Gathered(f) = {}

Acting == \A r \in Request : ActsAs(req[r].policy, req[r].tag)
Granted == \A e \in DOMAIN acl : ActsAs(acl[e], e.scope)
Holding == \A r \in Request : \A e \in req[r].held :
              e.principal = req[r].tag /\ ActsAs(e.by, e.scope)
Searching == IsFiniteSet(DOMAIN chunks) /\ \A r \in Request : Confined(req[r], found[r])

\* Pools are of finitely many chunks: those there are, and those a rebuild may put
\* back.
Filing == IsFiniteSet(DOMAIN chunkRows) /\ \A r \in Request : IsFiniteSet(DOMAIN req[r].batch.chunks)

AccessInv == Shapes /\ Acting /\ Granted /\ Holding /\ Searching /\ Filing

LEMMA NothingGathered ==
    /\ DOMAIN NoSearch = {"plan", "scopes", "pending", "ok", "first", "second", "facts", "retried",
                          "hits", "candidates", "documents", "provenance"}
    /\ Gathered(NoSearch) = {}
    /\ IsSeq(NoSearch.first) /\ IsSeq(NoSearch.second) /\ IsSeq(NoSearch.hits)
<1>1. DOMAIN NoSearch = {"plan", "scopes", "pending", "ok", "first", "second", "facts", "retried",
                          "hits", "candidates", "documents", "provenance"}
      /\ NoSearch.first = <<>> /\ NoSearch.second = <<>> /\ NoSearch.hits = <<>> /\ NoSearch.facts = {}
  BY DEF NoSearch
<1>2. ToSet(<<>>) = {} /\ IsSeq(<<>>)
  BY DEF ToSet, IsSeq
<1> QED BY <1>1, <1>2 DEF Gathered

LEMMA AccessInit ==
    ASSUME Init PROVE AccessInv
<1> USE DEF Init, ServiceInit, RetrievalInit
<1>1. Shapes  BY DEF Shapes, NoRequest
<1>2. Acting /\ Holding  BY DEF Acting, Holding, NoRequest, AnyTag, ActsAs
<1>3. Granted  BY DEF Granted
<1>4. Searching
  <2>1. IsFiniteSet(DOMAIN chunks)  BY StoresAssumption
  <2>2. NoRequest.pc \notin SearchPc  BY DEF NoRequest, SearchPc
  <2>3. \A r \in Request : req[r] = NoRequest /\ found[r] = NoSearch  OBVIOUS
  <2> QED BY <2>1, <2>2, <2>3, NothingGathered DEF Searching, Confined
<1>5. Filing
  <2>1. DOMAIN NoBatch.chunks = {}  BY NothingBatched
  <2>2. \A r \in Request : DOMAIN req[r].batch.chunks = {}  BY <2>1 DEF NoRequest
  <2>3. IsFiniteSet({}) /\ IsFiniteSet(DOMAIN chunkRows)  BY StoresAssumption, FS_EmptySet
  <2> QED BY <2>2, <2>3 DEF Filing
<1> QED BY <1>1, <1>2, <1>3, <1>4, <1>5 DEF AccessInv

\* A pool of the search's own filter is within its scopes.
LEMMA PoolConfined ==
    ASSUME NEW points, NEW base, IsFilter(base), base.should = {}, NEW scopes, scopes # {},
           NEW limit, NEW pool \in Pools(points, scope_filter(base, scopes), limit),
           IsFiniteSet(DOMAIN points)
    PROVE  IsSeq(pool) /\ \A h \in ToSet(pool) : NamespaceOf(h.payload) \in scopes
BY PoolsMatch, ScopesConfine DEF IsSeq

LEMMA VisibleScopes ==
    ASSUME NEW own, NEW acls
    PROVE  own \in visible_scopes(own, acls)
           /\ \A s \in visible_scopes(own, acls) : s = own \/ \E e \in acls : e.scope = s
BY DEF visible_scopes

LEMMA ConfinedKept ==
    ASSUME NEW q, NEW f, Confined(q, f), NEW q2, NEW f2,
           q2.tag = q.tag, q2.held = q.held, q2.pc \in SearchPc <=> q.pc \in SearchPc,
           f2.first = f.first, f2.second = f.second, f2.hits = f.hits, f2.facts = f.facts,
           f2.scopes = f.scopes
    PROVE  Confined(q2, f2)
<1>1. Gathered(f2) = Gathered(f)  BY DEF Gathered
<1> QED BY <1>1 DEF Confined

\* A step of a search that only goes on, and finds something it does not gather.
LEMMA Passes ==
    ASSUME AccessInv, NEW r \in Request, NEW pc, NEW field \in {"plan", "pending", "candidates", "documents", "provenance"},
           NEW value, ~Free(r), pc # "unused", Goes(r, pc), Finds(r, field, value),
           pc \in SearchPc <=> req[r].pc \in SearchPc
    PROVE  Moves(r) /\ FoundMoves(r) /\ Confined(req'[r], found'[r])
<1>1. Shapes /\ Confined(req[r], found[r])  BY DEF AccessInv, Searching
<1>2. field \in DOMAIN NoSearch  BY NothingGathered
<1>3. /\ FoundMoves(r) /\ \A g \in DOMAIN NoSearch \ {field} : found'[r][g] = found[r][g]
  BY <1>1, <1>2, FindsIt
<1>4. /\ found'[r].first = found[r].first /\ found'[r].second = found[r].second
      /\ found'[r].hits = found[r].hits /\ found'[r].facts = found[r].facts
      /\ found'[r].scopes = found[r].scopes
  BY <1>3, NothingGathered
<1>5. Moves(r) /\ req'[r].pc = pc /\ req'[r].held = req[r].held /\ req'[r].tag = req[r].tag
  BY <1>1, GoesOn DEF Continues
<1> QED BY <1>1, <1>3, <1>4, <1>5, ConfinedKept

LEMMA FailedIsConfined ==
    ASSUME AccessInv, NEW r \in Request, Fails(r)
    PROVE  Moves(r) /\ FoundMoves(r) /\ Confined(req'[r], found'[r])
<1>1. Moves(r) /\ Ended(r) /\ FoundMoves(r) /\ found'[r] = NoSearch
  BY FailsIt DEF AccessInv
<1>2. req'[r].pc = "done"  BY <1>1 DEF Ended, NoRequest
<1> QED BY <1>1, <1>2, NothingGathered DEF Confined, SearchPc

LEMMA SearchBegins ==
    ASSUME AccessInv, NEW r \in Request, search(r)
    PROVE  Moves(r) /\ FoundMoves(r) /\ Confined(req'[r], found'[r])
<1>1. PICK new \in Accepted("scopes", "search") : Free(r) /\ Becomes(r, new)  BY DEF search
<1>2. PICK plan : Finds(r, "plan", plan)  BY DEF search
<1>3. Shapes /\ Confined(req[r], found[r])  BY DEF AccessInv, Searching
<1>4. /\ DOMAIN new = DOMAIN NoRequest /\ new.pc = "scopes" /\ ActsAs(new.policy, new.tag)
      /\ new.held = {} /\ new.batch = NoBatch
  BY <1>1, AcceptedActsAs
<1>5. DOMAIN req' = Request /\ req'[r] = new /\ \A s \in Request \ {r} : req'[s] = req[s]
  BY <1>1, <1>3, BecomesIt
<1>6. Moves(r)  BY <1>1, <1>4, <1>5 DEF Moves, Begins
<1>7. "plan" \in DOMAIN NoSearch  BY NothingGathered
<1>8. FoundMoves(r) /\ \A g \in DOMAIN NoSearch \ {"plan"} : found'[r][g] = found[r][g]
  BY <1>2, <1>3, <1>7, FindsIt
<1>9. /\ found'[r].first = found[r].first /\ found'[r].second = found[r].second
      /\ found'[r].hits = found[r].hits /\ found'[r].facts = found[r].facts
  BY <1>8, NothingGathered
<1>10. Gathered(found'[r]) = Gathered(found[r])  BY <1>9 DEF Gathered
<1>11. "unused" \notin SearchPc /\ "scopes" \notin SearchPc  BY DEF SearchPc
<1>12. Confined(req'[r], found'[r])
  BY <1>1, <1>3, <1>4, <1>5, <1>9, <1>10, <1>11 DEF Confined, Free
<1> QED BY <1>6, <1>8, <1>12

LEMMA LookingConfines ==
    ASSUME AccessInv, NEW r \in Request, visible_scopes_for(r)
    PROVE  Moves(r) /\ FoundMoves(r) /\ Confined(req'[r], found'[r])
<1>1. req[r].pc = "scopes"  BY DEF visible_scopes_for, At
<1>2. PICK held \in {acls_for_principal(req[r].tag), {}} :
        /\ req' = [req EXCEPT ![r].held = held, ![r].pc = "embed"]
        /\ Finds(r, "scopes", visible_scopes(req[r].tag, held))
  BY DEF visible_scopes_for
<1>3. Shapes /\ Confined(req[r], found[r])  BY DEF AccessInv, Searching
<1>4. /\ DOMAIN req' = Request /\ \A s \in Request \ {r} : req'[s] = req[s]
      /\ DOMAIN req'[r] = DOMAIN NoRequest /\ req'[r].pc = "embed" /\ req'[r].held = held
      /\ req'[r].policy = req[r].policy /\ req'[r].tag = req[r].tag /\ req'[r].act = req[r].act
      /\ req'[r].batch = req[r].batch
  BY <1>2, <1>3 DEF Shapes, NoRequest
<1>5. Moves(r)  BY <1>1, <1>2, <1>3, <1>4 DEF Shapes, Moves, Continues, Free
<1>6. "scopes" \in DOMAIN NoSearch  BY NothingGathered
<1>7. /\ FoundMoves(r) /\ \A g \in DOMAIN NoSearch \ {"scopes"} : found'[r][g] = found[r][g]
      /\ found'[r]["scopes"] = visible_scopes(req[r].tag, held)
  BY <1>2, <1>3, <1>6, FindsIt
<1>8. /\ found'[r].first = found[r].first /\ found'[r].second = found[r].second
      /\ found'[r].hits = found[r].hits /\ found'[r].facts = found[r].facts
  BY <1>7, NothingGathered
<1>9. Gathered(found'[r]) = Gathered(found[r])  BY <1>8 DEF Gathered
<1>10. "scopes" \notin SearchPc /\ "embed" \in SearchPc  BY DEF SearchPc
<1>11. Confined(req'[r], found'[r])
  BY <1>1, <1>3, <1>4, <1>7, <1>8, <1>9, <1>10 DEF Confined
<1> QED BY <1>5, <1>7, <1>11

LEMMA EmbeddingConfines ==
    ASSUME AccessInv, NEW r \in Request, embed_query(r)
    PROVE  Moves(r) /\ FoundMoves(r) /\ Confined(req'[r], found'[r])
<1>1. req[r].pc = "embed"  BY DEF embed_query, At
<1>2. CASE Fails(r)  BY <1>2, FailedIsConfined
<1>3. ASSUME NEW value, req' = [req EXCEPT ![r].at = now, ![r].pc = "search"], Finds(r, "pending", value)
      PROVE  Moves(r) /\ FoundMoves(r) /\ Confined(req'[r], found'[r])
  <2>1. Shapes /\ Confined(req[r], found[r])  BY DEF AccessInv, Searching
  <2>2. /\ DOMAIN req' = Request /\ \A s \in Request \ {r} : req'[s] = req[s]
        /\ DOMAIN req'[r] = DOMAIN NoRequest /\ req'[r].pc = "search" /\ req'[r].held = req[r].held
        /\ req'[r].policy = req[r].policy /\ req'[r].tag = req[r].tag /\ req'[r].act = req[r].act
        /\ req'[r].batch = req[r].batch
    BY <1>3, <2>1 DEF Shapes, NoRequest
  <2>3. Moves(r)  BY <1>1, <2>1, <2>2 DEF Shapes, Moves, Continues, Free
  <2>4. "pending" \in DOMAIN NoSearch  BY NothingGathered
  <2>5. /\ FoundMoves(r) /\ \A g \in DOMAIN NoSearch \ {"pending"} : found'[r][g] = found[r][g]
    BY <1>3, <2>1, <2>4, FindsIt
  <2>6. /\ found'[r].first = found[r].first /\ found'[r].second = found[r].second
        /\ found'[r].hits = found[r].hits /\ found'[r].facts = found[r].facts
        /\ found'[r].scopes = found[r].scopes
    BY <2>5, NothingGathered
  <2>7. "search" \in SearchPc /\ "embed" \in SearchPc  BY DEF SearchPc
  <2> QED BY <1>1, <2>1, <2>2, <2>3, <2>5, <2>6, <2>7, ConfinedKept
<1> QED BY <1>2, <1>3 DEF embed_query
\* A joined search adds a pool, or facts, of the scopes.
LEMMA AnswerConfines ==
    ASSUME AccessInv, NEW r \in Request, req[r].pc \in SearchPc, NEW query,
           NEW field \in {"first", "second", "facts", "ok"}, NEW value,
           Answers(r, query, field, value),
           field \in {"first", "second"} =>
             IsSeq(value) /\ \A h \in ToSet(value) : NamespaceOf(h.payload) \in found[r].scopes,
           field = "facts" => \A h \in value : NamespaceOf(h.payload) \in found[r].scopes
    PROVE  Moves(r) /\ FoundMoves(r) /\ Confined(req'[r], found'[r])
<1>1. Shapes /\ Confined(req[r], found[r])  BY DEF AccessInv, Searching
<1>2. field \in DOMAIN NoSearch \ {"pending"}  BY NothingGathered
<1>3. /\ FoundMoves(r) /\ req' = req /\ found'[r][field] = value
      /\ \A g \in DOMAIN NoSearch \ {field, "pending"} : found'[r][g] = found[r][g]
  BY <1>1, <1>2, AnswersIt, Zenon
<1>4. /\ field # "first" => found'[r].first = found[r].first
      /\ field # "second" => found'[r].second = found[r].second
      /\ field # "facts" => found'[r].facts = found[r].facts
      /\ found'[r].hits = found[r].hits /\ found'[r].scopes = found[r].scopes
  BY <1>3, NothingGathered
<1>5. Moves(r)
  BY <1>1, <1>3 DEF Moves, Continues, Shapes, Free, SearchPc
<1>6. IsSeq(found'[r].first) /\ IsSeq(found'[r].second) /\ IsSeq(found'[r].hits)
  BY <1>1, <1>3, <1>4 DEF Confined
<1>7. \A h \in Gathered(found'[r]) : NamespaceOf(h.payload) \in found[r].scopes
  BY <1>1, <1>3, <1>4 DEF Confined, Gathered
<1> QED BY <1>1, <1>3, <1>4, <1>5, <1>6, <1>7 DEF Confined

\* The scopes of a search that has looked hold at least its own.
LEMMA ScopesAreNamed ==
    ASSUME AccessInv, NEW r \in Request, req[r].pc \in SearchPc
    PROVE  found[r].scopes # {}
<1>1. Confined(req[r], found[r])  BY DEF AccessInv, Searching
<1> QED BY <1>1, VisibleScopes DEF Confined

LEMMA ChunkSearchConfines ==
    ASSUME AccessInv, NEW r \in Request, NEW query \in {"first", "second"}, search_chunks(r, query)
    PROVE  Moves(r) /\ FoundMoves(r) /\ Confined(req'[r], found'[r])
<1>1. req[r].pc \in SearchPc  BY DEF search_chunks, At, SearchPc
<1>2. CASE Answers(r, query, "ok", found[r].ok /\ query # "first")
  BY <1>1, <1>2, AnswerConfines
<1>3. ASSUME NEW pool \in Pools(chunks, Filter(r), HitLimit(r)), Answers(r, query, query, pool)
      PROVE  Moves(r) /\ FoundMoves(r) /\ Confined(req'[r], found'[r])
  <2>1. IsFiniteSet(DOMAIN chunks)  BY DEF AccessInv, Searching
  <2>2. Filter(r) = scope_filter(build_filter(found[r].plan), found[r].scopes)  BY DEF Filter
  <2>3. found[r].scopes # {}  BY <1>1, ScopesAreNamed
  <2>4. IsSeq(pool) /\ \A h \in ToSet(pool) : NamespaceOf(h.payload) \in found[r].scopes
    BY <1>3, <2>1, <2>2, <2>3, PlanFilterIsFilter, PoolConfined
  <2> QED BY <1>1, <1>3, <2>4, AnswerConfines
<1> QED BY <1>2, <1>3 DEF search_chunks

LEMMA FactSearchConfines ==
    ASSUME AccessInv, NEW r \in Request, search_facts(r)
    PROVE  Moves(r) /\ FoundMoves(r) /\ Confined(req'[r], found'[r])
<1>1. req[r].pc \in SearchPc  BY DEF search_facts, At, SearchPc
<1> DEFINE f == active_facts_filter(Filter(r), req[r].at)
           hits == {Hit(facts, m) : m \in {i \in DOMAIN facts : Matches(f, facts[i])}}
<1>2. PICK some \in SUBSET hits : Answers(r, "facts", "facts", some)  BY DEF search_facts
<1>3. ASSUME NEW m \in DOMAIN facts, Matches(f, facts[m])
      PROVE  NamespaceOf(facts[m]) \in found[r].scopes
  <2>1. Filter(r) = scope_filter(build_filter(found[r].plan), found[r].scopes)  BY DEF Filter
  <2>2. IsFilter(Filter(r))  BY <2>1, PlanFilterIsFilter, ScopeFilterIsFilter
  <2>3. Matches(Filter(r), facts[m])  BY <1>3, <2>2, ActiveNarrows
  <2>4. found[r].scopes # {}  BY <1>1, ScopesAreNamed
  <2> QED BY <2>1, <2>3, <2>4, PlanFilterIsFilter, ScopesConfine
<1>4. \A h \in some : NamespaceOf(h.payload) \in found[r].scopes
  <2> SUFFICES ASSUME NEW h \in some PROVE NamespaceOf(h.payload) \in found[r].scopes  OBVIOUS
  <2>1. h \in hits  BY <1>2
  <2>2. PICK m \in DOMAIN facts : Matches(f, facts[m]) /\ h = Hit(facts, m)
    <3> HIDE DEF f
    <3> QED BY <2>1
  <2>3. h.payload = facts[m]  BY <2>2 DEF Hit
  <2> QED BY <1>3, <2>2, <2>3
<1> HIDE DEF f, hits
<1> QED BY <1>1, <1>2, <1>4, AnswerConfines

\* A step that replaces the hits of a search.
LEMMA HitsConfined ==
    ASSUME AccessInv, NEW r \in Request, req[r].pc \in SearchPc, FoundMoves(r),
           NEW pc \in SearchPc, Goes(r, pc),
           found'[r].first = found[r].first, found'[r].second = found[r].second,
           found'[r].facts = found[r].facts, found'[r].scopes = found[r].scopes,
           IsSeq(found'[r].hits),
           \A h \in ToSet(found'[r].hits) : NamespaceOf(h.payload) \in found[r].scopes
    PROVE  Moves(r) /\ Confined(req'[r], found'[r])
<1>1. Shapes /\ Confined(req[r], found[r])  BY DEF AccessInv, Searching
<1>2. ~Free(r) /\ pc # "unused"  BY DEF Free, SearchPc
<1>3. Moves(r) /\ req'[r].pc = pc /\ req'[r].held = req[r].held /\ req'[r].tag = req[r].tag
  BY <1>1, <1>2, GoesOn DEF Continues
<1>4. \A h \in Gathered(found'[r]) : NamespaceOf(h.payload) \in found[r].scopes
  BY <1>1 DEF Confined, Gathered
<1> QED BY <1>1, <1>3, <1>4 DEF Confined

LEMMA UnionConfines ==
    ASSUME AccessInv, NEW r \in Request, union(r)
    PROVE  Moves(r) /\ FoundMoves(r) /\ Confined(req'[r], found'[r])
<1>1. req[r].pc \in SearchPc  BY DEF union, At, SearchPc
<1>2. CASE Fails(r)  BY <1>2, FailedIsConfined
<1>3. ASSUME NEW pc \in {"retry", "group"}, Goes(r, pc),
             Finds(r, "hits", Union(found[r].first, found[r].second))
      PROVE  Moves(r) /\ FoundMoves(r) /\ Confined(req'[r], found'[r])
  <2>1. Shapes /\ Confined(req[r], found[r])  BY DEF AccessInv, Searching
  <2>2. "hits" \in DOMAIN NoSearch  BY NothingGathered
  <2>3. /\ FoundMoves(r) /\ \A g \in DOMAIN NoSearch \ {"hits"} : found'[r][g] = found[r][g]
        /\ found'[r]["hits"] = Union(found[r].first, found[r].second)
    BY <1>3, <2>1, <2>2, FindsIt
  <2>4. /\ found'[r].first = found[r].first /\ found'[r].second = found[r].second
        /\ found'[r].facts = found[r].facts /\ found'[r].scopes = found[r].scopes
    BY <2>3, NothingGathered
  <2> DEFINE H == ToSet(found[r].first) \cup ToSet(found[r].second)
  <2>5. found[r].first \in Seq(H) /\ found[r].second \in Seq(H)
    <3>1. \A S, T, s : s \in Seq(S) => s \in Seq(S \cup T) /\ s \in Seq(T \cup S)  OBVIOUS
    <3> QED BY <2>1, <3>1 DEF Confined, IsSeq
  <2>6. found'[r].hits \in Seq(H)
    <3> HIDE DEF H
    <3> QED BY <2>3, <2>5, UnionOfPools
  <2>7. IsSeq(found'[r].hits) /\ ToSet(found'[r].hits) \subseteq H
    <3> PICK s : s = found'[r].hits  OBVIOUS
    <3> HIDE DEF H
    <3>1. s \in Seq(H)  BY <2>6
    <3>2. Len(s) \in Nat /\ s = [i \in 1 .. Len(s) |-> s[i]]  BY <3>1
    <3>3. \A i \in 1 .. Len(s) : s[i] \in ToSet(s)  BY <3>1 DEF ToSet
    <3>4. s \in Seq(ToSet(s))  BY <3>2, <3>3
    <3>5. ToSet(s) \subseteq H  BY <3>1 DEF ToSet
    <3> QED BY <3>4, <3>5 DEF IsSeq
  <2>8. \A h \in H : NamespaceOf(h.payload) \in found[r].scopes
    BY <1>1, <2>1 DEF Confined, Gathered
  <2>9. pc \in SearchPc  BY DEF SearchPc
  <2> HIDE DEF H
  <2> QED BY <1>1, <1>3, <2>3, <2>4, <2>7, <2>8, <2>9, HitsConfined
<1> QED BY <1>2, <1>3 DEF union

LEMMA RetryConfines ==
    ASSUME AccessInv, NEW r \in Request, retry(r)
    PROVE  Moves(r) /\ FoundMoves(r) /\ Confined(req'[r], found'[r])
<1>1. req[r].pc \in SearchPc  BY DEF retry, At, SearchPc
<1>2. CASE Fails(r)  BY <1>2, FailedIsConfined
<1>3. ASSUME NEW pool \in Pools(chunks, scope_filter(NoFilter, found[r].scopes), HitLimit(r)),
             found' = [found EXCEPT ![r].hits = pool, ![r].retried = TRUE], Goes(r, "group")
      PROVE  Moves(r) /\ FoundMoves(r) /\ Confined(req'[r], found'[r])
  <2>1. Shapes  BY DEF AccessInv
  <2>2. /\ DOMAIN found' = Request /\ \A s \in Request \ {r} : found'[s] = found[s]
        /\ found'[r] = [[found[r] EXCEPT !.hits = pool] EXCEPT !.retried = TRUE]
    BY <1>3, <2>1 DEF Shapes
  <2>3. DOMAIN found[r] = DOMAIN NoSearch  BY <2>1 DEF Shapes
  <2>4. /\ found'[r].first = found[r].first /\ found'[r].second = found[r].second
        /\ found'[r].facts = found[r].facts /\ found'[r].scopes = found[r].scopes
        /\ found'[r].hits = pool /\ DOMAIN found'[r] = DOMAIN NoSearch
    BY <2>2, <2>3, NothingGathered
  <2>5. FoundMoves(r)  BY <2>2, <2>4 DEF FoundMoves
  <2>6. IsFiniteSet(DOMAIN chunks)  BY DEF AccessInv, Searching
  <2>7. found[r].scopes # {}  BY <1>1, ScopesAreNamed
  <2>8. IsSeq(pool) /\ \A h \in ToSet(pool) : NamespaceOf(h.payload) \in found[r].scopes
    BY <1>3, <2>6, <2>7, NoFilterIsFilter, PoolConfined
  <2>9. "group" \in SearchPc  BY DEF SearchPc
  <2> QED BY <1>1, <1>3, <2>4, <2>5, <2>8, <2>9, HitsConfined
<1> QED BY <1>2, <1>3 DEF retry

LEMMA RankingConfines ==
    ASSUME AccessInv, NEW r \in Request, group(r) \/ rerank(r) \/ memory_provenance(r)
    PROVE  Moves(r) /\ FoundMoves(r) /\ Confined(req'[r], found'[r])
<1>1. CASE group(r)
  <2>1. req[r].pc = "group" /\ Goes(r, "rerank")
        /\ Finds(r, "candidates", group_chunk_hits(found[r].hits, GroupLimit(r)))
    BY <1>1 DEF group, At
  <2> QED BY <2>1, Passes DEF SearchPc, Free
<1>2. CASE rerank(r)
  <2>1. req[r].pc = "rerank" /\ Goes(r, "provenance") /\ \E v : Finds(r, "documents", v)
    BY <1>2 DEF rerank, At
  <2> QED BY <2>1, Passes DEF SearchPc, Free
<1>3. CASE memory_provenance(r)
  <2>1. req[r].pc = "provenance" /\ Goes(r, "answered") /\ \E v : Finds(r, "provenance", v)
    BY <1>3 DEF memory_provenance, At
  <2> QED BY <2>1, Passes DEF SearchPc, Free
<1> QED BY <1>1, <1>2, <1>3

\* A search has no batch.
LEMMA SearchBatches ==
    ASSUME AccessInv, NEW r \in Request, SearchStep(r)
    PROVE  BatchMove(r)
<1> Shapes  BY DEF AccessInv
<1> USE DEF At
<1>1. SUFFICES req'[r].batch \in {req[r].batch, NoBatch}  BY BatchKept
<1>2. CASE search(r)
  <2>1. PICK new \in Accepted("scopes", "search") : Becomes(r, new)  BY <1>2 DEF search
  <2> QED BY <2>1, AcceptedActsAs, BecomesIt
<1>3. CASE Fails(r)  BY <1>3, EndsIt DEF Fails
<1>4. ASSUME NEW pc \in SearchPc, Goes(r, pc), req[r].pc \in SearchPc  PROVE req'[r].batch = req[r].batch
  <2>1. ~Free(r) /\ pc # "unused"  BY <1>4 DEF Free, SearchPc
  <2> QED BY <1>4, <2>1, GoesOn
<1>5. CASE visible_scopes_for(r)
  <2>1. PICK held : req' = [req EXCEPT ![r].held = held, ![r].pc = "embed"]  BY <1>5 DEF visible_scopes_for
  <2> QED BY <2>1 DEF Shapes, NoRequest
<1>6. CASE embed_query(r)
  <2>1. CASE req' = [req EXCEPT ![r].at = now, ![r].pc = "search"]  BY <2>1 DEF Shapes, NoRequest
  <2> QED BY <1>3, <1>6, <2>1 DEF embed_query
<1>7. CASE req' = req  BY <1>7
<1>8. CASE search_facts(r) \/ \E query \in {"first", "second"} : search_chunks(r, query)
  BY <1>7, <1>8, Zenon DEF search_facts, search_chunks, Answers
<1>9. CASE union(r)
  <2>1. CASE Fails(r)  BY <1>3, <2>1
  <2>2. req[r].pc \in SearchPc  BY <1>9 DEF union, SearchPc
  <2>3. CASE \E pc \in {"retry", "group"} : Goes(r, pc)  BY <1>4, <2>2, <2>3 DEF SearchPc
  <2> QED BY <1>9, <2>1, <2>3 DEF union
<1>10. CASE retry(r)
  <2>1. req[r].pc \in SearchPc /\ "group" \in SearchPc  BY <1>10 DEF retry, SearchPc
  <2>2. Fails(r) \/ Goes(r, "group")  BY <1>10 DEF retry
  <2> QED BY <1>3, <1>4, <2>1, <2>2
<1>11. CASE group(r) \/ rerank(r) \/ memory_provenance(r)
  <2>1. req[r].pc \in SearchPc /\ {"rerank", "provenance", "answered"} \subseteq SearchPc
    BY <1>11 DEF group, rerank, memory_provenance, SearchPc
  <2>2. \E pc \in {"rerank", "provenance", "answered"} : Goes(r, pc)
    BY <1>11 DEF group, rerank, memory_provenance
  <2> QED BY <1>4, <2>1, <2>2
<1> QED BY <1>2, <1>5, <1>6, <1>8, <1>9, <1>10, <1>11 DEF SearchStep

\* What a step of a search does to its own request and find.
LEMMA SearchMoves ==
    ASSUME AccessInv, NEW r \in Request, SearchStep(r)
    PROVE  Moves(r) /\ FoundMoves(r) /\ Confined(req'[r], found'[r]) /\ UNCHANGED storeVars
<1>1. UNCHANGED storeVars
  <2>1. search(r) \/ visible_scopes_for(r) \/ embed_query(r) => UNCHANGED storeVars
    BY Zenon DEF search, visible_scopes_for, embed_query
  <2>2. ASSUME NEW query, NEW field, NEW value, Answers(r, query, field, value)  PROVE UNCHANGED storeVars
    BY <2>2, Zenon DEF Answers
  <2>3. search_facts(r) \/ (\E query \in {"first", "second"} : search_chunks(r, query)) => UNCHANGED storeVars
    BY <2>2, Zenon DEF search_facts, search_chunks
  <2>4. union(r) \/ retry(r) \/ group(r) \/ rerank(r) \/ memory_provenance(r) => UNCHANGED storeVars
    BY Zenon DEF union, retry, group, rerank, memory_provenance
  <2> QED BY <2>1, <2>3, <2>4 DEF SearchStep
<1> QED BY <1>1, SearchBegins, LookingConfines, EmbeddingConfines, ChunkSearchConfines,
           FactSearchConfines, UnionConfines, RetryConfines, RankingConfines DEF SearchStep

-----------------------------------------------------------------------------
(* The invariant is inductive.                                             *)

\* A grant is given, and listed, by someone who acts as its scope.
LEMMA GrantsStayGranted ==
    ASSUME Granted, NEW r \in Request, ServiceStep(r)
    PROVE  Granted'
<1>1. CASE UNCHANGED acl  BY <1>1 DEF Granted
<1>2. CASE acl_grant(r)
  <2>1. PICK policy \in Contexts : \E p, s, c :
          can_admin_scope(policy, s) /\ acl' = grant_acl(Entry(p, s, c), policy)
    BY <1>2 DEF acl_grant
  <2>2. PICK p, s, c : can_admin_scope(policy, s) /\ acl' = grant_acl(Entry(p, s, c), policy)  BY <2>1
  <2>3. ActsAs(policy, s)  BY <2>2, AdminActsAs
  <2>4. Entry(p, s, c).scope = s  BY DEF Entry
  <2>5. PICK e : e = Entry(p, s, c)  OBVIOUS
  <2>6. acl' = acl \/ acl' = With(acl, e, policy)  BY <2>2, <2>5 DEF grant_acl
  <2> QED BY <2>3, <2>4, <2>5, <2>6 DEF Granted, With
<1>3. CASE acl_revoke(r)
  <2>1. PICK e : acl' = Without(acl, {e})  BY <1>3 DEF acl_revoke, revoke_acl
  <2> QED BY <2>1 DEF Granted, Without
<1> QED BY <1>1, <1>2, <1>3, Writers

LEMMA ListedEntry ==
    ASSUME NEW p, NEW s, NEW c, NEW by, NEW e,
           e = [principal |-> p, scope |-> s, capability |-> c, by |-> by]
    PROVE  e.principal = p /\ e.scope = s /\ e.by = by
OBVIOUS

LEMMA ListedGrants ==
    ASSUME Granted, NEW p, NEW e \in acls_for_principal(p)
    PROVE  e.principal = p /\ ActsAs(e.by, e.scope)
<1>1. PICK g \in DOMAIN acl : e = [principal |-> p, scope |-> g.scope, capability |-> g.capability, by |-> acl[g]]
  BY DEF acls_for_principal
<1>2. e.principal = p /\ e.scope = g.scope /\ e.by = acl[g]  BY <1>1, ListedEntry, Zenon
<1> QED BY <1>2 DEF Granted

LEMMA BatchStaysFinite ==
    ASSUME AccessInv, NEW r \in Request, Moves(r), BatchMove(r)
    PROVE  \A s \in Request : IsFiniteSet(DOMAIN req'[s].batch.chunks)
<1>1. PICK was, is : was = DOMAIN req[r].batch.chunks /\ is = DOMAIN req'[r].batch.chunks  OBVIOUS
<1>2. IsFiniteSet(was) /\ IsFiniteSet(DOMAIN chunks) /\ IsFiniteSet(DOMAIN chunkRows)
  BY <1>1 DEF AccessInv, Searching, Filing
<1>3. is \subseteq was \cup (DOMAIN chunks \cup DOMAIN chunkRows)
  BY <1>1 DEF BatchMove, PointsOf
<1>4. IsFiniteSet(was \cup (DOMAIN chunks \cup DOMAIN chunkRows))  BY <1>2, FS_Union
<1>5. IsFiniteSet(is)  BY <1>3, <1>4, FS_Subset
<1> QED BY <1>1, <1>5 DEF Moves, AccessInv, Filing

\* The chunks, and the rows of chunks, stay finitely many.
LEMMA ChunksStayFinite ==
    ASSUME AccessInv, NEW r \in Request, ServiceStep(r)
    PROVE  IsFiniteSet(DOMAIN chunks') /\ IsFiniteSet(DOMAIN chunkRows')
<1>1. PICK batch : batch = req[r].batch.chunks  OBVIOUS
<1>2. IsFiniteSet(DOMAIN chunks) /\ IsFiniteSet(DOMAIN chunkRows) /\ IsFiniteSet(DOMAIN batch)
  BY <1>1 DEF AccessInv, Searching, Filing
<1>3. IsFiniteSet(DOMAIN chunks')
  <2>1. CASE chunks' = chunks  BY <1>2, <2>1
  <2>2. CASE add_memory(r)
    <3>1. PICK v : chunks' = With(chunks, r, v)  BY <2>2 DEF add_memory
    <3>2. DOMAIN chunks' = DOMAIN chunks \cup {r}  BY <3>1 DEF With
    <3> QED BY <1>2, <3>2, FS_AddElement
  <2>3. CASE delete_memory(r)
    <3>1. PICK S : chunks' = Without(chunks, S)  BY <2>3 DEF delete_memory
    <3>2. DOMAIN chunks' \subseteq DOMAIN chunks  BY <3>1 DEF Without
    <3> QED BY <1>2, <3>2, FS_Subset
  <2>4. CASE claim_chunks(r)
    <3>1. DOMAIN chunks' = DOMAIN chunks  BY <2>4 DEF claim_chunks, set_payload_by_filter
    <3> QED BY <1>2, <3>1
  <2>5. CASE rebuild_chunks(r)
    <3>1. PICK points, some : DOMAIN points = DOMAIN batch /\ chunks' = Upserted(chunks, Part(points, some))
      BY <1>1, <2>5 DEF rebuild_chunks
    <3>2. PICK new : new = Part(points, some)  OBVIOUS
    <3>3. DOMAIN new = some \cap DOMAIN points  BY <3>2, PartIs
    <3>4. DOMAIN chunks' = DOMAIN chunks \cup DOMAIN new  BY <3>1, <3>2, UpsertedIs
    <3>5. DOMAIN chunks' \subseteq DOMAIN chunks \cup DOMAIN batch  BY <3>1, <3>3, <3>4
    <3> QED BY <1>2, <3>5, FS_Union, FS_Subset
  <2> QED BY <2>1, <2>2, <2>3, <2>4, <2>5, Writers
<1>4. IsFiniteSet(DOMAIN chunkRows')
  <2>1. CASE chunkRows' = chunkRows  BY <1>2, <2>1
  <2>2. CASE mirror(r)
    <3>1. CASE chunkRows' = chunkRows  BY <1>2, <3>1
    <3>2. CASE chunkRows' = Inserted(chunkRows, Single(r, req[r].what))
      <4>1. PICK new : new = Single(r, req[r].what)  OBVIOUS
      <4>2. DOMAIN new = {r}  BY <4>1, SingleIs
      <4>3. DOMAIN chunkRows' = DOMAIN chunkRows \cup {r}  BY <3>2, <4>1, <4>2, InsertedIs
      <4> QED BY <1>2, <4>3, FS_AddElement
    <3> QED BY <2>2, <3>1, <3>2 DEF mirror, registry
  <2>3. CASE insert_chunks(r)
    <3>1. PICK some : chunkRows' = Inserted(chunkRows, Part(batch, some))
      BY <1>1, <2>3 DEF insert_chunks
    <3>2. PICK new : new = Part(batch, some)  OBVIOUS
    <3>3. DOMAIN new = some \cap DOMAIN batch  BY <3>2, PartIs
    <3>4. DOMAIN chunkRows' = DOMAIN chunkRows \cup DOMAIN new  BY <3>1, <3>2, InsertedIs
    <3>5. DOMAIN chunkRows' \subseteq DOMAIN chunkRows \cup DOMAIN batch  BY <3>3, <3>4
    <3> QED BY <1>2, <3>5, FS_Union, FS_Subset
  <2> QED BY <2>1, <2>2, <2>3, Writers
<1> QED BY <1>3, <1>4

LEMMA MovesKeepHolding ==
    ASSUME Shapes, Acting, Holding, Granted, NEW r \in Request, Moves(r)
    PROVE  /\ Acting' /\ Holding'
           /\ \A s \in Request : DOMAIN req'[s] = DOMAIN NoRequest /\ DOMAIN req'[s].batch = DOMAIN NoBatch
<1>1. \A s \in Request \ {r} : req'[s] = req[s]  BY DEF Moves
<1>2. CASE Begins(r)
  <2>1. \A e \in req'[r].held : e.principal = req'[r].tag /\ ActsAs(e.by, e.scope)
    BY <1>2, ListedGrants DEF Begins
  <2> QED BY <1>1, <1>2, <2>1 DEF Moves, Begins, Acting, Holding, Shapes
<1>3. CASE Continues(r)
  <2>1. \A e \in req'[r].held : e.principal = req'[r].tag /\ ActsAs(e.by, e.scope)
    BY <1>3, ListedGrants DEF Continues, Holding
  <2> QED BY <1>1, <1>3, <2>1 DEF Moves, Continues, Acting, Holding, Shapes
<1>4. CASE Ended(r)
  <2>1. req'[r].held = {} /\ ActsAs(req'[r].policy, req'[r].tag)
    BY <1>4 DEF Ended, NoRequest, AnyTag, ActsAs
  <2> QED BY <1>1, <2>1 DEF Moves, Acting, Holding, Shapes
<1> QED BY <1>2, <1>3, <1>4 DEF Moves

LEMMA AccessStep ==
    ASSUME AccessInv, [Next]_vars
    PROVE  AccessInv'
<1>1. ASSUME NEW r \in Request, ServiceStep(r), UNCHANGED <<now, found>>
      PROVE  AccessInv'
  <2>1. Moves(r) /\ Serves(r) /\ BatchMove(r)  BY <1>1, ServiceMoves DEF AccessInv
  <2>2. Acting' /\ Holding' /\ \A s \in Request : DOMAIN req'[s] = DOMAIN NoRequest /\ DOMAIN req'[s].batch = DOMAIN NoBatch
    BY <2>1, MovesKeepHolding DEF AccessInv
  <2>3. Granted'  BY <1>1, GrantsStayGranted DEF AccessInv
  <2>4. IsFiniteSet(DOMAIN chunks') /\ IsFiniteSet(DOMAIN chunkRows')  BY <1>1, ChunksStayFinite
  <2>5. \A s \in Request : Confined(req'[s], found'[s])
    <3>1. \A s \in Request : Confined(req[s], found[s]) /\ found'[s] = found[s]
      BY <1>1 DEF AccessInv, Searching
    <3>2. Confined(req'[r], found'[r])  BY <2>1, <3>1 DEF Serves, Confined
    <3> QED BY <2>1, <3>1, <3>2 DEF Moves
  <2>6. Shapes'  BY <1>1, <2>1, <2>2 DEF AccessInv, Shapes, Moves
  <2>7. Filing'  BY <2>1, <2>4, BatchStaysFinite DEF Filing
  <2> QED BY <2>2, <2>3, <2>4, <2>5, <2>6, <2>7 DEF AccessInv, Searching
<1>2. ASSUME NEW r \in Request, SearchStep(r)
      PROVE  AccessInv'
  <2>1. Moves(r) /\ FoundMoves(r) /\ Confined(req'[r], found'[r]) /\ UNCHANGED storeVars
    BY <1>2, SearchMoves
  <2>0. BatchMove(r)  BY <1>2, SearchBatches
  <2>2. Acting' /\ Holding' /\ \A s \in Request : DOMAIN req'[s] = DOMAIN NoRequest /\ DOMAIN req'[s].batch = DOMAIN NoBatch
    BY <2>1, MovesKeepHolding DEF AccessInv
  <2>3. acl' = acl /\ chunks' = chunks /\ chunkRows' = chunkRows  BY <2>1 DEF storeVars, registry
  <2>4. Granted'  BY <2>3 DEF AccessInv, Granted
  <2>5. \A s \in Request : Confined(req'[s], found'[s])
    BY <2>1 DEF AccessInv, Searching, Moves, FoundMoves
  <2>6. Searching'  BY <2>3, <2>5 DEF AccessInv, Searching
  <2>7. Shapes'  BY <2>1, <2>2 DEF AccessInv, Shapes, Moves, FoundMoves
  <2>8. Filing'  BY <2>0, <2>1, <2>3, BatchStaysFinite DEF AccessInv, Filing
  <2> QED BY <2>2, <2>4, <2>6, <2>7, <2>8 DEF AccessInv
<1>3. ASSUME UNCHANGED <<storeVars, req, found>>
      PROVE  AccessInv'
  BY <1>3 DEF AccessInv, Shapes, Acting, Holding, Granted, Searching, Filing, storeVars, registry
<1> QED BY <1>1, <1>2, <1>3 DEF Next, Step, Tick, vars, serviceVars

THEOREM AccessInvHolds == Spec => []AccessInv
<1> QED BY AccessInit, AccessStep, PTL DEF Spec

\* "The search can never surface another tenant's data" (mod.rs:1848).
THEOREM SearchesStayInScope == Spec => []AnswersStayInVisibleScopes
<1>1. ASSUME AccessInv PROVE AnswersStayInVisibleScopes
  <2>1. ASSUME NEW r \in Request, NEW h \in ToSet(found[r].hits) \cup found[r].facts
        PROVE  /\ ActsAs(req[r].policy, req[r].tag)
               /\ \/ NamespaceOf(h.payload) = req[r].tag
                  \/ \E e \in req[r].held : e.scope = NamespaceOf(h.payload)
                                            /\ ActsAs(e.by, NamespaceOf(h.payload))
    <3>1. Confined(req[r], found[r])  BY <1>1 DEF AccessInv, Searching
    <3>2. h \in Gathered(found[r])  BY DEF Gathered
    <3>3. NamespaceOf(h.payload) \in visible_scopes(req[r].tag, req[r].held)
      BY <3>1, <3>2 DEF Confined
    <3> QED BY <1>1, <3>3, VisibleScopes DEF AccessInv, Acting, Holding
  <2>2. ASSUME NEW t
        PROVE  {NamespaceOf(chunks[c]) : c \in PointsOf(chunks, t)}
                 \cup {NamespaceOf(facts[m]) : m \in PointsOf(facts, t)} \subseteq {t}
    BY NamespacePoints
  <2> QED BY <2>1, <2>2 DEF AnswersStayInVisibleScopes
<1> QED BY <1>1, AccessInvHolds, PTL

-----------------------------------------------------------------------------
(* What a step does to the rows of memories.                               *)

Columns == {"container_tag", "statement", "document_id", "learned_at", "is_latest", "needs_review",
            "superseded_at", "extends", "valid_until"}

LEMMA RowIs ==
    ASSUME NEW tag, NEW said, NEW doc, NEW at, NEW row, row = RowOf(tag, said, doc, at)
    PROVE  /\ DOMAIN row = Columns /\ row.container_tag = tag /\ row.document_id = doc
           /\ row.learned_at = at /\ row.extends = Absent
BY DEF RowOf, Columns

LEMMA BackfilledIs ==
    ASSUME NEW tag, NEW p, NEW at, NEW row, row = BackfilledRow(tag, p, at)
    PROVE  /\ DOMAIN row = Columns /\ row.container_tag = tag /\ row.document_id = p.doc_id
           /\ row.extends = Get(p, "extends", Absent)
<1>1. PICK b : b = RowOf(tag, p.fact, p.doc_id, Get(p, "captured_at", at))  OBVIOUS
<1>2. DOMAIN b = Columns /\ b.container_tag = tag /\ b.document_id = p.doc_id  BY <1>1, RowIs
<1>3. PICK latest, review, ext, until : ext = Get(p, "extends", Absent)
        /\ row = [b EXCEPT !.is_latest = latest, !.needs_review = review, !.extends = ext, !.valid_until = until]
  BY <1>1 DEF BackfilledRow
<1> QED BY <1>2, <1>3 DEF Columns

\* A row stays, is marked superseded, or is put in by an ingest, a backfill or a
\* promotion where there was none.
Marked(r, m) ==
    /\ req[r].pc = "mark" /\ m = req[r].onto /\ m \in DOMAIN rows
    /\ DOMAIN rows'[m] = DOMAIN rows[m]
    /\ "superseded_at" \in DOMAIN rows[m] => rows'[m].superseded_at = req[r].at
    /\ \A f \in DOMAIN rows[m] \ {"superseded_at", "is_latest"} : rows'[m][f] = rows[m][f]
Learned(r, m) ==
    /\ req[r].pc = "insert" /\ m = r /\ DOMAIN rows'[m] = Columns
    /\ rows'[m].container_tag = req[r].tag /\ rows'[m].document_id = req[r].what
    /\ rows'[m].learned_at = req[r].at /\ rows'[m].extends = Absent
Shared(r, m) ==
    /\ req[r].pc = "insert_copy" /\ m = r /\ DOMAIN rows'[m] = Columns
    /\ rows'[m].container_tag = req[r].onto /\ rows'[m].document_id = req[r].row.document_id
    /\ rows'[m].learned_at = req[r].at /\ rows'[m].extends = req[r].what
Filed(r, m) ==
    /\ req[r].pc = "insert_memories" /\ Ends(r)
    /\ m \in DOMAIN req[r].batch.facts /\ rows'[m] = req[r].batch.facts[m]

RowsMove(r) == \A m \in DOMAIN rows' :
    \/ m \in DOMAIN rows /\ (rows'[m] = rows[m] \/ Marked(r, m))
    \/ m \notin DOMAIN rows /\ (Learned(r, m) \/ Shared(r, m) \/ Filed(r, m))

LEMMA SingleInserted ==
    ASSUME NEW k, NEW v, rows' = Inserted(rows, Single(k, v))
    PROVE  /\ \A m \in DOMAIN rows' : m \in DOMAIN rows \/ m = k
           /\ \A m \in DOMAIN rows : rows'[m] = rows[m]
           /\ k \notin DOMAIN rows => rows'[k] = v
<1>1. PICK new : new = Single(k, v)  OBVIOUS
<1>2. DOMAIN new = {k} /\ new[k] = v  BY <1>1, SingleIs
<1>3. rows' = Inserted(rows, new)  BY <1>1
<1>4. /\ DOMAIN rows' = DOMAIN rows \cup DOMAIN new /\ \A i \in DOMAIN rows : rows'[i] = rows[i]
      /\ \A i \in DOMAIN new \ DOMAIN rows : rows'[i] = new[i]
  BY <1>3 DEF Inserted, Merged
<1> QED BY <1>2, <1>4

LEMMA RowsStep ==
    ASSUME NEW r \in Request, ServiceStep(r)
    PROVE  RowsMove(r)
<1>1. CASE rows' = rows  BY <1>1 DEF RowsMove
<1>2. CASE insert_memory(r)
  <2>1. req[r].pc = "insert"  BY <1>2 DEF insert_memory, At
  <2>2. CASE rows' = Inserted(rows, Single(r, RowOf(req[r].tag, r, req[r].what, req[r].at)))
    <3>1. PICK v : v = RowOf(req[r].tag, r, req[r].what, req[r].at)  OBVIOUS
    <3>2. /\ DOMAIN v = Columns /\ v.container_tag = req[r].tag /\ v.document_id = req[r].what
          /\ v.learned_at = req[r].at /\ v.extends = Absent
      BY <3>1, RowIs
    <3>3. rows' = Inserted(rows, Single(r, v))  BY <2>2, <3>1
    <3>4. /\ \A m \in DOMAIN rows' : m \in DOMAIN rows \/ m = r
          /\ \A m \in DOMAIN rows : rows'[m] = rows[m]
          /\ r \notin DOMAIN rows => rows'[r] = v
      BY <3>3, SingleInserted
    <3> QED BY <2>1, <3>2, <3>4 DEF RowsMove, Learned
  <2> QED BY <1>1, <1>2, <2>2 DEF insert_memory
<1>3. CASE mark_superseded(r)
  <2>1. req[r].pc = "mark"  BY <1>3 DEF mark_superseded, At
  <2>2. PICK old, at : old = req[r].onto /\ at = req[r].at  OBVIOUS
  <2>3. CASE old \in DOMAIN rows /\ rows' = [rows EXCEPT ![old].is_latest = FALSE, ![old].superseded_at = at]
    <3>1. PICK v : v = [[rows[old] EXCEPT !.is_latest = FALSE] EXCEPT !.superseded_at = at]  OBVIOUS
    <3>2. rows' = [rows EXCEPT ![old] = v]  BY <2>3, <3>1
    <3>3. DOMAIN rows' = DOMAIN rows /\ rows'[old] = v /\ \A m \in DOMAIN rows : m # old => rows'[m] = rows[m]
      BY <2>3, <3>2
    <3>4. /\ DOMAIN v = DOMAIN rows[old] /\ ("superseded_at" \in DOMAIN rows[old] => v.superseded_at = at)
          /\ \A f \in DOMAIN rows[old] \ {"superseded_at", "is_latest"} : v[f] = rows[old][f]
      BY <3>1
    <3> QED BY <2>1, <2>2, <2>3, <3>3, <3>4 DEF RowsMove, Marked
  <2> QED BY <1>1, <1>3, <2>2, <2>3 DEF mark_superseded
<1>4. CASE delete_row(r)
  <2>1. PICK S : rows' = rows \/ rows' = Without(rows, S)  BY <1>4 DEF delete_row
  <2>2. \A m \in DOMAIN rows' : m \in DOMAIN rows /\ rows'[m] = rows[m]  BY <2>1 DEF Without
  <2> QED BY <2>2 DEF RowsMove
<1>5. CASE insert_memories(r)
  <2>1. req[r].pc = "insert_memories" /\ Ends(r)  BY <1>5 DEF insert_memories, At
  <2>2. PICK batch, some : batch = req[r].batch.facts /\ rows' = Inserted(rows, Part(batch, some))
    BY <1>5 DEF insert_memories
  <2>3. PICK new : new = Part(batch, some)  OBVIOUS
  <2>4. DOMAIN new = some \cap DOMAIN batch /\ \A m \in DOMAIN new : new[m] = batch[m]  BY <2>3, PartIs
  <2>5. /\ DOMAIN rows' = DOMAIN rows \cup DOMAIN new /\ \A m \in DOMAIN rows : rows'[m] = rows[m]
        /\ \A m \in DOMAIN new \ DOMAIN rows : rows'[m] = new[m]
    BY <2>2, <2>3 DEF Inserted, Merged
  <2> QED BY <2>1, <2>2, <2>4, <2>5 DEF RowsMove, Filed
<1>6. CASE insert_copy(r)
  <2>1. req[r].pc = "insert_copy"  BY <1>6 DEF insert_copy, At
  <2>2. PICK src : src = req[r].row  OBVIOUS
  <2>3. PICK v : v = [RowOf(req[r].onto, src.statement, src.document_id, req[r].at)
                        EXCEPT !.extends = req[r].what, !.valid_until = src.valid_until]
    OBVIOUS
  <2>4. /\ DOMAIN v = Columns /\ v.container_tag = req[r].onto /\ v.document_id = src.document_id
        /\ v.learned_at = req[r].at /\ v.extends = req[r].what
    <3>1. PICK said, doc, at, until, to, ext, b :
            /\ said = src.statement /\ doc = src.document_id /\ at = req[r].at /\ until = src.valid_until
            /\ to = req[r].onto /\ ext = req[r].what /\ b = RowOf(to, said, doc, at)
      OBVIOUS
    <3>2. v = [b EXCEPT !.extends = ext, !.valid_until = until]  BY <2>3, <3>1
    <3>3. DOMAIN b = Columns /\ b.container_tag = to /\ b.document_id = doc /\ b.learned_at = at
      BY <3>1, RowIs
    <3> QED BY <3>1, <3>2, <3>3 DEF Columns
  <2>5. CASE rows' = Inserted(rows, Single(r, v))
    <3>1. /\ \A m \in DOMAIN rows' : m \in DOMAIN rows \/ m = r
          /\ \A m \in DOMAIN rows : rows'[m] = rows[m]
          /\ r \notin DOMAIN rows => rows'[r] = v
      BY <2>5, SingleInserted
    <3> QED BY <2>1, <2>2, <2>4, <3>1 DEF RowsMove, Shared
  <2> QED BY <1>1, <1>6, <2>2, <2>3, <2>5 DEF insert_copy
<1> QED BY <1>1, <1>2, <1>3, <1>4, <1>5, <1>6, Writers

-----------------------------------------------------------------------------
(* The invariant behind HistoryIsSettled.                                  *)

\* A request that dates what it writes has read the clock, and rows have their
\* columns, those a request holds in its batch as well.
Dated ==
    /\ now \in Int /\ \A r \in Request : req[r].pc \in Dating => req[r].at \in Int
    /\ \A m \in DOMAIN rows : DOMAIN rows[m] = Columns
    /\ \A r \in Request : \A m \in DOMAIN req[r].batch.facts : DOMAIN req[r].batch.facts[m] = Columns

DatesMove(r) ==
    req'[r].pc \in Dating => req'[r].at = now \/ (req[r].pc \in Dating /\ req'[r].at = req[r].at)

LEMMA ServiceDates ==
    ASSUME Shapes, NEW r \in Request, ServiceStep(r)
    PROVE  DatesMove(r)
<1> USE DEF At
<1>1. Moves(r) /\ Serves(r)  BY ServiceMoves
<1>2. CASE Free(r)  BY <1>1, <1>2 DEF Serves, DatesMove
<1>3. CASE Ends(r)  BY <1>3, EndsIt DEF Dating, DatesMove
<1>4. ASSUME NEW pc, Goes(r, pc), req[r].pc # "unused", pc # "unused", pc \in Dating => req[r].pc \in Dating
      PROVE  DatesMove(r)
  <2>1. ~Free(r)  BY <1>4 DEF Free
  <2>2. req'[r].pc = pc /\ req'[r].at = req[r].at  BY <1>4, <2>1, GoesOn
  <2> QED BY <1>4, <2>2 DEF DatesMove
<1>5. CASE reconcile(r)
  <2>1. PICK old : req' = [req EXCEPT ![r].onto = old, ![r].at = now, ![r].pc = "store"]
    BY <1>5 DEF reconcile
  <2>2. req'[r].at = now  BY <2>1 DEF Shapes, NoRequest
  <2> QED BY <2>2 DEF DatesMove
<1>6. CASE get_memory(r)
  <2>1. CASE req' = [req EXCEPT ![r].row = rows[req[r].what], ![r].at = now, ![r].pc = "copy"]
    <3>1. req'[r].at = now  BY <2>1 DEF Shapes, NoRequest
    <3> QED BY <3>1 DEF DatesMove
  <2> QED BY <1>3, <1>6, <2>1 DEF get_memory
<1>7. CASE redistill_doc(r)
  <2>1. ASSUME NEW d, req' = [req EXCEPT ![r].what = d, ![r].pc = "reconcile"]  PROVE DatesMove(r)
    <3>1. req'[r].pc = "reconcile"  BY <2>1 DEF Shapes, NoRequest
    <3> QED BY <3>1 DEF DatesMove, Dating
  <2> QED BY <1>3, <1>7, <2>1 DEF redistill_doc
<1>8. CASE Gleaning(r)
  <2>1. Gleans(r)  BY <1>8, GleaningGleans
  <2> QED BY <1>3, <2>1 DEF Gleans, NextReadingPc, Dating, DatesMove
<1>9. ASSUME Finishes(r), req[r].pc # "unused"  PROVE DatesMove(r)
  BY <1>3, <1>4, <1>9 DEF Finishes, Dating
<1>10. CASE index_memories(r)
  BY <1>4, <1>9, <1>10 DEF index_memories, Dating
<1>11. CASE insert_memory(r) \/ mark_superseded(r)
  BY <1>4, <1>9, <1>11 DEF insert_memory, mark_superseded, Dating
<1>12. CASE upsert_copy(r) \/ insert_copy(r) \/ audit(r)
  BY <1>3, <1>4, <1>12 DEF upsert_copy, insert_copy, audit, Dating
<1>13. CASE mirror(r)  BY <1>4, <1>13 DEF mirror, Dating
<1>14. CASE erase_vector(r) \/ delete_row(r)  BY <1>3, <1>4, <1>14 DEF erase_vector, delete_row, Dating
<1>15. CASE claim_chunks(r) \/ claim_facts(r) \/ backfill_facts_latest(r)
  BY <1>3, <1>4, <1>15 DEF claim_chunks, claim_facts, backfill_facts_latest, Dating
<1>16. CASE insert_documents(r)  BY <1>3, <1>4, <1>16 DEF insert_documents, Dating
<1>17. CASE insert_chunks(r)  BY <1>3, <1>4, <1>17 DEF insert_chunks, Dating
<1>18. CASE rebuild_chunks(r)  BY <1>3, <1>4, <1>18 DEF rebuild_chunks, Dating
<1>19. CASE insert_memories(r) \/ rebuild_facts(r)  BY <1>3, <1>19 DEF insert_memories, rebuild_facts
<1>20. CASE add_memory(r) \/ delete_memory(r) \/ forget_fact(r) \/ reindex(r) \/ acl_grant(r) \/ acl_revoke(r)
            \/ promote_memory(r) \/ alias_add(r)
  <2>1. Free(r)
    BY <1>20, Zenon DEF add_memory, delete_memory, forget_fact, reindex, acl_grant, acl_revoke, promote_memory, alias_add
  <2> QED BY <1>2, <2>1
<1> QED BY <1>5, <1>6, <1>7, <1>8, <1>10, <1>11, <1>12, <1>13, <1>14, <1>15, <1>16, <1>17, <1>18, <1>19,
           <1>20 DEF ServiceStep, Gleaning

LEMMA DatedInit == ASSUME Init PROVE Dated
<1> USE DEF Init, ServiceInit
<1>1. NoRequest.pc \notin Dating /\ DOMAIN NoRequest.batch.facts = {}
  BY NothingBatched DEF NoRequest, Dating
<1>2. \A m \in DOMAIN rows : DOMAIN rows[m] = Columns  BY StoresAssumption DEF RowOf, Columns
<1> QED BY <1>1, <1>2 DEF Dated

\* The rows that a request holds in its batch have their columns.
LEMMA BatchDated ==
    ASSUME Dated, NEW r \in Request, Moves(r), BatchMove(r)
    PROVE  \A s \in Request : \A m \in DOMAIN req'[s].batch.facts : DOMAIN req'[s].batch.facts[m] = Columns
<1>1. ASSUME NEW m \in DOMAIN req'[r].batch.facts  PROVE DOMAIN req'[r].batch.facts[m] = Columns
  <2>1. PICK v : v = req'[r].batch.facts[m]  OBVIOUS
  <2>2. CASE m \in DOMAIN req[r].batch.facts /\ v = req[r].batch.facts[m]  BY <2>1, <2>2 DEF Dated
  <2>3. CASE v = BackfilledRow(req[r].tag, facts[m], req[r].at)  BY <2>1, <2>3, BackfilledIs
  <2>4. CASE m \in RowsOf(req[r].tag) /\ v = rows[m]  BY <2>1, <2>4 DEF Dated, RowsOf
  <2> QED BY <1>1, <2>1, <2>2, <2>3, <2>4 DEF BatchMove
<1> QED BY <1>1 DEF Moves, Dated

LEMMA SearchDates ==
    ASSUME AccessInv, NEW r \in Request, SearchStep(r)
    PROVE  req'[r].pc \notin Dating
<1> Shapes  BY DEF AccessInv
<1> USE DEF At
<1>1. CASE search(r)
  <2>1. PICK new \in Accepted("scopes", "search") : Becomes(r, new)  BY <1>1 DEF search
  <2> QED BY <2>1, AcceptedActsAs, BecomesIt DEF Dating
<1>2. CASE Fails(r)  BY <1>2, EndsIt DEF Fails, Dating
<1>3. ASSUME NEW pc \in SearchPc, Goes(r, pc)  PROVE req'[r].pc \notin Dating
  BY <1>3 DEF Goes, Shapes, NoRequest, SearchPc, Dating
<1>4. CASE visible_scopes_for(r)
  <2>1. PICK held : req' = [req EXCEPT ![r].held = held, ![r].pc = "embed"]  BY <1>4 DEF visible_scopes_for
  <2> QED BY <2>1 DEF Shapes, NoRequest, Dating
<1>5. CASE embed_query(r)
  <2>1. CASE req' = [req EXCEPT ![r].at = now, ![r].pc = "search"]  BY <2>1 DEF Shapes, NoRequest, Dating
  <2> QED BY <1>2, <1>5, <2>1 DEF embed_query
<1>6. CASE search_facts(r) \/ \E query \in {"first", "second"} : search_chunks(r, query)
  <2>1. req[r].pc = "search"  BY <1>6 DEF search_facts, search_chunks
  <2>2. req' = req  BY <1>6, Zenon DEF search_facts, search_chunks, Answers
  <2> QED BY <2>1, <2>2 DEF Dating
<1>7. CASE union(r)
  <2>1. CASE \E pc \in {"retry", "group"} : Goes(r, pc)  BY <1>3, <2>1 DEF SearchPc
  <2> QED BY <1>2, <1>7, <2>1 DEF union
<1>8. CASE retry(r)
  <2>1. Fails(r) \/ Goes(r, "group")  BY <1>8 DEF retry
  <2> QED BY <1>2, <1>3, <2>1 DEF SearchPc
<1>9. CASE group(r) \/ rerank(r) \/ memory_provenance(r)
  <2>1. \E pc \in {"rerank", "provenance", "answered"} : Goes(r, pc)
    BY <1>9 DEF group, rerank, memory_provenance
  <2> QED BY <1>3, <2>1 DEF SearchPc
<1> QED BY <1>1, <1>4, <1>5, <1>6, <1>7, <1>8, <1>9 DEF SearchStep

LEMMA DatedStep ==
    ASSUME AccessInv, Dated, [Next]_vars
    PROVE  Dated'
<1>1. ASSUME NEW r \in Request, ServiceStep(r), UNCHANGED <<now, found>>
      PROVE  Dated'
  <2>1. Shapes  BY DEF AccessInv
  <2>2. Moves(r) /\ BatchMove(r) /\ DatesMove(r) /\ RowsMove(r)
    BY <1>1, <2>1, ServiceMoves, ServiceDates, RowsStep
  <2>3. \A s \in Request : req'[s].pc \in Dating => req'[s].at \in Int
    BY <2>2 DEF Moves, DatesMove, Dated
  <2>4. \A m \in DOMAIN rows' : DOMAIN rows'[m] = Columns
    BY <2>2 DEF RowsMove, Marked, Learned, Shared, Filed, Dated
  <2> QED BY <1>1, <2>2, <2>3, <2>4, BatchDated DEF Dated
<1>2. ASSUME NEW r \in Request, SearchStep(r), UNCHANGED now
      PROVE  Dated'
  <2>1. Moves(r) /\ BatchMove(r) /\ UNCHANGED storeVars  BY <1>2, SearchMoves, SearchBatches
  <2>2. \A s \in Request : req'[s].pc \in Dating => req'[s].at \in Int
    BY <1>2, <2>1, SearchDates DEF Moves, Dated
  <2>3. rows' = rows  BY <2>1 DEF storeVars
  <2> QED BY <1>2, <2>1, <2>2, <2>3, BatchDated DEF Dated
<1>3. CASE UNCHANGED <<storeVars, req>> /\ now' \in Int
  BY <1>3 DEF Dated, storeVars
<1>4. CASE Tick
  <2>1. now' \in Int  BY <1>4 DEF Tick, Dated
  <2> QED BY <1>3, <1>4, <2>1 DEF Tick
<1>5. CASE UNCHANGED vars
  BY <1>3, <1>5 DEF vars, serviceVars, Dated
<1> QED BY <1>1, <1>2, <1>4, <1>5 DEF Next, Step

-----------------------------------------------------------------------------
(* History.                                                                *)

LEMMA LaterIsNotBy ==
    ASSUME NEW n \in Int, NEW t \in Int, n > t PROVE ~(n <= t)
OBVIOUS

\* Rows that are the same, or are written with a later date, or by a backfill,
\* settle the past.
LEMMA PastOfRows ==
    ASSUME NEW t \in Int, \A m \in DOMAIN rows : DOMAIN rows[m] = Columns,
           \A m \in DOMAIN rows' :
              \/ m \in DOMAIN rows /\ rows'[m] = rows[m]
              \/ /\ m \in DOMAIN rows /\ rows'[m].superseded_at \in Int /\ rows'[m].superseded_at > t
                 /\ \A f \in Columns \ {"superseded_at", "is_latest"} : rows'[m][f] = rows[m][f]
              \/ m \notin DOMAIN rows /\ rows'[m].learned_at \in Int /\ rows'[m].learned_at > t
              \/ Backfilled(m)
    PROVE  Settled(t)
<1> DEFINE Known(row) == /\ ~row.needs_review /\ row.learned_at <= t
                         /\ row.superseded_at = Absent \/ row.superseded_at > t
                         /\ row.valid_until = Absent \/ row.valid_until > t
<1>1. memories_as_of(rows, t) = {m \in DOMAIN rows : Known(rows[m])}  BY DEF memories_as_of
<1>2. memories_as_of(rows', t) = {m \in DOMAIN rows' : Known(rows'[m])}  BY DEF memories_as_of
<1>3. ASSUME NEW m \in DOMAIN rows', m \in DOMAIN rows, rows'[m].superseded_at \in Int,
             rows'[m].superseded_at > t,
             \A f \in Columns \ {"superseded_at", "is_latest"} : rows'[m][f] = rows[m][f]
      PROVE  (Known(rows[m]) => Known(rows'[m])) /\ (~Known(rows[m]) /\ Known(rows'[m]) => rows[m].superseded_at # Absent)
  <2>1. /\ rows'[m].needs_review = rows[m].needs_review /\ rows'[m].learned_at = rows[m].learned_at
        /\ rows'[m].valid_until = rows[m].valid_until
    BY <1>3 DEF Columns
  <2> QED BY <1>3, <2>1
<1>4. ASSUME NEW m \in DOMAIN rows', rows'[m].learned_at \in Int, rows'[m].learned_at > t
      PROVE  ~Known(rows'[m])
  <2>1. PICK n : n = rows'[m].learned_at  OBVIOUS
  <2>2. n \in Int /\ n > t  BY <1>4, <2>1
  <2>3. ~(n <= t)  BY <2>2, LaterIsNotBy, Zenon
  <2> QED BY <2>1, <2>3
<1> HIDE DEF Known
<1>5. ASSUME NEW m, Backfilled(m)  PROVE m \notin DOMAIN rows  BY <1>5 DEF Backfilled
<1>6. \A m \in memories_as_of(rows, t) \ memories_as_of(rows', t) : m \in DOMAIN rows \ DOMAIN rows'
  BY <1>1, <1>2, <1>3, <1>5
<1>7. \A m \in memories_as_of(rows', t) \ memories_as_of(rows, t) :
        (m \in DOMAIN rows /\ rows[m].superseded_at # Absent) \/ Backfilled(m)
  BY <1>1, <1>2, <1>3, <1>4
<1> QED BY <1>6, <1>7 DEF Settled

LEMMA PastIsKept ==
    ASSUME Shapes, Dated, NEW r \in Request, ServiceStep(r), NEW t \in Int,
           req[r].pc \in Dating => req[r].at > t
    PROVE  Settled(t)
<1>1. RowsMove(r)  BY RowsStep
<1>2. \A m \in DOMAIN rows : DOMAIN rows[m] = Columns  BY DEF Dated
<1>3. ASSUME NEW m \in DOMAIN rows'
      PROVE  \/ m \in DOMAIN rows /\ rows'[m] = rows[m]
             \/ /\ m \in DOMAIN rows /\ rows'[m].superseded_at \in Int /\ rows'[m].superseded_at > t
                /\ \A f \in Columns \ {"superseded_at", "is_latest"} : rows'[m][f] = rows[m][f]
             \/ m \notin DOMAIN rows /\ rows'[m].learned_at \in Int /\ rows'[m].learned_at > t
             \/ Backfilled(m)
  <2>1. ASSUME req[r].pc \in Dating  PROVE req[r].at \in Int /\ req[r].at > t
    BY <2>1 DEF Dated
  <2>2. CASE m \in DOMAIN rows /\ Marked(r, m)
    <3>1. DOMAIN rows[m] = Columns /\ "superseded_at" \in Columns  BY <1>2, <2>2 DEF Columns
    <3>2. req[r].pc \in Dating  BY <2>2 DEF Marked, Dating
    <3> QED BY <2>1, <2>2, <3>1, <3>2 DEF Marked
  <2>3. CASE m \notin DOMAIN rows /\ (Learned(r, m) \/ Shared(r, m))
    BY <2>1, <2>3 DEF Learned, Shared, Dating
  <2>4. CASE m \notin DOMAIN rows /\ Filed(r, m)
    <3>1. req[r].pc = "insert_memories" /\ Ends(r) /\ m \in DOMAIN req[r].batch.facts  BY <2>4 DEF Filed
    <3>2. req'[r].pc = "done"  BY <3>1, EndsIt
    <3>3. req'[r] # req[r]  BY <3>1, <3>2
    <3> QED BY <2>4, <3>1, <3>3 DEF Backfilled, At
  <2> QED BY <1>1, <2>2, <2>3, <2>4 DEF RowsMove
<1> QED BY <1>2, <1>3, PastOfRows

\* "What we knew as of t" (mod.rs:1639) is settled once no request holds a clock
\* reading of t or before, but for the rows that a backfill adds.
THEOREM HistorySettles == Spec => HistoryIsSettled
<1>1. AccessInv /\ Dated /\ [Next]_vars =>
        [\A t \in 0 .. now - 1 : (\A r \in Request : req[r].pc \in Dating => req[r].at > t) => Settled(t)]_rows
  <2> SUFFICES ASSUME AccessInv, Dated, [Next]_vars, rows' # rows, NEW t \in 0 .. now - 1,
                      \A r \in Request : req[r].pc \in Dating => req[r].at > t
               PROVE  Settled(t)
    OBVIOUS
  <2>1. t \in Int /\ Shapes  BY DEF AccessInv
  <2>2. PICK r \in Request : ServiceStep(r)
    <3>1. ASSUME NEW r \in Request, SearchStep(r)  PROVE rows' = rows
      BY <3>1, SearchMoves DEF storeVars
    <3> QED BY <3>1 DEF Next, Step, Tick, storeVars, vars, serviceVars
  <2> QED BY <2>1, <2>2, PastIsKept
<1>2. Init => AccessInv /\ Dated  BY AccessInit, DatedInit
<1>3. AccessInv /\ Dated /\ [Next]_vars => (AccessInv /\ Dated)'  BY AccessStep, DatedStep
<1> QED BY <1>1, <1>2, <1>3, PTL DEF Spec, HistoryIsSettled

-----------------------------------------------------------------------------
(* What is gathered for the reranker.                                      *)

\* The results that hits of H can be gathered in.
Results(H) == [doc : {h.payload.doc_id : h \in H}, reference : {Reference(h) : h \in H}, chunks : Seq(H)]

Mine(rs, h) == {c \in DOMAIN rs : rs[c].doc = h.payload.doc_id}

LEMMA NewResult ==
    ASSUME NEW H, NEW h \in H
    PROVE  /\ Candidate(h) \in Results(H) /\ Candidate(h).doc = h.payload.doc_id
           /\ Candidate(h).reference = Reference(h) /\ Candidate(h).chunks = <<h>>
<1>1. <<h>> \in Seq(H)  OBVIOUS
<1> QED BY <1>1 DEF Candidate, Results

LEMMA ResultChunks ==
    ASSUME NEW H, NEW rs \in Seq(Results(H)), NEW c \in DOMAIN rs
    PROVE  rs[c] \in Results(H) /\ rs[c].chunks \in Seq(H)
<1>1. rs[c] \in Results(H)  OBVIOUS
<1> QED BY <1>1 DEF Results

LEMMA JoinedResult ==
    ASSUME NEW H, NEW h \in H, NEW x \in Results(H)
    PROVE  LET y == [x EXCEPT !.chunks = Append(@, h)]
           IN  y \in Results(H) /\ y.doc = x.doc /\ y.reference = x.reference /\ y.chunks = Append(x.chunks, h)
<1>1. x.chunks \in Seq(H)  BY DEF Results
<1>2. Append(x.chunks, h) \in Seq(H)  BY <1>1
<1>3. PICK s : s = Append(x.chunks, h)  OBVIOUS
<1>4. x = [doc |-> x.doc, reference |-> x.reference, chunks |-> x.chunks]  BY DEF Results
<1>5. [x EXCEPT !.chunks = s] = [doc |-> x.doc, reference |-> x.reference, chunks |-> s]  BY <1>4
<1> QED BY <1>2, <1>3, <1>5 DEF Results

\* The turn of a hit: it joins the result of its document, is left out, or
\* begins a result.
LEMMA GatherTurns ==
    ASSUME NEW H, NEW h \in H, NEW rs \in Seq(Results(H))
    PROVE  LET new == Gather(rs, h)
           IN  /\ new \in Seq(Results(H))
               /\ Mine(rs, h) # {} =>
                    /\ DOMAIN new = DOMAIN rs
                    /\ \A c \in DOMAIN rs :
                         /\ new[c].doc = rs[c].doc /\ new[c].reference = rs[c].reference
                         /\ new[c].chunks = IF c \in Mine(rs, h) THEN Append(rs[c].chunks, h) ELSE rs[c].chunks
               /\ Mine(rs, h) = {} /\ Held(rs, h) => new = rs
               /\ Mine(rs, h) = {} /\ ~Held(rs, h) => new = Append(rs, Candidate(h))
<1> PICK new : new = Gather(rs, h)  OBVIOUS
<1>1. CASE Mine(rs, h) # {}
  <2> DEFINE to(c) == [rs[c] EXCEPT !.chunks = Append(@, h)]
  <2>1. \E i \in DOMAIN rs : rs[i].doc = h.payload.doc_id  BY <1>1 DEF Mine
  <2>2. new = [i \in DOMAIN rs |-> IF rs[i].doc = h.payload.doc_id THEN to(i) ELSE rs[i]]
    BY <2>1 DEF Gather
  <2>3. ASSUME NEW c \in DOMAIN rs
        PROVE  /\ new[c] \in Results(H) /\ new[c].doc = rs[c].doc /\ new[c].reference = rs[c].reference
               /\ new[c].chunks = IF c \in Mine(rs, h) THEN Append(rs[c].chunks, h) ELSE rs[c].chunks
    <3>1. rs[c] \in Results(H)  OBVIOUS
    <3>2. to(c) \in Results(H) /\ to(c).doc = rs[c].doc /\ to(c).reference = rs[c].reference
          /\ to(c).chunks = Append(rs[c].chunks, h)
      BY <3>1, JoinedResult
    <3> HIDE DEF to
    <3> QED BY <2>2, <3>1, <3>2 DEF Mine
  <2>4. DOMAIN new = 1 .. Len(rs) /\ new = [i \in 1 .. Len(rs) |-> new[i]] /\ Len(rs) \in Nat
    <3> HIDE DEF to
    <3> QED BY <2>2
  <2>5. new \in Seq(Results(H))
    <3>1. \A i \in 1 .. Len(rs) : new[i] \in Results(H)  BY <2>3
    <3> QED BY <2>4, <3>1
  <2>6. DOMAIN new = DOMAIN rs  BY <2>4
  <2>7. \A c \in DOMAIN rs :
          /\ new[c].doc = rs[c].doc /\ new[c].reference = rs[c].reference
          /\ new[c].chunks = IF c \in Mine(rs, h) THEN Append(rs[c].chunks, h) ELSE rs[c].chunks
    BY <2>3
  <2> HIDE DEF to
  <2> QED BY <1>1, <2>5, <2>6, <2>7, Zenon
<1>2. CASE Mine(rs, h) = {} /\ Held(rs, h)
  <2>1. new = rs  BY <1>2 DEF Mine, Gather
  <2> QED BY <1>2, <2>1
<1>3. CASE Mine(rs, h) = {} /\ ~Held(rs, h)
  <2>1. new = Append(rs, Candidate(h))  BY <1>3 DEF Mine, Gather
  <2>2. Candidate(h) \in Results(H)  BY NewResult
  <2>3. new \in Seq(Results(H))  BY <2>1, <2>2
  <2> QED BY <1>3, <2>1, <2>3
<1> QED BY <1>1, <1>2, <1>3

\* A result is led by a hit before place i.
Led(rs, hits, c, i) == \E j \in 1 .. i - 1 : hits[j] = rs[c].chunks[1]

\* A hit is in the result of its document, behind the results before it; or its
\* reference is that of a result before which its document had none.
Placed(rs, hits, i) ==
    \/ \E c \in DOMAIN rs : /\ hits[i] \in ToSet(rs[c].chunks) /\ rs[c].doc = hits[i].payload.doc_id
                            /\ \A b \in 1 .. c - 1 : Led(rs, hits, b, i)
    \/ \E c \in DOMAIN rs : /\ rs[c].reference = Reference(hits[i]) /\ Reference(hits[i]) # Absent
                            /\ \A b \in 1 .. c : Led(rs, hits, b, i) /\ rs[b].doc # hits[i].payload.doc_id

Apart(rs) == \A c, d \in DOMAIN rs :
    rs[c].doc = rs[d].doc \/ (rs[c].reference = rs[d].reference /\ rs[c].reference # Absent) => c = d

\* After m hits.
Sorted(rs, hits, m) ==
    /\ \A c \in DOMAIN rs : Len(rs[c].chunks) >= 1 /\ Led(rs, hits, c, m + 1)
    /\ Apart(rs)
    /\ \A i \in 1 .. m : Placed(rs, hits, i)

\* A turn keeps the results, and what leads them.
Grows(rs, new) ==
    /\ DOMAIN rs \subseteq DOMAIN new
    /\ \A c \in DOMAIN rs :
         /\ new[c].doc = rs[c].doc /\ new[c].reference = rs[c].reference
         /\ new[c].chunks[1] = rs[c].chunks[1] /\ Len(new[c].chunks) >= 1
         /\ ToSet(rs[c].chunks) \subseteq ToSet(new[c].chunks)

LEMMA AppendKeeps ==
    ASSUME NEW H, NEW s \in Seq(H), NEW h \in H
    PROVE  /\ Append(s, h) \in Seq(H) /\ Len(Append(s, h)) >= 1
           /\ Len(s) >= 1 => Append(s, h)[1] = s[1]
           /\ ToSet(s) \subseteq ToSet(Append(s, h)) /\ h \in ToSet(Append(s, h))
<1> PICK q : q = Append(s, h)  OBVIOUS
<1>1. /\ q \in Seq(H) /\ Len(q) = Len(s) + 1 /\ Len(s) \in Nat /\ q[Len(s) + 1] = h
      /\ \A i \in 1 .. Len(s) : q[i] = s[i]
      /\ DOMAIN q = 1 .. Len(s) + 1 /\ DOMAIN s = 1 .. Len(s)
  OBVIOUS
<1>2. ToSet(s) \subseteq ToSet(q) /\ h \in ToSet(q)  BY <1>1 DEF ToSet
<1> QED BY <1>1, <1>2

LEMMA PlacedStays ==
    ASSUME NEW H, NEW rs \in Seq(Results(H)), NEW new \in Seq(Results(H)), Grows(rs, new),
           NEW hits, NEW i, Placed(rs, hits, i)
    PROVE  Placed(new, hits, i)
<1>1. DOMAIN rs = 1 .. Len(rs) /\ Len(rs) \in Nat  OBVIOUS
<1>2. \A c \in DOMAIN rs : \A b \in 1 .. c : b \in DOMAIN rs  BY <1>1
<1>3. \A b \in DOMAIN rs : Led(rs, hits, b, i) => Led(new, hits, b, i)  BY DEF Led, Grows
<1>4. ASSUME NEW c \in DOMAIN rs, hits[i] \in ToSet(rs[c].chunks), rs[c].doc = hits[i].payload.doc_id,
             \A b \in 1 .. c - 1 : Led(rs, hits, b, i)
      PROVE  Placed(new, hits, i)
  <2>1. c \in DOMAIN new /\ hits[i] \in ToSet(new[c].chunks) /\ new[c].doc = hits[i].payload.doc_id
    BY <1>4 DEF Grows
  <2>2. \A b \in 1 .. c - 1 : b \in DOMAIN rs  BY <1>1
  <2>3. \A b \in 1 .. c - 1 : Led(new, hits, b, i)  BY <1>3, <1>4, <2>2
  <2> QED BY <2>1, <2>3 DEF Placed
<1>5. ASSUME NEW c \in DOMAIN rs, rs[c].reference = Reference(hits[i]), Reference(hits[i]) # Absent,
             \A b \in 1 .. c : Led(rs, hits, b, i) /\ rs[b].doc # hits[i].payload.doc_id
      PROVE  Placed(new, hits, i)
  <2>1. c \in DOMAIN new /\ new[c].reference = Reference(hits[i])  BY <1>5 DEF Grows
  <2>2. \A b \in 1 .. c : Led(new, hits, b, i) /\ new[b].doc # hits[i].payload.doc_id
    BY <1>2, <1>3, <1>5 DEF Grows
  <2> QED BY <1>5, <2>1, <2>2 DEF Placed
<1> QED BY <1>4, <1>5 DEF Placed

LEMMA GatherGrows ==
    ASSUME NEW H, NEW h \in H, NEW rs \in Seq(Results(H)), \A c \in DOMAIN rs : Len(rs[c].chunks) >= 1
    PROVE  Grows(rs, Gather(rs, h))
<1> PICK new : new = Gather(rs, h)  OBVIOUS
<1>1. \A c \in DOMAIN rs : rs[c].chunks \in Seq(H)  BY ResultChunks
<1>2. CASE Mine(rs, h) # {}
  <2>1. /\ DOMAIN new = DOMAIN rs
        /\ \A c \in DOMAIN rs :
             /\ new[c].doc = rs[c].doc /\ new[c].reference = rs[c].reference
             /\ new[c].chunks = IF c \in Mine(rs, h) THEN Append(rs[c].chunks, h) ELSE rs[c].chunks
    BY <1>2, GatherTurns
  <2>2. ASSUME NEW c \in DOMAIN rs
        PROVE  /\ new[c].chunks[1] = rs[c].chunks[1] /\ Len(new[c].chunks) >= 1
               /\ ToSet(rs[c].chunks) \subseteq ToSet(new[c].chunks)
    <3> PICK s : s = rs[c].chunks  OBVIOUS
    <3>1. s \in Seq(H) /\ Len(s) >= 1  BY <1>1
    <3>2. Append(s, h)[1] = s[1] /\ Len(Append(s, h)) >= 1 /\ ToSet(s) \subseteq ToSet(Append(s, h))
      BY <3>1, AppendKeeps
    <3>3. new[c].chunks = Append(s, h) \/ new[c].chunks = s  BY <2>1
    <3> QED BY <3>1, <3>2, <3>3
  <2> QED BY <2>1, <2>2 DEF Grows
<1>3. CASE Mine(rs, h) = {} /\ Held(rs, h)
  <2>1. new = rs  BY <1>3, GatherTurns
  <2> QED BY <2>1 DEF Grows
<1>4. CASE Mine(rs, h) = {} /\ ~Held(rs, h)
  <2>1. new = Append(rs, Candidate(h))  BY <1>4, GatherTurns
  <2>2. DOMAIN rs \subseteq DOMAIN new /\ \A c \in DOMAIN rs : new[c] = rs[c]  BY <2>1
  <2> QED BY <2>2 DEF Grows
<1> QED BY <1>2, <1>3, <1>4

\* A turn keeps the results apart and places its hit.
LEMMA GatherSorts ==
    ASSUME NEW H, NEW hits \in Seq(H), NEW m \in 1 .. Len(hits), NEW rs \in Seq(Results(H)),
           Sorted(rs, hits, m - 1)
    PROVE  Sorted(Gather(rs, hits[m]), hits, m)
<1> PICK h : h = hits[m]  OBVIOUS
<1> PICK new : new = Gather(rs, h)  OBVIOUS
<1>1. m \in Int /\ h \in H /\ Len(rs) \in Nat /\ DOMAIN rs = 1 .. Len(rs)  OBVIOUS
<1>2. \A c \in DOMAIN rs : Len(rs[c].chunks) >= 1 /\ Led(rs, hits, c, m)  BY <1>1 DEF Sorted
<1>3. new \in Seq(Results(H)) /\ Grows(rs, new)  BY <1>1, <1>2, GatherTurns, GatherGrows
<1>4. \A i \in 1 .. m - 1 : Placed(new, hits, i)  BY <1>3, PlacedStays DEF Sorted
<1>5. \A c \in DOMAIN rs : Led(new, hits, c, m) /\ Led(new, hits, c, m + 1) /\ Len(new[c].chunks) >= 1
  <2> SUFFICES ASSUME NEW c \in DOMAIN rs
               PROVE  Led(new, hits, c, m) /\ Led(new, hits, c, m + 1) /\ Len(new[c].chunks) >= 1
    OBVIOUS
  <2>1. new[c].chunks[1] = rs[c].chunks[1] /\ Len(new[c].chunks) >= 1  BY <1>3 DEF Grows
  <2>2. PICK j \in 1 .. m - 1 : hits[j] = rs[c].chunks[1]  BY <1>2 DEF Led
  <2>3. j \in 1 .. m + 1 - 1  BY <1>1
  <2> QED BY <2>1, <2>2, <2>3 DEF Led
<1>6. CASE Mine(rs, h) # {}
  <2>1. /\ DOMAIN new = DOMAIN rs
        /\ \A c \in DOMAIN rs :
             /\ new[c].doc = rs[c].doc /\ new[c].reference = rs[c].reference
             /\ new[c].chunks = IF c \in Mine(rs, h) THEN Append(rs[c].chunks, h) ELSE rs[c].chunks
    BY <1>1, <1>6, GatherTurns
  <2>2. PICK c \in DOMAIN rs : c \in Mine(rs, h)  BY <1>6 DEF Mine
  <2>3. new[c].doc = h.payload.doc_id  BY <2>1, <2>2 DEF Mine
  <2>4. h \in ToSet(new[c].chunks)
    <3>1. rs[c].chunks \in Seq(H)  BY ResultChunks
    <3> QED BY <1>1, <2>1, <2>2, <3>1, AppendKeeps
  <2>5. \A b \in 1 .. c - 1 : b \in DOMAIN rs  BY <1>1
  <2>6. Placed(new, hits, m)  BY <1>5, <2>1, <2>3, <2>4, <2>5 DEF Placed
  <2>7. Apart(new)  BY <2>1 DEF Sorted, Apart
  <2> QED BY <1>1, <1>4, <1>5, <2>1, <2>6, <2>7 DEF Sorted
<1>7. CASE Mine(rs, h) = {} /\ Held(rs, h)
  <2>1. new = rs  BY <1>1, <1>7, GatherTurns
  <2>2. PICK c \in DOMAIN rs : rs[c].reference = Reference(h) /\ Reference(h) # Absent  BY <1>7 DEF Held
  <2>3. \A b \in 1 .. c : b \in DOMAIN rs  BY <1>1
  <2>4. \A b \in 1 .. c : Led(new, hits, b, m) /\ new[b].doc # h.payload.doc_id
    BY <1>5, <1>7, <2>1, <2>3 DEF Mine
  <2>5. Placed(new, hits, m)  BY <2>1, <2>2, <2>4 DEF Placed
  <2>6. Apart(new)  BY <2>1 DEF Sorted
  <2> QED BY <1>1, <1>4, <1>5, <2>1, <2>5, <2>6 DEF Sorted
<1>8. CASE Mine(rs, h) = {} /\ ~Held(rs, h)
  <2>1. new = Append(rs, Candidate(h))  BY <1>1, <1>8, GatherTurns
  <2> PICK n : n = Len(rs) + 1  OBVIOUS
  <2>2. n \in Int /\ DOMAIN new = 1 .. n /\ new[n] = Candidate(h) /\ \A c \in DOMAIN rs : new[c] = rs[c]
    BY <1>1, <2>1
  <2>3. new[n].doc = h.payload.doc_id /\ new[n].reference = Reference(h) /\ new[n].chunks = <<h>>
    BY <1>1, <2>2, NewResult
  <2>4. Len(new[n].chunks) >= 1 /\ new[n].chunks[1] = h /\ h \in ToSet(new[n].chunks)
    <3>1. Len(<<h>>) = 1 /\ <<h>>[1] = h /\ h \in ToSet(<<h>>)  BY DEF ToSet
    <3> QED BY <2>3, <3>1
  <2>5. Led(new, hits, n, m + 1)  BY <1>1, <2>4 DEF Led
  <2>6. \A c \in DOMAIN new : c \in DOMAIN rs \/ c = n  BY <1>1, <2>2
  <2>7. n \in DOMAIN new /\ \A b \in 1 .. n - 1 : b \in DOMAIN rs  BY <1>1, <2>2
  <2>8. Placed(new, hits, m)  BY <1>5, <2>3, <2>4, <2>7 DEF Placed
  <2>9. Apart(new)
    <3>1. \A c \in DOMAIN rs : new[c].doc # new[n].doc  BY <1>8, <2>2, <2>3 DEF Mine
    <3>2. \A c \in DOMAIN rs : new[c].reference = new[n].reference => new[n].reference = Absent
      BY <1>8, <2>2, <2>3 DEF Held
    <3>3. Apart(rs)  BY DEF Sorted
    <3> QED BY <2>2, <2>6, <3>1, <3>2, <3>3 DEF Apart
  <2>10. \A c \in DOMAIN new : Len(new[c].chunks) >= 1 /\ Led(new, hits, c, m + 1)
    BY <1>5, <2>4, <2>5, <2>6
  <2>11. \A i \in 1 .. m : Placed(new, hits, i)
    <3>1. \A i \in 1 .. m : i \in 1 .. m - 1 \/ i = m  BY <1>1
    <3> QED BY <1>4, <2>8, <3>1
  <2> QED BY <2>9, <2>10, <2>11 DEF Sorted
<1> QED BY <1>6, <1>7, <1>8
\* As many of the results as fit.
Foremost(all, limit) == SubSeq(all, 1, IF Len(all) < limit THEN Len(all) ELSE limit)

\* What the loop over the hits has gathered, turn by turn.
LEMMA HitsAreGathered ==
    ASSUME NEW H, NEW hits \in Seq(H), NEW limit
    PROVE  \E all \in Seq(Results(H)) :
             /\ Sorted(all, hits, Len(hits))
             /\ hits = <<>> => all = <<>>
             /\ group_chunk_hits(hits, limit) = Foremost(all, limit)
<1> DEFINE n == Len(hits)
           R == Seq(Results(H))
           step == [m \in 1 .. n |-> [s \in R |-> Gather(s, hits[m])]]
           Turns(f) == [m \in 0 .. n |-> IF m = 0 THEN <<>> ELSE Gather(f[m - 1], hits[m])]
           gathered == CHOOSE f : f = Turns(f)
<1>1. n \in Nat  OBVIOUS
<1>2. ASSUME NEW m \in 1 .. n, NEW s \in R  PROVE Gather(s, hits[m]) \in R
  <2>1. hits[m] \in H  OBVIOUS
  <2> QED BY <2>1, GatherTurns
<1>3. step \in [1 .. n -> [R -> R]]
  <2> HIDE DEF R, n
  <2> QED BY <1>2
<1>4. <<>> \in R  OBVIOUS
<1>5. PICK f \in [0 .. n -> R] : Loop(f, n, <<>>, step)
  <2> HIDE DEF step, n, R
  <2> QED BY <1>1, <1>3, <1>4, LoopExists
<1>6. f = Turns(f)
  <2>1. ASSUME NEW m \in 0 .. n, m # 0  PROVE step[m][f[m - 1]] = Gather(f[m - 1], hits[m])
    <3>1. m \in 1 .. n /\ m - 1 \in 0 .. n  BY <1>1, <2>1
    <3>2. f[m - 1] \in R  BY <3>1
    <3> HIDE DEF n, R
    <3> QED BY <3>1, <3>2
  <2> HIDE DEF step, n, R
  <2> QED BY <1>5, <2>1 DEF Loop
<1>7. gathered = Turns(gathered)
  <2> HIDE DEF Turns
  <2> QED BY <1>6
<1> PICK all : all = gathered[n]  OBVIOUS
<1>8. group_chunk_hits(hits, limit) = Foremost(all, limit)
  BY DEF group_chunk_hits, Foremost
<1> DEFINE P == {m \in 0 .. n : gathered[m] \in R /\ Sorted(gathered[m], hits, m)}
<1>9. 0 \in 0 .. n /\ gathered[0] = <<>>
  <2>1. 0 \in 0 .. n  BY <1>1
  <2> HIDE DEF gathered, n
  <2> QED BY <1>7, <2>1
<1>10. 0 \in P
  <2>1. Sorted(<<>>, hits, 0)  BY DEF Sorted, Apart
  <2> HIDE DEF gathered, n, R
  <2> QED BY <1>4, <1>9, <2>1
<1>11. ASSUME NEW m \in 1 .. n, m - 1 \in P  PROVE m \in P
  <2>1. m \in 0 .. n /\ m # 0  BY <1>1
  <2>2. gathered[m] = Gather(gathered[m - 1], hits[m])
    <3> HIDE DEF gathered, n
    <3> QED BY <1>7, <2>1
  <2> PICK s : s = gathered[m - 1]  OBVIOUS
  <2>3. s \in R /\ Sorted(s, hits, m - 1)
    <3> HIDE DEF gathered, n, R
    <3> QED BY <1>11
  <2>4. Sorted(Gather(s, hits[m]), hits, m)
    <3> HIDE DEF gathered
    <3> QED BY <2>3, GatherSorts
  <2>5. Gather(s, hits[m]) \in R  BY <1>2, <2>3
  <2> HIDE DEF gathered, n, R
  <2> QED BY <2>1, <2>2, <2>4, <2>5
<1>12. n \in P
  <2>1. n \in 0 .. n  BY <1>1
  <2> HIDE DEF P, n
  <2> QED BY <1>1, <1>10, <1>11, <2>1, UpTo
<1>13. all \in R /\ Sorted(all, hits, n)
  <2> HIDE DEF gathered, n, R
  <2> QED BY <1>12
<1>14. hits = <<>> => all = <<>>
  <2>1. hits = <<>> => n = 0  OBVIOUS
  <2> HIDE DEF gathered, n
  <2> QED BY <1>9, <2>1
<1> HIDE DEF gathered
<1> QED BY <1>8, <1>13, <1>14

\* The candidates of a search, as HitsReachReranker wants them.
Reaching(hits, cs, limit) ==
    LET Ahead(c, i) == \E j \in 1 .. i - 1 : hits[j] = cs[c].chunks[1]
    IN  /\ \A i \in DOMAIN hits :
             \/ \E c \in DOMAIN cs : hits[i] \in ToSet(cs[c].chunks)
             \/ \E c \in DOMAIN cs : /\ cs[c].reference # Absent /\ Ahead(c, i)
                                     /\ "reference" \in DOMAIN hits[i].payload
                                     /\ cs[c].reference = hits[i].payload.reference
                                     /\ cs[c].doc # hits[i].payload.doc_id
             \/ Len(cs) = limit /\ \A c \in DOMAIN cs : Ahead(c, i) /\ cs[c].doc # hits[i].payload.doc_id
        /\ Apart(cs)

LEMMA FrontOf ==
    ASSUME NEW S, NEW all, all \in Seq(S), NEW limit, limit \in Nat, NEW cs, cs = Foremost(all, limit)
    PROVE  /\ cs \in Seq(S)
           /\ Len(cs) = limit \/ cs = all
           /\ \A c \in DOMAIN cs : c \in DOMAIN all /\ cs[c] = all[c]
           /\ limit # 0 => (cs = <<>> <=> all = <<>>)
<1> PICK k : k = IF Len(all) < limit THEN Len(all) ELSE limit  OBVIOUS
<1>1. Len(all) \in Nat /\ k \in Nat /\ k <= Len(all)  OBVIOUS
<1>2. cs \in Seq(S) /\ Len(cs) = k /\ \A c \in 1 .. k : cs[c] = all[c]
  <2>1. cs = SubSeq(all, 1, k)  BY DEF Foremost
  <2> QED BY <1>1, <2>1
<1>3. DOMAIN cs = 1 .. k /\ DOMAIN all = 1 .. Len(all)  BY <1>2
<1>4. k = limit \/ cs = all
  <2>1. k = limit \/ k = Len(all)  OBVIOUS
  <2> QED BY <1>2, <2>1
<1>5. limit # 0 => (k = 0 <=> Len(all) = 0)  BY <1>1
<1>6. \A s \in Seq(S) : s = <<>> <=> Len(s) = 0  OBVIOUS
<1>7. limit # 0 => (cs = <<>> <=> all = <<>>)  BY <1>2, <1>5, <1>6
<1>8. Len(cs) = limit \/ cs = all  BY <1>2, <1>4
<1>9. \A c \in DOMAIN cs : c \in DOMAIN all /\ cs[c] = all[c]
  <2>1. \A c \in 1 .. k : c \in 1 .. Len(all)  BY <1>1
  <2> QED BY <1>2, <1>3, <2>1
<1> QED BY <1>2, <1>7, <1>8, <1>9

LEMMA HitsReach ==
    ASSUME NEW H, NEW hits \in Seq(H), NEW limit \in Nat \ {0}
    PROVE  LET cs == group_chunk_hits(hits, limit)
           IN  /\ Reaching(hits, cs, limit) /\ cs \in Seq(Results(H))
               /\ cs = <<>> <=> hits = <<>>
<1>1. PICK all \in Seq(Results(H)) :
        /\ Sorted(all, hits, Len(hits))
        /\ hits = <<>> => all = <<>>
        /\ group_chunk_hits(hits, limit) = Foremost(all, limit)
  BY HitsAreGathered
<1> PICK cs : cs = group_chunk_hits(hits, limit)  OBVIOUS
<1>2. /\ cs \in Seq(Results(H))
      /\ Len(cs) = limit \/ cs = all
      /\ \A c \in DOMAIN cs : c \in DOMAIN all /\ cs[c] = all[c]
      /\ cs = <<>> <=> all = <<>>
  <2>1. limit \in Nat /\ limit # 0  OBVIOUS
  <2>2. cs = Foremost(all, limit)  BY <1>1
  <2> PICK S : S = Results(H)  OBVIOUS
  <2>3. all \in Seq(S)  BY <1>1
  <2>4. /\ cs \in Seq(S)
        /\ Len(cs) = limit \/ cs = all
        /\ \A c \in DOMAIN cs : c \in DOMAIN all /\ cs[c] = all[c]
        /\ limit # 0 => (cs = <<>> <=> all = <<>>)
    BY <2>1, <2>2, <2>3, FrontOf
  <2> QED BY <2>1, <2>4
<1>3. DOMAIN hits = 1 .. Len(hits) /\ DOMAIN all = 1 .. Len(all) /\ DOMAIN cs = 1 .. Len(cs)
      /\ Len(hits) \in Nat /\ Len(all) \in Nat /\ Len(cs) \in Nat
  OBVIOUS
<1>4. Apart(cs)  BY <1>1, <1>2 DEF Sorted, Apart
<1>5. \A i : \A c \in DOMAIN cs : Led(all, hits, c, i) => Led(cs, hits, c, i)  BY <1>2 DEF Led
<1> DEFINE Full(i) == Len(cs) = limit /\ \A c \in DOMAIN cs :
                         Led(cs, hits, c, i) /\ cs[c].doc # hits[i].payload.doc_id
           In(i) == \E c \in DOMAIN cs : hits[i] \in ToSet(cs[c].chunks)
           GaveWay(i) == \E c \in DOMAIN cs : /\ cs[c].reference # Absent /\ Led(cs, hits, c, i)
                                              /\ cs[c].reference = Reference(hits[i])
                                              /\ cs[c].doc # hits[i].payload.doc_id
<1>6. ASSUME NEW i \in DOMAIN hits  PROVE In(i) \/ GaveWay(i) \/ Full(i)
  <2>1. Placed(all, hits, i)  BY <1>1, <1>3 DEF Sorted
  <2>2. ASSUME NEW c \in DOMAIN all, c \notin DOMAIN cs
        PROVE  Len(cs) = limit /\ \A b \in DOMAIN cs : b \in 1 .. c - 1 /\ b \in DOMAIN all
    <3>1. Len(cs) = limit  BY <1>2, <2>2
    <3> QED BY <1>2, <1>3, <2>2, <3>1
  <2>3. ASSUME NEW c \in DOMAIN all, hits[i] \in ToSet(all[c].chunks), all[c].doc = hits[i].payload.doc_id,
               \A b \in 1 .. c - 1 : Led(all, hits, b, i)
        PROVE  In(i) \/ Full(i)
    <3>1. CASE c \in DOMAIN cs  BY <1>2, <2>3, <3>1
    <3>2. CASE c \notin DOMAIN cs
      <4>1. \A b \in DOMAIN cs : all[b].doc # all[c].doc
        <5>1. \A b \in DOMAIN cs : b # c /\ b \in DOMAIN all  BY <2>2, <3>2
        <5> QED BY <1>1, <5>1 DEF Sorted, Apart
      <4>2. \A b \in DOMAIN cs : Led(cs, hits, b, i)  BY <1>5, <2>2, <2>3, <3>2
      <4>3. \A b \in DOMAIN cs : cs[b].doc # hits[i].payload.doc_id  BY <1>2, <2>3, <4>1
      <4> QED BY <2>2, <3>2, <4>2, <4>3
    <3> QED BY <3>1, <3>2
  <2>4. ASSUME NEW c \in DOMAIN all, all[c].reference = Reference(hits[i]), Reference(hits[i]) # Absent,
               \A b \in 1 .. c : Led(all, hits, b, i) /\ all[b].doc # hits[i].payload.doc_id
        PROVE  GaveWay(i) \/ Full(i)
    <3>1. c \in 1 .. c /\ \A b \in 1 .. c - 1 : b \in 1 .. c  BY <1>3
    <3>2. CASE c \in DOMAIN cs  BY <1>2, <1>5, <2>4, <3>1, <3>2
    <3>3. CASE c \notin DOMAIN cs
      <4>1. \A b \in DOMAIN cs : Led(all, hits, b, i) /\ all[b].doc # hits[i].payload.doc_id
        BY <2>2, <2>4, <3>1, <3>3
      <4> QED BY <1>2, <1>5, <2>2, <3>3, <4>1
    <3> QED BY <3>2, <3>3
  <2> HIDE DEF Full, In, GaveWay
  <2> QED BY <2>1, <2>3, <2>4 DEF Placed
<1>7. Reaching(hits, cs, limit)
  <2>1. \A i : Reference(hits[i]) # Absent =>
          "reference" \in DOMAIN hits[i].payload /\ hits[i].payload.reference = Reference(hits[i])
    BY DEF Reference
  <2> DEFINE Gone(i) == \E c \in DOMAIN cs : /\ cs[c].reference # Absent /\ Led(cs, hits, c, i)
                                            /\ "reference" \in DOMAIN hits[i].payload
                                            /\ cs[c].reference = hits[i].payload.reference
                                            /\ cs[c].doc # hits[i].payload.doc_id
  <2>2. ASSUME NEW i \in DOMAIN hits, GaveWay(i)  PROVE Gone(i)  BY <2>1, <2>2
  <2>3. \A i \in DOMAIN hits : In(i) \/ Gone(i) \/ Full(i)  BY <1>6, <2>2
  <2> QED BY <1>4, <2>3, Zenon DEF Reaching, Led
<1>8. all = <<>> => hits = <<>>
  <2> SUFFICES ASSUME all = <<>>, hits # <<>> PROVE FALSE  OBVIOUS
  <2>1. Len(hits) # 0  OBVIOUS
  <2>2. 1 \in 1 .. Len(hits)  BY <1>3, <2>1
  <2>3. Placed(all, hits, 1)  BY <1>1, <2>2 DEF Sorted
  <2>4. DOMAIN all = {}  OBVIOUS
  <2> QED BY <2>3, <2>4 DEF Placed
<1> QED BY <1>1, <1>2, <1>7, <1>8
-----------------------------------------------------------------------------
(* No hit is lost on its way to the reranker.                              *)

LateLimit(plan) == IF DOC_LIMIT[plan.listy] > RERANK_LIMIT THEN DOC_LIMIT[plan.listy] ELSE RERANK_LIMIT

\* What a search has found when its hits are settled, when they are grouped, and
\* when their documents are ranked.
Ranked(q, f) ==
    /\ f.plan \in Plan \cup {Plain}
    /\ q.pc \in {"group", "rerank", "provenance", "answered"} /\ f.hits = <<>> =>
          f.retried \/ build_filter(f.plan) = NoFilter
    /\ q.pc \in {"rerank", "provenance", "answered"} =>
          /\ Reaching(f.hits, f.candidates, LateLimit(f.plan)) /\ IsSeq(f.candidates)
          /\ f.candidates = <<>> <=> f.hits = <<>>
    /\ q.pc \in {"provenance", "answered"} => (f.documents = <<>> <=> f.hits = <<>>)

Ranking == \A r \in Request : Ranked(req[r], found[r])

LEMMA PlanLimits ==
    ASSUME NEW plan \in Plan \cup {Plain}
    PROVE  DOC_LIMIT[plan.listy] \in Nat \ {0} /\ LateLimit(plan) \in Nat \ {0}
<1>1. plan.listy \in BOOLEAN
  <2>1. Plain.listy = FALSE  BY DEF Plain
  <2>2. FALSE \in BOOLEAN  OBVIOUS
  <2> QED BY <2>1, <2>2, LimitsAssumption, Zenon
<1>2. DOC_LIMIT[plan.listy] \in Nat \ {0} /\ RERANK_LIMIT \in Nat  BY <1>1, LimitsAssumption
<1> QED BY <1>2 DEF LateLimit

\* A search whose hits are not settled yet.
LEMMA NotYetRanked ==
    ASSUME NEW q, NEW f, f.plan \in Plan \cup {Plain},
           q.pc \notin {"group", "rerank", "provenance", "answered"}
    PROVE  Ranked(q, f)
BY DEF Ranked

LEMMA RankingInit ==
    ASSUME Init PROVE Ranking
<1>1. \A r \in Request : req[r] = NoRequest /\ found[r] = NoSearch
  BY DEF Init, ServiceInit, RetrievalInit
<1>2. NoRequest.pc = "unused" /\ NoSearch.plan = Plain  BY DEF NoRequest, NoSearch
<1> QED BY <1>1, <1>2, NotYetRanked DEF Ranking

LEMMA SequenceOf ==
    ASSUME NEW S, NEW s, s \in Seq(S)
    PROVE  IsSeq(s) /\ IsFiniteSet(ToSet(s))
<1>1. Len(s) \in Nat /\ s = [i \in 1 .. Len(s) |-> s[i]] /\ DOMAIN s = 1 .. Len(s)  OBVIOUS
<1>2. \A i \in 1 .. Len(s) : s[i] \in ToSet(s)  BY <1>1 DEF ToSet
<1>3. s \in Seq(ToSet(s))  BY <1>1, <1>2
<1>4. s \in Surjection(1 .. Len(s), ToSet(s))  BY <1>1, <1>2 DEF Surjection, ToSet
<1>5. IsFiniteSet(1 .. Len(s))
  <2>1. 1 \in Int /\ Len(s) \in Int  BY <1>1
  <2> QED BY <2>1, FS_Interval
<1> QED BY <1>3, <1>4, <1>5, FS_Surjection DEF IsSeq

\* An order of members of a finite set is a sequence of them.
LEMMA OrdersAreSequences ==
    ASSUME NEW S, IsFiniteSet(S), NEW s \in SetToSeqs(S)
    PROVE  s \in Seq(S)
<1>1. Cardinality(S) \in Nat  BY FS_CardinalityType
<1>2. s \in [1 .. Cardinality(S) -> S]  BY DEF SetToSeqs
<1> QED BY <1>1, <1>2

\* The documents that are left after the reranker: as many as asked for, and
\* none only if there was none.
LEMMA RerankingKeeps ==
    ASSUME AccessInv, Ranking, NEW r \in Request, rerank(r)
    PROVE  Ranked(req'[r], found'[r])
<1> DEFINE cs == found[r].candidates
           Orders == IF Len(cs) <= 1 THEN {} ELSE (UNION {SetToSeqs(S) : S \in SUBSET ToSet(cs)}) \ {<<>>}
           limit == DOC_LIMIT[found[r].plan.listy]
<1>1. req[r].pc = "rerank" /\ Goes(r, "provenance")  BY DEF rerank, At
<1>2. PICK ranked \in Orders \cup {cs} : Finds(r, "documents", Foremost(ranked, limit))
  BY DEF rerank, Foremost, DocLimit
<1>3. Shapes /\ Ranked(req[r], found[r])  BY DEF AccessInv, Ranking
<1>4. IsSeq(cs) /\ (cs = <<>> <=> found[r].hits = <<>>)  BY <1>1, <1>3 DEF Ranked
<1>5. ranked \in Seq(ToSet(cs)) /\ (ranked = <<>> <=> cs = <<>>)
  <2>1. cs \in Seq(ToSet(cs))  BY <1>4 DEF IsSeq
  <2>2. CASE ranked = cs  BY <2>1, <2>2
  <2>3. CASE ranked # cs
    <3>1. ranked \in Orders  BY <1>2, <2>3
    <3>2. ~(Len(cs) <= 1)
      <4>1. Len(cs) <= 1 => Orders = {}  OBVIOUS
      <4> HIDE DEF Orders
      <4> QED BY <3>1, <4>1
    <3>3. ranked # <<>> /\ \E S \in SUBSET ToSet(cs) : ranked \in SetToSeqs(S)  BY <3>1, <3>2
    <3> PICK S \in SUBSET ToSet(cs) : ranked \in SetToSeqs(S)  BY <3>3
    <3>4. IsFiniteSet(ToSet(cs))  BY <2>1, SequenceOf
    <3>5. IsFiniteSet(S)  BY <3>4, FS_Subset
    <3>6. ranked \in Seq(S)  BY <3>5, OrdersAreSequences
    <3>7. ranked \in Seq(ToSet(cs))  BY <3>6
    <3>8. cs # <<>>  BY <3>2
    <3> QED BY <3>3, <3>7, <3>8
  <2> QED BY <2>2, <2>3
<1>6. limit \in Nat /\ limit # 0  BY <1>3, PlanLimits DEF Ranked
<1> PICK docs : docs = Foremost(ranked, limit)  OBVIOUS
<1>7. docs = <<>> <=> ranked = <<>>  BY <1>5, <1>6, FrontOf
<1>8. "documents" \in DOMAIN NoSearch  BY NothingGathered
<1>9. found'[r]["documents"] = docs /\ \A g \in DOMAIN NoSearch \ {"documents"} : found'[r][g] = found[r][g]
  BY <1>2, <1>3, <1>8, FindsIt
<1>10. /\ found'[r].documents = docs /\ found'[r].plan = found[r].plan
       /\ found'[r].hits = found[r].hits /\ found'[r].retried = found[r].retried
       /\ found'[r].candidates = found[r].candidates
  BY <1>9, NothingGathered
<1>11. req'[r].pc = "provenance"  BY <1>1, <1>3, GoesOn DEF Free
<1> HIDE DEF Orders, limit
<1> QED BY <1>1, <1>3, <1>4, <1>5, <1>7, <1>10, <1>11 DEF Ranked

LEMMA GroupingReaches ==
    ASSUME AccessInv, Ranking, NEW r \in Request, group(r)
    PROVE  Ranked(req'[r], found'[r])
<1>1. req[r].pc = "group" /\ Goes(r, "rerank")
      /\ Finds(r, "candidates", group_chunk_hits(found[r].hits, GroupLimit(r)))
  BY DEF group, At
<1>2. Shapes /\ Ranked(req[r], found[r]) /\ Confined(req[r], found[r])
  BY DEF AccessInv, Ranking, Searching
<1> PICK hits : hits = found[r].hits  OBVIOUS
<1> PICK limit : limit = LateLimit(found[r].plan)  OBVIOUS
<1> PICK cs : cs = group_chunk_hits(hits, limit)  OBVIOUS
<1>3. limit \in Nat \ {0} /\ GroupLimit(r) = limit
  BY <1>2, PlanLimits DEF Ranked, GroupLimit, DocLimit, LateLimit
<1>4. hits \in Seq(ToSet(hits))  BY <1>2 DEF Confined, IsSeq
<1>5. Reaching(hits, cs, limit) /\ cs \in Seq(Results(ToSet(hits))) /\ (cs = <<>> <=> hits = <<>>)
  BY <1>3, <1>4, HitsReach
<1>6. IsSeq(cs)  BY <1>5, SequenceOf
<1>7. "candidates" \in DOMAIN NoSearch  BY NothingGathered
<1>8. found'[r]["candidates"] = cs /\ \A g \in DOMAIN NoSearch \ {"candidates"} : found'[r][g] = found[r][g]
  BY <1>1, <1>2, <1>3, <1>7, FindsIt
<1>9. /\ found'[r].candidates = cs /\ found'[r].plan = found[r].plan
      /\ found'[r].hits = hits /\ found'[r].retried = found[r].retried
  BY <1>8, NothingGathered
<1>10. req'[r].pc = "rerank"  BY <1>1, <1>2, GoesOn DEF Free
<1> QED BY <1>1, <1>2, <1>5, <1>6, <1>9, <1>10 DEF Ranked

\* The first steps of a search settle its plan only; failing, it has none.
LEMMA SearchingKeepsPlan ==
    ASSUME AccessInv, Ranking, NEW r \in Request,
           \/ search(r) \/ visible_scopes_for(r) \/ embed_query(r) \/ search_facts(r)
           \/ \E query \in {"first", "second"} : search_chunks(r, query)
    PROVE  Ranked(req'[r], found'[r])
<1>1. Shapes /\ found[r].plan \in Plan \cup {Plain}  BY DEF AccessInv, Ranking, Ranked
<1>2. ASSUME NEW field \in DOMAIN NoSearch \ {"plan"}, NEW value, Finds(r, field, value)
      PROVE  found'[r].plan = found[r].plan
  <2>1. \A g \in DOMAIN NoSearch \ {field} : found'[r][g] = found[r][g]  BY <1>1, <1>2, FindsIt
  <2> QED BY <2>1, NothingGathered
<1>3. CASE search(r)
  <2>1. PICK new \in Accepted("scopes", "search") : Becomes(r, new)  BY <1>3 DEF search
  <2>2. PICK plan \in Plan \cup {Plain} : Finds(r, "plan", plan)  BY <1>3 DEF search
  <2>3. req'[r].pc = "scopes"  BY <1>1, <2>1, AcceptedActsAs, BecomesIt
  <2>4. "plan" \in DOMAIN NoSearch  BY NothingGathered
  <2>5. found'[r]["plan"] = plan  BY <1>1, <2>2, <2>4, FindsIt
  <2> QED BY <2>2, <2>3, <2>5, NotYetRanked
<1>4. CASE visible_scopes_for(r)
  <2>1. PICK held : /\ req' = [req EXCEPT ![r].held = held, ![r].pc = "embed"]
                    /\ Finds(r, "scopes", visible_scopes(req[r].tag, held))
    BY <1>4 DEF visible_scopes_for
  <2>2. req'[r].pc = "embed"  BY <1>1, <2>1 DEF Shapes, NoRequest
  <2>3. "scopes" \in DOMAIN NoSearch \ {"plan"}  BY NothingGathered
  <2> QED BY <1>1, <1>2, <2>1, <2>2, <2>3, NotYetRanked
<1>5. ASSUME Fails(r) PROVE Ranked(req'[r], found'[r])
  <2>1. found'[r] = NoSearch  BY <1>1, <1>5, FailsIt
  <2>2. req'[r].pc = "done"  BY <1>1, <1>5, EndsIt DEF Fails
  <2>3. NoSearch.plan = Plain  BY DEF NoSearch
  <2> QED BY <2>1, <2>2, <2>3, NotYetRanked
<1>6. CASE embed_query(r)
  <2>1. ASSUME NEW value, req' = [req EXCEPT ![r].at = now, ![r].pc = "search"], Finds(r, "pending", value)
        PROVE  Ranked(req'[r], found'[r])
    <3>1. req'[r].pc = "search"  BY <1>1, <2>1 DEF Shapes, NoRequest
    <3>2. "pending" \in DOMAIN NoSearch \ {"plan"}  BY NothingGathered
    <3> QED BY <1>1, <1>2, <2>1, <3>1, <3>2, NotYetRanked
  <2> QED BY <1>5, <1>6, <2>1 DEF embed_query
<1>7. ASSUME NEW query, NEW field \in {"first", "second", "facts", "ok"}, NEW value,
             Answers(r, query, field, value), req[r].pc = "search"
      PROVE  Ranked(req'[r], found'[r])
  <2>1. field \in DOMAIN NoSearch \ {"pending"} /\ field # "plan"  BY NothingGathered
  <2>2. req' = req /\ \A g \in DOMAIN NoSearch \ {field, "pending"} : found'[r][g] = found[r][g]
    BY <1>1, <1>7, <2>1, AnswersIt, Zenon
  <2>3. found'[r].plan = found[r].plan  BY <2>1, <2>2, NothingGathered
  <2> QED BY <1>1, <1>7, <2>2, <2>3, NotYetRanked
<1>8. CASE search_facts(r)  BY <1>7, <1>8, Zenon DEF search_facts, At
<1>9. ASSUME NEW query \in {"first", "second"}, search_chunks(r, query)  PROVE Ranked(req'[r], found'[r])
  BY <1>7, <1>9, Zenon DEF search_chunks, At
<1> QED BY <1>3, <1>4, <1>6, <1>8, <1>9

\* Where the hits are settled: none, only after the retry or without constraints.
LEMMA SettlingRetries ==
    ASSUME AccessInv, Ranking, NEW r \in Request, union(r) \/ retry(r)
    PROVE  Ranked(req'[r], found'[r])
<1>1. Shapes /\ found[r].plan \in Plan \cup {Plain}  BY DEF AccessInv, Ranking, Ranked
<1>2. req[r].pc \in {"search", "retry"}  BY DEF union, retry, At
<1>3. ASSUME Fails(r) PROVE Ranked(req'[r], found'[r])
  <2>1. found'[r] = NoSearch  BY <1>1, <1>3, FailsIt
  <2>2. req'[r].pc = "done"  BY <1>1, <1>3, EndsIt DEF Fails
  <2>3. NoSearch.plan = Plain  BY DEF NoSearch
  <2> QED BY <2>1, <2>2, <2>3, NotYetRanked
<1>4. CASE union(r) /\ ~Fails(r)
  <2> PICK hits : hits = Union(found[r].first, found[r].second)  OBVIOUS
  <2>1. Goes(r, IF hits = <<>> /\ Constrained(r) THEN "retry" ELSE "group") /\ Finds(r, "hits", hits)
    BY <1>4 DEF union
  <2>2. PICK pc \in {"retry", "group"} :
          Goes(r, pc) /\ (pc = "group" => ~(hits = <<>> /\ Constrained(r)))
    BY <2>1
  <2>3. req'[r].pc = pc  BY <1>1, <1>2, <2>2, GoesOn DEF Free
  <2>4. "hits" \in DOMAIN NoSearch  BY NothingGathered
  <2>5. found'[r]["hits"] = hits /\ \A g \in DOMAIN NoSearch \ {"hits"} : found'[r][g] = found[r][g]
    BY <1>1, <2>1, <2>4, FindsIt
  <2>6. found'[r].hits = hits /\ found'[r].plan = found[r].plan  BY <2>5, NothingGathered
  <2> QED BY <1>1, <2>2, <2>3, <2>6 DEF Ranked, Constrained
<1>5. ASSUME NEW pool, found' = [found EXCEPT ![r].hits = pool, ![r].retried = TRUE], Goes(r, "group")
      PROVE  Ranked(req'[r], found'[r])
  <2>1. DOMAIN found = Request /\ DOMAIN found[r] = DOMAIN NoSearch  BY <1>1 DEF Shapes
  <2>2. found'[r] = [[found[r] EXCEPT !.hits = pool] EXCEPT !.retried = TRUE]  BY <1>5, <2>1
  <2>3. found'[r].retried = TRUE /\ found'[r].plan = found[r].plan  BY <2>1, <2>2, NothingGathered
  <2>4. req'[r].pc = "group"  BY <1>1, <1>2, <1>5, GoesOn DEF Free
  <2> QED BY <1>1, <2>3, <2>4 DEF Ranked
<1>6. CASE retry(r)  BY <1>3, <1>5, <1>6, Zenon DEF retry
<1> QED BY <1>3, <1>4, <1>6

LEMMA ProvenanceKeeps ==
    ASSUME AccessInv, Ranking, NEW r \in Request, memory_provenance(r)
    PROVE  Ranked(req'[r], found'[r])
<1>1. req[r].pc = "provenance" /\ Goes(r, "answered") /\ \E v : Finds(r, "provenance", v)
  BY DEF memory_provenance, At
<1>2. PICK v : Finds(r, "provenance", v)  BY <1>1
<1>3. Shapes /\ Ranked(req[r], found[r])  BY DEF AccessInv, Ranking
<1>4. "provenance" \in DOMAIN NoSearch  BY NothingGathered
<1>5. \A g \in DOMAIN NoSearch \ {"provenance"} : found'[r][g] = found[r][g]  BY <1>2, <1>3, <1>4, FindsIt
<1>6. /\ found'[r].documents = found[r].documents /\ found'[r].plan = found[r].plan
      /\ found'[r].hits = found[r].hits /\ found'[r].retried = found[r].retried
      /\ found'[r].candidates = found[r].candidates
  BY <1>5, NothingGathered
<1>7. req'[r].pc = "answered"  BY <1>1, <1>3, GoesOn DEF Free
<1> QED BY <1>1, <1>3, <1>6, <1>7 DEF Ranked

LEMMA RankingStep ==
    ASSUME AccessInv, Ranking, [Next]_vars
    PROVE  Ranking'
<1>1. ASSUME NEW r \in Request, ServiceStep(r), UNCHANGED <<now, found>>
      PROVE  Ranking'
  <2>1. Moves(r) /\ Serves(r)  BY <1>1, ServiceMoves DEF AccessInv
  <2>2. found' = found /\ \A s \in Request \ {r} : req'[s] = req[s]  BY <1>1, <2>1 DEF Moves
  <2>3. Ranked(req'[r], found'[r])
    <3>1. found'[r].plan \in Plan \cup {Plain}  BY <2>2 DEF Ranking, Ranked
    <3>2. req'[r].pc \notin {"group", "rerank", "provenance", "answered"}  BY <2>1 DEF Serves, SearchPc
    <3> QED BY <3>1, <3>2, NotYetRanked
  <2> QED BY <2>2, <2>3 DEF Ranking
<1>2. ASSUME NEW r \in Request, SearchStep(r)
      PROVE  Ranking'
  <2>1. Moves(r) /\ FoundMoves(r)  BY <1>2, SearchMoves
  <2>2. Ranked(req'[r], found'[r])
    BY <1>2, SearchingKeepsPlan, SettlingRetries, GroupingReaches, RerankingKeeps, ProvenanceKeeps, Zenon
       DEF SearchStep
  <2> QED BY <2>1, <2>2 DEF Ranking, Moves, FoundMoves
<1>3. ASSUME UNCHANGED <<req, found>>
      PROVE  Ranking'
  BY <1>3 DEF Ranking
<1> QED BY <1>1, <1>2, <1>3 DEF Next, Step, Tick, vars, serviceVars

\* Every hit is in the candidate of its document, or gives way to one ahead of it
\* (mod.rs:1990); and an answer has documents whenever there was a hit
\* (mod.rs:1973), whatever the reranker keeps.
THEOREM NoHitIsLost == Spec => []HitsReachReranker
<1>1. Init => AccessInv /\ Ranking  BY AccessInit, RankingInit
<1>2. AccessInv /\ Ranking /\ [Next]_vars => (AccessInv /\ Ranking)'  BY AccessStep, RankingStep
<1>3. ASSUME AccessInv, Ranking PROVE HitsReachReranker
  <2>1. ASSUME NEW r \in Request  PROVE Ranked(req[r], found[r]) /\ GroupLimit(r) = LateLimit(found[r].plan)
    BY <1>3 DEF Ranking, GroupLimit, DocLimit, LateLimit
  <2> QED BY <2>1 DEF HitsReachReranker, Ranked, Reaching, Apart, Constrained
<1> QED BY <1>1, <1>2, <1>3, PTL DEF Spec
=============================================================================

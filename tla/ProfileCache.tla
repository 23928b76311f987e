---------------------------- MODULE ProfileCache ----------------------------
(***************************************************************************)
(* The standing profile of a namespace (engine/mod.rs profile_tagged and   *)
(* engine/profile.rs), compiled from the facts of the index and cached for *)
(* an hour, beside the requests that change those facts (ReindexJob).      *)
(* Time is counted in ticks; ages are kept instead of timestamps and stop  *)
(* at PROFILE_TTL, past which they make no difference.                     *)
(***************************************************************************)
EXTENDS ReindexJob

CONSTANTS
    Reader,        \* requests that ask for the profile
    PROFILE_TTL    \* ticks a cached profile is served

ASSUME ProfileAssumption == PROFILE_TTL \in Nat \ {0}

VARIABLES
    cache,      \* the cached profile, or nothing: what it asserts and its age
    compiles,   \* the compile each reader runs
    gone        \* ticks since a statement that memory asserts left the index

profileVars == <<cache, compiles, gone>>
vars == <<jobVars, profileVars>>

NoEntry == [on |-> FALSE, says |-> {}, age |-> 0, overtaken |-> FALSE]
NoCompile == [pc |-> "idle", facts |-> {}, age |-> 0, overtaken |-> FALSE]

ProfileInit == cache = NoEntry /\ gone = <<>>
               /\ compiles = [r \in Reader |-> NoCompile]

Statement(f) == <<f.doc, f.at>>
Stated == {Statement(f) : f \in facts}
Older(n) == IF n < PROFILE_TTL THEN n + 1 ELSE n

\* A statement that memory asserts starts to age when it leaves the index.
KeepsAges ==
    LET stated == {Statement(f) : f \in facts'}
        asserted == cache'.says \cup UNION {compiles'[r].facts : r \in Reader}
    IN  gone' = [s \in asserted \ stated |-> IF s \in DOMAIN gone THEN gone[s] ELSE 0]

-----------------------------------------------------------------------------
\* A fresh entry is served as it is, which changes nothing.  Otherwise the
\* clock is read, then the profile is compiled; a refresh drops the entry first.
profile_tagged(r) ==
    /\ compiles[r].pc = "idle"
    /\ ~cache.on \/ cache.age = PROFILE_TTL
    /\ compiles' = [compiles EXCEPT ![r] = [NoCompile EXCEPT !.pc = "scroll"]]
    /\ UNCHANGED cache

refresh_profile(r) ==
    /\ compiles[r].pc = "idle" /\ cache.on
    /\ cache' = NoEntry
    /\ compiles' = [compiles EXCEPT ![r] = [NoCompile EXCEPT !.pc = "scroll"]]

\* The facts are scrolled; a failing scroll, or no fact, ends the compile with
\* the empty profile.
compile(r) ==
    /\ compiles[r].pc = "scroll"
    /\ \E says \in {Stated, {}} :
         compiles' = [compiles EXCEPT ![r].facts = says,
                          ![r].pc = IF says = {} THEN "insert" ELSE "ask"]
    /\ UNCHANGED cache

\* Two model calls, for the durable and the recent facts, between which nothing
\* is read.  A section whose call fails is empty; one section stands for both.
compiled(r) ==
    /\ compiles[r].pc = "ask"
    /\ \E says \in {compiles[r].facts, {}} :
         compiles' = [compiles EXCEPT ![r].facts = says, ![r].pc = "insert"]
    /\ UNCHANGED cache

\* Mutant: the entry is stamped when it is inserted.
insert_profile_stamped(r) ==
    /\ compiles[r].pc = "insert"
    /\ cache' = [on |-> TRUE, says |-> compiles[r].facts, age |-> 0,
                  overtaken |-> compiles[r].overtaken]
    /\ compiles' = [compiles EXCEPT ![r] = NoCompile]

\* The entry is stamped with the time read before the compile, and replaces
\* whatever another reader has inserted.
insert_profile(r) ==
    /\ compiles[r].pc = "insert"
    /\ cache' = [on |-> TRUE, says |-> compiles[r].facts, age |-> compiles[r].age,
                  overtaken |-> compiles[r].overtaken]
    /\ compiles' = [compiles EXCEPT ![r] = NoCompile]

\* A document delete drops the entry, not the compiles that have read it already.
invalidate_profile(d) ==
    /\ cache' = NoEntry
    /\ compiles' = [r \in Reader |-> [compiles[r] EXCEPT
                       !.overtaken = @ \/ \E s \in compiles[r].facts : s[1] = d]]

Tick ==
    /\ cache' = IF cache.on THEN [cache EXCEPT !.age = Older(@)] ELSE cache
    /\ compiles' = [r \in Reader |-> IF compiles[r].pc = "idle" THEN compiles[r]
                                     ELSE [compiles[r] EXCEPT !.age = Older(@)]]
    /\ gone' = [s \in DOMAIN gone |-> Older(gone[s])]

ProfileStep(r) ==
    \/ profile_tagged(r) \/ refresh_profile(r) \/ compile(r)
    \/ compiled(r)       \/ insert_profile(r)

-----------------------------------------------------------------------------
\* Only a delete that meets no error reaches the profile, at its end.
Deletes(d) == delete_succeeds(d) /\ invalidate_profile(d)

\* Everything but the profile's own steps.
FactSteps ==
    \/ \E d \in Doc : add_document(d) \/ insert_document(d) \/ ingest_facts(d)
    \/ \E d \in Doc : delete_document_tagged(d) \/ delete_fails(d)
    \/ \E d \in Doc : \E part \in docs[d].left : delete_by_filter(d, part)
    \/ \E f \in facts : forget_memory(f)
    \/ \E j \in Job : reindex(j) \/ JobStep(j) \/ model_silent(j)

\* The process dies, and with it what it holds in memory.
Restarts ==
    /\ restart
    /\ cache' = NoEntry /\ compiles' = [r \in Reader |-> NoCompile]

Init == JobInit /\ ProfileInit
Next ==
    \/ /\ \/ FactSteps /\ UNCHANGED <<cache, compiles>>
          \/ (\E d \in Doc : Deletes(d)) \/ Restarts
          \/ (\E r \in Reader : ProfileStep(r)) /\ UNCHANGED jobVars
       /\ KeepsAges
    \/ Tick /\ UNCHANGED jobVars

\* The runtime polls the spawned task whenever what it waits for is there: the
\* stores answer or time out, the model answers or else is silent, a step of its own.
Fairness == \A j \in Job : WF_vars(JobStep(j) /\ UNCHANGED <<cache, compiles>> /\ KeepsAges)
Spec == Init /\ [][Next]_vars /\ Fairness

-----------------------------------------------------------------------------
\* What the cache serves was true no longer ago than the entry is old: it
\* asserts nothing that left the index before the entry was stamped, so a fact
\* lost to a forget or a job is gone from it within the TTL.
ServedIsAsFreshAsStamped ==
    cache.on => \A s \in cache.says \ Stated : gone[s] <= cache.age

\* A document whose delete was acknowledged keeps no fact, though a job may list it
\* still, and is not "asserted from a stale standing profile" (mod.rs:2536).  Writers
\* that had its text when its facts went, a job or its ingest, and a compile that
\* had read it, are not stopped; a delete that returned an error promises nothing.
DeletedIsNotAsserted ==
    \A d \in Doc \ late : docs[d].st = "deleted" =>
        FactsOf(d) = {} /\ (cache.overtaken \/ \A s \in cache.says : s[1] # d)
=============================================================================

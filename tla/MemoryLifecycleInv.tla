-------------------------- MODULE MemoryLifecycleInv --------------------------
(***************************************************************************)
(* The inductive invariant of MemoryLifecycle: the safety properties hold  *)
(* because every call knows what it has and has not yet written, however   *)
(* the other calls interleave with it.                                     *)
(***************************************************************************)
EXTENDS MemoryLifecycle

\* The facts a call owns.
Batch(c) == DOMAIN near[c] \union DOMAIN plan[c] \union todo[c]

\* What a fact of namespace t may link to.
Linkable(t) == {m \in Tagged(t) : ~points[m].needs_review}

\* S is stored, with the links planned by c.
StoredAs(c, S) ==
    \A m \in S : m \in DOMAIN points /\ points[m].supersedes = plan[c][m].supersedes

AllDemoted(S) == \A m \in S : m \in DOMAIN points /\ ~points[m].is_latest

BatchIsOwned ==
    /\ DOMAIN points \subseteq minted
    /\ \A c \in Calls : Batch(c) \subseteq minted
    /\ \A c, d \in Calls : c # d => Batch(c) \intersect Batch(d) = {}

\* The neighbours c has read, and the links it plans, stay in its namespace.
LinkedPlan(c) ==
    /\ \A m \in DOMAIN near[c] : near[c][m] \subseteq Linkable(tag[c])
    /\ \A m \in DOMAIN plan[c] :
          {plan[c][m].supersedes, plan[c][m].extends} \ {None} \subseteq Linkable(tag[c])

\* What call c has not written yet.
Unwritten(c) ==
    /\ pc[c] \in {"search", "plain"} => Batch(c) \intersect DOMAIN points = {}
    /\ pc[c] \in {"flip", "supersede"} => Superseding(c) \intersect DOMAIN points = {}

\* What it has written.
Written(c) ==
    /\ pc[c] \in {"flip", "supersede"} => StoredAs(c, Plain(c))
    /\ pc[c] \in MirrorPhases => StoredAs(c, Kept(c))
    /\ pc[c] \in {"supersede"} \union MirrorPhases => AllDemoted(Superseded(c))
    /\ pc[c] = "pg_insert" => todo[c] \subseteq Kept(c)
    /\ pc[c] = "pg_mark" => todo[c] \subseteq Superseding(c)

OnCourse(c) ==
    /\ pc[c] = "idle" => Batch(c) = {}
    /\ LinkedPlan(c)
    /\ Unwritten(c)
    /\ Written(c)

\* The strengthening that makes the safety properties inductive: every call
\* stores its own facts only, links them to memories of its namespace only,
\* stores the plain ones before the flip and the superseding ones after it.
LifecycleInv ==
    /\ TypeOK
    /\ BatchIsOwned
    /\ \A c \in Calls : OnCourse(c)
    /\ ReplacementWaitsForDemotion
    /\ LinksStayInNamespace
    /\ MirrorTrailsIndex
==============================================================================

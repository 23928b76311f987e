---------------------------- MODULE TenantPolicy ----------------------------
(***************************************************************************)
(* Who may act where (tenant.rs, scope.rs): credentials bound to the       *)
(* namespaces they act as, and the grants that let a namespace read from,  *)
(* or promote into, another one.  Pure definitions.                        *)
(***************************************************************************)
EXTENDS Integers, Sequences, SequencesExt, FiniteSetsExt

CONSTANTS
    DEFAULT_TAG,   \* the namespace of a request that names none
    Absent,        \* no value
    Tenants,       \* ULTRAMEM_TENANTS: a sequence of [key, tags], "*" among the tags
    ApiKey,        \* ULTRAMEM_API_KEY, or Absent
    Trim(_)        \* a name without the blanks around it, Absent when it is blank

\* The entries are a list, and so are the tags of each.
ASSUME TenantsAssumption ==
    /\ Len(Tenants) \in Nat /\ DOMAIN Tenants = 1 .. Len(Tenants)
    /\ \A i \in DOMAIN Tenants :
          Len(Tenants[i].tags) \in Nat /\ DOMAIN Tenants[i].tags = 1 .. Len(Tenants[i].tags)

-----------------------------------------------------------------------------
\* The places of an entry's tags that are not blank.
Named(e) == {i \in DOMAIN e.tags : e.tags[i] # Absent}

\* A policy has its default first.
AnyTag == [any |-> TRUE, tags |-> {}, first |-> DEFAULT_TAG]
Only(e) == [any |-> FALSE, tags |-> {e.tags[i] : i \in Named(e)}, first |-> e.tags[Min(Named(e))]]

\* An entry without tags grants nothing; a later entry replaces an earlier one.
Usable == {i \in DOMAIN Tenants : Tenants[i].key # Absent /\ Named(Tenants[i]) # {}}

keys ==
    LET Entry(k) == Tenants[Max({i \in Usable : Tenants[i].key = k})]
        Policy(e) == IF "*" \in ToSet(e.tags) THEN AnyTag ELSE Only(e)
        listed == {Tenants[i].key : i \in Usable}
    IN  [k \in listed \cup ({ApiKey} \ {Absent}) |->
            IF k \in listed THEN Policy(Entry(k)) ELSE AnyTag]

\* The contexts a request may run in: none when its key is unknown, and any
\* tag when no key is configured.
context(bearer) ==
    IF DOMAIN keys = {} THEN {AnyTag} ELSE {keys[k] : k \in {bearer} \cap DOMAIN keys}

\* The namespace a request acts in, or nothing when its credential may not.
resolve(policy, asked) ==
    LET t == Trim(asked)
    IN  IF t = Absent THEN {policy.first} ELSE {s \in {t} : policy.any \/ s \in policy.tags}

\* A caller administers the scopes it may act as, by their exact names.
can_admin_scope(policy, scope) == scope \in resolve(policy, scope)

-----------------------------------------------------------------------------
CAPABILITIES == {"read", "write", "promote", "admin"}

\* Every capability reads.
visible_scopes(own, acls) ==
    {own} \cup {a.scope : a \in {e \in acls : e.capability \in CAPABILITIES}}

\* Mutant: whoever may write may also promote.
can_promote_or_write(principal, scope, acls) ==
    \E a \in acls : /\ a.principal = principal /\ a.scope = scope
                    /\ a.capability \in {"write", "promote", "admin"}

can_promote(principal, scope, acls) ==
    \E a \in acls : /\ a.principal = principal /\ a.scope = scope
                    /\ a.capability \in {"promote", "admin"}
=============================================================================

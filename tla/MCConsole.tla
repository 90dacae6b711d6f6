----------------------------- MODULE MCConsole -----------------------------
(* Console on small instances.                                              *)
EXTENDS Console, TLC

CONSTANTS o1, b1, m0, n1, email, id1, t1, h1, h3, h4, r1, r2

Symmetry == Permutations(Procs)

EachBuiltin == [s \in Scopes |-> IF s = b1 THEN email ELSE None]
EachSeed == [m \in Mappers |-> IF m = m0 THEN b1 ELSE None]

Body(id, scopes, public) == [id |-> id, scopes |-> scopes, public |-> public]
EachConfig == {Body(None, {}, TRUE), Body(id1, {n1}, FALSE)}

\* The primary host of t1 has no registrable domain: it is an address.
EachPrimary == [t \in Tenants |-> IF t = t1 THEN h1 ELSE h4]
EachRegistrable ==
    [h \in Hosts |-> IF h = h1 THEN None ELSE IF h = h3 THEN r2 ELSE r1]

(* The scenes a run looks into, each with bounds of its own. *)

OrgWrites == {"create org", "delete org"}
ScopeWrites == {"create scope", "update scope", "delete scope"}
MapperWrites == {"create mapper", "update mapper", "delete mapper"}
DomainWrites == {"insert domain", "restore domain", "remove domain"}

Unclaimed == Ids(mapper) = {m0}
FirstOrg == Ids(org) = {o1}
FirstHosts == \A h \in Ids(domain) : h = h1 \/ h = h4
NotOn(writes) == \A p \in Procs : pc[p] \notin writes
OnlyOn(writes) == \A p \in Procs : pc[p] \in writes \cup {"idle"}

\* Applications come and go while scopes are renamed and deleted.
Catalogue ==
    /\ FirstOrg /\ Unclaimed /\ FirstHosts
    /\ NotOn(OrgWrites \cup MapperWrites \cup DomainWrites)
    /\ Cardinality(Ids(app)) + Cardinality(Ids(scope)) <= 3

\* Mappers are written on scopes that come and go, and no client holds one.
Releases ==
    /\ FirstOrg /\ Ids(project) = {} /\ FirstHosts /\ OnlyOn(ScopeWrites \cup MapperWrites)
    /\ \A s \in Ids(scope) : scope[s].name \in {email, n1}
    /\ Cardinality(Ids(scope)) + Cardinality(Ids(mapper)) <= 4

\* Two tenants add, remove and restore hosts.
Hosting ==
    /\ FirstOrg /\ Ids(project) = {} /\ Unclaimed
    /\ Cardinality(Ids(scope)) = 1 /\ OnlyOn(DomainWrites)

\* Organizations and projects come and go.
Organizing ==
    /\ Ids(app) = {} /\ Unclaimed /\ FirstHosts /\ Cardinality(Ids(scope)) = 1
    /\ OnlyOn(OrgWrites \cup {"create project", "delete project"})

Within == Organizing \/ Catalogue \/ Releases \/ Hosting

=============================================================================

-------------------------------- MODULE Console --------------------------------
(***************************************************************************)
(* What administrators configure: organizations, projects and the          *)
(* applications in them, the scopes and claim mappers of the tenant, and   *)
(* the hosts a tenant is reached under.                                    *)
(*                                                                         *)
(* Every request reads, decides, and writes later: the reads of projects   *)
(* and applications are statements before the transaction, those of        *)
(* scopes, mappers and hosts are the snapshot of the transaction itself.   *)
(* The write finds the rows as they are by then, and only the row          *)
(* conditions of the statement and the unique keys guard it.               *)
(*                                                                         *)
(* Who may ask is in Owners, what a token request makes of scopes and      *)
(* mappers is in Authorization.                                            *)
(***************************************************************************)
EXTENDS Naturals, FiniteSets

CONSTANTS
    Procs,        \* requests that run side by side
    Orgs,
    DefaultOrg,   \* tenants.default_org_id, which nothing writes after the bootstrap
    Projects,
    Apps,         \* ids of applications, used once
    Scopes,       \* ids of scopes, used once
    Names,        \* names of scopes
    BuiltinName,  \* the name each builtin scope is seeded with, None for the others
    Mappers,      \* ids of claim mappers, used once
    SeedScope,    \* the builtin scope a seeded mapper belongs to, None for the others
    Claims,
    Protected,    \* claims no administrator writes: protectedClaims
    SeedClaim,    \* the protected claim that is seeded
    MaxMappers,   \* MaxMappersPerScope
    Configs,      \* bound: the clients that bodies describe
    Tenants,
    Hosts,
    PrimaryOf,    \* the host the issuer of each tenant names
    Registrable,  \* RegistrableDomain of each host, None for one that has none
    None          \* the absent value

ASSUME SeedAssumption ==
    /\ SeedClaim \in Protected /\ Protected \subseteq Claims
    /\ BuiltinName \in [Scopes -> Names \cup {None}]
    /\ \A s, u \in Scopes : BuiltinName[s] = BuiltinName[u] => s = u \/ BuiltinName[s] = None
    /\ SeedScope \in [Mappers -> Scopes \cup {None}]
    /\ \A m, n \in Mappers : SeedScope[m] = SeedScope[n] => m = n \/ SeedScope[m] = None
    /\ \A m \in Mappers : SeedScope[m] # None => BuiltinName[SeedScope[m]] # None
ASSUME ConfigAssumption == \A c \in Configs : c.scopes \subseteq Names /\ c.public \in BOOLEAN
ASSUME HostAssumption ==
    /\ PrimaryOf \in [Tenants -> Hosts]
    /\ \A t, u \in Tenants : PrimaryOf[t] = PrimaryOf[u] => t = u
ASSUME OrgAssumption == DefaultOrg \in Orgs
ASSUME LimitAssumption == MaxMappers \in Nat \ {0}

VARIABLES
    org,      \* organizations
    project,  \* projects: None before the create
    app,      \* applications, each with its row of application_oidc_configs
    scope,    \* oidc_scopes
    mapper,   \* oidc_claim_mappers
    domain,   \* tenant_domains
    stale,    \* history: requests whose reads another request has outdated
    raced,    \* history: what a write on outdated reads has left its rules behind on
    pc,       \* where each request stands: the write it is about to make
    req       \* its local variables

rows == <<org, project, app, scope, mapper, domain>>
vars == <<rows, stale, raced, pc, req>>

\* id: the client_id, None for one that is generated. secret: one was minted.
Client == [id : {None} \cup {c.id : c \in Configs}, scopes : SUBSET Names,
           public : BOOLEAN, secret : BOOLEAN]
App == [project : Projects, client : {None} \cup Client, live : BOOLEAN]
Scope == [name : Names, live : BOOLEAN]
Mapper == [scope : Scopes, claim : Claims, live : BOOLEAN]
Domain == [tenant : Tenants, active : BOOLEAN]

ASSUME NoRowAssumption == None \notin [live : BOOLEAN] \cup App \cup Client \cup Scope \cup Mapper \cup Domain

\* on: the row it writes. of: what its reads depend on. body: what it writes.
NoReq == [on |-> None, of |-> None, body |-> None]

Live(table, r) == table[r] # None /\ table[r].live
Ids(table) == {r \in DOMAIN table : table[r] # None}
Builtin(s) == BuiltinName[s] # None

\* Ids are generated and interchangeable: the next one, if the bound leaves any.
Fresh(table) ==
    LET free == {r \in DOMAIN table : table[r] = None /\ \A p \in Procs : req[p].on # r}
    IN  IF free = {} THEN {} ELSE {CHOOSE r \in free : TRUE}

Init ==
    /\ org = [o \in Orgs |-> IF o = DefaultOrg THEN [live |-> TRUE] ELSE None]
    /\ project = [j \in Projects |-> None]
    /\ app = [a \in Apps |-> None]
    /\ scope = [s \in Scopes |->
                  IF Builtin(s) THEN [name |-> BuiltinName[s], live |-> TRUE] ELSE None]
    /\ mapper = [m \in Mappers |->
                   IF SeedScope[m] = None THEN None
                   ELSE [scope |-> SeedScope[m], claim |-> SeedClaim, live |-> TRUE]]
    /\ domain = [h \in Hosts |->
                   IF \E t \in Tenants : PrimaryOf[t] = h
                   THEN [tenant |-> CHOOSE t \in Tenants : PrimaryOf[t] = h, active |-> TRUE]
                   ELSE None]
    /\ stale = {} /\ raced = {}
    /\ pc = [p \in Procs |-> "idle"]
    /\ req = [p \in Procs |-> NoReq]

\* The reads allow the write, which comes later.
Decide(p, write, on, of, body) ==
    /\ pc[p] = "idle"
    /\ pc' = [pc EXCEPT ![p] = write]
    /\ req' = [req EXCEPT ![p] = [on |-> on, of |-> of, body |-> body]]
    /\ UNCHANGED <<rows, stale, raced>>

\* The write commits, and outdates the reads of requests that depend on `things`.
Commit(p, write, things) ==
    /\ pc[p] = write
    /\ pc' = [pc EXCEPT ![p] = "idle"]
    /\ req' = [req EXCEPT ![p] = NoReq]
    /\ stale' = {q \in Procs \ {p} : q \in stale \/ (pc[q] # "idle" /\ req[q].of \in things)}

\* A row condition or a unique key stops the write, or the commit fails.
Abandon(p) ==
    /\ pc[p] # "idle"
    /\ Commit(p, pc[p], {})
    /\ UNCHANGED <<rows, raced>>

-----------------------------------------------------------------------------
(* Organizations, projects and applications.                               *)

CreateOrg(p) == \E o \in Fresh(org) : Decide(p, "create org", o, None, None)

InsertOrg(p) ==
    /\ Commit(p, "create org", {})
    /\ org' = [org EXCEPT ![req[p].on] = [live |-> TRUE]]
    /\ UNCHANGED <<project, app, scope, mapper, domain, raced>>

DeleteOrg(p) ==
    \E o \in Orgs \ {DefaultOrg} : Live(org, o) /\ Decide(p, "delete org", o, o, None)

\* The projects of the organization and its people are not touched.
SoftDeleteOrg(p) ==
    LET o == req[p].on
    IN  /\ Commit(p, "delete org", {o})
        /\ Live(org, o)
        /\ org' = [org EXCEPT ![o].live = FALSE]
        /\ UNCHANGED <<project, app, scope, mapper, domain, raced>>

\* Nothing looks up the organization that a project is created in.
CreateProject(p) == \E j \in Fresh(project) : Decide(p, "create project", j, None, None)

InsertProject(p) ==
    /\ Commit(p, "create project", {})
    /\ project' = [project EXCEPT ![req[p].on] = [live |-> TRUE]]
    /\ UNCHANGED <<org, app, scope, mapper, domain, raced>>

DeleteProject(p) ==
    \E j \in Projects : Live(project, j) /\ Decide(p, "delete project", j, j, None)

\* The applications of the project are not touched.
SoftDeleteProject(p) ==
    LET j == req[p].on
    IN  /\ Commit(p, "delete project", {j})
        /\ Live(project, j)
        /\ project' = [project EXCEPT ![j].live = FALSE]
        /\ UNCHANGED <<org, app, scope, mapper, domain, raced>>

\* The console reads an application together with its live project.
FindByID(a) == Live(app, a) /\ Live(project, app[a].project)

\* FindByClientID: the token endpoint reads it without the project.
Served(a) == Live(app, a) /\ app[a].client # None

NamesOf(client) == IF client = None THEN {} ELSE client.scopes

\* The scopes whose clients a write of this client changes.
Counted(client) == {s \in Ids(scope) : scope[s].name \in NamesOf(client)}

\* The unique key of live clients. A generated client_id is unlike any other.
ClientKey(a, id) ==
    id = None \/ \A b \in Apps \ {a} : Served(b) => app[b].client.id # id

\* The scopes of the body are written as they are: nothing looks them up.
CreateApp(p) ==
    \E a \in Fresh(app), j \in Projects, c \in Configs \cup {None} :
        /\ Live(project, j)
        /\ Decide(p, "create app", a, j,
             [project |-> j, live |-> TRUE,
              client |-> IF c = None THEN None
                         ELSE [id |-> c.id, scopes |-> c.scopes, public |-> c.public,
                               secret |-> FALSE]])

InsertApp(p) ==
    LET row == req[p].body
    IN  /\ Commit(p, "create app", Counted(row.client))
        /\ row.client # None => ClientKey(req[p].on, row.client.id)
        /\ app' = [app EXCEPT ![req[p].on] = row]
        /\ UNCHANGED <<org, project, scope, mapper, domain, raced>>

\* A body without a client, or an application without one, writes the name alone.
UpdateApp(p) ==
    \E a \in Apps, c \in Configs :
        /\ FindByID(a) /\ app[a].client # None
        /\ Decide(p, "update app", a, app[a].project, c)

UpdateConfig(p) ==
    LET a == req[p].on
        c == req[p].body
    IN  /\ Commit(p, "update app", {s \in Ids(scope) : scope[s].name \in c.scopes})
        /\ Live(app, a)
        /\ app' = [app EXCEPT ![a].client.scopes = c.scopes, ![a].client.public = c.public]
        /\ UNCHANGED <<org, project, scope, mapper, domain, raced>>

RotateSecret(p) ==
    \E a \in Apps :
        /\ FindByID(a) /\ app[a].client # None /\ ~app[a].client.public
        /\ Decide(p, "rotate secret", a, app[a].project, None)

SetSecret(p) ==
    LET a == req[p].on
    IN  /\ Commit(p, "rotate secret", {})
        /\ Live(app, a)
        /\ app' = [app EXCEPT ![a].client.secret = TRUE]
        /\ UNCHANGED <<org, project, scope, mapper, domain, raced>>

DeleteApp(p) ==
    \E a \in Apps : FindByID(a) /\ Decide(p, "delete app", a, app[a].project, None)

\* The client goes with its application.
SoftDeleteApp(p) ==
    LET a == req[p].on
    IN  /\ Commit(p, "delete app", {})
        /\ Live(app, a)
        /\ app' = [app EXCEPT ![a].live = FALSE]
        /\ UNCHANGED <<org, project, scope, mapper, domain, raced>>

-----------------------------------------------------------------------------
(* Scopes.                                                                 *)

\* FindScopeByName, freeName.
FreeName(name, keep) == \A s \in Scopes \ {keep} : Live(scope, s) => scope[s].name # name

\* Mutant of ScopeKey: deleted_at without IFNULL, where two live rows never collide.
ScopeKeyOfDeleted(s, name) == TRUE

\* uq_scope: the live scopes of a tenant have a name each.
ScopeKey(s, name) == FreeName(name, s)

CreateScope(p) ==
    \E s \in Fresh(scope), name \in Names :
        FreeName(name, None) /\ Decide(p, "create scope", s, s, name)

InsertScope(p) ==
    LET s == req[p].on
    IN  /\ Commit(p, "create scope", {})
        /\ ScopeKey(s, req[p].body)
        /\ scope' = [scope EXCEPT ![s] = [name |-> req[p].body, live |-> TRUE]]
        /\ UNCHANGED <<org, project, app, mapper, domain, raced>>

\* A builtin scope keeps its name. Nothing asks whether a client holds the old one.
UpdateScope(p) ==
    \E s \in Scopes :
        /\ Live(scope, s)
        /\ \E name \in IF Builtin(s) THEN {scope[s].name} ELSE Names :
            /\ name # scope[s].name => FreeName(name, s)
            /\ Decide(p, "update scope", s, s, name)

WriteScope(p) ==
    LET s == req[p].on
    IN  /\ Commit(p, "update scope", {s})
        /\ Live(scope, s) /\ ScopeKey(s, req[p].body)
        /\ scope' = [scope EXCEPT ![s].name = req[p].body]
        /\ UNCHANGED <<org, project, app, mapper, domain, raced>>

\* Mutant of ClientsWithScope: it joins the live projects, as the console does.
ClientsInReach(name) == {a \in Apps : FindByID(a) /\ name \in NamesOf(app[a].client)}

\* CountClientsWithScope.
ClientsWithScope(name) == {a \in Apps : Live(app, a) /\ name \in NamesOf(app[a].client)}

DeleteScope(p) ==
    \E s \in Scopes :
        /\ Live(scope, s) /\ ~Builtin(s)
        /\ ClientsWithScope(scope[s].name) = {}
        /\ Decide(p, "delete scope", s, s, None)

MappersOf(s) == {m \in Mappers : Live(mapper, m) /\ mapper[m].scope = s}

\* The live mappers of the scope go with it.
SoftDeleteScope(p) ==
    LET s == req[p].on
    IN  /\ Commit(p, "delete scope", {s})
        /\ Live(scope, s)
        /\ scope' = [scope EXCEPT ![s].live = FALSE]
        /\ mapper' = [m \in Mappers |->
                        IF m \in MappersOf(s) THEN [mapper[m] EXCEPT !.live = FALSE]
                        ELSE mapper[m]]
        /\ UNCHANGED <<org, project, app, domain, raced>>

-----------------------------------------------------------------------------
(* Claim mappers.                                                          *)

FreeClaim(s, claim, keep) == \A m \in MappersOf(s) \ {keep} : mapper[m].claim # claim

\* uq_mapper: the live mappers of a scope have a claim each.
MapperKey(m, s, claim) == FreeClaim(s, claim, m)

BelowLimit(s) == Cardinality(MappersOf(s)) < MaxMappers

CreateMapper(p) ==
    \E m \in Fresh(mapper), s \in Scopes, claim \in Claims \ Protected :
        /\ Live(scope, s) /\ BelowLimit(s) /\ FreeClaim(s, claim, None)
        /\ Decide(p, "create mapper", m, s, claim)

\* The foreign key is satisfied by a scope that was deleted meanwhile.
InsertMapper(p) ==
    LET m == req[p].on
        s == req[p].of
    IN  /\ Commit(p, "create mapper", {s})
        /\ MapperKey(m, s, req[p].body)
        /\ mapper' = [mapper EXCEPT ![m] = [scope |-> s, claim |-> req[p].body, live |-> TRUE]]
        /\ raced' = IF p \in stale THEN raced \cup {s} ELSE raced
        /\ UNCHANGED <<org, project, app, scope, domain>>

\* FindMapper, and the refusal of a protected claim.
Writable(m) == Live(mapper, m) /\ mapper[m].claim \notin Protected

UpdateMapper(p) ==
    \E m \in Mappers, claim \in Claims \ Protected :
        /\ Writable(m)
        /\ claim # mapper[m].claim => FreeClaim(mapper[m].scope, claim, m)
        /\ Decide(p, "update mapper", m, mapper[m].scope, claim)

WriteMapper(p) ==
    LET m == req[p].on
    IN  /\ Commit(p, "update mapper", {req[p].of})
        /\ Live(mapper, m) /\ MapperKey(m, req[p].of, req[p].body)
        /\ mapper' = [mapper EXCEPT ![m].claim = req[p].body]
        /\ UNCHANGED <<org, project, app, scope, domain, raced>>

DeleteMapper(p) ==
    \E m \in Mappers : Writable(m) /\ Decide(p, "delete mapper", m, mapper[m].scope, None)

SoftDeleteMapper(p) ==
    LET m == req[p].on
    IN  /\ Commit(p, "delete mapper", {req[p].of})
        /\ Live(mapper, m)
        /\ mapper' = [mapper EXCEPT ![m].live = FALSE]
        /\ UNCHANGED <<org, project, app, scope, domain, raced>>

-----------------------------------------------------------------------------
(* Hosts.                                                                  *)

ActiveHosts(t) == {h \in Ids(domain) : domain[h].tenant = t /\ domain[h].active}
Parents(hosts) == {Registrable[h] : h \in hosts} \ {None}

\* The middleware of every request: the tenant of the host, if its issuer names it.
TenantOf(h) ==
    IF domain[h] # None /\ domain[h].active /\ PrimaryOf[domain[h].tenant] = h
    THEN domain[h].tenant ELSE None

\* Mutant of Anchors: without a registrable primary host there is no anchor.
PrimaryAnchors(t) == Parents(ActiveHosts(t) \cap {PrimaryOf[t]})

\* registrableAnchor: that of the primary host, else that of the first in the list,
\* whose order is open here: every answer it may give.
Anchors(t) ==
    LET primary == Parents(ActiveHosts(t) \cap {PrimaryOf[t]})
    IN  IF primary # {} THEN primary ELSE Parents(ActiveHosts(t))

\* refuseAnotherRegistrableDomain.
Fits(t, h) ==
    Registrable[h] = None \/ Anchors(t) = {} \/ Registrable[h] \in Anchors(t)

\* A host the tenant once removed is restored whatever its registrable domain is.
AddDomain(p) ==
    \E t \in Tenants, h \in Hosts :
        \/ /\ domain[h] = [tenant |-> t, active |-> FALSE]
           /\ Decide(p, "restore domain", h, t, None)
        \/ /\ domain[h] = None /\ Fits(t, h)
           /\ Decide(p, "insert domain", h, t, None)

RestoreDomain(p) ==
    LET h == req[p].on
    IN  /\ Commit(p, "restore domain", {req[p].of})
        /\ domain' = [domain EXCEPT ![h].active = TRUE]
        /\ raced' = raced \cup {req[p].of}
        /\ UNCHANGED <<org, project, app, scope, mapper>>

\* The host is the primary key of all tenants.
InsertDomain(p) ==
    LET h == req[p].on
        t == req[p].of
    IN  /\ Commit(p, "insert domain", {t})
        /\ domain[h] = None
        /\ domain' = [domain EXCEPT ![h] = [tenant |-> t, active |-> TRUE]]
        /\ raced' = IF p \in stale THEN raced \cup {t} ELSE raced
        /\ UNCHANGED <<org, project, app, scope, mapper>>

RemoveDomain(p) ==
    \E t \in Tenants, h \in Hosts :
        /\ domain[h] # None /\ domain[h].tenant = t /\ h # PrimaryOf[t]
        /\ Decide(p, "remove domain", h, t, None)

DeactivateDomain(p) ==
    /\ Commit(p, "remove domain", {req[p].of})
    /\ domain' = [domain EXCEPT ![req[p].on].active = FALSE]
    /\ UNCHANGED <<org, project, app, scope, mapper, raced>>

-----------------------------------------------------------------------------
OrgStep(p) == CreateOrg(p) \/ InsertOrg(p) \/ DeleteOrg(p) \/ SoftDeleteOrg(p)

ProjectStep(p) ==
    \/ CreateProject(p) \/ InsertProject(p) \/ DeleteProject(p) \/ SoftDeleteProject(p)

AppStep(p) ==
    \/ CreateApp(p) \/ InsertApp(p) \/ UpdateApp(p) \/ UpdateConfig(p)
    \/ RotateSecret(p) \/ SetSecret(p) \/ DeleteApp(p) \/ SoftDeleteApp(p)

ScopeStep(p) ==
    \/ CreateScope(p) \/ InsertScope(p) \/ UpdateScope(p) \/ WriteScope(p)
    \/ DeleteScope(p) \/ SoftDeleteScope(p)

MapperStep(p) ==
    \/ CreateMapper(p) \/ InsertMapper(p) \/ UpdateMapper(p) \/ WriteMapper(p)
    \/ DeleteMapper(p) \/ SoftDeleteMapper(p)

DomainStep(p) ==
    \/ AddDomain(p) \/ RestoreDomain(p) \/ InsertDomain(p)
    \/ RemoveDomain(p) \/ DeactivateDomain(p)

Next ==
    \E p \in Procs :
        \/ OrgStep(p) \/ ProjectStep(p) \/ AppStep(p) \/ ScopeStep(p) \/ MapperStep(p) \/ DomainStep(p)
        \/ Abandon(p)

Spec == Init /\ [][Next]_vars

-----------------------------------------------------------------------------
(* Properties.                                                             *)

\* The tables hold rows of their shape, and the unique keys of the live clients,
\* scopes and mappers hold, whichever requests overlap.
TypeOK ==
    /\ \A o \in Orgs : org[o] = None \/ org[o] \in [live : BOOLEAN]
    /\ \A j \in Projects : project[j] = None \/ project[j] \in [live : BOOLEAN]
    /\ \A a \in Apps : app[a] = None \/ app[a] \in App
    /\ \A s \in Scopes : scope[s] = None \/ scope[s] \in Scope
    /\ \A m \in Mappers : mapper[m] = None \/ mapper[m] \in Mapper
    /\ \A h \in Hosts : domain[h] = None \/ domain[h] \in Domain
    /\ \A a \in Apps : Served(a) => ClientKey(a, app[a].client.id)
    /\ \A s \in Scopes : Live(scope, s) => FreeName(scope[s].name, s)
    /\ \A m \in Mappers : Live(mapper, m) => FreeClaim(mapper[m].scope, mapper[m].claim, m)
    /\ stale \subseteq {p \in Procs : pc[p] # "idle"}
    /\ raced \subseteq Scopes \cup Tenants

\* A scope releases at most MaxMappers claims, and no mapper outlives its scope, unless
\* a mapper was written on a scope that another request had changed since the count
\* (mapper_admin_service.go:163).
MappersFit ==
    \A s \in Scopes \ raced :
        /\ Cardinality(MappersOf(s)) <= MaxMappers
        /\ MappersOf(s) # {} => Live(scope, s)

\* The active hosts of a tenant are under one registrable domain, also while its primary
\* host has none, unless a removed host was put back or two writes overlapped
\* (admin_service.go:174).
HostsFit == \A t \in Tenants \ raced : Cardinality(Parents(ActiveHosts(t))) <= 1

\* No sequence of adds, removals and restores takes a tenant off the host its issuer
\* names, or hands that host to another tenant (admin_service.go:26).
TenantsReached == \A t \in Tenants : TenantOf(PrimaryOf[t]) = t

\* The limits that are read in one statement and relied on in another.
LimitsHold == MappersFit /\ HostsFit /\ TenantsReached

\* The write that a request makes in a step.
Does(p, write) == pc[p] = write /\ pc'[p] = "idle"

\* A scope is deleted only while no served client holds its name, the clients of deleted
\* projects among them, unless its clients or its name were written after the count
\* (scope_admin_service.go:268).
ScopesInUseStay ==
    \A s \in Scopes : Live(scope, s) /\ ~scope'[s].live =>
        \/ \A a \in Apps : Served(a) => scope[s].name \notin app[a].client.scopes
        \/ \E p \in stale : Does(p, "delete scope") /\ req[p].on = s

\* The client of a deleted project goes on being served and is out of the reach of every
\* administrator: only requests that had read the project before still change it
\* (project/service.go:219, application/repo.go:49).
OrphansStay ==
    \A a \in Apps : Served(a) /\ ~Live(project, app[a].project) /\ app'[a] # app[a] =>
        \E p \in stale : pc[p] # "idle" /\ pc'[p] = "idle" /\ req[p].on = a

\* The mapper of a claim that no administrator may write, which a tenant is seeded with,
\* is never written, deleted or taken along with its scope (mapper_admin_service.go:60),
\* and the default organization is never deleted (organization/service.go:253).
SeedsStay ==
    /\ \A m \in Mappers : SeedScope[m] # None => mapper'[m] = mapper[m]
    /\ org'[DefaultOrg] = org[DefaultOrg]

\* No write that was decided before a delete lands after it: a row that is deleted stays
\* deleted, and as it was.
Stays(table, after) == \A r \in DOMAIN table : table[r] # None /\ ~table[r].live => after[r] = table[r]

DeletedStay ==
    /\ Stays(org, org') /\ Stays(project, project') /\ Stays(app, app')
    /\ Stays(scope, scope') /\ Stays(mapper, mapper')

\* What a delete, an update and a rename may never take.
DeletesHold == [][ScopesInUseStay /\ OrphansStay /\ SeedsStay /\ DeletedStay]_vars

=============================================================================

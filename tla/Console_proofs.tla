---------------------------- MODULE Console_proofs ----------------------------
(***************************************************************************)
(* The console, proved for any number of administrators and rows. A        *)
(* request writes later than it decides: the invariant says what each      *)
(* request still knows about the rows it is going to write, and what it    *)
(* knows only while no other request has outdated its reads.               *)
(***************************************************************************)
EXTENDS Console, FiniteSetTheorems, TLAPS

-----------------------------------------------------------------------------
(* The invariant.                                                          *)

Writes == {"idle", "create org", "delete org", "create project", "delete project",
           "create app", "update app", "rotate secret", "delete app",
           "create scope", "update scope", "delete scope",
           "create mapper", "update mapper", "delete mapper",
           "insert domain", "restore domain", "remove domain"}

Creates == {"create org", "create project", "create app", "create scope", "create mapper"}

Locals == [on : {None} \cup Orgs \cup Projects \cup Apps \cup Scopes \cup Mappers \cup Hosts,
           of : {None} \cup Orgs \cup Projects \cup Scopes \cup Tenants,
           body : {None} \cup App \cup Configs \cup Names \cup Claims]

RowsTyped ==
    /\ org \in [Orgs -> {None} \cup [live : BOOLEAN]]
    /\ project \in [Projects -> {None} \cup [live : BOOLEAN]]
    /\ app \in [Apps -> {None} \cup App]
    /\ scope \in [Scopes -> {None} \cup Scope]
    /\ mapper \in [Mappers -> {None} \cup Mapper]
    /\ domain \in [Hosts -> {None} \cup Domain]
    /\ raced \subseteq Scopes \cup Tenants

CallsTyped ==
    /\ pc \in [Procs -> Writes]
    /\ req \in [Procs -> Locals]
    /\ stale \subseteq {p \in Procs : pc[p] # "idle"}

Typed == RowsTyped /\ CallsTyped

\* The unique keys of the live rows.
ClientKeys == \A a \in Apps : Served(a) => ClientKey(a, app[a].client.id)
ScopeKeys == \A s \in Scopes : Live(scope, s) => FreeName(scope[s].name, s)
MapperKeys == \A m \in Mappers : Live(mapper, m) => FreeClaim(mapper[m].scope, mapper[m].claim, m)

\* Nothing has written what the tenants were seeded with.
SeedOrg == org[DefaultOrg] # None
SeedMappers ==
    \A m \in Mappers : SeedScope[m] # None =>
        mapper[m] = [scope |-> SeedScope[m], claim |-> SeedClaim, live |-> TRUE]
SeedHosts == \A t \in Tenants : domain[PrimaryOf[t]] = [tenant |-> t, active |-> TRUE]

\* The limits, the first with the finiteness that makes it count.
MapperLimits == MappersFit /\ \A s \in Scopes : IsFiniteSet(MappersOf(s))
HostLimits == \A t \in Tenants \ raced : \A d, e \in Parents(ActiveHosts(t)) : d = e

RowsFit ==
    /\ ClientKeys /\ ScopeKeys /\ MapperKeys
    /\ SeedOrg /\ SeedMappers /\ SeedHosts
    /\ MapperLimits /\ HostLimits

\* No two requests create the same row.
OwnRow ==
    \A p, q \in Procs : pc[p] \in Creates /\ pc[p] = pc[q] /\ req[p].on = req[q].on => p = q

\* No request is about to write this row.
Unwritten(r) == \A x \in Procs : req[x].on # r

OrgKnown(where, q) ==
    /\ where = "create org" => q.on \in Orgs /\ org[q.on] = None
    /\ where = "delete org" => q.on \in Orgs \ {DefaultOrg} /\ org[q.on] # None

ProjectKnown(where, q) ==
    /\ where = "create project" => q.on \in Projects /\ project[q.on] = None
    /\ where = "delete project" => q.on \in Projects /\ project[q.on] # None

AppKnown(p, where, q) ==
    /\ where = "create app" => q.on \in Apps /\ app[q.on] = None /\ q.body \in App /\ q.body.live
    /\ where \in {"update app", "rotate secret", "delete app"} =>
          /\ q.on \in Apps /\ app[q.on] # None /\ q.of = app[q.on].project
          /\ p \in stale \/ Live(project, q.of)
    /\ where \in {"update app", "rotate secret"} => app[q.on].client # None
    /\ where = "update app" => q.body \in Configs

NameUnused(s) == \A a \in Apps : Served(a) => scope[s].name \notin app[a].client.scopes

ScopeKnown(p, where, q) ==
    /\ where = "create scope" => q.on \in Scopes /\ scope[q.on] = None /\ q.body \in Names
    /\ where = "update scope" => q.on \in Scopes /\ scope[q.on] # None /\ q.body \in Names
    /\ where = "delete scope" =>
          /\ q.on \in Scopes /\ scope[q.on] # None /\ ~Builtin(q.on) /\ q.of = q.on
          /\ p \in stale \/ NameUnused(q.on)

MapperKnown(p, where, q) ==
    /\ where = "create mapper" =>
          /\ q.on \in Mappers /\ mapper[q.on] = None /\ q.of \in Scopes /\ q.body \in Claims
          /\ p \in stale \/ (Live(scope, q.of) /\ BelowLimit(q.of))
    /\ where \in {"update mapper", "delete mapper"} =>
          /\ q.on \in Mappers /\ mapper[q.on] # None
          /\ SeedScope[q.on] = None /\ q.of = mapper[q.on].scope
    /\ where = "update mapper" => q.body \in Claims

DomainKnown(p, where, q) ==
    /\ where \in {"insert domain", "restore domain", "remove domain"} => q.on \in Hosts /\ q.of \in Tenants
    /\ where = "insert domain" => p \in stale \/ Fits(q.of, q.on)
    /\ where \in {"restore domain", "remove domain"} => domain[q.on] # None /\ domain[q.on].tenant = q.of
    /\ where = "remove domain" => q.on # PrimaryOf[q.of]

\* What a request knows until it writes.
Known(p, where, q) ==
    /\ OrgKnown(where, q) /\ ProjectKnown(where, q) /\ AppKnown(p, where, q)
    /\ ScopeKnown(p, where, q) /\ MapperKnown(p, where, q) /\ DomainKnown(p, where, q)

CallsKnow == \A p \in Procs : Known(p, pc[p], req[p])

IInv == Typed /\ RowsFit /\ OwnRow /\ CallsKnow

USE SeedAssumption, ConfigAssumption, HostAssumption, OrgAssumption, LimitAssumption, NoRowAssumption

-----------------------------------------------------------------------------
(* The tenants as they are seeded.                                         *)

LEMMA InitHolds == Init => IInv
<1> SUFFICES ASSUME Init
             PROVE  IInv
  OBVIOUS
<1>1. Typed
  <2>1. NoReq \in Locals
    BY DEF NoReq, Locals
  <2>2. pc \in [Procs -> Writes] /\ req \in [Procs -> Locals]
    BY <2>1 DEF Init, Writes
  <2>3. org \in [Orgs -> {None} \cup [live : BOOLEAN]] /\ project \in [Projects -> {None} \cup [live : BOOLEAN]]
    BY DEF Init
  <2>4. app \in [Apps -> {None} \cup App]
    BY DEF Init
  <2>5. scope \in [Scopes -> {None} \cup Scope]
    BY DEF Init, Scope, Builtin
  <2>6. mapper \in [Mappers -> {None} \cup Mapper]
    BY DEF Init, Mapper
  <2>7. domain \in [Hosts -> {None} \cup Domain]
    <3>1. ASSUME NEW h \in Hosts
          PROVE  domain[h] \in {None} \cup Domain
      <4>1. CASE \E t \in Tenants : PrimaryOf[t] = h
        <5>1. PICK t \in Tenants : t = CHOOSE u \in Tenants : PrimaryOf[u] = h
          BY <4>1
        <5>2. domain[h] = [tenant |-> t, active |-> TRUE]
          BY <4>1, <5>1 DEF Init
        <5> QED  BY <5>2 DEF Domain
      <4>2. CASE ~\E t \in Tenants : PrimaryOf[t] = h
        BY <4>2 DEF Init
      <4> QED  BY <4>1, <4>2
    <3> QED  BY <3>1 DEF Init
  <2> QED  BY <2>2, <2>3, <2>4, <2>5, <2>6, <2>7 DEF Init, Typed, RowsTyped, CallsTyped
<1>2. ClientKeys
  BY DEF Init, ClientKeys, Served, Live
<1>3. ScopeKeys
  BY DEF Init, ScopeKeys, FreeName, Live, Builtin, Scope
<1>4. MapperKeys
  BY DEF Init, MapperKeys, FreeClaim, MappersOf, Live, Mapper
<1>5. SeedOrg /\ SeedMappers
  <2>1. [live |-> TRUE] \in [live : BOOLEAN]
    OBVIOUS
  <2>2. org[DefaultOrg] = [live |-> TRUE]
    BY DEF Init
  <2>3. SeedMappers
    BY DEF Init, SeedMappers
  <2> QED  BY <2>1, <2>2, <2>3 DEF SeedOrg
<1>6. SeedHosts
  <2> SUFFICES ASSUME NEW t \in Tenants
               PROVE  domain[PrimaryOf[t]] = [tenant |-> t, active |-> TRUE]
    BY DEF SeedHosts
  <2>1. t = CHOOSE u \in Tenants : PrimaryOf[u] = PrimaryOf[t]
    OBVIOUS
  <2> QED  BY <2>1 DEF Init
<1>7. MapperLimits
  <2> SUFFICES ASSUME NEW s \in Scopes
               PROVE  /\ IsFiniteSet(MappersOf(s)) /\ Cardinality(MappersOf(s)) <= MaxMappers
                      /\ MappersOf(s) # {} => Live(scope, s)
    BY DEF MapperLimits, MappersFit
  <2>1. \A m \in MappersOf(s) : SeedScope[m] = s
    BY DEF Init, MappersOf, Live
  <2>2. CASE MappersOf(s) = {}
    BY <2>2, FS_EmptySet
  <2>3. CASE MappersOf(s) # {}
    <3>1. PICK m \in Mappers : m \in MappersOf(s)
      BY <2>3 DEF MappersOf
    <3>2. SeedScope[m] = s /\ s # None
      BY <2>1, <3>1 DEF Init, MappersOf, Live
    <3>3. MappersOf(s) = {m}
      BY <2>1, <3>1, <3>2 DEF MappersOf
    <3>4. Live(scope, s)
      <4>1. BuiltinName[s] # None
        BY <3>1, <3>2
      <4>2. scope[s] = [name |-> BuiltinName[s], live |-> TRUE]
        BY <4>1 DEF Init, Builtin
      <4>3. scope[s] \in Scope
        BY <4>1, <4>2 DEF Scope
      <4>4. scope[s] # None
        BY <4>3
      <4>5. scope[s].live
        BY <4>2
      <4> QED  BY <4>4, <4>5 DEF Live
    <3>5. IsFiniteSet(MappersOf(s)) /\ Cardinality(MappersOf(s)) = 1
      <4>1. IsFiniteSet({m}) /\ Cardinality({m}) = 1
        BY FS_Singleton
      <4> QED  BY <3>3, <4>1
    <3>6. 1 <= MaxMappers
      OBVIOUS
    <3> QED  BY <3>4, <3>5, <3>6
  <2> QED  BY <2>2, <2>3
<1>8. HostLimits
  <2> SUFFICES ASSUME NEW t \in Tenants, NEW d \in Parents(ActiveHosts(t)), NEW e \in Parents(ActiveHosts(t))
               PROVE  d = e
    BY DEF HostLimits
  <2>1. \A h \in ActiveHosts(t) : h = PrimaryOf[t]
    <3> SUFFICES ASSUME NEW h \in ActiveHosts(t)
                 PROVE  h = PrimaryOf[t]
      OBVIOUS
    <3>1. h \in Hosts /\ domain[h] # None /\ domain[h].tenant = t
      BY <1>1 DEF Typed, RowsTyped, ActiveHosts, Ids
    <3>2. \E u \in Tenants : PrimaryOf[u] = h
      BY <3>1 DEF Init
    <3>3. PICK u \in Tenants : u = CHOOSE v \in Tenants : PrimaryOf[v] = h
      BY <3>2
    <3>4. domain[h] = [tenant |-> u, active |-> TRUE] /\ PrimaryOf[u] = h
      BY <3>1, <3>2, <3>3 DEF Init
    <3> QED  BY <3>1, <3>4
  <2> QED  BY <2>1 DEF Parents
<1>9. OwnRow /\ CallsKnow
  BY DEF Init, OwnRow, CallsKnow, Creates, Known, OrgKnown, ProjectKnown, AppKnown, ScopeKnown,
         MapperKnown, DomainKnown
<1> QED  BY <1>1, <1>2, <1>3, <1>4, <1>5, <1>6, <1>7, <1>8, <1>9 DEF IInv, RowsFit

-----------------------------------------------------------------------------
(* What a step leaves alone.                                               *)

LEMMA RowsUntouched ==
  ASSUME IInv, raced \subseteq raced'
  PROVE  /\ UNCHANGED app => ClientKeys'
         /\ UNCHANGED scope => ScopeKeys'
         /\ UNCHANGED mapper => MapperKeys' /\ SeedMappers'
         /\ UNCHANGED org => SeedOrg'
         /\ UNCHANGED <<mapper, scope>> => MapperLimits'
         /\ UNCHANGED domain => SeedHosts' /\ HostLimits'
<1>1. UNCHANGED app => ClientKeys'
  BY DEF IInv, RowsFit, ClientKeys, Served, Live, ClientKey
<1>2. UNCHANGED scope => ScopeKeys'
  BY DEF IInv, RowsFit, ScopeKeys, FreeName, Live
<1>3. UNCHANGED mapper => MapperKeys'
  BY DEF IInv, RowsFit, MapperKeys, FreeClaim, MappersOf, Live
<1>4. UNCHANGED mapper => SeedMappers'
  BY DEF IInv, RowsFit, SeedMappers
<1>5. UNCHANGED org => SeedOrg'
  BY DEF IInv, RowsFit, SeedOrg
<1>6. UNCHANGED <<mapper, scope>> => MapperLimits'
  BY DEF IInv, RowsFit, MapperLimits, MappersFit, MappersOf, Live
<1>7. UNCHANGED domain => SeedHosts'
  BY DEF IInv, RowsFit, SeedHosts
<1>8. UNCHANGED domain => HostLimits'
  BY DEF IInv, RowsFit, HostLimits, Parents, ActiveHosts, Ids
<1> QED  BY <1>1, <1>2, <1>3, <1>4, <1>5, <1>6, <1>7, <1>8

\* A request that stands still, and whose reads stay outdated once they are,
\* knows of a table that is not written what it knew.
LEMMA CallUntouched ==
  ASSUME IInv, NEW x \in Procs, pc'[x] = pc[x], req'[x] = req[x], x \in stale => x \in stale'
  PROVE  /\ UNCHANGED org => OrgKnown(pc[x], req[x])'
         /\ UNCHANGED project => ProjectKnown(pc[x], req[x])'
         /\ UNCHANGED <<app, project>> => AppKnown(x, pc[x], req[x])'
         /\ UNCHANGED <<app, scope>> => ScopeKnown(x, pc[x], req[x])'
         /\ UNCHANGED <<mapper, scope>> => MapperKnown(x, pc[x], req[x])'
         /\ UNCHANGED domain => DomainKnown(x, pc[x], req[x])'
<1>1. Known(x, pc[x], req[x])
  BY DEF IInv, CallsKnow
<1>2. UNCHANGED org => OrgKnown(pc[x], req[x])'
  BY <1>1 DEF Known, OrgKnown
<1>3. UNCHANGED project => ProjectKnown(pc[x], req[x])'
  BY <1>1 DEF Known, ProjectKnown
<1>4. UNCHANGED <<app, project>> => AppKnown(x, pc[x], req[x])'
  BY <1>1 DEF Known, AppKnown, Live
<1>5. UNCHANGED <<app, scope>> => ScopeKnown(x, pc[x], req[x])'
  BY <1>1 DEF Known, ScopeKnown, NameUnused, Served, Live
<1>6. UNCHANGED <<mapper, scope>> => MapperKnown(x, pc[x], req[x])'
  <2> SUFFICES ASSUME UNCHANGED <<mapper, scope>>
               PROVE  MapperKnown(x, pc[x], req[x])'
    OBVIOUS
  <2>1. \A s : MappersOf(s)' = MappersOf(s) /\ Live(scope, s)' = Live(scope, s)
    BY DEF MappersOf, Live
  <2>2. \A s : BelowLimit(s)' = BelowLimit(s)
    BY <2>1 DEF BelowLimit
  <2> QED  BY <1>1, <2>1, <2>2 DEF Known, MapperKnown
<1>7. UNCHANGED domain => DomainKnown(x, pc[x], req[x])'
  <2> SUFFICES ASSUME UNCHANGED domain
               PROVE  DomainKnown(x, pc[x], req[x])'
    OBVIOUS
  <2>1. \A t : ActiveHosts(t)' = ActiveHosts(t)
    BY DEF ActiveHosts, Ids
  <2>2. \A t : Anchors(t)' = Anchors(t)
    BY <2>1 DEF Anchors, Parents
  <2>3. \A t, h : Fits(t, h)' = Fits(t, h)
    BY <2>2 DEF Fits
  <2> QED  BY <1>1, <2>3 DEF Known, DomainKnown
<1> QED  BY <1>2, <1>3, <1>4, <1>5, <1>6, <1>7
-----------------------------------------------------------------------------
(* A request decides, and writes later.                                    *)

LEMMA DecideKeeps ==
  ASSUME IInv, NEW p \in Procs, NEW write \in Writes \ {"idle"}, NEW on, NEW of, NEW body,
         Decide(p, write, on, of, body), NEW q \in Locals, q = [on |-> on, of |-> of, body |-> body],
         write \in Creates => Unwritten(on), Known(p, write, q)
  PROVE  IInv'
<1>1. /\ pc[p] = "idle"
      /\ pc' = [pc EXCEPT ![p] = write]
      /\ req' = [req EXCEPT ![p] = q]
      /\ UNCHANGED <<org, project, app, scope, mapper, domain, stale, raced>>
  BY DEF Decide, rows
<1>2. pc \in [Procs -> Writes] /\ req \in [Procs -> Locals]
  BY DEF IInv, Typed, CallsTyped
<1>3. /\ pc'[p] = write /\ req'[p] = q
      /\ \A x \in Procs \ {p} : pc'[x] = pc[x] /\ req'[x] = req[x]
  BY <1>1, <1>2
<1>4. Typed'
  <2>1. RowsTyped'
    BY <1>1 DEF IInv, Typed, RowsTyped
  <2>2. pc' \in [Procs -> Writes] /\ req' \in [Procs -> Locals]
    BY <1>1, <1>2
  <2>3. stale' \subseteq {x \in Procs : pc'[x] # "idle"}
    BY <1>1, <1>3 DEF IInv, Typed, CallsTyped
  <2> QED  BY <2>1, <2>2, <2>3 DEF Typed, CallsTyped
<1>5. RowsFit'
  BY <1>1, RowsUntouched DEF RowsFit
<1>6. OwnRow'
  <2>1. q.on = on
    OBVIOUS
  <2>2. \A x, y \in Procs \ {p} : pc[x] \in Creates /\ pc[x] = pc[y] /\ req[x].on = req[y].on => x = y
    BY DEF IInv, OwnRow
  <2>3. \A x \in Procs \ {p} : write \in Creates => req[x].on # q.on
    BY <2>1 DEF Unwritten
  <2> SUFFICES ASSUME NEW x \in Procs, NEW y \in Procs, pc'[x] \in Creates, pc'[x] = pc'[y], req'[x].on = req'[y].on
               PROVE  x = y
    BY DEF OwnRow
  <2> QED  BY <1>3, <2>2, <2>3
<1>7. CallsKnow'
  <2> SUFFICES ASSUME NEW x \in Procs
               PROVE  Known(x, pc[x], req[x])'
    BY DEF CallsKnow
  <2>1. CASE x = p
    <3>1. Known(p, write, q)'
      <4>1. OrgKnown(write, q)' /\ ProjectKnown(write, q)'
        BY <1>1 DEF Known, OrgKnown, ProjectKnown
      <4>2. AppKnown(p, write, q)'
        BY <1>1 DEF Known, AppKnown, Live
      <4>3. ScopeKnown(p, write, q)'
        BY <1>1 DEF Known, ScopeKnown, NameUnused, Served, Live
      <4>4. MapperKnown(p, write, q)'
        <5>1. \A s : MappersOf(s)' = MappersOf(s) /\ Live(scope, s)' = Live(scope, s)
          BY <1>1 DEF MappersOf, Live
        <5>2. \A s : BelowLimit(s)' = BelowLimit(s)
          BY <5>1 DEF BelowLimit
        <5> QED  BY <1>1, <5>1, <5>2 DEF Known, MapperKnown
      <4>5. DomainKnown(p, write, q)'
        <5>1. \A t : ActiveHosts(t)' = ActiveHosts(t)
          BY <1>1 DEF ActiveHosts, Ids
        <5>2. \A t : Anchors(t)' = Anchors(t)
          BY <5>1 DEF Anchors, Parents
        <5>3. \A t, h : Fits(t, h)' = Fits(t, h)
          BY <5>2 DEF Fits
        <5> QED  BY <1>1, <5>3 DEF Known, DomainKnown
      <4> QED  BY <4>1, <4>2, <4>3, <4>4, <4>5 DEF Known
    <3> QED  BY <1>3, <2>1, <3>1
  <2>2. CASE x # p
    <3>1. pc'[x] = pc[x] /\ req'[x] = req[x]
      BY <1>3, <2>2
    <3> QED  BY <1>1, <3>1, CallUntouched DEF Known
  <2> QED  BY <2>1, <2>2
<1> QED  BY <1>4, <1>5, <1>6, <1>7 DEF IInv

\* What a commit makes of the requests: its own is over, and the others stand
\* where they stood, some of them outdated.
LEMMA Committed ==
  ASSUME IInv, NEW p \in Procs, NEW write, NEW things, Commit(p, write, things)
  PROVE  /\ pc[p] = write /\ pc'[p] = "idle" /\ Known(p, write, req[p]) /\ req[p] \in Locals
         /\ \A x \in Procs \ {p} :
               /\ pc'[x] = pc[x] /\ req'[x] = req[x]
               /\ x \in stale => x \in stale'
               /\ pc[x] # "idle" /\ req[x].of \in things => x \in stale'
         /\ CallsTyped' /\ OwnRow'
<1>1. /\ pc[p] = write
      /\ pc' = [pc EXCEPT ![p] = "idle"]
      /\ req' = [req EXCEPT ![p] = NoReq]
      /\ stale' = {q \in Procs \ {p} : q \in stale \/ (pc[q] # "idle" /\ req[q].of \in things)}
  BY DEF Commit
<1>2. pc \in [Procs -> Writes] /\ req \in [Procs -> Locals] /\ stale \subseteq {x \in Procs : pc[x] # "idle"}
  BY DEF IInv, Typed, CallsTyped
<1>3. /\ pc'[p] = "idle"
      /\ \A x \in Procs \ {p} : pc'[x] = pc[x] /\ req'[x] = req[x]
  BY <1>1, <1>2
<1>4. Known(p, write, req[p]) /\ req[p] \in Locals
  BY <1>1, <1>2 DEF IInv, CallsKnow
<1>5. \A x \in Procs \ {p} :
         /\ x \in stale => x \in stale'
         /\ pc[x] # "idle" /\ req[x].of \in things => x \in stale'
  BY <1>1
<1>6. CallsTyped'
  <2>1. NoReq \in Locals /\ "idle" \in Writes
    BY DEF NoReq, Locals, Writes
  <2>2. pc' \in [Procs -> Writes] /\ req' \in [Procs -> Locals]
    BY <1>1, <1>2, <2>1
  <2>3. stale' \subseteq {x \in Procs : pc'[x] # "idle"}
    BY <1>1, <1>2, <1>3
  <2> QED  BY <2>2, <2>3 DEF CallsTyped
<1>7. OwnRow'
  <2> SUFFICES ASSUME NEW x \in Procs, NEW y \in Procs, pc'[x] \in Creates, pc'[x] = pc'[y], req'[x].on = req'[y].on
               PROVE  x = y
    BY DEF OwnRow
  <2>1. x # p /\ y # p
    BY <1>3 DEF Creates
  <2> QED  BY <1>3, <2>1 DEF IInv, OwnRow
<1> QED  BY <1>1, <1>3, <1>4, <1>5, <1>6, <1>7

\* A commit keeps the invariant if its rows do, and what the others know.
LEMMA CommitKeeps ==
  ASSUME IInv, NEW p \in Procs, NEW write, NEW things, Commit(p, write, things),
         RowsTyped', RowsFit', \A x \in Procs \ {p} : Known(x, pc[x], req[x])'
  PROVE  IInv'
<1>1. pc'[p] = "idle" /\ CallsTyped' /\ OwnRow'
  BY Committed
<1>2. Known(p, pc[p], req[p])'
  BY <1>1 DEF Known, OrgKnown, ProjectKnown, AppKnown, ScopeKnown, MapperKnown, DomainKnown
<1>3. CallsKnow'
  <2> SUFFICES ASSUME NEW x \in Procs
               PROVE  Known(x, pc[x], req[x])'
    BY DEF CallsKnow
  <2>1. CASE x = p
    BY <1>2, <2>1
  <2>2. CASE x # p
    BY <2>2
  <2> QED  BY <2>1, <2>2
<1> QED  BY <1>1, <1>3 DEF IInv, Typed

\* A request that cannot write leaves the rows alone.
LEMMA AbandonKeeps ==
  ASSUME IInv, NEW p \in Procs, Abandon(p)
  PROVE  IInv'
<1>1. Commit(p, pc[p], {}) /\ UNCHANGED <<org, project, app, scope, mapper, domain, raced>>
  BY DEF Abandon, rows
<1>2. RowsTyped'
  BY <1>1 DEF IInv, Typed, RowsTyped
<1>3. RowsFit'
  BY <1>1, RowsUntouched DEF RowsFit
<1>4. ASSUME NEW x \in Procs \ {p}
      PROVE  Known(x, pc[x], req[x])'
  <2>1. pc'[x] = pc[x] /\ req'[x] = req[x] /\ (x \in stale => x \in stale')
    BY <1>1, Committed
  <2> QED  BY <1>1, <2>1, CallUntouched DEF Known
<1> QED  BY <1>1, <1>2, <1>3, <1>4, CommitKeeps

\* An id that is handed out is of no row yet, and of no other request.
LEMMA FreshIds ==
  ASSUME NEW table, NEW r \in Fresh(table)
  PROVE  r \in DOMAIN table /\ table[r] = None /\ Unwritten(r)
<1> DEFINE free == {d \in DOMAIN table : table[d] = None /\ \A p \in Procs : req[p].on # d}
<1>1. free # {} /\ r = CHOOSE d \in free : TRUE
  BY DEF Fresh
<1>2. r \in free
  BY <1>1
<1> QED  BY <1>2 DEF Unwritten

-----------------------------------------------------------------------------
(* Organizations and projects.                                             *)

LEMMA DecideOrgs ==
  ASSUME IInv, NEW p \in Procs, CreateOrg(p) \/ DeleteOrg(p) \/ CreateProject(p) \/ DeleteProject(p)
  PROVE  IInv'
<1>1. DOMAIN org = Orgs /\ DOMAIN project = Projects
  BY DEF IInv, Typed, RowsTyped
<1>2. CASE CreateOrg(p)
  <2>1. PICK o \in Fresh(org) : Decide(p, "create org", o, None, None)
    BY <1>2 DEF CreateOrg
  <2>2. o \in Orgs /\ org[o] = None /\ Unwritten(o)
    BY <1>1, FreshIds
  <2>3. PICK q : q = [on |-> o, of |-> None, body |-> None]
    OBVIOUS
  <2>4. q \in Locals /\ "create org" \in Writes \ {"idle"}
    BY <2>2, <2>3 DEF Locals, Writes
  <2>5. Known(p, "create org", q)
    BY <2>2, <2>3 DEF Known, OrgKnown, ProjectKnown, AppKnown, ScopeKnown, MapperKnown, DomainKnown
  <2> QED  BY <2>1, <2>2, <2>3, <2>4, <2>5, DecideKeeps
<1>3. CASE DeleteOrg(p)
  <2>1. PICK o \in Orgs \ {DefaultOrg} : Live(org, o) /\ Decide(p, "delete org", o, o, None)
    BY <1>3 DEF DeleteOrg
  <2>2. PICK q : q = [on |-> o, of |-> o, body |-> None]
    OBVIOUS
  <2>3. q \in Locals /\ "delete org" \in Writes \ {"idle"} /\ "delete org" \notin Creates
    BY <2>1, <2>2 DEF Locals, Writes, Creates
  <2>4. Known(p, "delete org", q)
    BY <2>1, <2>2 DEF Known, OrgKnown, ProjectKnown, AppKnown, ScopeKnown, MapperKnown, DomainKnown, Live
  <2> QED  BY <2>1, <2>2, <2>3, <2>4, DecideKeeps
<1>4. CASE CreateProject(p)
  <2>1. PICK j \in Fresh(project) : Decide(p, "create project", j, None, None)
    BY <1>4 DEF CreateProject
  <2>2. j \in Projects /\ project[j] = None /\ Unwritten(j)
    BY <1>1, FreshIds
  <2>3. PICK q : q = [on |-> j, of |-> None, body |-> None]
    OBVIOUS
  <2>4. q \in Locals /\ "create project" \in Writes \ {"idle"}
    BY <2>2, <2>3 DEF Locals, Writes
  <2>5. Known(p, "create project", q)
    BY <2>2, <2>3 DEF Known, OrgKnown, ProjectKnown, AppKnown, ScopeKnown, MapperKnown, DomainKnown
  <2> QED  BY <2>1, <2>2, <2>3, <2>4, <2>5, DecideKeeps
<1>5. CASE DeleteProject(p)
  <2>1. PICK j \in Projects : Live(project, j) /\ Decide(p, "delete project", j, j, None)
    BY <1>5 DEF DeleteProject
  <2>2. PICK q : q = [on |-> j, of |-> j, body |-> None]
    OBVIOUS
  <2>3. q \in Locals /\ "delete project" \in Writes \ {"idle"} /\ "delete project" \notin Creates
    BY <2>1, <2>2 DEF Locals, Writes, Creates
  <2>4. Known(p, "delete project", q)
    BY <2>1, <2>2 DEF Known, OrgKnown, ProjectKnown, AppKnown, ScopeKnown, MapperKnown, DomainKnown, Live
  <2> QED  BY <2>1, <2>2, <2>3, <2>4, DecideKeeps
<1> QED  BY <1>2, <1>3, <1>4, <1>5

\* Only a request that had read an organization deletes it, and no request
\* deletes the default one.
LEMMA WriteOrg ==
  ASSUME IInv, NEW p \in Procs, InsertOrg(p) \/ SoftDeleteOrg(p)
  PROVE  /\ IInv'
         /\ \A o \in Orgs : org[o] # None => org'[o] # None /\ (~org[o].live => org'[o] = org[o])
         /\ org'[DefaultOrg] = org[DefaultOrg]
<1>1. PICK o, row, things :
        /\ row \in [live : BOOLEAN] /\ org' = [org EXCEPT ![o] = row]
        /\ UNCHANGED <<project, app, scope, mapper, domain, raced>>
        /\ o = req[p].on /\ pc[p] \in {"create org", "delete org"}
        /\ pc[p] = "delete org" => Live(org, o)
        /\ Commit(p, pc[p], things)
  <2>1. CASE InsertOrg(p)
    <3>1. [live |-> TRUE] \in [live : BOOLEAN]
      OBVIOUS
    <3>2. Commit(p, pc[p], {}) /\ pc[p] = "create org"
      BY <2>1 DEF InsertOrg, Commit
    <3> QED  BY <2>1, <3>1, <3>2 DEF InsertOrg
  <2>2. CASE SoftDeleteOrg(p)
    <3>1. Commit(p, pc[p], {req[p].on}) /\ pc[p] = "delete org" /\ Live(org, req[p].on)
      BY <2>2 DEF SoftDeleteOrg, Commit
    <3>2. req[p].on \in Orgs /\ org[req[p].on] \in [live : BOOLEAN]
      BY <3>1 DEF IInv, CallsKnow, Known, OrgKnown, Typed, RowsTyped
    <3>3. PICK row : row = [org[req[p].on] EXCEPT !.live = FALSE]
      OBVIOUS
    <3>4. row \in [live : BOOLEAN] /\ org' = [org EXCEPT ![req[p].on] = row]
      BY <2>2, <3>2, <3>3 DEF SoftDeleteOrg
    <3> QED  BY <2>2, <3>1, <3>4 DEF SoftDeleteOrg
  <2> QED  BY <2>1, <2>2
<1>2. o \in Orgs \ {DefaultOrg} /\ (pc[p] = "create org" => org[o] = None)
  BY <1>1 DEF IInv, CallsKnow, Known, OrgKnown, RowsFit, SeedOrg
<1>3. org \in [Orgs -> {None} \cup [live : BOOLEAN]]
  BY DEF IInv, Typed, RowsTyped
<1>4. /\ org'[o] = row /\ row # None
      /\ \A u \in Orgs \ {o} : org'[u] = org[u]
      /\ org' \in [Orgs -> {None} \cup [live : BOOLEAN]]
  BY <1>1, <1>2, <1>3
<1>5. RowsTyped'
  BY <1>1, <1>4 DEF IInv, Typed, RowsTyped
<1>6. RowsFit'
  <2>1. SeedOrg'
    BY <1>2, <1>4 DEF IInv, RowsFit, SeedOrg
  <2> QED  BY <1>1, <2>1, RowsUntouched DEF RowsFit
<1>7. ASSUME NEW x \in Procs \ {p}
      PROVE  Known(x, pc[x], req[x])'
  <2>1. pc'[x] = pc[x] /\ req'[x] = req[x] /\ (x \in stale => x \in stale')
    BY <1>1, Committed
  <2>2. OrgKnown(pc[x], req[x])
    BY DEF IInv, CallsKnow, Known
  <2>3. pc[x] = "create org" => req[x].on # o
    <3>1. CASE pc[p] = "create org"
      BY <1>1, <3>1 DEF IInv, OwnRow, Creates
    <3>2. CASE pc[p] = "delete org"
      BY <1>1, <2>2, <3>2 DEF OrgKnown, Live
    <3> QED  BY <1>1, <3>1, <3>2
  <2>4. OrgKnown(pc[x], req[x])'
    <3>1. \A u \in Orgs : org[u] # None => org'[u] # None
      BY <1>4
    <3>2. \A u \in Orgs : u # o => org'[u] = org[u]
      BY <1>4
    <3> QED  BY <2>1, <2>2, <2>3, <3>1, <3>2 DEF OrgKnown
  <2> QED  BY <1>1, <2>1, <2>4, CallUntouched DEF Known
<1>8. IInv'
  BY <1>1, <1>5, <1>6, <1>7, CommitKeeps
<1>9. \A u \in Orgs : org[u] # None => org'[u] # None /\ (~org[u].live => org'[u] = org[u])
  BY <1>1, <1>2, <1>4 DEF Live
<1> QED  BY <1>2, <1>4, <1>8, <1>9

\* A request that reads a project before it is deleted is outdated by that.
LEMMA WriteProject ==
  ASSUME IInv, NEW p \in Procs, InsertProject(p) \/ SoftDeleteProject(p)
  PROVE  /\ IInv'
         /\ \A j \in Projects : project[j] # None => project'[j] # None /\ (~project[j].live => project'[j] = project[j])
<1>1. PICK j, row, things :
        /\ row \in [live : BOOLEAN] /\ project' = [project EXCEPT ![j] = row]
        /\ UNCHANGED <<org, app, scope, mapper, domain, raced>>
        /\ j = req[p].on /\ pc[p] \in {"create project", "delete project"}
        /\ pc[p] = "delete project" => Live(project, j)
        /\ row.live \/ j \in things
        /\ Commit(p, pc[p], things)
  <2>1. CASE InsertProject(p)
    <3>1. [live |-> TRUE] \in [live : BOOLEAN]
      OBVIOUS
    <3>2. Commit(p, pc[p], {}) /\ pc[p] = "create project"
      BY <2>1 DEF InsertProject, Commit
    <3> QED  BY <2>1, <3>1, <3>2 DEF InsertProject
  <2>2. CASE SoftDeleteProject(p)
    <3>1. Commit(p, pc[p], {req[p].on}) /\ pc[p] = "delete project" /\ Live(project, req[p].on)
      BY <2>2 DEF SoftDeleteProject, Commit
    <3>2. req[p].on \in Projects /\ project[req[p].on] \in [live : BOOLEAN]
      BY <3>1 DEF IInv, CallsKnow, Known, ProjectKnown, Typed, RowsTyped
    <3>3. PICK row : row = [project[req[p].on] EXCEPT !.live = FALSE]
      OBVIOUS
    <3>4. row \in [live : BOOLEAN] /\ project' = [project EXCEPT ![req[p].on] = row]
      BY <2>2, <3>2, <3>3 DEF SoftDeleteProject
    <3> QED  BY <2>2, <3>1, <3>4 DEF SoftDeleteProject
  <2> QED  BY <2>1, <2>2
<1>2. j \in Projects /\ (pc[p] = "create project" => project[j] = None)
  BY <1>1 DEF IInv, CallsKnow, Known, ProjectKnown
<1>3. project \in [Projects -> {None} \cup [live : BOOLEAN]]
  BY DEF IInv, Typed, RowsTyped
<1>4. /\ project'[j] = row /\ row # None
      /\ \A u \in Projects \ {j} : project'[u] = project[u]
      /\ project' \in [Projects -> {None} \cup [live : BOOLEAN]]
  BY <1>1, <1>2, <1>3
<1>5. RowsTyped'
  BY <1>1, <1>4 DEF IInv, Typed, RowsTyped
<1>6. RowsFit'
  BY <1>1, RowsUntouched DEF RowsFit
<1>7. ASSUME NEW x \in Procs \ {p}
      PROVE  Known(x, pc[x], req[x])'
  <2>1. /\ pc'[x] = pc[x] /\ req'[x] = req[x] /\ (x \in stale => x \in stale')
        /\ pc[x] # "idle" /\ req[x].of \in things => x \in stale'
    BY <1>1, Committed
  <2>2. ProjectKnown(pc[x], req[x]) /\ AppKnown(x, pc[x], req[x])
    BY DEF IInv, CallsKnow, Known
  <2>3. pc[x] = "create project" => req[x].on # j
    <3>1. CASE pc[p] = "create project"
      BY <1>1, <3>1 DEF IInv, OwnRow, Creates
    <3>2. CASE pc[p] = "delete project"
      BY <1>1, <2>2, <3>2 DEF ProjectKnown, Live
    <3> QED  BY <1>1, <3>1, <3>2
  <2>4. ProjectKnown(pc[x], req[x])'
    <3>1. \A u \in Projects : project[u] # None => project'[u] # None
      BY <1>4
    <3>2. \A u \in Projects : u # j => project'[u] = project[u]
      BY <1>4
    <3> QED  BY <2>1, <2>2, <2>3, <3>1, <3>2 DEF ProjectKnown
  <2>5. AppKnown(x, pc[x], req[x])'
    <3>1. pc[x] \in {"update app", "rotate secret", "delete app"} =>
            /\ req[x].of \in Projects
            /\ x \in stale' \/ Live(project', req[x].of)
      <4> SUFFICES ASSUME pc[x] \in {"update app", "rotate secret", "delete app"}
                   PROVE  req[x].of \in Projects /\ (x \in stale' \/ Live(project', req[x].of))
        OBVIOUS
      <4>1. req[x].of \in Projects
        <5>1. app \in [Apps -> {None} \cup App]
          BY DEF IInv, Typed, RowsTyped
        <5>2. req[x].on \in Apps /\ app[req[x].on] # None /\ req[x].of = app[req[x].on].project
          BY <2>2 DEF AppKnown
        <5>3. app[req[x].on] \in App
          BY <5>1, <5>2
        <5> QED  BY <5>2, <5>3 DEF App
      <4>2. x \in stale \/ Live(project, req[x].of)
        BY <2>2 DEF AppKnown
      <4> QED  BY <1>1, <1>4, <2>1, <4>1, <4>2 DEF Live
    <3> QED  BY <1>1, <2>1, <2>2, <3>1 DEF AppKnown
  <2> QED  BY <1>1, <2>1, <2>4, <2>5, CallUntouched DEF Known
<1>8. IInv'
  BY <1>1, <1>5, <1>6, <1>7, CommitKeeps
<1>9. \A u \in Projects : project[u] # None => project'[u] # None /\ (~project[u].live => project'[u] = project[u])
  BY <1>1, <1>2, <1>4 DEF Live
<1> QED  BY <1>8, <1>9
-----------------------------------------------------------------------------
(* Applications.                                                           *)

LEMMA DecideApps ==
  ASSUME IInv, NEW p \in Procs, CreateApp(p) \/ UpdateApp(p) \/ RotateSecret(p) \/ DeleteApp(p)
  PROVE  IInv'
<1>1. app \in [Apps -> {None} \cup App]
  BY DEF IInv, Typed, RowsTyped
<1>2. CASE CreateApp(p)
  <2>1. PICK a, j, c, client, body :
          /\ a \in Fresh(app) /\ j \in Projects /\ c \in Configs \cup {None}
          /\ Decide(p, "create app", a, j, body)
          /\ client = IF c = None THEN None
                      ELSE [id |-> c.id, scopes |-> c.scopes, public |-> c.public, secret |-> FALSE]
          /\ body = [project |-> j, live |-> TRUE, client |-> client]
    BY <1>2 DEF CreateApp
  <2>2. a \in Apps /\ app[a] = None /\ Unwritten(a)
    BY <1>1, <2>1, FreshIds
  <2>3. client \in {None} \cup Client
    BY <2>1 DEF Client
  <2>4. body \in App /\ body.live
    BY <2>1, <2>3 DEF App
  <2>5. PICK q : q = [on |-> a, of |-> j, body |-> body]
    OBVIOUS
  <2>6. q \in Locals /\ "create app" \in Writes \ {"idle"}
    BY <2>1, <2>2, <2>4, <2>5 DEF Locals, Writes
  <2>7. Known(p, "create app", q)
    BY <2>2, <2>4, <2>5 DEF Known, OrgKnown, ProjectKnown, AppKnown, ScopeKnown, MapperKnown, DomainKnown
  <2> QED  BY <2>1, <2>2, <2>5, <2>6, <2>7, DecideKeeps
<1>3. ASSUME NEW a \in Apps, FindByID(a), NEW body \in {None} \cup Configs,
             NEW write \in {"update app", "rotate secret", "delete app"},
             Decide(p, write, a, app[a].project, body),
             write # "delete app" => app[a].client # None,
             write = "update app" => body \in Configs
      PROVE  IInv'
  <2>1. app[a] # None /\ app[a].project \in Projects /\ Live(project, app[a].project)
    BY <1>1, <1>3 DEF FindByID, Live, App
  <2>2. PICK q : q = [on |-> a, of |-> app[a].project, body |-> body]
    OBVIOUS
  <2>3. q \in Locals /\ write \in Writes \ {"idle"} /\ write \notin Creates
    BY <1>3, <2>1, <2>2 DEF Locals, Writes, Creates
  <2>4. Known(p, write, q)
    BY <1>3, <2>1, <2>2 DEF Known, OrgKnown, ProjectKnown, AppKnown, ScopeKnown, MapperKnown, DomainKnown
  <2> QED  BY <1>3, <2>2, <2>3, <2>4, DecideKeeps
<1> QED  BY <1>2, <1>3 DEF UpdateApp, RotateSecret, DeleteApp

\* A row of an application that is written: a new one under a client_id of its
\* own, or an old one that keeps its project and its client_id. A scope whose
\* name the row gains is among the things the write outdates.
Gains(a, row, s) ==
    /\ row.live /\ row.client # None /\ scope[s].name \in row.client.scopes
    /\ ~(Served(a) /\ scope[s].name \in app[a].client.scopes)

Rewrites(a, row) ==
    /\ Live(app, a) /\ row.project = app[a].project
    /\ row.client = None <=> app[a].client = None
    /\ row.client # None => row.client.id = app[a].client.id

LEMMA AppWritten ==
  ASSUME IInv, NEW p \in Procs, InsertApp(p) \/ UpdateConfig(p) \/ SetSecret(p) \/ SoftDeleteApp(p)
  PROVE  \E a, row, things :
           /\ a \in Apps /\ row \in App
           /\ app' = [app EXCEPT ![a] = row]
           /\ UNCHANGED <<org, project, scope, mapper, domain, raced>>
           /\ a = req[p].on /\ Commit(p, pc[p], things)
           /\ \A s \in Scopes : scope[s] # None /\ Gains(a, row, s) => s \in things
           /\ \/ pc[p] = "create app" /\ app[a] = None
                 /\ (row.client # None => ClientKey(a, row.client.id))
              \/ pc[p] \in {"update app", "rotate secret", "delete app"} /\ Rewrites(a, row)
<1> DEFINE a == req[p].on
<1>1. app \in [Apps -> {None} \cup App] /\ scope \in [Scopes -> {None} \cup Scope]
  BY DEF IInv, Typed, RowsTyped
<1>2. AppKnown(p, pc[p], req[p])
  BY DEF IInv, CallsKnow, Known
<1>3. CASE InsertApp(p)
  <2>1. /\ pc[p] = "create app" /\ Commit(p, pc[p], Counted(req[p].body.client))
        /\ app' = [app EXCEPT ![a] = req[p].body]
        /\ UNCHANGED <<org, project, scope, mapper, domain, raced>>
        /\ req[p].body.client # None => ClientKey(a, req[p].body.client.id)
    BY <1>3 DEF InsertApp, Commit
  <2>2. a \in Apps /\ app[a] = None /\ req[p].body \in App
    BY <1>2, <2>1 DEF AppKnown
  <2>3. \A s \in Scopes : scope[s] # None /\ Gains(a, req[p].body, s) => s \in Counted(req[p].body.client)
    BY <1>1 DEF Gains, Counted, Ids, NamesOf
  <2> QED  BY <2>1, <2>2, <2>3
<1>4. CASE UpdateConfig(p)
  <2> DEFINE c == req[p].body
             cl == app[a].client
             held == {s \in Ids(scope) : scope[s].name \in c.scopes}
  <2>1. /\ pc[p] = "update app" /\ Commit(p, pc[p], held) /\ Live(app, a)
        /\ app' = [app EXCEPT ![a].client.scopes = c.scopes, ![a].client.public = c.public]
        /\ UNCHANGED <<org, project, scope, mapper, domain, raced>>
    BY <1>4 DEF UpdateConfig, Commit
  <2>2. a \in Apps /\ app[a] # None /\ cl # None /\ c \in Configs
    BY <1>2, <2>1 DEF AppKnown
  <2>3. app[a] \in App /\ cl \in Client
    BY <1>1, <2>2 DEF App
  <2>4. PICK cm, dl : cm = [cl EXCEPT !.scopes = c.scopes] /\ dl = [cm EXCEPT !.public = c.public]
    OBVIOUS
  <2>5. cm \in Client /\ cm.id = cl.id /\ cm.scopes = c.scopes /\ cm # None
    BY <2>2, <2>3, <2>4 DEF Client
  <2>6. dl \in Client /\ dl.id = cl.id /\ dl.scopes = c.scopes /\ dl # None
    BY <2>2, <2>4, <2>5 DEF Client
  <2>7. PICK between, row : between = [app[a] EXCEPT !.client = cm] /\ row = [between EXCEPT !.client = dl]
    OBVIOUS
  <2>8. between \in App /\ between.project = app[a].project /\ between.client = cm
    BY <2>3, <2>5, <2>7 DEF App
  <2>9. row \in App /\ row.project = app[a].project /\ row.client = dl
    BY <2>6, <2>7, <2>8 DEF App
  <2>10. app' = [app EXCEPT ![a] = row]
    <3>1. PICK ap : ap = [app EXCEPT ![a] = between]
      OBVIOUS
    <3>2. ap[a] = between /\ ap[a].client = cm
      BY <1>1, <2>2, <2>8, <3>1
    <3>3. app' = [[app EXCEPT ![a] = between] EXCEPT ![a] = row]
      <4>1. app' = [[app EXCEPT ![a].client.scopes = c.scopes] EXCEPT ![a].client.public = c.public]
        BY <2>1
      <4>2. [app EXCEPT ![a].client.scopes = c.scopes] = ap
        BY <2>4, <2>7, <3>1
      <4>3. [ap EXCEPT ![a].client.public = c.public] = [ap EXCEPT ![a] = row]
        BY <2>4, <2>7, <3>2
      <4> QED  BY <3>1, <4>1, <4>2, <4>3
    <3> QED  BY <1>1, <2>2, <3>3
  <2>11. \A s \in Scopes : scope[s] # None /\ Gains(a, row, s) => s \in held
    BY <1>1, <2>6, <2>9 DEF Gains, Ids
  <2>12. Rewrites(a, row)
    BY <2>1, <2>2, <2>6, <2>9 DEF Rewrites
  <2> QED  BY <2>1, <2>2, <2>9, <2>10, <2>11, <2>12
<1>5. CASE SetSecret(p)
  <2> DEFINE cl == app[a].client
  <2>1. /\ pc[p] = "rotate secret" /\ Commit(p, pc[p], {}) /\ Live(app, a)
        /\ app' = [app EXCEPT ![a].client.secret = TRUE]
        /\ UNCHANGED <<org, project, scope, mapper, domain, raced>>
    BY <1>5 DEF SetSecret, Commit
  <2>2. a \in Apps /\ app[a] # None /\ cl # None
    BY <1>2, <2>1 DEF AppKnown
  <2>3. app[a] \in App /\ cl \in Client
    BY <1>1, <2>2 DEF App
  <2>4. PICK dl : dl = [cl EXCEPT !.secret = TRUE]
    OBVIOUS
  <2>5. dl \in Client /\ dl.id = cl.id /\ dl.scopes = cl.scopes /\ dl # None
    BY <2>2, <2>3, <2>4 DEF Client
  <2>6. PICK row : row = [app[a] EXCEPT !.client = dl]
    OBVIOUS
  <2>7. row \in App /\ row.project = app[a].project /\ row.client = dl /\ row.live = app[a].live
    BY <2>3, <2>5, <2>6 DEF App
  <2>8. app' = [app EXCEPT ![a] = row]
    BY <1>1, <2>1, <2>2, <2>3, <2>4, <2>6
  <2>9. \A s \in Scopes : ~Gains(a, row, s)
    BY <2>2, <2>5, <2>7 DEF Gains, Served, Live
  <2>10. Rewrites(a, row)
    BY <2>1, <2>2, <2>5, <2>7 DEF Rewrites
  <2> QED  BY <2>1, <2>2, <2>7, <2>8, <2>9, <2>10
<1>6. CASE SoftDeleteApp(p)
  <2>1. /\ pc[p] = "delete app" /\ Commit(p, pc[p], {}) /\ Live(app, a)
        /\ app' = [app EXCEPT ![a].live = FALSE]
        /\ UNCHANGED <<org, project, scope, mapper, domain, raced>>
    BY <1>6 DEF SoftDeleteApp, Commit
  <2>2. a \in Apps /\ app[a] # None
    BY <1>2, <2>1 DEF AppKnown
  <2>3. app[a] \in App
    BY <1>1, <2>2
  <2>4. PICK row : row = [app[a] EXCEPT !.live = FALSE]
    OBVIOUS
  <2>5. row \in App /\ row.project = app[a].project /\ row.client = app[a].client /\ ~row.live
    BY <2>3, <2>4 DEF App
  <2>6. app' = [app EXCEPT ![a] = row]
    BY <1>1, <2>1, <2>2, <2>4
  <2>7. \A s \in Scopes : ~Gains(a, row, s)
    BY <2>5 DEF Gains
  <2>8. Rewrites(a, row)
    BY <2>1, <2>5 DEF Rewrites
  <2> QED  BY <2>1, <2>2, <2>5, <2>6, <2>7, <2>8
<1> QED  BY <1>3, <1>4, <1>5, <1>6
\* Whichever application is written, the live client_ids stay apart, a request
\* that had counted the clients of a scope knows what it counted or is
\* outdated, and an application changes only by a request that read its
\* project live or is outdated.
LEMMA WriteApp ==
  ASSUME IInv, NEW p \in Procs, InsertApp(p) \/ UpdateConfig(p) \/ SetSecret(p) \/ SoftDeleteApp(p)
  PROVE  /\ IInv'
         /\ \A b \in Apps : app[b] # None /\ app'[b] # app[b] =>
               /\ app[b].live /\ b = req[p].on
               /\ p \in stale \/ Live(project, app[b].project)
         /\ pc[p] # "idle" /\ pc'[p] = "idle" /\ UNCHANGED <<org, project, scope, mapper>>
<1>1. PICK a, row, things :
        /\ a \in Apps /\ row \in App
        /\ app' = [app EXCEPT ![a] = row]
        /\ UNCHANGED <<org, project, scope, mapper, domain, raced>>
        /\ a = req[p].on /\ Commit(p, pc[p], things)
        /\ \A s \in Scopes : scope[s] # None /\ Gains(a, row, s) => s \in things
        /\ \/ pc[p] = "create app" /\ app[a] = None
              /\ (row.client # None => ClientKey(a, row.client.id))
           \/ pc[p] \in {"update app", "rotate secret", "delete app"} /\ Rewrites(a, row)
  BY AppWritten
<1>2. app \in [Apps -> {None} \cup App] /\ scope \in [Scopes -> {None} \cup Scope]
  BY DEF IInv, Typed, RowsTyped
<1>3. /\ app'[a] = row /\ row # None
      /\ \A b \in Apps \ {a} : app'[b] = app[b]
      /\ app' \in [Apps -> {None} \cup App]
  BY <1>1, <1>2
<1>4. RowsTyped'
  BY <1>1, <1>3 DEF IInv, Typed, RowsTyped
<1>5. ClientKeys'
  <2> SUFFICES ASSUME NEW b \in Apps, Served(b)', NEW c \in Apps \ {b}, Served(c)',
                      app'[b].client.id # None
               PROVE  app'[c].client.id # app'[b].client.id
    BY DEF ClientKeys, ClientKey
  <2>1. ClientKeys
    BY DEF IInv, RowsFit
  <2>2. \A d \in Apps \ {a} : Served(d)' <=> Served(d)
    BY <1>3 DEF Served, Live
  <2>3. Served(a)' => row.live /\ row.client # None
    BY <1>3 DEF Served, Live
  <2>4. CASE pc[p] = "create app"
    <3>1. \A d \in Apps \ {a} : Served(a)' /\ Served(d)' /\ row.client.id # None => app[d].client.id # row.client.id
      BY <1>1, <2>2, <2>3, <2>4 DEF ClientKey
    <3>2. CASE b = a
      BY <1>3, <3>1, <3>2
    <3>3. CASE c = a
      BY <1>3, <3>1, <3>3
    <3>4. CASE b # a /\ c # a
      BY <1>3, <2>1, <2>2, <3>4 DEF ClientKeys, ClientKey
    <3> QED  BY <3>2, <3>3, <3>4
  <2>5. CASE pc[p] # "create app"
    <3>1. Rewrites(a, row)
      BY <1>1, <2>5
    <3>2. Served(a)' => Served(a) /\ row.client.id = app[a].client.id
      BY <2>3, <3>1 DEF Rewrites, Served
    <3>3. \A d \in Apps : Served(d)' => Served(d) /\ app'[d].client.id = app[d].client.id
      BY <1>3, <2>2, <3>2
    <3> QED  BY <2>1, <3>3 DEF ClientKeys, ClientKey
  <2> QED  BY <2>4, <2>5
<1>6. RowsFit'
  BY <1>1, <1>5, RowsUntouched DEF RowsFit
<1>7. ASSUME NEW x \in Procs \ {p}
      PROVE  Known(x, pc[x], req[x])'
  <2>1. /\ pc'[x] = pc[x] /\ req'[x] = req[x] /\ (x \in stale => x \in stale')
        /\ pc[x] # "idle" /\ req[x].of \in things => x \in stale'
    BY <1>1, Committed
  <2>2. AppKnown(x, pc[x], req[x]) /\ ScopeKnown(x, pc[x], req[x])
    BY DEF IInv, CallsKnow, Known
  <2>3. AppKnown(x, pc[x], req[x])'
    <3>1. pc[x] = "create app" => req[x].on # a
      <4>1. CASE pc[p] = "create app"
        BY <1>1, <4>1 DEF IInv, OwnRow, Creates
      <4>2. CASE pc[p] # "create app"
        BY <1>1, <2>2, <4>2 DEF AppKnown, Rewrites, Live
      <4> QED  BY <4>1, <4>2
    <3>2. \A b \in Apps : b # a => app'[b] = app[b]
      BY <1>3
    <3>3. app[a] # None =>
            app'[a] # None /\ app'[a].project = app[a].project
            /\ (app[a].client # None => app'[a].client # None)
      BY <1>1, <1>3 DEF Rewrites
    <3>4. \A j : Live(project, j)' = Live(project, j)
      BY <1>1 DEF Live
    <3>5. CASE pc[x] = "create app"
      BY <2>1, <2>2, <3>1, <3>2, <3>5 DEF AppKnown
    <3>6. CASE pc[x] \in {"update app", "rotate secret", "delete app"}
      BY <2>1, <2>2, <3>2, <3>3, <3>4, <3>6 DEF AppKnown
    <3>7. CASE pc[x] \notin {"create app", "update app", "rotate secret", "delete app"}
      BY <2>1, <3>7 DEF AppKnown
    <3> QED  BY <3>5, <3>6, <3>7
  <2>4. ScopeKnown(x, pc[x], req[x])'
    <3>1. CASE pc[x] # "delete scope"
      BY <1>1, <2>1, <2>2, <3>1 DEF ScopeKnown
    <3>2. CASE pc[x] = "delete scope"
      <4>1. PICK s : s = req[x].on /\ s = req[x].of /\ s \in Scopes /\ scope[s] # None
        BY <2>2, <3>2 DEF ScopeKnown
      <4>2. x \in stale' \/ NameUnused(s)'
        <5> SUFFICES ASSUME x \notin stale'
                     PROVE  NameUnused(s)'
          OBVIOUS
        <5>1. NameUnused(s) /\ ~Gains(a, row, s)
          BY <1>1, <2>1, <2>2, <3>2, <4>1 DEF ScopeKnown
        <5> SUFFICES ASSUME NEW b \in Apps, Served(b)'
                     PROVE  scope[s].name \notin app'[b].client.scopes
          BY <1>1 DEF NameUnused
        <5>2. CASE b = a
          BY <1>3, <5>1, <5>2 DEF Gains, NameUnused, Served, Live
        <5>3. CASE b # a
          BY <1>3, <5>1, <5>3 DEF NameUnused, Served, Live
        <5> QED  BY <5>2, <5>3
      <4> QED  BY <1>1, <2>1, <2>2, <3>2, <4>1, <4>2 DEF ScopeKnown
    <3> QED  BY <3>1, <3>2
  <2> QED  BY <1>1, <2>1, <2>3, <2>4, CallUntouched DEF Known
<1>8. IInv'
  BY <1>1, <1>4, <1>6, <1>7, CommitKeeps
<1>9. ASSUME NEW b \in Apps, app[b] # None, app'[b] # app[b]
      PROVE  app[b].live /\ b = req[p].on /\ (p \in stale \/ Live(project, app[b].project))
  <2>1. b = a /\ pc[p] # "create app"
    BY <1>1, <1>3, <1>9
  <2>2. Live(app, a) /\ pc[p] \in {"update app", "rotate secret", "delete app"}
    BY <1>1, <2>1 DEF Rewrites
  <2>3. AppKnown(p, pc[p], req[p])
    BY DEF IInv, CallsKnow, Known
  <2> QED  BY <1>1, <2>1, <2>2, <2>3 DEF AppKnown, Live
<1>10. pc[p] # "idle" /\ pc'[p] = "idle"
  BY <1>1, Committed
<1> QED  BY <1>1, <1>8, <1>9, <1>10
-----------------------------------------------------------------------------
(* Scopes.                                                                 *)

LEMMA DecideScopes ==
  ASSUME IInv, NEW p \in Procs, CreateScope(p) \/ UpdateScope(p) \/ DeleteScope(p)
  PROVE  IInv'
<1>1. scope \in [Scopes -> {None} \cup Scope]
  BY DEF IInv, Typed, RowsTyped
<1>2. CASE CreateScope(p)
  <2>1. PICK s \in Fresh(scope), name \in Names : Decide(p, "create scope", s, s, name)
    BY <1>2 DEF CreateScope
  <2>2. s \in Scopes /\ scope[s] = None /\ Unwritten(s)
    BY <1>1, FreshIds
  <2>3. PICK q : q = [on |-> s, of |-> s, body |-> name]
    OBVIOUS
  <2>4. q \in Locals /\ "create scope" \in Writes \ {"idle"}
    BY <2>2, <2>3 DEF Locals, Writes
  <2>5. Known(p, "create scope", q)
    BY <2>2, <2>3 DEF Known, OrgKnown, ProjectKnown, AppKnown, ScopeKnown, MapperKnown, DomainKnown
  <2> QED  BY <2>1, <2>2, <2>3, <2>4, <2>5, DecideKeeps
<1>3. CASE UpdateScope(p)
  <2>1. PICK s \in Scopes : Live(scope, s) /\
             \E name \in IF Builtin(s) THEN {scope[s].name} ELSE Names : Decide(p, "update scope", s, s, name)
    BY <1>3 DEF UpdateScope
  <2>2. scope[s] # None /\ scope[s] \in Scope
    BY <1>1, <2>1 DEF Live
  <2>3. PICK name \in Names : Decide(p, "update scope", s, s, name)
    BY <2>1, <2>2 DEF Scope
  <2>4. PICK q : q = [on |-> s, of |-> s, body |-> name]
    OBVIOUS
  <2>5. q \in Locals /\ "update scope" \in Writes \ {"idle"} /\ "update scope" \notin Creates
    BY <2>4 DEF Locals, Writes, Creates
  <2>6. Known(p, "update scope", q)
    BY <2>2, <2>4 DEF Known, OrgKnown, ProjectKnown, AppKnown, ScopeKnown, MapperKnown, DomainKnown
  <2> QED  BY <2>3, <2>4, <2>5, <2>6, DecideKeeps
<1>4. CASE DeleteScope(p)
  <2>1. PICK s \in Scopes :
          /\ Live(scope, s) /\ ~Builtin(s) /\ ClientsWithScope(scope[s].name) = {}
          /\ Decide(p, "delete scope", s, s, None)
    BY <1>4 DEF DeleteScope
  <2>2. scope[s] # None
    BY <2>1 DEF Live
  <2>3. NameUnused(s)
    BY <2>1 DEF NameUnused, ClientsWithScope, NamesOf, Served
  <2>4. PICK q : q = [on |-> s, of |-> s, body |-> None]
    OBVIOUS
  <2>5. q \in Locals /\ "delete scope" \in Writes \ {"idle"} /\ "delete scope" \notin Creates
    BY <2>4 DEF Locals, Writes, Creates
  <2>6. Known(p, "delete scope", q)
    BY <2>1, <2>2, <2>3, <2>4
       DEF Known, OrgKnown, ProjectKnown, AppKnown, ScopeKnown, MapperKnown, DomainKnown
  <2> QED  BY <2>1, <2>4, <2>5, <2>6, DecideKeeps
<1> QED  BY <1>2, <1>3, <1>4

\* A name that is written is free by then, and outdates who counted its clients.
LEMMA NameScope ==
  ASSUME IInv, NEW p \in Procs, InsertScope(p) \/ WriteScope(p)
  PROVE  /\ IInv' /\ UNCHANGED <<org, project, app, mapper>>
         /\ \A u \in Scopes : scope[u] # None => scope'[u].live = scope[u].live
         /\ \A u \in Scopes : scope[u] # None /\ ~scope[u].live => scope'[u] = scope[u]
<1>1. scope \in [Scopes -> {None} \cup Scope]
  BY DEF IInv, Typed, RowsTyped
<1>2. ScopeKnown(p, pc[p], req[p])
  BY DEF IInv, CallsKnow, Known
<1>3. PICK s, row, things :
        /\ s \in Scopes /\ row \in Scope
        /\ scope' = [scope EXCEPT ![s] = row] /\ row.live /\ ScopeKey(s, row.name)
        /\ UNCHANGED <<org, project, app, mapper, domain, raced>>
        /\ s = req[p].on /\ Commit(p, pc[p], things)
        /\ \/ pc[p] = "create scope" /\ scope[s] = None
           \/ pc[p] = "update scope" /\ Live(scope, s) /\ s \in things
  <2>1. CASE InsertScope(p)
    <3>1. /\ pc[p] = "create scope" /\ Commit(p, pc[p], {}) /\ ScopeKey(req[p].on, req[p].body)
          /\ scope' = [scope EXCEPT ![req[p].on] = [name |-> req[p].body, live |-> TRUE]]
          /\ UNCHANGED <<org, project, app, mapper, domain, raced>>
      BY <2>1 DEF InsertScope, Commit
    <3>2. req[p].on \in Scopes /\ scope[req[p].on] = None /\ req[p].body \in Names
      BY <1>2, <3>1 DEF ScopeKnown
    <3>3. PICK row : row = [name |-> req[p].body, live |-> TRUE]
      OBVIOUS
    <3>4. row \in Scope /\ row.live /\ row.name = req[p].body
      BY <3>2, <3>3 DEF Scope
    <3> QED  BY <3>1, <3>2, <3>3, <3>4
  <2>2. CASE WriteScope(p)
    <3>1. /\ pc[p] = "update scope" /\ Commit(p, pc[p], {req[p].on})
          /\ Live(scope, req[p].on) /\ ScopeKey(req[p].on, req[p].body)
          /\ scope' = [scope EXCEPT ![req[p].on].name = req[p].body]
          /\ UNCHANGED <<org, project, app, mapper, domain, raced>>
      BY <2>2 DEF WriteScope, Commit
    <3>2. req[p].on \in Scopes /\ scope[req[p].on] # None /\ req[p].body \in Names
      BY <1>2, <3>1 DEF ScopeKnown
    <3>3. PICK row : row = [scope[req[p].on] EXCEPT !.name = req[p].body]
      OBVIOUS
    <3>4. scope[req[p].on] \in Scope /\ scope[req[p].on].live
      BY <1>1, <3>1, <3>2 DEF Live
    <3>5. row \in Scope /\ row.live /\ row.name = req[p].body
      BY <3>2, <3>3, <3>4 DEF Scope
    <3>6. scope' = [scope EXCEPT ![req[p].on] = row]
      BY <1>1, <3>1, <3>2, <3>3
    <3> QED  BY <3>1, <3>2, <3>5, <3>6
  <2> QED  BY <2>1, <2>2
<1>4. /\ scope'[s] = row /\ row # None
      /\ \A u \in Scopes : u # s => scope'[u] = scope[u]
      /\ scope' \in [Scopes -> {None} \cup Scope]
  BY <1>1, <1>3
<1>5. RowsTyped'
  BY <1>3, <1>4 DEF IInv, Typed, RowsTyped
<1>6. ScopeKeys'
  <2> SUFFICES ASSUME NEW u \in Scopes, Live(scope, u)', NEW v \in Scopes \ {u}, Live(scope, v)'
               PROVE  scope'[v].name # scope'[u].name
    BY DEF ScopeKeys, FreeName
  <2>1. ScopeKeys
    BY DEF IInv, RowsFit
  <2>2. \A t \in Scopes : t # s => Live(scope, t)' = Live(scope, t)
    BY <1>4 DEF Live
  <2>3. \A t \in Scopes : t # s /\ Live(scope, t) => scope[t].name # row.name
    BY <1>3 DEF ScopeKey, FreeName
  <2>4. CASE u = s
    BY <1>4, <2>2, <2>3, <2>4
  <2>5. CASE v = s
    BY <1>4, <2>2, <2>3, <2>5
  <2>6. CASE u # s /\ v # s
    BY <1>4, <2>1, <2>2, <2>6 DEF ScopeKeys, FreeName
  <2> QED  BY <2>4, <2>5, <2>6
<1>7. /\ \A u \in Scopes : Live(scope, u) => Live(scope, u)'
      /\ \A u : MappersOf(u)' = MappersOf(u)
  <2>1. \A u \in Scopes : Live(scope, u) => Live(scope, u)'
    BY <1>3, <1>4 DEF Live
  <2>2. \A u : MappersOf(u)' = MappersOf(u)
    BY <1>3 DEF MappersOf, Live
  <2> QED  BY <2>1, <2>2
<1>8. MapperLimits'
  BY <1>3, <1>7 DEF IInv, RowsFit, MapperLimits, MappersFit
<1>9. RowsFit'
  BY <1>3, <1>6, <1>8, RowsUntouched DEF RowsFit
<1>10. ASSUME NEW x \in Procs \ {p}
       PROVE  Known(x, pc[x], req[x])'
  <2>1. /\ pc'[x] = pc[x] /\ req'[x] = req[x] /\ (x \in stale => x \in stale')
        /\ pc[x] # "idle" /\ req[x].of \in things => x \in stale'
    BY <1>3, Committed
  <2>2. ScopeKnown(x, pc[x], req[x]) /\ MapperKnown(x, pc[x], req[x])
    BY DEF IInv, CallsKnow, Known
  <2>3. ScopeKnown(x, pc[x], req[x])'
    <3>1. CASE pc[x] = "create scope"
      <4>1. req[x].on # s
        <5>1. CASE pc[p] = "create scope"
          <6>1. pc[p] \in Creates /\ pc[p] = pc[x]
            BY <3>1, <5>1 DEF Creates
          <6>2. req[p].on # req[x].on
            BY <6>1 DEF IInv, OwnRow
          <6> QED  BY <1>3, <6>2
        <5>2. CASE pc[p] # "create scope"
          BY <1>3, <2>2, <3>1, <5>2 DEF ScopeKnown, Live
        <5> QED  BY <5>1, <5>2
      <4> QED  BY <1>4, <2>1, <2>2, <3>1, <4>1 DEF ScopeKnown
    <3>2. CASE pc[x] = "update scope"
      <4>1. req[x].on \in Scopes /\ scope[req[x].on] # None /\ req[x].body \in Names
        BY <2>2, <3>2 DEF ScopeKnown
      <4>2. scope'[req[x].on] # None
        BY <1>4, <4>1
      <4> QED  BY <2>1, <3>2, <4>1, <4>2 DEF ScopeKnown
    <3>3. CASE pc[x] = "delete scope"
      <4>1. PICK u : u = req[x].on /\ u = req[x].of /\ u \in Scopes /\ scope[u] # None /\ ~Builtin(u)
        BY <2>2, <3>3 DEF ScopeKnown
      <4>2. CASE u = s
        <5>1. s \in things
          BY <1>3, <4>1, <4>2
        <5>2. x \in stale' /\ scope'[u] # None
          <6>1. scope'[u] # None
            BY <1>4, <4>2
          <6>2. req[x].of \in things
            BY <4>1, <4>2, <5>1
          <6> QED  BY <2>1, <3>3, <6>1, <6>2
        <5> QED  BY <2>1, <3>3, <4>1, <5>2 DEF ScopeKnown
      <4>3. CASE u # s
        <5>1. scope'[u] = scope[u] /\ (NameUnused(u) => NameUnused(u)')
          BY <1>3, <1>4, <4>1, <4>3 DEF NameUnused, Served, Live
        <5>2. x \in stale \/ NameUnused(u)
          BY <2>2, <3>3, <4>1 DEF ScopeKnown
        <5> QED  BY <2>1, <3>3, <4>1, <5>1, <5>2 DEF ScopeKnown
      <4> QED  BY <4>2, <4>3
    <3>4. CASE pc[x] \notin {"create scope", "update scope", "delete scope"}
      BY <2>1, <3>4 DEF ScopeKnown
    <3> QED  BY <3>1, <3>2, <3>3, <3>4
  <2>4. MapperKnown(x, pc[x], req[x])'
    <3>1. \A u : BelowLimit(u)' = BelowLimit(u)
      BY <1>7 DEF BelowLimit
    <3> QED  BY <1>3, <1>7, <2>1, <2>2, <3>1 DEF MapperKnown
  <2> QED  BY <1>3, <2>1, <2>3, <2>4, CallUntouched DEF Known
<1>11. IInv'
  BY <1>3, <1>5, <1>9, <1>10, CommitKeeps
<1>12. \A u \in Scopes : scope[u] # None => scope'[u].live = scope[u].live
  BY <1>3, <1>4 DEF Live
<1>13. \A u \in Scopes : scope[u] # None /\ ~scope[u].live => scope'[u] = scope[u]
  BY <1>3, <1>4 DEF Live
<1> QED  BY <1>3, <1>11, <1>12, <1>13
\* A scope goes with its live mappers, and none of them was seeded.
LEMMA DropScope ==
  ASSUME IInv, NEW p \in Procs, SoftDeleteScope(p)
  PROVE  /\ IInv' /\ UNCHANGED <<org, project, app>>
         /\ pc[p] = "delete scope" /\ pc'[p] = "idle"
         /\ \A u \in Scopes : u # req[p].on => scope'[u] = scope[u]
         /\ Live(scope, req[p].on) /\ (p \in stale \/ NameUnused(req[p].on))
         /\ \A m \in Mappers : SeedScope[m] # None => mapper'[m] = mapper[m]
         /\ \A m \in Mappers : mapper[m] # None /\ ~mapper[m].live => mapper'[m] = mapper[m]
<1>1. /\ scope \in [Scopes -> {None} \cup Scope] /\ mapper \in [Mappers -> {None} \cup Mapper]
      /\ ScopeKnown(p, pc[p], req[p])
  BY DEF IInv, Typed, RowsTyped, CallsKnow, Known
<1>2. PICK s : s = req[p].on
  OBVIOUS
<1>3. /\ pc[p] = "delete scope" /\ Commit(p, pc[p], {s}) /\ Live(scope, s)
      /\ scope' = [scope EXCEPT ![s].live = FALSE]
      /\ mapper' = [m \in Mappers |->
                      IF m \in MappersOf(s) THEN [mapper[m] EXCEPT !.live = FALSE] ELSE mapper[m]]
      /\ UNCHANGED <<org, project, app, domain, raced>>
  BY <1>2 DEF SoftDeleteScope, Commit
<1>4. /\ s \in Scopes /\ scope[s] \in Scope /\ scope[s] # None /\ ~Builtin(s)
      /\ p \in stale \/ NameUnused(s)
  BY <1>1, <1>2, <1>3 DEF ScopeKnown
<1>5. /\ scope' \in [Scopes -> {None} \cup Scope]
      /\ scope'[s] # None /\ ~scope'[s].live
      /\ \A u \in Scopes : u # s => scope'[u] = scope[u]
  <2>1. PICK row : row = [scope[s] EXCEPT !.live = FALSE]
    OBVIOUS
  <2>2. row \in Scope /\ ~row.live /\ row # None
    BY <1>4, <2>1 DEF Scope
  <2>3. scope' = [scope EXCEPT ![s] = row]
    BY <1>1, <1>3, <1>4, <2>1
  <2> QED  BY <1>1, <1>4, <2>2, <2>3
<1>6. /\ \A m \in MappersOf(s) : mapper'[m] \in Mapper /\ ~mapper'[m].live /\ mapper'[m].scope = s
      /\ \A m \in Mappers : m \notin MappersOf(s) => mapper'[m] = mapper[m]
      /\ mapper' \in [Mappers -> {None} \cup Mapper]
  <2>1. ASSUME NEW m \in MappersOf(s)
        PROVE  mapper'[m] \in Mapper /\ ~mapper'[m].live /\ mapper'[m].scope = s
    <3>1. m \in Mappers /\ mapper[m] \in Mapper /\ mapper[m].scope = s
      BY <1>1 DEF MappersOf, Live
    <3>2. mapper'[m] = [mapper[m] EXCEPT !.live = FALSE]
      BY <1>3, <3>1
    <3> QED  BY <3>1, <3>2 DEF Mapper
  <2>2. \A m \in Mappers : m \notin MappersOf(s) => mapper'[m] = mapper[m]
    BY <1>3
  <2> QED  BY <1>1, <1>3, <2>1, <2>2
<1>7. /\ MappersOf(s)' = {}
      /\ \A u \in Scopes : u # s => MappersOf(u)' = MappersOf(u)
      /\ \A m \in Mappers : Live(mapper, m)' => Live(mapper, m) /\ mapper'[m] = mapper[m]
  <2>1. \A m \in Mappers : Live(mapper, m)' => m \notin MappersOf(s) /\ Live(mapper, m) /\ mapper'[m] = mapper[m]
    BY <1>6 DEF Live
  <2>2. MappersOf(s)' = {}
    BY <1>6, <2>1 DEF MappersOf
  <2>3. ASSUME NEW u \in Scopes, u # s
        PROVE  MappersOf(u)' = MappersOf(u)
    <3>1. ASSUME NEW m \in Mappers, Live(mapper, m), mapper[m].scope = u
          PROVE  Live(mapper, m)' /\ mapper'[m].scope = u
      <4>1. m \notin MappersOf(s)
        BY <2>3, <3>1 DEF MappersOf
      <4> QED  BY <1>6, <3>1, <4>1 DEF Live
    <3>2. \A m \in Mappers : Live(mapper, m)' /\ mapper'[m].scope = u => Live(mapper, m) /\ mapper[m].scope = u
      BY <2>1
    <3> QED  BY <3>1, <3>2 DEF MappersOf
  <2> QED  BY <2>1, <2>2, <2>3
<1>8. RowsTyped'
  BY <1>3, <1>5, <1>6 DEF IInv, Typed, RowsTyped
<1>9. ScopeKeys'
  <2>1. \A u \in Scopes : Live(scope, u)' => Live(scope, u) /\ scope'[u] = scope[u]
    BY <1>5 DEF Live
  <2> QED  BY <2>1 DEF IInv, RowsFit, ScopeKeys, FreeName
<1>10. MapperKeys'
  <2>1. \A m \in Mappers : Live(mapper, m) => FreeClaim(mapper[m].scope, mapper[m].claim, m)
    BY DEF IInv, RowsFit, MapperKeys
  <2> SUFFICES ASSUME NEW m \in Mappers, Live(mapper, m)',
                      NEW n \in Mappers \ {m}, Live(mapper, n)', mapper'[n].scope = mapper'[m].scope
               PROVE  mapper'[n].claim # mapper'[m].claim
    BY DEF MapperKeys, FreeClaim, MappersOf
  <2>2. /\ Live(mapper, m) /\ mapper'[m] = mapper[m]
        /\ Live(mapper, n) /\ mapper'[n] = mapper[n]
    BY <1>7
  <2> QED  BY <2>1, <2>2 DEF FreeClaim, MappersOf
<1>11. \A m \in Mappers : SeedScope[m] # None => m \notin MappersOf(s)
  <2> SUFFICES ASSUME NEW m \in Mappers, SeedScope[m] # None, m \in MappersOf(s)
               PROVE  FALSE
    OBVIOUS
  <2>1. SeedScope[m] = s
    <3>1. mapper[m].scope = s
      BY DEF MappersOf
    <3>2. mapper[m] = [scope |-> SeedScope[m], claim |-> SeedClaim, live |-> TRUE]
      BY DEF IInv, RowsFit, SeedMappers
    <3> QED  BY <3>1, <3>2
  <2> QED  BY <1>4, <2>1 DEF Builtin
<1>12. SeedMappers'
  BY <1>6, <1>11 DEF IInv, RowsFit, SeedMappers
<1>13. MapperLimits'
  <2>1. MapperLimits /\ Cardinality({}) = 0 /\ IsFiniteSet({})
    BY FS_EmptySet DEF IInv, RowsFit
  <2>2. \A u \in Scopes : IsFiniteSet(MappersOf(u)')
    BY <1>7, <2>1 DEF MapperLimits
  <2>3. \A u \in Scopes \ raced : Cardinality(MappersOf(u)') <= MaxMappers
    <3>1. Cardinality(MappersOf(s)') <= MaxMappers
      BY <1>7, <2>1
    <3>2. \A u \in Scopes \ raced : u # s => Cardinality(MappersOf(u)') <= MaxMappers
      BY <1>7, <2>1 DEF MapperLimits, MappersFit
    <3> QED  BY <3>1, <3>2
  <2>4. \A u \in Scopes \ raced : MappersOf(u)' # {} => Live(scope, u)'
    <3>1. \A u \in Scopes : u # s => Live(scope, u)' = Live(scope, u)
      BY <1>5 DEF Live
    <3> QED  BY <1>7, <2>1, <3>1 DEF MapperLimits, MappersFit
  <2> QED  BY <1>3, <2>2, <2>3, <2>4 DEF MapperLimits, MappersFit
<1>14. RowsFit'
  BY <1>3, <1>9, <1>10, <1>12, <1>13, RowsUntouched DEF RowsFit
<1>15. ASSUME NEW x \in Procs \ {p}
       PROVE  Known(x, pc[x], req[x])'
  <2>1. /\ pc'[x] = pc[x] /\ req'[x] = req[x] /\ (x \in stale => x \in stale')
        /\ pc[x] # "idle" /\ req[x].of = s => x \in stale'
    BY <1>3, Committed
  <2>2. ScopeKnown(x, pc[x], req[x]) /\ MapperKnown(x, pc[x], req[x])
    BY DEF IInv, CallsKnow, Known
  <2>3. ScopeKnown(x, pc[x], req[x])'
    <3>1. \A u \in Scopes : scope[u] # None <=> scope'[u] # None
      BY <1>4, <1>5
    <3>2. CASE pc[x] = "delete scope"
      <4>1. PICK u : u = req[x].on /\ u = req[x].of /\ u \in Scopes /\ scope[u] # None /\ ~Builtin(u)
                     /\ (x \in stale \/ NameUnused(u))
        BY <2>2, <3>2 DEF ScopeKnown
      <4>2. u # s /\ NameUnused(u) => NameUnused(u)'
        BY <1>3, <1>5, <4>1 DEF NameUnused, Served, Live
      <4>3. x \in stale' \/ NameUnused(u)'
        BY <2>1, <3>2, <4>1, <4>2
      <4> QED  BY <2>1, <3>1, <3>2, <4>1, <4>3 DEF ScopeKnown
    <3>3. CASE pc[x] # "delete scope"
      BY <2>1, <2>2, <3>1, <3>3 DEF ScopeKnown
    <3> QED  BY <3>2, <3>3
  <2>4. MapperKnown(x, pc[x], req[x])'
    <3>1. \A m \in Mappers : /\ mapper[m] # None <=> mapper'[m] # None
                             /\ mapper'[m].scope = mapper[m].scope
      <4> SUFFICES ASSUME NEW m \in Mappers
                   PROVE  (mapper[m] # None <=> mapper'[m] # None) /\ mapper'[m].scope = mapper[m].scope
        OBVIOUS
      <4>1. CASE m \in MappersOf(s)
        BY <1>6, <4>1 DEF MappersOf, Live
      <4>2. CASE m \notin MappersOf(s)
        BY <1>6, <4>2
      <4> QED  BY <4>1, <4>2
    <3>2. \A u \in Scopes : u # s => BelowLimit(u)' = BelowLimit(u) /\ Live(scope, u)' = Live(scope, u)
      BY <1>5, <1>7 DEF BelowLimit, Live
    <3>3. CASE pc[x] = "create mapper"
      BY <2>1, <2>2, <3>1, <3>2, <3>3 DEF MapperKnown
    <3>4. CASE pc[x] \in {"update mapper", "delete mapper"}
      BY <2>1, <2>2, <3>1, <3>4 DEF MapperKnown
    <3>5. CASE pc[x] \notin {"create mapper", "update mapper", "delete mapper"}
      BY <2>1, <3>5 DEF MapperKnown
    <3> QED  BY <3>3, <3>4, <3>5
  <2> QED  BY <1>3, <2>1, <2>3, <2>4, CallUntouched DEF Known
<1>16. IInv'
  BY <1>3, <1>8, <1>14, <1>15, CommitKeeps
<1>17. pc'[p] = "idle"
  BY <1>3, Committed
<1>18. \A m \in Mappers : mapper[m] # None /\ ~mapper[m].live => mapper'[m] = mapper[m]
  BY <1>6 DEF MappersOf, Live
<1> QED  BY <1>2, <1>3, <1>4, <1>5, <1>6, <1>11, <1>16, <1>17, <1>18
-----------------------------------------------------------------------------
(* Claim mappers.                                                          *)

LEMMA DecideMappers ==
  ASSUME IInv, NEW p \in Procs, CreateMapper(p) \/ UpdateMapper(p) \/ DeleteMapper(p)
  PROVE  IInv'
<1>1. mapper \in [Mappers -> {None} \cup Mapper] /\ SeedMappers
  BY DEF IInv, Typed, RowsTyped, RowsFit
<1>2. CASE CreateMapper(p)
  <2>1. PICK m \in Fresh(mapper), s \in Scopes, claim \in Claims \ Protected :
          Live(scope, s) /\ BelowLimit(s) /\ Decide(p, "create mapper", m, s, claim)
    BY <1>2 DEF CreateMapper
  <2>2. m \in Mappers /\ mapper[m] = None /\ Unwritten(m)
    BY <1>1, FreshIds
  <2>3. PICK q : q = [on |-> m, of |-> s, body |-> claim]
    OBVIOUS
  <2>4. q \in Locals /\ "create mapper" \in Writes \ {"idle"}
    BY <2>2, <2>3 DEF Locals, Writes
  <2>5. Known(p, "create mapper", q)
    BY <2>1, <2>2, <2>3 DEF Known, OrgKnown, ProjectKnown, AppKnown, ScopeKnown, MapperKnown, DomainKnown
  <2> QED  BY <2>1, <2>2, <2>3, <2>4, <2>5, DecideKeeps
<1>3. ASSUME NEW m \in Mappers, Writable(m)
      PROVE  mapper[m] \in Mapper /\ mapper[m] # None /\ SeedScope[m] = None
  <2>1. mapper[m] # None /\ mapper[m] \in Mapper /\ mapper[m].claim \notin Protected
    BY <1>1, <1>3 DEF Writable, Live
  <2>2. ASSUME SeedScope[m] # None
        PROVE  FALSE
    <3>1. mapper[m] = [scope |-> SeedScope[m], claim |-> SeedClaim, live |-> TRUE]
      BY <1>1, <2>2 DEF SeedMappers
    <3> QED  BY <2>1, <3>1
  <2> QED  BY <2>1, <2>2
<1>4. ASSUME NEW m \in Mappers, Writable(m), NEW body \in {None} \cup Claims,
             NEW write \in {"update mapper", "delete mapper"},
             Decide(p, write, m, mapper[m].scope, body), write = "update mapper" => body \in Claims
      PROVE  IInv'
  <2>1. mapper[m].scope \in Scopes /\ mapper[m] # None /\ SeedScope[m] = None
    BY <1>3, <1>4 DEF Mapper
  <2>2. PICK q : q = [on |-> m, of |-> mapper[m].scope, body |-> body]
    OBVIOUS
  <2>3. q \in Locals /\ write \in Writes \ {"idle"} /\ write \notin Creates
    BY <1>4, <2>1, <2>2 DEF Locals, Writes, Creates
  <2>4. Known(p, write, q)
    BY <1>4, <2>1, <2>2 DEF Known, OrgKnown, ProjectKnown, AppKnown, ScopeKnown, MapperKnown, DomainKnown
  <2> QED  BY <1>4, <2>2, <2>3, <2>4, DecideKeeps
<1> QED  BY <1>2, <1>4 DEF UpdateMapper, DeleteMapper

\* A row of a mapper that is written: a new one, whose scope a race may have
\* changed, an old one under another claim, or one that goes.
Inserts(p, m, row) ==
    /\ pc[p] = "create mapper" /\ mapper[m] = None
    /\ row.live /\ MapperKey(m, row.scope, row.claim)
    /\ p \in stale \/ (Live(scope, row.scope) /\ BelowLimit(row.scope))
    /\ raced' = IF p \in stale THEN raced \cup {row.scope} ELSE raced

Updates(p, m, row) ==
    /\ pc[p] \in {"update mapper", "delete mapper"}
    /\ Live(mapper, m) /\ row.scope = mapper[m].scope
    /\ row.live => MapperKey(m, row.scope, row.claim)
    /\ raced' = raced

LEMMA MapperWritten ==
  ASSUME IInv, NEW p \in Procs, InsertMapper(p) \/ WriteMapper(p) \/ SoftDeleteMapper(p)
  PROVE  \E m, row, things :
           /\ m \in Mappers /\ row \in Mapper
           /\ mapper' = [mapper EXCEPT ![m] = row]
           /\ UNCHANGED <<org, project, app, scope, domain>>
           /\ m = req[p].on /\ SeedScope[m] = None
           /\ Commit(p, pc[p], things) /\ row.scope \in things
           /\ Inserts(p, m, row) \/ Updates(p, m, row)
<1>1. mapper \in [Mappers -> {None} \cup Mapper] /\ MapperKnown(p, pc[p], req[p])
  BY DEF IInv, Typed, RowsTyped, CallsKnow, Known
<1>2. PICK m, s : m = req[p].on /\ s = req[p].of
  OBVIOUS
<1>3. CASE InsertMapper(p)
  <2>1. /\ pc[p] = "create mapper" /\ Commit(p, pc[p], {s}) /\ MapperKey(m, s, req[p].body)
        /\ mapper' = [mapper EXCEPT ![m] = [scope |-> s, claim |-> req[p].body, live |-> TRUE]]
        /\ raced' = IF p \in stale THEN raced \cup {s} ELSE raced
        /\ UNCHANGED <<org, project, app, scope, domain>>
    BY <1>2, <1>3 DEF InsertMapper, Commit
  <2>2. /\ m \in Mappers /\ mapper[m] = None /\ s \in Scopes /\ req[p].body \in Claims
        /\ p \in stale \/ (Live(scope, s) /\ BelowLimit(s))
    BY <1>1, <1>2, <2>1 DEF MapperKnown
  <2>3. PICK row : row = [scope |-> s, claim |-> req[p].body, live |-> TRUE]
    OBVIOUS
  <2>4. row \in Mapper /\ row.live /\ row.scope = s /\ row.claim = req[p].body
    BY <2>2, <2>3 DEF Mapper
  <2>5. SeedScope[m] = None
    <3> SUFFICES ASSUME SeedScope[m] # None
                 PROVE  FALSE
      OBVIOUS
    <3>1. mapper[m] = [scope |-> SeedScope[m], claim |-> SeedClaim, live |-> TRUE]
      BY <2>2 DEF IInv, RowsFit, SeedMappers
    <3>2. mapper[m] \in Mapper
      BY <2>2, <3>1 DEF Mapper
    <3> QED  BY <2>2, <3>2
  <2>6. Inserts(p, m, row)
    BY <2>1, <2>2, <2>4 DEF Inserts
  <2> QED  BY <1>2, <2>1, <2>2, <2>3, <2>4, <2>5, <2>6
<1>4. CASE WriteMapper(p)
  <2>1. /\ pc[p] = "update mapper" /\ Commit(p, pc[p], {s})
        /\ Live(mapper, m) /\ MapperKey(m, s, req[p].body)
        /\ mapper' = [mapper EXCEPT ![m].claim = req[p].body]
        /\ UNCHANGED <<org, project, app, scope, domain, raced>>
    BY <1>2, <1>4 DEF WriteMapper, Commit
  <2>2. m \in Mappers /\ mapper[m] # None /\ SeedScope[m] = None /\ s = mapper[m].scope /\ req[p].body \in Claims
    BY <1>1, <1>2, <2>1 DEF MapperKnown
  <2>3. PICK row : row = [mapper[m] EXCEPT !.claim = req[p].body]
    OBVIOUS
  <2>4. mapper[m] \in Mapper
    BY <1>1, <2>2
  <2>5. row \in Mapper /\ row.scope = s /\ row.claim = req[p].body
    BY <2>2, <2>3, <2>4 DEF Mapper
  <2>6. mapper' = [mapper EXCEPT ![m] = row]
    BY <1>1, <2>1, <2>2, <2>3
  <2>7. Updates(p, m, row)
    BY <2>1, <2>2, <2>5 DEF Updates
  <2> QED  BY <1>2, <2>1, <2>2, <2>5, <2>6, <2>7
<1>5. CASE SoftDeleteMapper(p)
  <2>1. /\ pc[p] = "delete mapper" /\ Commit(p, pc[p], {s}) /\ Live(mapper, m)
        /\ mapper' = [mapper EXCEPT ![m].live = FALSE]
        /\ UNCHANGED <<org, project, app, scope, domain, raced>>
    BY <1>2, <1>5 DEF SoftDeleteMapper, Commit
  <2>2. m \in Mappers /\ mapper[m] # None /\ SeedScope[m] = None /\ s = mapper[m].scope
    BY <1>1, <1>2, <2>1 DEF MapperKnown
  <2>3. PICK row : row = [mapper[m] EXCEPT !.live = FALSE]
    OBVIOUS
  <2>4. mapper[m] \in Mapper
    BY <1>1, <2>2
  <2>5. row \in Mapper /\ row.scope = s /\ ~row.live
    BY <2>2, <2>3, <2>4 DEF Mapper
  <2>6. mapper' = [mapper EXCEPT ![m] = row]
    BY <1>1, <2>1, <2>2, <2>3
  <2>7. Updates(p, m, row)
    BY <2>1, <2>2, <2>5 DEF Updates
  <2> QED  BY <1>2, <2>1, <2>2, <2>5, <2>6, <2>7
<1> QED  BY <1>3, <1>4, <1>5
\* A claim that is written is free by then, and a scope stays within its limit
\* unless its mappers, or the scope, were written since the count.
LEMMA WriteMappers ==
  ASSUME IInv, NEW p \in Procs, InsertMapper(p) \/ WriteMapper(p) \/ SoftDeleteMapper(p)
  PROVE  /\ IInv' /\ UNCHANGED <<org, project, app, scope>>
         /\ \A m \in Mappers : SeedScope[m] # None => mapper'[m] = mapper[m]
         /\ \A m \in Mappers : mapper[m] # None /\ ~mapper[m].live => mapper'[m] = mapper[m]
<1>1. PICK m, row, things :
        /\ m \in Mappers /\ row \in Mapper
        /\ mapper' = [mapper EXCEPT ![m] = row]
        /\ UNCHANGED <<org, project, app, scope, domain>>
        /\ m = req[p].on /\ SeedScope[m] = None
        /\ Commit(p, pc[p], things) /\ row.scope \in things
        /\ Inserts(p, m, row) \/ Updates(p, m, row)
  BY MapperWritten
<1>2. PICK s \in Scopes : s = row.scope
  BY <1>1 DEF Mapper
<1>3. mapper \in [Mappers -> {None} \cup Mapper]
  BY DEF IInv, Typed, RowsTyped
<1>4. /\ mapper'[m] = row /\ row # None
      /\ \A n \in Mappers : n # m => mapper'[n] = mapper[n]
      /\ mapper' \in [Mappers -> {None} \cup Mapper]
  BY <1>1, <1>3
<1>5. raced \subseteq raced' /\ raced' \subseteq raced \cup {s}
  BY <1>1, <1>2 DEF Inserts, Updates
<1>6. mapper[m] # None => Live(mapper, m) /\ mapper[m].scope = s
  BY <1>1, <1>2 DEF Inserts, Updates
<1>7. /\ \A n \in Mappers : n # m => (Live(mapper, n)' <=> Live(mapper, n))
      /\ Live(mapper, m)' <=> row.live
  BY <1>4 DEF Live
<1>8. \A u \in Scopes : u # s => MappersOf(u)' = MappersOf(u)
  <2> SUFFICES ASSUME NEW u \in Scopes, u # s
               PROVE  \A n \in Mappers : n \in MappersOf(u)' <=> n \in MappersOf(u)
    BY DEF MappersOf
  <2> SUFFICES ASSUME NEW n \in Mappers
               PROVE  n \in MappersOf(u)' <=> n \in MappersOf(u)
    OBVIOUS
  <2>1. CASE n = m
    <3>1. n \notin MappersOf(u)'
      BY <1>2, <1>4, <2>1 DEF MappersOf
    <3>2. n \notin MappersOf(u)
      BY <1>6, <2>1 DEF MappersOf, Live
    <3> QED  BY <3>1, <3>2
  <2>2. CASE n # m
    BY <1>4, <1>7, <2>2 DEF MappersOf
  <2> QED  BY <2>1, <2>2
<1>9. /\ MappersOf(s)' \subseteq MappersOf(s) \cup {m}
      /\ mapper[m] # None => m \in MappersOf(s)
  <2>1. \A n \in Mappers : n # m /\ n \in MappersOf(s)' => n \in MappersOf(s)
    BY <1>4, <1>7 DEF MappersOf
  <2>2. MappersOf(s)' \subseteq Mappers
    BY DEF MappersOf
  <2>3. mapper[m] # None => m \in MappersOf(s)
    BY <1>1, <1>6 DEF MappersOf
  <2> QED  BY <2>1, <2>2, <2>3
<1>10. RowsTyped'
  <2>1. raced' \subseteq Scopes \cup Tenants
    BY <1>5 DEF IInv, Typed, RowsTyped
  <2> QED  BY <1>1, <1>4, <2>1 DEF IInv, Typed, RowsTyped
<1>11. MapperKeys'
  <2>1. \A n \in Mappers : Live(mapper, n) => FreeClaim(mapper[n].scope, mapper[n].claim, n)
    BY DEF IInv, RowsFit, MapperKeys
  <2>2. row.live => MapperKey(m, s, row.claim)
    BY <1>1, <1>2 DEF Inserts, Updates
  <2>3. ASSUME NEW n \in Mappers, n # m, Live(mapper, n), mapper[n].scope = s, row.live
        PROVE  mapper[n].claim # row.claim
    BY <2>2, <2>3 DEF MapperKey, FreeClaim, MappersOf
  <2> SUFFICES ASSUME NEW a \in Mappers, Live(mapper, a)',
                      NEW b \in Mappers \ {a}, Live(mapper, b)', mapper'[b].scope = mapper'[a].scope
               PROVE  mapper'[b].claim # mapper'[a].claim
    BY DEF MapperKeys, FreeClaim, MappersOf
  <2>4. CASE a = m
    BY <1>2, <1>4, <1>7, <2>3, <2>4
  <2>5. CASE b = m
    BY <1>2, <1>4, <1>7, <2>3, <2>5
  <2>6. CASE a # m /\ b # m
    <3>1. Live(mapper, a) /\ Live(mapper, b) /\ mapper'[a] = mapper[a] /\ mapper'[b] = mapper[b]
      BY <1>4, <1>7, <2>6
    <3> QED  BY <2>1, <3>1 DEF FreeClaim, MappersOf
  <2> QED  BY <2>4, <2>5, <2>6
<1>12. SeedMappers'
  BY <1>1, <1>4 DEF IInv, RowsFit, SeedMappers
<1>13. MapperLimits'
  <2>1. MapperLimits
    BY DEF IInv, RowsFit
  <2>2. PICK N : N = MappersOf(s) /\ IsFiniteSet(N)
    BY <2>1 DEF MapperLimits
  <2>3. PICK M : M = MappersOf(s)' /\ M \subseteq N \cup {m}
    BY <1>9, <2>2
  <2>4. /\ IsFiniteSet(N \cup {m}) /\ Cardinality(N) \in Nat /\ Cardinality(N \cup {m}) \in Nat
        /\ Cardinality(N \cup {m}) = IF m \in N THEN Cardinality(N) ELSE Cardinality(N) + 1
    BY <2>2, FS_AddElement, FS_CardinalityType
  <2>5. IsFiniteSet(M) /\ Cardinality(M) \in Nat /\ Cardinality(M) <= Cardinality(N \cup {m})
    BY <2>3, <2>4, FS_Subset, FS_CardinalityType
  <2>6. s \notin raced' => Cardinality(M) <= MaxMappers /\ (M # {} => Live(scope, s)')
    <3> SUFFICES ASSUME s \notin raced'
                 PROVE  Cardinality(M) <= MaxMappers /\ (M # {} => Live(scope, s)')
      OBVIOUS
    <3>1. s \notin raced /\ Cardinality(N) <= MaxMappers /\ (N # {} => Live(scope, s))
      BY <1>5, <2>1, <2>2 DEF MapperLimits, MappersFit
    <3>2. Live(scope, s)' = Live(scope, s)
      BY <1>1 DEF Live
    <3>3. CASE Inserts(p, m, row)
      <4>1. Live(scope, s) /\ Cardinality(N) < MaxMappers
        BY <1>2, <2>2, <3>3 DEF Inserts, BelowLimit
      <4> QED  BY <2>4, <2>5, <3>2, <4>1
    <3>4. CASE Updates(p, m, row)
      <4>1. m \in N
        BY <1>9, <2>2, <3>4 DEF Updates, Live
      <4>2. Cardinality(M) <= Cardinality(N)
        BY <2>4, <2>5, <4>1
      <4> QED  BY <2>4, <2>5, <3>1, <3>2, <4>1, <4>2
    <3> QED  BY <1>1, <3>3, <3>4
  <2>7. \A u \in Scopes : IsFiniteSet(MappersOf(u)')
    BY <1>8, <2>1, <2>3, <2>5 DEF MapperLimits
  <2>8. \A u \in Scopes \ raced' : Cardinality(MappersOf(u)') <= MaxMappers
    BY <1>5, <1>8, <2>1, <2>3, <2>6 DEF MapperLimits, MappersFit
  <2>9. \A u \in Scopes \ raced' : MappersOf(u)' # {} => Live(scope, u)'
    <3>1. \A u \in Scopes : Live(scope, u)' = Live(scope, u)
      BY <1>1 DEF Live
    <3> QED  BY <1>5, <1>8, <2>1, <2>3, <2>6, <3>1 DEF MapperLimits, MappersFit
  <2> QED  BY <2>7, <2>8, <2>9 DEF MapperLimits, MappersFit
<1>14. RowsFit'
  BY <1>1, <1>5, <1>11, <1>12, <1>13, RowsUntouched DEF RowsFit
<1>15. ASSUME NEW x \in Procs \ {p}
       PROVE  Known(x, pc[x], req[x])'
  <2>1. /\ pc'[x] = pc[x] /\ req'[x] = req[x] /\ (x \in stale => x \in stale')
        /\ pc[x] # "idle" /\ req[x].of \in things => x \in stale'
    BY <1>1, Committed
  <2>2. MapperKnown(x, pc[x], req[x])
    BY DEF IInv, CallsKnow, Known
  <2>3. MapperKnown(x, pc[x], req[x])'
    <3>1. CASE pc[x] = "create mapper"
      <4>1. PICK n \in Mappers, u \in Scopes :
              /\ n = req[x].on /\ u = req[x].of /\ mapper[n] = None /\ req[x].body \in Claims
              /\ x \in stale \/ (Live(scope, u) /\ BelowLimit(u))
        BY <2>2, <3>1 DEF MapperKnown
      <4>2. n # m
        <5>1. CASE Inserts(p, m, row)
          <6>1. pc[p] \in Creates /\ pc[p] = pc[x]
            BY <3>1, <5>1 DEF Creates, Inserts
          <6>2. req[p].on # req[x].on
            BY <6>1 DEF IInv, OwnRow
          <6> QED  BY <1>1, <4>1, <6>2
        <5>2. CASE Updates(p, m, row)
          BY <4>1, <5>2 DEF Updates, Live
        <5> QED  BY <1>1, <5>1, <5>2
      <4>3. mapper'[n] = None
        BY <1>4, <4>1, <4>2
      <4>4. x \in stale' \/ (Live(scope, u)' /\ BelowLimit(u)')
        <5>1. u = s => x \in stale'
          BY <1>1, <1>2, <2>1, <3>1, <4>1
        <5>2. u # s => BelowLimit(u)' = BelowLimit(u)
          BY <1>8 DEF BelowLimit
        <5>3. Live(scope, u)' = Live(scope, u)
          BY <1>1 DEF Live
        <5> QED  BY <2>1, <4>1, <5>1, <5>2, <5>3
      <4> QED  BY <2>1, <3>1, <4>1, <4>3, <4>4 DEF MapperKnown
    <3>2. CASE pc[x] \in {"update mapper", "delete mapper"}
      <4>1. PICK n \in Mappers : n = req[x].on /\ mapper[n] # None /\ SeedScope[n] = None /\ req[x].of = mapper[n].scope
        BY <2>2, <3>2 DEF MapperKnown
      <4>2. mapper'[n] # None /\ mapper'[n].scope = mapper[n].scope
        BY <1>2, <1>4, <1>6, <4>1
      <4> QED  BY <2>1, <2>2, <3>2, <4>1, <4>2 DEF MapperKnown
    <3>3. CASE pc[x] \notin {"create mapper", "update mapper", "delete mapper"}
      BY <2>1, <3>3 DEF MapperKnown
    <3> QED  BY <3>1, <3>2, <3>3
  <2> QED  BY <1>1, <2>1, <2>3, CallUntouched DEF Known
<1>16. IInv'
  BY <1>1, <1>10, <1>14, <1>15, CommitKeeps
<1>17. /\ \A n \in Mappers : SeedScope[n] # None => mapper'[n] = mapper[n]
       /\ \A n \in Mappers : mapper[n] # None /\ ~mapper[n].live => mapper'[n] = mapper[n]
  BY <1>1, <1>4, <1>6 DEF Live
<1> QED  BY <1>1, <1>16, <1>17
-----------------------------------------------------------------------------
(* Hosts.                                                                  *)

LEMMA DecideHosts ==
  ASSUME IInv, NEW p \in Procs, AddDomain(p) \/ RemoveDomain(p)
  PROVE  IInv'
<1>1. ASSUME NEW t \in Tenants, NEW h \in Hosts,
             NEW write \in {"insert domain", "restore domain", "remove domain"},
             Decide(p, write, h, t, None),
             write = "insert domain" => Fits(t, h),
             write # "insert domain" => domain[h] # None /\ domain[h].tenant = t,
             write = "remove domain" => h # PrimaryOf[t]
      PROVE  IInv'
  <2>1. PICK q : q = [on |-> h, of |-> t, body |-> None]
    OBVIOUS
  <2>2. q \in Locals /\ write \in Writes \ {"idle"} /\ write \notin Creates
    BY <2>1 DEF Locals, Writes, Creates
  <2>3. Known(p, write, q)
    BY <1>1, <2>1 DEF Known, OrgKnown, ProjectKnown, AppKnown, ScopeKnown, MapperKnown, DomainKnown
  <2> QED  BY <1>1, <2>1, <2>2, <2>3, DecideKeeps
<1>2. CASE AddDomain(p)
  <2>1. PICK t \in Tenants, h \in Hosts :
          \/ domain[h] = [tenant |-> t, active |-> FALSE] /\ Decide(p, "restore domain", h, t, None)
          \/ Fits(t, h) /\ Decide(p, "insert domain", h, t, None)
    BY <1>2 DEF AddDomain
  <2>2. domain[h] = [tenant |-> t, active |-> FALSE] => domain[h] # None /\ domain[h].tenant = t
    <3>1. PICK row : row = [tenant |-> t, active |-> FALSE]
      OBVIOUS
    <3>2. row \in Domain /\ row.tenant = t
      BY <3>1 DEF Domain
    <3> QED  BY <3>1, <3>2
  <2> QED  BY <1>1, <2>1, <2>2
<1>3. CASE RemoveDomain(p)
  BY <1>1, <1>3 DEF RemoveDomain
<1> QED  BY <1>2, <1>3

\* A row of a host that is written: a new one, one that is put back, or one that
\* is taken off its tenant, which is not under the name of the issuer.
Adds(p, h, row) ==
    /\ domain[h] = None /\ row.active /\ (p \in stale \/ Fits(row.tenant, h))
    /\ raced' = IF p \in stale THEN raced \cup {row.tenant} ELSE raced

PutsBack(h, row) ==
    /\ domain[h] # None /\ row.tenant = domain[h].tenant /\ row.active
    /\ raced' = raced \cup {row.tenant}

Takes(h, row) ==
    /\ domain[h] # None /\ row.tenant = domain[h].tenant /\ ~row.active
    /\ h # PrimaryOf[row.tenant] /\ raced' = raced

LEMMA HostWritten ==
  ASSUME IInv, NEW p \in Procs, RestoreDomain(p) \/ InsertDomain(p) \/ DeactivateDomain(p)
  PROVE  \E h, row, things :
           /\ h \in Hosts /\ row \in Domain
           /\ domain' = [domain EXCEPT ![h] = row]
           /\ UNCHANGED <<org, project, app, scope, mapper>>
           /\ Commit(p, pc[p], things) /\ row.tenant \in things
           /\ Adds(p, h, row) \/ PutsBack(h, row) \/ Takes(h, row)
<1>1. domain \in [Hosts -> {None} \cup Domain] /\ DomainKnown(p, pc[p], req[p])
  BY DEF IInv, Typed, RowsTyped, CallsKnow, Known
<1>2. PICK h, t : h = req[p].on /\ t = req[p].of
  OBVIOUS
<1>3. CASE InsertDomain(p)
  <2>1. /\ pc[p] = "insert domain" /\ Commit(p, pc[p], {t}) /\ domain[h] = None
        /\ domain' = [domain EXCEPT ![h] = [tenant |-> t, active |-> TRUE]]
        /\ raced' = IF p \in stale THEN raced \cup {t} ELSE raced
        /\ UNCHANGED <<org, project, app, scope, mapper>>
    BY <1>2, <1>3 DEF InsertDomain, Commit
  <2>2. h \in Hosts /\ t \in Tenants /\ (p \in stale \/ Fits(t, h))
    BY <1>1, <1>2, <2>1 DEF DomainKnown
  <2>3. PICK row : row = [tenant |-> t, active |-> TRUE]
    OBVIOUS
  <2>4. row \in Domain /\ row.tenant = t /\ row.active
    BY <2>2, <2>3 DEF Domain
  <2>5. Adds(p, h, row)
    BY <2>1, <2>2, <2>4 DEF Adds
  <2> QED  BY <2>1, <2>2, <2>3, <2>4, <2>5
<1>4. CASE RestoreDomain(p)
  <2>1. /\ pc[p] = "restore domain" /\ Commit(p, pc[p], {t})
        /\ domain' = [domain EXCEPT ![h].active = TRUE]
        /\ raced' = raced \cup {t}
        /\ UNCHANGED <<org, project, app, scope, mapper>>
    BY <1>2, <1>4 DEF RestoreDomain, Commit
  <2>2. h \in Hosts /\ t \in Tenants /\ domain[h] # None /\ domain[h].tenant = t
    BY <1>1, <1>2, <2>1 DEF DomainKnown
  <2>3. PICK row : row = [domain[h] EXCEPT !.active = TRUE]
    OBVIOUS
  <2>4. domain[h] \in Domain
    BY <1>1, <2>2
  <2>5. row \in Domain /\ row.tenant = t /\ row.active
    BY <2>2, <2>3, <2>4 DEF Domain
  <2>6. domain' = [domain EXCEPT ![h] = row]
    BY <1>1, <2>1, <2>2, <2>3
  <2>7. PutsBack(h, row)
    BY <2>1, <2>2, <2>5 DEF PutsBack
  <2> QED  BY <2>1, <2>2, <2>5, <2>6, <2>7
<1>5. CASE DeactivateDomain(p)
  <2>1. /\ pc[p] = "remove domain" /\ Commit(p, pc[p], {t})
        /\ domain' = [domain EXCEPT ![h].active = FALSE]
        /\ UNCHANGED <<org, project, app, scope, mapper, raced>>
    BY <1>2, <1>5 DEF DeactivateDomain, Commit
  <2>2. h \in Hosts /\ t \in Tenants /\ domain[h] # None /\ domain[h].tenant = t /\ h # PrimaryOf[t]
    BY <1>1, <1>2, <2>1 DEF DomainKnown
  <2>3. PICK row : row = [domain[h] EXCEPT !.active = FALSE]
    OBVIOUS
  <2>4. domain[h] \in Domain
    BY <1>1, <2>2
  <2>5. row \in Domain /\ row.tenant = t /\ ~row.active
    BY <2>2, <2>3, <2>4 DEF Domain
  <2>6. domain' = [domain EXCEPT ![h] = row]
    BY <1>1, <2>1, <2>2, <2>3
  <2>7. Takes(h, row)
    BY <2>1, <2>2, <2>5 DEF Takes
  <2> QED  BY <2>1, <2>2, <2>5, <2>6, <2>7
<1> QED  BY <1>3, <1>4, <1>5

\* Whichever host is written, a tenant keeps the host its issuer names, and its
\* hosts stay under one registrable domain unless the write was outdated or put
\* a removed host back.
LEMMA WriteHosts ==
  ASSUME IInv, NEW p \in Procs, RestoreDomain(p) \/ InsertDomain(p) \/ DeactivateDomain(p)
  PROVE  IInv' /\ UNCHANGED <<org, project, app, scope, mapper>>
<1>1. PICK h, row, things :
        /\ h \in Hosts /\ row \in Domain
        /\ domain' = [domain EXCEPT ![h] = row]
        /\ UNCHANGED <<org, project, app, scope, mapper>>
        /\ Commit(p, pc[p], things) /\ row.tenant \in things
        /\ Adds(p, h, row) \/ PutsBack(h, row) \/ Takes(h, row)
  BY HostWritten
<1>2. PICK t \in Tenants : t = row.tenant
  BY <1>1 DEF Domain
<1>3. domain \in [Hosts -> {None} \cup Domain]
  BY DEF IInv, Typed, RowsTyped
<1>4. /\ domain'[h] = row /\ row # None
      /\ \A g \in Hosts : g # h => domain'[g] = domain[g]
      /\ domain' \in [Hosts -> {None} \cup Domain]
  BY <1>1, <1>3
<1>5. raced \subseteq raced' /\ raced' \subseteq raced \cup {t}
  BY <1>1, <1>2 DEF Adds, PutsBack, Takes
<1>6. domain[h] # None => domain[h].tenant = t
  BY <1>1, <1>2 DEF Adds, PutsBack, Takes
<1>7. \A u : ActiveHosts(u) = {g \in Hosts : domain[g] # None /\ domain[g].tenant = u /\ domain[g].active}
  BY <1>3 DEF ActiveHosts, Ids
<1>8. \A u : ActiveHosts(u)' = {g \in Hosts : domain'[g] # None /\ domain'[g].tenant = u /\ domain'[g].active}
  BY <1>4 DEF ActiveHosts, Ids
<1>9. \A u \in Tenants : u # t => ActiveHosts(u)' = ActiveHosts(u)
  <2> SUFFICES ASSUME NEW u \in Tenants, u # t, NEW g \in Hosts
               PROVE  g \in ActiveHosts(u)' <=> g \in ActiveHosts(u)
    BY <1>7, <1>8
  <2>1. CASE g = h
    BY <1>2, <1>4, <1>6, <1>7, <1>8, <2>1
  <2>2. CASE g # h
    BY <1>4, <1>7, <1>8, <2>2
  <2> QED  BY <2>1, <2>2
<1>10. RowsTyped'
  <2>1. raced' \subseteq Scopes \cup Tenants
    BY <1>5 DEF IInv, Typed, RowsTyped
  <2> QED  BY <1>1, <1>4, <2>1 DEF IInv, Typed, RowsTyped
<1>11. SeedHosts'
  <2> SUFFICES ASSUME NEW u \in Tenants
               PROVE  domain'[PrimaryOf[u]] = [tenant |-> u, active |-> TRUE]
    BY DEF SeedHosts
  <2>1. domain[PrimaryOf[u]] = [tenant |-> u, active |-> TRUE] /\ PrimaryOf[u] \in Hosts
    BY DEF IInv, RowsFit, SeedHosts
  <2>2. domain[PrimaryOf[u]] # None
    <3>1. [tenant |-> u, active |-> TRUE] \in Domain
      BY DEF Domain
    <3> QED  BY <2>1, <3>1
  <2>3. CASE PrimaryOf[u] # h
    BY <1>4, <2>1, <2>3
  <2>4. CASE PrimaryOf[u] = h
    <3>1. t = u
      BY <1>6, <2>1, <2>2, <2>4
    <3>2. PutsBack(h, row)
      BY <1>1, <1>2, <2>2, <2>4, <3>1 DEF Adds, Takes
    <3>3. row.tenant = u /\ row.active = TRUE
      BY <1>2, <3>1, <3>2 DEF PutsBack, Domain
    <3>4. row = [tenant |-> row.tenant, active |-> row.active]
      BY <1>1 DEF Domain
    <3> QED  BY <1>4, <2>4, <3>3, <3>4
  <2> QED  BY <2>3, <2>4
<1>12. HostLimits'
  <2> SUFFICES ASSUME NEW u \in Tenants, u \notin raced', NEW d \in Parents(ActiveHosts(u)'), NEW e \in Parents(ActiveHosts(u)')
               PROVE  d = e
    BY DEF HostLimits, Parents
  <2>1. u \notin raced
    BY <1>5
  <2>2. \A c, f \in Parents(ActiveHosts(u)) : c = f
    BY <2>1 DEF IInv, RowsFit, HostLimits
  <2>3. CASE u # t
    BY <1>9, <2>2, <2>3
  <2>4. CASE u = t
    <3>1. CASE Takes(h, row)
      <4>1. ActiveHosts(u)' \subseteq ActiveHosts(u)
        BY <1>4, <1>7, <1>8, <3>1 DEF Takes
      <4> QED  BY <2>2, <4>1 DEF Parents
    <3>2. CASE Adds(p, h, row)
      <4>1. Fits(t, h)
        BY <1>2, <2>4, <3>2 DEF Adds
      <4>2. ActiveHosts(u)' \subseteq ActiveHosts(u) \cup {h}
        BY <1>4, <1>7, <1>8
      <4>3. Parents(ActiveHosts(u)') \subseteq Parents(ActiveHosts(u)) \cup ({Registrable[h]} \ {None})
        BY <4>2 DEF Parents
      <4>4. Anchors(u) \subseteq Parents(ActiveHosts(u)) /\ (Anchors(u) = {} => Parents(ActiveHosts(u)) = {})
        BY DEF Anchors, Parents
      <4> QED  BY <2>2, <2>4, <4>1, <4>3, <4>4 DEF Fits
    <3> QED  BY <1>1, <1>2, <2>4, <3>1, <3>2 DEF PutsBack
  <2> QED  BY <2>3, <2>4
<1>13. RowsFit'
  BY <1>1, <1>5, <1>11, <1>12, RowsUntouched DEF RowsFit
<1>14. ASSUME NEW x \in Procs \ {p}
       PROVE  Known(x, pc[x], req[x])'
  <2>1. /\ pc'[x] = pc[x] /\ req'[x] = req[x] /\ (x \in stale => x \in stale')
        /\ pc[x] # "idle" /\ req[x].of \in things => x \in stale'
    BY <1>1, Committed
  <2>2. DomainKnown(x, pc[x], req[x])
    BY DEF IInv, CallsKnow, Known
  <2>3. DomainKnown(x, pc[x], req[x])'
    <3>1. CASE pc[x] \in {"insert domain", "restore domain", "remove domain"}
      <4>1. PICK g \in Hosts, u \in Tenants : g = req[x].on /\ u = req[x].of
        BY <2>2, <3>1 DEF DomainKnown
      <4>2. domain[g] # None /\ domain[g].tenant = u => domain'[g] # None /\ domain'[g].tenant = u
        BY <1>2, <1>4, <1>6
      <4>3. u = t => x \in stale'
        BY <1>1, <1>2, <2>1, <3>1, <4>1
      <4>4. u # t => (Fits(u, g)' <=> Fits(u, g))
        <5> SUFFICES ASSUME u # t
                     PROVE  Fits(u, g)' <=> Fits(u, g)
          OBVIOUS
        <5>1. ActiveHosts(u)' = ActiveHosts(u)
          BY <1>9
        <5>2. Anchors(u)' = Anchors(u)
          BY <5>1 DEF Anchors, Parents
        <5> QED  BY <5>2 DEF Fits
      <4> QED  BY <2>1, <2>2, <3>1, <4>1, <4>2, <4>3, <4>4 DEF DomainKnown
    <3>2. CASE pc[x] \notin {"insert domain", "restore domain", "remove domain"}
      BY <2>1, <3>2 DEF DomainKnown
    <3> QED  BY <3>1, <3>2
  <2> QED  BY <1>1, <2>1, <2>3, CallUntouched DEF Known
<1> QED  BY <1>1, <1>10, <1>13, <1>14, CommitKeeps
-----------------------------------------------------------------------------
(* The theorems.                                                           *)

LEMMA NextHolds == IInv /\ [Next]_vars => IInv'
<1> SUFFICES ASSUME IInv, [Next]_vars
             PROVE  IInv'
  OBVIOUS
<1>1. CASE UNCHANGED vars
  <2>1. UNCHANGED <<org, project, app, scope, mapper, domain, stale, raced, pc, req>>
    BY <1>1 DEF vars, rows
  <2>2. Typed' /\ OwnRow'
    BY <2>1 DEF IInv, Typed, RowsTyped, CallsTyped, OwnRow
  <2>3. RowsFit'
    BY <2>1, RowsUntouched DEF RowsFit
  <2>4. CallsKnow'
    BY <2>1, CallUntouched DEF CallsKnow, Known
  <2> QED  BY <2>2, <2>3, <2>4 DEF IInv
<1>2. ASSUME NEW p \in Procs, OrgStep(p) \/ ProjectStep(p)
      PROVE  IInv'
  BY <1>2, DecideOrgs, WriteOrg, WriteProject DEF OrgStep, ProjectStep
<1>3. ASSUME NEW p \in Procs, AppStep(p)
      PROVE  IInv'
  BY <1>3, DecideApps, WriteApp DEF AppStep
<1>4. ASSUME NEW p \in Procs, ScopeStep(p)
      PROVE  IInv'
  BY <1>4, DecideScopes, NameScope, DropScope DEF ScopeStep
<1>5. ASSUME NEW p \in Procs, MapperStep(p)
      PROVE  IInv'
  BY <1>5, DecideMappers, WriteMappers DEF MapperStep
<1>6. ASSUME NEW p \in Procs, DomainStep(p)
      PROVE  IInv'
  BY <1>6, DecideHosts, WriteHosts DEF DomainStep
<1> QED  BY <1>1, <1>2, <1>3, <1>4, <1>5, <1>6, AbandonKeeps DEF Next

LEMMA Invariance == Spec => []IInv
  BY InitHolds, NextHolds, PTL DEF Spec

\* The tables hold rows of their shape, and no two live clients, scopes of a
\* tenant or mappers of a scope share a key, whichever requests overlap
\* (the unique keys uq_client, uq_scope and uq_mapper of the migrations).
THEOREM ConsoleTyped == Spec => []TypeOK
<1>1. IInv => TypeOK
  <2> SUFFICES ASSUME IInv
               PROVE  TypeOK
    OBVIOUS
  <2>1. ClientKeys /\ ScopeKeys /\ MapperKeys /\ Typed
    BY DEF IInv, RowsFit
  <2> QED  BY <2>1 DEF TypeOK, ClientKeys, ScopeKeys, MapperKeys, Typed, RowsTyped, CallsTyped
<1> QED  BY Invariance, <1>1, PTL

\* The limits that are read in one statement and relied on in another hold
\* outside the races the model names: the mappers of a scope
\* (mapper_admin_service.go), the registrable domain of the hosts of a tenant and
\* the host its issuer names (tenant/admin_service.go).
THEOREM LimitsKept == Spec => []LimitsHold
<1>1. IInv => LimitsHold
  <2> SUFFICES ASSUME IInv
               PROVE  LimitsHold
    OBVIOUS
  <2>1. MappersFit
    BY DEF IInv, RowsFit, MapperLimits
  <2>2. HostsFit
    <3> SUFFICES ASSUME NEW t \in Tenants \ raced
                 PROVE  Cardinality(Parents(ActiveHosts(t))) <= 1
      BY DEF HostsFit
    <3>1. PICK D : D = Parents(ActiveHosts(t)) /\ \A d, e \in D : d = e
      BY DEF IInv, RowsFit, HostLimits
    <3>2. CASE D = {}
      BY <3>1, <3>2, FS_EmptySet
    <3>3. CASE D # {}
      <4>1. PICK d : D = {d}
        BY <3>1, <3>3
      <4>2. Cardinality({d}) = 1
        BY FS_Singleton
      <4> QED  BY <3>1, <4>1, <4>2
    <3> QED  BY <3>2, <3>3
  <2>3. TenantsReached
    <3> SUFFICES ASSUME NEW t \in Tenants
                 PROVE  TenantOf(PrimaryOf[t]) = t
      BY DEF TenantsReached
    <3>1. domain[PrimaryOf[t]] = [tenant |-> t, active |-> TRUE]
      BY DEF IInv, RowsFit, SeedHosts
    <3>2. domain[PrimaryOf[t]] # None
      <4>1. [tenant |-> t, active |-> TRUE] \in Domain
        BY DEF Domain
      <4> QED  BY <3>1, <4>1
    <3> QED  BY <3>1, <3>2 DEF TenantOf
  <2> QED  BY <2>1, <2>2, <2>3 DEF LimitsHold
<1> QED  BY Invariance, <1>1, PTL

\* What a delete, an update and a rename may never take: the scope of a served
\* client, the client of a deleted project, what the tenant was seeded with, and
\* what is deleted already (Delete of scope_admin_service.go, the row conditions
\* of the repositories).
THEOREM DeletesAreKept == Spec => DeletesHold
<1> DEFINE Kept == ScopesInUseStay /\ OrphansStay /\ SeedsStay /\ DeletedStay
<1>1. ASSUME IInv, [Next]_vars
      PROVE  [Kept]_vars
  <2>1. /\ DOMAIN org = Orgs /\ DOMAIN project = Projects /\ DOMAIN app = Apps
        /\ DOMAIN scope = Scopes /\ DOMAIN mapper = Mappers
    BY <1>1 DEF IInv, Typed, RowsTyped
  <2>2. CASE UNCHANGED <<org, project, app, scope, mapper>>
    BY <2>2 DEF ScopesInUseStay, OrphansStay, SeedsStay, DeletedStay, Stays, Live
  <2>3. ASSUME NEW p \in Procs, InsertOrg(p) \/ SoftDeleteOrg(p)
        PROVE  Kept
    <3>1. UNCHANGED <<project, app, scope, mapper>>
      BY <2>3 DEF InsertOrg, SoftDeleteOrg
    <3>2. /\ \A o \in Orgs : org[o] # None /\ ~org[o].live => org'[o] = org[o]
          /\ org'[DefaultOrg] = org[DefaultOrg]
      BY <1>1, <2>3, WriteOrg
    <3> QED  BY <2>1, <3>1, <3>2 DEF ScopesInUseStay, OrphansStay, SeedsStay, DeletedStay, Stays, Live
  <2>4. ASSUME NEW p \in Procs, InsertProject(p) \/ SoftDeleteProject(p)
        PROVE  Kept
    <3>1. UNCHANGED <<org, app, scope, mapper>>
      BY <2>4 DEF InsertProject, SoftDeleteProject
    <3>2. \A j \in Projects : project[j] # None /\ ~project[j].live => project'[j] = project[j]
      BY <1>1, <2>4, WriteProject
    <3> QED  BY <2>1, <3>1, <3>2 DEF ScopesInUseStay, OrphansStay, SeedsStay, DeletedStay, Stays, Live
  <2>5. ASSUME NEW p \in Procs, InsertApp(p) \/ UpdateConfig(p) \/ SetSecret(p) \/ SoftDeleteApp(p)
        PROVE  Kept
    <3>1. /\ \A b \in Apps : app[b] # None /\ app'[b] # app[b] =>
                 /\ app[b].live /\ b = req[p].on
                 /\ p \in stale \/ Live(project, app[b].project)
          /\ pc[p] # "idle" /\ pc'[p] = "idle" /\ UNCHANGED <<org, project, scope, mapper>>
      BY <1>1, <2>5, WriteApp
    <3>2. OrphansStay
      BY <3>1 DEF OrphansStay, Served, Live
    <3>3. Stays(app, app')
      BY <2>1, <3>1 DEF Stays
    <3> QED  BY <3>1, <3>2, <3>3 DEF ScopesInUseStay, SeedsStay, DeletedStay, Stays, Live
  <2>6. ASSUME NEW p \in Procs, InsertScope(p) \/ WriteScope(p)
        PROVE  Kept
    <3>1. /\ UNCHANGED <<org, project, app, mapper>>
          /\ \A u \in Scopes : scope[u] # None => scope'[u].live = scope[u].live
          /\ \A u \in Scopes : scope[u] # None /\ ~scope[u].live => scope'[u] = scope[u]
      BY <1>1, <2>6, NameScope
    <3>2. ScopesInUseStay
      BY <3>1 DEF ScopesInUseStay, Live
    <3>3. Stays(scope, scope')
      BY <2>1, <3>1 DEF Stays
    <3> QED  BY <3>1, <3>2, <3>3 DEF OrphansStay, SeedsStay, DeletedStay, Stays
  <2>7. ASSUME NEW p \in Procs, SoftDeleteScope(p)
        PROVE  Kept
    <3>1. /\ UNCHANGED <<org, project, app>>
          /\ pc[p] = "delete scope" /\ pc'[p] = "idle"
          /\ \A u \in Scopes : u # req[p].on => scope'[u] = scope[u]
          /\ Live(scope, req[p].on) /\ (p \in stale \/ NameUnused(req[p].on))
          /\ \A m \in Mappers : SeedScope[m] # None => mapper'[m] = mapper[m]
          /\ \A m \in Mappers : mapper[m] # None /\ ~mapper[m].live => mapper'[m] = mapper[m]
      BY <1>1, <2>7, DropScope
    <3>2. ScopesInUseStay
      <4> SUFFICES ASSUME NEW s \in Scopes, Live(scope, s), ~scope'[s].live
                   PROVE  \/ \A a \in Apps : Served(a) => scope[s].name \notin app[a].client.scopes
                          \/ \E q \in stale : Does(q, "delete scope") /\ req[q].on = s
        BY DEF ScopesInUseStay
      <4>1. s = req[p].on
        BY <3>1 DEF Live
      <4> QED  BY <3>1, <4>1 DEF NameUnused, Does
    <3>3. Stays(scope, scope') /\ Stays(mapper, mapper')
      BY <2>1, <3>1 DEF Stays, Live
    <3> QED  BY <3>1, <3>2, <3>3 DEF OrphansStay, SeedsStay, DeletedStay, Stays
  <2>8. ASSUME NEW p \in Procs, InsertMapper(p) \/ WriteMapper(p) \/ SoftDeleteMapper(p)
        PROVE  Kept
    <3>1. /\ UNCHANGED <<org, project, app, scope>>
          /\ \A m \in Mappers : SeedScope[m] # None => mapper'[m] = mapper[m]
          /\ \A m \in Mappers : mapper[m] # None /\ ~mapper[m].live => mapper'[m] = mapper[m]
      BY <1>1, <2>8, WriteMappers
    <3> QED  BY <2>1, <3>1 DEF ScopesInUseStay, OrphansStay, SeedsStay, DeletedStay, Stays, Live
  <2>9. ASSUME NEW p \in Procs,
               \/ DomainStep(p) \/ Abandon(p)
               \/ CreateOrg(p) \/ DeleteOrg(p) \/ CreateProject(p) \/ DeleteProject(p)
        PROVE  UNCHANGED <<org, project, app, scope, mapper>>
    BY <2>9 DEF DomainStep, AddDomain, RestoreDomain, InsertDomain, RemoveDomain, DeactivateDomain, Abandon,
         CreateOrg, DeleteOrg, CreateProject, DeleteProject, Decide, rows
  <2>10. ASSUME NEW p \in Procs,
                \/ CreateApp(p) \/ UpdateApp(p) \/ RotateSecret(p) \/ DeleteApp(p)
                \/ CreateScope(p) \/ UpdateScope(p) \/ DeleteScope(p)
                \/ CreateMapper(p) \/ UpdateMapper(p) \/ DeleteMapper(p)
         PROVE  UNCHANGED <<org, project, app, scope, mapper>>
    BY <2>10 DEF CreateApp, UpdateApp, RotateSecret, DeleteApp, CreateScope, UpdateScope, DeleteScope,
         CreateMapper, UpdateMapper, DeleteMapper, Decide, rows
  <2>11. CASE UNCHANGED vars
    BY <2>11
  <2> QED
    BY <1>1, <2>2, <2>3, <2>4, <2>5, <2>6, <2>7, <2>8, <2>9, <2>10, <2>11
       DEF Next, OrgStep, ProjectStep, AppStep, ScopeStep, MapperStep
<1> QED  BY Invariance, <1>1, PTL DEF Spec, DeletesHold

=============================================================================

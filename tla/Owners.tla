------------------------------- MODULE Owners -------------------------------
(***************************************************************************)
(* Who administers a tenant: the people and their accounts, the roles they *)
(* hold on the tenant and in its organizations, and the directories whose  *)
(* domain claims decide whose password the gateway checks itself.          *)
(*                                                                         *)
(* Every write of the console reads the rights of the person who asks,     *)
(* runs its guard rails as reads of their own, and then opens a            *)
(* transaction that only writes. Each read is an action, and so is the     *)
(* transaction, whose statements lock the rows they touch.                 *)
(*                                                                         *)
(* The access token of the person who asks names them until it expires,    *)
(* whatever became of their account, so every person created may ask. An   *)
(* email address never changes. Federation Links are left out: the only    *)
(* write that makes one makes an account without a password, and a         *)
(* password is only ever replaced, so no linked person is a local owner.   *)
(***************************************************************************)
EXTENDS Naturals, FiniteSets

CONSTANTS
    Procs,        \* requests that run side by side
    Users,        \* people
    Orgs,         \* organizations
    Feds,         \* user federations
    Domains,      \* email domains
    None,         \* the absent value; as an organization, the tenant itself
    TenantRoles,  \* bound: the role lists a tenant membership body names
    OrgRoles,     \* bound: the role lists an organization body names
    Asked         \* bound: the operations that are asked for

TenantSeats == {"IAM_OWNER", "IAM_ADMIN"}

OrgSeats == {"ORG_OWNER", "ORG_USER_MANAGER"}

Ops == {"add", "update", "remove", "create", "invite", "provision",
        "activate", "deactivate", "deleteUser", "claim", "deleteFed"}

\* A body names one role at least. Create writes a membership without any.
ASSUME BodyAssumption ==
    /\ TenantRoles \subseteq (SUBSET TenantSeats) \ {{}}
    /\ OrgRoles \subseteq (SUBSET OrgSeats) \ {{}}
ASSUME AskedAssumption == Asked \subseteq Ops
ASSUME NoneAssumption == None \notin Users \cup Orgs \cup Feds \cup Domains
ASSUME PeopleAssumption == IsFiniteSet(Users)

Scopes == Orgs \cup {None}

\* The role names that mean something on the tenant or in an organization, and
\* the roles of a membership row.
Seats(o) == IF o = None THEN TenantSeats ELSE OrgSeats

Roles == SUBSET (TenantSeats \cup OrgSeats)

ASSUME NoRolesAssumption == \A r \in Roles : r # None
ASSUME NoNoteAssumption == \A note \in BOOLEAN \cup SUBSET Users : note # None

VARIABLES
    domainOf,  \* the domain of each email address, chosen once
    home,      \* the organization of each account, chosen once
    level,     \* the organization of each federation or the tenant, chosen once
    account,   \* users.state, and whether the row is there
    hash,      \* user_humans.password_hash is set
    member,    \* tenant_members and organization_members
    fed,       \* user_federations.state, and whether the row is there
    claim,     \* user_federation_domains: who holds each domain
    stripped,  \* history: an Add took IAM_OWNER from somebody
    raced,     \* history: a write landed on other rows than its guard read
    pc,        \* where each request stands
    req        \* the local variables of each request

fixed == <<domainOf, home, level>>
rows == <<account, hash, member, fed, claim>>
history == <<stripped, raced>>
vars == <<fixed, rows, history, pc, req>>

PCs == {"idle", "sit", "held", "count", "local", "write"}

\* held, owners, local: what the guard rails read, None before they did.
Req == [op     : Ops \cup {"none"},
        user   : Users \cup {None},
        scope  : Scopes,
        roles  : Roles,
        fed    : Feds \cup {None},
        claims : SUBSET Domains,
        on     : BOOLEAN,
        held   : {None} \cup BOOLEAN,
        owners : {None} \cup SUBSET Users,
        local  : {None} \cup SUBSET Users]

NoReq == [op |-> "none", user |-> None, scope |-> None,
          roles |-> {}, fed |-> None, claims |-> {}, on |-> FALSE,
          held |-> None, owners |-> None, local |-> None]

TypeOK ==
    /\ domainOf \in [Users -> Domains \cup {None}]
    /\ home \in [Users -> Orgs]
    /\ level \in [Feds -> Scopes]
    /\ account \in [Users -> {"absent", "initial", "active", "inactive", "deleted"}]
    /\ hash \in [Users -> BOOLEAN]
    /\ DOMAIN member = Scopes
    /\ \A o \in Scopes : member[o] \in [Users -> {None} \cup SUBSET Seats(o)]
    /\ fed \in [Feds -> {"absent", "active", "inactive", "deleted"}]
    /\ claim \in [Domains -> Feds \cup {None}]
    /\ stripped \in BOOLEAN
    /\ raced \in BOOLEAN
    /\ pc \in [Procs -> PCs]
    /\ req \in [Procs -> Req]

-----------------------------------------------------------------------------
(* Rights.                                                                 *)

\* The roles one person holds on the tenant or in one organization.
Held(o, u) == IF member[o][u] = None THEN {} ELSE member[o][u]

TenantManager(u) == Held(None, u) # {}

CanWrite(o, u) ==
    TenantManager(u) \/ (o # None /\ "ORG_OWNER" \in Held(o, u))

\* The people of an organization are also its user manager's to write.
ManagesPeople(o, u) ==
    TenantManager(u) \/ (o # None /\ Held(o, u) \cap OrgSeats # {})

\* AuthorizeOrgRoleGrant: only somebody above confers ORG_OWNER.
MayConfer(o, u, roles) == "ORG_OWNER" \in roles => CanWrite(o, u)

\* Mutant of MayWriteMember: an IAM_ADMIN confers tenant roles too.
MayWriteMemberOfTenant(o, u, roles) ==
    IF o = None THEN TenantManager(u)
    ELSE ManagesPeople(o, u) /\ MayConfer(o, u, roles)

\* The gate of every membership write.
MayWriteMember(o, u, roles) ==
    IF o = None THEN "IAM_OWNER" \in Held(None, u)
    ELSE ManagesPeople(o, u) /\ MayConfer(o, u, roles)

-----------------------------------------------------------------------------
(* Owners.                                                                 *)

\* CountOwners: a seat counts while somebody can take it.
Owners == {u \in Users : "IAM_OWNER" \in Held(None, u) /\ account[u] = "active"}

Claimed(u) ==
    \E d \in Domains : domainOf[u] = d /\ claim[d] # None /\ fed[claim[d]] = "active"

\* LocalOwners: the owners whose password this gateway checks.
LocalOwners == {u \in Owners : hash[u] /\ ~Claimed(u)}

\* LastLocalOwner. A tenant without a local owner is not made worse.
EmptiesLocal(local, taken) == local # {} /\ local \subseteq taken

-----------------------------------------------------------------------------

\* The bootstrap wrote one owner, who holds a password.
Init ==
    /\ domainOf \in [Users -> Domains \cup {None}]
    /\ home \in [Users -> Orgs]
    /\ level \in [Feds -> Scopes]
    /\ \E u \in Users :
        /\ account = [x \in Users |-> IF x = u THEN "active" ELSE "absent"]
        /\ hash = [x \in Users |-> x = u]
        /\ member = [o \in Scopes |-> [x \in Users |->
              IF x = u /\ o = None THEN {"IAM_OWNER"}
              ELSE IF x = u /\ o = home[u] THEN {"ORG_OWNER"}
              ELSE None]]
    /\ fed = [f \in Feds |-> "absent"]
    /\ claim = [d \in Domains |-> None]
    /\ stripped = FALSE
    /\ raced = FALSE
    /\ pc = [p \in Procs |-> "idle"]
    /\ req = [p \in Procs |-> NoReq]

Goto(p, where) ==
    /\ pc' = [pc EXCEPT ![p] = where]
    /\ UNCHANGED <<fixed, rows, history>>

\* A request goes on with new locals.
Move(p, where, locals) ==
    /\ req' = [req EXCEPT ![p] = locals]
    /\ Goto(p, where)

\* ... or is refused.
Refuse(p) == Move(p, "idle", NoReq)

\* The request is over, and its write committed.
Done(p) ==
    /\ pc' = [pc EXCEPT ![p] = "idle"]
    /\ req' = [req EXCEPT ![p] = NoReq]
    /\ UNCHANGED fixed

\* What a request about a person asks for, and one about a federation.
OfPerson(op, u, o, roles) ==
    [NoReq EXCEPT !.op = op, !.user = u, !.scope = o, !.roles = roles]

OfFed(op, f, ds, on, held) ==
    [NoReq EXCEPT !.op = op, !.fed = f, !.claims = ds, !.on = on, !.held = held]

Ask(p, where, locals) ==
    /\ pc[p] = "idle"
    /\ locals.op \in Asked
    /\ Move(p, where, locals)

Exists(u) == account[u] \notin {"absent", "deleted"}

\* Whoever was created holds a token.
Actors == {u \in Users : account[u] # "absent"}

-----------------------------------------------------------------------------
(* The gates: somebody who may ask does. One it refuses changes nothing.   *)

\* Whether keepsAnOwner has something to say about a membership write.
RailsFirst(op, o, roles) ==
    op \in {"update", "remove"} /\ o = None /\ "IAM_OWNER" \notin roles

\* Mutant of Bodies: any role name passes in any roster.
BodiesUnknown(o) == TenantRoles \cup OrgRoles

\* known: a body names the roles of the roster it writes.
Bodies(o) == IF o = None THEN TenantRoles ELSE OrgRoles

AskMember(p) ==
    \E u \in Actors, o \in Scopes, op \in {"add", "update", "remove"} :
    \E roles \in IF op = "remove" THEN {{}} ELSE Bodies(o) :
        /\ {a \in Actors : MayWriteMember(o, a, roles)} # {}
        /\ Ask(p, IF op = "update" THEN "sit"
                  ELSE IF RailsFirst(op, o, roles) THEN "held" ELSE "write",
               OfPerson(op, u, o, roles))

\* A role change needs a sitting member.
Sit(p) ==
    /\ pc[p] = "sit"
    /\ LET r == req[p]
       IN  IF member[r.scope][r.user] = None THEN Refuse(p)
           ELSE /\ Goto(p, IF RailsFirst(r.op, r.scope, r.roles) THEN "held" ELSE "write")
                /\ UNCHANGED req

AskUser(p) ==
    \E u \in Users, op \in {"activate", "deactivate", "deleteUser"} :
        /\ Exists(u)
        /\ {a \in Actors : ManagesPeople(home[u], a)} # {}
        /\ Ask(p, IF op = "activate" THEN "write" ELSE "held",
               OfPerson(op, u, None, {}))

\* A new person: created with a password, or invited without one.
AskPerson(p) ==
    \E u \in Users \ Actors, op \in {"create", "invite"} :
    \E roles \in IF op = "create" THEN {{}} ELSE OrgRoles :
        /\ {a \in Actors : ManagesPeople(home[u], a) /\ MayConfer(home[u], a, roles)} # {}
        /\ Ask(p, "write", OfPerson(op, u, None, roles))

\* The first bind of somebody an active directory proves.
AskProvision(p) ==
    \E f \in Feds, u \in Users \ Actors :
        /\ fed[f] = "active"
        /\ level[f] \in {None, home[u]}
        /\ Ask(p, "write", OfPerson("provision", u, None, {}))

\* Create and Update of a federation. Only an active one claims anything.
AskClaim(p) ==
    \E f \in Feds, ds \in SUBSET Domains, on \in BOOLEAN :
        /\ fed[f] # "deleted"
        /\ {a \in Actors : CanWrite(level[f], a)} # {}
        /\ Ask(p, IF on /\ ds # {} THEN "local" ELSE "write",
               OfFed("claim", f, ds, on, fed[f] # "absent"))

AskDeleteFed(p) ==
    \E f \in Feds :
        /\ fed[f] \in {"active", "inactive"}
        /\ {a \in Actors : CanWrite(level[f], a)} # {}
        /\ Ask(p, "write", OfFed("deleteFed", f, {}, FALSE, None))

-----------------------------------------------------------------------------
(* keepsAnOwner and keepsALocalOwner.                                      *)

ReadHeld(p) ==
    /\ pc[p] = "held"
    /\ IF "IAM_OWNER" \in Held(None, req[p].user)
       THEN Move(p, "count", [req[p] EXCEPT !.held = TRUE])
       ELSE Move(p, "write", [req[p] EXCEPT !.held = FALSE])

CountOwners(p) ==
    /\ pc[p] = "count"
    /\ IF Cardinality(Owners) <= 1 THEN Refuse(p)
       ELSE Move(p, "local", [req[p] EXCEPT !.owners = Owners])

\* Mutant of Taken: a claim takes nobody out.
TakenFromUser(p) == {req[p].user}

\* Whom a write takes out of the local compare.
Taken(p) ==
    IF req[p].op = "claim" THEN {u \in Users : domainOf[u] \in req[p].claims}
    ELSE {req[p].user}

ReadLocal(p) ==
    /\ pc[p] = "local"
    /\ IF EmptiesLocal(LocalOwners, Taken(p)) THEN Refuse(p)
       ELSE Move(p, "write", [req[p] EXCEPT !.local = LocalOwners])

-----------------------------------------------------------------------------
(* The transactions.                                                       *)

\* Whether the rails would read something else now.
Moved(p) ==
    LET r == req[p]
    IN  \/ r.op # "claim" /\ r.held # None
             /\ r.held # ("IAM_OWNER" \in Held(None, r.user))
        \/ r.owners # None /\ r.owners # Owners
        \/ r.local # None /\ r.local # LocalOwners

\* A commit remembers that another one overtook it.
Overtaken(p) == raced' = (raced \/ Moved(p))

WriteMember(p) ==
    /\ pc[p] = "write"
    /\ req[p].op \in {"add", "update", "remove"}
    /\ LET r == req[p]
           lost == "IAM_OWNER" \in Held(r.scope, r.user) \ r.roles
       IN  IF r.op = "remove" /\ member[r.scope][r.user] = None THEN Refuse(p)
           ELSE /\ member' = [member EXCEPT ![r.scope][r.user] =
                      IF r.op = "remove" THEN None ELSE r.roles]
                /\ stripped' = (stripped \/ (r.op = "add" /\ lost))
                /\ Overtaken(p)
                /\ Done(p)
                /\ UNCHANGED <<account, hash, fed, claim>>

\* SetState and SoftDelete miss an account that is gone.
WriteUser(p) ==
    /\ pc[p] = "write"
    /\ req[p].op \in {"activate", "deactivate", "deleteUser"}
    /\ LET r == req[p]
       IN  IF ~Exists(r.user) THEN Refuse(p)
           ELSE /\ account' = [account EXCEPT ![r.user] =
                      CASE r.op = "activate" -> "active"
                        [] r.op = "deactivate" -> "inactive"
                        [] OTHER -> "deleted"]
                /\ Overtaken(p)
                /\ Done(p)
                /\ UNCHANGED <<hash, member, fed, claim, stripped>>

\* uq_username refuses a second person of one name.
WritePerson(p) ==
    /\ pc[p] = "write"
    /\ req[p].op \in {"create", "invite", "provision"}
    /\ LET r == req[p]
       IN  IF account[r.user] # "absent" THEN Refuse(p)
           ELSE /\ account' = [account EXCEPT ![r.user] =
                      IF r.op = "invite" THEN "initial" ELSE "active"]
                /\ hash' = [hash EXCEPT ![r.user] = r.op = "create"]
                /\ member' = [member EXCEPT ![home[r.user]][r.user] = r.roles]
                /\ Done(p)
                /\ UNCHANGED <<fed, claim, stripped, raced>>

\* Mutant of Claiming: what the body dropped is not released.
ClaimingMore(f, ds) == [d \in Domains |-> IF d \in ds THEN f ELSE claim[d]]

\* Claim: the domains the body dropped are released, and the others are taken
\* unless another federation holds them.
Claiming(f, ds) ==
    [d \in Domains |->
        IF d \in ds THEN f ELSE IF claim[d] = f THEN None ELSE claim[d]]

\* The federation of an update is still there, and every domain is free.
MayClaim(p) ==
    /\ fed[req[p].fed] = "absent" <=> ~req[p].held
    /\ fed[req[p].fed] # "deleted"
    /\ \A d \in req[p].claims : claim[d] \in {None, req[p].fed}

WriteClaim(p) ==
    /\ pc[p] = "write"
    /\ req[p].op = "claim"
    /\ IF ~MayClaim(p) THEN Refuse(p)
       ELSE /\ fed' = [fed EXCEPT ![req[p].fed] = IF req[p].on THEN "active" ELSE "inactive"]
            /\ claim' = Claiming(req[p].fed, req[p].claims)
            /\ Overtaken(p)
            /\ Done(p)
            /\ UNCHANGED <<account, hash, member, stripped>>

\* A deleted federation releases what it claimed.
WriteDeleteFed(p) ==
    /\ pc[p] = "write"
    /\ req[p].op = "deleteFed"
    /\ IF fed[req[p].fed] = "deleted" THEN Refuse(p)
       ELSE /\ fed' = [fed EXCEPT ![req[p].fed] = "deleted"]
            /\ claim' = Claiming(req[p].fed, {})
            /\ Overtaken(p)
            /\ Done(p)
            /\ UNCHANGED <<account, hash, member, stripped>>

\* A read or the transaction fails, audit row included: nothing is written.
Abandon(p) == pc[p] # "idle" /\ Refuse(p)

Next ==
    \E p \in Procs :
        \/ AskMember(p)
        \/ Sit(p)
        \/ AskUser(p)
        \/ AskPerson(p)
        \/ AskProvision(p)
        \/ AskClaim(p)
        \/ AskDeleteFed(p)
        \/ ReadHeld(p)
        \/ CountOwners(p)
        \/ ReadLocal(p)
        \/ WriteMember(p)
        \/ WriteUser(p)
        \/ WritePerson(p)
        \/ WriteClaim(p)
        \/ WriteDeleteFed(p)
        \/ Abandon(p)

Spec == Init /\ [][Next]_vars

-----------------------------------------------------------------------------
(* Properties.                                                             *)

\* The tenant keeps somebody who sits as IAM_OWNER, can sign in, and whose
\* password does not depend on a directory: neither role writes, account writes
\* nor domain claims take the last, unless an Add took the role away or a write
\* overtook the guard of another.
ALocalOwnerStays == LocalOwners # {} \/ stripped \/ raced

\* "a tenant without one can never grant one again" (ErrLastOwner), and an
\* organization with nobody above it makes no owner of its own: once the seats
\* are gone and no write that gives one is under way, no request of anybody, nor
\* any sequence of them, starts one. Nobody outranks themself.
Roster(r) == IF r.op \in {"create", "invite", "provision"} THEN home[r.user] ELSE r.scope

UnderWay(o, seats) == \E p \in Procs : Roster(req[p]) = o /\ req[p].roles \cap seats # {}

TenantLocked ==
    /\ \A u \in Users : "IAM_OWNER" \notin Held(None, u)
    /\ ~UnderWay(None, {"IAM_OWNER"})

OrgLocked(o) ==
    /\ \A u \in Users : ~TenantManager(u) /\ "ORG_OWNER" \notin Held(o, u)
    /\ ~UnderWay(None, TenantSeats)
    /\ ~UnderWay(o, {"ORG_OWNER"})

LockoutIsForGood ==
    [][/\ TenantLocked => TenantLocked'
       /\ \A o \in Orgs : OrgLocked(o) => (OrgLocked(o))']_vars

\* A claimed domain is held by a federation that is there, so that somebody
\* can let go of it.
ClaimsHaveHolders ==
    \A d \in Domains : claim[d] # None => fed[claim[d]] \in {"active", "inactive"}

\* "never leave a tenant with zero local IAM_OWNER", whatever was asked.
NeverWithoutLocalOwner == LocalOwners # {} \/ raced

=============================================================================

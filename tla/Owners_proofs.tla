--------------------------- MODULE Owners_proofs ---------------------------
(***************************************************************************)
(* What any number of administrators, people and directories keeps: every  *)
(* membership carries roles that mean something where it stands, every     *)
(* claimed domain has a live directory behind it, a tenant keeps an owner  *)
(* who can sign in without one, and whoever is locked out stays out.       *)
(***************************************************************************)
EXTENDS Owners, TLAPS

\* A body passed the gate of what it writes. TypeOK alone does not know it,
\* and a request carries its body past every read in between.
Fits(r) ==
    /\ r.op \in {"add", "update"} => r.roles \subseteq Seats(r.scope)
    /\ r.op = "remove" => r.roles = {}
    /\ r.op \in {"create", "invite", "provision"} =>
          r.user \in Users /\ r.roles \subseteq OrgSeats
    /\ r.op \in {"claim", "deleteFed"} => r.fed \in Feds

\* The tables. TypeOK is the tables, the histories and the requests.
RowsTyped ==
    /\ account \in [Users -> {"absent", "initial", "active", "inactive", "deleted"}]
    /\ hash \in [Users -> BOOLEAN]
    /\ DOMAIN member = Scopes
    /\ \A o \in Scopes : member[o] \in [Users -> {None} \cup SUBSET Seats(o)]
    /\ fed \in [Feds -> {"absent", "active", "inactive", "deleted"}]
    /\ claim \in [Domains -> Feds \cup {None}]

FixedTyped ==
    /\ domainOf \in [Users -> Domains \cup {None}]
    /\ home \in [Users -> Orgs]
    /\ level \in [Feds -> Scopes]

ReqTyped ==
    /\ pc \in [Procs -> PCs]
    /\ req \in [Procs -> Req]
    /\ \A p \in Procs : Fits(req[p])

IInv ==
    /\ FixedTyped
    /\ RowsTyped
    /\ stripped \in BOOLEAN
    /\ raced \in BOOLEAN
    /\ ReqTyped
    /\ ClaimsHaveHolders

USE BodyAssumption, NoneAssumption

-----------------------------------------------------------------------------
(* The locals of a request.                                                *)

LEMMA NoReqFits == NoReq \in Req /\ Fits(NoReq)
<1>1. NoReq \in Req  BY DEF NoReq, Req, Scopes, Roles
<1>2. NoReq.op = "none"  BY DEF NoReq
<1> QED  BY <1>1, <1>2 DEF Fits

\* What a request about a person carries.
LEMMA OfPersonTyped ==
  ASSUME NEW op \in Ops, NEW u \in Users,
         NEW o \in Scopes, NEW roles \in Roles
  PROVE  LET r == OfPerson(op, u, o, roles)
         IN  r \in Req /\ r.op = op /\ r.user = u /\ r.scope = o /\ r.roles = roles
  BY DEF OfPerson, NoReq, Req

\* What a guard read is noted without touching the body.
LEMMA NotedTyped ==
  ASSUME NEW r \in Req, Fits(r)
  PROVE  \A us \in SUBSET Users :
            /\ [r EXCEPT !.owners = us] \in Req /\ Fits([r EXCEPT !.owners = us])
            /\ [r EXCEPT !.local = us] \in Req /\ Fits([r EXCEPT !.local = us])
  BY DEF Req, Fits

-----------------------------------------------------------------------------
(* Steps that leave the tables alone, and the end of one that does not.    *)

LEMMA MoveKeeps ==
  ASSUME IInv, NEW p \in Procs, NEW where \in PCs, NEW locals \in Req, Fits(locals),
         Move(p, where, locals)
  PROVE  IInv'
<1>1. ReqTyped'
  BY DEF IInv, ReqTyped, Move, Goto
<1>2. FixedTyped' /\ RowsTyped' /\ ClaimsHaveHolders' /\ stripped' \in BOOLEAN /\ raced' \in BOOLEAN
  BY DEF IInv, Move, Goto, fixed, rows, history, FixedTyped, RowsTyped, ClaimsHaveHolders
<1> QED  BY <1>1, <1>2 DEF IInv

LEMMA RefuseKeeps ==
  ASSUME IInv, NEW p \in Procs, Refuse(p)
  PROVE  IInv'
  BY MoveKeeps, NoReqFits DEF Refuse, PCs

LEMMA AskKeeps ==
  ASSUME IInv, NEW p \in Procs, NEW where \in PCs, NEW locals \in Req, Fits(locals),
         Ask(p, where, locals)
  PROVE  IInv'
  BY MoveKeeps DEF Ask

LEMMA DoneKeeps ==
  ASSUME IInv, NEW p \in Procs, Done(p)
  PROVE  ReqTyped' /\ FixedTyped'
<1>1. ReqTyped'
  BY NoReqFits DEF IInv, ReqTyped, Done, PCs
<1> QED  BY <1>1 DEF IInv, Done, fixed, FixedTyped

-----------------------------------------------------------------------------
(* The first state, and one lemma per action.                              *)

LEMMA InitHolds == Init => IInv
<1> SUFFICES ASSUME Init PROVE IInv
  OBVIOUS
<1>1. ReqTyped
  BY NoReqFits DEF Init, ReqTyped, PCs
<1>2. FixedTyped /\ stripped \in BOOLEAN /\ raced \in BOOLEAN
  BY DEF Init, FixedTyped
<1>3. DOMAIN member = Scopes /\ \A o \in Scopes : member[o] \in [Users -> {None} \cup SUBSET Seats(o)]
  BY DEF Init, Scopes, Seats, TenantSeats, OrgSeats
<1>4. RowsTyped
  BY <1>3 DEF Init, RowsTyped
<1>5. ClaimsHaveHolders
  BY DEF Init, ClaimsHaveHolders
<1> QED  BY <1>1, <1>2, <1>4, <1>5 DEF IInv

LEMMA BodiesFit ==
  ASSUME NEW o \in Scopes, NEW roles \in Bodies(o)
  PROVE  roles \in Roles /\ roles \subseteq Seats(o)
  BY DEF Bodies, Seats, Roles

LEMMA AskMemberKeeps ==
  ASSUME IInv, NEW p \in Procs, AskMember(p)
  PROVE  IInv'
<1>1. PICK u \in Actors, o \in Scopes, op \in {"add", "update", "remove"} :
        \E roles \in IF op = "remove" THEN {{}} ELSE Bodies(o) :
           Ask(p, IF op = "update" THEN "sit"
                  ELSE IF RailsFirst(op, o, roles) THEN "held" ELSE "write",
               OfPerson(op, u, o, roles))
  BY DEF AskMember
<1>2. PICK roles \in IF op = "remove" THEN {{}} ELSE Bodies(o) :
           Ask(p, IF op = "update" THEN "sit"
                  ELSE IF RailsFirst(op, o, roles) THEN "held" ELSE "write",
               OfPerson(op, u, o, roles))
  BY <1>1
<1> DEFINE r == OfPerson(op, u, o, roles)
           where == IF op = "update" THEN "sit"
                  ELSE IF RailsFirst(op, o, roles) THEN "held" ELSE "write"
<1>3. u \in Users /\ op \in Ops
  BY DEF Actors, Ops
<1>4. roles \in Roles /\ roles \subseteq Seats(o)
  BY BodiesFit DEF Roles
<1>5. r \in Req /\ r.op = op /\ r.scope = o /\ r.roles = roles
  BY <1>3, <1>4, OfPersonTyped
<1>6. Fits(r)
  BY <1>4, <1>5 DEF Fits
<1>7. where \in PCs
  BY DEF PCs
<1> HIDE DEF r, where
<1>8. Ask(p, where, r)
  BY <1>2 DEF r, where
<1> QED  BY <1>5, <1>6, <1>7, <1>8, AskKeeps

LEMMA SitKeeps ==
  ASSUME IInv, NEW p \in Procs, Sit(p)
  PROVE  IInv'
<1>1. CASE member[req[p].scope][req[p].user] = None
  BY <1>1, RefuseKeeps DEF Sit
<1>2. CASE member[req[p].scope][req[p].user] # None
  <2> DEFINE where == IF RailsFirst(req[p].op, req[p].scope, req[p].roles) THEN "held" ELSE "write"
  <2>1. Goto(p, where) /\ UNCHANGED req
    BY <1>2 DEF Sit
  <2>2. where \in PCs
    BY DEF PCs
  <2>3. req' = [req EXCEPT ![p] = req[p]] /\ req[p] \in Req /\ Fits(req[p])
    BY <2>1 DEF IInv, ReqTyped
  <2> HIDE DEF where
  <2>4. Move(p, where, req[p])
    BY <2>1, <2>3 DEF Move
  <2> QED  BY <2>2, <2>3, <2>4, MoveKeeps
<1> QED  BY <1>1, <1>2

LEMMA AskUserKeeps ==
  ASSUME IInv, NEW p \in Procs, AskUser(p)
  PROVE  IInv'
<1>1. PICK u \in Users, op \in {"activate", "deactivate", "deleteUser"} :
        Ask(p, IF op = "activate" THEN "write" ELSE "held", OfPerson(op, u, None, {}))
  BY DEF AskUser
<1> DEFINE r == OfPerson(op, u, None, {})
           where == IF op = "activate" THEN "write" ELSE "held"
<1>2. op \in Ops /\ None \in Scopes /\ {} \in Roles
  BY DEF Actors, Ops, Scopes, Roles
<1>3. r \in Req /\ r.op = op
  BY <1>2, OfPersonTyped
<1>4. Fits(r)
  BY <1>3 DEF Fits
<1>5. where \in PCs
  BY DEF PCs
<1> HIDE DEF r, where
<1>6. Ask(p, where, r)
  BY <1>1 DEF r, where
<1> QED  BY <1>3, <1>4, <1>5, <1>6, AskKeeps

LEMMA AskPersonKeeps ==
  ASSUME IInv, NEW p \in Procs, AskPerson(p)
  PROVE  IInv'
<1>1. PICK u \in Users \ Actors, op \in {"create", "invite"} :
        \E roles \in IF op = "create" THEN {{}} ELSE OrgRoles :
           Ask(p, "write", OfPerson(op, u, None, roles))
  BY DEF AskPerson
<1>2. PICK roles \in IF op = "create" THEN {{}} ELSE OrgRoles :
           Ask(p, "write", OfPerson(op, u, None, roles))
  BY <1>1
<1> DEFINE r == OfPerson(op, u, None, roles)
<1>3. op \in Ops /\ None \in Scopes
  BY DEF Actors, Ops, Scopes
<1>4. roles \in Roles /\ roles \subseteq OrgSeats
  BY DEF Roles
<1>5. r \in Req /\ r.op = op /\ r.user = u /\ r.roles = roles
  BY <1>3, <1>4, OfPersonTyped
<1>6. Fits(r)
  BY <1>4, <1>5 DEF Fits
<1> HIDE DEF r
<1>7. Ask(p, "write", r)
  BY <1>2 DEF r
<1> QED  BY <1>5, <1>6, <1>7, AskKeeps DEF PCs

LEMMA AskProvisionKeeps ==
  ASSUME IInv, NEW p \in Procs, AskProvision(p)
  PROVE  IInv'
<1>1. PICK u \in Users \ Actors : Ask(p, "write", OfPerson("provision", u, None, {}))
  BY DEF AskProvision
<1> DEFINE r == OfPerson("provision", u, None, {})
<1>2. "provision" \in Ops /\ None \in Scopes /\ {} \in Roles
  BY DEF Ops, Scopes, Roles
<1>3. r \in Req /\ r.op = "provision" /\ r.user = u /\ r.roles = {}
  BY <1>2, OfPersonTyped
<1>4. Fits(r)
  BY <1>3 DEF Fits
<1> HIDE DEF r
<1>5. Ask(p, "write", r)
  BY <1>1 DEF r
<1> QED  BY <1>3, <1>4, <1>5, AskKeeps DEF PCs

LEMMA AskClaimKeeps ==
  ASSUME IInv, NEW p \in Procs, AskClaim(p)
  PROVE  IInv'
<1>1. PICK f \in Feds, ds \in SUBSET Domains, on \in BOOLEAN :
        Ask(p, IF on /\ ds # {} THEN "local" ELSE "write",
            OfFed("claim", f, ds, on, fed[f] # "absent"))
  BY DEF AskClaim
<1> DEFINE r == OfFed("claim", f, ds, on, fed[f] # "absent")
           where == IF on /\ ds # {} THEN "local" ELSE "write"
<1>2. "claim" \in Ops
  BY DEF Actors, Ops
<1>3. r \in Req /\ r.op = "claim" /\ r.fed = f
  BY <1>2 DEF OfFed, NoReq, Req, Scopes, Roles
<1>4. Fits(r)
  BY <1>3 DEF Fits
<1>5. where \in PCs
  BY DEF PCs
<1> HIDE DEF r, where
<1>6. Ask(p, where, r)
  BY <1>1 DEF r, where
<1> QED  BY <1>3, <1>4, <1>5, <1>6, AskKeeps

LEMMA AskDeleteFedKeeps ==
  ASSUME IInv, NEW p \in Procs, AskDeleteFed(p)
  PROVE  IInv'
<1>1. PICK f \in Feds :
        Ask(p, "write", OfFed("deleteFed", f, {}, FALSE, None))
  BY DEF AskDeleteFed
<1> DEFINE r == OfFed("deleteFed", f, {}, FALSE, None)
<1>2. "deleteFed" \in Ops /\ {} \in SUBSET Domains
  BY DEF Actors, Ops
<1>3. r \in Req /\ r.op = "deleteFed" /\ r.fed = f
  BY <1>2 DEF OfFed, NoReq, Req, Scopes, Roles
<1>4. Fits(r)
  BY <1>3 DEF Fits
<1> HIDE DEF r
<1>5. Ask(p, "write", r)
  BY <1>1 DEF r
<1> QED  BY <1>3, <1>4, <1>5, AskKeeps DEF PCs

LEMMA ReadHeldKeeps ==
  ASSUME IInv, NEW p \in Procs, ReadHeld(p)
  PROVE  IInv'
<1>1. req[p] \in Req /\ Fits(req[p])
  BY DEF IInv, ReqTyped
<1>2. CASE Move(p, "count", [req[p] EXCEPT !.held = TRUE])
  <2>1. [req[p] EXCEPT !.held = TRUE] \in Req /\ Fits([req[p] EXCEPT !.held = TRUE])
    BY <1>1 DEF Req, Fits
  <2> QED  BY <1>2, <2>1, MoveKeeps DEF PCs
<1>3. CASE Move(p, "write", [req[p] EXCEPT !.held = FALSE])
  <2>1. [req[p] EXCEPT !.held = FALSE] \in Req /\ Fits([req[p] EXCEPT !.held = FALSE])
    BY <1>1 DEF Req, Fits
  <2> QED  BY <1>3, <2>1, MoveKeeps DEF PCs
<1> QED  BY <1>2, <1>3 DEF ReadHeld

LEMMA CountOwnersKeeps ==
  ASSUME IInv, NEW p \in Procs, CountOwners(p)
  PROVE  IInv'
<1>1. req[p] \in Req /\ Fits(req[p])
  BY DEF IInv, ReqTyped
<1>2. CASE Refuse(p)
  BY <1>2, RefuseKeeps
<1>3. CASE Move(p, "local", [req[p] EXCEPT !.owners = Owners])
  <2>1. Owners \in SUBSET Users
    BY DEF Owners
  <2> QED  BY <1>1, <1>3, <2>1, NotedTyped, MoveKeeps DEF PCs
<1> QED  BY <1>2, <1>3 DEF CountOwners

LEMMA ReadLocalKeeps ==
  ASSUME IInv, NEW p \in Procs, ReadLocal(p)
  PROVE  IInv'
<1>1. req[p] \in Req /\ Fits(req[p])
  BY DEF IInv, ReqTyped
<1>2. CASE Refuse(p)
  BY <1>2, RefuseKeeps
<1>3. CASE Move(p, "write", [req[p] EXCEPT !.local = LocalOwners])
  <2>1. LocalOwners \in SUBSET Users
    BY DEF LocalOwners, Owners
  <2> QED  BY <1>1, <1>3, <2>1, NotedTyped, MoveKeeps DEF PCs
<1> QED  BY <1>2, <1>3 DEF ReadLocal

\* One membership row replaced by roles of its own roster.
LEMMA MemberTyped ==
  ASSUME RowsTyped, NEW o, NEW u, NEW roles \in {None} \cup SUBSET Seats(o),
         member' = [member EXCEPT ![o][u] = roles]
  PROVE  /\ DOMAIN member' = Scopes
         /\ \A x \in Scopes : member'[x] \in [Users -> {None} \cup SUBSET Seats(x)]
<1>1. DOMAIN member' = Scopes
  BY DEF RowsTyped
<1>2. ASSUME NEW x \in Scopes
      PROVE  member'[x] \in [Users -> {None} \cup SUBSET Seats(x)]
  <2>1. CASE x = o
    <3>1. member'[x] = [member[x] EXCEPT ![u] = roles]
      BY <2>1 DEF RowsTyped
    <3>2. member[x] \in [Users -> {None} \cup SUBSET Seats(x)]
      BY DEF RowsTyped
    <3> QED  BY <2>1, <3>1, <3>2
  <2>2. CASE x # o
    <3>1. member'[x] = member[x]
      BY <2>2 DEF RowsTyped
    <3> QED  BY <3>1 DEF RowsTyped
  <2> QED  BY <2>1, <2>2
<1> QED  BY <1>1, <1>2

LEMMA WriteMemberKeeps ==
  ASSUME IInv, NEW p \in Procs, WriteMember(p)
  PROVE  IInv'
<1> DEFINE r == req[p]
<1>1. r.op \in {"add", "update", "remove"} /\ Fits(r)
  BY DEF WriteMember, IInv, ReqTyped
<1>2. CASE Refuse(p)
  BY <1>2, RefuseKeeps
<1>3. CASE ~Refuse(p)
  <2> DEFINE roles == IF r.op = "remove" THEN None ELSE r.roles
  <2>1. /\ member' = [member EXCEPT ![r.scope][r.user] = roles]
        /\ Overtaken(p) /\ Done(p)
        /\ UNCHANGED <<account, hash, fed, claim>>
    BY <1>3 DEF WriteMember
  <2>2. stripped' = (stripped \/ (r.op = "add" /\ "IAM_OWNER" \in Held(r.scope, r.user) \ r.roles))
    BY <1>3 DEF WriteMember
  <2>3. roles \in {None} \cup SUBSET Seats(r.scope)
    BY <1>1 DEF Fits
  <2> HIDE DEF roles
  <2>4. /\ DOMAIN member' = Scopes
        /\ \A x \in Scopes : member'[x] \in [Users -> {None} \cup SUBSET Seats(x)]
    BY <2>1, <2>3, MemberTyped DEF IInv
  <2>5. RowsTyped' /\ ClaimsHaveHolders'
    BY <2>1, <2>4 DEF IInv, RowsTyped, ClaimsHaveHolders
  <2>6. stripped' \in BOOLEAN /\ raced' \in BOOLEAN
    BY <2>1, <2>2 DEF Overtaken, IInv
  <2> QED  BY <2>1, <2>5, <2>6, DoneKeeps DEF IInv
<1> QED  BY <1>2, <1>3

LEMMA WriteUserKeeps ==
  ASSUME IInv, NEW p \in Procs, WriteUser(p)
  PROVE  IInv'
<1>1. CASE Refuse(p)
  BY <1>1, RefuseKeeps
<1>2. CASE ~Refuse(p)
  <2> DEFINE state == CASE req[p].op = "activate" -> "active"
                        [] req[p].op = "deactivate" -> "inactive"
                        [] OTHER -> "deleted"
  <2>1. /\ account' = [account EXCEPT ![req[p].user] = state]
        /\ Overtaken(p) /\ Done(p)
        /\ UNCHANGED <<hash, member, fed, claim, stripped>>
    BY <1>2 DEF WriteUser
  <2>2. state \in {"active", "inactive", "deleted"}
    OBVIOUS
  <2> HIDE DEF state
  <2>3. RowsTyped' /\ ClaimsHaveHolders'
    BY <2>1, <2>2 DEF IInv, RowsTyped, ClaimsHaveHolders
  <2>4. stripped' \in BOOLEAN /\ raced' \in BOOLEAN
    BY <2>1 DEF Overtaken, IInv
  <2> QED  BY <2>1, <2>3, <2>4, DoneKeeps DEF IInv
<1> QED  BY <1>1, <1>2

LEMMA WritePersonKeeps ==
  ASSUME IInv, NEW p \in Procs, WritePerson(p)
  PROVE  IInv'
<1> DEFINE r == req[p]
<1>1. r.user \in Users /\ r.roles \subseteq OrgSeats
  BY DEF WritePerson, IInv, ReqTyped, Fits
<1>2. CASE Refuse(p)
  BY <1>2, RefuseKeeps
<1>3. CASE ~Refuse(p)
  <2> DEFINE state == IF r.op = "invite" THEN "initial" ELSE "active"
             org == home[r.user]
  <2>1. /\ account' = [account EXCEPT ![r.user] = state]
        /\ hash' = [hash EXCEPT ![r.user] = r.op = "create"]
        /\ member' = [member EXCEPT ![org][r.user] = r.roles]
        /\ Done(p)
        /\ UNCHANGED <<fed, claim, stripped, raced>>
    BY <1>3 DEF WritePerson
  <2>2. org \in Orgs /\ org # None
    BY <1>1 DEF IInv, FixedTyped
  <2>3. r.roles \in {None} \cup SUBSET Seats(org)
    BY <1>1, <2>2 DEF Seats
  <2>4. state \in {"initial", "active"}
    OBVIOUS
  <2> HIDE DEF state, org
  <2>5. /\ DOMAIN member' = Scopes
        /\ \A x \in Scopes : member'[x] \in [Users -> {None} \cup SUBSET Seats(x)]
    BY <2>1, <2>3, MemberTyped DEF IInv
  <2>6. hash' \in [Users -> BOOLEAN]
    BY <2>1 DEF IInv, RowsTyped
  <2>7. account' \in [Users -> {"absent", "initial", "active", "inactive", "deleted"}]
    BY <2>1, <2>4 DEF IInv, RowsTyped
  <2>8. RowsTyped' /\ ClaimsHaveHolders'
    BY <2>1, <2>5, <2>6, <2>7 DEF IInv, RowsTyped, ClaimsHaveHolders
  <2> QED  BY <2>1, <2>8, DoneKeeps DEF IInv
<1> QED  BY <1>2, <1>3

\* A federation takes or releases domains. Nothing else loses its holder.
LEMMA ClaimingTyped ==
  ASSUME RowsTyped, ClaimsHaveHolders, NEW f \in Feds, NEW ds \in SUBSET Domains,
         NEW state \in {"active", "inactive", "deleted"}, state = "deleted" => ds = {},
         fed' = [fed EXCEPT ![f] = state], claim' = Claiming(f, ds)
  PROVE  /\ fed' \in [Feds -> {"absent", "active", "inactive", "deleted"}]
         /\ claim' \in [Domains -> Feds \cup {None}]
         /\ ClaimsHaveHolders'
<1>1. fed' \in [Feds -> {"absent", "active", "inactive", "deleted"}]
  BY DEF RowsTyped
<1>2. claim' \in [Domains -> Feds \cup {None}]
  BY DEF RowsTyped, Claiming
<1>3. ASSUME NEW d \in Domains, claim'[d] # None
      PROVE  fed'[claim'[d]] \in {"active", "inactive"}
  <2>1. CASE d \in ds
    BY <2>1 DEF Claiming, RowsTyped
  <2>2. CASE d \notin ds
    <3>1. claim[d] # f /\ claim[d] # None /\ claim'[d] = claim[d]
      BY <1>3, <2>2 DEF Claiming
    <3> QED  BY <3>1 DEF RowsTyped, ClaimsHaveHolders
  <2> QED  BY <2>1, <2>2
<1> QED  BY <1>1, <1>2, <1>3 DEF ClaimsHaveHolders

LEMMA WriteClaimKeeps ==
  ASSUME IInv, NEW p \in Procs, WriteClaim(p)
  PROVE  IInv'
<1>1. req[p].fed \in Feds /\ req[p].claims \in SUBSET Domains
  BY DEF WriteClaim, IInv, ReqTyped, Fits, Req
<1>2. CASE Refuse(p)
  BY <1>2, RefuseKeeps
<1>3. CASE ~Refuse(p)
  <2> DEFINE state == IF req[p].on THEN "active" ELSE "inactive"
  <2>1. /\ fed' = [fed EXCEPT ![req[p].fed] = state]
        /\ claim' = Claiming(req[p].fed, req[p].claims)
        /\ Overtaken(p) /\ Done(p)
        /\ UNCHANGED <<account, hash, member, stripped>>
    BY <1>3 DEF WriteClaim
  <2>2. state \in {"active", "inactive"}
    OBVIOUS
  <2> HIDE DEF state
  <2>3. /\ fed' \in [Feds -> {"absent", "active", "inactive", "deleted"}]
        /\ claim' \in [Domains -> Feds \cup {None}]
        /\ ClaimsHaveHolders'
    BY <1>1, <2>1, <2>2, ClaimingTyped DEF IInv
  <2>4. RowsTyped'
    BY <2>1, <2>3 DEF IInv, RowsTyped
  <2>5. stripped' \in BOOLEAN /\ raced' \in BOOLEAN
    BY <2>1 DEF Overtaken, IInv
  <2> QED  BY <2>1, <2>3, <2>4, <2>5, DoneKeeps DEF IInv
<1> QED  BY <1>2, <1>3

LEMMA WriteDeleteFedKeeps ==
  ASSUME IInv, NEW p \in Procs, WriteDeleteFed(p)
  PROVE  IInv'
<1>1. req[p].fed \in Feds
  BY DEF WriteDeleteFed, IInv, ReqTyped, Fits
<1>2. CASE Refuse(p)
  BY <1>2, RefuseKeeps
<1>3. CASE ~Refuse(p)
  <2>1. /\ fed' = [fed EXCEPT ![req[p].fed] = "deleted"]
        /\ claim' = Claiming(req[p].fed, {})
        /\ Overtaken(p) /\ Done(p)
        /\ UNCHANGED <<account, hash, member, stripped>>
    BY <1>3 DEF WriteDeleteFed
  <2>2. /\ fed' \in [Feds -> {"absent", "active", "inactive", "deleted"}]
        /\ claim' \in [Domains -> Feds \cup {None}]
        /\ ClaimsHaveHolders'
    BY <1>1, <2>1, ClaimingTyped DEF IInv
  <2>3. RowsTyped'
    BY <2>1, <2>2 DEF IInv, RowsTyped
  <2>4. stripped' \in BOOLEAN /\ raced' \in BOOLEAN
    BY <2>1 DEF Overtaken, IInv
  <2> QED  BY <2>1, <2>2, <2>3, <2>4, DoneKeeps DEF IInv
<1> QED  BY <1>2, <1>3

-----------------------------------------------------------------------------
(* The types and the claims.                                               *)

LEMMA NextKeeps == IInv /\ [Next]_vars => IInv'
<1> SUFFICES ASSUME IInv, [Next]_vars PROVE IInv'
  OBVIOUS
<1>1. CASE UNCHANGED vars
  BY <1>1 DEF vars, fixed, rows, history, IInv, FixedTyped, RowsTyped, ReqTyped, ClaimsHaveHolders
<1>2. CASE Next
  <2>1. PICK p \in Procs :
          \/ AskMember(p) \/ Sit(p) \/ AskUser(p) \/ AskPerson(p) \/ AskProvision(p)
          \/ AskClaim(p) \/ AskDeleteFed(p) \/ ReadHeld(p) \/ CountOwners(p) \/ ReadLocal(p)
          \/ WriteMember(p) \/ WriteUser(p) \/ WritePerson(p) \/ WriteClaim(p)
          \/ WriteDeleteFed(p) \/ Abandon(p)
    BY <1>2 DEF Next
  <2>2. CASE AskMember(p)       BY <2>2, AskMemberKeeps
  <2>3. CASE Sit(p)             BY <2>3, SitKeeps
  <2>4. CASE AskUser(p)         BY <2>4, AskUserKeeps
  <2>5. CASE AskPerson(p)       BY <2>5, AskPersonKeeps
  <2>6. CASE AskProvision(p)    BY <2>6, AskProvisionKeeps
  <2>7. CASE AskClaim(p)        BY <2>7, AskClaimKeeps
  <2>8. CASE AskDeleteFed(p)    BY <2>8, AskDeleteFedKeeps
  <2>9. CASE ReadHeld(p)        BY <2>9, ReadHeldKeeps
  <2>10. CASE CountOwners(p)    BY <2>10, CountOwnersKeeps
  <2>11. CASE ReadLocal(p)      BY <2>11, ReadLocalKeeps
  <2>12. CASE WriteMember(p)    BY <2>12, WriteMemberKeeps
  <2>13. CASE WriteUser(p)      BY <2>13, WriteUserKeeps
  <2>14. CASE WritePerson(p)    BY <2>14, WritePersonKeeps
  <2>15. CASE WriteClaim(p)     BY <2>15, WriteClaimKeeps
  <2>16. CASE WriteDeleteFed(p) BY <2>16, WriteDeleteFedKeeps
  <2>17. CASE Abandon(p)        BY <2>17, RefuseKeeps DEF Abandon
  <2> QED
    BY <2>1, <2>2, <2>3, <2>4, <2>5, <2>6, <2>7, <2>8, <2>9, <2>10, <2>11, <2>12, <2>13,
       <2>14, <2>15, <2>16, <2>17
<1> QED  BY <1>1, <1>2

\* Every membership carries roles of its own roster, whoever writes it and
\* however long the request was under way (MemberService.known).
THEOREM OwnersTyped == Spec => []TypeOK
<1>1. IInv => TypeOK
  BY DEF IInv, FixedTyped, RowsTyped, ReqTyped, TypeOK
<1> QED  BY InitHolds, NextKeeps, <1>1, PTL DEF Spec

\* No domain stays claimed for a federation that is gone, however updates and
\* deletes of it overlap (Repository.Claim, Repository.Delete).
THEOREM ClaimsKeepHolders == Spec => []ClaimsHaveHolders
<1>1. IInv => ClaimsHaveHolders
  BY DEF IInv
<1> QED  BY InitHolds, NextKeeps, <1>1, PTL DEF Spec

-----------------------------------------------------------------------------
(* Nobody outranks themself.                                               *)

\* Every request in flight was let in by somebody, when it was asked: what a
\* step makes of one is what it was, or grants nothing, or passed a gate now.
AskedFor(q) ==
    \/ Roster(req[q])' = Roster(req[q]) /\ req'[q].roles = req[q].roles
    \/ req'[q].roles = {}
    \/ \E a \in Users : MayWriteMember(Roster(req[q])', a, req'[q].roles)

\* A seat that is new was in the body of a request, for the roster it names.
Conferred ==
    \A o \in Scopes : \A u \in Users : \A seat \in Held(o, u)' :
        seat \in Held(o, u) \/ \E p \in Procs : Roster(req[p]) = o /\ seat \in req[p].roles

\* One request moves on, and no row changes.
LEMMA MoveConfers ==
  ASSUME IInv, NEW p \in Procs, NEW where, NEW locals, Move(p, where, locals),
         \/ locals.roles = {}
         \/ /\ locals.op = req[p].op /\ locals.user = req[p].user
            /\ locals.scope = req[p].scope /\ locals.roles = req[p].roles
         \/ \E a \in Users : MayWriteMember(Roster(locals), a, locals.roles)
  PROVE  Conferred /\ \A q \in Procs : AskedFor(q)
<1>1. home' = home /\ member' = member
  BY DEF Move, Goto, fixed, rows
<1>2. Conferred
  BY <1>1 DEF Conferred, Held
<1>3. ASSUME NEW q \in Procs PROVE AskedFor(q)
  <2>1. req'[q] = IF q = p THEN locals ELSE req[q]
    BY DEF Move, IInv, ReqTyped
  <2>2. CASE q # p
    BY <1>1, <2>1, <2>2 DEF AskedFor, Roster
  <2>3. CASE q = p
    <3>1. req'[q] = locals /\ Roster(req[q])' = Roster(locals)
      BY <1>1, <2>1, <2>3 DEF Roster
    <3>2. CASE locals.roles = {}
      BY <3>1, <3>2 DEF AskedFor
    <3>3. CASE /\ locals.op = req[p].op /\ locals.user = req[p].user
               /\ locals.scope = req[p].scope /\ locals.roles = req[p].roles
      <4>1. Roster(locals) = Roster(req[p])
        BY <3>3 DEF Roster
      <4> QED  BY <2>3, <3>1, <3>3, <4>1 DEF AskedFor
    <3>4. CASE \E a \in Users : MayWriteMember(Roster(locals), a, locals.roles)
      BY <3>1, <3>4 DEF AskedFor
    <3> QED  BY <3>2, <3>3, <3>4
  <2> QED  BY <2>2, <2>3
<1> QED  BY <1>2, <1>3

LEMMA RefuseConfers ==
  ASSUME IInv, NEW p \in Procs, Refuse(p)
  PROVE  Conferred /\ \A q \in Procs : AskedFor(q)
<1>1. NoReq.roles = {}
  BY DEF NoReq
<1> QED  BY <1>1, MoveConfers DEF Refuse

\* A transaction that writes one membership, or none.
LEMMA WriteConfers ==
  ASSUME IInv, NEW p \in Procs, Done(p),
         \/ member' = member
         \/ \E roles : /\ member' = [member EXCEPT ![Roster(req[p])][req[p].user] = roles]
                        /\ roles \in {None, req[p].roles}
  PROVE  Conferred /\ \A q \in Procs : AskedFor(q)
<1>1. home' = home
  BY DEF Done, fixed
<1>2. ASSUME NEW q \in Procs PROVE AskedFor(q)
  <2>1. req'[q] = IF q = p THEN NoReq ELSE req[q]
    BY DEF Done, IInv, ReqTyped
  <2>2. NoReq.roles = {}
    BY DEF NoReq
  <2> QED  BY <1>1, <2>1, <2>2 DEF AskedFor, Roster
<1>3. ASSUME NEW o \in Scopes, NEW u \in Users, NEW seat \in Held(o, u)', seat \notin Held(o, u)
      PROVE  Roster(req[p]) = o /\ seat \in req[p].roles
  <2>1. member'[o][u] # member[o][u]
    BY <1>3 DEF Held
  <2>2. PICK roles : /\ member' = [member EXCEPT ![Roster(req[p])][req[p].user] = roles]
                     /\ roles \in {None, req[p].roles}
    BY <2>1
  <2>3. member[o] \in [Users -> {None} \cup SUBSET Seats(o)] /\ DOMAIN member = Scopes
    BY DEF IInv, RowsTyped
  <2>4. o = Roster(req[p])
    BY <2>1, <2>2, <2>3
  <2>5. member'[o] = [member[o] EXCEPT ![req[p].user] = roles]
    BY <2>2, <2>3, <2>4
  <2>6. member'[o][u] = roles
    BY <2>1, <2>3, <2>5
  <2>7. seat \in member'[o][u] /\ member'[o][u] # None
    BY <1>3 DEF Held
  <2> QED  BY <2>2, <2>4, <2>6, <2>7
<1>4. Conferred
  BY <1>3 DEF Conferred
<1> QED  BY <1>2, <1>4

\* What each request asks for, by its operation.
LEMMA OfPersonRoster ==
  ASSUME NEW op \in Ops, NEW u \in Users, NEW o \in Scopes, NEW roles \in Roles
  PROVE  /\ OfPerson(op, u, o, roles).roles = roles
         /\ Roster(OfPerson(op, u, o, roles)) =
               IF op \in {"create", "invite", "provision"} THEN home[u] ELSE o
<1>1. PICK r : r = OfPerson(op, u, o, roles)
  OBVIOUS
<1>2. r.op = op /\ r.user = u /\ r.scope = o /\ r.roles = roles
  BY <1>1, OfPersonTyped
<1> QED  BY <1>1, <1>2 DEF Roster

LEMMA AskConfers ==
  ASSUME IInv, NEW p \in Procs,
         AskMember(p) \/ AskUser(p) \/ AskPerson(p) \/ AskProvision(p)
           \/ AskClaim(p) \/ AskDeleteFed(p)
  PROVE  Conferred /\ \A q \in Procs : AskedFor(q)
<1> SUFFICES \E where, locals :
               /\ Move(p, where, locals)
               /\ \/ locals.roles = {}
                  \/ \E a \in Users : MayWriteMember(Roster(locals), a, locals.roles)
  BY MoveConfers
<1>1. CASE AskMember(p)
  <2>1. PICK u \in Actors, o \in Scopes, op \in {"add", "update", "remove"} :
          \E roles \in IF op = "remove" THEN {{}} ELSE Bodies(o) : \E where :
            /\ {a \in Actors : MayWriteMember(o, a, roles)} # {}
            /\ Ask(p, where, OfPerson(op, u, o, roles))
    BY <1>1 DEF AskMember
  <2>2. PICK roles \in IF op = "remove" THEN {{}} ELSE Bodies(o) : \E where :
            /\ {a \in Actors : MayWriteMember(o, a, roles)} # {}
            /\ Ask(p, where, OfPerson(op, u, o, roles))
    BY <2>1
  <2>3. roles \in Roles /\ u \in Users /\ op \in Ops
    BY BodiesFit DEF Roles, Actors, Ops
  <2>4. PICK locals : locals = OfPerson(op, u, o, roles)
    OBVIOUS
  <2>5. locals.roles = roles /\ Roster(locals) = o
    BY <2>3, <2>4, OfPersonRoster
  <2>6. PICK a \in Users : MayWriteMember(o, a, roles)
    BY <2>2 DEF Actors
  <2>7. PICK where : Move(p, where, locals)
    BY <2>2, <2>4 DEF Ask
  <2> QED  BY <2>5, <2>6, <2>7
<1>2. CASE AskUser(p)
  <2>1. PICK u \in Users, op \in {"activate", "deactivate", "deleteUser"} :
          \E where : Move(p, where, OfPerson(op, u, None, {}))
    BY <1>2 DEF AskUser, Ask
  <2>2. OfPerson(op, u, None, {}).roles = {}
    BY OfPersonRoster DEF Ops, Scopes, Roles
  <2> QED  BY <2>1, <2>2
<1>3. CASE AskPerson(p)
  <2>1. PICK u \in Users, op \in {"create", "invite"} :
          \E roles \in IF op = "create" THEN {{}} ELSE OrgRoles :
            /\ {a \in Actors : ManagesPeople(home[u], a) /\ MayConfer(home[u], a, roles)} # {}
            /\ Move(p, "write", OfPerson(op, u, None, roles))
    BY <1>3 DEF AskPerson, Ask
  <2>2. PICK roles \in IF op = "create" THEN {{}} ELSE OrgRoles :
            /\ {a \in Actors : ManagesPeople(home[u], a) /\ MayConfer(home[u], a, roles)} # {}
            /\ Move(p, "write", OfPerson(op, u, None, roles))
    BY <2>1
  <2>3. roles \in Roles /\ op \in Ops /\ None \in Scopes
    BY DEF Roles, Ops, Scopes
  <2>4. PICK locals : locals = OfPerson(op, u, None, roles)
    OBVIOUS
  <2>5. locals.roles = roles /\ Roster(locals) = home[u]
    BY <2>3, <2>4, OfPersonRoster
  <2>6. home[u] # None
    BY DEF IInv, FixedTyped
  <2>7. PICK a \in Users : ManagesPeople(home[u], a) /\ MayConfer(home[u], a, roles)
    BY <2>2 DEF Actors
  <2>8. MayWriteMember(home[u], a, roles)
    BY <2>6, <2>7 DEF MayWriteMember
  <2>9. Move(p, "write", locals)
    BY <2>2, <2>4
  <2> QED  BY <2>5, <2>8, <2>9
<1>4. CASE AskProvision(p)
  <2>1. PICK u \in Users : Move(p, "write", OfPerson("provision", u, None, {}))
    BY <1>4 DEF AskProvision, Ask
  <2>2. OfPerson("provision", u, None, {}).roles = {}
    BY OfPersonRoster DEF Ops, Scopes, Roles
  <2> QED  BY <2>1, <2>2
<1>5. CASE AskClaim(p)
  <2>1. PICK f, ds, on, held : \E where : Move(p, where, OfFed("claim", f, ds, on, held))
    BY <1>5 DEF AskClaim, Ask
  <2>2. OfFed("claim", f, ds, on, held).roles = {}
    BY DEF OfFed, NoReq
  <2> QED  BY <2>1, <2>2
<1>6. CASE AskDeleteFed(p)
  <2>1. PICK f : Move(p, "write", OfFed("deleteFed", f, {}, FALSE, None))
    BY <1>6 DEF AskDeleteFed, Ask
  <2>2. OfFed("deleteFed", f, {}, FALSE, None).roles = {}
    BY DEF OfFed, NoReq
  <2> QED  BY <2>1, <2>2
<1> QED  BY <1>1, <1>2, <1>3, <1>4, <1>5, <1>6

\* A read of the rails keeps what its request asks for.
LEMMA ReadConfers ==
  ASSUME IInv, NEW p \in Procs, Sit(p) \/ ReadHeld(p) \/ CountOwners(p) \/ ReadLocal(p)
  PROVE  Conferred /\ \A q \in Procs : AskedFor(q)
<1>1. CASE Refuse(p)
  BY <1>1, RefuseConfers
<1>2. CASE ~Refuse(p)
  <2>1. PICK r : r = req[p] /\ r \in Req
    BY DEF IInv, ReqTyped
  <2>2. PICK where, locals :
          /\ Move(p, where, locals)
          /\ \E note : locals \in {r, [r EXCEPT !.held = note],
                                [r EXCEPT !.owners = note], [r EXCEPT !.local = note]}
    <3>1. CASE Sit(p)
      <4>1. PICK where : Goto(p, where) /\ UNCHANGED req
        BY <1>2, <3>1 DEF Sit
      <4>2. req' = [req EXCEPT ![p] = r]
        BY <2>1, <4>1 DEF IInv, ReqTyped
      <4> QED  BY <4>1, <4>2 DEF Move
    <3>2. CASE ReadHeld(p)
      BY <2>1, <3>2 DEF ReadHeld
    <3>3. CASE CountOwners(p)
      BY <1>2, <2>1, <3>3 DEF CountOwners
    <3>4. CASE ReadLocal(p)
      BY <1>2, <2>1, <3>4 DEF ReadLocal
    <3> QED  BY <3>1, <3>2, <3>3, <3>4
  <2>3. locals.op = r.op /\ locals.user = r.user /\ locals.scope = r.scope /\ locals.roles = r.roles
    BY <2>1, <2>2 DEF Req
  <2> QED  BY <2>1, <2>2, <2>3, MoveConfers
<1> QED  BY <1>1, <1>2

LEMMA TransactionConfers ==
  ASSUME IInv, NEW p \in Procs,
         WriteMember(p) \/ WriteUser(p) \/ WritePerson(p) \/ WriteClaim(p) \/ WriteDeleteFed(p)
  PROVE  Conferred /\ \A q \in Procs : AskedFor(q)
<1>1. CASE Refuse(p)
  BY <1>1, RefuseConfers
<1>2. CASE ~Refuse(p)
  <2>1. CASE WriteMember(p)
    <3>1. Roster(req[p]) = req[p].scope
      BY <2>1 DEF WriteMember, Roster
    <3>2. /\ member' = [member EXCEPT ![req[p].scope][req[p].user] =
                IF req[p].op = "remove" THEN None ELSE req[p].roles]
          /\ Done(p)
      BY <1>2, <2>1 DEF WriteMember
    <3> QED  BY <3>1, <3>2, WriteConfers
  <2>2. CASE WritePerson(p)
    <3>1. Roster(req[p]) = home[req[p].user]
      BY <2>2 DEF WritePerson, Roster
    <3>2. /\ member' = [member EXCEPT ![home[req[p].user]][req[p].user] = req[p].roles]
          /\ Done(p)
      BY <1>2, <2>2 DEF WritePerson
    <3> QED  BY <3>1, <3>2, WriteConfers
  <2>3. CASE WriteUser(p) \/ WriteClaim(p) \/ WriteDeleteFed(p)
    <3>1. member' = member /\ Done(p)
      BY <1>2, <2>3 DEF WriteUser, WriteClaim, WriteDeleteFed
    <3> QED  BY <3>1, WriteConfers
  <2> QED  BY <2>1, <2>2, <2>3
<1> QED  BY <1>1, <1>2

LEMMA StepConfers == IInv /\ Next => Conferred /\ \A q \in Procs : AskedFor(q)
<1> SUFFICES ASSUME IInv, NEW p \in Procs,
               \/ AskMember(p) \/ Sit(p) \/ AskUser(p) \/ AskPerson(p) \/ AskProvision(p)
               \/ AskClaim(p) \/ AskDeleteFed(p) \/ ReadHeld(p) \/ CountOwners(p) \/ ReadLocal(p)
               \/ WriteMember(p) \/ WriteUser(p) \/ WritePerson(p) \/ WriteClaim(p)
               \/ WriteDeleteFed(p) \/ Abandon(p)
             PROVE  Conferred /\ \A q \in Procs : AskedFor(q)
  BY DEF Next
<1>1. CASE Abandon(p)
  BY <1>1, RefuseConfers DEF Abandon
<1> QED  BY <1>1, AskConfers, ReadConfers, TransactionConfers

LEMMA TenantStaysLocked ==
  ASSUME IInv, Conferred, \A q \in Procs : AskedFor(q), TenantLocked
  PROVE  TenantLocked'
<1>1. \A u \in Users : "IAM_OWNER" \notin Held(None, u)'
  BY DEF Conferred, TenantLocked, UnderWay, Scopes
<1>2. ASSUME NEW q \in Procs, Roster(req[q])' = None, "IAM_OWNER" \in req'[q].roles
      PROVE  FALSE
  <2>1. CASE Roster(req[q])' = Roster(req[q]) /\ req'[q].roles = req[q].roles
    BY <1>2, <2>1 DEF TenantLocked, UnderWay
  <2>2. CASE \E a \in Users : MayWriteMember(Roster(req[q])', a, req'[q].roles)
    BY <1>2, <2>2 DEF MayWriteMember, TenantLocked
  <2> QED  BY <1>2, <2>1, <2>2 DEF AskedFor
<1> QED  BY <1>1, <1>2 DEF TenantLocked, UnderWay

LEMMA OrgStaysLocked ==
  ASSUME IInv, IInv', Conferred, \A q \in Procs : AskedFor(q), NEW o \in Orgs, OrgLocked(o)
  PROVE  OrgLocked(o)'
<1>1. o # None /\ o \in Scopes /\ None \in Scopes
  BY DEF Scopes
<1>2. ASSUME NEW u \in Users PROVE Held(None, u)' = {}
  <2>1. Held(None, u)' \subseteq TenantSeats
    BY <1>1 DEF IInv, RowsTyped, Held, Seats
  <2>2. Held(None, u) = {}
    BY DEF OrgLocked, TenantManager
  <2>3. \A seat \in Held(None, u)' : FALSE
    BY <1>1, <2>1, <2>2 DEF Conferred, OrgLocked, UnderWay
  <2> QED  BY <2>3
<1>3. \A u \in Users : "ORG_OWNER" \notin Held(o, u)'
  BY <1>1 DEF Conferred, OrgLocked, UnderWay
<1>4. ASSUME NEW q \in Procs, Roster(req[q])' = None, req'[q].roles \cap TenantSeats # {}
      PROVE  FALSE
  <2>1. CASE Roster(req[q])' = Roster(req[q]) /\ req'[q].roles = req[q].roles
    BY <1>4, <2>1 DEF OrgLocked, UnderWay
  <2>2. CASE \E a \in Users : MayWriteMember(Roster(req[q])', a, req'[q].roles)
    BY <1>4, <2>2 DEF MayWriteMember, OrgLocked, TenantManager
  <2> QED  BY <1>4, <2>1, <2>2 DEF AskedFor
<1>5. ASSUME NEW q \in Procs, Roster(req[q])' = o, "ORG_OWNER" \in req'[q].roles
      PROVE  FALSE
  <2>1. CASE Roster(req[q])' = Roster(req[q]) /\ req'[q].roles = req[q].roles
    BY <1>5, <2>1 DEF OrgLocked, UnderWay
  <2>2. CASE \E a \in Users : MayWriteMember(Roster(req[q])', a, req'[q].roles)
    BY <1>1, <1>5, <2>2 DEF MayWriteMember, MayConfer, CanWrite, OrgLocked
  <2> QED  BY <1>5, <2>1, <2>2 DEF AskedFor
<1>6. \A u \in Users : ~TenantManager(u)'
  BY <1>2 DEF TenantManager
<1>7. ~UnderWay(None, TenantSeats)' /\ ~UnderWay(o, {"ORG_OWNER"})'
  BY <1>4, <1>5 DEF UnderWay
<1> QED  BY <1>3, <1>6, <1>7 DEF OrgLocked

\* Once the seats that confer are gone and nobody asks for one, no sequence of
\* requests makes another (MemberService.Add, .Update, AuthorizeOrgRoleGrant).
THEOREM LockedForGood == Spec => LockoutIsForGood
<1>1. ASSUME IInv, [Next]_vars, ~UNCHANGED vars
      PROVE  /\ TenantLocked => TenantLocked'
             /\ \A o \in Orgs : OrgLocked(o) => (OrgLocked(o))'
  <2>1. IInv' /\ Conferred /\ \A q \in Procs : AskedFor(q)
    BY <1>1, NextKeeps, StepConfers
  <2> QED  BY <1>1, <2>1, TenantStaysLocked, OrgStaysLocked
<1>2. IInv /\ [Next]_vars
        => [/\ TenantLocked => TenantLocked'
            /\ \A o \in Orgs : OrgLocked(o) => (OrgLocked(o))']_vars
  BY <1>1
<1> QED  BY InitHolds, NextKeeps, <1>2, PTL DEF Spec, LockoutIsForGood

-----------------------------------------------------------------------------
(* Somebody local stays. A request compares what it read with whom it takes *)
(* out and writes later; that it does not overtake another is what the      *)
(* history says, so it is enough to know what it compared.                  *)

\* Whom a write takes out of the owners whose password is checked here.
Leaving(r) ==
    IF r.op = "claim" THEN {u \in Users : domainOf[u] \in r.claims} ELSE {r.user}

\* What the rails of a write are about: a seat or an account of the tenant, and
\* the domains that an active federation claims.
Unseats(r) ==
    \/ r.op \in {"update", "remove"} /\ r.scope = None /\ "IAM_OWNER" \notin r.roles
    \/ r.op \in {"deactivate", "deleteUser"}

Claims(r) == r.op = "claim" /\ r.on /\ r.claims # {}

\* The rail that compares the local owners was passed.
LocalRailPassed(r) == r.local # None /\ ~EmptiesLocal(r.local, Leaving(r))

\* What a request knows by the time it stands where it does.
Railed(where, r) ==
    /\ where = "sit" => r.op = "update"
    /\ where = "held" => Unseats(r)
    /\ where = "count" => Unseats(r) /\ r.held = TRUE
    /\ where = "local" => r.op = "claim" \/ (Unseats(r) /\ r.held = TRUE)
    /\ where = "write" =>
          /\ Unseats(r) => r.held = FALSE \/ (r.held = TRUE /\ LocalRailPassed(r))
          /\ Claims(r) => LocalRailPassed(r)

RailsKept == \A p \in Procs : Railed(pc[p], req[p])

LInv ==
    /\ IInv
    /\ RailsKept
    /\ ALocalOwnerStays

LEMMA IdleRailed == \A r : Railed("idle", r)
  BY DEF Railed

\* A request that goes on knows what its new place asks for.
LEMMA MoveRails ==
  ASSUME LInv, NEW p \in Procs, NEW where, NEW locals, Move(p, where, locals),
         Railed(where, locals)
  PROVE  RailsKept' /\ ALocalOwnerStays'
<1>1. UNCHANGED <<fixed, rows, history>>
  BY DEF Move, Goto
<1>2. ALocalOwnerStays'
  BY <1>1 DEF LInv, ALocalOwnerStays, fixed, rows, history, LocalOwners, Owners, Held, Claimed
<1>3. ASSUME NEW q \in Procs PROVE Railed(pc[q], req[q])'
  <2>1. pc'[q] = (IF q = p THEN where ELSE pc[q]) /\ req'[q] = (IF q = p THEN locals ELSE req[q])
    BY DEF LInv, IInv, ReqTyped, Move, Goto
  <2>2. Railed(pc'[q], req'[q])
    BY <2>1 DEF LInv, RailsKept
  <2>3. domainOf' = domainOf
    BY <1>1 DEF fixed
  <2> QED  BY <2>2, <2>3 DEF Railed, Unseats, Claims, LocalRailPassed, Leaving
<1> QED  BY <1>2, <1>3 DEF RailsKept

LEMMA RefuseRails ==
  ASSUME LInv, NEW p \in Procs, Refuse(p)
  PROVE  RailsKept' /\ ALocalOwnerStays'
  BY MoveRails, IdleRailed DEF Refuse

LEMMA DoneRails ==
  ASSUME LInv, NEW p \in Procs, Done(p)
  PROVE  RailsKept'
<1>1. ASSUME NEW q \in Procs PROVE Railed(pc[q], req[q])'
  <2>1. CASE q = p
    <3>1. pc'[q] = "idle"
      BY <2>1 DEF LInv, IInv, ReqTyped, Done
    <3> QED  BY <3>1 DEF Railed
  <2>2. CASE q # p
    <3>1. pc'[q] = pc[q] /\ req'[q] = req[q] /\ domainOf' = domainOf
      BY <2>2 DEF LInv, IInv, ReqTyped, Done, fixed
    <3> QED
      BY <3>1 DEF LInv, RailsKept, Railed, Unseats, Claims, LocalRailPassed, Leaving
  <2> QED  BY <2>1, <2>2
<1> QED  BY <1>1 DEF RailsKept

\* What a request asks of the rails is settled with its body.
LEMMA PersonRails ==
  ASSUME NEW op \in Ops, NEW u \in Users, NEW o \in Scopes, NEW roles \in Roles
  PROVE  LET r == OfPerson(op, u, o, roles)
         IN  /\ r.op = op
             /\ Unseats(r) <=> \/ op \in {"update", "remove"} /\ o = None /\ "IAM_OWNER" \notin roles
                               \/ op \in {"deactivate", "deleteUser"}
<1>1. PICK r : r = OfPerson(op, u, o, roles)
  OBVIOUS
<1>2. r.op = op /\ r.scope = o /\ r.roles = roles
  BY <1>1, OfPersonTyped
<1> QED  BY <1>1, <1>2 DEF Unseats

LEMMA AskRails ==
  ASSUME LInv, NEW p \in Procs,
         AskMember(p) \/ AskUser(p) \/ AskPerson(p) \/ AskProvision(p)
           \/ AskClaim(p) \/ AskDeleteFed(p)
  PROVE  RailsKept' /\ ALocalOwnerStays'
<1> SUFFICES \E where, locals : Move(p, where, locals) /\ Railed(where, locals)
  BY MoveRails
<1>1. CASE AskMember(p)
  <2>1. PICK u \in Actors, o \in Scopes, op \in {"add", "update", "remove"} :
          \E roles \in IF op = "remove" THEN {{}} ELSE Bodies(o) :
             Move(p, IF op = "update" THEN "sit"
                  ELSE IF RailsFirst(op, o, roles) THEN "held" ELSE "write",
                  OfPerson(op, u, o, roles))
    BY <1>1 DEF AskMember, Ask
  <2>2. PICK roles \in IF op = "remove" THEN {{}} ELSE Bodies(o) :
             Move(p, IF op = "update" THEN "sit"
                  ELSE IF RailsFirst(op, o, roles) THEN "held" ELSE "write",
                  OfPerson(op, u, o, roles))
    BY <2>1
  <2>3. roles \in Roles /\ u \in Users /\ op \in Ops
    BY BodiesFit DEF Roles, Actors, Ops
  <2>4. PICK r : r = OfPerson(op, u, o, roles)
    OBVIOUS
  <2>5. r.op = op /\ (Unseats(r) <=> op \in {"update", "remove"} /\ o = None /\ "IAM_OWNER" \notin roles)
    BY <2>3, <2>4, PersonRails
  <2>6. Unseats(r) <=> RailsFirst(op, o, roles)
    BY <2>5 DEF RailsFirst
  <2>7. CASE op = "update"
    <3>1. Move(p, "sit", r)
      BY <2>2, <2>4, <2>7
    <3>2. Railed("sit", r)
      BY <2>5, <2>7 DEF Railed
    <3> QED  BY <3>1, <3>2
  <2>8. CASE op # "update" /\ RailsFirst(op, o, roles)
    <3>1. Move(p, "held", r)
      BY <2>2, <2>4, <2>8
    <3>2. Railed("held", r)
      BY <2>6, <2>8 DEF Railed
    <3> QED  BY <3>1, <3>2
  <2>9. CASE op # "update" /\ ~RailsFirst(op, o, roles)
    <3>1. Move(p, "write", r)
      BY <2>2, <2>4, <2>9
    <3>2. Railed("write", r)
      BY <2>5, <2>6, <2>9 DEF Railed, Claims
    <3> QED  BY <3>1, <3>2
  <2> QED  BY <2>7, <2>8, <2>9
<1>2. CASE AskUser(p)
  <2>1. PICK u \in Users, op \in {"activate", "deactivate", "deleteUser"} :
          Move(p, IF op = "activate" THEN "write" ELSE "held", OfPerson(op, u, None, {}))
    BY <1>2 DEF AskUser, Ask
  <2>2. PICK r : r = OfPerson(op, u, None, {})
    OBVIOUS
  <2>3. r.op = op /\ (Unseats(r) <=> op \in {"deactivate", "deleteUser"})
    BY <2>2, PersonRails DEF Ops, Scopes, Roles
  <2>4. CASE op = "activate"
    <3>1. Move(p, "write", r) /\ Railed("write", r)
      BY <2>1, <2>2, <2>3, <2>4 DEF Railed, Claims
    <3> QED  BY <3>1
  <2>5. CASE op # "activate"
    <3>1. Move(p, "held", r) /\ Railed("held", r)
      BY <2>1, <2>2, <2>3, <2>5 DEF Railed
    <3> QED  BY <3>1
  <2> QED  BY <2>4, <2>5
<1>3. CASE AskPerson(p) \/ AskProvision(p)
  <2>1. PICK u \in Users, op \in {"create", "invite", "provision"}, roles \in Roles :
          Move(p, "write", OfPerson(op, u, None, roles))
    BY <1>3 DEF AskPerson, AskProvision, Ask, Roles
  <2>2. PICK r : r = OfPerson(op, u, None, roles)
    OBVIOUS
  <2>3. r.op = op /\ ~Unseats(r)
    BY <2>2, PersonRails DEF Ops, Scopes
  <2>4. Railed("write", r)
    BY <2>3 DEF Railed, Claims
  <2> QED  BY <2>1, <2>2, <2>4
<1>4. CASE AskClaim(p)
  <2>1. PICK f, ds, on, held :
          Move(p, IF on /\ ds # {} THEN "local" ELSE "write", OfFed("claim", f, ds, on, held))
    BY <1>4 DEF AskClaim, Ask
  <2>2. PICK r : r = OfFed("claim", f, ds, on, held)
    OBVIOUS
  <2>3. r.op = "claim" /\ r.on = on /\ r.claims = ds
    BY <2>2 DEF OfFed, NoReq
  <2>4. ~Unseats(r) /\ (Claims(r) <=> on /\ ds # {})
    BY <2>3 DEF Unseats, Claims
  <2>5. CASE on /\ ds # {}
    <3>1. Move(p, "local", r) /\ Railed("local", r)
      BY <2>1, <2>2, <2>3, <2>5 DEF Railed
    <3> QED  BY <3>1
  <2>6. CASE ~(on /\ ds # {})
    <3>1. Move(p, "write", r) /\ Railed("write", r)
      BY <2>1, <2>2, <2>4, <2>6 DEF Railed
    <3> QED  BY <3>1
  <2> QED  BY <2>5, <2>6
<1>5. CASE AskDeleteFed(p)
  <2>1. PICK f : Move(p, "write", OfFed("deleteFed", f, {}, FALSE, None))
    BY <1>5 DEF AskDeleteFed, Ask
  <2>2. PICK r : r = OfFed("deleteFed", f, {}, FALSE, None)
    OBVIOUS
  <2>3. r.op = "deleteFed"
    BY <2>2 DEF OfFed, NoReq
  <2>4. Railed("write", r)
    BY <2>3 DEF Railed, Unseats, Claims
  <2> QED  BY <2>1, <2>2, <2>4
<1> QED  BY <1>1, <1>2, <1>3, <1>4, <1>5

\* What a rail notes changes nothing of the body.
LEMMA NotedRails ==
  ASSUME NEW r \in Req, NEW n, n \in {r, [r EXCEPT !.held = n.held],
                                      [r EXCEPT !.owners = n.owners], [r EXCEPT !.local = n.local]}
  PROVE  /\ n.op = r.op /\ n.user = r.user /\ n.claims = r.claims
         /\ (Unseats(n) <=> Unseats(r)) /\ (Claims(n) <=> Claims(r)) /\ Leaving(n) = Leaving(r)
<1>1. /\ n.op = r.op /\ n.user = r.user /\ n.scope = r.scope /\ n.roles = r.roles
      /\ n.claims = r.claims /\ n.on = r.on
  BY DEF Req
<1> QED  BY <1>1 DEF Unseats, Claims, Leaving

LEMMA ReadRails ==
  ASSUME LInv, NEW p \in Procs, Sit(p) \/ ReadHeld(p) \/ CountOwners(p) \/ ReadLocal(p)
  PROVE  RailsKept' /\ ALocalOwnerStays'
<1>1. CASE Refuse(p)
  BY <1>1, RefuseRails
<1>2. PICK r : r = req[p] /\ r \in Req /\ Railed(pc[p], r)
  BY DEF LInv, IInv, ReqTyped, RailsKept
<1>3. CASE Sit(p) /\ ~Refuse(p)
  <2>1. PICK where : /\ where = (IF RailsFirst(r.op, r.scope, r.roles) THEN "held" ELSE "write")
                     /\ Goto(p, where) /\ UNCHANGED req
    BY <1>2, <1>3 DEF Sit
  <2>2. Move(p, where, r)
    BY <1>2, <2>1 DEF Move, LInv, IInv, ReqTyped
  <2>3. r.op = "update"
    BY <1>2, <1>3 DEF Sit, Railed
  <2>4. Railed(where, r)
    BY <2>1, <2>3 DEF Railed, RailsFirst, Unseats, Claims
  <2> QED  BY <2>2, <2>4, MoveRails
<1>4. CASE ReadHeld(p)
  <2>1. Unseats(r)
    BY <1>2, <1>4 DEF ReadHeld, Railed
  <2>2. PICK n, where : /\ Move(p, where, n)
                        /\ \/ where = "count" /\ n = [r EXCEPT !.held = TRUE]
                           \/ where = "write" /\ n = [r EXCEPT !.held = FALSE]
    BY <1>2, <1>4 DEF ReadHeld
  <2>3. (where = "count" /\ n.held = TRUE) \/ (where = "write" /\ n.held = FALSE)
    BY <1>2, <2>2 DEF Req
  <2>4. n = [r EXCEPT !.held = n.held]
    BY <1>2, <2>2, <2>3 DEF Req
  <2>5. Unseats(n)
    BY <1>2, <2>1, <2>4, NotedRails
  <2>6. ~Claims(n)
    BY <2>5 DEF Unseats, Claims
  <2>7. Railed(where, n)
    BY <2>3, <2>5, <2>6 DEF Railed
  <2> QED  BY <2>2, <2>7, MoveRails
<1>5. CASE CountOwners(p) /\ ~Refuse(p)
  <2>1. Unseats(r) /\ r.held = TRUE
    BY <1>2, <1>5 DEF CountOwners, Railed
  <2>2. PICK n : Move(p, "local", n) /\ n = [r EXCEPT !.owners = Owners]
    BY <1>2, <1>5 DEF CountOwners
  <2>3. n.held = TRUE /\ n = [r EXCEPT !.owners = n.owners]
    BY <1>2, <2>1, <2>2 DEF Req
  <2>4. Unseats(n)
    BY <1>2, <2>1, <2>3, NotedRails
  <2>5. Railed("local", n)
    BY <2>3, <2>4 DEF Railed
  <2> QED  BY <2>2, <2>5, MoveRails
<1>6. CASE ReadLocal(p) /\ ~Refuse(p)
  <2>1. r.op = "claim" \/ (Unseats(r) /\ r.held = TRUE)
    BY <1>2, <1>6 DEF ReadLocal, Railed
  <2>2. PICK n : Move(p, "write", n) /\ n = [r EXCEPT !.local = LocalOwners]
    BY <1>2, <1>6 DEF ReadLocal
  <2>3. n.held = r.held /\ n.local = LocalOwners /\ n = [r EXCEPT !.local = n.local]
    BY <1>2, <2>2 DEF Req
  <2>4. n.op = r.op /\ (Unseats(n) <=> Unseats(r)) /\ Leaving(n) = Leaving(r)
    BY <1>2, <2>3, NotedRails
  <2>5. ~EmptiesLocal(LocalOwners, Leaving(r))
    BY <1>2, <1>6 DEF ReadLocal, Taken, Leaving
  <2>6. LocalOwners \in SUBSET Users
    BY DEF LocalOwners, Owners
  <2>7. LocalRailPassed(n)
    BY <2>3, <2>4, <2>5, <2>6, NoNoteAssumption DEF LocalRailPassed
  <2>8. Railed("write", n)
    BY <2>1, <2>3, <2>4, <2>7 DEF Railed, Unseats
  <2> QED  BY <2>2, <2>8, MoveRails
<1> QED  BY <1>1, <1>3, <1>4, <1>5, <1>6

\* A local owner stays one while their seat, their account and their password do,
\* and no directory comes to claim them.
LEMMA StaysLocal ==
  ASSUME NEW u \in LocalOwners, UNCHANGED fixed, "IAM_OWNER" \in Held(None, u)',
         account'[u] = "active", hash'[u] = hash[u], Claimed(u)' => Claimed(u)
  PROVE  LocalOwners' # {}
<1>1. u \in Users /\ hash[u] /\ ~Claimed(u)
  BY DEF LocalOwners, Owners
<1>2. u \in Owners'
  BY <1>1 DEF Owners
<1>3. u \in LocalOwners'
  BY <1>1, <1>2 DEF LocalOwners
<1> QED  BY <1>3

LEMMA LocalIs ==
  ASSUME NEW u \in LocalOwners
  PROVE  /\ u \in Users /\ "IAM_OWNER" \in Held(None, u) /\ account[u] = "active"
         /\ hash[u] /\ ~Claimed(u)
  BY DEF LocalOwners, Owners

\* Whoever passed the rail, and was not overtaken, leaves somebody.
LEMMA RailLeavesOne ==
  ASSUME LInv, NEW p \in Procs, LocalRailPassed(req[p]), ~Moved(p), ~stripped, ~raced
  PROVE  \E u \in LocalOwners : u \notin Leaving(req[p])
<1>1. req[p].local = LocalOwners
  BY DEF LocalRailPassed, Moved
<1>2. LocalOwners # {}
  BY DEF LInv, ALocalOwnerStays
<1> QED  BY <1>1, <1>2 DEF LocalRailPassed, EmptiesLocal

LEMMA UnseatLeavesOne ==
  ASSUME LInv, NEW p \in Procs, pc[p] = "write", Unseats(req[p]), ~Moved(p), ~stripped, ~raced
  PROVE  \E u \in LocalOwners : u # req[p].user
<1>1. req[p].op # "claim" /\ Leaving(req[p]) = {req[p].user}
  BY DEF Unseats, Leaving
<1>2. req[p].held = FALSE \/ (req[p].held = TRUE /\ LocalRailPassed(req[p]))
  BY DEF LInv, RailsKept, Railed
<1>3. CASE LocalRailPassed(req[p])
  BY <1>1, <1>3, RailLeavesOne
<1>4. CASE req[p].held = FALSE
  <2>1. req[p].held # None
    BY <1>4, NoNoteAssumption
  <2>2. "IAM_OWNER" \notin Held(None, req[p].user)
    BY <1>1, <1>4, <2>1 DEF Moved
  <2>3. PICK u \in LocalOwners : TRUE
    BY DEF LInv, ALocalOwnerStays
  <2>4. u # req[p].user
    BY <2>2, <2>3, LocalIs
  <2> QED  BY <2>3, <2>4
<1> QED  BY <1>2, <1>3, <1>4

\* An Add that takes no seat of an owner, a write below the tenant, one that
\* confers the seat, and one that the rails let through.
LEMMA WriteMemberRails ==
  ASSUME LInv, NEW p \in Procs, WriteMember(p)
  PROVE  RailsKept' /\ ALocalOwnerStays'
<1>1. CASE Refuse(p)
  BY <1>1, RefuseRails
<1>2. CASE ~Refuse(p)
  <2>1. PICK r : r = req[p]
    OBVIOUS
  <2>2. PICK roles : roles = IF r.op = "remove" THEN None ELSE r.roles
    OBVIOUS
  <2>3. /\ r.op \in {"add", "update", "remove"} /\ pc[p] = "write"
        /\ member' = [member EXCEPT ![r.scope][r.user] = roles]
        /\ stripped' = (stripped \/ (r.op = "add" /\ "IAM_OWNER" \in Held(r.scope, r.user) \ r.roles))
        /\ Overtaken(p) /\ Done(p) /\ UNCHANGED <<account, hash, fed, claim>>
    BY <1>2, <2>1, <2>2 DEF WriteMember
  <2>4. r \in Req /\ None \in Scopes /\ None \in DOMAIN member
        /\ member[None] \in [Users -> {None} \cup SUBSET Seats(None)]
    BY <2>1 DEF LInv, IInv, ReqTyped, RowsTyped, Scopes
  <2>5. ASSUME NEW u \in Users, u # r.user \/ r.scope # None
        PROVE  Held(None, u)' = Held(None, u)
    <3>1. member'[None][u] = member[None][u]
      <4>1. CASE r.scope # None
        BY <2>3, <2>4, <4>1
      <4>2. CASE r.scope = None
        <5>1. member'[None] = [member[None] EXCEPT ![r.user] = roles]
          BY <2>3, <2>4, <4>2
        <5> QED  BY <2>4, <2>5, <4>2, <5>1
      <4> QED  BY <4>1, <4>2
    <3> QED  BY <3>1 DEF Held
  <2>6. SUFFICES ASSUME ~stripped', ~raced' PROVE LocalOwners' # {}
    BY <2>3, DoneRails DEF ALocalOwnerStays
  <2>7. ~stripped /\ ~raced /\ ~Moved(p)
    BY <2>3, <2>6 DEF Overtaken
  <2>8. UNCHANGED fixed /\ UNCHANGED <<account, hash, fed, claim>>
    BY <2>3 DEF Done
  <2>9. ASSUME NEW u \in LocalOwners, "IAM_OWNER" \in Held(None, u)'
        PROVE  LocalOwners' # {}
    <3>1. Claimed(u)' => Claimed(u)
      BY <2>8 DEF Claimed, fixed
    <3> QED  BY <2>8, <2>9, <3>1, LocalIs, StaysLocal
  <2>10. PICK u \in LocalOwners : TRUE
    BY <2>7 DEF LInv, ALocalOwnerStays
  <2>11. CASE u # r.user \/ r.scope # None
    <3>1. "IAM_OWNER" \in Held(None, u)'
      BY <2>5, <2>10, <2>11, LocalIs
    <3> QED  BY <2>9, <2>10, <3>1
  <2>12. CASE u = r.user /\ r.scope = None /\ Unseats(r)
    <3>1. PICK v \in LocalOwners : v # r.user
      BY <2>1, <2>3, <2>7, <2>12, UnseatLeavesOne
    <3>2. "IAM_OWNER" \in Held(None, v)'
      BY <2>5, <3>1, LocalIs
    <3> QED  BY <2>9, <3>1, <3>2
  <2>13. CASE u = r.user /\ r.scope = None /\ ~Unseats(r)
    <3>1. "IAM_OWNER" \in Held(None, u)
      BY <2>10, LocalIs
    <3>2. r.op # "remove" /\ "IAM_OWNER" \in r.roles
      BY <2>1, <2>3, <2>6, <2>7, <2>13, <3>1 DEF Unseats, LInv, IInv, ReqTyped, Fits
    <3>3. roles = r.roles /\ roles # None
      BY <2>2, <2>4, <3>2, NoRolesAssumption DEF Req
    <3>4. member'[None] = [member[None] EXCEPT ![r.user] = roles]
      BY <2>3, <2>4, <2>13
    <3>5. member'[None][u] = roles
      BY <2>4, <2>10, <2>13, <3>4, LocalIs
    <3>6. "IAM_OWNER" \in Held(None, u)'
      BY <3>2, <3>3, <3>5 DEF Held
    <3> QED  BY <2>9, <2>10, <3>6
  <2> QED  BY <2>11, <2>12, <2>13
<1> QED  BY <1>1, <1>2

LEMMA WriteUserRails ==
  ASSUME LInv, NEW p \in Procs, WriteUser(p)
  PROVE  RailsKept' /\ ALocalOwnerStays'
<1>1. CASE Refuse(p)
  BY <1>1, RefuseRails
<1>2. CASE ~Refuse(p)
  <2>1. PICK r : r = req[p]
    OBVIOUS
  <2>2. PICK state : state = CASE r.op = "activate" -> "active"
                               [] r.op = "deactivate" -> "inactive"
                               [] OTHER -> "deleted"
    OBVIOUS
  <2>3. /\ r.op \in {"activate", "deactivate", "deleteUser"} /\ pc[p] = "write"
        /\ account' = [account EXCEPT ![r.user] = state]
        /\ Overtaken(p) /\ Done(p) /\ UNCHANGED <<hash, member, fed, claim, stripped>>
    BY <1>2, <2>1, <2>2 DEF WriteUser
  <2>4. SUFFICES ASSUME ~stripped', ~raced' PROVE LocalOwners' # {}
    BY <2>3, DoneRails DEF ALocalOwnerStays
  <2>5. ~stripped /\ ~raced /\ ~Moved(p)
    BY <2>3, <2>4 DEF Overtaken
  <2>6. UNCHANGED fixed /\ UNCHANGED <<hash, member, fed, claim>>
    BY <2>3 DEF Done
  <2>7. ASSUME NEW u \in LocalOwners, account'[u] = "active"
        PROVE  LocalOwners' # {}
    <3>1. (Claimed(u)' => Claimed(u)) /\ Held(None, u)' = Held(None, u)
      BY <2>6 DEF Claimed, fixed, Held
    <3> QED  BY <2>6, <2>7, <3>1, LocalIs, StaysLocal
  <2>8. PICK u \in LocalOwners : u # r.user \/ r.op = "activate"
    <3>1. CASE r.op = "activate"
      BY <2>5, <3>1 DEF LInv, ALocalOwnerStays
    <3>2. CASE r.op # "activate"
      <4>1. Unseats(r)
        BY <2>3, <3>2 DEF Unseats
      <4> QED  BY <2>1, <2>3, <2>5, <4>1, UnseatLeavesOne
    <3> QED  BY <3>1, <3>2
  <2>9. account'[u] = "active"
    <3>1. u \in Users /\ account[u] = "active"
      BY <2>8, LocalIs
    <3>2. r.op = "activate" => state = "active"
      BY <2>2
    <3> QED  BY <2>3, <2>8, <3>1, <3>2 DEF LInv, IInv, RowsTyped
  <2> QED  BY <2>7, <2>8, <2>9
<1> QED  BY <1>1, <1>2

\* A new person takes nobody's place.
LEMMA WritePersonRails ==
  ASSUME LInv, NEW p \in Procs, WritePerson(p)
  PROVE  RailsKept' /\ ALocalOwnerStays'
<1>1. CASE Refuse(p)
  BY <1>1, RefuseRails
<1>2. CASE ~Refuse(p)
  <2>1. PICK r : r = req[p]
    OBVIOUS
  <2>2. /\ r.op \in {"create", "invite", "provision"} /\ account[r.user] = "absent"
        /\ account' = [account EXCEPT ![r.user] = IF r.op = "invite" THEN "initial" ELSE "active"]
        /\ hash' = [hash EXCEPT ![r.user] = r.op = "create"]
        /\ member' = [member EXCEPT ![home[r.user]][r.user] = r.roles]
        /\ Done(p) /\ UNCHANGED <<fed, claim, stripped, raced>>
    BY <1>2, <2>1 DEF WritePerson
  <2>3. SUFFICES ASSUME ~stripped', ~raced' PROVE LocalOwners' # {}
    BY <2>2, DoneRails DEF ALocalOwnerStays
  <2>4. PICK u \in LocalOwners : TRUE
    BY <2>2, <2>3 DEF LInv, ALocalOwnerStays
  <2>5. u \in Users /\ u # r.user /\ account[u] = "active" /\ "IAM_OWNER" \in Held(None, u)
    BY <2>2, <2>4, LocalIs
  <2>6. account'[u] = "active" /\ hash'[u] = hash[u]
    BY <2>2, <2>5 DEF LInv, IInv, RowsTyped
  <2>7. home[r.user] # None
    BY <2>1, <2>2 DEF LInv, IInv, FixedTyped, ReqTyped, Fits
  <2>8. member'[None] = member[None]
    BY <2>2, <2>7 DEF LInv, IInv, RowsTyped, Scopes
  <2>9. UNCHANGED fixed /\ UNCHANGED <<fed, claim>>
    BY <2>2 DEF Done
  <2>10. (Claimed(u)' => Claimed(u)) /\ Held(None, u)' = Held(None, u)
    BY <2>8, <2>9 DEF Claimed, fixed, Held
  <2> QED  BY <2>4, <2>5, <2>6, <2>9, <2>10, StaysLocal
<1> QED  BY <1>1, <1>2

\* A claim, or the end of one, takes in only the domains it names.
LEMMA ClaimingTakes ==
  ASSUME LInv, UNCHANGED fixed, NEW f \in Feds, NEW ds \in SUBSET Domains, NEW state, NEW u \in Users,
         fed' = [fed EXCEPT ![f] = state], claim' = Claiming(f, ds),
         state # "active" \/ domainOf[u] \notin ds, Claimed(u)'
  PROVE  Claimed(u)
<1>1. PICK d \in Domains : domainOf[u] = d /\ claim'[d] # None /\ fed'[claim'[d]] = "active"
  BY DEF Claimed, fixed
<1>2. claim'[d] = IF d \in ds THEN f ELSE IF claim[d] = f THEN None ELSE claim[d]
  BY <1>1 DEF Claiming
<1>3. fed'[f] = state
  BY DEF LInv, IInv, RowsTyped
<1>4. d \notin ds /\ claim[d] # f /\ claim'[d] = claim[d]
  BY <1>1, <1>2, <1>3
<1>5. claim[d] \in Feds
  BY <1>1, <1>4 DEF LInv, IInv, RowsTyped
<1>6. fed'[claim[d]] = fed[claim[d]]
  BY <1>4, <1>5 DEF LInv, IInv, RowsTyped
<1> QED  BY <1>1, <1>4, <1>6 DEF Claimed

LEMMA FedRails ==
  ASSUME LInv, NEW p \in Procs, WriteClaim(p) \/ WriteDeleteFed(p)
  PROVE  RailsKept' /\ ALocalOwnerStays'
<1>1. CASE Refuse(p)
  BY <1>1, RefuseRails
<1>2. CASE ~Refuse(p)
  <2>1. PICK r : r = req[p] /\ r \in Req /\ Fits(r) /\ pc[p] = "write" /\ Railed("write", r)
    BY DEF LInv, IInv, ReqTyped, RailsKept, WriteClaim, WriteDeleteFed
  <2>2. PICK f \in Feds, ds \in SUBSET Domains, state \in {"active", "inactive", "deleted"} :
          /\ fed' = [fed EXCEPT ![f] = state] /\ claim' = Claiming(f, ds)
          /\ Overtaken(p) /\ Done(p) /\ UNCHANGED <<account, hash, member, stripped>>
          /\ state = "active" => r.op = "claim" /\ r.on /\ r.claims = ds
    <3>1. CASE WriteClaim(p)
      <4>1. r.op = "claim" /\ r.fed \in Feds /\ r.claims \in SUBSET Domains
        BY <2>1, <3>1 DEF WriteClaim, Fits, Req
      <4>2. PICK state \in {"active", "inactive"} : state = IF r.on THEN "active" ELSE "inactive"
        OBVIOUS
      <4>3. /\ fed' = [fed EXCEPT ![r.fed] = state] /\ claim' = Claiming(r.fed, r.claims)
            /\ Overtaken(p) /\ Done(p) /\ UNCHANGED <<account, hash, member, stripped>>
        BY <1>2, <2>1, <3>1, <4>2 DEF WriteClaim
      <4>4. state = "active" => r.on
        BY <4>2
      <4> QED  BY <4>1, <4>2, <4>3, <4>4
    <3>2. CASE WriteDeleteFed(p)
      <4>1. r.fed \in Feds
        BY <2>1, <3>2 DEF WriteDeleteFed, Fits
      <4>2. /\ fed' = [fed EXCEPT ![r.fed] = "deleted"] /\ claim' = Claiming(r.fed, {})
            /\ Overtaken(p) /\ Done(p) /\ UNCHANGED <<account, hash, member, stripped>>
        BY <1>2, <2>1, <3>2 DEF WriteDeleteFed
      <4> QED  BY <4>1, <4>2
    <3> QED  BY <3>1, <3>2
  <2>3. SUFFICES ASSUME ~stripped', ~raced' PROVE LocalOwners' # {}
    BY <2>2, DoneRails DEF ALocalOwnerStays
  <2>4. ~stripped /\ ~raced /\ ~Moved(p)
    BY <2>2, <2>3 DEF Overtaken
  <2>5. UNCHANGED fixed /\ UNCHANGED <<account, hash, member>>
    BY <2>2 DEF Done
  <2>6. PICK u \in LocalOwners : state # "active" \/ domainOf[u] \notin ds
    <3>1. CASE state = "active" /\ ds # {}
      <4>1. LocalRailPassed(r) /\ r.op = "claim" /\ r.claims = ds
        BY <2>1, <2>2, <3>1 DEF Railed, Claims
      <4>2. PICK u \in LocalOwners : u \notin Leaving(r)
        BY <2>1, <2>4, <4>1, RailLeavesOne
      <4>3. domainOf[u] \notin ds
        BY <4>1, <4>2, LocalIs DEF Leaving
      <4> QED  BY <4>2, <4>3
    <3>2. CASE state # "active" \/ ds = {}
      BY <2>4, <3>2 DEF LInv, ALocalOwnerStays
    <3> QED  BY <3>1, <3>2
  <2>7. u \in Users /\ account[u] = "active" /\ "IAM_OWNER" \in Held(None, u)
    BY <2>6, LocalIs
  <2>8. Claimed(u)' => Claimed(u)
    BY <2>2, <2>5, <2>6, <2>7, ClaimingTakes
  <2>9. Held(None, u)' = Held(None, u)
    BY <2>5 DEF Held
  <2> QED  BY <2>5, <2>6, <2>7, <2>8, <2>9, StaysLocal
<1> QED  BY <1>1, <1>2

LEMMA LocalInit == Init => LInv
<1> SUFFICES ASSUME Init PROVE LInv
  OBVIOUS
<1>1. RailsKept
  BY IdleRailed DEF Init, RailsKept
<1>2. LocalOwners # {}
  <2>1. PICK u \in Users :
          /\ account = [x \in Users |-> IF x = u THEN "active" ELSE "absent"]
          /\ hash = [x \in Users |-> x = u]
          /\ member = [o \in Scopes |-> [x \in Users |->
                IF x = u /\ o = None THEN {"IAM_OWNER"}
                ELSE IF x = u /\ o = home[u] THEN {"ORG_OWNER"}
                ELSE None]]
    BY DEF Init
  <2>2. member[None][u] = {"IAM_OWNER"} /\ account[u] = "active" /\ hash[u]
    BY <2>1 DEF Scopes
  <2>3. {"IAM_OWNER"} # None
    BY NoRolesAssumption DEF Roles, TenantSeats
  <2>4. ~Claimed(u)
    BY DEF Init, Claimed
  <2>5. u \in LocalOwners
    BY <2>1, <2>2, <2>3, <2>4 DEF LocalOwners, Owners, Held
  <2> QED  BY <2>5
<1> QED  BY InitHolds, <1>1, <1>2 DEF LInv, ALocalOwnerStays

LEMMA LocalNext == LInv /\ [Next]_vars => LInv'
<1> SUFFICES ASSUME LInv, [Next]_vars PROVE RailsKept' /\ ALocalOwnerStays'
  BY NextKeeps DEF LInv
<1>1. CASE UNCHANGED vars
  BY <1>1 DEF vars, fixed, rows, history, LInv, RailsKept, Railed, Unseats, Claims,
     LocalRailPassed, Leaving, ALocalOwnerStays, LocalOwners, Owners, Held, Claimed
<1>2. CASE Next
  <2>1. PICK p \in Procs :
          \/ AskMember(p) \/ Sit(p) \/ AskUser(p) \/ AskPerson(p) \/ AskProvision(p)
          \/ AskClaim(p) \/ AskDeleteFed(p) \/ ReadHeld(p) \/ CountOwners(p) \/ ReadLocal(p)
          \/ WriteMember(p) \/ WriteUser(p) \/ WritePerson(p) \/ WriteClaim(p)
          \/ WriteDeleteFed(p) \/ Abandon(p)
    BY <1>2 DEF Next
  <2>2. CASE Abandon(p)
    BY <2>2, RefuseRails DEF Abandon
  <2> QED
    BY <2>1, <2>2, AskRails, ReadRails, WriteMemberRails, WriteUserRails, WritePersonRails, FedRails
<1> QED  BY <1>1, <1>2

\* The tenant keeps an owner whose password is checked here, through every
\* sequence of role writes, account writes and domain claims, and every overlap
\* whose rails read what was still so (keepsAnOwner, keepsALocalOwner).
THEOREM LocalOwnerKept == Spec => []ALocalOwnerStays
<1>1. LInv => ALocalOwnerStays
  BY DEF LInv
<1> QED  BY LocalInit, LocalNext, <1>1, PTL DEF Spec

=============================================================================

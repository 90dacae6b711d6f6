------------------------------ MODULE Federation ------------------------------
(***************************************************************************)
(* The people of a tenant and the directories they sign in through: which  *)
(* directory answers for an identifier, what a proved directory account    *)
(* signs in as, the person and the link its first bind writes, and the     *)
(* administrators who change people, directories and links meanwhile.      *)
(*                                                                         *)
(* A sign-in reads with statements of its own, between which anything may  *)
(* happen, and writes in one transaction at its end. The directories are   *)
(* external: an entry has an id that stays, and a username and an email    *)
(* address that are renamed and handed on to other entries.                *)
(*                                                                         *)
(* What the sign-in does with the person is in LoginSession, and the rails *)
(* that keep a tenant an owner are in Owners.                              *)
(***************************************************************************)
EXTENDS Naturals, FiniteSets

CONSTANTS
    Procs,     \* requests that run side by side
    Feds,      \* user federations
    Placing,   \* those that name an organization for the people they create
    Entries,   \* stable ids of directory entries
    Forms,     \* identifiers: usernames and email addresses
    Domains,   \* email domains
    DomainOf,  \* emailDomain of each form, None when it carries none
    None,      \* the absent value
    Shapes,    \* bound: the names and email addresses an entry may have
    Peopled,   \* bound: the federations whose directory has entries
    Bodies,    \* bound: the people that administrators create
    MaxUsers   \* bound: rows of users, which are numbered as they are written

ASSUME PlacingAssumption == Placing \subseteq Feds /\ Peopled \subseteq Feds
ASSUME DomainAssumption == DomainOf \in [Forms -> Domains \cup {None}]
ASSUME ShapeAssumption ==
    Shapes \cup Bodies \subseteq [name : Forms \cup {None}, email : Forms \cup {None}]
ASSUME BodyAssumption == \A b \in Bodies : b.name # None
ASSUME CountAssumption == MaxUsers \in Nat /\ None \notin Forms \cup Feds \cup Entries \cup Nat

Users == 1 .. MaxUsers

\* Rows of users and user_humans. password: password_hash is not NULL.
Person == [name : Forms, email : Forms \cup {None}, password : BOOLEAN,
           state : {"active", "inactive", "initial", "deleted"}]

ASSUME NoRowAssumption == None \notin Person \cup Shapes

Link == [fed : Feds, entry : Entries, user : Users]

VARIABLES
    directory,  \* what each directory holds: external
    fed,        \* user_federations: None before the create, then the state
    claim,      \* user_federation_domains
    person,     \* users
    links,      \* user_federation_links
    twin,       \* history: people who were created while another row was written
    stale,      \* history: requests whose reads of links and federations are outdated
    pc,         \* where each request stands
    req         \* its local variables

rows == <<fed, claim, person, links>>
history == <<twin, stale>>
vars == <<directory, rows, history, pc, req>>

SignInPCs == {"resolve", "find", "bind", "link", "can", "holds", "provision", "held", "create", "in"}
PCs == SignInPCs \cup {"idle", "unlink"}

\* user, email, fed: what the session holds. entry, as: what the bind proved.
\* seen: how many rows heldAlready read.
Req == [typed : Forms \cup {None},
        user  : Users \cup {None},
        email : Forms \cup {None},
        fed   : Feds \cup {None},
        entry : Entries \cup {None},
        as    : {None} \cup Shapes,
        seen  : 0 .. MaxUsers]

NoReq == [typed |-> None, user |-> None, email |-> None, fed |-> None,
          entry |-> None, as |-> None, seen |-> 0]

Rows == {u \in Users : person[u] # None}
Live(u) == person[u] # None /\ person[u].state # "deleted"
Active(u) == person[u] # None /\ person[u].state = "active"
FormsOf(who) == {who.name, who.email} \ {None}
Serves(f) == fed[f] = "active"

TypeOK ==
    /\ \A f \in Feds :
        /\ fed[f] \in {None, "active", "inactive", "deleted"}
        /\ \A e \in Entries : directory[f][e] = None \/ directory[f][e] \in Shapes
    /\ \A d \in Domains : claim[d] # None => claim[d] \in Feds
    /\ \A u \in Users : person[u] = None \/ person[u] \in Person
    /\ \A u, v \in Users : Live(u) /\ Live(v) /\ person[u].name = person[v].name => u = v
    /\ links \subseteq Link
    /\ \A l \in links : l.user \in Rows
    /\ \A l, k \in links : l.fed = k.fed /\ (l.entry = k.entry \/ l.user = k.user) => l = k
    /\ twin \subseteq Users /\ stale \subseteq Procs
    /\ pc \in [Procs -> PCs] /\ req \in [Procs -> Req]

Init ==
    /\ directory = [f \in Feds |-> [e \in Entries |-> None]]
    /\ fed = [f \in Feds |-> None]
    /\ claim = [d \in Domains |-> None]
    /\ person = [u \in Users |-> None]
    /\ links = {}
    /\ twin = {} /\ stale = {}
    /\ pc = [p \in Procs |-> "idle"]
    /\ req = [p \in Procs |-> NoReq]

Move(p, where, locals) ==
    /\ pc' = [pc EXCEPT ![p] = where]
    /\ req' = [req EXCEPT ![p] = locals]
    /\ UNCHANGED directory

\* The request goes on, having written nothing.
Go(p, where, locals) == Move(p, where, locals) /\ UNCHANGED <<rows, history>>

\* The request ends, refused or answered.
Leave(p) ==
    /\ Move(p, "idle", NoReq)
    /\ stale' = stale \ {p}
    /\ UNCHANGED <<rows, twin>>

\* A write under the requests that `under` names.
Outdates(under) == stale' = stale \cup {p \in Procs : pc[p] # "idle" /\ under[p]}

Id(s) == CHOOSE x \in s : TRUE

-----------------------------------------------------------------------------
(* Federation Resolution.                                                  *)

\* FindByIdentifier: an active person under this username or email address.
Named(form) == {u \in Users : Active(u) /\ form \in FormsOf(person[u])}

Identify(p) ==
    /\ pc[p] = "idle"
    /\ \E form \in Forms : \E u \in IF Named(form) = {} THEN {None} ELSE Named(form) :
        Go(p, "resolve", [NoReq EXCEPT !.typed = form, !.user = u,
                             !.email = IF u = None THEN None ELSE person[u].email])

\* FindByDomain: the active federation that claims the domain of a form.
Claimant(form) ==
    IF form = None \/ DomainOf[form] = None THEN None
    ELSE IF claim[DomainOf[form]] # None /\ Serves(claim[DomainOf[form]])
         THEN claim[DomainOf[form]] ELSE None

\* LinkedFederations: those that sign the person in.
Linked(u) == {f \in Feds : Serves(f) /\ \E l \in links : l.fed = f /\ l.user = u}

\* Mutant of Held: rows that are soft-deleted hold no identifier.
HeldLive(forms) == \E u \in Users : Live(u) /\ FormsOf(person[u]) \cap forms # {}

\* HoldsIdentifier: a person of the tenant, in any state, deleted ones included.
Held(forms) == \E u \in Rows : FormsOf(person[u]) \cap forms # {}

\* One federation, or none when two or more would do.
Sole(feds) == IF Cardinality(feds) = 1 THEN Id(feds) ELSE None

\* ActiveIDs.
ActiveIDs == {f \in Feds : Serves(f)}

\* A claim of the form that was typed, a claim of the address the tenant holds,
\* the links of the person, and the only federation of somebody unknown.
Route(q) ==
    IF Claimant(q.typed) # None THEN Claimant(q.typed)
    ELSE IF Claimant(q.email) # None THEN Claimant(q.email)
    ELSE IF q.user # None THEN Sole(Linked(q.user))
    ELSE IF Held({q.typed}) THEN None
    ELSE Sole(ActiveIDs)

\* The session keeps the answer. Without one the local compare decides.
Resolve(p) ==
    /\ pc[p] = "resolve"
    /\ IF Route(req[p]) = None THEN Leave(p)
       ELSE Go(p, "find", [req[p] EXCEPT !.fed = Route(req[p])])

-----------------------------------------------------------------------------
(* The bind.                                                               *)

\* Prove reads the federation.
FindFederation(p) ==
    /\ pc[p] = "find"
    /\ IF Serves(req[p].fed) THEN Go(p, "bind", req[p]) ELSE Leave(p)

\* searchFilter: the entries a form matches.
Matches(f, form) ==
    {e \in Entries : directory[f][e] # None /\ form \in FormsOf(directory[f][e])}

\* What the bind reads of the entry, by the attributes the federation maps.
IdentityOf(f, e) == directory[f][e]

\* Bind: the search names one entry, and the password is the entry's.
Bind(p) ==
    /\ pc[p] = "bind"
    /\ LET q == req[p]
           found == Matches(q.fed, q.typed)
       IN  IF Cardinality(found) = 1
           THEN Go(p, "link", [q EXCEPT !.entry = Id(found), !.as = IdentityOf(q.fed, Id(found))])
           ELSE Leave(p)

\* The attempts of the person are used up.
OverBudget(p) == pc[p] = "find" /\ Leave(p)

\* No server of the federation answers in time, or the password is wrong.
Unavailable(p) == pc[p] = "bind" /\ Leave(p)

-----------------------------------------------------------------------------
(* PersonOf: what the proof signs in as.                                   *)

Of(f, e) == {l \in links : l.fed = f /\ l.entry = e}

FindLink(p) ==
    /\ pc[p] = "link"
    /\ LET q == req[p]
           link == Of(q.fed, q.entry)
       IN  IF link # {} THEN Go(p, "can", [q EXCEPT !.user = Id(link).user])
           ELSE Go(p, IF q.user # None THEN "holds" ELSE "provision", q)

\* CanSignIn: the linked person is active.
CanSignIn(p) ==
    /\ pc[p] = "can"
    /\ IF Active(req[p].user) THEN Go(p, "in", req[p]) ELSE Leave(p)

\* Mutant of AnotherEntry: whoever the session names is answered.
NoOtherEntry(q) == FALSE

\* The person the session names is another entry of this directory.
AnotherEntry(q) == q.fed \in Linked(q.user)

HoldsNoLink(p) ==
    /\ pc[p] = "holds"
    /\ IF AnotherEntry(req[p]) THEN Leave(p) ELSE Go(p, "in", req[p])

\* Provision reads the federation again, and what it creates people with.
Provision(p) ==
    /\ pc[p] = "provision"
    /\ LET q == req[p]
       IN  IF Serves(q.fed) /\ q.fed \in Placing /\ q.as.name # None
           THEN Go(p, "held", q) ELSE Leave(p)

\* heldAlready: the form that was typed and both forms of the entry.
HeldAlready(p) ==
    /\ pc[p] = "held"
    /\ LET q == req[p]
       IN  IF Held({q.typed} \cup FormsOf(q.as)) THEN Leave(p)
           ELSE Go(p, "create", [q EXCEPT !.seen = Cardinality(Rows)])

\* Mutant of NameTaken: only an active person keeps a username.
NameTakenByActive(name) == \E u \in Users : Active(u) /\ person[u].name = name

\* uq_username, which a soft-deleted row does not hold.
NameTaken(name) == \E u \in Users : Live(u) /\ person[u].name = name

NextId == Cardinality(Rows) + 1

NewPerson(who, password, state) ==
    [name |-> who.name, email |-> who.email, password |-> password, state |-> state]

\* WriteLink: the entry is the person's from now on.
InsertLink(q, u) == links \cup {[fed |-> q.fed, entry |-> q.entry, user |-> u]}

\* CreatePerson and WriteLink in one transaction: the keys refuse it whole.
CreatePerson(p) ==
    /\ pc[p] = "create" /\ NextId \in Users
    /\ LET q == req[p]
       IN  IF NameTaken(q.as.name) \/ Of(q.fed, q.entry) # {} THEN Leave(p)
           ELSE /\ person' = [person EXCEPT ![NextId] = NewPerson(q.as, FALSE, "active")]
                /\ links' = InsertLink(q, NextId)
                /\ twin' = IF q.seen < Cardinality(Rows) THEN twin \cup {NextId} ELSE twin
                /\ Outdates([o \in Procs |-> req[o].fed = q.fed /\ req[o].entry = q.entry /\ o # p])
                /\ Move(p, "in", [q EXCEPT !.user = NextId])
                /\ UNCHANGED <<fed, claim>>

\* The session has its person, and the request answers.
Enter(p) == pc[p] = "in" /\ Leave(p)

\* A failed read or write: the request is refused, and what it
\* wrote is rolled back.
Abandon(p) == pc[p] \notin {"idle", "find", "bind"} /\ Leave(p)

-----------------------------------------------------------------------------
(* Unlink.                                                                 *)

\* Mutant of KeepsACredential: the link that goes away is counted as the one
\* that stays.
KeepsTheLink(u, f) == (Live(u) /\ person[u].password) \/ Linked(u) = {} \/ f \in Linked(u)

\* keepsACredential: a password, or another link that signs the person in, or no
\* link that does anyway.
KeepsACredential(u, f) ==
    \/ Live(u) /\ person[u].password
    \/ Linked(u) = {}
    \/ \E g \in Linked(u) : g # f

AskUnlink(p) ==
    /\ pc[p] = "idle"
    /\ \E u \in Users, f \in Feds :
        /\ Live(u) /\ KeepsACredential(u, f)
        /\ Go(p, "unlink", [NoReq EXCEPT !.user = u, !.fed = f])

DeleteLink(p) ==
    /\ pc[p] = "unlink"
    /\ LET q == req[p]
           gone == {l \in links : l.user = q.user /\ l.fed = q.fed}
       IN  IF gone = {} THEN Leave(p)
           ELSE /\ links' = links \ gone
                /\ stale' = (stale \cup {o \in Procs : pc[o] # "idle" /\ req[o].fed = q.fed}) \ {p}
                /\ Move(p, "idle", NoReq)
                /\ UNCHANGED <<fed, claim, person, twin>>

-----------------------------------------------------------------------------
(* The administrators.                                                     *)

\* Claim: a federation's claims are what the body names, and one that another
\* federation holds refuses the write.
Claimed(f, domains) ==
    [d \in Domains |-> IF d \in domains THEN f ELSE IF claim[d] = f THEN None ELSE claim[d]]

WriteFederation(f, state, domains) ==
    /\ \A d \in domains : claim[d] \in {f, None}
    /\ fed' = [fed EXCEPT ![f] = state]
    /\ claim' = Claimed(f, domains)
    /\ Outdates([p \in Procs |-> req[p].fed = f /\ fed[f] # state])
    /\ UNCHANGED <<directory, person, links, twin, pc, req>>

CreateFederation(f) ==
    /\ fed[f] = None
    /\ \E state \in {"active", "inactive"}, domains \in SUBSET Domains :
        WriteFederation(f, state, domains)

UpdateFederation(f) ==
    /\ fed[f] \in {"active", "inactive"}
    /\ \E state \in {"active", "inactive"}, domains \in SUBSET Domains :
        WriteFederation(f, state, domains)

\* The claims go with the row. The links stay.
DeleteFederation(f) == fed[f] \in {"active", "inactive"} /\ WriteFederation(f, "deleted", {})

WritePerson(u, row) ==
    /\ person' = [person EXCEPT ![u] = row]
    /\ UNCHANGED <<directory, fed, claim, links, history, pc, req>>

InsertPerson(who, password, state) ==
    /\ NextId \in Users /\ ~NameTaken(who.name)
    /\ WritePerson(NextId, NewPerson(who, password, state))

CreateUser == \E who \in Bodies : InsertPerson(who, TRUE, "active")

\* An invited person has no password, and an administrator may activate them.
Invite == \E who \in Bodies : InsertPerson(who, FALSE, "initial")

\* Activate and Deactivate.
SetState(u) ==
    /\ Live(u)
    /\ \E state \in {"active", "inactive"} \ {person[u].state} :
        WritePerson(u, [person[u] EXCEPT !.state = state])

SoftDelete(u) == Live(u) /\ WritePerson(u, [person[u] EXCEPT !.state = "deleted"])

\* Somebody renames, removes or adds an entry of a directory.
DirectoryChanges(f, e) ==
    /\ \E shape \in Shapes \cup {None} : directory' = [directory EXCEPT ![f][e] = shape]
    /\ UNCHANGED <<rows, history, pc, req>>

Next ==
    \/ CreateUser
    \/ Invite
    \/ \E u \in Users : SetState(u) \/ SoftDelete(u)
    \/ \E f \in Feds :
        \/ CreateFederation(f)
        \/ UpdateFederation(f)
        \/ DeleteFederation(f)
        \/ f \in Peopled /\ \E e \in Entries : DirectoryChanges(f, e)
    \/ \E p \in Procs :
        \/ Identify(p)
        \/ Resolve(p)
        \/ FindFederation(p)
        \/ Bind(p)
        \/ OverBudget(p)
        \/ Unavailable(p)
        \/ FindLink(p)
        \/ CanSignIn(p)
        \/ HoldsNoLink(p)
        \/ Provision(p)
        \/ HeldAlready(p)
        \/ CreatePerson(p)
        \/ Enter(p)
        \/ Abandon(p)
        \/ AskUnlink(p)
        \/ DeleteLink(p)

Spec == Init /\ [][Next]_vars

-----------------------------------------------------------------------------
(* Properties.                                                             *)

Enters(p) == pc[p] # "in" /\ pc'[p] = "in"

\* "The sign-in never carries on as somebody the proof did not name": the entry
\* that was proved and the person it signs in as are linked with each other, if
\* either is linked in this directory, whatever names the directory handed on
\* and whatever form was typed. A request whose federation was switched, or that
\* a link of its directory came or went under, is exempt.
ProofNamesPerson ==
    [][\A p \in Procs \ stale : Enters(p) =>
          \A l \in links' : l.fed = req'[p].fed =>
              (l.entry = req'[p].entry <=> l.user = req'[p].user)]_vars

\* "The tenant then holds two rows for one person ... and the offboarding is
\* undone": nobody a directory brings in shares an identifier with an older row,
\* whatever became of that row, unless a row was written between the read and
\* the create.
OffboardedStaysOut ==
    \A l \in links, u \in Rows : u < l.user /\ l.user \notin twin =>
        FormsOf(person[u]) \cap FormsOf(person[l.user]) = {}

\* A person without a password loses no link that signs them in, whatever is
\* linked, switched and renamed before. A federation that was switched on
\* between the check and the delete is exempt.
ACredentialStays ==
    [][\A l \in links : l \notin links' =>
          \/ person[l.user].password
          \/ ~Serves(l.fed)
          \/ \E p \in stale : pc[p] = "unlink" /\ req[p].fed = l.fed]_vars

=============================================================================

--------------------------- MODULE Federation_proofs ---------------------------
(***************************************************************************)
(* The sign-ins through a directory, proved for any number of people,      *)
(* directories, entries and requests: a proof signs in the person its      *)
(* entry is linked with, nobody offboarded is created again, and nobody    *)
(* loses the only link that signs them in. Each decision rests on reads    *)
(* some steps before the write, so the invariant says what a request still *)
(* knows of links and federations that no other request touched meanwhile, *)
(* and what it knows whatever they did.                                    *)
(***************************************************************************)
EXTENDS Federation, FiniteSetTheorems, TLAPS

-----------------------------------------------------------------------------
(* The invariant.                                                          *)

Typed ==
    /\ directory \in [Feds -> [Entries -> Shapes \cup {None}]]
    /\ fed \in [Feds -> {None, "active", "inactive", "deleted"}]
    /\ claim \in [Domains -> Feds \cup {None}]
    /\ person \in [Users -> Person \cup {None}]
    /\ links \subseteq Link
    /\ twin \subseteq Users /\ stale \subseteq Procs
    /\ pc \in [Procs -> PCs] /\ req \in [Procs -> Req]

\* The rows of users are numbered as they are written, and none goes away.
Numbered == \E n \in 0 .. MaxUsers : Rows = 1 .. n

NamesUnique ==
    \A u, v \in Users : Live(u) /\ Live(v) /\ person[u].name = person[v].name => u = v

\* The only writer of links creates the person too, so each has one at most.
LinksFit ==
    /\ \A l \in links : l.user \in Rows
    /\ \A l, k \in links : l.user = k.user => l = k
    /\ \A l, k \in links : l.fed = k.fed /\ l.entry = k.entry => l = k

\* What the local variables of a request are where it stands.
BoundPCs == {"link", "can", "holds", "provision", "held", "create", "in"}

Fits(w, q) ==
    /\ w \in SignInPCs => q.typed \in Forms
    /\ w \in SignInPCs \ {"resolve"} => q.fed \in Feds
    /\ w \in BoundPCs => q.entry \in Entries /\ q.as \in Shapes
    /\ w \in {"can", "holds", "in"} => q.user # None
    /\ w \in {"held", "create"} => q.as.name # None
    /\ w = "unlink" => q.user \in Rows /\ q.fed \in Feds

\* The rows heldAlready read share no identifier with the entry.
HeldNone(w, q) ==
    w = "create" => \A u \in 1 .. q.seen : u \in Rows /\ FormsOf(person[u]) \cap FormsOf(q.as) = {}

\* What a request knows unless somebody outdated it.
Knows(w, q) ==
    /\ w \in BoundPCs \cup {"bind"} => Serves(q.fed)
    /\ w = "can" => \E l \in Of(q.fed, q.entry) : l.user = q.user
    /\ w = "holds" => Of(q.fed, q.entry) = {}
    /\ w = "unlink" => \A l \in links : l.user = q.user /\ l.fed = q.fed =>
                          person[l.user].password \/ ~Serves(q.fed)

RequestsFit == \A p \in Procs : Fits(pc[p], req[p]) /\ HeldNone(pc[p], req[p])

RequestsKnow == \A p \in Procs \ stale : Knows(pc[p], req[p])

IInv ==
    /\ Typed
    /\ Numbered /\ NamesUnique /\ LinksFit
    /\ RequestsFit /\ RequestsKnow
    /\ OffboardedStaysOut

USE CountAssumption, BodyAssumption, ShapeAssumption, NoRowAssumption

-----------------------------------------------------------------------------
(* The helpers.                                                            *)

LEMMA InitHolds == Init => IInv
<1> SUFFICES ASSUME Init PROVE IInv
  OBVIOUS
<1>1. Typed
  BY DEF Init, Typed, PCs, SignInPCs, Req, NoReq
<1>2. Numbered
  <2>1. Rows = {}
    BY DEF Init, Rows
  <2>2. 0 \in 0 .. MaxUsers /\ 1 .. 0 = {}
    OBVIOUS
  <2> QED  BY <2>1, <2>2 DEF Numbered
<1>3. NamesUnique /\ LinksFit /\ OffboardedStaysOut
  BY DEF Init, NamesUnique, Live, LinksFit, OffboardedStaysOut
<1>4. RequestsFit /\ RequestsKnow
  BY DEF Init, RequestsFit, RequestsKnow, Fits, HeldNone, Knows, SignInPCs, BoundPCs
<1> QED  BY <1>1, <1>2, <1>3, <1>4 DEF IInv

LEMMA NoReqTyped == NoReq \in Req
  BY DEF NoReq, Req

\* An idle request knows nothing.
LEMMA IdleFits ==
  ASSUME NEW q
  PROVE  Fits("idle", q) /\ HeldNone("idle", q) /\ Knows("idle", q)
  BY DEF Fits, HeldNone, Knows, SignInPCs, BoundPCs

\* One request moves and the others stay.
LEMMA MoveOne ==
  ASSUME Typed, NEW p \in Procs, NEW w \in PCs, NEW r \in Req, Move(p, w, r)
  PROVE  /\ pc' \in [Procs -> PCs] /\ req' \in [Procs -> Req]
         /\ pc'[p] = w /\ req'[p] = r
         /\ \A o \in Procs \ {p} : pc'[o] = pc[o] /\ req'[o] = req[o]
         /\ UNCHANGED directory
  BY DEF Typed, Move

\* The next row is a new one.
LEMMA NextIsNew ==
  ASSUME Numbered
  PROVE  /\ \E n \in 0 .. MaxUsers : Rows = 1 .. n /\ Cardinality(Rows) = n /\ NextId = n + 1
         /\ NextId \notin Rows
<1>1. PICK n \in 0 .. MaxUsers : Rows = 1 .. n
  BY DEF Numbered
<1>2. Cardinality(1 .. n) = n
  BY FS_Interval
<1>3. NextId = n + 1
  BY <1>1, <1>2 DEF NextId
<1> QED  BY <1>1, <1>2, <1>3

\* One federation of several, or none.
LEMMA SoleOne ==
  ASSUME NEW feds
  PROVE  Sole(feds) = None \/ Sole(feds) \in feds
<1>1. CASE Cardinality(feds) = 1
  <2>1. feds # {}
    BY <1>1, FS_EmptySet
  <2>2. Id(feds) \in feds
    BY <2>1 DEF Id
  <2> QED  BY <1>1, <2>2 DEF Sole
<1> QED  BY <1>1 DEF Sole

LEMMA RouteTyped ==
  ASSUME Typed, NEW q \in Req
  PROVE  Route(q) \in Feds \cup {None}
<1>1. ASSUME NEW form \in Forms \cup {None} PROVE Claimant(form) \in Feds \cup {None}
  BY DomainAssumption DEF Claimant, Typed
<1>2. ASSUME NEW u PROVE Sole(Linked(u)) \in Feds \cup {None}
  BY SoleOne DEF Linked
<1>3. Sole(ActiveIDs) \in Feds \cup {None}
  BY SoleOne DEF ActiveIDs
<1> QED  BY <1>1, <1>2, <1>3 DEF Route, Req

-----------------------------------------------------------------------------
(* What a step may keep, by what it writes.                                *)

\* A request goes on.
LEMMA GoKeeps ==
  ASSUME IInv, NEW p \in Procs, NEW w \in PCs, NEW r \in Req, Go(p, w, r),
         Fits(w, r), HeldNone(w, r), p \notin stale => Knows(w, r)
  PROVE  IInv'
<1>1. /\ pc' \in [Procs -> PCs] /\ req' \in [Procs -> Req]
      /\ pc'[p] = w /\ req'[p] = r
      /\ \A o \in Procs \ {p} : pc'[o] = pc[o] /\ req'[o] = req[o]
      /\ UNCHANGED directory
  BY MoveOne DEF IInv, Go
<1>2. UNCHANGED <<fed, claim, person, links, twin, stale>>
  BY DEF Go, rows, history
<1>3. Typed'
  BY <1>1, <1>2 DEF IInv, Typed
<1>4. (Numbered /\ NamesUnique /\ LinksFit /\ OffboardedStaysOut)'
  BY <1>2 DEF IInv, Numbered, NamesUnique, LinksFit, OffboardedStaysOut, Live, Rows
<1>5. \A o \in Procs : Fits(pc'[o], req'[o]) /\ HeldNone(pc'[o], req'[o])
  BY <1>1 DEF IInv, RequestsFit
<1>6. \A o \in Procs \ stale : Knows(pc'[o], req'[o])
  BY <1>1 DEF IInv, RequestsKnow
<1>7. RequestsFit' /\ RequestsKnow'
  BY <1>2, <1>5, <1>6 DEF RequestsFit, RequestsKnow, Fits, HeldNone, Knows, Rows, Serves, Of
<1> QED  BY <1>3, <1>4, <1>7 DEF IInv

\* A request ends.
LEMMA LeaveKeeps ==
  ASSUME IInv, NEW p \in Procs, Leave(p)
  PROVE  IInv'
<1>1. /\ pc' \in [Procs -> PCs] /\ req' \in [Procs -> Req]
      /\ pc'[p] = "idle" /\ req'[p] = NoReq
      /\ \A o \in Procs \ {p} : pc'[o] = pc[o] /\ req'[o] = req[o]
      /\ UNCHANGED directory
  BY MoveOne, NoReqTyped DEF IInv, Leave, PCs
<1>2. UNCHANGED <<fed, claim, person, links, twin>> /\ stale' = stale \ {p}
  BY DEF Leave, rows
<1>3. Typed'
  BY <1>1, <1>2 DEF IInv, Typed
<1>4. (Numbered /\ NamesUnique /\ LinksFit /\ OffboardedStaysOut)'
  BY <1>2 DEF IInv, Numbered, NamesUnique, LinksFit, OffboardedStaysOut, Live, Rows
<1>5. \A o \in Procs : Fits(pc'[o], req'[o]) /\ HeldNone(pc'[o], req'[o])
  BY <1>1, IdleFits DEF IInv, RequestsFit
<1>6. \A o \in Procs \ stale' : Knows(pc'[o], req'[o])
  BY <1>1, <1>2, IdleFits DEF IInv, RequestsKnow
<1>7. RequestsFit' /\ RequestsKnow'
  BY <1>2, <1>5, <1>6 DEF RequestsFit, RequestsKnow, Fits, HeldNone, Knows, Rows, Serves, Of
<1> QED  BY <1>3, <1>4, <1>7 DEF IInv

\* An administrator writes a person: a new row, or another state of one.
LEMMA PersonKeeps ==
  ASSUME IInv, NEW u \in Users, NEW row \in Person, WritePerson(u, row),
         \/ u = NextId /\ ~NameTaken(row.name)
         \/ /\ Live(u) /\ row.name = person[u].name /\ row.email = person[u].email
            /\ row.password = person[u].password
  PROVE  IInv'
<1>1. /\ person' = [person EXCEPT ![u] = row]
      /\ UNCHANGED <<directory, fed, claim, links, twin, stale, pc, req>>
  BY DEF WritePerson, history
<1>2. Typed /\ Numbered
  BY DEF IInv
<1>3. person'[u] = row /\ row # None /\ \A v \in Users \ {u} : person'[v] = person[v]
  BY <1>1, <1>2 DEF Typed
<1>4. Typed'
  BY <1>1, <1>2 DEF Typed
<1>5. Rows \subseteq Rows' /\ Rows' = Rows \cup {u}
  BY <1>3 DEF Rows
<1>6. Numbered'
  <2>1. PICK n \in 0 .. MaxUsers : Rows = 1 .. n /\ NextId = n + 1
    BY <1>2, NextIsNew
  <2>2. CASE u = NextId
    <3>1. Rows' = 1 .. (n + 1) /\ n + 1 \in 0 .. MaxUsers
      BY <1>5, <2>1, <2>2 DEF Users
    <3> QED  BY <3>1 DEF Numbered
  <2>3. CASE Live(u)
    <3>1. Rows' = Rows
      BY <1>5, <2>3 DEF Live, Rows
    <3> QED  BY <2>1, <3>1 DEF Numbered
  <2> QED  BY <2>2, <2>3
<1>7. NamesUnique'
  <2>1. ASSUME NEW v \in Users \ {u}, Live(v)', Live(u)' PROVE person'[v].name # person'[u].name
    <3>1. Live(v) /\ person'[v] = person[v]
      BY <1>3, <2>1 DEF Live
    <3>2. CASE u = NextId /\ ~NameTaken(row.name)
      BY <1>3, <3>1, <3>2 DEF NameTaken
    <3>3. CASE Live(u) /\ row.name = person[u].name
      BY <1>3, <3>1, <3>3 DEF IInv, NamesUnique
    <3> QED  BY <3>2, <3>3
  <2>2. ASSUME NEW v \in Users \ {u}, NEW x \in Users \ {u}, Live(v)', Live(x)',
               person'[v].name = person'[x].name
        PROVE  v = x
    BY <1>3, <2>2 DEF IInv, NamesUnique, Live
  <2> QED  BY <2>1, <2>2 DEF NamesUnique
<1>8. \A v \in Rows : /\ FormsOf(person'[v]) = FormsOf(person[v])
                      /\ person'[v].password = person[v].password
  <2>1. u = NextId => u \notin Rows
    BY <1>2, NextIsNew
  <2> QED  BY <1>3, <2>1 DEF Rows, FormsOf
<1>9. LinksFit'
  BY <1>1, <1>5 DEF IInv, LinksFit
<1>10. OffboardedStaysOut'
  <2>1. ASSUME NEW l \in links, NEW v \in Rows', v < l.user, l.user \notin twin
        PROVE  FormsOf(person'[v]) \cap FormsOf(person'[l.user]) = {}
    <3>1. l.user \in Rows
      BY DEF IInv, LinksFit
    <3>2. v \in Rows
      <4>1. PICK n \in 0 .. MaxUsers : Rows = 1 .. n
        BY <1>2 DEF Numbered
      <4> QED  BY <2>1, <3>1, <4>1 DEF Rows, Users
    <3> QED  BY <1>8, <2>1, <3>1, <3>2 DEF IInv, OffboardedStaysOut
  <2> QED  BY <1>1, <2>1 DEF OffboardedStaysOut
<1>11. RequestsFit'
  <2>1. ASSUME NEW p \in Procs PROVE Fits(pc[p], req[p])' /\ HeldNone(pc[p], req[p])'
    <3>1. Fits(pc[p], req[p]) /\ HeldNone(pc[p], req[p])
      BY DEF IInv, RequestsFit
    <3> QED  BY <1>1, <1>5, <1>8, <3>1 DEF Fits, HeldNone
  <2> QED  BY <2>1 DEF RequestsFit
<1>12. RequestsKnow'
  <2>1. ASSUME NEW p \in Procs \ stale PROVE Knows(pc[p], req[p])'
    <3>1. Knows(pc[p], req[p]) /\ \A l \in links : l.user \in Rows
      BY DEF IInv, RequestsKnow, LinksFit
    <3> QED  BY <1>1, <1>8, <3>1 DEF Knows, Serves, Of
  <2> QED  BY <1>1, <2>1 DEF RequestsKnow
<1> QED  BY <1>4, <1>6, <1>7, <1>9, <1>10, <1>11, <1>12 DEF IInv

-----------------------------------------------------------------------------
(* The sign-in.                                                            *)

\* What a request brings to its next step.
LEMMA OwnFacts ==
  ASSUME IInv, NEW p \in Procs
  PROVE  /\ req[p] \in Req /\ Typed
         /\ Fits(pc[p], req[p]) /\ HeldNone(pc[p], req[p])
         /\ p \notin stale => Knows(pc[p], req[p])
  BY DEF IInv, Typed, RequestsFit, RequestsKnow

LEMMA IdentifyKeeps ==
  ASSUME IInv, NEW p \in Procs, Identify(p)
  PROVE  IInv'
<1>1. PICK form \in Forms : \E u \in IF Named(form) = {} THEN {None} ELSE Named(form) :
        Go(p, "resolve", [NoReq EXCEPT !.typed = form, !.user = u,
                             !.email = IF u = None THEN None ELSE person[u].email])
  BY DEF Identify
<1>2. PICK u \in Users \cup {None} :
        /\ u # None => Active(u)
        /\ Go(p, "resolve", [NoReq EXCEPT !.typed = form, !.user = u,
                                !.email = IF u = None THEN None ELSE person[u].email])
  <2>1. None \notin Users
    BY DEF Users
  <2> QED  BY <1>1, <2>1 DEF Named
<1>3. PICK e \in Forms \cup {None} : e = IF u = None THEN None ELSE person[u].email
  BY <1>2 DEF Active, IInv, Typed, Person
<1>4. PICK r : r = [NoReq EXCEPT !.typed = form, !.user = u, !.email = e]
  OBVIOUS
<1>5. r \in Req /\ r.typed = form
  <2>1. form \in Forms /\ u \in Users \cup {None} /\ e \in Forms \cup {None}
    BY <1>1, <1>2, <1>3
  <2>2. 0 \in 0 .. MaxUsers
    OBVIOUS
  <2> QED  BY <1>4, <2>1, <2>2 DEF Req, NoReq
<1>6. Go(p, "resolve", r)
  BY <1>2, <1>3, <1>4
<1>7. Fits("resolve", r) /\ HeldNone("resolve", r) /\ Knows("resolve", r)
  BY <1>5 DEF Fits, HeldNone, Knows, SignInPCs, BoundPCs
<1> QED  BY <1>5, <1>6, <1>7, GoKeeps DEF PCs, SignInPCs

\* The federation is found and bound: from here on the request knows that it
\* signs people in.
LEMMA BindKeeps ==
  ASSUME IInv, NEW p \in Procs, Resolve(p) \/ FindFederation(p) \/ Bind(p)
  PROVE  IInv'
<1> DEFINE q == req[p]
<1>1. q \in Req /\ Typed /\ Fits(pc[p], q) /\ (p \notin stale => Knows(pc[p], q))
  BY OwnFacts
<1>2. CASE Resolve(p) /\ ~Leave(p)
  <2>1. pc[p] = "resolve" /\ Route(q) # None /\ Go(p, "find", [q EXCEPT !.fed = Route(q)])
    BY <1>2 DEF Resolve
  <2>2. PICK f \in Feds : f = Route(q)
    BY <1>1, <2>1, RouteTyped
  <2>3. PICK r : r = [q EXCEPT !.fed = f]
    OBVIOUS
  <2>4. r \in Req /\ r.typed = q.typed /\ r.fed = f
    BY <1>1, <2>3 DEF Req
  <2>5. Fits("find", r) /\ HeldNone("find", r) /\ Knows("find", r)
    BY <1>1, <2>1, <2>4 DEF Fits, HeldNone, Knows, SignInPCs, BoundPCs
  <2> QED  BY <2>1, <2>2, <2>3, <2>4, <2>5, GoKeeps DEF PCs, SignInPCs
<1>3. CASE FindFederation(p) /\ ~Leave(p)
  <2>1. pc[p] = "find" /\ Serves(q.fed) /\ Go(p, "bind", q)
    BY <1>3 DEF FindFederation
  <2>2. Fits("bind", q) /\ HeldNone("bind", q) /\ Knows("bind", q)
    BY <1>1, <2>1 DEF Fits, HeldNone, Knows, SignInPCs, BoundPCs
  <2> QED  BY <1>1, <2>1, <2>2, GoKeeps DEF PCs, SignInPCs
<1>4. CASE Bind(p) /\ ~Leave(p)
  <2>1. PICK found : found = Matches(q.fed, q.typed)
    OBVIOUS
  <2>2. /\ pc[p] = "bind" /\ Cardinality(found) = 1
        /\ Go(p, "link", [q EXCEPT !.entry = Id(found), !.as = IdentityOf(q.fed, Id(found))])
    BY <1>4, <2>1 DEF Bind
  <2>3. found # {}
    <3>1. Cardinality(found) = 1
      BY <2>2
    <3> QED  BY <3>1, FS_EmptySet
  <2>4. PICK e \in found : e = Id(found)
    BY <2>3 DEF Id
  <2>5. q.fed \in Feds /\ q.typed \in Forms
    BY <1>1, <2>2 DEF Fits, SignInPCs
  <2>6. e \in Entries /\ directory[q.fed][e] \in Shapes
    BY <1>1, <2>1, <2>5 DEF Matches, Typed
  <2>7. PICK as \in Shapes : as = IdentityOf(q.fed, e)
    BY <2>6 DEF IdentityOf
  <2>8. PICK r : r = [q EXCEPT !.entry = e, !.as = as]
    OBVIOUS
  <2>9. r \in Req /\ r.typed = q.typed /\ r.fed = q.fed /\ r.entry = e /\ r.as = as
    BY <1>1, <2>6, <2>8 DEF Req
  <2>10. Go(p, "link", r)
    BY <2>2, <2>4, <2>7, <2>8
  <2>11. Fits("link", r) /\ HeldNone("link", r)
    BY <2>5, <2>6, <2>9 DEF Fits, HeldNone, SignInPCs, BoundPCs
  <2>12. p \notin stale => Knows("link", r)
    BY <1>1, <2>2, <2>9 DEF Knows, BoundPCs
  <2> QED  BY <2>9, <2>10, <2>11, <2>12, GoKeeps DEF PCs, SignInPCs
<1> QED  BY <1>2, <1>3, <1>4, LeaveKeeps

\* PersonOf reads the links of the entry, and who is linked.
LEMMA PersonOfKeeps ==
  ASSUME IInv, NEW p \in Procs, FindLink(p) \/ CanSignIn(p) \/ HoldsNoLink(p)
  PROVE  IInv'
<1> DEFINE q == req[p]
<1>1. q \in Req /\ Typed /\ Fits(pc[p], q) /\ (p \notin stale => Knows(pc[p], q))
  BY OwnFacts
<1>2. CASE FindLink(p) /\ Of(q.fed, q.entry) # {}
  <2>1. PICK l : l = Id(Of(q.fed, q.entry))
    OBVIOUS
  <2>2. l \in Of(q.fed, q.entry) /\ l \in links
    BY <1>2, <2>1 DEF Id, Of
  <2>3. l.user \in Users
    BY <1>1, <2>2 DEF Typed, Link
  <2>4. PICK r : r = [q EXCEPT !.user = l.user]
    OBVIOUS
  <2>5. /\ r \in Req /\ r.typed = q.typed /\ r.fed = q.fed /\ r.entry = q.entry
        /\ r.as = q.as /\ r.user = l.user
    BY <1>1, <2>3, <2>4 DEF Req
  <2>6. pc[p] = "link" /\ Go(p, "can", r)
    BY <1>2, <2>1, <2>4 DEF FindLink
  <2>7. r.user # None
    BY <2>3, <2>5 DEF Users
  <2>8. Fits("can", r) /\ HeldNone("can", r)
    BY <1>1, <2>5, <2>6, <2>7 DEF Fits, HeldNone, SignInPCs, BoundPCs
  <2>9. p \notin stale => Knows("can", r)
    BY <1>1, <2>2, <2>5, <2>6 DEF Knows, BoundPCs
  <2> QED  BY <2>5, <2>6, <2>8, <2>9, GoKeeps DEF PCs, SignInPCs
<1>3. CASE FindLink(p) /\ Of(q.fed, q.entry) = {}
  <2>1. PICK w \in {"holds", "provision"} : Go(p, w, q) /\ (w = "holds" => q.user # None)
    BY <1>3 DEF FindLink
  <2>2. pc[p] = "link"
    BY <1>3 DEF FindLink
  <2>3. Fits(w, q) /\ HeldNone(w, q)
    BY <1>1, <2>1, <2>2 DEF Fits, HeldNone, SignInPCs, BoundPCs
  <2>4. p \notin stale => Knows(w, q)
    BY <1>1, <1>3, <2>1, <2>2 DEF Knows, BoundPCs
  <2> QED  BY <1>1, <2>1, <2>3, <2>4, GoKeeps DEF PCs, SignInPCs
<1>4. CASE (CanSignIn(p) \/ HoldsNoLink(p)) /\ ~Leave(p)
  <2>1. pc[p] \in {"can", "holds"} /\ Go(p, "in", q)
    BY <1>4 DEF CanSignIn, HoldsNoLink
  <2>2. Fits("in", q) /\ HeldNone("in", q)
    BY <1>1, <2>1 DEF Fits, HeldNone, SignInPCs, BoundPCs
  <2>3. p \notin stale => Knows("in", q)
    BY <1>1, <2>1 DEF Knows, BoundPCs
  <2> QED  BY <1>1, <2>1, <2>2, <2>3, GoKeeps DEF PCs, SignInPCs
<1> QED  BY <1>2, <1>3, <1>4, LeaveKeeps DEF FindLink

LEMMA ProvisionKeeps ==
  ASSUME IInv, NEW p \in Procs, Provision(p) \/ HeldAlready(p)
  PROVE  IInv'
<1> DEFINE q == req[p]
<1>1. q \in Req /\ Typed /\ Fits(pc[p], q) /\ (p \notin stale => Knows(pc[p], q))
  BY OwnFacts
<1>2. CASE Provision(p) /\ ~Leave(p)
  <2>1. pc[p] = "provision" /\ q.as.name # None /\ Go(p, "held", q)
    BY <1>2 DEF Provision
  <2>2. Fits("held", q) /\ HeldNone("held", q)
    BY <1>1, <2>1 DEF Fits, HeldNone, SignInPCs, BoundPCs
  <2>3. p \notin stale => Knows("held", q)
    BY <1>1, <2>1 DEF Knows, BoundPCs
  <2> QED  BY <1>1, <2>1, <2>2, <2>3, GoKeeps DEF PCs, SignInPCs
<1>3. CASE HeldAlready(p) /\ ~Leave(p)
  <2>1. /\ pc[p] = "held" /\ ~Held({q.typed} \cup FormsOf(q.as))
        /\ Go(p, "create", [q EXCEPT !.seen = Cardinality(Rows)])
    BY <1>3 DEF HeldAlready
  <2>2. PICK n \in 0 .. MaxUsers : Rows = 1 .. n /\ Cardinality(Rows) = n
    BY NextIsNew DEF IInv
  <2>3. PICK r : r = [q EXCEPT !.seen = n]
    OBVIOUS
  <2>4. /\ r \in Req /\ r.typed = q.typed /\ r.fed = q.fed /\ r.entry = q.entry
        /\ r.as = q.as /\ r.seen = n
    BY <1>1, <2>2, <2>3 DEF Req
  <2>5. Fits("create", r)
    BY <1>1, <2>1, <2>4 DEF Fits, SignInPCs, BoundPCs
  <2>6. HeldNone("create", r)
    BY <2>1, <2>2, <2>4 DEF HeldNone, Held
  <2>7. p \notin stale => Knows("create", r)
    BY <1>1, <2>1, <2>4 DEF Knows, BoundPCs
  <2> QED  BY <2>1, <2>2, <2>3, <2>4, <2>5, <2>6, <2>7, GoKeeps DEF PCs, SignInPCs
<1> QED  BY <1>2, <1>3, LeaveKeeps

\* The first bind: a new row, its link, and the requests of the same entry
\* outdated.
LEMMA CreateKeeps ==
  ASSUME IInv, NEW p \in Procs, CreatePerson(p)
  PROVE  IInv'
<1> DEFINE q == req[p]
           new == NextId
<1>1. q \in Req /\ Typed /\ Fits(pc[p], q) /\ HeldNone(pc[p], q) /\ (p \notin stale => Knows(pc[p], q))
  BY OwnFacts
<1>2. CASE Leave(p)
  BY <1>2, LeaveKeeps
<1>3. CASE ~Leave(p)
  <2>1. /\ pc[p] = "create" /\ NextId \in Users
        /\ ~NameTaken(q.as.name) /\ Of(q.fed, q.entry) = {}
        /\ person' = [person EXCEPT ![NextId] = NewPerson(q.as, FALSE, "active")]
        /\ links' = InsertLink(q, NextId)
        /\ twin' = IF q.seen < Cardinality(Rows) THEN twin \cup {NextId} ELSE twin
        /\ Outdates([o \in Procs |-> req[o].fed = q.fed /\ req[o].entry = q.entry /\ o # p])
        /\ Move(p, "in", [q EXCEPT !.user = NextId])
        /\ UNCHANGED <<fed, claim>>
    BY <1>3 DEF CreatePerson
  <2>2. PICK n \in 0 .. MaxUsers : Rows = 1 .. n /\ Cardinality(Rows) = n /\ NextId = n + 1
    BY NextIsNew DEF IInv
  <2>3. NextId \notin Rows /\ NextId # None
    BY <2>1, NextIsNew DEF IInv, Users
  <2>4. q.typed \in Forms /\ q.fed \in Feds /\ q.entry \in Entries /\ q.as \in Shapes /\ q.as.name # None
    BY <1>1, <2>1 DEF Fits, SignInPCs, BoundPCs
  <2>5. PICK row : row = NewPerson(q.as, FALSE, "active")
    OBVIOUS
  <2>6. row \in Person /\ row.name = q.as.name /\ FormsOf(row) = FormsOf(q.as)
    BY <2>4, <2>5 DEF NewPerson, Person, FormsOf
  <2>7. PICK k : k = [fed |-> q.fed, entry |-> q.entry, user |-> NextId]
    OBVIOUS
  <2>8. /\ k \in Link /\ k.fed = q.fed /\ k.entry = q.entry /\ k.user = NextId
        /\ links' = links \cup {k}
    BY <2>1, <2>4, <2>7 DEF Link, InsertLink
  <2>9. PICK r : r = [q EXCEPT !.user = NextId]
    OBVIOUS
  <2>10. /\ r \in Req /\ r.typed = q.typed /\ r.fed = q.fed /\ r.entry = q.entry
         /\ r.as = q.as /\ r.user = NextId
    BY <1>1, <2>1, <2>9 DEF Req
  <2>11. Move(p, "in", r)
    BY <2>1, <2>9
  <2>12. /\ pc' \in [Procs -> PCs] /\ req' \in [Procs -> Req]
         /\ pc'[p] = "in" /\ req'[p] = r
         /\ \A o \in Procs \ {p} : pc'[o] = pc[o] /\ req'[o] = req[o]
         /\ UNCHANGED directory
    BY <1>1, <2>10, <2>11, MoveOne DEF PCs, SignInPCs
  <2>13. /\ person'[NextId] = row
         /\ \A v \in Users \ {NextId} : person'[v] = person[v]
         /\ person' \in [Users -> Person \cup {None}]
    BY <1>1, <2>1, <2>5, <2>6 DEF Typed
  <2>14. Rows' = Rows \cup {NextId}
    BY <2>1, <2>6, <2>13 DEF Rows
  <2>15. \A v \in Rows : person'[v] = person[v]
    BY <2>3, <2>13 DEF Rows
  <2>16. /\ stale \subseteq stale' /\ stale' \subseteq Procs
         /\ \A o \in Procs \ {p} : pc[o] # "idle" /\ req[o].fed = q.fed /\ req[o].entry = q.entry => o \in stale'
         /\ p \in stale' => p \in stale
    BY <1>1, <2>1 DEF Outdates, Typed
  <2>17. Typed'
    <3>1. links' \subseteq Link
      BY <1>1, <2>8 DEF Typed
    <3>2. twin' \subseteq Users
      BY <1>1, <2>1 DEF Typed
    <3> QED  BY <1>1, <2>1, <2>12, <2>13, <2>16, <3>1, <3>2 DEF Typed
  <2>18. Numbered'
    <3>1. Rows' = 1 .. (n + 1) /\ n + 1 \in 0 .. MaxUsers
      BY <2>1, <2>2, <2>14 DEF Users
    <3> QED  BY <3>1 DEF Numbered
  <2>19. NamesUnique'
    <3>1. ASSUME NEW v \in Users \ {NextId}, Live(v)'
          PROVE  Live(v) /\ person'[v] = person[v] /\ person'[v].name # row.name
      BY <2>1, <2>6, <2>13, <3>1 DEF Live, NameTaken
    <3>2. ASSUME NEW v \in Users, NEW x \in Users, Live(v)', Live(x)', person'[v].name = person'[x].name
          PROVE  v = x
      BY <2>13, <3>1, <3>2 DEF IInv, NamesUnique
    <3> QED  BY <3>2 DEF NamesUnique
  <2>20. LinksFit'
    <3>1. \A l \in links : l.user \in Rows
      BY DEF IInv, LinksFit
    <3>2. \A l \in links : l.user # k.user /\ ~(l.fed = k.fed /\ l.entry = k.entry)
      BY <2>1, <2>3, <2>8, <3>1 DEF Of
    <3> QED  BY <2>8, <2>14, <3>1, <3>2 DEF IInv, LinksFit
  <2>21. OffboardedStaysOut'
    <3>1. ASSUME NEW l \in links', NEW v \in Rows', v < l.user, l.user \notin twin'
          PROVE  FormsOf(person'[v]) \cap FormsOf(person'[l.user]) = {}
      <4>1. CASE l = k
        <5>1. v \in Rows /\ ~(q.seen < n) /\ q.seen \in 0 .. MaxUsers
          BY <1>1, <2>1, <2>2, <2>8, <2>14, <3>1, <4>1 DEF Req
        <5>2. v \in 1 .. q.seen
          BY <2>2, <5>1
        <5>3. FormsOf(person[v]) \cap FormsOf(q.as) = {}
          BY <1>1, <2>1, <5>2 DEF HeldNone
        <5> QED  BY <2>6, <2>8, <2>13, <2>15, <4>1, <5>1, <5>3
      <4>2. CASE l \in links
        <5>1. l.user \in Rows /\ l.user \notin twin
          BY <2>1, <3>1, <4>2 DEF IInv, LinksFit
        <5>2. v \in Rows
          BY <2>2, <2>14, <3>1, <5>1
        <5> QED  BY <2>15, <3>1, <4>2, <5>1, <5>2 DEF IInv, OffboardedStaysOut
      <4> QED  BY <2>8, <4>1, <4>2
    <3> QED  BY <3>1 DEF OffboardedStaysOut
  <2>22. RequestsFit'
    <3>1. ASSUME NEW o \in Procs \ {p} PROVE Fits(pc[o], req[o])' /\ HeldNone(pc[o], req[o])'
      <4>1. Fits(pc[o], req[o]) /\ HeldNone(pc[o], req[o])
        BY DEF IInv, RequestsFit
      <4>2. Fits(pc[o], req[o])'
        BY <2>12, <2>14, <4>1 DEF Fits
      <4>3. HeldNone(pc[o], req[o])'
        BY <2>12, <2>14, <2>15, <4>1 DEF HeldNone
      <4> QED  BY <4>2, <4>3
    <3>2. Fits(pc[p], req[p])' /\ HeldNone(pc[p], req[p])'
      BY <2>3, <2>4, <2>10, <2>12 DEF Fits, HeldNone, SignInPCs, BoundPCs
    <3> QED  BY <3>1, <3>2 DEF RequestsFit
  <2>23. RequestsKnow'
    <3>1. ASSUME NEW o \in Procs \ {p}, o \notin stale' PROVE Knows(pc[o], req[o])'
      <4>1. Knows(pc[o], req[o]) /\ Fits(pc[o], req[o])
        BY <2>16, <3>1 DEF IInv, RequestsFit, RequestsKnow
      <4>2. pc'[o] = pc[o] /\ req'[o] = req[o] /\ UNCHANGED fed
        BY <2>1, <2>12
      <4>3. pc[o] # "idle" => ~(req[o].fed = q.fed /\ req[o].entry = q.entry)
        BY <2>16, <3>1
      <4>4. pc[o] = "holds" => Of(req[o].fed, req[o].entry)' = {}
        BY <2>8, <4>1, <4>2, <4>3 DEF Knows, Of
      <4>5. pc[o] = "can" => (\E l \in Of(req[o].fed, req[o].entry) : l.user = req[o].user)'
        BY <2>8, <4>1, <4>2 DEF Knows, Of
      <4>6. pc[o] = "unlink" => (\A l \in links : l.user = req[o].user /\ l.fed = req[o].fed =>
                                     person[l.user].password \/ ~Serves(req[o].fed))'
        BY <2>3, <2>8, <2>15, <4>1, <4>2 DEF Knows, Fits, Serves
      <4> QED  BY <4>1, <4>2, <4>4, <4>5, <4>6 DEF Knows, Serves
    <3>2. ASSUME p \notin stale' PROVE Knows(pc[p], req[p])'
      BY <1>1, <2>1, <2>10, <2>12, <2>16, <3>2 DEF Knows, Serves, BoundPCs
    <3> QED  BY <3>1, <3>2 DEF RequestsKnow
  <2> QED  BY <2>17, <2>18, <2>19, <2>20, <2>21, <2>22, <2>23 DEF IInv
<1> QED  BY <1>2, <1>3

-----------------------------------------------------------------------------
(* The administrators.                                                     *)

LEMMA AskUnlinkKeeps ==
  ASSUME IInv, NEW p \in Procs, AskUnlink(p)
  PROVE  IInv'
<1>1. PICK u \in Users : \E f \in Feds :
        /\ Live(u) /\ KeepsACredential(u, f)
        /\ Go(p, "unlink", [NoReq EXCEPT !.user = u, !.fed = f])
  BY DEF AskUnlink
<1>2. PICK f \in Feds :
        /\ Live(u) /\ KeepsACredential(u, f)
        /\ Go(p, "unlink", [NoReq EXCEPT !.user = u, !.fed = f])
  BY <1>1
<1>3. PICK r : r = [NoReq EXCEPT !.user = u, !.fed = f]
  OBVIOUS
<1>4. r \in Req /\ r.user = u /\ r.fed = f
  <2>1. 0 \in 0 .. MaxUsers
    OBVIOUS
  <2> QED  BY <1>3, <2>1 DEF Req, NoReq
<1>5. u \in Rows
  BY <1>2 DEF Live, Rows
<1>6. Fits("unlink", r) /\ HeldNone("unlink", r)
  BY <1>4, <1>5 DEF Fits, HeldNone, SignInPCs, BoundPCs
<1>7. ASSUME NEW l \in links, l.user = u, l.fed = f, Serves(f)
      PROVE  person[l.user].password
  <2>1. f \in Linked(u)
    BY <1>7 DEF Linked
  <2>2. \A g \in Linked(u) : g = f
    BY <1>7 DEF Linked, IInv, LinksFit
  <2> QED  BY <1>2, <1>7, <2>1, <2>2 DEF KeepsACredential
<1>8. Knows("unlink", r)
  BY <1>4, <1>7 DEF Knows, BoundPCs
<1>9. "unlink" \in PCs /\ Go(p, "unlink", r)
  BY <1>2, <1>3 DEF PCs
<1> QED  BY <1>4, <1>6, <1>8, <1>9, GoKeeps

LEMMA DeleteLinkKeeps ==
  ASSUME IInv, NEW p \in Procs, DeleteLink(p)
  PROVE  IInv'
<1> DEFINE q == req[p]
<1>1. CASE Leave(p)
  BY <1>1, LeaveKeeps
<1>2. CASE ~Leave(p)
  <2>1. /\ links' = links \ {l \in links : l.user = q.user /\ l.fed = q.fed}
        /\ stale' = (stale \cup {o \in Procs : pc[o] # "idle" /\ req[o].fed = q.fed}) \ {p}
        /\ Move(p, "idle", NoReq)
        /\ UNCHANGED <<fed, claim, person, twin>>
    BY <1>2 DEF DeleteLink
  <2>2. /\ pc' \in [Procs -> PCs] /\ req' \in [Procs -> Req]
        /\ pc'[p] = "idle" /\ req'[p] = NoReq
        /\ \A o \in Procs \ {p} : pc'[o] = pc[o] /\ req'[o] = req[o]
        /\ UNCHANGED directory
    BY <2>1, MoveOne, NoReqTyped DEF IInv, PCs
  <2>3. links' \subseteq links /\ \A l \in links \ links' : l.fed = q.fed
    BY <2>1
  <2>4. Typed'
    BY <2>1, <2>2, <2>3 DEF IInv, Typed
  <2>5. (Numbered /\ NamesUnique /\ LinksFit /\ OffboardedStaysOut)'
    BY <2>1, <2>3 DEF IInv, Numbered, NamesUnique, LinksFit, OffboardedStaysOut, Live, Rows
  <2>6. RequestsFit'
    <3>1. \A o \in Procs : Fits(pc'[o], req'[o]) /\ HeldNone(pc'[o], req'[o])
      BY <2>2, IdleFits DEF IInv, RequestsFit
    <3> QED  BY <2>1, <3>1 DEF RequestsFit, Fits, HeldNone, Rows
  <2>7. RequestsKnow'
    <3>1. ASSUME NEW o \in Procs \ {p}, o \notin stale' PROVE Knows(pc[o], req[o])'
      <4>1. o \notin stale /\ (pc[o] # "idle" => req[o].fed # q.fed)
        BY <2>1, <3>1
      <4>2. Knows(pc[o], req[o]) /\ pc'[o] = pc[o] /\ req'[o] = req[o]
        BY <2>2, <4>1 DEF IInv, RequestsKnow
      <4>3. pc[o] # "idle" => Of(req[o].fed, req[o].entry)' = Of(req[o].fed, req[o].entry)
        BY <2>3, <4>1, <4>2 DEF Of
      <4>4. UNCHANGED <<fed, person>>
        BY <2>1
      <4>5. pc[o] = "unlink" => (\A l \in links : l.user = req[o].user /\ l.fed = req[o].fed =>
                                     person[l.user].password \/ ~Serves(req[o].fed))'
        BY <2>3, <4>2, <4>4 DEF Knows, Serves
      <4> QED  BY <4>2, <4>3, <4>4, <4>5 DEF Knows, Serves
    <3>2. Knows(pc[p], req[p])'
      BY <2>2 DEF Knows, BoundPCs
    <3> QED  BY <3>1, <3>2 DEF RequestsKnow
  <2> QED  BY <2>4, <2>5, <2>6, <2>7 DEF IInv
<1> QED  BY <1>1, <1>2

\* A federation that stops or starts signing people in outdates its requests.
LEMMA FederationKeeps ==
  ASSUME IInv, NEW f \in Feds, NEW state \in {"active", "inactive", "deleted"},
         NEW domains \in SUBSET Domains, WriteFederation(f, state, domains)
  PROVE  IInv'
<1>1. /\ fed' = [fed EXCEPT ![f] = state] /\ claim' = Claimed(f, domains)
      /\ Outdates([p \in Procs |-> req[p].fed = f /\ fed[f] # state])
      /\ UNCHANGED <<directory, person, links, twin, pc, req>>
  BY DEF WriteFederation
<1>2. Typed'
  BY <1>1 DEF IInv, Typed, Claimed, Outdates
<1>3. (Numbered /\ NamesUnique /\ LinksFit /\ OffboardedStaysOut)'
  BY <1>1 DEF IInv, Numbered, NamesUnique, LinksFit, OffboardedStaysOut, Live, Rows
<1>4. RequestsFit'
  BY <1>1 DEF IInv, RequestsFit, Fits, HeldNone, Rows
<1>5. RequestsKnow'
  <2>1. ASSUME NEW o \in Procs, o \notin stale' PROVE Knows(pc[o], req[o])'
    <3>1. o \notin stale /\ (pc[o] # "idle" /\ req[o].fed = f => fed[f] = state)
      BY <1>1, <2>1 DEF Outdates
    <3>2. Knows(pc[o], req[o])
      BY <3>1 DEF IInv, RequestsKnow
    <3>3. \A g : g # f => fed'[g] = fed[g]
      BY <1>1 DEF IInv, Typed
    <3>4. fed'[f] = state
      BY <1>1 DEF IInv, Typed
    <3>5. pc[o] # "idle" => fed'[req[o].fed] = fed[req[o].fed]
      BY <3>1, <3>3, <3>4
    <3> QED  BY <1>1, <3>2, <3>5 DEF Knows, Serves, Of, BoundPCs
  <2> QED  BY <2>1 DEF RequestsKnow
<1> QED  BY <1>2, <1>3, <1>4, <1>5 DEF IInv

LEMMA StoreStays ==
  ASSUME IInv, Typed', UNCHANGED <<fed, person, links, twin, stale, pc, req>>
  PROVE  IInv'
<1>1. (Numbered /\ NamesUnique /\ LinksFit /\ OffboardedStaysOut)'
  BY DEF IInv, Numbered, NamesUnique, LinksFit, OffboardedStaysOut, Live, Rows
<1>2. RequestsFit'
  BY DEF IInv, RequestsFit, Fits, HeldNone, Rows
<1>3. RequestsKnow'
  BY DEF IInv, RequestsKnow, Knows, Serves, Of
<1> QED  BY <1>1, <1>2, <1>3 DEF IInv

LEMMA DirectoryKeeps ==
  ASSUME IInv, NEW f \in Feds, NEW e \in Entries, DirectoryChanges(f, e)
  PROVE  IInv'
<1>1. /\ directory' \in [Feds -> [Entries -> Shapes \cup {None}]]
      /\ UNCHANGED <<fed, claim, person, links, twin, stale, pc, req>>
  BY DEF DirectoryChanges, rows, history, IInv, Typed
<1> QED  BY <1>1, StoreStays DEF IInv, Typed

LEMMA UserKeeps ==
  ASSUME IInv, CreateUser \/ Invite
  PROVE  IInv'
<1>1. PICK who \in Bodies, password \in BOOLEAN, state \in {"active", "initial"} :
        InsertPerson(who, password, state)
  BY DEF CreateUser, Invite
<1>2. PICK row : row = NewPerson(who, password, state)
  OBVIOUS
<1>3. row \in Person /\ row.name = who.name
  <2>1. who.name \in Forms /\ who.email \in Forms \cup {None}
    BY <1>1
  <2> QED  BY <1>1, <1>2, <2>1 DEF NewPerson, Person
<1> QED  BY <1>1, <1>2, <1>3, PersonKeeps DEF InsertPerson

LEMMA StateKeeps ==
  ASSUME IInv, NEW u \in Users, SetState(u) \/ SoftDelete(u)
  PROVE  IInv'
<1>1. PICK state \in {"active", "inactive", "deleted"} :
        Live(u) /\ WritePerson(u, [person[u] EXCEPT !.state = state])
  BY DEF SetState, SoftDelete
<1>2. person[u] \in Person
  BY <1>1 DEF IInv, Typed, Live
<1>3. PICK row : row = [person[u] EXCEPT !.state = state]
  OBVIOUS
<1>4. /\ row \in Person /\ row.name = person[u].name /\ row.email = person[u].email
      /\ row.password = person[u].password
  BY <1>2, <1>3 DEF Person
<1> QED  BY <1>1, <1>3, <1>4, PersonKeeps

LEMMA NextKeeps == IInv /\ [Next]_vars => IInv'
<1> SUFFICES ASSUME IInv, [Next]_vars PROVE IInv'
  OBVIOUS
<1>1. CASE UNCHANGED vars
  BY <1>1, StoreStays DEF vars, rows, history, IInv, Typed
<1>2. CASE CreateUser \/ Invite
  BY <1>2, UserKeeps
<1>3. ASSUME NEW u \in Users, SetState(u) \/ SoftDelete(u) PROVE IInv'
  BY <1>3, StateKeeps
<1>4. ASSUME NEW f \in Feds, CreateFederation(f) \/ UpdateFederation(f) \/ DeleteFederation(f) PROVE IInv'
  BY <1>4, FederationKeeps DEF CreateFederation, UpdateFederation, DeleteFederation
<1>5. ASSUME NEW f \in Feds, NEW e \in Entries, DirectoryChanges(f, e) PROVE IInv'
  BY <1>5, DirectoryKeeps
<1>6. ASSUME NEW p \in Procs, Identify(p) \/ Resolve(p) \/ FindFederation(p) \/ Bind(p) \/ FindLink(p)
             \/ CanSignIn(p) \/ HoldsNoLink(p) \/ Provision(p) \/ HeldAlready(p) \/ CreatePerson(p)
             \/ AskUnlink(p) \/ DeleteLink(p)
      PROVE  IInv'
  BY <1>6, IdentifyKeeps, BindKeeps, PersonOfKeeps, ProvisionKeeps, CreateKeeps, AskUnlinkKeeps,
     DeleteLinkKeeps
<1>7. ASSUME NEW p \in Procs, OverBudget(p) \/ Unavailable(p) \/ Enter(p) \/ Abandon(p) PROVE IInv'
  BY <1>7, LeaveKeeps DEF OverBudget, Unavailable, Enter, Abandon
<1> QED  BY <1>1, <1>2, <1>3, <1>4, <1>5, <1>6, <1>7 DEF Next

LEMMA Invariance == Spec => []IInv
  BY InitHolds, NextKeeps, PTL DEF Spec

-----------------------------------------------------------------------------
(* The theorems.                                                           *)

\* TypeOK: also that no two live people share a username and that an entry and
\* a person have one link in a directory (uq_username, and the unique keys of
\* user_federation_links in the migrations).
THEOREM FederationTyped == Spec => []TypeOK
<1>1. IInv => TypeOK
  BY DEF IInv, Typed, NamesUnique, LinksFit, TypeOK
<1> QED  BY <1>1, Invariance, PTL

\* OffboardedStaysOut: however sign-ins, administrators and renames in the
\* directory overlap, a first bind creates nobody whose identifiers an older row
\* holds, deleted rows included, unless a row was written under it
\* (heldAlready of userfederation/provision.go).
THEOREM NobodyComesBack == Spec => []OffboardedStaysOut
<1>1. IInv => OffboardedStaysOut
  BY DEF IInv
<1> QED  BY <1>1, Invariance, PTL

\* ProofNamesPerson: the entry that was proved and the person signed in are
\* linked with each other or with nobody (PersonOf of userfederation).
LEMMA StepNamesPerson ==
  IInv /\ [Next]_vars =>
     [\A p \in Procs \ stale : Enters(p) =>
          \A l \in links' : l.fed = req'[p].fed =>
              (l.entry = req'[p].entry <=> l.user = req'[p].user)]_vars
<1> SUFFICES ASSUME IInv, Next, NEW p \in Procs, p \notin stale, Enters(p),
                    NEW l \in links', l.fed = req'[p].fed
             PROVE  l.entry = req'[p].entry <=> l.user = req'[p].user
  OBVIOUS
<1> DEFINE q == req[p]
<1>1. q \in Req /\ Typed /\ Fits(pc[p], q) /\ Knows(pc[p], q)
  BY OwnFacts
<1>2. CanSignIn(p) \/ HoldsNoLink(p) \/ CreatePerson(p)
  <2>1. pc'[p] = "in" /\ pc[p] # "in"
    BY DEF Enters
  <2>2. ASSUME NEW o \in Procs, NEW w \in PCs, NEW r, Move(o, w, r) PROVE o = p /\ w = "in"
    <3>1. pc' = [pc EXCEPT ![o] = w]
      BY <2>2 DEF Move
    <3> QED  BY <1>1, <2>1, <3>1 DEF Typed
  <2>3. ~UNCHANGED pc
    BY <2>1
  <2>4. PICK o \in Procs :
          \/ Identify(o) \/ Resolve(o) \/ FindFederation(o) \/ Bind(o) \/ OverBudget(o)
          \/ Unavailable(o) \/ FindLink(o) \/ CanSignIn(o) \/ HoldsNoLink(o) \/ Provision(o)
          \/ HeldAlready(o) \/ CreatePerson(o) \/ Enter(o) \/ Abandon(o) \/ AskUnlink(o) \/ DeleteLink(o)
    BY <2>3 DEF Next, CreateUser, Invite, InsertPerson, SetState, SoftDelete, WritePerson,
       CreateFederation, UpdateFederation, DeleteFederation, WriteFederation, DirectoryChanges
  <2>5. ~Leave(o)
    BY <2>2 DEF Leave, PCs
  <2>6. ASSUME NEW w \in PCs \ {"in"}, NEW r, Go(o, w, r) PROVE FALSE
    BY <2>2, <2>6 DEF Go
  <2>7. CanSignIn(o) \/ HoldsNoLink(o) \/ CreatePerson(o)
    <3>1. {"resolve", "find", "bind", "link", "can", "holds", "provision", "held", "create", "unlink"}
             \subseteq PCs \ {"in"}
      BY DEF PCs, SignInPCs
    <3>2. ~Identify(o) /\ ~AskUnlink(o)
      BY <2>6, <3>1 DEF Identify, AskUnlink
    <3>3. ~Resolve(o) /\ ~FindFederation(o)
      BY <2>5, <2>6, <3>1 DEF Resolve, FindFederation
    <3>4. ~Bind(o) /\ ~Provision(o) /\ ~HeldAlready(o)
      BY <2>5, <2>6, <3>1 DEF Bind, Provision, HeldAlready
    <3>5. ~FindLink(o)
      BY <2>6, <3>1 DEF FindLink
    <3>6. ~OverBudget(o) /\ ~Unavailable(o) /\ ~Enter(o) /\ ~Abandon(o)
      BY <2>5 DEF OverBudget, Unavailable, Enter, Abandon
    <3>7. ~DeleteLink(o)
      BY <2>2, <2>5 DEF DeleteLink, PCs
    <3> QED  BY <2>4, <3>2, <3>3, <3>4, <3>5, <3>6, <3>7
  <2>8. PICK r : Move(o, "in", r)
    BY <2>5, <2>7 DEF CanSignIn, HoldsNoLink, CreatePerson, Go
  <2>9. o = p
    BY <2>2, <2>8 DEF PCs, SignInPCs
  <2> QED  BY <2>7, <2>9
<1>3. ~Leave(p)
  BY <1>1 DEF Leave, Move, Enters, Typed
<1>4. CASE CanSignIn(p)
  <2>1. pc[p] = "can" /\ Go(p, "in", q)
    BY <1>3, <1>4 DEF CanSignIn
  <2>2. req'[p] = q /\ links' = links
    BY <1>1, <2>1 DEF Go, Move, rows, Typed
  <2>3. PICK k \in links : k.fed = q.fed /\ k.entry = q.entry /\ k.user = q.user
    BY <1>1, <2>1 DEF Knows, Of
  <2> QED  BY <2>2, <2>3 DEF IInv, LinksFit
<1>5. CASE HoldsNoLink(p)
  <2>1. pc[p] = "holds" /\ Go(p, "in", q) /\ ~AnotherEntry(q)
    BY <1>3, <1>5 DEF HoldsNoLink
  <2>2. req'[p] = q /\ links' = links
    BY <1>1, <2>1 DEF Go, Move, rows, Typed
  <2>3. Of(q.fed, q.entry) = {} /\ Serves(q.fed) /\ q.fed \in Feds
    BY <1>1, <2>1 DEF Knows, Fits, SignInPCs, BoundPCs
  <2>4. l.user # q.user
    BY <2>1, <2>2, <2>3 DEF AnotherEntry, Linked
  <2> QED  BY <2>2, <2>3, <2>4 DEF Of
<1>6. CASE CreatePerson(p)
  <2>1. /\ Of(q.fed, q.entry) = {} /\ links' = InsertLink(q, NextId) /\ NextId \in Users
        /\ Move(p, "in", [q EXCEPT !.user = NextId])
    BY <1>3, <1>6 DEF CreatePerson
  <2>2. PICK r : r = [q EXCEPT !.user = NextId]
    OBVIOUS
  <2>3. r.fed = q.fed /\ r.entry = q.entry /\ r.user = NextId
    BY <1>1, <2>1, <2>2 DEF Req
  <2>4. req'[p] = r
    BY <1>1, <2>1, <2>2 DEF Move, Typed
  <2>5. PICK k : k = [fed |-> q.fed, entry |-> q.entry, user |-> NextId]
    OBVIOUS
  <2>6. links' = links \cup {k} /\ k.fed = q.fed /\ k.entry = q.entry /\ k.user = NextId
    BY <2>1, <2>5 DEF InsertLink
  <2>7. \A x \in links : x.user # NextId
    BY NextIsNew DEF IInv, LinksFit
  <2> QED  BY <2>1, <2>3, <2>4, <2>6, <2>7 DEF Of
<1> QED  BY <1>2, <1>4, <1>5, <1>6

\* ProofNamesPerson: whoever a directory's proof signs in is the person its entry
\* is linked with, and a person linked with another entry is signed in by none
\* else, save for a request whose reads another outdated (PersonOf and
\* HoldsNoLink of userfederation).
THEOREM ProofIsForThePerson == Spec => ProofNamesPerson
  BY Invariance, StepNamesPerson, PTL DEF Spec, ProofNamesPerson

LEMMA StepKeepsCredential ==
  IInv /\ [Next]_vars =>
     [\A l \in links : l \notin links' =>
          \/ person[l.user].password
          \/ ~Serves(l.fed)
          \/ \E p \in stale : pc[p] = "unlink" /\ req[p].fed = l.fed]_vars
<1> SUFFICES ASSUME IInv, Next, NEW l \in links, l \notin links'
             PROVE  \/ person[l.user].password
                    \/ ~Serves(l.fed)
                    \/ \E p \in stale : pc[p] = "unlink" /\ req[p].fed = l.fed
  OBVIOUS
<1>1. PICK p \in Procs : DeleteLink(p) /\ ~Leave(p)
  <2>1. ~UNCHANGED links /\ ~(links \subseteq links')
    OBVIOUS
  <2>2. \A p \in Procs : ~Leave(p)
    BY <2>1 DEF Leave, rows
  <2> QED
    BY <2>1, <2>2 DEF Next, CreateUser, Invite, InsertPerson, SetState, SoftDelete, WritePerson,
       CreateFederation, UpdateFederation, DeleteFederation, WriteFederation, DirectoryChanges,
       Identify, Resolve, FindFederation, Bind, OverBudget, Unavailable, FindLink, CanSignIn,
       HoldsNoLink, Provision, HeldAlready, CreatePerson, InsertLink, Enter, Abandon, AskUnlink,
       Go, rows
<1>2. pc[p] = "unlink" /\ l.user = req[p].user /\ l.fed = req[p].fed
  BY <1>1 DEF DeleteLink
<1>3. CASE p \in stale
  BY <1>2, <1>3
<1>4. CASE p \notin stale
  BY <1>2, <1>4 DEF IInv, RequestsKnow, Knows
<1> QED  BY <1>3, <1>4

\* ACredentialStays: nobody without a password loses the link that signs them in,
\* save when the federation was switched between the check and the delete
\* (keepsACredential of userfederation).
THEOREM CredentialKept == Spec => ACredentialStays
  BY Invariance, StepKeepsCredential, PTL DEF Spec, ACredentialStays
=============================================================================

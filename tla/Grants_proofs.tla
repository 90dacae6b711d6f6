----------------------------- MODULE Grants_proofs -----------------------------
(***************************************************************************)
(* The grants of a tenant, proved for any number of requests, grants and   *)
(* tokens, whatever requests overlap: the sign-out, replay and exchange    *)
(* properties, and that the refresh tokens keep the promise of TokenLife.  *)
(* A request writes rows it read some steps before, so the invariant says  *)
(* what is still true of what it saw, and that a grant a request is about  *)
(* to create is known to nobody else. No proof needs the row locks: what   *)
(* they do not prevent is exempt, as a grant whose write missed another.   *)
(***************************************************************************)
EXTENDS Grants, TLAPS

-----------------------------------------------------------------------------
(* The invariant.                                                          *)

\* What the local variables of a request are where it stands.
Fits(where, r) ==
    /\ where = "idle" => r = NoReq
    /\ where \in {"write", "commit"} => r.op \in {"redeem", "refresh", "replay", "logout", "delete"}
    /\ where = "commit" => r.op # "replay"
    /\ where = "retain" => r.op = "revoke"
    /\ where = "save" => r.op \in {"revoke", "replay"}
    /\ where \in {"look", "forget", "reject"} => r.op = "replay"
    /\ where \in {"retain", "save", "forget"} => \A g \in r.scope : r.seen[g] # None
    /\ \A g \in Grants : r.seen[g] # None => g \in r.scope
    /\ r.op \in {"redeem", "refresh"} =>
          /\ r.new \in Tokens
          /\ \E g \in Grants : r.scope = {g} /\ r.seen[g] # None /\ ~r.seen[g].revoked
    /\ r.op = "redeem" => \A g \in r.scope : r.seen[g].token = None
    /\ r.op = "refresh" => \A g \in r.scope : r.seen[g].token # None
    /\ r.op \notin {"redeem", "refresh"} => r.new = None
    /\ r.op = "replay" => \E g \in Grants : r.scope = {g}
    /\ r.op \notin {"logout", "delete"} => r.ends = {}

RequestsFit == \A p \in Procs : Fits(pc[p], req[p])

\* A request that ends sessions is about all their grants.
ScopesFit == \A p \in Procs, g \in Grants : of[g].session \in req[p].ends => g \in req[p].scope

\* Only tokens that were handed out are exchanged, superseded, or in a row.
Issued(g, row) == row # None /\ row.token # None => row.token \in handed /\ made[row.token].grant = g

HandedFit ==
    /\ \A t \in handed : made[t] # None
    /\ \A t \in Tokens : made[t] # None => made[t].by \in handed \cup {None}
    /\ \A t \in Tokens : superseded[t] # None => t \in handed
    /\ \A g \in Grants : Issued(g, grant[g])

SeenFits == \A p \in Procs, g \in Grants : Issued(g, req[p].seen[g])

\* A token a request is about to hand out is its own, minted against what it saw.
NewFits ==
    /\ \A p \in Procs : req[p].new # None =>
          /\ req[p].new \notin handed
          /\ made[req[p].new] # None
          /\ made[req[p].new].grant \in req[p].scope
          /\ made[req[p].new].by = req[p].seen[made[req[p].new].grant].token
    /\ \A p, q \in Procs : req[p].new # None /\ req[p].new = req[q].new => p = q

\* A grant nobody has seen.
Unborn(g) ==
    /\ grant[g] = None
    /\ g \notin dropped
    /\ \A t \in Tokens : made[t] # None => made[t].grant # g
    /\ \A p \in Procs : req[p].seen[g] = None

\* A grant is created once, by the request it was minted for.
BirthsFit ==
    /\ \A g \in Grants \ begun : Unborn(g)
    /\ \A p \in Procs : pc[p] = "resume" => req[p].scope \subseteq begun /\ \A g \in req[p].scope : Unborn(g)
    /\ \A p, q \in Procs : pc[p] = "resume" /\ pc[q] = "resume" /\ req[p].scope \cap req[q].scope # {} => p = q

SweptFits == \A s \in swept : session[s] # "live"

\* What a request forgets the history of is dead.
ForgetFits == \A p \in Procs : pc[p] = "forget" => \A g \in req[p].scope : Dead(g) \/ g \in stale

\* The token in a row was exchanged for nothing yet.
Unspent ==
    \A u \in handed :
        LET g == made[u].grant
        IN  g \notin stale /\ grant[g] # None => grant[g].token # made[u].by

IInv ==
    /\ TypeOK
    /\ RequestsFit /\ ScopesFit
    /\ HandedFit /\ SeenFits /\ NewFits
    /\ BirthsFit
    /\ SweptFits /\ SignOutReachesGrants
    /\ ForgetFits
    /\ Unspent /\ ExchangedOnce
    /\ ReplaysAreToldApart

USE NoneAssumption, ClockAssumption, BatchAssumption, NoRowAssumption, NoMadeAssumption

LEMMA InitHolds == Init => IInv
<1> SUFFICES ASSUME Init
             PROVE  IInv
  OBVIOUS
<1>1. NoReq \in Req /\ Fits("idle", NoReq)
  BY DEF NoReq, Nothing, Req, Ops, Fits
<1>2. TypeOK /\ RequestsFit
  BY <1>1 DEF Init, TypeOK, RequestsFit, Nothing, PCs
<1>3. ScopesFit /\ HandedFit /\ SeenFits /\ NewFits
  BY DEF Init, ScopesFit, HandedFit, SeenFits, NewFits, Issued, NoReq, Nothing
<1>4. BirthsFit
  BY DEF Init, BirthsFit, Unborn, NoReq, Nothing
<1>5. SweptFits /\ SignOutReachesGrants /\ ForgetFits
  BY DEF Init, SweptFits, SignOutReachesGrants, ForgetFits
<1>6. Unspent /\ ExchangedOnce /\ ReplaysAreToldApart
  BY DEF Init, Unspent, ExchangedOnce, ReplaysAreToldApart
<1> QED  BY <1>2, <1>3, <1>4, <1>5, <1>6 DEF IInv

-----------------------------------------------------------------------------
(* Lemmas about the model's operators.                                     *)

\* What a request finds is a typed record of the rows in its scope.
LEMMA SeenTyped ==
  TypeOK => \A scope : /\ Seen(scope) \in [Grants -> Row \cup {None}]
                       /\ \A g \in Grants : Seen(scope)[g] = IF g \in scope THEN grant[g] ELSE None
  BY DEF TypeOK, Seen

LEMMA AboutTyped ==
  TypeOK =>
    \A op, scope, ends :
        /\ About(op, scope, ends).op = op /\ About(op, scope, ends).scope = scope
        /\ About(op, scope, ends).ends = ends /\ About(op, scope, ends).new = None
        /\ \A g \in Grants : About(op, scope, ends).seen[g] = IF g \in scope THEN grant[g] ELSE None
        /\ op \in Ops /\ scope \subseteq Grants /\ ends \subseteq Sessions => About(op, scope, ends) \in Req
  BY SeenTyped DEF About, Req

\* ... and of the token it mints.
LEMMA MintTyped ==
  ASSUME TypeOK, NEW op \in Ops, NEW g \in Grants, NEW t \in Tokens
  PROVE  LET r == [About(op, {g}, {}) EXCEPT !.new = t]
         IN  /\ r \in Req
             /\ r.op = op /\ r.scope = {g} /\ r.ends = {} /\ r.new = t
             /\ r.seen[g] = grant[g]
             /\ \A h \in Grants \ {g} : r.seen[h] = None
<1>1. Seen({g}) \in [Grants -> Row \cup {None}]
  BY DEF TypeOK, Seen
<1>2. \A h \in Grants : Seen({g})[h] = IF h \in {g} THEN grant[h] ELSE None
  BY DEF Seen
<1> QED  BY <1>1, <1>2 DEF About, Req

\* A request that moves touches itself alone.
LEMMA Moved ==
  ASSUME TypeOK, RequestsFit, NEW p \in Procs, NEW where \in PCs, NEW locals \in Req,
         Fits(where, locals), Move(p, where, locals)
  PROVE  /\ pc' \in [Procs -> PCs] /\ req' \in [Procs -> Req]
         /\ RequestsFit'
         /\ pc'[p] = where /\ req'[p] = locals
         /\ \A q \in Procs \ {p} : pc'[q] = pc[q] /\ req'[q] = req[q]
<1>1. /\ pc' \in [Procs -> PCs] /\ req' \in [Procs -> Req]
      /\ pc'[p] = where /\ req'[p] = locals
      /\ \A q \in Procs \ {p} : pc'[q] = pc[q] /\ req'[q] = req[q]
  BY DEF TypeOK, Move, Goto
<1>2. \A q \in Procs : Fits(pc'[q], req'[q])
  BY <1>1 DEF RequestsFit
<1> QED  BY <1>1, <1>2 DEF RequestsFit

\* A request that is done holds nothing.
LEMMA NothingFits == NoReq \in Req /\ Fits("idle", NoReq) /\ "idle" \in PCs
  BY DEF NoReq, Nothing, Req, Ops, Fits, PCs

\* A request that goes on keeps its locals.
LEMMA GotoMoves ==
  ASSUME TypeOK, NEW p \in Procs, NEW where, Goto(p, where), UNCHANGED req
  PROVE  Move(p, where, req[p])
  BY DEF TypeOK, Move

\* A release leaves every other lock alone.
LEMMA ReleaseTyped == ASSUME TypeOK, NEW p \in Procs, Release(p) PROVE lock' \in [Grants -> Procs \cup {None}]
  BY DEF TypeOK, Release

\* The rows a request writes are rows it saw.
LEMMA WritesSeen ==
  ASSUME TypeOK, NEW p \in Procs
  PROVE  Writes(p) \subseteq Grants /\ \A g \in Writes(p) : g \in req[p].scope /\ req[p].seen[g] \in Row
  BY DEF TypeOK, Req, Writes
-----------------------------------------------------------------------------
(* The requests that only read, or move on.                                *)

\* What the rows and tokens say stays as they do.
LEMMA RowsStay ==
  ASSUME IInv, UNCHANGED <<of, grant, superseded, session, now, made, handed, stale, swept>>
  PROVE  HandedFit' /\ SweptFits' /\ SignOutReachesGrants' /\ Unspent' /\ ExchangedOnce' /\ ReplaysAreToldApart'
<1>1. HandedFit' /\ SweptFits'
  BY DEF IInv, HandedFit, SweptFits, Issued
<1>2. SignOutReachesGrants' /\ Unspent' /\ ExchangedOnce'
  BY DEF IInv, SignOutReachesGrants, Unspent, ExchangedOnce, Live
<1>3. ReplaysAreToldApart'
  BY DEF IInv, ReplaysAreToldApart, Live, Valid
<1> QED  BY <1>1, <1>2, <1>3

\* What a request starts with, or leaves with: rows as they are, no token.
Fresh(r) == r.new = None /\ \A g \in Grants : r.seen[g] \in {None, grant[g]}

\* A request that reads afresh, moves on with what it read, or leaves.
LEMMA MoveKeeps ==
  ASSUME IInv, NEW p \in Procs, NEW where \in PCs \ {"resume", "forget"}, NEW locals \in Req,
         Fits(where, locals), Move(p, where, locals),
         Fresh(locals) \/ locals = req[p],
         \A g \in Grants : of[g].session \in locals.ends => g \in locals.scope,
         lock' \in [Grants -> Procs \cup {None}], replayed' \in SUBSET Grants,
         UNCHANGED <<fixed, rows, now, tokens, stale, swept, dropped>>
  PROVE  IInv'
<1> USE DEF fixed, rows, tokens
<1>1. /\ pc' \in [Procs -> PCs] /\ req' \in [Procs -> Req]
      /\ RequestsFit'
      /\ pc'[p] = where /\ req'[p] = locals
      /\ \A q \in Procs \ {p} : pc'[q] = pc[q] /\ req'[q] = req[q]
  BY Moved DEF IInv
<1>2. TypeOK'
  BY <1>1 DEF IInv, TypeOK
<1>3. /\ HandedFit' /\ SweptFits' /\ SignOutReachesGrants'
      /\ Unspent' /\ ExchangedOnce' /\ ReplaysAreToldApart'
  BY RowsStay
<1>4. ScopesFit'
  BY <1>1 DEF IInv, ScopesFit
<1>5. \A g \in Grants : Issued(g, locals.seen[g])
  BY DEF IInv, Fresh, HandedFit, SeenFits, Issued
<1>6. SeenFits'
  BY <1>1, <1>5 DEF IInv, SeenFits, Issued
<1>7. NewFits'
  <2>1. CASE locals = req[p]
    <3>1. \A q \in Procs : req'[q] = req[q]
      BY <2>1, <1>1
    <3> QED  BY <3>1 DEF IInv, NewFits
  <2>2. CASE Fresh(locals)
    <3>1. req'[p].new = None
      BY <2>2, <1>1 DEF Fresh
    <3> QED  BY <3>1, <1>1 DEF IInv, NewFits
  <2> QED  BY <2>1, <2>2
<1>8. \A g \in Grants : Unborn(g) => Unborn(g)'
  BY <1>1 DEF Unborn, Fresh
<1>9. BirthsFit'
  <2>1. pc'[p] # "resume"
    BY <1>1
  <2>2. \A q \in Procs : pc'[q] = "resume" => q # p /\ pc[q] = "resume" /\ req'[q] = req[q]
    BY <1>1, <2>1
  <2>3. \A q \in Procs : pc[q] = "resume" => req[q].scope \subseteq Grants
    BY DEF IInv, TypeOK, Req
  <2>4. \A g \in Grants \ begun : Unborn(g)'
    BY <1>8 DEF IInv, BirthsFit
  <2>5. \A q \in Procs : pc'[q] = "resume" =>
          req'[q].scope \subseteq begun /\ \A g \in req'[q].scope : Unborn(g)'
    BY <1>8, <2>2, <2>3 DEF IInv, BirthsFit
  <2>6. \A q, r \in Procs : pc'[q] = "resume" /\ pc'[r] = "resume" /\ req'[q].scope \cap req'[r].scope # {} => q = r
    BY <2>2 DEF IInv, BirthsFit
  <2> QED  BY <2>4, <2>5, <2>6 DEF BirthsFit
<1>10. ForgetFits'
  BY <1>1 DEF IInv, ForgetFits, Dead
<1> QED  BY <1>2, <1>3, <1>1, <1>4, <1>6, <1>7, <1>9, <1>10 DEF IInv

\* A request that starts by reading a scope.
LEMMA StartKeeps ==
  ASSUME IInv, NEW p \in Procs, NEW where \in {"write", "retain", "look", "save"},
         NEW op \in {"replay", "logout", "delete", "revoke"},
         NEW scope \in SUBSET Grants, NEW ends \in SUBSET Sessions,
         Fits(where, About(op, scope, ends)),
         \A g \in Grants : of[g].session \in ends => g \in scope,
         Move(p, where, About(op, scope, ends)),
         UNCHANGED <<fixed, rows, lock, now, tokens, history>>
  PROVE  IInv'
<1>1. TypeOK /\ op \in Ops /\ where \in PCs \ {"resume", "forget"}
  BY DEF IInv, Ops, PCs
<1>2. /\ About(op, scope, ends) \in Req
      /\ About(op, scope, ends).scope = scope
      /\ About(op, scope, ends).ends = ends /\ About(op, scope, ends).new = None
      /\ \A g \in Grants : About(op, scope, ends).seen[g] = IF g \in scope THEN grant[g] ELSE None
  BY <1>1, AboutTyped
<1>3. Fresh(About(op, scope, ends))
  BY <1>2 DEF Fresh
<1>4. lock' \in [Grants -> Procs \cup {None}] /\ replayed' \in SUBSET Grants
      /\ UNCHANGED <<stale, swept, dropped>>
  BY <1>1 DEF TypeOK, history
<1> HIDE DEF About
<1> QED  BY <1>1, <1>2, <1>3, <1>4, MoveKeeps

\* A request that leaves.
LEMMA LeaveKeeps ==
  ASSUME IInv, NEW p \in Procs, Leave(p),
         lock' \in [Grants -> Procs \cup {None}], replayed' \in SUBSET Grants,
         UNCHANGED <<fixed, rows, now, tokens, stale, swept, dropped>>
  PROVE  IInv'
<1>1. NoReq \in Req /\ Fits("idle", NoReq) /\ "idle" \in PCs \ {"resume", "forget"}
  BY NothingFits
<1>2. Fresh(NoReq) /\ NoReq.ends = {}
  BY DEF Fresh, NoReq, Nothing
<1>3. Move(p, "idle", NoReq)
  BY DEF Leave
<1> HIDE DEF NoReq
<1> QED  BY <1>1, <1>2, <1>3, MoveKeeps

LEMMA ReplayAtTokenKeeps ==
  ASSUME IInv, NEW p \in Procs, ReplayAtToken(p), UNCHANGED fixed
  PROVE  IInv'
<1>1. PICK t \in handed : superseded[t] # None /\ Move(p, "write", About("replay", {superseded[t]}, {}))
  BY DEF ReplayAtToken
<1>2. PICK g \in Grants : g = superseded[t]
  BY <1>1 DEF IInv, TypeOK
<1>3. TypeOK /\ "replay" \in Ops /\ {g} \in SUBSET Grants /\ {} \in SUBSET Sessions
  BY DEF IInv, Ops
<1>4. Fits("write", About("replay", {g}, {}))
  BY <1>3, AboutTyped DEF Fits
<1> QED  BY <1>1, <1>2, <1>3, <1>4, StartKeeps DEF ReplayAtToken

LEMMA ReplayElsewhereKeeps ==
  ASSUME IInv, NEW p \in Procs, ReplayElsewhere(p), UNCHANGED fixed
  PROVE  IInv'
<1>1. PICK t \in handed : superseded[t] # None /\ Move(p, "look", About("replay", {superseded[t]}, {}))
  BY DEF ReplayElsewhere
<1>2. PICK g \in Grants : g = superseded[t]
  BY <1>1 DEF IInv, TypeOK
<1>3. TypeOK /\ "replay" \in Ops /\ {g} \in SUBSET Grants /\ {} \in SUBSET Sessions
  BY DEF IInv, Ops
<1>4. Fits("look", About("replay", {g}, {}))
  BY <1>3, AboutTyped DEF Fits
<1> QED  BY <1>1, <1>2, <1>3, <1>4, StartKeeps DEF ReplayElsewhere

LEMMA ReplayLookKeeps ==
  ASSUME IInv, NEW p \in Procs, ReplayLook(p), UNCHANGED fixed
  PROVE  IInv'
<1>1. TypeOK /\ Fits(pc[p], req[p]) /\ pc[p] = "look"
  BY DEF IInv, RequestsFit, ReplayLook
<1>2. PICK g \in Grants : req[p].scope = {g}
  BY <1>1 DEF Fits
<1>3. CASE grant[g] = None
  <2>1. Leave(p) /\ UNCHANGED <<rows, lock, now, tokens, history>>
    BY <1>2, <1>3 DEF ReplayLook
  <2>2. lock' \in [Grants -> Procs \cup {None}] /\ replayed' \in SUBSET Grants
        /\ UNCHANGED <<stale, swept, dropped>>
    BY <1>1, <2>1 DEF TypeOK, history
  <2> QED  BY <2>1, <2>2, LeaveKeeps
<1>4. CASE grant[g] # None
  <2>1. Move(p, "save", About("replay", {g}, {})) /\ UNCHANGED <<rows, lock, now, tokens, history>>
    BY <1>2, <1>4 DEF ReplayLook
  <2>2. "replay" \in Ops /\ {g} \in SUBSET Grants /\ {} \in SUBSET Sessions
    BY DEF Ops
  <2>3. Fits("save", About("replay", {g}, {}))
    BY <1>1, <1>4, <2>2, AboutTyped DEF Fits
  <2> QED  BY <2>1, <2>2, <2>3, StartKeeps
<1> QED  BY <1>3, <1>4

LEMMA RevokeFindKeeps ==
  ASSUME IInv, NEW p \in Procs, RevokeFind(p), UNCHANGED fixed
  PROVE  IInv'
<1>1. PICK g \in Grants : Live(g) /\ Move(p, "retain", About("revoke", {g}, {}))
  BY DEF RevokeFind
<1>2. TypeOK /\ "revoke" \in Ops /\ {g} \in SUBSET Grants /\ {} \in SUBSET Sessions /\ grant[g] # None
  BY <1>1 DEF IInv, Ops, Live
<1>3. Fits("retain", About("revoke", {g}, {}))
  BY <1>2, AboutTyped DEF Fits
<1> QED  BY <1>1, <1>2, <1>3, StartKeeps DEF RevokeFind

LEMMA LogoutKeeps ==
  ASSUME IInv, NEW p \in Procs, Logout(p), UNCHANGED fixed
  PROVE  IInv'
<1>1. PICK s \in Sessions : Move(p, "write", About("logout", Of(Grants, s), {s}))
  BY DEF Logout
<1>2. TypeOK /\ "logout" \in Ops /\ Of(Grants, s) \in SUBSET Grants /\ {s} \in SUBSET Sessions
  BY DEF IInv, Ops, Of
<1>3. Fits("write", About("logout", Of(Grants, s), {s}))
  BY <1>2, AboutTyped DEF Fits
<1>4. \A g \in Grants : of[g].session \in {s} => g \in Of(Grants, s)
  BY DEF Of
<1> QED  BY <1>1, <1>2, <1>3, <1>4, StartKeeps DEF Logout

\* The deletes differ in what they are about only.
LEMMA DeleteKeeps ==
  ASSUME IInv, NEW p \in Procs, NEW scope \in SUBSET Grants, NEW ends \in SUBSET Sessions,
         \A g \in Grants : of[g].session \in ends => g \in scope,
         Move(p, "write", About("delete", scope, ends)),
         UNCHANGED <<fixed, rows, lock, now, tokens, history>>
  PROVE  IInv'
<1>1. TypeOK /\ "delete" \in Ops
  BY DEF IInv, Ops
<1>2. Fits("write", About("delete", scope, ends))
  BY <1>1, AboutTyped DEF Fits
<1> QED  BY <1>1, <1>2, StartKeeps

LEMMA RevocationsKeep ==
  ASSUME IInv, NEW p \in Procs, RevokeSessions(p) \/ RevokeForUser(p) \/ Disconnect(p), UNCHANGED fixed
  PROVE  IInv'
<1>1. CASE RevokeSessions(p)
  <2>1. PICK ends \in Revocable :
          Move(p, "write", About("delete", {g \in Grants : of[g].session \in ends}, ends))
    BY <1>1 DEF RevokeSessions
  <2>2. ends \in SUBSET Sessions /\ {g \in Grants : of[g].session \in ends} \in SUBSET Grants
    BY DEF Revocable
  <2>3. UNCHANGED <<fixed, rows, lock, now, tokens, history>>
    BY <1>1 DEF RevokeSessions
  <2>4. \A g \in Grants : of[g].session \in ends => g \in {h \in Grants : of[h].session \in ends}
    OBVIOUS
  <2> QED  BY <2>1, <2>2, <2>3, <2>4, DeleteKeeps
<1>2. CASE RevokeForUser(p)
  <2>1. PICK u \in Users :
          Move(p, "write", About("delete", {g \in Grants : owner[of[g].session] = u},
                                 {s \in Sessions : owner[s] = u /\ session[s] # "gone"}))
    BY <1>2 DEF RevokeForUser
  <2> DEFINE scope == {g \in Grants : owner[of[g].session] = u}
             ends == {s \in Sessions : owner[s] = u /\ session[s] # "gone"}
  <2>2. scope \in SUBSET Grants /\ ends \in SUBSET Sessions
    OBVIOUS
  <2>3. UNCHANGED <<fixed, rows, lock, now, tokens, history>>
    BY <1>2 DEF RevokeForUser
  <2>4. \A g \in Grants : of[g].session \in ends => g \in scope
    OBVIOUS
  <2> QED  BY <2>1, <2>2, <2>3, <2>4, DeleteKeeps
<1>3. CASE Disconnect(p)
  <2>1. PICK u \in Users, c \in Clients :
          Move(p, "write", About("delete",
                {g \in Grants : owner[of[g].session] = u /\ of[g].client = c}, {}))
    BY <1>3 DEF Disconnect
  <2> DEFINE scope == {g \in Grants : owner[of[g].session] = u /\ of[g].client = c}
  <2>2. scope \in SUBSET Grants /\ {} \in SUBSET Sessions /\ \A g \in Grants : of[g].session \in {} => g \in scope
    OBVIOUS
  <2>3. UNCHANGED <<fixed, rows, lock, now, tokens, history>>
    BY <1>3 DEF Disconnect
  <2> QED  BY <2>1, <2>2, <2>3, DeleteKeeps
<1> QED  BY <1>1, <1>2, <1>3

LEMMA WriteKeeps ==
  ASSUME IInv, NEW p \in Procs, Write(p), UNCHANGED fixed
  PROVE  IInv'
<1> DEFINE where == IF req[p].op = "replay" THEN "reject" ELSE "commit"
<1>1. TypeOK /\ Fits(pc[p], req[p]) /\ pc[p] = "write" /\ req[p] \in Req
  BY DEF IInv, RequestsFit, Write, TypeOK
<1>2. Goto(p, where) /\ UNCHANGED req
  BY DEF Write
<1>3. Move(p, where, req[p])
  BY <1>1, <1>2, GotoMoves
<1>4. where \in PCs \ {"resume", "forget"} /\ Fits(where, req[p])
  BY <1>1 DEF PCs, Fits
<1>5. lock' \in [Grants -> Procs \cup {None}] /\ replayed' \in SUBSET Grants
      /\ UNCHANGED <<fixed, rows, now, tokens, stale, swept, dropped>>
  BY <1>1 DEF Write, TypeOK, history
<1>6. \A g \in Grants : of[g].session \in req[p].ends => g \in req[p].scope
  BY DEF IInv, ScopesFit
<1> HIDE DEF where
<1> QED  BY <1>1, <1>3, <1>4, <1>5, <1>6, MoveKeeps

LEMMA RejectKeeps ==
  ASSUME IInv, NEW p \in Procs, Reject(p) \/ Abandon(p), UNCHANGED fixed
  PROVE  IInv'
<1>1. TypeOK /\ req[p].scope \subseteq Grants /\ replayed \subseteq Grants
  BY DEF IInv, TypeOK, Req
<1>2. Leave(p) /\ Release(p) /\ replayed' \in {replayed, replayed \cup req[p].scope}
      /\ UNCHANGED <<rows, now, tokens, stale, swept, dropped>>
  BY DEF Reject, Abandon, history
<1> QED  BY <1>1, <1>2, ReleaseTyped, LeaveKeeps
-----------------------------------------------------------------------------
(* The requests that mint.                                                 *)

\* A token is minted for a live grant, in exchange for the one in its row.
LEMMA MintKeeps ==
  ASSUME IInv, NEW p \in Procs, NEW op \in {"redeem", "refresh"},
         NEW g \in Grants, NEW t \in Tokens, NEW by,
         Live(g), by = grant[g].token, by \in handed \cup {None},
         op = "redeem" => by = None, op = "refresh" => by # None,
         Mint(g, t, by),
         Move(p, "write", [About(op, {g}, {}) EXCEPT !.new = t]),
         UNCHANGED <<fixed, rows, lock, now, begun, handed, history>>
  PROVE  IInv'
<1> USE DEF fixed, rows, history
<1> DEFINE r == [About(op, {g}, {}) EXCEPT !.new = t]
<1>1. TypeOK /\ op \in Ops /\ "write" \in PCs \ {"resume", "forget", "idle"}
  BY DEF IInv, Ops, PCs
<1>2. /\ r \in Req
      /\ r.op = op /\ r.scope = {g} /\ r.ends = {} /\ r.new = t
      /\ r.seen[g] = grant[g]
      /\ \A h \in Grants \ {g} : r.seen[h] = None
  BY <1>1, MintTyped
<1>3. Move(p, "write", r)
  OBVIOUS
<1> HIDE DEF r
<1>4. grant[g] \in Row /\ ~grant[g].revoked
  BY <1>1 DEF TypeOK, Live
<1>5. Fits("write", r)
  BY <1>2, <1>4 DEF Fits, Live
<1>6. /\ pc' \in [Procs -> PCs] /\ req' \in [Procs -> Req]
      /\ RequestsFit'
      /\ pc'[p] = "write" /\ req'[p] = r
      /\ \A q \in Procs \ {p} : pc'[q] = pc[q] /\ req'[q] = req[q]
  BY <1>1, <1>2, <1>3, <1>5, Moved DEF IInv
<1>7. /\ made[t] = None /\ made' \in [Tokens -> Made \cup {None}]
      /\ made'[t] # None /\ made'[t].grant = g /\ made'[t].by = by
      /\ \A x \in Tokens \ {t} : made'[x] = made[x]
  <2>1. [grant |-> g, by |-> by, expires |-> now + Lifetime] \in Made
    BY <1>1 DEF TypeOK, Made
  <2> QED  BY <1>1, <2>1 DEF TypeOK, Mint
<1>8. TypeOK'
  BY <1>1, <1>6, <1>7 DEF TypeOK
<1>9. handed \subseteq Tokens /\ t \notin handed /\ \A x \in handed : made'[x] = made[x]
  BY <1>1, <1>7 DEF TypeOK, IInv, HandedFit
<1>10. ScopesFit'
  BY <1>2, <1>6 DEF IInv, ScopesFit
<1>11. HandedFit'
  <2>1. \A h \in Grants : \A row : Issued(h, row) => Issued(h, row)'
    BY <1>9 DEF Issued
  <2> QED  BY <1>7, <1>9, <2>1 DEF IInv, HandedFit
<1>12. SeenFits'
  <2>1. \A h \in Grants : Issued(h, r.seen[h])
    BY <1>2 DEF IInv, HandedFit, Issued
  <2> QED  BY <1>6, <1>9, <2>1 DEF IInv, SeenFits, Issued
<1>13. \A q \in Procs \ {p} : req'[q].new = req[q].new /\ req'[q].new # t
  BY <1>6, <1>7 DEF IInv, NewFits
<1>14. NewFits'
  <2>1. /\ req'[p].new = t /\ req'[p].new \notin handed'
        /\ made'[t] # None /\ made'[t].grant \in req'[p].scope
        /\ made'[t].by = req'[p].seen[made'[t].grant].token
    BY <1>2, <1>6, <1>7, <1>9
  <2>2. \A q \in Procs : req[q].new \in Tokens \cup {None}
    BY <1>1 DEF TypeOK, Req
  <2>3. ASSUME NEW q \in Procs \ {p}, req'[q].new # None
        PROVE  /\ req'[q].new \notin handed'
               /\ made'[req'[q].new] # None
               /\ made'[req'[q].new].grant \in req'[q].scope
               /\ made'[req'[q].new].by = req'[q].seen[made'[req'[q].new].grant].token
    BY <2>3, <1>6, <1>7, <1>13, <2>2 DEF IInv, NewFits
  <2>4. ASSUME NEW q1 \in Procs, NEW q2 \in Procs, req'[q1].new # None, req'[q1].new = req'[q2].new
        PROVE  q1 = q2
    BY <2>4, <2>1, <1>13 DEF IInv, NewFits
  <2> QED  BY <2>1, <2>3, <2>4 DEF NewFits
<1>15. \A h \in Grants : Unborn(h) => Unborn(h)'
  BY <1>2, <1>4, <1>6, <1>7 DEF Unborn
<1>16. BirthsFit'
  <2>1. \A q \in Procs : pc'[q] = "resume" => q # p /\ pc[q] = "resume" /\ req'[q] = req[q]
    BY <1>1, <1>6
  <2>2. \A q \in Procs : req[q].scope \subseteq Grants
    BY <1>1 DEF TypeOK, Req
  <2>3. \A h \in Grants \ begun : Unborn(h)'
    BY <1>15 DEF IInv, BirthsFit
  <2>4. \A q \in Procs : pc'[q] = "resume" =>
          req'[q].scope \subseteq begun /\ \A h \in req'[q].scope : Unborn(h)'
    BY <1>15, <2>1, <2>2 DEF IInv, BirthsFit
  <2>5. \A q, x \in Procs : pc'[q] = "resume" /\ pc'[x] = "resume" /\ req'[q].scope \cap req'[x].scope # {} => q = x
    BY <2>1 DEF IInv, BirthsFit
  <2> QED  BY <2>3, <2>4, <2>5 DEF BirthsFit
<1>17. SweptFits' /\ SignOutReachesGrants'
  BY DEF IInv, SweptFits, SignOutReachesGrants, Live
<1>18. ForgetFits'
  BY <1>6 DEF IInv, ForgetFits, Dead
<1>19. Unspent' /\ ExchangedOnce'
  BY <1>9 DEF IInv, Unspent, ExchangedOnce
<1>20. ReplaysAreToldApart'
  BY <1>9 DEF IInv, ReplaysAreToldApart, Live, Valid
<1> QED
  BY <1>8, <1>6, <1>10, <1>11, <1>12, <1>14, <1>16, <1>17, <1>18, <1>19, <1>20 DEF IInv

LEMMA RedeemKeeps ==
  ASSUME IInv, NEW p \in Procs, Redeem(p), UNCHANGED fixed
  PROVE  IInv'
<1>1. PICK g \in Grants, t \in Tokens :
        /\ Live(g) /\ grant[g].token = None /\ Mint(g, t, None)
        /\ Move(p, "write", [About("redeem", {g}, {}) EXCEPT !.new = t])
  BY DEF Redeem
<1> QED  BY <1>1, MintKeeps DEF Redeem

LEMMA RefreshKeeps ==
  ASSUME IInv, NEW p \in Procs, Refresh(p), UNCHANGED fixed
  PROVE  IInv'
<1>1. PICK t \in handed, g \in Grants, u \in Tokens :
        /\ Live(g) /\ grant[g].token = t /\ Mint(g, u, t)
        /\ Move(p, "write", [About("refresh", {g}, {}) EXCEPT !.new = u])
  BY DEF Refresh
<1>2. t # None
  BY DEF IInv, TypeOK
<1> QED  BY <1>1, <1>2, MintKeeps DEF Refresh

LEMMA AuthorizeKeeps ==
  ASSUME IInv, NEW p \in Procs, Authorize(p), UNCHANGED fixed
  PROVE  IInv'
<1> USE DEF fixed, rows, history
<1>1. PICK g \in Grants \ begun : begun' = begun \cup {g} /\ Move(p, "resume", About("authorize", {g}, {}))
  BY DEF Authorize
<1> DEFINE r == About("authorize", {g}, {})
<1>2. TypeOK /\ "authorize" \in Ops /\ "resume" \in PCs /\ Unborn(g)
  BY DEF IInv, Ops, PCs, BirthsFit
<1>3. /\ r \in Req
      /\ r.op = "authorize" /\ r.scope = {g} /\ r.ends = {} /\ r.new = None
      /\ \A h \in Grants : r.seen[h] = None
  BY <1>2, AboutTyped DEF Unborn
<1>4. Move(p, "resume", r)
  BY <1>1
<1> HIDE DEF r
<1>5. Fits("resume", r)
  BY <1>3 DEF Fits
<1>6. /\ pc' \in [Procs -> PCs] /\ req' \in [Procs -> Req]
      /\ RequestsFit'
      /\ pc'[p] = "resume" /\ req'[p] = r
      /\ \A q \in Procs \ {p} : pc'[q] = pc[q] /\ req'[q] = req[q]
  BY <1>2, <1>3, <1>4, <1>5, Moved DEF IInv
<1>7. UNCHANGED <<fixed, rows, lock, now, made, handed, history>>
  BY DEF Authorize
<1>8. TypeOK'
  BY <1>1, <1>2, <1>6, <1>7 DEF TypeOK
<1>9. /\ HandedFit' /\ SweptFits' /\ SignOutReachesGrants'
      /\ Unspent' /\ ExchangedOnce' /\ ReplaysAreToldApart'
  BY <1>7, RowsStay
<1>10. ScopesFit' /\ SeenFits'
  BY <1>3, <1>6, <1>7 DEF IInv, ScopesFit, SeenFits, Issued
<1>11. NewFits'
  <2>1. req'[p].new = None
    BY <1>3, <1>6
  <2> QED  BY <2>1, <1>6, <1>7 DEF IInv, NewFits
<1>12. \A h \in Grants : Unborn(h) => Unborn(h)'
  BY <1>3, <1>6, <1>7 DEF Unborn
<1>13. BirthsFit'
  <2>1. \A q \in Procs \ {p} : pc'[q] = "resume" => pc[q] = "resume" /\ req'[q] = req[q] /\ g \notin req'[q].scope
    BY <1>6 DEF IInv, BirthsFit
  <2>2. \A q \in Procs : req[q].scope \subseteq Grants
    BY <1>2 DEF TypeOK, Req
  <2>3. req'[p].scope = {g} /\ g \in begun' /\ begun \subseteq begun'
    BY <1>1, <1>3, <1>6
  <2>4. \A h \in Grants \ begun' : Unborn(h)'
    BY <1>12, <2>3 DEF IInv, BirthsFit
  <2>5. \A q \in Procs : pc'[q] = "resume" =>
          req'[q].scope \subseteq begun' /\ \A h \in req'[q].scope : Unborn(h)'
    BY <1>2, <1>12, <2>1, <2>2, <2>3 DEF IInv, BirthsFit
  <2>6. \A q, x \in Procs : pc'[q] = "resume" /\ pc'[x] = "resume" /\ req'[q].scope \cap req'[x].scope # {} => q = x
    BY <2>1, <2>3 DEF IInv, BirthsFit
  <2> QED  BY <2>4, <2>5, <2>6 DEF BirthsFit
<1>14. ForgetFits'
  BY <1>6, <1>7 DEF IInv, ForgetFits, Dead
<1> QED  BY <1>8, <1>6, <1>9, <1>10, <1>11, <1>13, <1>14 DEF IInv
-----------------------------------------------------------------------------
(* The requests that write.                                                *)

\* What a write makes of a row.
LEMMA WrittenIs ==
  ASSUME IInv, NEW p \in Procs, NEW g \in Writes(p),
         req[p].op \in {"redeem", "refresh", "logout", "delete", "revoke", "replay"}
  PROVE  /\ req[p].op \in {"logout", "revoke", "replay"} =>
               /\ Written(p, g) \in Row /\ Written(p, g).revoked
               /\ Written(p, g).token = req[p].seen[g].token
         /\ req[p].op = "delete" => Written(p, g) = None
         /\ req[p].op \in {"redeem", "refresh"} =>
               /\ Written(p, g) \in Row /\ ~Written(p, g).revoked
               /\ Written(p, g).token = req[p].new
<1>1. req[p].seen[g] \in Row /\ g \in Grants /\ g \in req[p].scope /\ Fits(pc[p], req[p])
  BY WritesSeen DEF IInv, RequestsFit
<1>2. CASE req[p].op \in {"logout", "revoke", "replay"}
  <2>1. Written(p, g) = Revoked(req[p].seen[g])
    BY <1>2 DEF Written
  <2> QED  BY <1>1, <1>2, <2>1 DEF Revoked, Row
<1>3. CASE req[p].op = "delete"
  BY <1>3 DEF Written
<1>4. CASE req[p].op \in {"redeem", "refresh"}
  <2>1. Written(p, g) = [req[p].seen[g] EXCEPT !.token = req[p].new]
    BY <1>4 DEF Written
  <2>2. req[p].new \in Tokens /\ ~req[p].seen[g].revoked
    BY <1>1, <1>4 DEF Fits
  <2> QED  BY <1>1, <1>4, <2>1, <2>2 DEF Row
<1> QED  BY <1>2, <1>3, <1>4

\* A write no other preceded finds the row it saw, or deletes one.
LEMMA UpToDate ==
  ASSUME NEW p \in Procs, NEW g \in req[p].scope, g \notin Outdated(p)
  PROVE  grant[g] = req[p].seen[g] \/ (req[p].op = "delete" /\ req[p].seen[g] # None)
  BY DEF Outdated

\* A request that ends, or goes on with what it read, among requests that stay.
LEMMA RequestsKeep ==
  ASSUME IInv, NEW p \in Procs, NEW where \in {"idle", "forget", "save"}, NEW locals \in {NoReq, req[p]},
         Fits(where, locals), Move(p, where, locals),
         UNCHANGED <<of, made, begun>>,
         handed \subseteq handed', handed' \subseteq handed \cup {req[p].new},
         locals = NoReq \/ handed' = handed,
         \A g \in Grants : Unborn(g) /\ ~(pc[p] = "resume" /\ g \in req[p].scope) =>
            grant'[g] = None /\ g \notin dropped',
         stale \subseteq stale',
         \A g \in Grants : Dead(g) => Dead(g)' \/ g \in stale',
         where = "forget" => \A g \in req[p].scope : Dead(g)' \/ g \in stale'
  PROVE  /\ pc' \in [Procs -> PCs] /\ req' \in [Procs -> Req]
         /\ RequestsFit' /\ ScopesFit' /\ SeenFits' /\ NewFits' /\ BirthsFit' /\ ForgetFits'
<1>1. NoReq \in Req /\ req[p] \in Req /\ where \in PCs
  BY NothingFits DEF IInv, TypeOK, PCs
<1>2. /\ pc' \in [Procs -> PCs] /\ req' \in [Procs -> Req]
      /\ RequestsFit'
      /\ pc'[p] = where /\ req'[p] = locals
      /\ \A q \in Procs \ {p} : pc'[q] = pc[q] /\ req'[q] = req[q]
  BY <1>1, Moved DEF IInv
<1>3. /\ NoReq.ends = {} /\ NoReq.new = None /\ \A g \in Grants : NoReq.seen[g] = None
  BY DEF NoReq, Nothing
<1> HIDE DEF NoReq
<1>4. ScopesFit'
  BY <1>2, <1>3 DEF IInv, ScopesFit
<1>5. SeenFits'
  <2>1. \A g \in Grants : \A row : Issued(g, row) => Issued(g, row)'
    BY DEF Issued
  <2>2. \A g \in Grants : Issued(g, NoReq.seen[g])
    BY <1>3 DEF Issued
  <2>3. \A q \in Procs, g \in Grants : Issued(g, req'[q].seen[g])
    BY <1>2, <2>2 DEF IInv, SeenFits
  <2> QED  BY <2>1, <2>3 DEF SeenFits
<1>6. NewFits'
  <2>1. CASE locals = req[p]
    <3>1. \A q \in Procs : req'[q] = req[q]
      BY <2>1, <1>2
    <3>2. CASE handed' = handed
      BY <3>1, <3>2 DEF IInv, NewFits
    <3>3. CASE handed' # handed
      <4>1. req[p].new = None
        BY <2>1, <3>3, <1>3
      <4> QED  BY <4>1, <3>1 DEF IInv, NewFits
    <3> QED  BY <3>2, <3>3
  <2>2. CASE locals = NoReq
    <3>1. req'[p].new = None
      BY <2>2, <1>2, <1>3
    <3>2. \A q \in Procs \ {p} : req[q].new # None => req[q].new # req[p].new
      BY DEF IInv, NewFits
    <3> QED  BY <3>1, <3>2, <1>2 DEF IInv, NewFits
  <2> QED  BY <2>1, <2>2
<1>7. \A g \in Grants : Unborn(g) /\ grant'[g] = None /\ g \notin dropped' => Unborn(g)'
  BY <1>2, <1>3 DEF Unborn
<1>8. BirthsFit'
  <2>1. pc'[p] # "resume"
    BY <1>2
  <2>2. \A q \in Procs : pc'[q] = "resume" => q # p /\ pc[q] = "resume" /\ req'[q] = req[q]
    BY <1>2, <2>1
  <2>3. \A q \in Procs : req[q].scope \subseteq Grants
    BY DEF IInv, TypeOK, Req
  <2>4. ASSUME NEW g \in Grants \ begun'  PROVE Unborn(g)'
    <3>1. Unborn(g) /\ ~(pc[p] = "resume" /\ g \in req[p].scope)
      BY DEF IInv, BirthsFit
    <3> QED  BY <3>1, <1>7
  <2>5. ASSUME NEW q \in Procs, pc'[q] = "resume"
        PROVE  req'[q].scope \subseteq begun' /\ \A g \in req'[q].scope : Unborn(g)'
    <3>1. pc[q] = "resume" /\ req'[q] = req[q] /\ q # p
      BY <2>5, <2>2
    <3>2. \A g \in req[q].scope : Unborn(g) /\ ~(pc[p] = "resume" /\ g \in req[p].scope)
      BY <3>1 DEF IInv, BirthsFit
    <3>3. \A g \in req[q].scope : Unborn(g)'
      BY <3>2, <2>3, <1>7
    <3> QED  BY <3>1, <3>3 DEF IInv, BirthsFit
  <2>6. \A q, r \in Procs : pc'[q] = "resume" /\ pc'[r] = "resume" /\ req'[q].scope \cap req'[r].scope # {} => q = r
    BY <2>2 DEF IInv, BirthsFit
  <2> QED  BY <2>4, <2>5, <2>6 DEF BirthsFit
<1>9. ForgetFits'
  <2> SUFFICES ASSUME NEW q \in Procs, pc'[q] = "forget", NEW g \in req'[q].scope
               PROVE  Dead(g)' \/ g \in stale'
    BY DEF ForgetFits
  <2>1. CASE q = p
    <3>1. where = "forget" /\ locals = req[p]
      BY <2>1, <1>2 DEF Fits, NoReq
    <3> QED  BY <2>1, <3>1, <1>2
  <2>2. CASE q # p
    <3>1. pc[q] = "forget" /\ g \in req[q].scope /\ g \in Grants
      BY <2>2, <1>2 DEF IInv, TypeOK, Req
    <3>2. Dead(g) \/ g \in stale
      BY <3>1 DEF IInv, ForgetFits
    <3> QED  BY <3>1, <3>2
  <2> QED  BY <2>1, <2>2
<1> QED  BY <1>2, <1>4, <1>5, <1>6, <1>8, <1>9

\* A dead grant stays dead under a write that was up to date.
LEMMA WritesBack ==
  ASSUME IInv, NEW p \in Procs,
         req[p].op \in {"redeem", "refresh", "logout", "delete", "revoke", "replay"},
         grant' = [g \in Grants |-> IF g \in Writes(p) THEN Written(p, g) ELSE grant[g]],
         stale' = stale \cup Outdated(p),
         dropped \subseteq dropped', req[p].op = "delete" => Writes(p) \subseteq dropped'
  PROVE  \A g \in Grants : Dead(g) => Dead(g)' \/ g \in stale'
<1> SUFFICES ASSUME NEW g \in Grants, Dead(g), g \notin stale'
             PROVE  Dead(g)'
  OBVIOUS
<1>1. CASE g \notin Writes(p)
  BY <1>1 DEF Dead
<1>2. CASE g \in Writes(p)
  <2>1. grant'[g] = Written(p, g) /\ g \notin Outdated(p)
    BY <1>2
  <2>2. g \in req[p].scope /\ req[p].seen[g] \in Row /\ Fits(pc[p], req[p])
    BY <1>2, WritesSeen DEF IInv, RequestsFit
  <2>3. grant[g] = req[p].seen[g] \/ req[p].op = "delete"
    BY <2>1, <2>2, UpToDate
  <2>4. CASE req[p].op \in {"logout", "revoke", "replay"}
    BY <2>1, <2>4, <1>2, WrittenIs DEF Dead
  <2>5. CASE req[p].op = "delete"
    BY <2>1, <2>5, <1>2, WrittenIs DEF Dead
  <2>6. CASE req[p].op \in {"redeem", "refresh"}
    <3>1. ~req[p].seen[g].revoked /\ req[p].seen[g] # None
      BY <2>2, <2>6 DEF Fits
    <3> QED  BY <2>3, <2>6, <3>1 DEF Dead
  <2> QED  BY <2>4, <2>5, <2>6
<1> QED  BY <1>1, <1>2

\* A grant nobody has seen is written by nobody.
LEMMA UnbornUnwritten ==
  ASSUME NEW p \in Procs, NEW g \in Grants, Unborn(g)
  PROVE  g \notin Writes(p)
  BY DEF Unborn, Writes

\* A rotation and its sweep keep the records of tokens the engine would take.
LEMMA RetainKeeps ==
  ASSUME IInv, NEW t \in handed, NEW g \in Grants, Retain(t, g)
  PROVE  /\ superseded' \in [Tokens -> Grants \cup {None}]
         /\ \A x \in Tokens : superseded'[x] # None => x \in handed
         /\ Valid(t) => superseded'[t] = g
         /\ \A x \in handed \ {t} :
               /\ superseded[x] = None => superseded'[x] = None
               /\ Valid(x) => superseded'[x] = superseded[x]
<1>1. /\ TypeOK /\ handed \subseteq Tokens
      /\ \A x \in handed : made[x] \in Made
      /\ \A x \in Tokens : superseded[x] # None => x \in handed
  BY DEF IInv, TypeOK, HandedFit
<1>2. PICK gone \in SUBSET Expired(Retained(t, g)) :
        superseded' = [x \in Tokens |-> IF x \in gone THEN None ELSE Retained(t, g)[x]]
  BY DEF Retain
<1>3. /\ Retained(t, g) \in [Tokens -> Grants \cup {None}]
      /\ Retained(t, g)[t] = g
      /\ \A x \in Tokens \ {t} : Retained(t, g)[x] = superseded[x]
  BY <1>1 DEF Retained, TypeOK
<1>4. \A x \in handed : Valid(x) => x \notin gone
  BY <1>1, <1>2 DEF Expired, Valid, TypeOK, Made
<1> QED  BY <1>1, <1>2, <1>3, <1>4

\* A history that is dropped leaves the others'.
LEMMA ForgottenIs ==
  ASSUME TypeOK, NEW gs, superseded' = Forgotten(gs)
  PROVE  /\ superseded' \in [Tokens -> Grants \cup {None}]
         /\ \A x \in Tokens : superseded'[x] = IF superseded[x] \in gs THEN None ELSE superseded[x]
  BY DEF TypeOK, Forgotten

LEMMA CreateGrantKeeps ==
  ASSUME IInv, NEW p \in Procs, CreateGrant(p), UNCHANGED fixed
  PROVE  IInv' /\ \A h \in Grants : Dead(h) => Dead(h)' \/ h \in stale'
<1>1. PICK g \in req[p].scope :
        /\ grant' = [grant EXCEPT ![g] = [token |-> None, revoked |-> FALSE]]
        /\ stale' = stale \cup (IF session[of[g].session] = "live" THEN {} ELSE {g})
  BY DEF CreateGrant
<1>2. /\ pc[p] = "resume" /\ Leave(p)
      /\ UNCHANGED <<owner, of, superseded, session, lock, now, begun, made, handed, swept, dropped, replayed>>
  BY DEF CreateGrant, tokens, fixed
<1>3. TypeOK /\ g \in Grants /\ Unborn(g)
  BY <1>2 DEF IInv, TypeOK, Req, BirthsFit
<1>4. [token |-> None, revoked |-> FALSE] \in Row
  BY DEF Row
<1>5. /\ grant' \in [Grants -> Row \cup {None}]
      /\ grant'[g] # None /\ grant'[g].token = None /\ ~grant'[g].revoked
      /\ \A h \in Grants \ {g} : grant'[h] = grant[h]
      /\ stale \subseteq stale' /\ stale' \subseteq Grants
  BY <1>1, <1>3, <1>4 DEF TypeOK
<1>6. \A h \in Grants : Dead(h) => Dead(h)' \/ h \in stale'
  BY <1>2, <1>3, <1>5 DEF Dead, Unborn
<1>7. /\ pc' \in [Procs -> PCs] /\ req' \in [Procs -> Req]
      /\ RequestsFit' /\ ScopesFit' /\ SeenFits' /\ NewFits' /\ BirthsFit' /\ ForgetFits'
  <2>1. Fits("idle", NoReq) /\ Move(p, "idle", NoReq)
    BY <1>2, NothingFits DEF Leave
  <2>2. \A h \in Grants : Unborn(h) /\ ~(pc[p] = "resume" /\ h \in req[p].scope) =>
            grant'[h] = None /\ h \notin dropped'
    BY <1>2, <1>5 DEF Unborn
  <2>3. "idle" \in {"idle", "forget", "save"} /\ NoReq \in {NoReq, req[p]} /\ stale \subseteq stale'
        /\ UNCHANGED <<of, made, begun>> /\ handed' = handed
    BY <1>2, <1>5
  <2> HIDE DEF NoReq
  <2> QED  BY <2>1, <2>2, <2>3, <1>6, RequestsKeep
<1>8. TypeOK'
  BY <1>2, <1>3, <1>5, <1>7 DEF TypeOK
<1>9. HandedFit' /\ SweptFits'
  BY <1>2, <1>5 DEF IInv, HandedFit, SweptFits, Issued
<1>10. SignOutReachesGrants'
  BY <1>1, <1>2, <1>3, <1>5 DEF IInv, SignOutReachesGrants, SweptFits, Live
<1>11. \A t \in handed : made[t].grant \in Grants \ {g}
  BY <1>3 DEF IInv, TypeOK, HandedFit, Unborn, Made
<1>12. Unspent' /\ ExchangedOnce'
  BY <1>2, <1>5, <1>11 DEF IInv, Unspent, ExchangedOnce
<1>13. ReplaysAreToldApart'
  BY <1>2, <1>5, <1>11 DEF IInv, ReplaysAreToldApart, Live, Valid
<1> QED  BY <1>6, <1>7, <1>8, <1>9, <1>10, <1>12, <1>13 DEF IInv

LEMMA RevokeRetainKeeps ==
  ASSUME IInv, NEW p \in Procs, RevokeRetain(p), UNCHANGED fixed
  PROVE  IInv'
<1>1. PICK g \in req[p].scope :
        IF grant[g] # None /\ grant[g].token \notin {None, req[p].seen[g].token}
          THEN Retain(grant[g].token, g) /\ stale' = stale \cup {g}
          ELSE UNCHANGED <<superseded, stale>>
  BY DEF RevokeRetain
<1>2. /\ pc[p] = "retain" /\ Goto(p, "save") /\ UNCHANGED req
      /\ UNCHANGED <<owner, of, grant, session, lock, now, begun, made, handed, swept, dropped, replayed>>
  BY DEF RevokeRetain, tokens, fixed
<1>3. TypeOK /\ g \in Grants /\ Fits("retain", req[p])
  BY <1>2 DEF IInv, TypeOK, Req, RequestsFit
<1>4. /\ superseded' \in [Tokens -> Grants \cup {None}]
      /\ \A x \in Tokens : superseded'[x] # None => x \in handed
      /\ stale \subseteq stale' /\ stale' \subseteq Grants
      /\ \A x \in handed : made[x].grant \notin stale' =>
            /\ superseded[x] = None => superseded'[x] = None
            /\ Valid(x) => superseded'[x] = superseded[x]
  <2>1. CASE UNCHANGED <<superseded, stale>>
    BY <2>1, <1>3 DEF IInv, TypeOK, HandedFit
  <2>2. CASE grant[g] # None /\ grant[g].token # None /\ Retain(grant[g].token, g) /\ stale' = stale \cup {g}
    <3>1. grant[g].token \in handed /\ made[grant[g].token].grant = g
      BY <1>3, <2>2 DEF IInv, HandedFit, Issued
    <3>2. \A x \in handed : made[x].grant \notin stale' => x # grant[g].token
      BY <2>2, <3>1
    <3> QED  BY <1>3, <2>2, <3>1, <3>2, RetainKeeps DEF TypeOK
  <2> QED  BY <1>1, <2>1, <2>2
<1>5. /\ pc' \in [Procs -> PCs] /\ req' \in [Procs -> Req]
      /\ RequestsFit' /\ ScopesFit' /\ SeenFits' /\ NewFits' /\ BirthsFit' /\ ForgetFits'
  <2>1. Fits("save", req[p])
    BY <1>3 DEF Fits
  <2>2. Move(p, "save", req[p])
    BY <1>2, <1>3, GotoMoves
  <2>3. \A h \in Grants : Unborn(h) => grant'[h] = None /\ h \notin dropped'
    BY <1>2 DEF Unborn
  <2>4. \A h \in Grants : Dead(h) => Dead(h)' \/ h \in stale'
    BY <1>2 DEF Dead
  <2>5. "save" \in {"idle", "forget", "save"} /\ req[p] \in {NoReq, req[p]} /\ stale \subseteq stale'
        /\ UNCHANGED <<of, made, begun>> /\ handed' = handed
    BY <1>2, <1>4
  <2> QED  BY <2>1, <2>2, <2>3, <2>4, <2>5, RequestsKeep
<1>6. TypeOK'
  BY <1>2, <1>3, <1>4, <1>5 DEF TypeOK
<1>7. HandedFit' /\ SweptFits'
  BY <1>2, <1>4 DEF IInv, HandedFit, SweptFits, Issued
<1>8. SignOutReachesGrants' /\ Unspent' /\ ExchangedOnce'
  BY <1>2, <1>4 DEF IInv, SignOutReachesGrants, Unspent, ExchangedOnce, Live
<1>9. ReplaysAreToldApart'
  BY <1>2, <1>4 DEF IInv, ReplaysAreToldApart, Live, Valid
<1> QED  BY <1>5, <1>6, <1>7, <1>8, <1>9 DEF IInv

LEMMA SaveRevokedKeeps ==
  ASSUME IInv, NEW p \in Procs, SaveRevoked(p), UNCHANGED fixed
  PROVE  IInv' /\ \A h \in Grants : Dead(h) => Dead(h)' \/ h \in stale'
<1> DEFINE W == Writes(p)
<1>1. /\ pc[p] = "save"
      /\ grant' = [h \in Grants |-> IF h \in W THEN Written(p, h) ELSE grant[h]]
      /\ stale' = stale \cup Outdated(p)
      /\ UNCHANGED <<owner, of, superseded, session, lock, now, begun, made, handed, swept, dropped, replayed>>
  BY DEF SaveRevoked, tokens, fixed
<1>2. TypeOK /\ Fits("save", req[p]) /\ req[p].op \in {"revoke", "replay"}
  BY <1>1 DEF IInv, RequestsFit, Fits
<1>3. W \subseteq Grants /\ \A h \in W : h \in req[p].scope /\ req[p].seen[h] \in Row
  BY <1>2, WritesSeen
<1>4. \A h \in W : /\ Written(p, h) \in Row /\ Written(p, h).revoked
                   /\ Written(p, h).token = req[p].seen[h].token
  BY <1>2, WrittenIs
<1>5. \A h \in W : h \notin stale' => grant[h] = req[p].seen[h]
  BY <1>1, <1>2, <1>3, UpToDate
<1> HIDE DEF W
<1>6. /\ grant' \in [Grants -> Row \cup {None}]
      /\ \A h \in Grants \ W : grant'[h] = grant[h]
      /\ \A h \in W : grant'[h] \in Row /\ grant'[h].revoked /\ grant'[h].token = req[p].seen[h].token
  BY <1>1, <1>2, <1>3, <1>4 DEF TypeOK
<1>7. Outdated(p) \subseteq Grants /\ stale \subseteq stale'
  BY <1>1, <1>2 DEF TypeOK, Req, Outdated
<1>8. \A h \in Grants : Dead(h) => Dead(h)' \/ h \in stale'
  BY <1>1, <1>2, WritesBack DEF W
<1>9. \A h \in Grants : Unborn(h) => grant'[h] = None /\ h \notin dropped'
  BY <1>1, <1>6, UnbornUnwritten DEF W, Unborn
<1>10. /\ pc' \in [Procs -> PCs] /\ req' \in [Procs -> Req]
       /\ RequestsFit' /\ ScopesFit' /\ SeenFits' /\ NewFits' /\ BirthsFit' /\ ForgetFits'
  <2>1. CASE req[p].op = "replay"
    <3>1. Goto(p, "forget") /\ UNCHANGED req
      BY <2>1 DEF SaveRevoked
    <3>2. Move(p, "forget", req[p])
      BY <1>2, <3>1, GotoMoves
    <3>3. Fits("forget", req[p])
      BY <1>2, <2>1 DEF Fits
    <3>4. \A h \in req[p].scope : Dead(h)' \/ h \in stale'
      <4> SUFFICES ASSUME NEW h \in req[p].scope, h \notin stale'
                   PROVE  Dead(h)'
        OBVIOUS
      <4>1. h \in Grants /\ req[p].seen[h] \in Row
        BY <1>2 DEF Fits, TypeOK, Req
      <4>2. CASE h \in W
        BY <4>2, <1>6 DEF Dead
      <4>3. CASE h \notin W
        <5>1. req[p].seen[h].revoked
          BY <4>1, <4>3, <2>1 DEF W, Writes
        <5>2. grant[h] = req[p].seen[h]
          BY <1>1, <2>1, UpToDate
        <5> QED  BY <4>1, <4>3, <5>1, <5>2, <1>6 DEF Dead
      <4> QED  BY <4>2, <4>3
    <3>5. "forget" \in {"idle", "forget", "save"} /\ req[p] \in {NoReq, req[p]}
          /\ UNCHANGED <<of, made, begun>> /\ handed' = handed
      BY <1>1
    <3> QED  BY <3>2, <3>3, <3>4, <3>5, <1>7, <1>8, <1>9, RequestsKeep
  <2>2. CASE req[p].op # "replay"
    <3>1. Fits("idle", NoReq) /\ Move(p, "idle", NoReq)
      BY <2>2, NothingFits DEF Leave, SaveRevoked
    <3>2. "idle" \in {"idle", "forget", "save"} /\ NoReq \in {NoReq, req[p]}
          /\ UNCHANGED <<of, made, begun>> /\ handed' = handed
      BY <1>1
    <3> HIDE DEF NoReq
    <3> QED  BY <3>1, <3>2, <1>7, <1>8, <1>9, RequestsKeep
  <2> QED  BY <2>1, <2>2
<1>11. TypeOK'
  BY <1>1, <1>2, <1>6, <1>7, <1>10 DEF TypeOK
<1>12. HandedFit'
  <2>1. \A h \in Grants : Issued(h, grant'[h])
    BY <1>3, <1>6 DEF IInv, HandedFit, SeenFits, Issued
  <2> QED  BY <1>1, <2>1 DEF IInv, HandedFit, Issued
<1>13. SweptFits' /\ SignOutReachesGrants'
  BY <1>1, <1>6, <1>7 DEF IInv, SweptFits, SignOutReachesGrants, Live
<1>14. Unspent'
  <2> SUFFICES ASSUME NEW u \in handed, made[u].grant \notin stale', grant'[made[u].grant] # None
               PROVE  grant'[made[u].grant].token # made[u].by
    BY <1>1 DEF Unspent
  <2>1. made[u].grant \in Grants
    BY <1>2 DEF IInv, HandedFit, TypeOK, Made
  <2>2. CASE made[u].grant \in W
    BY <2>2, <1>3, <1>5, <1>6, <1>7 DEF IInv, Unspent
  <2>3. CASE made[u].grant \notin W
    BY <2>1, <2>3, <1>6, <1>7 DEF IInv, Unspent
  <2> QED  BY <2>2, <2>3
<1>15. ExchangedOnce'
  BY <1>1, <1>7 DEF IInv, ExchangedOnce
<1>16. ReplaysAreToldApart'
  <2> SUFFICES ASSUME NEW t \in handed, Live(made[t].grant)', made[t].grant \notin stale'
               PROVE  /\ Valid(t) => grant'[made[t].grant].token = t \/ superseded[t] = made[t].grant
                      /\ grant'[made[t].grant].token = t => superseded[t] = None
    BY <1>1 DEF ReplaysAreToldApart, Valid
  <2>1. made[t].grant \in Grants \ W /\ made'[t] = made[t]
    BY <1>1, <1>2, <1>6 DEF IInv, HandedFit, TypeOK, Made, Live
  <2>2. grant'[made[t].grant] = grant[made[t].grant] /\ Live(made[t].grant)
    BY <2>1, <1>1, <1>6 DEF Live
  <2> QED  BY <2>2, <1>7 DEF IInv, ReplaysAreToldApart
<1> QED  BY <1>8, <1>10, <1>11, <1>12, <1>13, <1>14, <1>15, <1>16 DEF IInv

LEMMA ReplayForgetKeeps ==
  ASSUME IInv, NEW p \in Procs, ReplayForget(p), UNCHANGED fixed
  PROVE  IInv'
<1>1. /\ pc[p] = "forget" /\ superseded' = Forgotten(req[p].scope) /\ Leave(p)
      /\ replayed' = replayed \cup req[p].scope
      /\ UNCHANGED <<owner, of, grant, session, lock, now, begun, made, handed, stale, swept, dropped>>
  BY DEF ReplayForget, tokens, fixed
<1>2. TypeOK /\ req[p].scope \subseteq Grants
  BY DEF IInv, TypeOK, Req
<1>3. /\ superseded' \in [Tokens -> Grants \cup {None}]
      /\ \A x \in Tokens : superseded'[x] = IF superseded[x] \in req[p].scope THEN None ELSE superseded[x]
  BY <1>1, <1>2, ForgottenIs
<1>4. \A g \in req[p].scope : g \in stale \/ ~Live(g)
  BY <1>1 DEF IInv, ForgetFits, Dead, Live
<1>5. /\ pc' \in [Procs -> PCs] /\ req' \in [Procs -> Req]
      /\ RequestsFit' /\ ScopesFit' /\ SeenFits' /\ NewFits' /\ BirthsFit' /\ ForgetFits'
  <2>1. Fits("idle", NoReq) /\ Move(p, "idle", NoReq)
    BY <1>1, NothingFits DEF Leave
  <2>2. \A h \in Grants : Unborn(h) => grant'[h] = None /\ h \notin dropped'
    BY <1>1 DEF Unborn
  <2>3. \A h \in Grants : Dead(h) => Dead(h)' \/ h \in stale'
    BY <1>1 DEF Dead
  <2>4. "idle" \in {"idle", "forget", "save"} /\ NoReq \in {NoReq, req[p]}
        /\ UNCHANGED <<of, made, begun, stale>> /\ handed' = handed
    BY <1>1
  <2> HIDE DEF NoReq
  <2> QED  BY <2>1, <2>2, <2>3, <2>4, RequestsKeep
<1>6. TypeOK'
  BY <1>1, <1>2, <1>3, <1>5 DEF TypeOK
<1>7. HandedFit' /\ SweptFits'
  BY <1>1, <1>3 DEF IInv, HandedFit, SweptFits, Issued
<1>8. SignOutReachesGrants' /\ Unspent' /\ ExchangedOnce'
  BY <1>1 DEF IInv, SignOutReachesGrants, Unspent, ExchangedOnce, Live
<1>9. ReplaysAreToldApart'
  BY <1>1, <1>2, <1>3, <1>4 DEF IInv, TypeOK, ReplaysAreToldApart, Live, Valid
<1> QED  BY <1>5, <1>6, <1>7, <1>8, <1>9 DEF IInv

LEMMA EndElsewhereKeeps ==
  ASSUME IInv, NEW s \in Sessions, EndElsewhere(s), UNCHANGED fixed
  PROVE  IInv'
<1>1. /\ session' = [session EXCEPT ![s] = "over"]
      /\ UNCHANGED <<owner, of, grant, superseded, lock, now, begun, made, handed,
                     stale, swept, dropped, replayed, pc, req>>
  BY DEF EndElsewhere, tokens, fixed, history
<1>2. TypeOK' /\ SweptFits'
  BY <1>1 DEF IInv, TypeOK, SweptFits
<1>3. RequestsFit' /\ ScopesFit' /\ SeenFits' /\ NewFits' /\ BirthsFit' /\ ForgetFits'
  BY <1>1 DEF IInv, RequestsFit, ScopesFit, SeenFits, NewFits, BirthsFit, ForgetFits, Issued, Unborn, Dead
<1>4. HandedFit' /\ SignOutReachesGrants' /\ Unspent' /\ ExchangedOnce' /\ ReplaysAreToldApart'
  BY <1>1 DEF IInv, HandedFit, SignOutReachesGrants, Unspent, ExchangedOnce, ReplaysAreToldApart, Issued, Live, Valid
<1> QED  BY <1>2, <1>3, <1>4 DEF IInv

LEMMA TickKeeps ==
  ASSUME IInv, Tick, UNCHANGED fixed
  PROVE  IInv'
<1>1. /\ now' = now + 1
      /\ UNCHANGED <<owner, of, grant, superseded, session, lock, begun, made, handed,
                     stale, swept, dropped, replayed, pc, req>>
  BY DEF Tick, rows, tokens, fixed, history
<1>2. TypeOK' /\ SweptFits'
  BY <1>1 DEF IInv, TypeOK, SweptFits
<1>3. RequestsFit' /\ ScopesFit' /\ SeenFits' /\ NewFits' /\ BirthsFit' /\ ForgetFits'
  BY <1>1 DEF IInv, RequestsFit, ScopesFit, SeenFits, NewFits, BirthsFit, ForgetFits, Issued, Unborn, Dead
<1>4. HandedFit' /\ SignOutReachesGrants' /\ Unspent' /\ ExchangedOnce'
  BY <1>1 DEF IInv, HandedFit, SignOutReachesGrants, Unspent, ExchangedOnce, Issued, Live
<1>5. ReplaysAreToldApart'
  <2>1. \A t \in handed : Valid(t)' => Valid(t)
    BY <1>1 DEF IInv, HandedFit, TypeOK, Made, Valid
  <2> QED  BY <1>1, <2>1 DEF IInv, ReplaysAreToldApart, Live
<1> QED  BY <1>2, <1>3, <1>4, <1>5 DEF IInv
-----------------------------------------------------------------------------
(* The commit.                                                             *)

\* A transaction that commits is a sign-out or an exchange.
CommitOps == {"redeem", "refresh", "logout", "delete"}

\* What a commit does to the state, told apart by what it is about.
LEMMA CommitDoes ==
  ASSUME IInv, NEW p \in Procs, Commit(p), UNCHANGED fixed
  PROVE  /\ req[p].op \in CommitOps /\ Fits("commit", req[p])
         /\ UNCHANGED <<owner, of, now, begun, made, replayed>>
         /\ grant' \in [Grants -> Row \cup {None}]
         /\ Writes(p) \subseteq Grants
         /\ \A g \in Grants : grant'[g] = IF g \in Writes(p) THEN Written(p, g) ELSE grant[g]
         /\ session' \in [Sessions -> {"live", "over", "gone"}]
         /\ \A s \in Sessions : IF s \in req[p].ends THEN session'[s] # "live" ELSE session'[s] = session[s]
         /\ handed' = handed \cup ({req[p].new} \ {None}) /\ handed' \subseteq Tokens
         /\ stale' = stale \cup Outdated(p) /\ stale' \subseteq Grants
         /\ swept' = swept \cup req[p].ends /\ swept' \subseteq Sessions
         /\ dropped \subseteq dropped' /\ dropped' \subseteq dropped \cup Writes(p)
         /\ req[p].op = "delete" => Writes(p) \subseteq dropped'
<1>1. TypeOK /\ req[p] \in Req /\ Fits("commit", req[p])
  BY DEF IInv, TypeOK, RequestsFit, Commit
<1>2. req[p].op \in CommitOps
  BY <1>1 DEF Fits, CommitOps
<1>3. Writes(p) \subseteq Grants /\ Outdated(p) \subseteq Grants
  BY <1>1, WritesSeen DEF Req, Outdated
<1>4. \A g \in Writes(p) : Written(p, g) \in Row \cup {None}
  BY <1>2, WrittenIs DEF CommitOps
<1>5. /\ grant' \in [Grants -> Row \cup {None}]
      /\ \A g \in Grants : grant'[g] = IF g \in Writes(p) THEN Written(p, g) ELSE grant[g]
  BY <1>1, <1>4 DEF Commit, TypeOK
<1>6. /\ session' \in [Sessions -> {"live", "over", "gone"}]
      /\ \A s \in Sessions : IF s \in req[p].ends THEN session'[s] # "live" ELSE session'[s] = session[s]
  BY <1>1 DEF Commit, TypeOK
<1>7. /\ handed' = handed \cup ({req[p].new} \ {None}) /\ handed' \subseteq Tokens
      /\ stale' = stale \cup Outdated(p) /\ stale' \subseteq Grants
      /\ swept' = swept \cup req[p].ends /\ swept' \subseteq Sessions
  BY <1>1, <1>3 DEF Commit, TypeOK, Req
<1>8. /\ dropped \subseteq dropped' /\ dropped' \subseteq dropped \cup Writes(p)
      /\ req[p].op = "delete" => Writes(p) \subseteq dropped'
  BY DEF Commit
<1>9. UNCHANGED <<owner, of, now, begun, made, replayed>>
  BY DEF Commit, fixed
<1> QED  BY <1>1, <1>2, <1>3, <1>5, <1>6, <1>7, <1>8, <1>9

\* What an exchange hands out, and for what.
LEMMA ExchangeDoes ==
  ASSUME IInv, NEW p \in Procs, Commit(p), UNCHANGED fixed, req[p].op \in {"redeem", "refresh"}
  PROVE  \E g \in Grants, t \in Tokens :
            /\ req[p].scope = {g} /\ Writes(p) = {g} /\ req[p].new = t
            /\ t \notin handed /\ handed' = handed \cup {t}
            /\ made[t] # None /\ made[t].grant = g /\ made[t].by = req[p].seen[g].token
            /\ req[p].seen[g] \in Row /\ ~req[p].seen[g].revoked
            /\ req[p].seen[g].token # None => req[p].seen[g].token \in handed /\ made[req[p].seen[g].token].grant = g
            /\ grant'[g] \in Row /\ ~grant'[g].revoked /\ grant'[g].token = t
            /\ \A h \in Grants \ {g} : grant'[h] = grant[h]
            /\ g \notin stale' => grant[g] = req[p].seen[g]
<1>1. Fits("commit", req[p]) /\ handed' = handed \cup ({req[p].new} \ {None}) /\ stale' = stale \cup Outdated(p)
      /\ \A h \in Grants : grant'[h] = IF h \in Writes(p) THEN Written(p, h) ELSE grant[h]
  BY CommitDoes
<1>2. PICK g \in Grants : req[p].scope = {g} /\ req[p].seen[g] # None /\ ~req[p].seen[g].revoked
  BY <1>1 DEF Fits
<1>3. PICK t \in Tokens : t = req[p].new
  BY <1>1 DEF Fits
<1>4. req[p].seen[g] \in Row /\ Writes(p) = {g}
  BY <1>2 DEF IInv, TypeOK, Req, Writes
<1>5. /\ t \notin handed /\ handed' = handed \cup {t}
      /\ made[t] # None /\ made[t].grant = g /\ made[t].by = req[p].seen[g].token
  BY <1>1, <1>2, <1>3 DEF IInv, NewFits
<1>6. req[p].seen[g].token # None => req[p].seen[g].token \in handed /\ made[req[p].seen[g].token].grant = g
  BY <1>2 DEF IInv, SeenFits, Issued
<1>7. grant'[g] \in Row /\ ~grant'[g].revoked /\ grant'[g].token = t
  BY <1>1, <1>3, <1>4, WrittenIs
<1>8. \A h \in Grants \ {g} : grant'[h] = grant[h]
  BY <1>1, <1>4
<1>9. g \notin stale' => grant[g] = req[p].seen[g]
  BY <1>1, <1>2, UpToDate
<1> QED  BY <1>2, <1>3, <1>4, <1>5, <1>6, <1>7, <1>8, <1>9

\* ... and a sign-out hands out nothing.
LEMMA SignOutDoes ==
  ASSUME IInv, NEW p \in Procs, Commit(p), UNCHANGED fixed, req[p].op \in {"logout", "delete"}
  PROVE  /\ handed' = handed
         /\ \A g \in Writes(p) :
               /\ grant'[g] # None => grant'[g] \in Row /\ grant'[g].revoked /\ grant'[g].token = req[p].seen[g].token
               /\ grant'[g] # None /\ g \notin stale' => grant[g] = req[p].seen[g]
               /\ req[p].seen[g] \in Row
         /\ req[p].op = "delete" => \A g \in Writes(p) : grant'[g] = None
<1>1. Fits("commit", req[p]) /\ handed' = handed \cup ({req[p].new} \ {None}) /\ stale' = stale \cup Outdated(p)
      /\ Writes(p) \subseteq Grants
      /\ \A h \in Grants : grant'[h] = IF h \in Writes(p) THEN Written(p, h) ELSE grant[h]
  BY CommitDoes
<1>2. handed' = handed
  BY <1>1 DEF Fits
<1>3. \A g \in Writes(p) : req[p].seen[g] \in Row /\ g \in req[p].scope
  BY WritesSeen DEF IInv
<1>4. \A g \in Writes(p) :
        /\ req[p].op = "delete" => Written(p, g) = None
        /\ req[p].op = "logout" => /\ Written(p, g) \in Row /\ Written(p, g).revoked
                                   /\ Written(p, g).token = req[p].seen[g].token
  BY WrittenIs
<1>5. \A g \in Writes(p) : req[p].op = "logout" /\ g \notin stale' => grant[g] = req[p].seen[g]
  BY <1>1, <1>3, UpToDate
<1> QED  BY <1>1, <1>2, <1>3, <1>4, <1>5

LEMMA CommitKeepsSuperseded ==
  ASSUME IInv, NEW p \in Procs, Commit(p), UNCHANGED fixed
  PROVE  /\ superseded' \in [Tokens -> Grants \cup {None}]
         /\ \A x \in Tokens : superseded'[x] # None => x \in handed
         /\ \A x \in handed : superseded[x] = None =>
               superseded'[x] = None \/ (req[p].op = "refresh" /\ \E g \in req[p].scope : x = req[p].seen[g].token)
         /\ \A x \in handed, g \in Grants : superseded[x] = g /\ Valid(x) =>
               \/ superseded'[x] = g
               \/ req[p].op = "delete" /\ g \in Writes(p)
               \/ req[p].op = "refresh" /\ \E h \in req[p].scope : x = req[p].seen[h].token
         /\ req[p].op = "refresh" =>
               \A g \in req[p].scope : Valid(req[p].seen[g].token) => superseded'[req[p].seen[g].token] = g
<1>1. TypeOK /\ \A x \in Tokens : superseded[x] # None => x \in handed
  BY DEF IInv, HandedFit
<1>2. handed \subseteq Tokens
  BY <1>1 DEF TypeOK
<1>3. req[p].op \in CommitOps
  BY CommitDoes
<1>4. CASE req[p].op = "refresh"
  <2>1. PICK g \in Grants : req[p].scope = {g}
    BY <1>4, ExchangeDoes
  <2>2. Retain(req[p].seen[g].token, g)
    BY <1>4, <2>1 DEF Commit, Superseding
  <2>3. req[p].seen[g].token \in handed
    <3>1. Fits("commit", req[p])
      BY CommitDoes
    <3>2. req[p].seen[g].token # None /\ req[p].seen[g] # None
      BY <1>4, <2>1, <3>1 DEF Fits
    <3> QED  BY <3>2 DEF IInv, SeenFits, Issued
  <2>4. PICK t \in handed : t = req[p].seen[g].token
    BY <2>3
  <2>5. /\ superseded' \in [Tokens -> Grants \cup {None}]
        /\ \A x \in Tokens : superseded'[x] # None => x \in handed
        /\ Valid(t) => superseded'[t] = g
        /\ \A x \in handed \ {t} :
               /\ superseded[x] = None => superseded'[x] = None
               /\ Valid(x) => superseded'[x] = superseded[x]
    BY <2>2, <2>4, RetainKeeps
  <2> QED  BY <1>4, <2>1, <2>4, <2>5
<1>5. CASE req[p].op = "delete"
  <2>1. superseded' = Forgotten(Writes(p))
    BY <1>5 DEF Commit, Superseding
  <2>2. None \notin Writes(p)
    BY <1>1, WritesSeen
  <2> QED  BY <1>1, <1>2, <1>5, <2>1, <2>2, ForgottenIs
<1>6. CASE req[p].op \in {"redeem", "logout"}
  <2>1. superseded' = superseded
    BY <1>6 DEF Commit, Superseding
  <2> QED  BY <1>1, <1>6, <2>1 DEF TypeOK
<1> QED  BY <1>3, <1>4, <1>5, <1>6 DEF CommitOps

LEMMA CommitKeeps ==
  ASSUME IInv, NEW p \in Procs, Commit(p), UNCHANGED fixed
  PROVE  IInv' /\ \A h \in Grants : Dead(h) => Dead(h)' \/ h \in stale'
<1> DEFINE r == req[p]
           W == Writes(p)
<1>1. /\ r.op \in CommitOps /\ Fits("commit", r)
      /\ UNCHANGED <<owner, of, now, begun, made, replayed>>
      /\ grant' \in [Grants -> Row \cup {None}]
      /\ W \subseteq Grants
      /\ \A g \in Grants : grant'[g] = IF g \in W THEN Written(p, g) ELSE grant[g]
      /\ session' \in [Sessions -> {"live", "over", "gone"}]
      /\ \A s \in Sessions : IF s \in r.ends THEN session'[s] # "live" ELSE session'[s] = session[s]
      /\ handed' = handed \cup ({r.new} \ {None}) /\ handed' \subseteq Tokens
      /\ stale' = stale \cup Outdated(p) /\ stale' \subseteq Grants
      /\ swept' = swept \cup r.ends /\ swept' \subseteq Sessions
      /\ dropped \subseteq dropped' /\ dropped' \subseteq dropped \cup W
      /\ r.op = "delete" => W \subseteq dropped'
  BY CommitDoes
<1>2. TypeOK /\ (r.op \in {"redeem", "refresh"} \/ r.op \in {"logout", "delete"})
  BY <1>1 DEF IInv, CommitOps
<1>3. \A h \in Grants : Dead(h) => Dead(h)' \/ h \in stale'
  <2>1. grant' = [g \in Grants |-> IF g \in W THEN Written(p, g) ELSE grant[g]]
    BY DEF Commit
  <2> QED  BY <1>1, <2>1, WritesBack DEF CommitOps
<1>4. /\ pc' \in [Procs -> PCs] /\ req' \in [Procs -> Req]
      /\ RequestsFit' /\ ScopesFit' /\ SeenFits' /\ NewFits' /\ BirthsFit' /\ ForgetFits'
  <2>1. Fits("idle", NoReq) /\ Move(p, "idle", NoReq)
    BY NothingFits DEF Commit, Leave
  <2>2. \A h \in Grants : Unborn(h) => h \notin W
    BY UnbornUnwritten
  <2>3. \A h \in Grants : Unborn(h) => grant'[h] = None /\ h \notin dropped'
    BY <1>1, <2>2 DEF Unborn
  <2>4. "idle" \in {"idle", "forget", "save"} /\ NoReq \in {NoReq, r} /\ stale \subseteq stale'
        /\ UNCHANGED <<of, made, begun>> /\ handed \subseteq handed' /\ handed' \subseteq handed \cup {r.new}
    BY <1>1
  <2> HIDE DEF NoReq, W
  <2> QED  BY <2>1, <2>3, <2>4, <1>3, RequestsKeep
<1>5. /\ superseded' \in [Tokens -> Grants \cup {None}]
      /\ \A x \in Tokens : superseded'[x] # None => x \in handed
      /\ \A x \in handed : superseded[x] = None =>
            superseded'[x] = None \/ (r.op = "refresh" /\ \E g \in r.scope : x = r.seen[g].token)
      /\ \A x \in handed, g \in Grants : superseded[x] = g /\ Valid(x) =>
            \/ superseded'[x] = g
            \/ r.op = "delete" /\ g \in W
            \/ r.op = "refresh" /\ \E h \in r.scope : x = r.seen[h].token
      /\ r.op = "refresh" =>
            \A g \in r.scope : Valid(r.seen[g].token) => superseded'[r.seen[g].token] = g
  BY CommitKeepsSuperseded
<1>6. TypeOK'
  <2>1. lock' \in [Grants -> Procs \cup {None}] /\ dropped' \subseteq Grants
    BY <1>1, <1>2, ReleaseTyped DEF Commit, TypeOK
  <2> QED  BY <1>1, <1>2, <1>4, <1>5, <2>1 DEF TypeOK
<1>7. \A t \in handed : made[t] \in Made /\ made[t].grant \in Grants
  BY <1>2 DEF IInv, HandedFit, TypeOK, Made
<1>8. SweptFits'
  BY <1>1, <1>2 DEF IInv, SweptFits, TypeOK
<1> HIDE DEF W
<1>9. HandedFit' /\ Unspent' /\ ExchangedOnce' /\ ReplaysAreToldApart'
  <2>1. CASE r.op \in {"redeem", "refresh"}
    <3>1. PICK g \in Grants, t \in Tokens :
            /\ r.scope = {g} /\ W = {g} /\ r.new = t
            /\ t \notin handed /\ handed' = handed \cup {t}
            /\ made[t] # None /\ made[t].grant = g /\ made[t].by = r.seen[g].token
            /\ r.seen[g] \in Row /\ ~r.seen[g].revoked
            /\ r.seen[g].token # None => r.seen[g].token \in handed /\ made[r.seen[g].token].grant = g
            /\ grant'[g] \in Row /\ ~grant'[g].revoked /\ grant'[g].token = t
            /\ \A h \in Grants \ {g} : grant'[h] = grant[h]
            /\ g \notin stale' => grant[g] = r.seen[g]
      BY <2>1, ExchangeDoes DEF W
    <3>2. \A x \in handed : made[x].by \in handed \cup {None}
      BY <1>2 DEF IInv, HandedFit, TypeOK
    <3>3. HandedFit'
      <4>1. \A h \in Grants : grant'[h] # None /\ grant'[h].token # None =>
              grant'[h].token \in handed' /\ made'[grant'[h].token].grant = h
        BY <1>1, <3>1 DEF IInv, HandedFit, Issued
      <4>2. /\ \A x \in handed' : made'[x] # None
            /\ \A x \in Tokens : made'[x] # None => made'[x].by \in handed' \cup {None}
            /\ \A x \in Tokens : superseded'[x] # None => x \in handed'
        BY <1>1, <1>5, <3>1 DEF IInv, HandedFit
      <4> QED  BY <4>1, <4>2 DEF HandedFit, Issued
    <3>4. Unspent'
      <4> SUFFICES ASSUME NEW u \in handed', made[u].grant \notin stale', grant'[made[u].grant] # None
                   PROVE  grant'[made[u].grant].token # made[u].by
        BY <1>1 DEF Unspent
      <4>1. CASE u = t
        BY <4>1, <3>1
      <4>2. CASE u \in handed /\ made[u].grant = g
        BY <4>2, <3>1, <3>2
      <4>3. CASE u \in handed /\ made[u].grant # g
        BY <4>3, <1>1, <1>7, <3>1 DEF IInv, Unspent
      <4> QED  BY <3>1, <4>1, <4>2, <4>3
    <3>5. ExchangedOnce'
      <4>1. \A u \in handed : made[u].grant = g /\ g \notin stale' => made[u].by # made[t].by
        BY <1>1, <3>1 DEF IInv, Unspent
      <4> SUFFICES ASSUME NEW x \in handed', NEW u \in handed',
                          made[x].grant = made[u].grant, made[x].by = made[u].by, made[x].grant \notin stale'
                   PROVE  x = u
        BY <1>1 DEF ExchangedOnce
      <4>2. CASE x \in handed /\ u \in handed
        BY <4>2, <1>1 DEF IInv, ExchangedOnce
      <4>3. CASE x = t \/ u = t
        BY <4>1, <4>3, <3>1
      <4> QED  BY <3>1, <4>2, <4>3
    <3>6. ReplaysAreToldApart'
      <4> SUFFICES ASSUME NEW x \in handed', Live(made[x].grant)', made[x].grant \notin stale'
                   PROVE  /\ Valid(x) => grant'[made[x].grant].token = x \/ superseded'[x] = made[x].grant
                          /\ grant'[made[x].grant].token = x => superseded'[x] = None
        BY <1>1 DEF ReplaysAreToldApart, Valid
      <4>1. CASE x = t
        BY <4>1, <3>1, <1>5
      <4>2. CASE x \in handed /\ made[x].grant # g
        <5>1. /\ made[x].grant \in Grants \ {g} /\ made[x].grant \notin stale
              /\ grant'[made[x].grant] = grant[made[x].grant] /\ Live(made[x].grant)
          BY <4>2, <1>1, <1>7, <3>1 DEF Live
        <5>2. /\ Valid(x) => grant[made[x].grant].token = x \/ superseded[x] = made[x].grant
              /\ grant[made[x].grant].token = x => superseded[x] = None
          BY <4>2, <5>1 DEF IInv, ReplaysAreToldApart
        <5>3. ~\E h \in r.scope : x = r.seen[h].token
          BY <4>2, <3>1, <1>2 DEF TypeOK
        <5> QED  BY <4>2, <5>1, <5>2, <5>3, <2>1, <1>5
      <4>3. CASE x \in handed /\ made[x].grant = g
        <5>1. g \notin stale /\ grant[g] = r.seen[g] /\ Live(g)
          BY <4>3, <1>1, <3>1 DEF Live
        <5>2. Valid(x) => r.seen[g].token = x \/ superseded[x] = g
          BY <4>3, <5>1 DEF IInv, ReplaysAreToldApart
        <5>3. r.op = "redeem" => r.seen[g].token = None
          BY <1>1, <3>1 DEF Fits
        <5>4. x # None
          BY <1>2, <4>3 DEF TypeOK
        <5>5. Valid(x) => superseded'[x] = g
          BY <1>5, <2>1, <3>1, <4>3, <5>2, <5>3, <5>4
        <5> QED  BY <4>3, <3>1, <5>5
      <4> QED  BY <3>1, <4>1, <4>2, <4>3
    <3> QED  BY <3>3, <3>4, <3>5, <3>6
  <2>2. CASE r.op \in {"logout", "delete"}
    <3>1. /\ handed' = handed
          /\ \A g \in W :
               /\ grant'[g] # None => grant'[g] \in Row /\ grant'[g].revoked /\ grant'[g].token = r.seen[g].token
               /\ grant'[g] # None /\ g \notin stale' => grant[g] = r.seen[g]
               /\ r.seen[g] \in Row
          /\ r.op = "delete" => \A g \in W : grant'[g] = None
      BY <2>2, SignOutDoes DEF W
    <3>2. HandedFit'
      <4>1. \A h \in Grants : Issued(h, grant'[h])
        BY <1>1, <3>1 DEF IInv, HandedFit, SeenFits, Issued
      <4> QED  BY <1>1, <1>5, <3>1, <4>1 DEF IInv, HandedFit, Issued
    <3>3. Unspent'
      <4> SUFFICES ASSUME NEW u \in handed, made[u].grant \notin stale', grant'[made[u].grant] # None
                   PROVE  grant'[made[u].grant].token # made[u].by
        BY <1>1, <3>1 DEF Unspent
      <4>1. CASE made[u].grant \in W
        BY <4>1, <1>1, <3>1 DEF IInv, Unspent
      <4>2. CASE made[u].grant \notin W
        BY <4>2, <1>1, <1>7 DEF IInv, Unspent
      <4> QED  BY <4>1, <4>2
    <3>4. ExchangedOnce'
      BY <1>1, <3>1 DEF IInv, ExchangedOnce
    <3>5. ReplaysAreToldApart'
      <4> SUFFICES ASSUME NEW x \in handed, Live(made[x].grant)', made[x].grant \notin stale'
                   PROVE  /\ Valid(x) => grant'[made[x].grant].token = x \/ superseded'[x] = made[x].grant
                          /\ grant'[made[x].grant].token = x => superseded'[x] = None
        BY <1>1, <3>1 DEF ReplaysAreToldApart, Valid
      <4>1. made[x].grant \in Grants \ W /\ made[x].grant \notin stale
        BY <1>1, <1>7, <3>1 DEF Live
      <4>2. grant'[made[x].grant] = grant[made[x].grant] /\ Live(made[x].grant)
        BY <4>1, <1>1 DEF Live
      <4>3. /\ Valid(x) => grant[made[x].grant].token = x \/ superseded[x] = made[x].grant
            /\ grant[made[x].grant].token = x => superseded[x] = None
        BY <4>1, <4>2 DEF IInv, ReplaysAreToldApart
      <4> QED  BY <4>1, <4>2, <4>3, <2>2, <1>5
    <3> QED  BY <3>2, <3>3, <3>4, <3>5
  <2> QED  BY <1>2, <2>1, <2>2
<1>10. SignOutReachesGrants'
  <2> SUFFICES ASSUME NEW g \in Grants, g \notin stale', of[g].session \in swept'
               PROVE  ~Live(g)'
    BY <1>1 DEF SignOutReachesGrants
  <2>1. g \notin stale /\ g \notin Outdated(p)
    BY <1>1
  <2>2. CASE of[g].session \in swept
    <3>1. ~Live(g)
      BY <2>1, <2>2 DEF IInv, SignOutReachesGrants
    <3>2. CASE g \notin W
      BY <3>1, <3>2, <1>1 DEF Live
    <3>3. CASE g \in W /\ r.op \in {"logout", "delete"}
      BY <3>3, SignOutDoes DEF W, Live
    <3>4. CASE g \in W /\ r.op \in {"redeem", "refresh"}
      <4>1. grant[g] = r.seen[g] /\ r.seen[g] \in Row /\ ~r.seen[g].revoked
        BY <3>4, ExchangeDoes DEF W
      <4> QED  BY <4>1, <3>1 DEF Live
    <3> QED  BY <1>2, <3>2, <3>3, <3>4
  <2>3. CASE of[g].session \in r.ends
    <3>1. g \in r.scope /\ r.op \in {"logout", "delete"}
      BY <2>3, <1>1 DEF IInv, ScopesFit, Fits
    <3>2. CASE g \in W
      BY <3>1, <3>2, SignOutDoes DEF W, Live
    <3>3. CASE g \notin W
      <4>1. r.seen[g] = None \/ (r.op = "logout" /\ r.seen[g].revoked)
        BY <3>1, <3>3 DEF W, Writes
      <4>2. grant[g] = r.seen[g]
        BY <2>1, <3>1, <4>1, UpToDate
      <4> QED  BY <3>3, <4>1, <4>2, <1>1 DEF Live
    <3> QED  BY <3>2, <3>3
  <2> QED  BY <1>1, <2>2, <2>3
<1> QED  BY <1>3, <1>4, <1>6, <1>8, <1>9, <1>10 DEF IInv
-----------------------------------------------------------------------------
(* The theorems.                                                           *)

\* Every step keeps the invariant, and what it kills or finds dead stays dead.
LEMMA StepHolds ==
  ASSUME IInv, [Next]_vars
  PROVE  IInv' /\ \A g \in Grants : Dead(g) => Dead(g)' \/ g \in stale'
<1>1. ASSUME NEW p \in Procs, Step(p), UNCHANGED fixed
      PROVE  IInv' /\ \A g \in Grants : Dead(g) => Dead(g)' \/ g \in stale'
  <2>1. CASE CreateGrant(p)
    BY <1>1, <2>1, CreateGrantKeeps
  <2>2. CASE Commit(p)
    BY <1>1, <2>2, CommitKeeps
  <2>3. CASE SaveRevoked(p)
    BY <1>1, <2>3, SaveRevokedKeeps
  <2>4. CASE Authorize(p) \/ Redeem(p) \/ Refresh(p) \/ RevokeFind(p)
    <3>1. IInv'
      BY <1>1, <2>4, AuthorizeKeeps, RedeemKeeps, RefreshKeeps, RevokeFindKeeps
    <3>2. UNCHANGED <<grant, dropped>>
      BY <2>4 DEF Authorize, Redeem, Refresh, RevokeFind, rows, history
    <3> QED  BY <3>1, <3>2 DEF Dead
  <2>5. CASE ReplayAtToken(p) \/ ReplayElsewhere(p) \/ ReplayLook(p) \/ ReplayForget(p)
    <3>1. IInv'
      BY <1>1, <2>5, ReplayAtTokenKeeps, ReplayElsewhereKeeps, ReplayLookKeeps, ReplayForgetKeeps
    <3>2. UNCHANGED <<grant, dropped>>
      BY <2>5 DEF ReplayAtToken, ReplayElsewhere, ReplayLook, ReplayForget, rows, history
    <3> QED  BY <3>1, <3>2 DEF Dead
  <2>6. CASE Logout(p) \/ RevokeSessions(p) \/ RevokeForUser(p) \/ Disconnect(p)
    <3>1. IInv'
      BY <1>1, <2>6, LogoutKeeps, RevocationsKeep
    <3>2. UNCHANGED <<grant, dropped>>
      BY <2>6 DEF Logout, RevokeSessions, RevokeForUser, Disconnect, rows, history
    <3> QED  BY <3>1, <3>2 DEF Dead
  <2>7. CASE Write(p) \/ Reject(p) \/ RevokeRetain(p) \/ Abandon(p)
    <3>1. IInv'
      BY <1>1, <2>7, WriteKeeps, RejectKeeps, RevokeRetainKeeps
    <3>2. UNCHANGED <<grant, dropped>>
      BY <2>7 DEF Write, Reject, RevokeRetain, Abandon, rows, history
    <3> QED  BY <3>1, <3>2 DEF Dead
  <2> QED  BY <1>1, <2>1, <2>2, <2>3, <2>4, <2>5, <2>6, <2>7 DEF Step
<1>2. ASSUME NEW s \in Sessions, EndElsewhere(s), UNCHANGED fixed
      PROVE  IInv' /\ \A g \in Grants : Dead(g) => Dead(g)' \/ g \in stale'
  <2>1. IInv'
    BY <1>2, EndElsewhereKeeps
  <2>2. UNCHANGED <<grant, dropped>>
    BY <1>2 DEF EndElsewhere, history
  <2> QED  BY <2>1, <2>2 DEF Dead
<1>3. ASSUME Tick, UNCHANGED fixed
      PROVE  IInv' /\ \A g \in Grants : Dead(g) => Dead(g)' \/ g \in stale'
  <2>1. IInv'
    BY <1>3, TickKeeps
  <2>2. UNCHANGED <<grant, dropped>>
    BY <1>3 DEF Tick, rows, history
  <2> QED  BY <2>1, <2>2 DEF Dead
<1>4. ASSUME UNCHANGED vars
      PROVE  IInv' /\ \A g \in Grants : Dead(g) => Dead(g)' \/ g \in stale'
  <2> USE <1>4 DEF vars, fixed, rows, tokens, history
  <2>1. TypeOK'
    BY DEF IInv, TypeOK
  <2>2. RequestsFit' /\ ScopesFit' /\ SeenFits' /\ NewFits' /\ BirthsFit' /\ ForgetFits'
    BY DEF IInv, RequestsFit, ScopesFit, SeenFits, NewFits, BirthsFit, ForgetFits, Issued, Unborn, Dead
  <2>3. HandedFit' /\ SweptFits' /\ SignOutReachesGrants' /\ Unspent' /\ ExchangedOnce' /\ ReplaysAreToldApart'
    BY RowsStay
  <2> QED  BY <2>1, <2>2, <2>3 DEF IInv, Dead
<1> QED  BY <1>1, <1>2, <1>3, <1>4 DEF Next

LEMMA Invariance == Spec => []IInv
<1>1. IInv /\ [Next]_vars => IInv'
  BY StepHolds
<1> QED  BY InitHolds, <1>1, PTL DEF Spec

\* The type invariant of the grants (storage.go and service.go of oidc): the
\* locals of a request are of its kind wherever it stands.
THEOREM GrantsTyped == Spec => []TypeOK
<1>1. IInv => TypeOK
  BY DEF IInv
<1> QED  BY Invariance, <1>1, PTL

\* A code and a refresh token are exchanged once, unless a write of the grant
\* missed another (SaveGrant of storage.go).
THEOREM CodeAndTokenOnce == Spec => []ExchangedOnce
<1>1. IInv => ExchangedOnce
  BY DEF IInv
<1> QED  BY Invariance, <1>1, PTL

\* A token handed out for a live grant is the current one or recognised as
\* superseded while it is valid, and never both (retainSuperseded and
\* pruneSuperseded).
THEOREM ReplayRecognised == Spec => []ReplaysAreToldApart
<1>1. IInv => ReplaysAreToldApart
  BY DEF IInv
<1> QED  BY Invariance, <1>1, PTL

\* A sign-out that committed left no live grant of its session, those of
\* overlapping requests apart (logout, and the revocations of service.go).
THEOREM SignOutIsComplete == Spec => []SignOutReachesGrants
<1>1. IInv => SignOutReachesGrants
  BY DEF IInv
<1> QED  BY Invariance, <1>1, PTL

\* A revoked or deleted grant comes back only through a request that read it
\* before.
THEOREM DeadStaysDead == Spec => DeadGrantsStayDead
<1>1. IInv /\ [Next]_vars => [\A g \in Grants : Dead(g) => Dead(g)' \/ g \in stale']_vars
  BY StepHolds
<1> QED  BY Invariance, <1>1, PTL DEF Spec, DeadGrantsStayDead

-----------------------------------------------------------------------------
(* The refinement of TokenLife.                                            *)

\* A token that a live grant answers to.
Answers(t) == \E g \in Grants : Live(g) /\ grant[g].token = t

Status == [t \in Tokens |-> IF t \notin handed THEN "unissued" ELSE IF Answers(t) THEN "live" ELSE "dead"]
Holder == [t \in Tokens |-> IF t \in handed THEN made[t].grant ELSE None]

\* A token answers for the grant it was minted for only.
LEMMA AnswersForItsGrant ==
  ASSUME IInv, NEW t \in Tokens, NEW g \in Grants, Live(g), grant[g].token = t
  PROVE  t \in handed /\ made[t].grant = g
<1>1. t # None
  OBVIOUS
<1> QED  BY <1>1 DEF IInv, HandedFit, Issued, Live

\* An exchange issues the token it hands out.
LEMMA ExchangeIssues ==
  ASSUME IInv, NEW p \in Procs, Commit(p), UNCHANGED fixed, req[p].op \in {"redeem", "refresh"}
  PROVE  \E g \in Grants, t \in Tokens :
            /\ Status[t] = "unissued"
            /\ Holder' = [Holder EXCEPT ![t] = g]
            /\ Status' = [x \in Tokens |->
                  IF x = t THEN "live"
                  ELSE IF Holder[x] = g /\ Status[x] = "live" THEN "dead" ELSE Status[x]]
<1>1. PICK g \in Grants, t \in Tokens :
        /\ t \notin handed /\ handed' = handed \cup {t}
        /\ made[t].grant = g
        /\ grant'[g] \in Row /\ ~grant'[g].revoked /\ grant'[g].token = t
        /\ \A h \in Grants \ {g} : grant'[h] = grant[h]
  BY ExchangeDoes
<1>2. made' = made
  BY CommitDoes
<1>3. Status[t] = "unissued"
  BY <1>1 DEF Status
<1>4. Holder' = [Holder EXCEPT ![t] = g]
  BY <1>1, <1>2 DEF Holder
<1>5. Live(g)' /\ Answers(t)'
  BY <1>1 DEF Live, Answers
<1>6. ASSUME NEW x \in Tokens \ {t}
      PROVE  Answers(x)' <=> (Answers(x) /\ Holder[x] # g)
  <2>1. ASSUME NEW h \in Grants, Live(h)', grant'[h].token = x
        PROVE  Answers(x) /\ Holder[x] # g
    <3>1. h # g /\ Live(h) /\ grant[h].token = x
      BY <1>1, <2>1 DEF Live
    <3> QED  BY <3>1, AnswersForItsGrant DEF Answers, Holder
  <2>2. ASSUME NEW h \in Grants, Live(h), grant[h].token = x, Holder[x] # g
        PROVE  Answers(x)'
    <3>1. h # g
      BY <2>2, AnswersForItsGrant DEF Holder
    <3>2. Live(h)' /\ grant'[h].token = x
      BY <1>1, <2>2, <3>1 DEF Live
    <3> QED  BY <3>2 DEF Answers
  <2> QED  BY <2>1, <2>2 DEF Answers
<1>7. ASSUME NEW x \in Tokens
      PROVE  Status'[x] = IF x = t THEN "live"
                          ELSE IF Holder[x] = g /\ Status[x] = "live" THEN "dead" ELSE Status[x]
  <2>1. Status'[x] = IF x \notin handed' THEN "unissued" ELSE IF Answers(x)' THEN "live" ELSE "dead"
    BY DEF Status
  <2>2. Status[x] = IF x \notin handed THEN "unissued" ELSE IF Answers(x) THEN "live" ELSE "dead"
    BY DEF Status
  <2>3. CASE x = t
    BY <2>1, <2>3, <1>1, <1>5
  <2>4. CASE x # t
    BY <2>1, <2>2, <2>4, <1>1, <1>6
  <2> QED  BY <2>3, <2>4
<1>8. Status' = [x \in Tokens |->
        IF x = t THEN "live"
        ELSE IF Holder[x] = g /\ Status[x] = "live" THEN "dead" ELSE Status[x]]
  BY <1>7 DEF Status
<1> QED  BY <1>3, <1>4, <1>8

\* Any other step hands out nothing and makes no token answer again.
Hushes ==
    /\ handed' = handed
    /\ \A t \in handed : made'[t] = made[t]
    /\ \A g \in Grants : Live(g)' /\ grant'[g].token # None => Live(g) /\ grant[g].token = grant'[g].token

LEMMA HushKills ==
  ASSUME IInv, Hushes
  PROVE  \E T \in SUBSET Tokens :
            /\ \A t \in T : Status[t] = "live"
            /\ Status' = [t \in Tokens |-> IF t \in T THEN "dead" ELSE Status[t]]
            /\ Holder' = Holder
<1> DEFINE T == {t \in Tokens : Status[t] = "live" /\ Status'[t] # "live"}
<1>1. Holder' = Holder
  BY DEF Hushes, Holder
<1>2. \A t \in Tokens : Answers(t)' => Answers(t)
  BY DEF Answers, Hushes
<1>3. \A t \in Tokens : Status'[t] = IF t \notin handed' THEN "unissued" ELSE IF Answers(t)' THEN "live" ELSE "dead"
  BY DEF Status
<1>4. \A t \in Tokens : Status[t] = IF t \notin handed THEN "unissued" ELSE IF Answers(t) THEN "live" ELSE "dead"
  BY DEF Status
<1>5. \A t \in Tokens : Status'[t] = IF t \in T THEN "dead" ELSE Status[t]
  BY <1>2, <1>3, <1>4 DEF Hushes
<1>6. Status' = [t \in Tokens |-> IF t \in T THEN "dead" ELSE Status[t]]
  BY <1>5 DEF Status
<1> QED  BY <1>1, <1>6

\* Only an exchange makes a token answer.
LEMMA StepIssuesOrHushes ==
  ASSUME IInv, [Next]_vars
  PROVE  \/ Hushes
         \/ \E p \in Procs : Commit(p) /\ UNCHANGED fixed /\ req[p].op \in {"redeem", "refresh"}
<1>1. ASSUME UNCHANGED <<grant, made, handed>>
      PROVE  Hushes
  BY <1>1 DEF Hushes, Live
<1>2. ASSUME NEW p \in Procs, Redeem(p) \/ Refresh(p)
      PROVE  Hushes
  <2>1. PICK t \in Tokens : made[t] = None /\ \A x \in Tokens \ {t} : made'[x] = made[x]
    BY <1>2 DEF Redeem, Refresh, Mint, IInv, TypeOK
  <2>2. UNCHANGED <<grant, handed>>
    BY <1>2 DEF Redeem, Refresh, rows
  <2> QED  BY <2>1, <2>2 DEF Hushes, Live, IInv, TypeOK, HandedFit
<1>3. ASSUME NEW p \in Procs, CreateGrant(p)
      PROVE  Hushes
  <2>1. PICK g \in req[p].scope : grant' = [grant EXCEPT ![g] = [token |-> None, revoked |-> FALSE]]
    BY <1>3 DEF CreateGrant
  <2>2. UNCHANGED <<made, handed>>
    BY <1>3 DEF CreateGrant, tokens
  <2>3. \A h \in Grants : grant'[h] = grant[h] \/ (grant'[h].token = None)
    BY <2>1 DEF IInv, TypeOK
  <2> QED  BY <2>2, <2>3 DEF Hushes, Live
<1>4. ASSUME NEW p \in Procs, SaveRevoked(p)
      PROVE  Hushes
  <2>1. /\ grant' = [h \in Grants |-> IF h \in Writes(p) THEN Written(p, h) ELSE grant[h]]
        /\ UNCHANGED <<made, handed>>
    BY <1>4 DEF SaveRevoked, tokens
  <2>2. req[p].op \in {"revoke", "replay"}
    BY <1>4 DEF IInv, RequestsFit, Fits, SaveRevoked
  <2>3. \A h \in Writes(p) : Written(p, h).revoked
    BY <2>2, WrittenIs
  <2> QED  BY <2>1, <2>3 DEF Hushes, Live
<1>5. ASSUME NEW p \in Procs, Commit(p), UNCHANGED fixed, req[p].op \notin {"redeem", "refresh"}
      PROVE  Hushes
  <2>1. req[p].op \in {"logout", "delete"} /\ made' = made
        /\ \A h \in Grants : grant'[h] = IF h \in Writes(p) THEN Written(p, h) ELSE grant[h]
    BY <1>5, CommitDoes DEF CommitOps
  <2>2. handed' = handed /\ \A h \in Writes(p) : grant'[h] # None => grant'[h].revoked
    BY <1>5, <2>1, SignOutDoes
  <2> QED  BY <2>1, <2>2 DEF Hushes, Live
<1>6. ASSUME NEW p \in Procs,
             \/ Authorize(p) \/ ReplayAtToken(p) \/ Logout(p) \/ RevokeSessions(p) \/ RevokeForUser(p)
             \/ Disconnect(p) \/ Write(p) \/ Reject(p) \/ RevokeFind(p) \/ RevokeRetain(p)
             \/ ReplayElsewhere(p) \/ ReplayLook(p) \/ ReplayForget(p) \/ Abandon(p)
      PROVE  UNCHANGED <<grant, made, handed>>
  <2>1. CASE Authorize(p) \/ ReplayAtToken(p) \/ Logout(p) \/ RevokeSessions(p) \/ RevokeForUser(p)
    BY <2>1 DEF Authorize, ReplayAtToken, Logout, RevokeSessions, RevokeForUser, rows, tokens
  <2>2. CASE Disconnect(p) \/ Write(p) \/ Reject(p) \/ RevokeFind(p) \/ RevokeRetain(p)
    BY <2>2 DEF Disconnect, Write, Reject, RevokeFind, RevokeRetain, rows, tokens
  <2>3. CASE ReplayElsewhere(p) \/ ReplayLook(p) \/ ReplayForget(p) \/ Abandon(p)
    BY <2>3 DEF ReplayElsewhere, ReplayLook, ReplayForget, Abandon, rows, tokens
  <2> QED  BY <1>6, <2>1, <2>2, <2>3
<1>7. ASSUME Tick \/ (\E s \in Sessions : EndElsewhere(s)) \/ UNCHANGED vars
      PROVE  UNCHANGED <<grant, made, handed>>
  BY <1>7 DEF Tick, EndElsewhere, vars, rows, tokens
<1>8. CASE \E p \in Procs : Step(p) /\ UNCHANGED fixed
  <2>1. PICK p \in Procs : Step(p) /\ UNCHANGED fixed
    BY <1>8
  <2> QED  BY <2>1, <1>1, <1>2, <1>3, <1>4, <1>5, <1>6 DEF Step
<1> QED  BY <1>1, <1>7, <1>8 DEF Next

\* However requests overlap, a grant answers to one token, the last it handed
\* out, and a token that stopped answering never answers again: every step of
\* the grants is a step of TokenLife or none.
THEOREM TokensKeepPromise == Spec => RefreshTokensKeepPromise
<1>1. Init => Promise!Init
  BY DEF Init, Promise!Init
<1>2. ASSUME IInv, [Next]_vars
      PROVE  Promise!Next
  <2>1. CASE Hushes
    <3>1. PICK T \in SUBSET Tokens :
            /\ \A t \in T : Status[t] = "live"
            /\ Status' = [t \in Tokens |-> IF t \in T THEN "dead" ELSE Status[t]]
            /\ Holder' = Holder
      BY <1>2, <2>1, HushKills
    <3>2. Promise!Kill(T)
      BY <3>1 DEF Promise!Kill, Status, Holder, Answers
    <3> QED  BY <3>2 DEF Promise!Next
  <2>2. CASE \E p \in Procs : Commit(p) /\ UNCHANGED fixed /\ req[p].op \in {"redeem", "refresh"}
    <3>1. PICK g \in Grants, t \in Tokens :
            /\ Status[t] = "unissued"
            /\ Holder' = [Holder EXCEPT ![t] = g]
            /\ Status' = [x \in Tokens |->
                  IF x = t THEN "live"
                  ELSE IF Holder[x] = g /\ Status[x] = "live" THEN "dead" ELSE Status[x]]
      BY <1>2, <2>2, ExchangeIssues
    <3>2. Promise!Issue(g, t, "live")
      BY <3>1 DEF Promise!Issue, Status, Holder, Answers
    <3> QED  BY <3>2 DEF Promise!Next
  <2> QED  BY <1>2, <2>1, <2>2, StepIssuesOrHushes
<1> QED  BY Invariance, <1>1, <1>2, PTL DEF Spec, RefreshTokensKeepPromise, Promise!Spec

=============================================================================

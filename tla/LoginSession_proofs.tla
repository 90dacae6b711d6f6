------------------------ MODULE LoginSession_proofs ------------------------
(***************************************************************************)
(* What every number of requests, sessions, people and tokens keeps, with  *)
(* Redis failing or not and requests overlapping as they like: types; which *)
(* session a token names; who proved the factors of a session, and of one  *)
(* that passes the gate of a finalize; that a token speaks for one person;  *)
(* and that the rows keep the promise of TokenLife.                         *)
(***************************************************************************)
EXTENDS LoginSession, TLAPS

\* Which locals a request holds where it stands. TypeOK alone is not
\* inductive: it does not know that a request that looks up a token has one.
Shape ==
    \A p \in Procs :
        /\ pc[p] \in {"get", "read", "fill", "found", "drop"} => req[p].tok # None
        /\ pc[p] \in {"fill", "found", "save", "drop", "put", "finalized"}
             => req[p].live # None
        /\ pc[p] \in {"save", "drop", "put"} => req[p].new # None

TypeInv == TypeOK /\ Shape

\* The two halves of TypeOK: the requests, and everything they share.
ProcsTyped ==
    /\ pc \in [Procs -> PCs]
    /\ req \in [Procs -> Req]

StoreTyped ==
    /\ origin \in [Sessions -> Origin]
    /\ row \in [Sessions -> Row \cup {None}]
    /\ staged \in [Sessions -> Row \cup {None}]
    /\ lock \in [Sessions -> Procs \cup {None}]
    /\ cache \in [Tokens -> Live \cup {None}]
    /\ lost \in BOOLEAN
    /\ minter \in [Tokens -> Sessions \cup {None}]
    /\ disclosed \subseteq Tokens
    /\ now \in Nat
    /\ proved \subseteq Sessions \X Users \X Factors

USE CapAssumption, LifetimeAssumption, RedisAssumption, NoneAssumption,
    NoLiveAssumption

-----------------------------------------------------------------------------
(* The locals of a request.                                                *)

LEMMA NoReqTyped == NoReq \in Req
  BY DEF NoReq, Req, Ops

LEMMA NoReqFields ==
  /\ NoReq.tok = None /\ NoReq.new = None /\ NoReq.live = None /\ NoReq.sure = None
  BY DEF NoReq

LEMMA OpTyped ==
  ASSUME NEW n \in Req, NEW o \in Ops
  PROVE  LET r == [n EXCEPT !.op = o]
         IN  /\ r \in Req
             /\ r.live = n.live /\ r.tok = n.tok /\ r.new = n.new /\ r.sure = n.sure
  BY DEF Req

\* The locals fit the place a request stands at.
Fits(w, r) ==
    /\ w \in {"get", "read", "fill", "found", "drop"} => r.tok # None
    /\ w \in {"fill", "found", "save", "drop", "put", "finalized"} => r.live # None
    /\ w \in {"save", "drop", "put"} => r.new # None

\* The ways an action rewrites the locals of a request: each keeps their type,
\* and leaves the fields it does not name.
LEMMA LocalsPresented ==
  ASSUME NEW n \in Req, NEW o \in Ops, NEW t \in Tokens
  PROVE  LET r == [n EXCEPT !.op = o, !.tok = t]
         IN  /\ r \in Req
             /\ r.tok = t /\ r.new = n.new /\ r.live = n.live /\ r.sure = n.sure
  BY DEF Req

LEMMA LocalsFound ==
  ASSUME NEW n \in Req, NEW l \in Live
  PROVE  LET r == [n EXCEPT !.live = l]
         IN  /\ r \in Req
             /\ r.live = l /\ r.tok = n.tok /\ r.new = n.new /\ r.sure = n.sure /\ r.op = n.op
  BY DEF Req

LEMMA SavingTyped ==
  ASSUME NEW n \in Req, NEW t \in Tokens, NEW l \in Live
  PROVE  /\ Saving(n, t, l) \in Req
         /\ Fits("save", Saving(n, t, l))
         /\ Saving(n, t, l).new = t
         /\ Saving(n, t, l).live = l
         /\ Saving(n, t, l).tok = n.tok
         /\ Saving(n, t, l).sure = n.sure
         /\ Saving(n, t, l).op = n.op
  BY DEF Req, Fits, Saving

LEMMA LocalsProved ==
  ASSUME NEW n \in Req, NEW u \in Users
  PROVE  LET r == [n EXCEPT !.sure = u, !.live = None]
         IN  /\ r \in Req
             /\ r.sure = u /\ r.live = None /\ r.tok = n.tok /\ r.new = n.new /\ r.op = n.op
  BY DEF Req

LEMMA LocalsWrong ==
  ASSUME NEW n \in Req, NEW o \in Ops
  PROVE  LET r == [n EXCEPT !.op = o, !.live = None]
         IN  /\ r \in Req
             /\ r.op = o /\ r.live = None /\ r.tok = n.tok /\ r.new = n.new /\ r.sure = n.sure
  BY DEF Req

LEMMA LocalsOwed ==
  ASSUME NEW n \in Req, NEW w \in SUBSET (ChallengeSteps \cup EnrolSteps)
  PROVE  LET r == [n EXCEPT !.owed = w]
         IN  /\ r \in Req
             /\ r.owed = w /\ r.live = n.live /\ r.tok = n.tok /\ r.new = n.new /\ r.sure = n.sure /\ r.op = n.op
  BY DEF Req

LEMMA EndingTyped ==
  ASSUME NEW n \in Req, NEW o \in Ops, NEW d \in SUBSET (Sessions \X Tokens)
  PROVE  /\ Ending(n, o, d) \in Req
         /\ Fits("end", Ending(n, o, d))
         /\ Ending(n, o, d).live = n.live
         /\ Ending(n, o, d).tok = n.tok
         /\ Ending(n, o, d).new = n.new
         /\ Ending(n, o, d).sure = n.sure
  BY DEF Req, Fits, Ending

LEMMA LocalsDropped ==
  ASSUME NEW n \in Req, NEW d \in SUBSET (Sessions \X Tokens)
  PROVE  LET r == [n EXCEPT !.doomed = d]
         IN  /\ r \in Req
             /\ r.live = n.live /\ r.tok = n.tok /\ r.new = n.new /\ r.sure = n.sure /\ r.op = n.op
  BY DEF Req

\* The upgrade of a session is a session.
LEMMA UpgradedTyped ==
  ASSUME NEW l \in Live, NEW u \in Users, NEW f \in Factors, now \in Nat
  PROVE  /\ Upgraded(l, u, f) \in Live
         /\ Upgraded(l, u, f).id = l.id
         /\ Upgraded(l, u, f).user = u
         /\ Upgraded(l, u, f).factors = l.factors \cup {f}
<1>1. now + FullLifetime \in Nat
  OBVIOUS
<1>2. l.factors \cup {f} \in SUBSET Factors
  BY DEF Live
<1>3. ASSUME NEW e \in Nat, NEW g \in SUBSET Factors
      PROVE  LET up == [l EXCEPT !.user = u, !.factors = g, !.expires = e]
             IN  up \in Live /\ up.id = l.id /\ up.user = u /\ up.factors = g
  BY DEF Live
<1>4. QED
  BY <1>1, <1>2, <1>3 DEF Upgraded

LEMMA OpeningTyped ==
  ASSUME NEW s \in Sessions, NEW u \in Users \cup {None}, now \in Nat
  PROVE  /\ Opening(s, u) \in Live
         /\ Opening(s, u).id = s
         /\ Opening(s, u).user = u
         /\ Opening(s, u).factors = {}
  BY DEF Opening, Live

\* A count below the cap can be raised.
LEMMA WrongTyped ==
  ASSUME NEW l \in Live, l.wrong + 1 < MaxWrongCodes
  PROVE  /\ [l EXCEPT !.wrong = @ + 1] \in Live
         /\ [l EXCEPT !.wrong = @ + 1].id = l.id
         /\ [l EXCEPT !.wrong = @ + 1].user = l.user
         /\ [l EXCEPT !.wrong = @ + 1].factors = l.factors
<1>1. l.wrong + 1 \in 0 .. (MaxWrongCodes - 1)
  BY DEF Live
<1>2. ASSUME NEW n \in 0 .. (MaxWrongCodes - 1)
      PROVE  LET up == [l EXCEPT !.wrong = n]
             IN  up \in Live /\ up.id = l.id /\ up.user = l.user /\ up.factors = l.factors
  BY DEF Live
<1>3. QED
  BY <1>1, <1>2

\* A terminated row is a row.
LEMMA EndedTyped ==
  ASSUME NEW r \in Row
  PROVE  LET e == [r EXCEPT !.state = "terminated"]
         IN  e \in Row /\ e.token = r.token /\ e.live = r.live
  BY DEF Row

\* Move changes one request, to locals of the type of all locals.
LEMMA MoveOne ==
  ASSUME pc \in [Procs -> PCs], req \in [Procs -> Req],
         NEW p \in Procs, NEW w \in PCs, NEW r \in Req, Move(p, w, r)
  PROVE  /\ pc' \in [Procs -> PCs]
         /\ req' \in [Procs -> Req]
         /\ pc'[p] = w
         /\ req'[p] = r
         /\ \A q \in Procs \ {p} : pc'[q] = pc[q] /\ req'[q] = req[q]
  BY DEF Move, Goto

\* The type and the shape survive a move whose locals fit where it goes.
LEMMA MoveKeeps ==
  ASSUME TypeInv, NEW p \in Procs, NEW w \in PCs, NEW r \in Req, Move(p, w, r),
         Fits(w, r)
  PROVE  ProcsTyped' /\ Shape'
  BY MoveOne DEF TypeInv, TypeOK, Shape, ProcsTyped, Fits

LEMMA GotoKeeps ==
  ASSUME TypeInv, NEW p \in Procs, NEW w \in PCs, Goto(p, w), UNCHANGED req,
         Fits(w, req[p])
  PROVE  ProcsTyped' /\ Shape'
  BY DEF TypeInv, TypeOK, Shape, ProcsTyped, Fits, Goto

-----------------------------------------------------------------------------

LEMMA InitTypeInv == Init => TypeInv
<1> SUFFICES ASSUME Init PROVE TypeInv
  OBVIOUS
<1>1. StoreTyped
  BY DEF Init, StoreTyped
<1>2. ProcsTyped /\ Shape
  BY NoReqTyped DEF Init, ProcsTyped, Shape, PCs
<1>3. QED
  BY <1>1, <1>2 DEF TypeInv, TypeOK, StoreTyped, ProcsTyped

LEMMA StepTypeInv == TypeInv /\ [Next]_vars => TypeInv'
<1> SUFFICES ASSUME TypeInv, [Next]_vars
             PROVE  StoreTyped' /\ ProcsTyped' /\ Shape'
  BY DEF TypeInv, TypeOK, StoreTyped, ProcsTyped
<1>t. StoreTyped /\ ProcsTyped
  BY DEF TypeInv, TypeOK, StoreTyped, ProcsTyped
<1>1. CASE UNCHANGED vars
  BY <1>1 DEF vars, TypeInv, TypeOK, Shape, StoreTyped, ProcsTyped
<1>2. CASE Tick /\ UNCHANGED origin
  BY <1>2, ClockAssumption DEF Tick, store, redis, TypeInv, TypeOK, Shape,
     StoreTyped, ProcsTyped
<1>3. ASSUME NEW p \in Procs, Step(p), UNCHANGED origin
      PROVE  StoreTyped' /\ ProcsTyped' /\ Shape'
  <2>r. req[p] \in Req /\ pc[p] \in PCs /\ Fits(pc[p], req[p])
    BY <1>t DEF TypeInv, Shape, Fits, ProcsTyped
  <2> DEFINE live == req[p].live
  <2>1. CASE Identify(p)
    <3>1. PICK s \in Sessions, t \in Tokens, u \in Users \cup {None} :
            Move(p, "save", Saving([NoReq EXCEPT !.op = "identify"], t, Opening(s, u)))
      BY <2>1 DEF Identify
    <3>2. Opening(s, u) \in Live
      BY <1>t, <3>1, OpeningTyped DEF StoreTyped
    <3>3. [NoReq EXCEPT !.op = "identify"] \in Req
      BY NoReqTyped, OpTyped DEF Ops
    <3>4. StoreTyped'
      BY <1>t, <1>3, <2>1 DEF Identify, Mint, StoreTyped, store, redis
    <3>q. QED
      BY <3>1, <3>2, <3>3, <3>4, SavingTyped, MoveKeeps DEF PCs
  <2>2. CASE Present(p)
    <3>1. PICK t \in disclosed, o \in Presented :
            Move(p, "get", [NoReq EXCEPT !.op = o, !.tok = t])
      BY <2>2 DEF Present
    <3>2. o \in Ops /\ t \in Tokens
      BY <1>t, PresentedAssumption DEF ClientSteps, Ops, StoreTyped
    <3>3. LET r == [NoReq EXCEPT !.op = o, !.tok = t]
          IN  r \in Req /\ Fits("get", r)
      BY <3>2, NoReqTyped, LocalsPresented DEF Fits
    <3>4. StoreTyped'
      BY <1>t, <1>3, <2>2 DEF Present, StoreTyped, store, redis
    <3>q. QED
      BY <3>1, <3>2, <3>3, <3>4, MoveKeeps DEF PCs
  <2>3. CASE GetHit(p)
    <3>1. /\ req[p].tok \in Tokens
          /\ cache[req[p].tok] \in Live
      BY <1>t, <2>r, <2>3 DEF GetHit, Cached, Fits, StoreTyped, Req
    <3>2. LET r == [req[p] EXCEPT !.live = cache[req[p].tok]]
          IN  r \in Req /\ Fits("found", r)
      BY <2>r, <2>3, <3>1, LocalsFound DEF Fits, GetHit
    <3>3. StoreTyped'
      BY <1>t, <1>3, <2>3 DEF GetHit, StoreTyped, store, redis
    <3>q. QED
      BY <2>3, <3>2, <3>3, MoveKeeps DEF GetHit, PCs
  <2>4. CASE GetMiss(p)
    <3>1. StoreTyped'
      BY <1>t, <1>3, <2>4 DEF GetMiss, StoreTyped, store, redis
    <3>2. Fits("read", req[p])
      BY <2>r, <2>4 DEF GetMiss, Fits
    <3>q. QED
      BY <2>4, <3>1, <3>2, GotoKeeps DEF GetMiss, PCs
  <2>5. CASE ReadRow(p)
    <3>1. PICK s \in Sessions :
            /\ Alive(row[s])
            /\ Move(p, "fill", [req[p] EXCEPT !.live = row[s].live])
      BY <2>5 DEF ReadRow
    <3>2. row[s].live \in Live
      BY <1>t, <3>1 DEF Alive, StoreTyped, Row
    <3>3. LET r == [req[p] EXCEPT !.live = row[s].live]
          IN  r \in Req /\ Fits("fill", r)
      BY <2>r, <2>5, <3>2, LocalsFound DEF Fits, ReadRow
    <3>4. StoreTyped'
      BY <1>t, <1>3, <2>5 DEF ReadRow, StoreTyped, store, redis
    <3>q. QED
      BY <3>1, <3>3, <3>4, MoveKeeps DEF PCs
  <2>6. CASE Refill(p)
    <3>1. req[p].tok \in Tokens /\ live \in Live
      BY <2>r, <2>6 DEF Refill, Fits, Req
    <3>2. StoreTyped'
      BY <1>t, <1>3, <2>6, <3>1 DEF Refill, SetKey, StoreTyped, store, redis
    <3>3. Fits("found", req[p])
      BY <2>r, <2>6 DEF Refill, Fits
    <3>q. QED
      BY <2>6, <3>2, <3>3, GotoKeeps DEF Refill, PCs
  <2>u. ASSUME NEW u \in Users, NEW f \in Factors, pc[p] = "found",
               Upgrade(p, u, f)
        PROVE  /\ minter' \in [Tokens -> Sessions \cup {None}]
               /\ ProcsTyped' /\ Shape'
    <3>1. PICK t \in Tokens :
            /\ Mint(live.id, t)
            /\ Move(p, "save", Saving(req[p], t, Upgraded(live, u, f)))
      BY <2>u DEF Upgrade
    <3>2. live \in Live
      BY <2>r, <2>u DEF Fits, Req
    <3>3. Upgraded(live, u, f) \in Live
      BY <1>t, <2>u, <3>2, UpgradedTyped DEF StoreTyped
    <3>4. minter' \in [Tokens -> Sessions \cup {None}]
      BY <1>t, <3>1, <3>2 DEF Mint, StoreTyped, Live
    <3>q. QED
      BY <2>r, <3>1, <3>3, <3>4, SavingTyped, MoveKeeps DEF PCs
  <2>7. CASE VerifyPassword(p)
    <3>1. PICK u \in Users :
            /\ Upgrade(p, u, "pwd")
            /\ proved' = proved \cup {<<live.id, u, "pwd">>}
      <4>1. live \in Live
        BY <2>r, <2>7 DEF VerifyPassword, Fits, Req
      <4>2. Provable(live) \subseteq Users
        BY <4>1 DEF Provable, Live
      <4>q. QED
        BY <2>7, <4>2 DEF VerifyPassword
    <3>2. live.id \in Sessions
      BY <2>r, <2>7 DEF VerifyPassword, Fits, Req, Live
    <3>3. proved' \subseteq Sessions \X Users \X Factors
      BY <1>t, <3>1, <3>2 DEF StoreTyped, Factors
    <3>4. minter' \in [Tokens -> Sessions \cup {None}] /\ ProcsTyped' /\ Shape'
      BY <2>u, <2>7, <3>1 DEF VerifyPassword, Factors
    <3>5. StoreTyped'
      BY <1>t, <1>3, <2>7, <3>3, <3>4 DEF VerifyPassword, StoreTyped, store, redis
    <3>q. QED
      BY <3>4, <3>5
  <2>8. CASE ProveFactor(p)
    <3>1. live \in Live /\ req[p].op \in Factors
      BY <2>r, <2>8 DEF ProveFactor, Fits, Req, Factors
    <3>2. origin[live.id].scanned \in Users \cup {None}
      BY <1>t, <3>1 DEF StoreTyped, Origin, Live
    <3>3. PICK u \in Users :
            /\ Move(p, "get", [req[p] EXCEPT !.sure = u, !.live = None])
            /\ proved' = proved \cup {<<live.id, u, req[p].op>>}
      BY <2>8, <3>1, <3>2 DEF ProveFactor, Live
    <3>4. LET r == [req[p] EXCEPT !.sure = u, !.live = None]
          IN  r \in Req /\ Fits("get", r)
      BY <2>r, <2>8, LocalsProved DEF Fits, ProveFactor
    <3>5. proved' \subseteq Sessions \X Users \X Factors
      BY <1>t, <3>1, <3>3 DEF StoreTyped, Live
    <3>6. StoreTyped'
      BY <1>t, <1>3, <2>8, <3>5 DEF ProveFactor, StoreTyped, store, redis
    <3>q. QED
      BY <3>3, <3>4, <3>6, MoveKeeps DEF PCs
  <2>9. CASE Complete(p)
    <3>1. req[p].sure \in Users /\ req[p].op \in Factors
      BY <2>r, <2>9 DEF Complete, Req, Factors
    <3>2. minter' \in [Tokens -> Sessions \cup {None}] /\ ProcsTyped' /\ Shape'
      BY <2>u, <2>9, <3>1 DEF Complete
    <3>3. StoreTyped'
      BY <1>t, <1>3, <2>9, <3>2 DEF Complete, StoreTyped, store, redis
    <3>q. QED
      BY <3>2, <3>3
  <2>10. CASE WrongCode(p)
    <3>1. LET r == [req[p] EXCEPT !.op = "wrong", !.live = None]
          IN  r \in Req /\ Fits("get", r)
      BY <2>r, <2>10, LocalsWrong DEF Fits, WrongCode, Ops
    <3>2. StoreTyped'
      BY <1>t, <1>3, <2>10 DEF WrongCode, StoreTyped, store, redis
    <3>q. QED
      BY <2>10, <3>1, <3>2, MoveKeeps DEF WrongCode, PCs
  <2>11. CASE CountWrongCode(p)
    <3>1. live \in Live /\ req[p].tok \in Tokens \cup {None}
      BY <2>r, <2>11 DEF CountWrongCode, Fits, Req
    <3>2. req[p].tok \in Tokens
      BY <2>r, <2>11, <3>1 DEF CountWrongCode, Fits
    <3>3. [live EXCEPT !.wrong = @ + 1] \in Live
      BY <2>11, <3>1, WrongTyped DEF CountWrongCode
    <3>4. StoreTyped'
      BY <1>t, <1>3, <2>11 DEF CountWrongCode, StoreTyped, store, redis
    <3>5. Move(p, "save", Saving(req[p], req[p].tok, [live EXCEPT !.wrong = @ + 1]))
      BY <2>11 DEF CountWrongCode
    <3>q. QED
      BY <2>r, <3>2, <3>3, <3>4, <3>5, SavingTyped, MoveKeeps DEF PCs
  <2>12. CASE Finalize(p)
    <3>1. PICK owed \in StepLists : Move(p, "finalized", [req[p] EXCEPT !.owed = owed])
      BY <2>12 DEF Finalize
    <3>2. LET r == [req[p] EXCEPT !.owed = owed]
          IN  r \in Req /\ Fits("finalized", r)
      BY <2>r, <3>1, <2>12, LocalsOwed DEF Fits, Finalize, StepLists
    <3>3. StoreTyped'
      BY <1>t, <1>3, <2>12 DEF Finalize, StoreTyped, store, redis
    <3>q. QED
      BY <3>1, <3>2, <3>3, MoveKeeps DEF PCs
  <2>13. CASE SaveRow(p)
    <3>1. /\ req[p].new \in Tokens
          /\ live \in Live
      BY <2>r, <2>13 DEF SaveRow, Fits, Req
    <3>2. Seal(p) \in Row
      BY <3>1 DEF Seal, Row
    <3>3. StoreTyped'
      BY <1>t, <1>3, <2>13, <3>2 DEF SaveRow, StoreTyped, redis
    <3>4. /\ UNCHANGED req
          /\ Goto(p, IF req[p].tok \in {None, req[p].new} THEN "put" ELSE "drop")
      BY <2>13 DEF SaveRow
    <3>5. CASE req[p].tok \in {None, req[p].new}
      <4>1. Goto(p, "put") /\ Fits("put", req[p])
        BY <2>r, <2>13, <3>4, <3>5 DEF SaveRow, Fits
      <4>q. QED
        BY <3>3, <3>4, <4>1, GotoKeeps DEF PCs
    <3>6. CASE req[p].tok \notin {None, req[p].new}
      <4>1. Goto(p, "drop") /\ Fits("drop", req[p])
        BY <2>r, <2>13, <3>4, <3>6 DEF SaveRow, Fits
      <4>q. QED
        BY <3>3, <3>4, <4>1, GotoKeeps DEF PCs
    <3>q. QED
      BY <3>5, <3>6
  <2>14. CASE DropRotated(p)
    <3>1. StoreTyped'
      BY <1>t, <1>3, <2>14 DEF DropRotated, Del, StoreTyped, store
    <3>2. Fits("put", req[p])
      BY <2>r, <2>14 DEF DropRotated, Fits
    <3>q. QED
      BY <2>14, <3>1, <3>2, GotoKeeps DEF DropRotated, PCs
  <2>15. CASE PutCache(p)
    <3>1. live \in Live
      BY <2>r, <2>15 DEF PutCache, Fits, Req
    <3>2. StoreTyped'
      BY <1>t, <1>3, <2>15, <3>1 DEF PutCache, SetKey, StoreTyped, store, redis
    <3>3. Fits("commit", req[p])
      BY DEF Fits
    <3>q. QED
      BY <2>15, <3>2, <3>3, GotoKeeps DEF PutCache, PCs
  <2>v. ASSUME NEW s \in Sessions, TerminateRead(p, s)
        PROVE  StoreTyped' /\ ProcsTyped' /\ Shape'
    <3>1. {<<s, row[s].token>>} \in SUBSET (Sessions \X Tokens)
      BY <1>t, <2>v DEF TerminateRead, Alive, StoreTyped, Row
    <3>2. "terminate" \in Ops
      BY DEF Ops
    <3>3. StoreTyped'
      BY <1>t, <1>3, <2>v DEF TerminateRead, StoreTyped, store, redis
    <3>q. QED
      BY <2>r, <2>v, <3>1, <3>2, <3>3, EndingTyped, MoveKeeps DEF TerminateRead, PCs
  <2>16. CASE EndFound(p)
    <3>1. live.id \in Sessions
      BY <2>r, <2>16 DEF EndFound, Fits, Req, Live
    <3>q. QED
      BY <2>v, <2>16, <3>1 DEF EndFound
  <2>17. CASE TerminateByID(p)
    BY <2>v, <2>17 DEF TerminateByID
  <2>18. CASE RevokeRead(p)
    <3>1. PICK gone \in SUBSET {s \in Sessions : row[s] # None} :
            Move(p, "end", Ending(NoReq, "revoke", {<<s, row[s].token>> : s \in gone}))
      BY <2>18 DEF RevokeRead
    <3>2. {<<s, row[s].token>> : s \in gone} \in SUBSET (Sessions \X Tokens)
      BY <1>t DEF StoreTyped, Row
    <3>3. "revoke" \in Ops
      BY DEF Ops
    <3>4. StoreTyped'
      BY <1>t, <1>3, <2>18 DEF RevokeRead, StoreTyped, store, redis
    <3>q. QED
      BY <3>1, <3>2, <3>3, <3>4, NoReqTyped, EndingTyped, MoveKeeps DEF PCs
  <2>19. CASE EndRows(p)
    <3>1. StoreTyped'
      BY <1>t, <1>3, <2>19, EndedTyped DEF EndRows, StoreTyped, redis
    <3>2. Fits("uncache", req[p])
      BY DEF Fits
    <3>q. QED
      BY <2>19, <3>1, <3>2, GotoKeeps DEF EndRows, PCs
  <2>20. CASE DropEnded(p)
    <3>1. PICK d \in req[p].doomed :
            /\ Del(d[2])
            /\ Move(p, IF req[p].doomed = {d} THEN "commit" ELSE "uncache",
                   [req[p] EXCEPT !.doomed = @ \ {d}])
      BY <2>20 DEF DropEnded
    <3>2. req[p].doomed \ {d} \in SUBSET (Sessions \X Tokens)
      BY <2>r DEF Req
    <3>3. ASSUME NEW w \in {"commit", "uncache"}
          PROVE  LET r == [req[p] EXCEPT !.doomed = req[p].doomed \ {d}]
                 IN  r \in Req /\ Fits(w, r)
      BY <2>r, <3>2, LocalsDropped DEF Fits
    <3>4. StoreTyped'
      BY <1>t, <1>3, <2>20, <3>1 DEF DropEnded, Del, StoreTyped, store
    <3>5. PICK w \in {"commit", "uncache"} :
            Move(p, w, [req[p] EXCEPT !.doomed = req[p].doomed \ {d}])
      BY <3>1
    <3>q. QED
      BY <3>3, <3>4, <3>5, MoveKeeps DEF PCs
  <2>21. CASE Commit(p)
    <3>1. NoReq \in Req /\ Fits("idle", NoReq)
      BY NoReqTyped DEF Fits
    <3>2. disclosed' \subseteq Tokens
      BY <1>t, <2>r, <2>21 DEF Commit, StoreTyped, Req
    <3>3. StoreTyped'
      BY <1>t, <1>3, <2>21, <3>2 DEF Commit, Release, StoreTyped, redis
    <3>q. QED
      BY <2>21, <3>1, <3>3, MoveKeeps DEF Commit, Leave, PCs
  <2>22. CASE Abandon(p)
    <3>1. NoReq \in Req /\ Fits("idle", NoReq)
      BY NoReqTyped DEF Fits
    <3>2. StoreTyped'
      BY <1>t, <1>3, <2>22 DEF Abandon, Release, StoreTyped, redis
    <3>q. QED
      BY <2>22, <3>1, <3>2, MoveKeeps DEF Abandon, Leave, PCs
  <2>23. QED
    BY <1>3, <2>1, <2>2, <2>3, <2>4, <2>5, <2>6, <2>7, <2>8, <2>9, <2>10, <2>11,
       <2>12, <2>13, <2>14, <2>15, <2>16, <2>17, <2>18, <2>19, <2>20, <2>21, <2>22
       DEF Step
<1>4. QED
  BY <1>1, <1>2, <1>3 DEF Next

\* Every variable keeps its type in every behaviour, for any constants.
THEOREM TypeCorrect == Spec => []TypeOK
<1>1. Spec => []TypeInv
  BY InitTypeInv, StepTypeInv, PTL DEF Spec
<1>2. TypeInv => TypeOK
  BY DEF TypeInv
<1>3. QED
  BY <1>1, <1>2, PTL

-----------------------------------------------------------------------------
(* What a stored session and a passing finalize owe to the proofs people   *)
(* gave.                                                                   *)

\* A session is sound when the person it names proved its password or its scan,
\* and every factor is theirs or came with a directory session whose bind once
\* named somebody else. The properties say this of what is stored; it is
\* inductive only when it also holds of the sessions requests hold in their
\* locals and of the rows a transaction has not committed, and when a scan is
\* known to belong to a QR session and a second factor to follow a password.
\* "o" is how sessions were opened, "pr" what was proved.
Handed(o, pr, l, f) ==
    /\ o[l.id].kind = "directory"
    /\ f \in SecondFactors
    /\ \E u \in Users \ {l.user} : {<<l.id, u, "pwd">>, <<l.id, u, f>>} \subseteq pr

Sound(o, pr, l) ==
    /\ "vc" \in l.factors => o[l.id].kind = "qr"
    /\ l.factors # {} => <<l.id, l.user, "pwd">> \in pr \/ <<l.id, l.user, "vc">> \in pr
    /\ \A f \in l.factors : <<l.id, l.user, f>> \in pr \/ Handed(o, pr, l, f)
    /\ l.factors \cap SecondFactors # {} => <<l.id, l.user, "pwd">> \in pr

\* ... and so is a row under the token it was minted ("m") for.
SoundRow(o, pr, m, r, s) ==
    r # None => r.live.id = s /\ m[r.token] = s /\ Sound(o, pr, r.live)

SoundCopy(o, pr, m, c, t) ==
    c # None => c.id = m[t] /\ Sound(o, pr, c)

\* A request acts on the session of the token it presented, and keeps in
\* "sure" a person who proved its factor in that session.
SoundReq(o, pr, m, w, r) ==
    /\ r.tok # None => m[r.tok] # None
    /\ r.new # None => m[r.new] # None
    /\ r.live # None =>
         /\ Sound(o, pr, r.live)
         /\ r.tok # None => r.live.id = m[r.tok]
         /\ w \in {"save", "drop", "put"} => r.live.id = m[r.new]
    /\ r.sure # None =>
         /\ r.tok # None
         /\ <<m[r.tok], r.sure, r.op>> \in pr
         /\ r.op \in SecondFactors => <<m[r.tok], r.sure, "pwd">> \in pr
         /\ r.op = "vc" => o[m[r.tok]].kind = "qr"
    /\ w = "idle" => r.sure = None
    /\ w = "finalized" =>
         /\ Authenticated(r.live)
         /\ r.owed # {} => r.live.factors \cap (SecondFactors \cup {"vc"}) # {}

RowsSound == \A s \in Sessions : SoundRow(origin, proved, minter, row[s], s)
StagedSound == \A s \in Sessions : SoundRow(origin, proved, minter, staged[s], s)
CacheSound == \A t \in Tokens : SoundCopy(origin, proved, minter, cache[t], t)
DisclosedSound == \A t \in disclosed : minter[t] # None
ReqsSound == \A p \in Procs : SoundReq(origin, proved, minter, pc[p], req[p])

Inv == RowsSound /\ StagedSound /\ CacheSound /\ DisclosedSound /\ ReqsSound

IInv == TypeInv /\ Inv

-----------------------------------------------------------------------------
(* What every step keeps: how sessions are opened, what was proved, and the *)
(* session a token was minted for.                                          *)

Grows ==
    /\ origin' = origin
    /\ proved \subseteq proved'
    /\ \A t \in Tokens : minter[t] # None => minter'[t] = minter[t]

LEMMA SoundGrows ==
  ASSUME NEW o, NEW pr, NEW more, pr \subseteq more, NEW l, Sound(o, pr, l)
  PROVE  Sound(o, more, l)
  BY DEF Sound, Handed

\* An upgrade is sound: it adds a factor to the sessions of one person, or
\* it is a bind, and the person it names proved the password of that session as
\* the person before did.
LEMMA UpgradeSound ==
  ASSUME NEW o, NEW pr, NEW more, pr \subseteq Sessions \X Users \X Factors,
         pr \subseteq more, NEW l \in Live, Sound(o, pr, l),
         NEW u \in Users, NEW f \in Factors, <<l.id, u, f>> \in more,
         f = "vc" => o[l.id].kind = "qr",
         f \in SecondFactors => <<l.id, u, "pwd">> \in more,
         l.user \in {None, u} \/ (o[l.id].kind = "directory" /\ f = "pwd"),
         NEW n \in Live, n.id = l.id, n.user = u, n.factors = l.factors \cup {f}
  PROVE  Sound(o, more, n)
<1>0. /\ "vc" \in l.factors => o[l.id].kind = "qr"
      /\ l.factors # {} => <<l.id, l.user, "pwd">> \in pr \/ <<l.id, l.user, "vc">> \in pr
      /\ \A g \in l.factors : <<l.id, l.user, g>> \in pr \/ Handed(o, pr, l, g)
      /\ l.factors \cap SecondFactors # {} => <<l.id, l.user, "pwd">> \in pr
  BY DEF Sound
<1>1. l.factors # {} => l.user \in Users
  BY <1>0
<1>2. "vc" \in n.factors => o[n.id].kind = "qr"
  BY <1>0
<1>3. CASE l.user = u
  <2>1. <<n.id, n.user, "pwd">> \in more \/ <<n.id, n.user, "vc">> \in more
    BY <1>0, <1>3 DEF Factors, SecondFactors
  <2>2. ASSUME NEW g \in n.factors
        PROVE  <<n.id, n.user, g>> \in more \/ Handed(o, more, n, g)
    <3>1. CASE g = f
      BY <3>1
    <3>2. CASE g \in l.factors
      BY <1>0, <1>3, <3>2 DEF Handed
    <3>q. QED
      BY <3>1, <3>2
  <2>3. n.factors \cap SecondFactors # {} => <<n.id, n.user, "pwd">> \in more
    BY <1>0, <1>3
  <2>q. QED
    BY <1>2, <2>1, <2>2, <2>3 DEF Sound
<1>4. CASE l.user # u /\ l.factors = {}
  <2>1. n.factors = {f}
    BY <1>4
  <2>q. QED
    BY <1>2, <2>1 DEF Sound, Factors, SecondFactors
<1>5. CASE l.user # u /\ l.factors # {}
  <2>1. o[l.id].kind = "directory" /\ f = "pwd" /\ l.user \in Users
    BY <1>1, <1>5, NoneAssumption
  <2>2. ASSUME NEW g \in n.factors
        PROVE  <<n.id, n.user, g>> \in more \/ Handed(o, more, n, g)
    <3>1. CASE g = "pwd"
      BY <2>1, <3>1
    <3>2. CASE g # "pwd"
      <4>1. g \in l.factors /\ g \in SecondFactors
        BY <1>0, <2>1, <3>2 DEF Live, Factors
      <4>2. <<l.id, l.user, "pwd">> \in pr
        BY <1>0, <4>1
      <4>3. CASE <<l.id, l.user, g>> \in pr
        BY <1>5, <2>1, <4>1, <4>2, <4>3 DEF Handed
      <4>4. CASE Handed(o, pr, l, g)
        <5>1. PICK w \in Users : {<<l.id, w, "pwd">>, <<l.id, w, g>>} \subseteq pr
          BY <4>4 DEF Handed
        <5>2. CASE w = u
          BY <5>1, <5>2
        <5>3. CASE w # u
          BY <2>1, <4>1, <5>1, <5>3 DEF Handed
        <5>q. QED
          BY <5>2, <5>3
      <4>q. QED
        BY <1>0, <4>1, <4>3, <4>4
    <3>q. QED
      BY <3>1, <3>2
  <2>q. QED
    BY <1>2, <2>1, <2>2 DEF Sound
<1>q. QED
  BY <1>3, <1>4, <1>5

\* A session is as sound as one of the same person and factors.
LEMMA SoundSame ==
  ASSUME NEW o, NEW pr, NEW l, Sound(o, pr, l),
         NEW n, n.id = l.id, n.user = l.user, n.factors = l.factors
  PROVE  Sound(o, pr, n)
<1>1. \A f : Handed(o, pr, l, f) => Handed(o, pr, n, f)
  BY DEF Handed
<1>2. QED
  BY <1>1 DEF Sound

\* Whoever a session with a proved password names proved it.
LEMMA SoundPassword ==
  ASSUME NEW o, NEW pr, NEW l, Sound(o, pr, l), "pwd" \in l.factors
  PROVE  <<l.id, l.user, "pwd">> \in pr
  BY DEF Sound, Handed, SecondFactors

LEMMA RowGrows ==
  ASSUME NEW o, NEW pr, NEW more, pr \subseteq more, NEW m, NEW m2,
         \A t \in Tokens : m[t] # None => m2[t] = m[t],
         NEW s \in Sessions, NEW r \in Row \cup {None}, SoundRow(o, pr, m, r, s)
  PROVE  SoundRow(o, more, m2, r, s)
<1>1. CASE r = None
  BY <1>1 DEF SoundRow
<1>2. CASE r # None
  <2>1. r.token \in Tokens
    BY <1>2 DEF Row
  <2>2. m2[r.token] = s
    BY <1>2, <2>1 DEF SoundRow
  <2>3. QED
    BY <1>2, <2>2, SoundGrows DEF SoundRow
<1>3. QED
  BY <1>1, <1>2

LEMMA CopyGrows ==
  ASSUME NEW o, NEW pr, NEW more, pr \subseteq more, NEW m, NEW m2,
         \A t \in Tokens : m[t] # None => m2[t] = m[t],
         NEW t \in Tokens, NEW c \in Live \cup {None}, SoundCopy(o, pr, m, c, t)
  PROVE  SoundCopy(o, more, m2, c, t)
<1>1. CASE c = None
  BY <1>1 DEF SoundCopy
<1>2. CASE c # None
  <2>1. c.id \in Sessions
    BY <1>2 DEF Live
  <2>2. m2[t] = c.id
    BY <1>2, <2>1 DEF SoundCopy
  <2>3. QED
    BY <1>2, <2>2, SoundGrows DEF SoundCopy
<1>3. QED
  BY <1>1, <1>2

LEMMA ReqGrows ==
  ASSUME NEW o, NEW pr, NEW more, pr \subseteq more, NEW m, NEW m2,
         \A t \in Tokens : m[t] # None => m2[t] = m[t],
         NEW w \in PCs, NEW r \in Req, Fits(w, r), SoundReq(o, pr, m, w, r)
  PROVE  SoundReq(o, more, m2, w, r)
<1>1. /\ r.tok # None => r.tok \in Tokens /\ m2[r.tok] = m[r.tok]
      /\ r.new # None => r.new \in Tokens /\ m2[r.new] = m[r.new]
  BY DEF Req, SoundReq
<1>2. r.live # None => Sound(o, more, r.live)
  BY SoundGrows DEF SoundReq
<1>3. w \in {"save", "drop", "put"} => r.new # None
  BY DEF Fits
<1>4. QED
  BY <1>1, <1>2, <1>3 DEF SoundReq

\* What is stored stays sound while proofs and minted tokens are added.
LEMMA StoreGrows ==
  ASSUME IInv, Grows
  PROVE  /\ \A s \in Sessions : SoundRow(origin', proved', minter', row[s], s)
         /\ \A s \in Sessions : SoundRow(origin', proved', minter', staged[s], s)
         /\ \A t \in Tokens : SoundCopy(origin', proved', minter', cache[t], t)
         /\ \A t \in disclosed : minter'[t] # None
<1>1. /\ \A s \in Sessions : row[s] \in Row \cup {None} /\ staged[s] \in Row \cup {None}
      /\ \A t \in Tokens : cache[t] \in Live \cup {None}
      /\ disclosed \subseteq Tokens
  BY DEF IInv, TypeInv, TypeOK
<1>2. origin' = origin
  BY DEF Grows
<1>3. ASSUME NEW s \in Sessions
      PROVE  /\ SoundRow(origin, proved', minter', row[s], s)
             /\ SoundRow(origin, proved', minter', staged[s], s)
  BY <1>1, RowGrows DEF IInv, Inv, RowsSound, StagedSound, Grows
<1>4. ASSUME NEW t \in Tokens
      PROVE  SoundCopy(origin, proved', minter', cache[t], t)
  BY <1>1, CopyGrows DEF IInv, Inv, CacheSound, Grows
<1>5. \A t \in disclosed : minter'[t] # None
  BY <1>1 DEF IInv, Inv, DisclosedSound, Grows
<1>6. QED
  BY <1>2, <1>3, <1>4, <1>5

StoreSound == RowsSound /\ StagedSound /\ CacheSound /\ DisclosedSound

\* ... and so does all that an action leaves alone.
LEMMA StoreStays ==
  ASSUME IInv, Grows, UNCHANGED <<store, cache, disclosed>>
  PROVE  StoreSound'
  BY StoreGrows DEF StoreSound, store, RowsSound, StagedSound, CacheSound, DisclosedSound

\* A request that moves to sound locals leaves every request sound.
LEMMA MoveSound ==
  ASSUME IInv, Grows, NEW p \in Procs, NEW w \in PCs, NEW r \in Req, Move(p, w, r),
         SoundReq(origin, proved', minter', w, r)
  PROVE  ReqsSound'
<1>1. pc \in [Procs -> PCs] /\ req \in [Procs -> Req]
  BY DEF IInv, TypeInv, TypeOK
<1>2. /\ pc'[p] = w /\ req'[p] = r
      /\ \A q \in Procs \ {p} : pc'[q] = pc[q] /\ req'[q] = req[q]
  BY <1>1, MoveOne
<1>3. ASSUME NEW q \in Procs
      PROVE  SoundReq(origin, proved', minter', pc[q], req[q])
  <2>1. pc[q] \in PCs /\ req[q] \in Req /\ Fits(pc[q], req[q])
    BY <1>1 DEF IInv, TypeInv, Shape, Fits
  <2>2. SoundReq(origin, proved, minter, pc[q], req[q])
    BY DEF IInv, Inv, ReqsSound
  <2>3. QED
    BY <2>1, <2>2, ReqGrows DEF Grows
<1>4. \A q \in Procs : SoundReq(origin, proved', minter', pc'[q], req'[q])
  BY <1>2, <1>3
<1>5. QED
  BY <1>4 DEF ReqsSound, Grows

LEMMA GotoSound ==
  ASSUME IInv, Grows, NEW p \in Procs, NEW w \in PCs, Goto(p, w), UNCHANGED req,
         SoundReq(origin, proved', minter', w, req[p])
  PROVE  ReqsSound'
<1>1. req \in [Procs -> Req]
  BY DEF IInv, TypeInv, TypeOK
<1>2. req' = [req EXCEPT ![p] = req[p]]
  BY <1>1
<1>3. Move(p, w, req[p]) /\ req[p] \in Req
  BY <1>1, <1>2 DEF Move
<1>4. QED
  BY <1>3, MoveSound

-----------------------------------------------------------------------------

LEMMA PresentedFields ==
  ASSUME NEW o \in Ops, NEW t \in Tokens
  PROVE  LET r == [NoReq EXCEPT !.op = o, !.tok = t]
         IN  /\ r \in Req
             /\ r.tok = t /\ r.live = None /\ r.new = None /\ r.sure = None
  BY DEF NoReq, Req, Ops

LEMMA InitSound == Init => Inv
<1> SUFFICES ASSUME Init PROVE Inv
  OBVIOUS
<1>1. RowsSound /\ StagedSound /\ CacheSound /\ DisclosedSound
  BY DEF Init, RowsSound, StagedSound, CacheSound, DisclosedSound, SoundRow, SoundCopy
<1>2. ReqsSound
  BY DEF Init, ReqsSound, SoundReq, NoReq
<1>3. QED
  BY <1>1, <1>2 DEF Inv

LEMMA StepSound == IInv /\ [Next]_vars => Inv'
<1> SUFFICES ASSUME IInv, [Next]_vars
             PROVE  StoreSound' /\ ReqsSound'
  BY DEF Inv, StoreSound
<1>t. StoreTyped /\ ProcsTyped /\ StoreSound /\ ReqsSound
  BY DEF IInv, TypeInv, TypeOK, Inv, StoreTyped, ProcsTyped, StoreSound
<1>k. \A s \in Sessions : origin[s].kind \in Kinds /\ origin[s].scanned \in Users \cup {None}
  BY <1>t, OpenedAssumption DEF StoreTyped, Origin
<1>1. CASE UNCHANGED vars
  BY <1>1, <1>t DEF vars, StoreSound, ReqsSound, RowsSound, StagedSound, CacheSound,
     DisclosedSound
<1>2. CASE Tick /\ UNCHANGED origin
  BY <1>2, <1>t DEF Tick, store, redis, StoreSound, ReqsSound, RowsSound, StagedSound,
     CacheSound, DisclosedSound
<1>3. ASSUME NEW p \in Procs, Step(p), UNCHANGED origin
      PROVE  StoreSound' /\ ReqsSound'
  <2> DEFINE live == req[p].live
  <2>r. /\ req[p] \in Req /\ pc[p] \in PCs /\ Fits(pc[p], req[p])
        /\ SoundReq(origin, proved, minter, pc[p], req[p])
    BY <1>t DEF IInv, TypeInv, Shape, Fits, ProcsTyped, ReqsSound
  <2>f. /\ req[p].tok \in Tokens \cup {None} /\ req[p].new \in Tokens \cup {None}
        /\ live \in Live \cup {None}
        /\ live # None => live.id \in Sessions
    BY <2>r DEF Req, Live
  <2>g. ASSUME UNCHANGED <<minter, proved>>
        PROVE  Grows
    BY <1>3, <2>g DEF Grows
  <2>1. CASE Identify(p)
    <3>1. PICK s \in Sessions, t \in Tokens, u \in Users \cup {None} :
            /\ Mint(s, t)
            /\ Move(p, "save", Saving([NoReq EXCEPT !.op = "identify"], t, Opening(s, u)))
      BY <2>1 DEF Identify
    <3>2. PICK n : n = [NoReq EXCEPT !.op = "identify"]
      OBVIOUS
    <3>2a. n \in Req /\ n.tok = None /\ n.sure = None
      BY <3>2, NoReqTyped, NoReqFields, OpTyped DEF Ops
    <3>3. PICK l \in Live : l = Opening(s, u) /\ l.id = s /\ l.user = u /\ l.factors = {}
      BY <1>t, <3>1, OpeningTyped DEF StoreTyped
    <3>4. Grows /\ minter'[t] = s
      BY <1>3, <1>t, <2>1, <3>1 DEF Identify, Mint, Grows, StoreTyped
    <3>5. Sound(origin, proved', l)
      BY <3>3 DEF Sound
    <3>6. PICK r \in Req :
            /\ r = Saving(n, t, l)
            /\ r.new = t /\ r.live = l /\ r.tok = None /\ r.sure = None
      BY <3>1, <3>2a, <3>3, SavingTyped
    <3>7. SoundReq(origin, proved', minter', "save", r)
      BY <3>3, <3>4, <3>5, <3>6 DEF SoundReq
    <3>9. Move(p, "save", r)
      BY <3>1, <3>2, <3>3, <3>6
    <3>8. StoreSound'
      BY <2>1, <3>4, StoreStays DEF Identify, redis
    <3>q. QED
      BY <3>4, <3>7, <3>8, <3>9, MoveSound DEF PCs
  <2>2. CASE Present(p)
    <3>1. PICK t \in disclosed, o \in Presented :
            Move(p, "get", [NoReq EXCEPT !.op = o, !.tok = t])
      BY <2>2 DEF Present
    <3>2. o \in Ops /\ t \in Tokens /\ minter[t] # None
      BY <1>t, <3>1, PresentedAssumption
         DEF ClientSteps, Ops, StoreTyped, StoreSound, DisclosedSound
    <3>4. PICK r : r = [NoReq EXCEPT !.op = o, !.tok = t]
      OBVIOUS
    <3>4a. /\ r \in Req
           /\ r.tok = t /\ r.live = None /\ r.new = None /\ r.sure = None
      BY <3>4, <3>2, PresentedFields
    <3>5. Grows /\ UNCHANGED <<minter, proved>>
      BY <2>2, <2>g DEF Present
    <3>6. SoundReq(origin, proved', minter', "get", r)
      BY <3>2, <3>4, <3>4a, <3>5 DEF SoundReq
    <3>7. StoreSound'
      BY <2>2, <3>5, StoreStays DEF Present, redis
    <3>q. QED
      BY <3>1, <3>4, <3>4a, <3>5, <3>6, <3>7, MoveSound DEF PCs
  <2>3. CASE GetHit(p)
    <3>1. /\ req[p].tok \in Tokens
          /\ cache[req[p].tok] \in Live
      BY <1>t, <2>r, <2>3 DEF GetHit, Cached, Fits, StoreTyped, Req
    <3>2. PICK c \in Live : c = cache[req[p].tok]
      BY <3>1
    <3>3. c.id = minter[req[p].tok] /\ Sound(origin, proved, c)
      BY <1>t, <3>1, <3>2 DEF StoreSound, CacheSound, SoundCopy
    <3>4. PICK r : r = [req[p] EXCEPT !.live = c]
      OBVIOUS
    <3>4a. /\ r \in Req
           /\ r.live = c /\ r.tok = req[p].tok /\ r.new = req[p].new
           /\ r.sure = req[p].sure /\ r.op = req[p].op
      BY <3>4, <2>r, <3>2, LocalsFound
    <3>5. Grows /\ UNCHANGED <<minter, proved>>
      BY <2>3, <2>g DEF GetHit
    <3>6. SoundReq(origin, proved', minter', "found", r)
      BY <2>r, <3>3, <3>4, <3>4a, <3>5 DEF SoundReq
    <3>7. StoreSound'
      BY <2>3, <3>5, StoreStays DEF GetHit, redis
    <3>q. QED
      BY <2>3, <3>2, <3>4, <3>4a, <3>5, <3>6, <3>7, MoveSound DEF GetHit, PCs
  <2>4. CASE GetMiss(p)
    <3>1. Grows /\ UNCHANGED <<minter, proved>>
      BY <2>4, <2>g DEF GetMiss
    <3>2. SoundReq(origin, proved', minter', "read", req[p])
      BY <2>r, <2>4, <3>1 DEF GetMiss, SoundReq
    <3>3. StoreSound'
      BY <2>4, <3>1, StoreStays DEF GetMiss, redis
    <3>q. QED
      BY <2>4, <3>1, <3>2, <3>3, GotoSound DEF GetMiss, PCs
  <2>5. CASE ReadRow(p)
    <3>1. PICK s \in Sessions :
            /\ row[s] # None
            /\ row[s].token = req[p].tok
            /\ Move(p, "fill", [req[p] EXCEPT !.live = row[s].live])
      BY <2>5 DEF ReadRow, Alive
    <3>2. PICK l \in Live : l = row[s].live
      BY <1>t, <3>1 DEF StoreTyped, Row
    <3>3. l.id = minter[req[p].tok] /\ Sound(origin, proved, l)
      BY <1>t, <3>1, <3>2 DEF StoreSound, RowsSound, SoundRow
    <3>4a. LET n == [req[p] EXCEPT !.live = l]
           IN  /\ n \in Req
               /\ n.live = l /\ n.tok = req[p].tok /\ n.new = req[p].new
               /\ n.sure = req[p].sure /\ n.op = req[p].op
      BY <2>r, <3>2, LocalsFound
    <3>4. PICK r \in Req :
            /\ r = [req[p] EXCEPT !.live = l]
            /\ r.live = l /\ r.tok = req[p].tok /\ r.new = req[p].new
            /\ r.sure = req[p].sure /\ r.op = req[p].op
      BY <3>4a
    <3>5. Grows /\ UNCHANGED <<minter, proved>>
      BY <2>5, <2>g DEF ReadRow
    <3>6. SoundReq(origin, proved', minter', "fill", r)
      BY <2>r, <3>3, <3>4, <3>5 DEF SoundReq
    <3>7. StoreSound'
      BY <2>5, <3>5, StoreStays DEF ReadRow, redis
    <3>q. QED
      BY <3>1, <3>2, <3>4, <3>5, <3>6, <3>7, MoveSound DEF PCs
  <2>6. CASE Refill(p)
    <3>1. req[p].tok \in Tokens /\ live \in Live
      BY <2>r, <2>6 DEF Refill, Fits, Req
    <3>2. Grows /\ UNCHANGED <<minter, proved>>
      BY <2>6, <2>g DEF Refill
    <3>3. live.id = minter[req[p].tok] /\ Sound(origin, proved, live)
      BY <2>r, <3>1 DEF SoundReq
    <3>4. CacheSound'
      BY <1>3, <1>t, <2>6, <3>1, <3>2, <3>3
         DEF Refill, SetKey, redis, StoreSound, CacheSound, SoundCopy, StoreTyped
    <3>5. RowsSound' /\ StagedSound' /\ DisclosedSound'
      BY <1>3, <1>t, <2>6, <3>2
         DEF Refill, store, StoreSound, RowsSound, StagedSound, DisclosedSound
    <3>6. SoundReq(origin, proved', minter', "found", req[p])
      BY <2>r, <2>6, <3>2 DEF Refill, SoundReq
    <3>q. QED
      BY <2>6, <3>2, <3>4, <3>5, <3>6, GotoSound DEF Refill, PCs, StoreSound
  <2>u. ASSUME NEW u \in Users, NEW f \in Factors, pc[p] = "found", Upgrade(p, u, f),
               proved \subseteq proved', <<live.id, u, f>> \in proved',
               f = "vc" => origin[live.id].kind = "qr",
               f \in SecondFactors => <<live.id, u, "pwd">> \in proved',
               \/ live.user \in {None, u}
               \/ origin[live.id].kind = "directory" /\ f = "pwd"
        PROVE  Grows /\ ReqsSound'
    <3>1. PICK t \in Tokens :
            /\ Mint(live.id, t)
            /\ Move(p, "save", Saving(req[p], t, Upgraded(live, u, f)))
      BY <2>u DEF Upgrade
    <3>2. live \in Live /\ req[p].tok \in Tokens
      BY <2>r, <2>u DEF Fits, Req
    <3>3. PICK l \in Live :
            /\ l = Upgraded(live, u, f)
            /\ l.id = live.id /\ l.user = u /\ l.factors = live.factors \cup {f}
      BY <1>t, <2>u, <3>2, UpgradedTyped DEF StoreTyped
    <3>4. PICK r \in Req :
            /\ r = Saving(req[p], t, l)
            /\ r.new = t /\ r.live = l /\ r.tok = req[p].tok
            /\ r.sure = req[p].sure /\ r.op = req[p].op
      BY <2>r, <3>1, <3>3, SavingTyped
    <3>5. Grows /\ minter'[t] = live.id
      BY <1>3, <1>t, <2>u, <3>1 DEF Mint, Grows, StoreTyped
    <3>6. Sound(origin, proved, live) /\ live.id = minter[req[p].tok]
      BY <2>r, <3>2 DEF SoundReq
    <3>7. Sound(origin, proved', l)
      BY <1>t, <2>u, <3>2, <3>3, <3>6, UpgradeSound DEF StoreTyped
    <3>8. minter'[req[p].tok] = minter[req[p].tok]
      BY <2>r, <3>2, <3>5 DEF Grows, SoundReq
    <3>9. SoundReq(origin, proved', minter', "save", r)
      BY <2>f, <2>r, <2>u, <3>2, <3>3, <3>4, <3>5, <3>6, <3>7, <3>8 DEF SoundReq
    <3>q. QED
      BY <3>1, <3>3, <3>4, <3>5, <3>9, MoveSound DEF PCs
  <2>7. CASE VerifyPassword(p)
    <3>1. live \in Live /\ Sound(origin, proved, live)
      BY <2>r, <2>7 DEF VerifyPassword, Fits, Req, SoundReq
    <3>2. live.id \in Sessions /\ live.user \in Users \cup {None}
      BY <3>1 DEF Live
    <3>3. PICK u \in Users :
            /\ u \in Provable(live)
            /\ Upgrade(p, u, "pwd")
            /\ proved' = proved \cup {<<live.id, u, "pwd">>}
      BY <2>7, <3>2 DEF VerifyPassword, Provable
    <3>4. u = live.user \/ origin[live.id].kind = "directory"
      BY <3>3 DEF Provable
    <3>5. Grows /\ ReqsSound'
      BY <2>u, <2>7, <3>3, <3>4 DEF VerifyPassword, Factors, SecondFactors
    <3>6. StoreSound'
      BY <2>7, <3>5, StoreStays DEF VerifyPassword, redis
    <3>q. QED
      BY <3>5, <3>6
  <2>8. CASE ProveFactor(p)
    <3>1. /\ live \in Live /\ req[p].tok \in Tokens
          /\ Sound(origin, proved, live)
          /\ live.id = minter[req[p].tok]
      BY <2>r, <2>8 DEF ProveFactor, Fits, Req, SoundReq
    <3>2. live.id \in Sessions /\ live.user \in Users \cup {None}
      BY <3>1 DEF Live
    <3>3. PICK u \in Users :
            /\ u = IF req[p].op = "vc" THEN origin[live.id].scanned ELSE live.user
            /\ Move(p, "get", [req[p] EXCEPT !.sure = u, !.live = None])
            /\ proved' = proved \cup {<<live.id, u, req[p].op>>}
      BY <1>k, <2>8, <3>2 DEF ProveFactor
    <3>4. /\ req[p].op = "vc" => origin[live.id].kind = "qr"
          /\ req[p].op \in SecondFactors => <<live.id, u, "pwd">> \in proved'
      BY <2>8, <3>1, <3>3, SoundPassword DEF ProveFactor, SecondFactors
    <3>5. PICK r : r = [req[p] EXCEPT !.sure = u, !.live = None]
      OBVIOUS
    <3>5a. /\ r \in Req
           /\ r.sure = u /\ r.live = None /\ r.tok = req[p].tok
           /\ r.new = req[p].new /\ r.op = req[p].op
      BY <3>5, <2>r, <3>3, LocalsProved
    <3>6. Grows /\ UNCHANGED minter
      BY <1>3, <2>8, <3>3 DEF ProveFactor, Grows
    <3>7. SoundReq(origin, proved', minter', "get", r)
      BY <2>r, <3>1, <3>3, <3>4, <3>5, <3>5a, <3>6 DEF SoundReq
    <3>8. StoreSound'
      BY <2>8, <3>6, StoreStays DEF ProveFactor, redis
    <3>q. QED
      BY <3>3, <3>5, <3>5a, <3>6, <3>7, <3>8, MoveSound DEF PCs
  <2>9. CASE Complete(p)
    <3>1. /\ live \in Live /\ req[p].tok \in Tokens
          /\ live.id = minter[req[p].tok]
          /\ req[p].sure \in Users /\ req[p].op \in Factors
      BY <2>r, <2>9 DEF Complete, Fits, Req, SoundReq, Factors
    <3>2. /\ <<live.id, req[p].sure, req[p].op>> \in proved
          /\ req[p].op \in SecondFactors => <<live.id, req[p].sure, "pwd">> \in proved
          /\ req[p].op = "vc" => origin[live.id].kind = "qr"
      BY <2>r, <2>9, <3>1 DEF Complete, SoundReq
    <3>3. Grows /\ ReqsSound'
      BY <2>u, <2>9, <3>1, <3>2 DEF Complete
    <3>4. StoreSound'
      BY <2>9, <3>3, StoreStays DEF Complete, redis
    <3>q. QED
      BY <3>3, <3>4
  <2>10. CASE WrongCode(p)
    <3>1. PICK r : r = [req[p] EXCEPT !.op = "wrong", !.live = None]
      OBVIOUS
    <3>1a. /\ r \in Req
           /\ r.live = None /\ r.tok = req[p].tok /\ r.new = req[p].new
           /\ r.sure = req[p].sure
      BY <3>1, <2>r, LocalsWrong DEF Ops
    <3>2. Grows /\ UNCHANGED <<minter, proved>>
      BY <2>10, <2>g DEF WrongCode
    <3>3. SoundReq(origin, proved', minter', "get", r)
      BY <2>r, <2>10, <3>1, <3>1a, <3>2 DEF WrongCode, SoundReq
    <3>4. StoreSound'
      BY <2>10, <3>2, StoreStays DEF WrongCode, redis
    <3>q. QED
      BY <2>10, <3>1, <3>1a, <3>2, <3>3, <3>4, MoveSound DEF WrongCode, PCs
  <2>11. CASE CountWrongCode(p)
    <3>1. /\ live \in Live /\ req[p].tok \in Tokens
          /\ Sound(origin, proved, live)
          /\ live.id = minter[req[p].tok]
      BY <2>r, <2>11 DEF CountWrongCode, Fits, Req, SoundReq
    <3>2. PICK l \in Live :
            /\ l = [live EXCEPT !.wrong = @ + 1]
            /\ l.id = live.id /\ l.user = live.user /\ l.factors = live.factors
      BY <2>11, <3>1, WrongTyped DEF CountWrongCode
    <3>3. PICK r \in Req :
            /\ r = Saving(req[p], req[p].tok, l)
            /\ r.new = req[p].tok /\ r.live = l /\ r.tok = req[p].tok
            /\ r.sure = req[p].sure /\ r.op = req[p].op
      BY <2>r, <3>1, <3>2, SavingTyped
    <3>4. Grows /\ UNCHANGED <<minter, proved>>
      BY <2>11, <2>g DEF CountWrongCode
    <3>5. Sound(origin, proved, l)
      BY <3>1, <3>2, SoundSame
    <3>6. SoundReq(origin, proved', minter', "save", r)
      BY <2>r, <3>1, <3>2, <3>3, <3>4, <3>5 DEF SoundReq
    <3>7. StoreSound'
      BY <2>11, <3>4, StoreStays DEF CountWrongCode, redis
    <3>q. QED
      BY <2>11, <3>2, <3>3, <3>4, <3>6, <3>7, MoveSound DEF CountWrongCode, PCs
  <2>12. CASE Finalize(p)
    <3>1. PICK owed \in StepLists :
            /\ \/ "vc" \in live.factors
               \/ \A step \in owed : Meets(live, step)
            /\ Move(p, "finalized", [req[p] EXCEPT !.owed = owed])
      BY <2>12 DEF Finalize
    <3>2. PICK w \in SUBSET (ChallengeSteps \cup EnrolSteps) : w = owed
      BY <3>1 DEF StepLists
    <3>3. PICK r : r = [req[p] EXCEPT !.owed = w]
      OBVIOUS
    <3>4. /\ r \in Req /\ r.owed = w
          /\ r.live = live /\ r.tok = req[p].tok /\ r.new = req[p].new
          /\ r.sure = req[p].sure /\ r.op = req[p].op
      BY <2>r, <3>3, LocalsOwed
    <3>5. Grows /\ UNCHANGED <<minter, proved>>
      BY <2>12, <2>g DEF Finalize
    <3>6. w # {} => live.factors \cap (SecondFactors \cup {"vc"}) # {}
      BY <3>1, <3>2 DEF Meets
    <3>7. Authenticated(live)
      BY <2>12 DEF Finalize
    <3>8. SoundReq(origin, proved', minter', "finalized", r)
      BY <2>r, <3>4, <3>5, <3>6, <3>7 DEF SoundReq
    <3>9. StoreSound'
      BY <2>12, <3>5, StoreStays DEF Finalize, redis
    <3>q. QED
      BY <3>1, <3>2, <3>3, <3>4, <3>5, <3>8, <3>9, MoveSound DEF PCs
  <2>13. CASE SaveRow(p)
    <3>1. /\ req[p].new \in Tokens /\ live \in Live
          /\ live.id = minter[req[p].new] /\ Sound(origin, proved, live)
      BY <2>r, <2>13 DEF SaveRow, Fits, Req, SoundReq
    <3>2. SoundRow(origin, proved, minter, Seal(p), live.id)
      BY <3>1 DEF Seal, SoundRow
    <3>3. Grows /\ UNCHANGED <<minter, proved>>
      BY <2>13, <2>g DEF SaveRow
    <3>4. RowsSound' /\ StagedSound'
      BY <1>3, <1>t, <2>13, <3>2, <3>3
         DEF SaveRow, StoreSound, RowsSound, StagedSound, StoreTyped
    <3>5. CacheSound' /\ DisclosedSound'
      BY <1>3, <1>t, <2>13, <3>3
         DEF SaveRow, redis, StoreSound, CacheSound, DisclosedSound
    <3>6. SoundReq(origin, proved', minter', "put", req[p])
      BY <2>r, <2>13, <3>3 DEF SaveRow, SoundReq
    <3>7. SoundReq(origin, proved', minter', "drop", req[p])
      BY <2>r, <2>13, <3>3 DEF SaveRow, SoundReq
    <3>8. UNCHANGED req /\ (Goto(p, "put") \/ Goto(p, "drop"))
      BY <2>13 DEF SaveRow
    <3>q. QED
      BY <3>3, <3>4, <3>5, <3>6, <3>7, <3>8, GotoSound DEF StoreSound, PCs
  <2>14. CASE DropRotated(p)
    <3>1. Grows /\ UNCHANGED <<minter, proved>>
      BY <2>14, <2>g DEF DropRotated
    <3>2. CacheSound'
      BY <1>3, <1>t, <2>14, <3>1
         DEF DropRotated, Del, StoreSound, CacheSound, SoundCopy, StoreTyped
    <3>3. RowsSound' /\ StagedSound' /\ DisclosedSound'
      BY <1>3, <1>t, <2>14, <3>1
         DEF DropRotated, store, StoreSound, RowsSound, StagedSound, DisclosedSound
    <3>4. SoundReq(origin, proved', minter', "put", req[p])
      BY <2>r, <2>14, <3>1 DEF DropRotated, SoundReq
    <3>q. QED
      BY <2>14, <3>1, <3>2, <3>3, <3>4, GotoSound DEF DropRotated, StoreSound, PCs
  <2>15. CASE PutCache(p)
    <3>1. /\ req[p].new \in Tokens /\ live \in Live
          /\ live.id = minter[req[p].new] /\ Sound(origin, proved, live)
      BY <2>r, <2>15 DEF PutCache, Fits, Req, SoundReq
    <3>2. Grows /\ UNCHANGED <<minter, proved>>
      BY <2>15, <2>g DEF PutCache
    <3>3. CacheSound'
      BY <1>3, <1>t, <2>15, <3>1, <3>2
         DEF PutCache, SetKey, redis, StoreSound, CacheSound, SoundCopy, StoreTyped
    <3>4. RowsSound' /\ StagedSound' /\ DisclosedSound'
      BY <1>3, <1>t, <2>15, <3>2
         DEF PutCache, store, StoreSound, RowsSound, StagedSound, DisclosedSound
    <3>5. SoundReq(origin, proved', minter', "commit", req[p])
      BY <2>r, <2>15, <3>2 DEF PutCache, SoundReq
    <3>q. QED
      BY <2>15, <3>2, <3>3, <3>4, <3>5, GotoSound DEF PutCache, StoreSound, PCs
  <2>v. ASSUME NEW s \in Sessions, TerminateRead(p, s), req[p].sure = None
        PROVE  StoreSound' /\ ReqsSound'
    <3>1. {<<s, row[s].token>>} \in SUBSET (Sessions \X Tokens)
      BY <1>t, <2>v DEF TerminateRead, Alive, StoreTyped, Row
    <3>2. "terminate" \in Ops
      BY DEF Ops
    <3>3. PICK r \in Req :
            /\ r = Ending(req[p], "terminate", {<<s, row[s].token>>})
            /\ r.live = live /\ r.tok = req[p].tok /\ r.new = req[p].new /\ r.sure = None
      BY <2>r, <2>v, <3>1, <3>2, EndingTyped
    <3>4. Grows /\ UNCHANGED <<minter, proved>>
      BY <2>v, <2>g DEF TerminateRead
    <3>5. SoundReq(origin, proved', minter', "end", r)
      BY <2>r, <3>3, <3>4 DEF SoundReq
    <3>6. StoreSound'
      BY <2>v, <3>4, StoreStays DEF TerminateRead, redis
    <3>q. QED
      BY <2>v, <3>3, <3>4, <3>5, <3>6, MoveSound DEF TerminateRead, PCs
  <2>16. CASE EndFound(p)
    <3>1. live.id \in Sessions
      BY <2>r, <2>16 DEF EndFound, Fits, Req, Live
    <3>2. req[p].sure = None
      <4>1. req[p].op \notin Factors
        BY <2>16 DEF EndFound, Factors, SecondFactors
      <4>2. <<minter[req[p].tok], req[p].sure, req[p].op>> \notin proved
        BY <1>t, <4>1 DEF StoreTyped
      <4>q. QED
        BY <2>r, <4>2 DEF SoundReq
    <3>q. QED
      BY <2>v, <2>16, <3>1, <3>2 DEF EndFound
  <2>17. CASE TerminateByID(p)
    BY <2>r, <2>v, <2>17 DEF TerminateByID, SoundReq
  <2>18. CASE RevokeRead(p)
    <3>1. PICK gone \in SUBSET {s \in Sessions : row[s] # None} :
            Move(p, "end", Ending(NoReq, "revoke", {<<s, row[s].token>> : s \in gone}))
      BY <2>18 DEF RevokeRead
    <3>2. {<<s, row[s].token>> : s \in gone} \in SUBSET (Sessions \X Tokens)
      BY <1>t, <3>1 DEF StoreTyped, Row
    <3>3. "revoke" \in Ops
      BY DEF Ops
    <3>4. PICK r \in Req :
            /\ r = Ending(NoReq, "revoke", {<<s, row[s].token>> : s \in gone})
            /\ r.live = None /\ r.tok = None /\ r.new = None /\ r.sure = None
      BY <3>2, <3>3, NoReqTyped, NoReqFields, EndingTyped
    <3>5. Grows
      BY <2>18, <2>g DEF RevokeRead
    <3>6. SoundReq(origin, proved', minter', "end", r)
      BY <3>4 DEF SoundReq
    <3>7. StoreSound'
      BY <2>18, <3>5, StoreStays DEF RevokeRead, redis
    <3>q. QED
      BY <3>1, <3>4, <3>5, <3>6, <3>7, MoveSound DEF PCs
  <2>19. CASE EndRows(p)
    <3>1. Grows /\ UNCHANGED <<minter, proved>>
      BY <2>19, <2>g DEF EndRows
    <3>2. ASSUME NEW s \in Sessions, row[s] # None
          PROVE  SoundRow(origin, proved, minter, [row[s] EXCEPT !.state = "terminated"], s)
      <4>1. row[s] \in Row /\ SoundRow(origin, proved, minter, row[s], s)
        BY <1>t, <3>2 DEF StoreTyped, StoreSound, RowsSound
      <4>q. QED
        BY <3>2, <4>1, EndedTyped DEF SoundRow
    <3>3. ASSUME NEW s \in Sessions
          PROVE  SoundRow(origin, proved, minter, staged'[s], s)
      <4>1. SoundRow(origin, proved, minter, staged[s], s)
        BY <1>t DEF StoreSound, StagedSound
      <4>2. SoundRow(origin, proved, minter, None, s)
        BY DEF SoundRow
      <4>3. staged'[s] \in {staged[s], None, [row[s] EXCEPT !.state = "terminated"]}
            /\ (row[s] = None => staged'[s] \in {staged[s], None})
        BY <2>19 DEF EndRows
      <4>q. QED
        BY <3>2, <4>1, <4>2, <4>3
    <3>4. RowsSound' /\ StagedSound' /\ CacheSound' /\ DisclosedSound'
      BY <1>3, <1>t, <2>19, <3>1, <3>3
         DEF EndRows, redis, StoreSound, RowsSound, StagedSound, CacheSound, DisclosedSound
    <3>5. SoundReq(origin, proved', minter', "uncache", req[p])
      BY <2>r, <2>19, <3>1 DEF EndRows, SoundReq
    <3>q. QED
      BY <2>19, <3>1, <3>4, <3>5, GotoSound DEF EndRows, StoreSound, PCs
  <2>20. CASE DropEnded(p)
    <3>1. PICK d \in req[p].doomed, w \in {"commit", "uncache"} :
            /\ Del(d[2])
            /\ Move(p, w, [req[p] EXCEPT !.doomed = req[p].doomed \ {d}])
      BY <2>20 DEF DropEnded
    <3>2. PICK e \in SUBSET (Sessions \X Tokens) : e = req[p].doomed \ {d}
      BY <2>r DEF Req
    <3>3. PICK r : r = [req[p] EXCEPT !.doomed = e]
      OBVIOUS
    <3>4. /\ r \in Req
          /\ r.live = live /\ r.tok = req[p].tok /\ r.new = req[p].new
          /\ r.sure = req[p].sure /\ r.op = req[p].op
      BY <2>r, <3>3, LocalsDropped
    <3>5. Grows /\ UNCHANGED <<minter, proved>>
      BY <2>20, <2>g DEF DropEnded
    <3>6. SoundReq(origin, proved', minter', w, r)
      BY <2>r, <3>1, <3>4, <3>5 DEF SoundReq
    <3>7. CacheSound'
      BY <1>3, <1>t, <3>1, <3>5 DEF Del, StoreSound, CacheSound, SoundCopy, StoreTyped
    <3>8. RowsSound' /\ StagedSound' /\ DisclosedSound'
      BY <1>3, <1>t, <2>20, <3>5
         DEF DropEnded, store, StoreSound, RowsSound, StagedSound, DisclosedSound
    <3>q. QED
      BY <3>1, <3>2, <3>3, <3>4, <3>5, <3>6, <3>7, <3>8, MoveSound DEF StoreSound, PCs
  <2>w. ASSUME UNCHANGED <<minter, proved>>, Leave(p)
        PROVE  ReqsSound'
    <3>1. SoundReq(origin, proved', minter', "idle", NoReq)
      BY NoReqFields DEF SoundReq
    <3>q. QED
      BY <2>g, <2>w, <3>1, NoReqTyped, MoveSound DEF Leave, PCs
  <2>21. CASE Commit(p)
    <3>1. UNCHANGED <<minter, proved>> /\ ReqsSound'
      BY <2>w, <2>21 DEF Commit
    <3>2. RowsSound' /\ StagedSound'
      BY <1>3, <1>t, <2>21, <3>1
         DEF Commit, Release, StoreSound, RowsSound, StagedSound, SoundRow
    <3>3. DisclosedSound'
      BY <1>t, <2>r, <2>21, <3>1 DEF Commit, StoreSound, DisclosedSound, SoundReq
    <3>4. CacheSound'
      BY <1>3, <1>t, <2>21, <3>1 DEF Commit, redis, StoreSound, CacheSound
    <3>q. QED
      BY <3>1, <3>2, <3>3, <3>4 DEF StoreSound
  <2>22. CASE Abandon(p)
    <3>1. UNCHANGED <<minter, proved>> /\ ReqsSound'
      BY <2>w, <2>22 DEF Abandon
    <3>2. RowsSound' /\ StagedSound'
      BY <1>3, <1>t, <2>22, <3>1
         DEF Abandon, Release, StoreSound, RowsSound, StagedSound, SoundRow
    <3>3. DisclosedSound' /\ CacheSound'
      BY <1>3, <1>t, <2>22, <3>1 DEF Abandon, redis, StoreSound, DisclosedSound, CacheSound
    <3>q. QED
      BY <3>1, <3>2, <3>3 DEF StoreSound
  <2>23. QED
    BY <1>3, <2>1, <2>2, <2>3, <2>4, <2>5, <2>6, <2>7, <2>8, <2>9, <2>10, <2>11,
       <2>12, <2>13, <2>14, <2>15, <2>16, <2>17, <2>18, <2>19, <2>20, <2>21, <2>22
       DEF Step
<1>4. QED
  BY <1>1, <1>2, <1>3 DEF Next

LEMMA InvariantHolds == Spec => []IInv
<1>1. Init => IInv
  BY InitTypeInv, InitSound DEF IInv
<1>2. IInv /\ [Next]_vars => IInv'
  BY StepTypeInv, StepSound DEF IInv
<1>3. QED
  BY <1>1, <1>2, PTL DEF Spec

-----------------------------------------------------------------------------
(* What follows for the three properties.                                  *)

\* A token names the one session it was minted for, in the row and in Redis
\* alike, whichever requests overlap.
THEOREM TokensNameTheirSession == Spec => []TokenNamesItsSession
<1>1. IInv => TokenNamesItsSession
  BY DEF IInv, Inv, RowsSound, CacheSound, SoundRow, SoundCopy, TokenNamesItsSession
<1>2. QED
  BY <1>1, InvariantHolds, PTL

\* Every factor of a stored session was proved there by the person it names, or
\* is a second factor that a directory session kept from somebody who proved its
\* password before a bind named somebody else.
THEOREM EveryFactorProved == Spec => []FactorsProved
<1>1. IInv => FactorsProved
  <2> SUFFICES ASSUME IInv, NEW l \in Stored, NEW f \in l.factors
               PROVE  l.user # None /\ (Did(l, f) \/ Inherited(l, f))
    BY DEF FactorsProved
  <2>1. Sound(origin, proved, l)
    BY DEF Stored, IInv, Inv, RowsSound, CacheSound, SoundRow, SoundCopy
  <2>2. Did(l, f) \/ Inherited(l, f)
    BY <2>1 DEF Sound, Handed, Did, Inherited
  <2>3. l.user \in Users
    BY <2>1 DEF Sound, IInv, TypeInv, TypeOK
  <2>4. QED
    BY <2>2, <2>3, NoneAssumption
<1>2. QED
  BY <1>1, InvariantHolds, PTL

\* A finalize that passes its gate names somebody who proved the password or
\* the scan of that sign-in, and when a step was owed the sign-in holds a scan
\* or a second factor, theirs or kept from the person a bind named before.
THEOREM FinalizeAnswers == Spec => []FinalizeAnswersTheGate
<1>1. IInv => FinalizeAnswersTheGate
  <2> SUFFICES ASSUME IInv, NEW p \in Procs, pc[p] = "finalized"
               PROVE  LET live == req[p].live
                      IN  /\ Did(live, "pwd") \/ Did(live, "vc")
                          /\ req[p].owed # {} =>
                                \/ Did(live, "vc")
                                \/ \E f \in SecondFactors : Did(live, f) \/ Inherited(live, f)
    BY DEF FinalizeAnswersTheGate
  <2>1. /\ SoundReq(origin, proved, minter, "finalized", req[p])
        /\ req[p].live \in Live
    BY DEF IInv, Inv, TypeInv, TypeOK, Shape, ReqsSound, Req
  <2>2. PICK l \in Live : l = req[p].live
    BY <2>1
  <2>3. /\ Sound(origin, proved, l)
        /\ l.factors # {}
        /\ req[p].owed # {} => l.factors \cap (SecondFactors \cup {"vc"}) # {}
    BY <2>1, <2>2, NoLiveAssumption DEF SoundReq, Authenticated
  <2>4. Did(l, "pwd") \/ Did(l, "vc")
    BY <2>3 DEF Sound, Did
  <2>5. ASSUME NEW f \in l.factors PROVE Did(l, f) \/ (f \in SecondFactors /\ Inherited(l, f))
    BY <2>3 DEF Sound, Handed, Did, Inherited
  <2>6. QED
    BY <2>2, <2>3, <2>4, <2>5
<1>2. QED
  BY <1>1, InvariantHolds, PTL
-----------------------------------------------------------------------------
(* What a token stands for. A bind rewrites the person of a session, stale  *)
(* copies are written back and refills come late, but a request only ever   *)
(* saves a changed session under a token it just minted, and the one save   *)
(* that keeps its token changes the count of wrong codes alone. So there is *)
(* a meaning of every minted token that rows, Redis, and the sessions in    *)
(* the hands of requests all agree on, and no step gives it another.        *)

\* Two copies of a session that may differ in the wrong codes.
Speaks(l, m) ==
    l.id = m.id /\ l.user = m.user /\ l.factors = m.factors /\ l.expires = m.expires

TellsRow(c, r) == r # None => Speaks(r.live, c[r.token])

TellsReq(c, w, r) ==
    /\ w \in {"fill", "found"} => Speaks(r.live, c[r.tok])
    /\ w \in {"save", "drop", "put"} => Speaks(r.live, c[r.new])

\* "c" is what tokens stand for.
Tells(c) ==
    /\ \A s \in Sessions : TellsRow(c, row[s]) /\ TellsRow(c, staged[s])
    /\ \A t \in Tokens : cache[t] # None => Speaks(cache[t], c[t])
    /\ \A p \in Procs : TellsReq(c, pc[p], req[p])

Meanings == [Tokens -> Live \cup {None}]

\* A later meaning of the tokens that are minted by now.
Kept(c, d) == \A t \in Tokens : minter[t] # None => d[t] = c[t]

Told == \E c \in Meanings : Tells(c)

NInv == IInv /\ Told

\* Which token a request holds a live copy under.
TokensMinted ==
    /\ \A s \in Sessions : row[s] # None => row[s].token \in Tokens /\ minter[row[s].token] # None
    /\ \A s \in Sessions : staged[s] # None => staged[s].token \in Tokens /\ minter[staged[s].token] # None
    /\ \A t \in Tokens : cache[t] # None => minter[t] # None
    /\ \A p \in Procs : /\ req[p].tok # None => req[p].tok \in Tokens /\ minter[req[p].tok] # None
                        /\ req[p].new # None => req[p].new \in Tokens /\ minter[req[p].new] # None

LEMMA EveryTokenMinted == IInv => TokensMinted
<1> SUFFICES ASSUME IInv PROVE TokensMinted
  OBVIOUS
<1>1. StoreTyped /\ ProcsTyped
  BY DEF IInv, TypeInv, TypeOK, StoreTyped, ProcsTyped
<1>2. ASSUME NEW s \in Sessions, NEW r \in Row \cup {None}, r # None,
             SoundRow(origin, proved, minter, r, s)
      PROVE  r.token \in Tokens /\ minter[r.token] # None
  BY <1>2 DEF SoundRow, Row
<1>3. \A s \in Sessions : row[s] # None => row[s].token \in Tokens /\ minter[row[s].token] # None
  BY <1>1, <1>2 DEF IInv, Inv, RowsSound, StoreTyped
<1>4. \A s \in Sessions : staged[s] # None => staged[s].token \in Tokens /\ minter[staged[s].token] # None
  BY <1>1, <1>2 DEF IInv, Inv, StagedSound, StoreTyped
<1>5. ASSUME NEW t \in Tokens, cache[t] # None PROVE minter[t] # None
  <2>1. cache[t] \in Live /\ cache[t].id = minter[t]
    BY <1>1, <1>5 DEF IInv, Inv, CacheSound, SoundCopy, StoreTyped
  <2> QED  BY <2>1 DEF Live
<1>6. ASSUME NEW p \in Procs
      PROVE  /\ req[p].tok # None => req[p].tok \in Tokens /\ minter[req[p].tok] # None
             /\ req[p].new # None => req[p].new \in Tokens /\ minter[req[p].new] # None
  BY <1>1 DEF IInv, Inv, ReqsSound, SoundReq, ProcsTyped, Req
<1> QED  BY <1>3, <1>4, <1>5, <1>6 DEF TokensMinted

\* What tells of every minted token still tells.
LEMMA StoreTells ==
  ASSUME IInv, NEW c, NEW d, Tells(c), Kept(c, d)
  PROVE  Tells(d)
<1>1. TokensMinted
  BY EveryTokenMinted
<1>2. \A s \in Sessions : TellsRow(d, row[s]) /\ TellsRow(d, staged[s])
  BY <1>1 DEF Tells, TellsRow, TokensMinted, Kept
<1>3. \A t \in Tokens : cache[t] # None => Speaks(cache[t], d[t])
  BY <1>1 DEF Tells, TokensMinted, Kept
<1>4. ASSUME NEW p \in Procs PROVE TellsReq(d, pc[p], req[p])
  <2>1. Fits(pc[p], req[p])
    BY DEF IInv, TypeInv, Shape, Fits
  <2>2. TellsReq(c, pc[p], req[p])
    BY DEF Tells
  <2>3. /\ req[p].tok # None => d[req[p].tok] = c[req[p].tok]
        /\ req[p].new # None => d[req[p].new] = c[req[p].new]
    BY <1>1 DEF TokensMinted, Kept
  <2> QED  BY <2>1, <2>2, <2>3 DEF Fits, TellsReq
<1> QED  BY <1>2, <1>3, <1>4 DEF Tells

\* A request that moves, with what the tables and Redis hold told of.
LEMMA MoveTells ==
  ASSUME IInv, NEW c, Tells(c), NEW p \in Procs, NEW w \in PCs, NEW r \in Req, Move(p, w, r),
         TellsReq(c, w, r),
         \A s \in Sessions : TellsRow(c, row'[s]) /\ TellsRow(c, staged'[s]),
         \A t \in Tokens : cache'[t] # None => Speaks(cache'[t], c[t])
  PROVE  Tells(c)'
<1>1. pc \in [Procs -> PCs] /\ req \in [Procs -> Req]
  BY DEF IInv, TypeInv, TypeOK
<1>2. /\ pc'[p] = w /\ req'[p] = r
      /\ \A q \in Procs \ {p} : pc'[q] = pc[q] /\ req'[q] = req[q]
  BY <1>1, MoveOne
<1>3. \A q \in Procs : TellsReq(c, pc'[q], req'[q])
  BY <1>2 DEF Tells
<1> QED  BY <1>3 DEF Tells, TellsRow, TellsReq, Speaks

\* A step of one request that leaves the tables and Redis alone.
LEMMA LocalTells ==
  ASSUME IInv, NEW c, Tells(c), NEW p \in Procs, NEW w \in PCs, NEW r \in Req, Move(p, w, r),
         UNCHANGED <<row, staged, cache>>, TellsReq(c, w, r)
  PROVE  Tells(c)'
<1>1. \A s \in Sessions : TellsRow(c, row'[s]) /\ TellsRow(c, staged'[s])
  BY DEF Tells
<1>2. \A t \in Tokens : cache'[t] # None => Speaks(cache'[t], c[t])
  BY DEF Tells
<1> QED  BY <1>1, <1>2, MoveTells

\* ... or changes Redis only.
LEMMA RedisTells ==
  ASSUME IInv, NEW c, Tells(c), NEW p \in Procs, NEW w \in PCs, NEW r \in Req, Move(p, w, r),
         UNCHANGED <<row, staged>>, TellsReq(c, w, r),
         \A t \in Tokens : cache'[t] # None => Speaks(cache'[t], c[t])
  PROVE  Tells(c)'
<1>1. \A s \in Sessions : TellsRow(c, row'[s]) /\ TellsRow(c, staged'[s])
  BY DEF Tells
<1> QED  BY <1>1, MoveTells

\* What a request tells of its own copy.
LEMMA OwnTells ==
  ASSUME NEW c, Tells(c), NEW p \in Procs
  PROVE  TellsReq(c, pc[p], req[p])
  BY DEF Tells

\* A request that saves session l under a token it just minted gives that token
\* its meaning.
LEMMA MintTells ==
  ASSUME IInv, NEW c \in Meanings, Tells(c), NEW p \in Procs, NEW r \in Req,
         NEW l \in Live, NEW t \in Tokens, r.new = t, r.live = l, minter[t] = None,
         Move(p, "save", r), UNCHANGED <<row, staged, cache>>
  PROVE  \E d \in Meanings : Kept(c, d) /\ Tells(d)'
<1>1. PICK d : d = [c EXCEPT ![t] = l]
  OBVIOUS
<1>2. d \in Meanings /\ d[t] = l
  BY <1>1 DEF Meanings
<1>3. Kept(c, d)
  BY <1>1 DEF Meanings, Kept
<1>4. Tells(d)
  BY <1>3, StoreTells
<1>5. TellsReq(d, "save", r)
  BY <1>2 DEF TellsReq, Speaks
<1>6. Tells(d)'
  BY <1>4, <1>5, LocalTells DEF PCs
<1> QED  BY <1>2, <1>3, <1>6

\* A proved factor comes under a new token.
LEMMA UpgradeTells ==
  ASSUME IInv, NEW c \in Meanings, Tells(c), NEW p \in Procs,
         NEW u \in Users, NEW f \in Factors, Upgrade(p, u, f),
         pc[p] = "found", UNCHANGED <<row, staged, cache>>
  PROVE  \E d \in Meanings : Kept(c, d) /\ Tells(d)'
<1> DEFINE live == req[p].live
<1>1. StoreTyped /\ ProcsTyped /\ Fits(pc[p], req[p])
  BY DEF IInv, TypeInv, TypeOK, Shape, Fits, StoreTyped, ProcsTyped
<1>2. req[p] \in Req /\ live \in Live
  BY <1>1 DEF ProcsTyped, Fits, Req
<1>3. PICK t \in Tokens :
        /\ Mint(live.id, t)
        /\ Move(p, "save", Saving(req[p], t, Upgraded(live, u, f)))
  BY DEF Upgrade
<1>4. PICK l \in Live : l = Upgraded(live, u, f)
  BY <1>1, <1>2, UpgradedTyped DEF StoreTyped
<1>5. PICK r \in Req : r = Saving(req[p], t, l) /\ r.new = t /\ r.live = l
  BY <1>2, <1>4, SavingTyped
<1>6. Move(p, "save", r) /\ minter[t] = None
  BY <1>3, <1>4, <1>5 DEF Mint
<1> QED  BY <1>5, <1>6, MintTells

LEMMA UpgradesTell ==
  ASSUME IInv, NEW c \in Meanings, Tells(c), NEW p \in Procs,
         VerifyPassword(p) \/ Complete(p)
  PROVE  \E d \in Meanings : Kept(c, d) /\ Tells(d)'
<1>1. ProcsTyped /\ Fits(pc[p], req[p])
  BY DEF IInv, TypeInv, TypeOK, Shape, Fits, ProcsTyped
<1>2. UNCHANGED <<row, staged, cache>> /\ pc[p] = "found"
  BY DEF VerifyPassword, Complete, store, redis
<1>3. CASE VerifyPassword(p)
  <2>1. req[p].live \in Live
    BY <1>1, <1>3 DEF VerifyPassword, Fits, ProcsTyped, Req
  <2>2. PICK u \in Users : Upgrade(p, u, "pwd")
    BY <1>3, <2>1 DEF VerifyPassword, Provable, Live
  <2> QED  BY <1>2, <2>2, UpgradeTells DEF Factors
<1>4. CASE Complete(p)
  <2>1. req[p].sure \in Users /\ req[p].op \in Factors
    BY <1>1, <1>4 DEF Complete, ProcsTyped, Req, Factors
  <2> QED  BY <1>2, <1>4, <2>1, UpgradeTells DEF Complete
<1> QED  BY <1>3, <1>4

LEMMA IdentifyTells ==
  ASSUME IInv, NEW c \in Meanings, Tells(c), NEW p \in Procs, Identify(p)
  PROVE  \E d \in Meanings : Kept(c, d) /\ Tells(d)'
<1>1. StoreTyped
  BY DEF IInv, TypeInv, TypeOK, StoreTyped
<1>2. PICK s \in Sessions, t \in Tokens, u \in Users \cup {None} :
        /\ Mint(s, t)
        /\ Move(p, "save", Saving([NoReq EXCEPT !.op = "identify"], t, Opening(s, u)))
        /\ UNCHANGED <<store, redis>>
  BY DEF Identify
<1>3. PICK n \in Req : n = [NoReq EXCEPT !.op = "identify"]
  BY NoReqTyped, OpTyped DEF Ops
<1>4. PICK l \in Live : l = Opening(s, u)
  BY <1>1, <1>2, OpeningTyped DEF StoreTyped
<1>5. PICK r \in Req : r = Saving(n, t, l) /\ r.new = t /\ r.live = l
  BY <1>4, SavingTyped
<1>6. Move(p, "save", r) /\ minter[t] = None /\ UNCHANGED <<row, staged, cache>>
  BY <1>2, <1>3, <1>4, <1>5 DEF Mint, store, redis
<1> QED  BY <1>5, <1>6, MintTells

\* What ReadRow and a cache hit find is what the token stands for.
LEMMA FindTells ==
  ASSUME IInv, NEW c, Tells(c), NEW p \in Procs, GetHit(p) \/ ReadRow(p)
  PROVE  Tells(c)'
<1> DEFINE tok == req[p].tok
<1>1. StoreTyped /\ ProcsTyped /\ Fits(pc[p], req[p])
  BY DEF IInv, TypeInv, TypeOK, Shape, Fits, StoreTyped, ProcsTyped
<1>2. req[p] \in Req /\ tok \in Tokens
  BY <1>1 DEF GetHit, ReadRow, ProcsTyped, Fits, Req
<1>3. PICK w \in {"found", "fill"}, l \in Live :
        /\ Move(p, w, [req[p] EXCEPT !.live = l])
        /\ UNCHANGED <<store, redis>>
        /\ \/ cache[tok] = l /\ cache[tok] # None
           \/ \E s \in Sessions : row[s] # None /\ row[s].token = tok /\ row[s].live = l
  <2>1. CASE GetHit(p)
    <3>1. cache[tok] \in Live
      BY <1>1, <1>2, <2>1 DEF GetHit, Cached, StoreTyped
    <3> QED  BY <2>1, <3>1 DEF GetHit, Cached
  <2>2. CASE ReadRow(p)
    <3>1. PICK s \in Sessions :
            /\ row[s] # None /\ row[s].token = tok
            /\ Move(p, "fill", [req[p] EXCEPT !.live = row[s].live])
            /\ UNCHANGED <<store, redis>>
      BY <2>2 DEF ReadRow, Alive
    <3>2. row[s].live \in Live
      BY <1>1, <3>1 DEF StoreTyped, Row
    <3> QED  BY <3>1, <3>2
  <2> QED  BY <2>1, <2>2
<1>4. PICK r : r = [req[p] EXCEPT !.live = l]
  OBVIOUS
<1>5. r \in Req /\ r.live = l /\ r.tok = tok
  BY <1>2, <1>3, <1>4, LocalsFound
<1>6. Speaks(l, c[tok])
  BY <1>2, <1>3 DEF Tells, TellsRow
<1>7. TellsReq(c, w, r)
  BY <1>3, <1>5, <1>6 DEF TellsReq
<1>8. UNCHANGED <<row, staged, cache>> /\ Move(p, w, r) /\ w \in PCs
  BY <1>3, <1>4 DEF store, redis, PCs
<1> QED  BY <1>5, <1>7, <1>8, LocalTells

\* Requests that hold no copy afterwards, or one they do nothing with.
LEMMA GoTells ==
  ASSUME IInv, NEW c, Tells(c), NEW p \in Procs,
         \/ Present(p) \/ GetMiss(p) \/ ProveFactor(p) \/ WrongCode(p) \/ Finalize(p)
         \/ EndFound(p) \/ TerminateByID(p) \/ RevokeRead(p)
  PROVE  Tells(c)'
<1>1. ProcsTyped
  BY DEF IInv, TypeInv, TypeOK, ProcsTyped
<1>2. UNCHANGED <<row, staged, cache>>
  BY DEF Present, GetMiss, ProveFactor, WrongCode, Finalize, EndFound, TerminateByID,
     RevokeRead, TerminateRead, store, redis
<1>3. \A q \in Procs \ {p} : pc'[q] = pc[q] /\ req'[q] = req[q]
  BY <1>1 DEF Present, GetMiss, ProveFactor, WrongCode, Finalize, EndFound, TerminateByID,
     RevokeRead, TerminateRead, Move, Goto, ProcsTyped
<1>4. pc'[p] \in {"get", "read", "finalized", "end"}
  BY <1>1 DEF Present, GetMiss, ProveFactor, WrongCode, Finalize, EndFound, TerminateByID,
     RevokeRead, TerminateRead, Move, Goto, ProcsTyped
<1>5. \A q \in Procs : TellsReq(c, pc'[q], req'[q])
  BY <1>3, <1>4, OwnTells DEF TellsReq
<1> QED  BY <1>2, <1>5 DEF Tells, TellsRow, TellsReq, Speaks

\* The counter goes back under the token it was read by, and says the same.
LEMMA CountTells ==
  ASSUME IInv, NEW c, Tells(c), NEW p \in Procs, CountWrongCode(p)
  PROVE  Tells(c)'
<1> DEFINE live == req[p].live
<1>1. ProcsTyped /\ Fits(pc[p], req[p])
  BY DEF IInv, TypeInv, TypeOK, Shape, Fits, ProcsTyped
<1>2. req[p] \in Req /\ live \in Live /\ req[p].tok \in Tokens
  BY <1>1 DEF CountWrongCode, Fits, ProcsTyped, Req
<1>3. PICK l \in Live : l = [live EXCEPT !.wrong = @ + 1] /\ Speaks(l, live)
  <2>1. [live EXCEPT !.wrong = @ + 1] \in Live
    BY <1>2, WrongTyped DEF CountWrongCode
  <2>2. Speaks([live EXCEPT !.wrong = @ + 1], live)
    BY <1>2 DEF Speaks, Live
  <2> QED  BY <2>1, <2>2
<1>4. PICK r \in Req : r = Saving(req[p], req[p].tok, l) /\ r.new = req[p].tok /\ r.live = l
  BY <1>2, <1>3, SavingTyped
<1>5. Move(p, "save", r) /\ UNCHANGED <<row, staged, cache>>
  BY <1>3, <1>4 DEF CountWrongCode, store, redis
<1>6. Speaks(live, c[req[p].tok])
  BY OwnTells DEF TellsReq, CountWrongCode
<1>7. TellsReq(c, "save", r)
  BY <1>3, <1>4, <1>6 DEF TellsReq, Speaks
<1> QED  BY <1>5, <1>7, LocalTells DEF PCs

\* The writes to Redis.
LEMMA CacheTells ==
  ASSUME IInv, NEW c, Tells(c), NEW p \in Procs,
         Refill(p) \/ DropRotated(p) \/ PutCache(p) \/ DropEnded(p)
  PROVE  Tells(c)'
<1>1. StoreTyped /\ ProcsTyped /\ Fits(pc[p], req[p])
  BY DEF IInv, TypeInv, TypeOK, Shape, Fits, StoreTyped, ProcsTyped
<1>2. req[p] \in Req /\ TellsReq(c, pc[p], req[p])
  BY <1>1, OwnTells DEF ProcsTyped
<1>3. UNCHANGED <<row, staged>>
  BY DEF Refill, DropRotated, PutCache, DropEnded, store
<1>4. ASSUME NEW t, Del(t)
      PROVE  \A x \in Tokens : cache'[x] # None => Speaks(cache'[x], c[x])
  BY <1>1, <1>4 DEF Del, Tells, StoreTyped
<1>5. ASSUME NEW t \in Tokens, NEW l \in Live, Speaks(l, c[t]), SetKey(t, l)
      PROVE  \A x \in Tokens : cache'[x] # None => Speaks(cache'[x], c[x])
  BY <1>1, <1>5 DEF SetKey, redis, Tells, StoreTyped
<1>6. ASSUME NEW w, Goto(p, w), UNCHANGED req
      PROVE  Move(p, w, req[p])
  <2>1. req' = [req EXCEPT ![p] = req[p]]
    BY <1>1, <1>6 DEF ProcsTyped
  <2> QED  BY <1>6, <2>1 DEF Move
<1>7. CASE Refill(p)
  <2>1. pc[p] = "fill" /\ SetKey(req[p].tok, req[p].live) /\ Goto(p, "found") /\ UNCHANGED req
    BY <1>7 DEF Refill
  <2>2. req[p].tok \in Tokens /\ req[p].live \in Live
    BY <1>1, <1>2, <2>1 DEF Fits, Req
  <2>3. Speaks(req[p].live, c[req[p].tok]) /\ TellsReq(c, "found", req[p])
    BY <1>2, <2>1 DEF TellsReq
  <2>4. \A x \in Tokens : cache'[x] # None => Speaks(cache'[x], c[x])
    BY <1>5, <2>1, <2>2, <2>3
  <2> QED  BY <1>2, <1>3, <1>6, <2>1, <2>3, <2>4, RedisTells DEF PCs
<1>8. CASE DropRotated(p)
  <2>1. pc[p] = "drop" /\ Del(req[p].tok) /\ Goto(p, "put") /\ UNCHANGED req
    BY <1>8 DEF DropRotated
  <2>2. TellsReq(c, "put", req[p])
    BY <1>2, <2>1 DEF TellsReq
  <2>3. \A x \in Tokens : cache'[x] # None => Speaks(cache'[x], c[x])
    BY <1>4, <2>1
  <2> QED  BY <1>2, <1>3, <1>6, <2>1, <2>2, <2>3, RedisTells DEF PCs
<1>9. CASE PutCache(p)
  <2>1. pc[p] = "put" /\ SetKey(req[p].new, req[p].live) /\ Goto(p, "commit") /\ UNCHANGED req
    BY <1>9 DEF PutCache
  <2>2. req[p].new \in Tokens /\ req[p].live \in Live
    BY <1>1, <1>2, <2>1 DEF Fits, Req
  <2>3. Speaks(req[p].live, c[req[p].new]) /\ TellsReq(c, "commit", req[p])
    BY <1>2, <2>1 DEF TellsReq
  <2>4. \A x \in Tokens : cache'[x] # None => Speaks(cache'[x], c[x])
    BY <1>5, <2>1, <2>2, <2>3
  <2> QED  BY <1>2, <1>3, <1>6, <2>1, <2>3, <2>4, RedisTells DEF PCs
<1>10. CASE DropEnded(p)
  <2>1. PICK d \in req[p].doomed, w \in {"commit", "uncache"} :
          /\ Del(d[2])
          /\ Move(p, w, [req[p] EXCEPT !.doomed = req[p].doomed \ {d}])
    BY <1>10 DEF DropEnded
  <2>2. PICK e \in SUBSET (Sessions \X Tokens) : e = req[p].doomed \ {d}
    BY <1>2 DEF Req
  <2>3. PICK r : r = [req[p] EXCEPT !.doomed = e]
    OBVIOUS
  <2>4. r \in Req
    BY <1>2, <2>3, LocalsDropped
  <2>5. TellsReq(c, w, r)
    BY <2>1 DEF TellsReq
  <2>6. \A x \in Tokens : cache'[x] # None => Speaks(cache'[x], c[x])
    BY <1>4, <2>1
  <2>7. Move(p, w, r) /\ w \in PCs
    BY <2>1, <2>2, <2>3 DEF PCs
  <2> QED  BY <1>3, <2>4, <2>5, <2>6, <2>7, RedisTells
<1> QED  BY <1>7, <1>8, <1>9, <1>10

\* The upsert puts the copy in hand under the token it was taken for.
LEMMA SaveTells ==
  ASSUME IInv, NEW c, Tells(c), NEW p \in Procs, SaveRow(p)
  PROVE  Tells(c)'
<1> DEFINE s == req[p].live.id
           w == IF req[p].tok \in {None, req[p].new} THEN "put" ELSE "drop"
<1>1. StoreTyped /\ ProcsTyped
  BY DEF IInv, TypeInv, TypeOK, StoreTyped, ProcsTyped
<1>2. req[p] \in Req /\ TellsReq(c, "save", req[p])
  BY <1>1, OwnTells DEF ProcsTyped, SaveRow
<1>3. PICK x \in {"put", "drop"} : Move(p, x, req[p])
  <2>1. req' = [req EXCEPT ![p] = req[p]]
    BY <1>1 DEF SaveRow, ProcsTyped
  <2> QED  BY <2>1 DEF SaveRow, Move
<1>4. TellsRow(c, Seal(p)) /\ TellsReq(c, x, req[p])
  BY <1>2 DEF Seal, TellsRow, TellsReq
<1>5. row' = row \/ row' = [row EXCEPT ![s] = Seal(p)]
  BY DEF SaveRow
<1>6. staged' = staged \/ staged' = [staged EXCEPT ![s] = Seal(p)]
  BY DEF SaveRow
<1>7. ASSUME NEW z \in Sessions
      PROVE  TellsRow(c, row'[z]) /\ TellsRow(c, staged'[z])
  <2>1. TellsRow(c, row[z]) /\ TellsRow(c, staged[z])
    BY DEF Tells
  <2>2. row'[z] \in {row[z], Seal(p)} /\ staged'[z] \in {staged[z], Seal(p)}
    BY <1>1, <1>5, <1>6 DEF StoreTyped
  <2> QED  BY <1>4, <2>1, <2>2
<1>8. \A t \in Tokens : cache'[t] # None => Speaks(cache'[t], c[t])
  BY DEF SaveRow, redis, Tells
<1> QED  BY <1>2, <1>3, <1>4, <1>7, <1>8, MoveTells DEF PCs

\* An end stages the rows it found, or none; a request that leaves commits what
\* it staged, or forgets it.
LEMMA RowsTell ==
  ASSUME IInv, NEW c, Tells(c), NEW p \in Procs, EndRows(p) \/ Commit(p) \/ Abandon(p)
  PROVE  Tells(c)'
<1>1. StoreTyped /\ ProcsTyped
  BY DEF IInv, TypeInv, TypeOK, StoreTyped, ProcsTyped
<1>2. PICK w \in {"uncache", "idle"}, r \in Req : Move(p, w, r)
  <2>1. CASE EndRows(p)
    <3>1. req' = [req EXCEPT ![p] = req[p]] /\ req[p] \in Req
      BY <1>1, <2>1 DEF EndRows, ProcsTyped
    <3> QED  BY <2>1, <3>1 DEF EndRows, Move
  <2>2. CASE Commit(p) \/ Abandon(p)
    BY <2>2, NoReqTyped DEF Commit, Abandon, Leave
  <2> QED  BY <2>1, <2>2
<1>3. ASSUME NEW z \in Sessions
      PROVE  TellsRow(c, row'[z]) /\ TellsRow(c, staged'[z])
  <2>1. TellsRow(c, row[z]) /\ TellsRow(c, staged[z]) /\ TellsRow(c, None)
    BY DEF Tells, TellsRow
  <2>2. CASE EndRows(p)
    <3>1. row' = row
      BY <2>2 DEF EndRows
    <3>2. staged'[z] \in {staged[z], None, [row[z] EXCEPT !.state = "terminated"]}
          /\ (row[z] = None => staged'[z] \in {staged[z], None})
      BY <2>2 DEF EndRows
    <3>3. ASSUME row[z] # None
          PROVE  TellsRow(c, [row[z] EXCEPT !.state = "terminated"])
      <4>1. row[z] \in Row
        BY <1>1, <3>3 DEF StoreTyped
      <4> QED  BY <2>1, <3>3, <4>1, EndedTyped DEF TellsRow
    <3> QED  BY <2>1, <3>1, <3>2, <3>3
  <2>3. CASE Commit(p) \/ Abandon(p)
    <3>1. row'[z] \in {row[z], staged[z]} /\ staged'[z] \in {staged[z], None}
      BY <2>3 DEF Commit, Abandon, Release
    <3> QED  BY <2>1, <3>1
  <2> QED  BY <2>2, <2>3
<1>4. \A t \in Tokens : cache'[t] # None => Speaks(cache'[t], c[t])
  BY DEF EndRows, Commit, Abandon, redis, Tells
<1>5. TellsReq(c, w, r)
  BY <1>2 DEF TellsReq
<1> QED  BY <1>2, <1>3, <1>4, <1>5, MoveTells DEF PCs

\* No step gives a minted token another meaning.
LEMMA StepTells ==
  ASSUME IInv, NEW c \in Meanings, Tells(c), [Next]_vars
  PROVE  \E d \in Meanings : Kept(c, d) /\ Tells(d)'
<1>1. CASE Tick \/ UNCHANGED vars
  <2>1. UNCHANGED <<row, staged, cache, pc, req>>
    BY <1>1 DEF Tick, vars, store, redis
  <2>2. Tells(c)'
    BY <2>1 DEF Tells, TellsRow, TellsReq, Speaks
  <2> QED  BY <2>2 DEF Kept
<1>2. ASSUME NEW p \in Procs, Step(p)
      PROVE  \E d \in Meanings : Kept(c, d) /\ Tells(d)'
  <2>1. CASE Identify(p) \/ VerifyPassword(p) \/ Complete(p)
    BY <2>1, IdentifyTells, UpgradesTell
  <2>2. CASE ~(Identify(p) \/ VerifyPassword(p) \/ Complete(p))
    <3>1. Tells(c)'
      BY <1>2, <2>2, FindTells, GoTells, CountTells, CacheTells, SaveTells, RowsTell DEF Step
    <3> QED  BY <3>1 DEF Kept
  <2> QED  BY <2>1, <2>2
<1> QED  BY <1>1, <1>2 DEF Next

LEMMA InitTells == Init => Told
<1> SUFFICES ASSUME Init PROVE Told
  OBVIOUS
<1>1. PICK c : c = [t \in Tokens |-> None]
  OBVIOUS
<1>2. c \in Meanings
  BY <1>1 DEF Meanings
<1>3. \A p \in Procs : pc[p] = "idle"
  BY DEF Init
<1>4. Tells(c)
  BY <1>3 DEF Tells, Init, TellsRow, TellsReq
<1> QED  BY <1>2, <1>4 DEF Told

LEMMA NamesHold == Spec => []NInv
<1>1. Init => NInv
  BY InitTypeInv, InitSound, InitTells DEF NInv, IInv
<1>2. NInv /\ [Next]_vars => NInv'
  <2> SUFFICES ASSUME NInv, [Next]_vars PROVE IInv' /\ Told'
    BY DEF NInv
  <2>1. IInv'
    BY StepTypeInv, StepSound DEF NInv, IInv
  <2>2. PICK c \in Meanings : Tells(c)
    BY DEF NInv, Told
  <2>3. PICK d \in Meanings : Tells(d)'
    BY <2>2, StepTells DEF NInv
  <2> QED  BY <2>1, <2>3 DEF Told, Meanings
<1> QED  BY <1>1, <1>2, PTL DEF Spec

\* What the tables and Redis answer for a token is what it stands for.
LEMMA AnswersTell ==
  ASSUME NEW rows \in [Sessions -> Row \cup {None}],
         NEW redisOf \in [Tokens -> Live \cup {None}],
         NEW c, \A s \in Sessions : TellsRow(c, rows[s]),
         \A x \in Tokens : redisOf[x] # None => Speaks(redisOf[x], c[x]),
         NEW t \in Tokens, NEW l \in Answers(rows, redisOf, t)
  PROVE  l \in Live /\ Speaks(l, c[t])
<1>1. CASE \E s \in Sessions : rows[s] # None /\ rows[s].token = t /\ rows[s].live = l
  BY <1>1 DEF Row, TellsRow
<1>2. CASE redisOf[t] # None /\ redisOf[t] = l
  BY <1>2
<1> QED  BY <1>1, <1>2 DEF Answers

\* ... and only minted tokens are answered.
LEMMA AnswersMinted ==
  ASSUME IInv, NEW t \in Tokens, Answers(row, cache, t) # {}
  PROVE  minter[t] # None
<1>1. TokensMinted
  BY EveryTokenMinted
<1> QED  BY <1>1 DEF Answers, TokensMinted

\* A token stands for one session, one person, one list of factors and one
\* deadline for good, whichever binds, counts and refills overlap.
THEOREM TokensSpeakForOne == Spec => TokenSpeaksForOne
<1> DEFINE One == \A t \in Tokens :
              \A before \in Answers(row, cache, t), after \in Answers(row', cache', t) :
                 after = [before EXCEPT !.wrong = after.wrong]
<1>1. NInv /\ NInv' /\ [Next]_vars => [One]_vars
  <2> SUFFICES ASSUME NInv, NInv', [Next]_vars, NEW t \in Tokens,
                      NEW before \in Answers(row, cache, t),
                      NEW after \in Answers(row', cache', t)
               PROVE  after = [before EXCEPT !.wrong = after.wrong]
    OBVIOUS
  <2>1. PICK c \in Meanings : Tells(c)
    BY DEF NInv, Told
  <2>2. PICK d \in Meanings : Kept(c, d) /\ Tells(d)'
    BY <2>1, StepTells DEF NInv
  <2>t. StoreTyped /\ StoreTyped'
    BY DEF NInv, IInv, TypeInv, TypeOK, StoreTyped
  <2>3. before \in Live /\ Speaks(before, c[t])
    BY <2>1, <2>t, AnswersTell DEF Tells, StoreTyped
  <2>4. after \in Live /\ Speaks(after, d[t])
    <3>1. /\ \A s \in Sessions : TellsRow(d, row'[s])
          /\ \A x \in Tokens : cache'[x] # None => Speaks(cache'[x], d[x])
      BY <2>2 DEF Tells, TellsRow, Speaks
    <3>2. /\ row' \in [Sessions -> Row \cup {None}]
          /\ cache' \in [Tokens -> Live \cup {None}]
      BY <2>t DEF StoreTyped
    <3> QED  BY <3>1, <3>2, AnswersTell
  <2>m. minter[t] # None
    BY AnswersMinted DEF NInv
  <2>5. Speaks(after, before)
    BY <2>2, <2>3, <2>4, <2>m DEF Kept, Speaks
  <2> QED  BY <2>3, <2>4, <2>5 DEF Speaks, Live
<1>2. QED
  BY <1>1, NamesHold, PTL DEF Spec, TokenSpeaksForOne
-----------------------------------------------------------------------------
(* The rows keep the promise of TokenLife, whatever requests overlap. What   *)
(* it takes is that a token on its way to a client is in the hands of one   *)
(* request, that the row lock keeps what waits for a commit as that request *)
(* staged it, and that nobody mints a token for a session whose first one   *)
(* was not handed out yet.                                                  *)

UpgradeOps == {"password", "otp", "webauthn", "vc"}
EndOps == {"terminate", "revoke"}

\* A request that saves under a token it minted.
Fresh(w, r) ==
    w \in {"save", "drop", "put", "commit"} /\ r.op \in UpgradeOps \cup {"identify"}

\* What a request holds where it stands: "d" is what was handed out, "m" the
\* session each token was minted for.
Place(d, m, w, r) ==
    /\ r.tok # None => r.tok \in d
    /\ w \notin {"save", "drop", "put", "commit"} => r.new = None
    /\ w \in {"end", "uncache"} => r.op \in EndOps
    /\ w \in {"save", "drop", "put"} => r.op \in UpgradeOps \cup {"identify", "wrong"}
    /\ w = "commit" => r.op \in UpgradeOps \cup {"identify", "wrong"} \cup EndOps
    /\ w = "commit" /\ r.op \in EndOps => r.new = None
    /\ w \in {"save", "drop", "put", "commit"} /\ r.op = "wrong" =>
          r.tok # None /\ r.new = r.tok
    /\ Fresh(w, r) =>
          r.new \in Tokens \ d /\ r.live \in Live /\ m[r.new] = r.live.id
    /\ Fresh(w, r) /\ r.op = "identify" =>
          \A t \in Tokens : m[t] = r.live.id => t = r.new

\* The rows request p holds the lock of: the session it upgrades, or those it
\* ends. "k" are the locks, "st" what is staged.
Locked(k, st, p, w, r) ==
    /\ \A s \in Sessions : k[s] = p =>
          \/ /\ w \in {"drop", "put", "commit"} /\ r.op \in UpgradeOps /\ s = r.live.id
             /\ st[s] = [state |-> "active", token |-> r.new, live |-> r.live]
          \/ /\ w \in {"uncache", "commit"} /\ r.op \in EndOps
             /\ st[s] # None => st[s].state = "terminated"
    /\ w \in {"drop", "put", "commit"} /\ r.op \in UpgradeOps => k[r.live.id] = p

Placed == \A p \in Procs : /\ Place(disclosed, minter, pc[p], req[p])
                           /\ Locked(lock, staged, p, pc[p], req[p])

\* No two requests are about to hand out one token.
Apart == \A p, q \in Procs :
            p # q /\ Fresh(pc[p], req[p]) => req[q].new # req[p].new

LInv == IInv /\ Placed /\ Apart

\* A token is minted for a session nobody minted for, or for one that a client
\* holds a token of.
MintsForAClient ==
    \/ minter' = minter
    \/ \E t \in Tokens, z \in Sessions :
          /\ minter[t] = None
          /\ minter' = [minter EXCEPT ![t] = z]
          /\ (\A x \in Tokens : minter[x] # z) \/ (\E x \in disclosed : minter[x] = z)

LEMMA OwnPlace ==
  ASSUME LInv, NEW p \in Procs
  PROVE  /\ StoreTyped /\ ProcsTyped /\ req[p] \in Req /\ Fits(pc[p], req[p])
         /\ SoundReq(origin, proved, minter, pc[p], req[p])
         /\ Place(disclosed, minter, pc[p], req[p])
         /\ Locked(lock, staged, p, pc[p], req[p])
  BY DEF LInv, IInv, Inv, TypeInv, TypeOK, Shape, Fits, StoreTyped, ProcsTyped, ReqsSound, Placed

\* What one request does leaves the others where they are.
LEMMA OthersStay ==
  ASSUME LInv, NEW p \in Procs, NEW q \in Procs \ {p}, MintsForAClient,
         disclosed \subseteq disclosed', disclosed' \subseteq disclosed \cup {req[p].new},
         \A s \in Sessions : lock[s] = q <=> lock'[s] = q,
         \A s \in Sessions : lock[s] = q => staged'[s] = staged[s]
  PROVE  /\ Place(disclosed', minter', pc[q], req[q])
         /\ Locked(lock', staged', q, pc[q], req[q])
<1>1. StoreTyped /\ Place(disclosed, minter, pc[q], req[q])
      /\ Locked(lock, staged, q, pc[q], req[q])
  BY OwnPlace
<1>2. PICK w, r : w = pc[q] /\ r = req[q]
  OBVIOUS
<1>3. Place(disclosed, minter, w, r) /\ Locked(lock, staged, q, w, r)
  BY <1>1, <1>2
<1>4. ASSUME Fresh(w, r)
      PROVE  /\ r.new \in Tokens \ disclosed' /\ r.live \in Live /\ minter'[r.new] = r.live.id
             /\ r.op = "identify" => \A t \in Tokens : minter'[t] = r.live.id => t = r.new
  <2>1. r.new \in Tokens \ disclosed /\ r.live \in Live /\ minter[r.new] = r.live.id
    BY <1>3, <1>4 DEF Place
  <2>2. req[p].new # r.new
    BY <1>2, <1>4 DEF LInv, Apart
  <2>3. r.live.id \in Sessions /\ r.live.id # None
    BY <2>1, NoneAssumption DEF Live
  <2>4. minter'[r.new] = r.live.id
    BY <1>1, <2>1, <2>3 DEF MintsForAClient, StoreTyped
  <2>5. ASSUME r.op = "identify", NEW t \in Tokens, minter'[t] = r.live.id
        PROVE  t = r.new
    <3>1. \A x \in Tokens : minter[x] = r.live.id => x = r.new
      BY <1>3, <1>4, <2>5 DEF Place
    <3>2. disclosed \subseteq Tokens
      BY <1>1 DEF StoreTyped
    <3>3. minter[t] = r.live.id
      BY <1>1, <2>1, <2>5, <3>1, <3>2 DEF MintsForAClient, StoreTyped
    <3> QED  BY <3>1, <3>3
  <2> QED  BY <2>1, <2>2, <2>4, <2>5
<1>5. Place(disclosed', minter', w, r)
  BY <1>3, <1>4 DEF Place
<1>6. Locked(lock', staged', q, w, r)
  <2>1. ASSUME NEW s \in Sessions, lock'[s] = q
        PROVE  \/ /\ w \in {"drop", "put", "commit"} /\ r.op \in UpgradeOps /\ s = r.live.id
                  /\ staged'[s] = [state |-> "active", token |-> r.new, live |-> r.live]
               \/ /\ w \in {"uncache", "commit"} /\ r.op \in EndOps
                  /\ staged'[s] # None => staged'[s].state = "terminated"
    <3>1. lock[s] = q /\ staged'[s] = staged[s]
      BY <2>1
    <3> QED  BY <1>3, <3>1 DEF Locked
  <2>2. ASSUME w \in {"drop", "put", "commit"}, r.op \in UpgradeOps
        PROVE  lock'[r.live.id] = q
    <3>1. r.live.id \in Sessions
      BY <1>3, <2>2 DEF Place, Fresh, Live
    <3> QED  BY <1>3, <2>2, <3>1 DEF Locked
  <2> QED  BY <2>1, <2>2 DEF Locked
<1> QED  BY <1>2, <1>5, <1>6

\* A turn of one request.
LEMMA Turn ==
  ASSUME LInv, NEW p \in Procs, NEW w \in PCs, NEW r \in Req, Move(p, w, r), MintsForAClient,
         disclosed \subseteq disclosed', disclosed' \subseteq disclosed \cup {req[p].new},
         \A q \in Procs \ {p} : \A s \in Sessions : lock[s] = q <=> lock'[s] = q,
         \A q \in Procs \ {p} : \A s \in Sessions : lock[s] = q => staged'[s] = staged[s],
         Place(disclosed', minter', w, r), Locked(lock', staged', p, w, r),
         \/ r.new \in {None} \cup disclosed
         \/ r.new = req[p].new /\ (Fresh(w, r) => Fresh(pc[p], req[p]))
         \/ r.new \in Tokens /\ minter[r.new] = None
  PROVE  Placed' /\ Apart'
<1>1. /\ pc'[p] = w /\ req'[p] = r
      /\ \A q \in Procs \ {p} : pc'[q] = pc[q] /\ req'[q] = req[q]
  BY OwnPlace, MoveOne DEF ProcsTyped
<1>2. ASSUME NEW q \in Procs \ {p}
      PROVE  /\ Place(disclosed', minter', pc[q], req[q])
             /\ Locked(lock', staged', q, pc[q], req[q])
  BY OthersStay
<1>3. \A q \in Procs : /\ Place(disclosed', minter', pc'[q], req'[q])
                       /\ Locked(lock', staged', q, pc'[q], req'[q])
  BY <1>1, <1>2
<1>4. ASSUME NEW q \in Procs \ {p}, Fresh(pc[q], req[q])
      PROVE  r.new # req[q].new
  <2>1. req[q].new \in Tokens \ disclosed /\ req[q].live \in Live
        /\ minter[req[q].new] = req[q].live.id
    BY <1>4, OwnPlace DEF Place
  <2>2. req[q].new # None /\ minter[req[q].new] # None
    BY <2>1, NoneAssumption DEF Live
  <2>3. req[p].new # req[q].new
    BY <1>4 DEF LInv, Apart
  <2> QED  BY <2>1, <2>2, <2>3
<1>5. ASSUME NEW q \in Procs \ {p}, Fresh(w, r)
      PROVE  req[q].new # r.new
  <2>1. r.new \in Tokens \ disclosed
    BY <1>5 DEF Place
  <2>2. CASE Fresh(pc[p], req[p]) /\ r.new = req[p].new
    BY <2>2 DEF LInv, Apart
  <2>3. CASE minter[r.new] = None
    BY <2>1, <2>3, EveryTokenMinted, NoneAssumption DEF LInv, TokensMinted
  <2> QED  BY <1>5, <2>1, <2>2, <2>3, NoneAssumption
<1>6. \A a, b \in Procs : a # b /\ Fresh(pc'[a], req'[a]) => req'[b].new # req'[a].new
  <2> SUFFICES ASSUME NEW a \in Procs, NEW b \in Procs, a # b, Fresh(pc'[a], req'[a])
               PROVE  req'[b].new # req'[a].new
    OBVIOUS
  <2>1. CASE a = p
    BY <1>1, <1>5, <2>1
  <2>2. CASE b = p
    BY <1>1, <1>4, <2>2
  <2>3. CASE a # p /\ b # p
    BY <1>1, <2>3 DEF LInv, Apart
  <2> QED  BY <2>1, <2>2, <2>3
<1> QED  BY <1>3, <1>6 DEF Placed, Apart, Place, Locked, Fresh

\* A turn that mints nothing, hands nothing out and takes no lock.
LEMMA QuietTurn ==
  ASSUME LInv, NEW p \in Procs, NEW w \in PCs, NEW r \in Req, Move(p, w, r),
         UNCHANGED <<minter, disclosed, lock, staged>>,
         Place(disclosed, minter, w, r), Locked(lock, staged, p, w, r),
         \/ r.new \in {None} \cup disclosed
         \/ r.new = req[p].new /\ (Fresh(w, r) => Fresh(pc[p], req[p]))
  PROVE  Placed' /\ Apart'
<1>1. Place(disclosed', minter', w, r) /\ Locked(lock', staged', p, w, r)
  OBVIOUS
<1> QED  BY <1>1, Turn DEF MintsForAClient

\* Before its first write a request holds no lock.
LEMMA NoLocks ==
  ASSUME LInv, NEW p \in Procs, pc[p] \notin {"drop", "put", "commit", "uncache"},
         NEW w, NEW r, w \notin {"drop", "put", "commit"}
  PROVE  Locked(lock, staged, p, w, r)
  BY OwnPlace DEF Locked
\* Requests that look a session up.
LEMMA FindsTurn ==
  ASSUME LInv, NEW p \in Procs, GetHit(p) \/ ReadRow(p)
  PROVE  Placed' /\ Apart'
<1>1. PICK w \in {"found", "fill"}, l \in Live :
        /\ Move(p, w, [req[p] EXCEPT !.live = l])
        /\ UNCHANGED <<store, minter, disclosed>>
        /\ pc[p] \in {"get", "read"}
  <2>1. CASE GetHit(p)
    <3>1. cache[req[p].tok] \in Live
      BY <2>1, OwnPlace DEF GetHit, Cached, StoreTyped, Fits, Req
    <3> QED  BY <2>1, <3>1 DEF GetHit
  <2>2. CASE ReadRow(p)
    <3>1. PICK s \in Sessions :
            row[s] # None /\ Move(p, "fill", [req[p] EXCEPT !.live = row[s].live])
      BY <2>2 DEF ReadRow, Alive
    <3>2. row[s].live \in Live
      BY <3>1, OwnPlace DEF StoreTyped, Row
    <3> QED  BY <2>2, <3>1, <3>2 DEF ReadRow
  <2> QED  BY <2>1, <2>2
<1>2. PICK r : r = [req[p] EXCEPT !.live = l]
  OBVIOUS
<1>3. r \in Req /\ r.tok = req[p].tok /\ r.new = req[p].new /\ r.op = req[p].op
  BY <1>2, OwnPlace, LocalsFound
<1>4. Place(disclosed, minter, w, r) /\ r.new = None
  BY <1>1, <1>3, OwnPlace DEF Place, Fresh
<1>5. Locked(lock, staged, p, w, r)
  BY <1>1, NoLocks
<1>6. Move(p, w, r) /\ w \in PCs /\ UNCHANGED <<minter, disclosed, lock, staged>>
  BY <1>1, <1>2 DEF PCs, store
<1> QED  BY <1>3, <1>4, <1>5, <1>6, QuietTurn

\* Requests that present a token, prove a factor, or are let through.
LEMMA GoesTurn ==
  ASSUME LInv, NEW p \in Procs,
         Present(p) \/ GetMiss(p) \/ Refill(p) \/ ProveFactor(p) \/ WrongCode(p) \/ Finalize(p)
  PROVE  Placed' /\ Apart'
<1>0. /\ StoreTyped /\ ProcsTyped /\ req[p] \in Req /\ Fits(pc[p], req[p])
      /\ Place(disclosed, minter, pc[p], req[p])
      /\ SoundReq(origin, proved, minter, pc[p], req[p])
  BY OwnPlace
<1>1. /\ UNCHANGED <<lock, staged, disclosed, minter>>
      /\ pc[p] \in {"idle", "get", "fill", "found"}
  BY DEF Present, GetMiss, Refill, ProveFactor, WrongCode, Finalize, store
<1> SUFFICES \E w \in {"get", "read", "found", "finalized"}, r \in Req :
        Move(p, w, r) /\ r.new = None /\ (r.tok # None => r.tok \in disclosed)
  <2>1. PICK w \in {"get", "read", "found", "finalized"}, r \in Req :
          Move(p, w, r) /\ r.new = None /\ (r.tok # None => r.tok \in disclosed)
    OBVIOUS
  <2>2. Place(disclosed, minter, w, r) /\ w \in PCs
    BY <2>1 DEF Place, Fresh, PCs
  <2>3. Locked(lock, staged, p, w, r)
    BY <1>1, <2>1, NoLocks
  <2> QED  BY <1>1, <2>1, <2>2, <2>3, QuietTurn
<1>2. req[p].new = None /\ (req[p].tok # None => req[p].tok \in disclosed)
  BY <1>0, <1>1 DEF Place
<1>3. ASSUME NEW w, Goto(p, w), UNCHANGED req
      PROVE  Move(p, w, req[p])
  <2>1. req' = [req EXCEPT ![p] = req[p]]
    BY <1>0, <1>3 DEF ProcsTyped
  <2> QED  BY <1>3, <2>1 DEF Move
<1>4. CASE Present(p)
  <2>1. PICK t \in disclosed, o \in Presented : Move(p, "get", [NoReq EXCEPT !.op = o, !.tok = t])
    BY <1>4 DEF Present
  <2>2. o \in Ops /\ t \in Tokens
    BY <1>0, <2>1, PresentedAssumption DEF ClientSteps, Ops, StoreTyped
  <2>3. PICK r : r = [NoReq EXCEPT !.op = o, !.tok = t]
    OBVIOUS
  <2>4. r \in Req /\ r.tok = t /\ r.new = None
    BY <2>2, <2>3, PresentedFields
  <2> QED  BY <2>1, <2>3, <2>4
<1>5. CASE GetMiss(p)
  BY <1>0, <1>2, <1>3, <1>5 DEF GetMiss
<1>6. CASE Refill(p)
  BY <1>0, <1>2, <1>3, <1>6 DEF Refill
<1>7. CASE ProveFactor(p)
  <2>1. req[p].live \in Live
    BY <1>0, <1>7 DEF ProveFactor, Fits, Req
  <2>2. PICK u \in Users : Move(p, "get", [req[p] EXCEPT !.sure = u, !.live = None])
    BY <1>0, <1>7, <2>1 DEF ProveFactor, StoreTyped, Origin, Live
  <2>3. PICK r : r = [req[p] EXCEPT !.sure = u, !.live = None]
    OBVIOUS
  <2>4. r \in Req /\ r.tok = req[p].tok /\ r.new = req[p].new
    BY <1>0, <2>3, LocalsProved
  <2> QED  BY <1>2, <2>2, <2>3, <2>4
<1>8. CASE WrongCode(p)
  <2>1. Move(p, "get", [req[p] EXCEPT !.op = "wrong", !.live = None])
    BY <1>8 DEF WrongCode
  <2>2. PICK r : r = [req[p] EXCEPT !.op = "wrong", !.live = None]
    OBVIOUS
  <2>3. r \in Req /\ r.tok = req[p].tok /\ r.new = req[p].new
    BY <1>0, <2>2, LocalsWrong DEF Ops
  <2> QED  BY <1>2, <2>1, <2>2, <2>3
<1>9. CASE Finalize(p)
  <2>1. PICK owed \in StepLists : Move(p, "finalized", [req[p] EXCEPT !.owed = owed])
    BY <1>9 DEF Finalize
  <2>2. PICK v \in SUBSET (ChallengeSteps \cup EnrolSteps) : v = owed
    BY <2>1 DEF StepLists
  <2>3. PICK r : r = [req[p] EXCEPT !.owed = v]
    OBVIOUS
  <2>4. r \in Req /\ r.tok = req[p].tok /\ r.new = req[p].new
    BY <1>0, <2>3, LocalsOwed
  <2> QED  BY <1>2, <2>1, <2>2, <2>3, <2>4
<1> QED  BY <1>4, <1>5, <1>6, <1>7, <1>8, <1>9

\* The first token of a session nobody minted for.
LEMMA IdentifyTurn ==
  ASSUME LInv, NEW p \in Procs, Identify(p)
  PROVE  Placed' /\ Apart'
<1>0. StoreTyped /\ DisclosedSound
  BY OwnPlace DEF LInv, IInv, Inv
<1>1. PICK s \in Sessions, t \in Tokens, u \in Users \cup {None} :
        /\ \A x \in Tokens : minter[x] # s
        /\ minter[t] = None /\ minter' = [minter EXCEPT ![t] = s]
        /\ Move(p, "save", Saving([NoReq EXCEPT !.op = "identify"], t, Opening(s, u)))
        /\ UNCHANGED <<disclosed, lock, staged>> /\ pc[p] = "idle"
  BY DEF Identify, Mint, store
<1>2. PICK n : n = [NoReq EXCEPT !.op = "identify"]
  OBVIOUS
<1>3. n \in Req /\ n.tok = None /\ n.op = "identify"
  <2>1. n \in Req /\ n.tok = None
    BY <1>2, NoReqTyped, NoReqFields, OpTyped DEF Ops
  <2>2. n.op = "identify"
    BY <1>2 DEF NoReq
  <2> QED  BY <2>1, <2>2
<1>4. PICK l \in Live : l = Opening(s, u) /\ l.id = s
  BY <1>0, OpeningTyped DEF StoreTyped
<1>5. PICK r \in Req : /\ r = Saving(n, t, l) /\ r.new = t /\ r.live = l
                       /\ r.tok = None /\ r.op = "identify"
  BY <1>3, <1>4, SavingTyped
<1>6. Move(p, "save", r) /\ "save" \in PCs
  BY <1>1, <1>2, <1>4, <1>5 DEF PCs
<1>7. t \notin disclosed /\ minter'[t] = s /\ \A x \in Tokens : minter'[x] = s => x = t
  BY <1>0, <1>1 DEF StoreTyped, DisclosedSound
<1>8. Place(disclosed', minter', "save", r)
  BY <1>1, <1>4, <1>5, <1>7 DEF Place, Fresh, UpgradeOps, EndOps
<1>9. Locked(lock', staged', p, "save", r)
  <2>1. Locked(lock, staged, p, "save", r)
    BY <1>1, NoLocks
  <2> QED  BY <1>1, <2>1
<1>10. MintsForAClient
  BY <1>1 DEF MintsForAClient
<1> QED  BY <1>1, <1>5, <1>6, <1>8, <1>9, <1>10, Turn

\* A later token of a session, minted by a client that presents an earlier one.
LEMMA UpgradeTurn ==
  ASSUME LInv, NEW p \in Procs, NEW u \in Users, NEW f \in Factors, Upgrade(p, u, f),
         pc[p] = "found", req[p].op \in UpgradeOps,
         UNCHANGED <<disclosed, lock, staged>>
  PROVE  Placed' /\ Apart'
<1> DEFINE live == req[p].live
<1>0. /\ StoreTyped /\ ProcsTyped /\ req[p] \in Req /\ Fits(pc[p], req[p])
      /\ Place(disclosed, minter, pc[p], req[p])
      /\ SoundReq(origin, proved, minter, pc[p], req[p]) /\ DisclosedSound
  BY OwnPlace DEF LInv, IInv, Inv
<1>1. live \in Live /\ req[p].tok \in disclosed /\ minter[req[p].tok] = live.id
      /\ live.id \in Sessions
  BY <1>0 DEF Fits, Req, SoundReq, Place, Live
<1>2. PICK t \in Tokens :
        /\ minter[t] = None /\ minter' = [minter EXCEPT ![t] = live.id]
        /\ Move(p, "save", Saving(req[p], t, Upgraded(live, u, f)))
  BY DEF Upgrade, Mint
<1>3. PICK l \in Live : l = Upgraded(live, u, f) /\ l.id = live.id
  BY <1>0, <1>1, UpgradedTyped DEF StoreTyped
<1>4. PICK r \in Req : /\ r = Saving(req[p], t, l) /\ r.new = t /\ r.live = l
                       /\ r.tok = req[p].tok /\ r.op = req[p].op
  BY <1>0, <1>3, SavingTyped
<1>5. Move(p, "save", r) /\ "save" \in PCs
  BY <1>2, <1>3, <1>4 DEF PCs
<1>6. t \notin disclosed /\ minter'[t] = live.id
  BY <1>0, <1>2 DEF StoreTyped, DisclosedSound
<1>7. Place(disclosed', minter', "save", r)
  BY <1>1, <1>3, <1>4, <1>6 DEF Place, Fresh, UpgradeOps, EndOps
<1>8. Locked(lock', staged', p, "save", r)
  <2>1. Locked(lock, staged, p, "save", r)
    BY NoLocks
  <2> QED  BY <2>1
<1>9. MintsForAClient
  BY <1>1, <1>2 DEF MintsForAClient
<1> QED  BY <1>2, <1>4, <1>5, <1>7, <1>8, <1>9, Turn

LEMMA UpgradesTurn ==
  ASSUME LInv, NEW p \in Procs, VerifyPassword(p) \/ Complete(p)
  PROVE  Placed' /\ Apart'
<1>1. UNCHANGED <<disclosed, lock, staged>> /\ pc[p] = "found"
  BY DEF VerifyPassword, Complete, store
<1>2. CASE VerifyPassword(p)
  <2>1. req[p].live \in Live /\ req[p].op = "password"
    BY <1>2, OwnPlace DEF VerifyPassword, Fits, Req
  <2>2. PICK u \in Users : Upgrade(p, u, "pwd")
    BY <1>2, <2>1 DEF VerifyPassword, Provable, Live
  <2> QED  BY <1>1, <2>1, <2>2, UpgradeTurn DEF Factors, UpgradeOps
<1>3. CASE Complete(p)
  <2>1. req[p].sure \in Users /\ req[p].op \in Factors /\ req[p].op \in UpgradeOps
    BY <1>3, OwnPlace DEF Complete, Req, Factors, SecondFactors, UpgradeOps
  <2> QED  BY <1>1, <1>3, <2>1, UpgradeTurn DEF Complete
<1> QED  BY <1>2, <1>3

LEMMA CountTurn ==
  ASSUME LInv, NEW p \in Procs, CountWrongCode(p)
  PROVE  Placed' /\ Apart'
<1>0. /\ req[p] \in Req /\ Fits(pc[p], req[p]) /\ Place(disclosed, minter, pc[p], req[p])
  BY OwnPlace
<1>1. req[p].live \in Live /\ req[p].tok \in Tokens /\ req[p].tok \in disclosed
      /\ req[p].op = "wrong" /\ pc[p] = "found" /\ req[p].tok # None
  BY <1>0 DEF CountWrongCode, Fits, Req, Place
<1>2. PICK l \in Live : l = [req[p].live EXCEPT !.wrong = @ + 1]
  BY <1>1, WrongTyped DEF CountWrongCode
<1>3. PICK r \in Req : /\ r = Saving(req[p], req[p].tok, l) /\ r.new = req[p].tok
                       /\ r.tok = req[p].tok /\ r.op = req[p].op
  BY <1>0, <1>1, <1>2, SavingTyped
<1>4. Move(p, "save", r) /\ UNCHANGED <<minter, disclosed, lock, staged>> /\ "save" \in PCs
  BY <1>2, <1>3 DEF CountWrongCode, store, PCs
<1>5. Place(disclosed, minter, "save", r)
  BY <1>1, <1>3 DEF Place, Fresh, UpgradeOps, EndOps
<1>6. Locked(lock, staged, p, "save", r)
  BY <1>1, NoLocks
<1> QED  BY <1>1, <1>3, <1>4, <1>5, <1>6, QuietTurn

\* The upsert takes the lock of the row, or commits at once.
LEMMA SaveTurn ==
  ASSUME LInv, NEW p \in Procs, SaveRow(p)
  PROVE  Placed' /\ Apart'
<1> DEFINE s == req[p].live.id
<1>0. /\ StoreTyped /\ ProcsTyped /\ req[p] \in Req /\ Fits(pc[p], req[p])
      /\ Place(disclosed, minter, pc[p], req[p])
      /\ Locked(lock, staged, p, pc[p], req[p])
      /\ pc[p] = "save" /\ p # None
  BY OwnPlace, NoneAssumption DEF SaveRow
<1>1. s \in Sessions /\ lock[s] = None /\ UNCHANGED <<minter, disclosed>>
  BY <1>0 DEF SaveRow, Fits, Req, Live
<1>2. PICK w \in {"put", "drop"} : Move(p, w, req[p])
  <2>1. req' = [req EXCEPT ![p] = req[p]]
    BY <1>0 DEF SaveRow, ProcsTyped
  <2> QED  BY <2>1 DEF SaveRow, Move
<1>3. Place(disclosed', minter', w, req[p]) /\ (Fresh(w, req[p]) => Fresh(pc[p], req[p]))
  BY <1>0, <1>1, <1>2 DEF Place, Fresh
<1>4. \A z \in Sessions : lock[z] # p
  BY <1>0 DEF Locked
<1>5. CASE Autocommits(p)
  <2>1. UNCHANGED <<staged, lock>>
    BY <1>5 DEF SaveRow
  <2>2. Locked(lock', staged', p, w, req[p])
    BY <1>4, <1>5, <2>1 DEF Locked, Autocommits, UpgradeOps
  <2> QED  BY <1>0, <1>1, <1>2, <1>3, <2>1, <2>2, Turn DEF MintsForAClient, PCs
<1>6. CASE ~Autocommits(p)
  <2>1. staged' = [staged EXCEPT ![s] = Seal(p)] /\ lock' = [lock EXCEPT ![s] = p]
    BY <1>6 DEF SaveRow
  <2>2. req[p].op \in UpgradeOps
    BY <1>0, <1>6 DEF Place, Autocommits
  <2>3. Locked(lock', staged', p, w, req[p])
    BY <1>0, <1>1, <1>2, <1>4, <2>1, <2>2 DEF Locked, StoreTyped, Seal
  <2>4. \A q \in Procs \ {p} : \A z \in Sessions :
           (lock[z] = q <=> lock'[z] = q) /\ (lock[z] = q => staged'[z] = staged[z])
    BY <1>0, <1>1, <2>1, NoneAssumption DEF StoreTyped
  <2> QED  BY <1>0, <1>1, <1>2, <1>3, <2>3, <2>4, Turn DEF MintsForAClient, PCs
<1> QED  BY <1>5, <1>6

\* The writes to Redis after it.
LEMMA PutTurn ==
  ASSUME LInv, NEW p \in Procs, DropRotated(p) \/ PutCache(p)
  PROVE  Placed' /\ Apart'
<1>0. /\ StoreTyped /\ ProcsTyped /\ req[p] \in Req /\ Fits(pc[p], req[p])
      /\ Place(disclosed, minter, pc[p], req[p])
      /\ Locked(lock, staged, p, pc[p], req[p])
  BY OwnPlace
<1>1. PICK w \in {"put", "commit"} : Goto(p, w) /\ UNCHANGED req
  BY DEF DropRotated, PutCache
<1>2. Move(p, w, req[p])
  <2>1. req' = [req EXCEPT ![p] = req[p]]
    BY <1>0, <1>1 DEF ProcsTyped
  <2> QED  BY <1>1, <2>1 DEF Move
<1>3. UNCHANGED <<minter, disclosed, lock, staged>> /\ pc[p] \in {"drop", "put"}
  BY DEF DropRotated, PutCache, store
<1>4. Place(disclosed, minter, w, req[p]) /\ (Fresh(w, req[p]) => Fresh(pc[p], req[p]))
  BY <1>0, <1>1, <1>3 DEF Place, Fresh, UpgradeOps, EndOps
<1>5. Locked(lock, staged, p, w, req[p])
  BY <1>0, <1>1, <1>3 DEF Locked
<1> QED  BY <1>0, <1>1, <1>2, <1>3, <1>4, <1>5, QuietTurn DEF PCs

\* Requests that set out to end sessions.
LEMMA EndTurn ==
  ASSUME LInv, NEW p \in Procs, EndFound(p) \/ TerminateByID(p) \/ RevokeRead(p)
  PROVE  Placed' /\ Apart'
<1>0. /\ StoreTyped /\ req[p] \in Req /\ Fits(pc[p], req[p])
      /\ Place(disclosed, minter, pc[p], req[p])
  BY OwnPlace
<1>1. UNCHANGED <<lock, staged, disclosed, minter>> /\ pc[p] \in {"idle", "found"}
  BY DEF EndFound, TerminateByID, RevokeRead, TerminateRead, store
<1>2. PICK n \in {NoReq, req[p]}, o \in {"terminate", "revoke"},
           d \in SUBSET (Sessions \X Tokens) : Move(p, "end", Ending(n, o, d))
  <2>1. CASE RevokeRead(p)
    <3>1. PICK gone \in SUBSET {s \in Sessions : row[s] # None} :
            Move(p, "end", Ending(NoReq, "revoke", {<<s, row[s].token>> : s \in gone}))
      BY <2>1 DEF RevokeRead
    <3>2. {<<s, row[s].token>> : s \in gone} \in SUBSET (Sessions \X Tokens)
      BY <1>0, <3>1 DEF StoreTyped, Row
    <3> QED  BY <3>1, <3>2
  <2>2. CASE EndFound(p) \/ TerminateByID(p)
    <3>1. PICK s \in Sessions : TerminateRead(p, s)
      BY <1>0, <2>2 DEF EndFound, TerminateByID, Fits, Req, Live
    <3>2. {<<s, row[s].token>>} \in SUBSET (Sessions \X Tokens)
      BY <1>0, <3>1 DEF TerminateRead, Alive, StoreTyped, Row
    <3> QED  BY <3>1, <3>2 DEF TerminateRead
  <2> QED  BY <2>1, <2>2
<1>3. n \in Req /\ n.new = None /\ (n.tok # None => n.tok \in disclosed)
  BY <1>0, <1>1, NoReqTyped, NoReqFields DEF Place
<1>4. o \in Ops
  BY DEF Ops
<1>5. PICK r \in Req : r = Ending(n, o, d) /\ r.tok = n.tok /\ r.new = n.new
  BY <1>3, <1>4, EndingTyped
<1>6. r.op = o
  BY <1>3, <1>5 DEF Ending, Req
<1>7. Place(disclosed, minter, "end", r)
  BY <1>3, <1>5, <1>6 DEF Place, Fresh, EndOps
<1>8. Locked(lock, staged, p, "end", r)
  BY <1>1, NoLocks
<1> QED  BY <1>1, <1>2, <1>3, <1>5, <1>7, <1>8, QuietTurn DEF PCs

\* The rows it ends wait for every lock, then it holds theirs.
LEMMA EndRowsTurn ==
  ASSUME LInv, NEW p \in Procs, EndRows(p)
  PROVE  Placed' /\ Apart'
<1> DEFINE gone == {d[1] : d \in req[p].doomed}
<1>0. /\ StoreTyped /\ ProcsTyped /\ req[p] \in Req
      /\ Place(disclosed, minter, pc[p], req[p])
      /\ Locked(lock, staged, p, pc[p], req[p])
      /\ pc[p] = "end"
  BY OwnPlace DEF EndRows
<1>1. Move(p, "uncache", req[p])
  <2>1. req' = [req EXCEPT ![p] = req[p]]
    BY <1>0 DEF EndRows, ProcsTyped
  <2> QED  BY <2>1 DEF EndRows, Move
<1>2. UNCHANGED <<minter, disclosed>> /\ req[p].op \in EndOps /\ req[p].new = None
  BY <1>0 DEF EndRows, Place
<1>3. Place(disclosed', minter', "uncache", req[p])
  BY <1>0, <1>2 DEF Place, Fresh
<1>4. \A s \in Sessions : lock[s] # p
  BY <1>0 DEF Locked
<1>5. ASSUME NEW s \in Sessions
      PROVE  \/ s \notin gone /\ lock'[s] = lock[s] /\ staged'[s] = staged[s]
             \/ /\ s \in gone /\ lock[s] = None /\ lock'[s] = p
                /\ staged'[s] # None => staged'[s].state = "terminated"
  <2>1. CASE s \notin gone
    BY <2>1 DEF EndRows
  <2>2. CASE s \in gone
    <3>1. lock[s] = None /\ lock'[s] = p
      BY <2>2 DEF EndRows
    <3>2. staged'[s] = IF row[s] = None \/ req[p].op = "revoke" THEN None
                       ELSE [row[s] EXCEPT !.state = "terminated"]
      BY <2>2 DEF EndRows
    <3>3. row[s] # None => [row[s] EXCEPT !.state = "terminated"].state = "terminated"
      BY <1>0 DEF StoreTyped, Row
    <3> QED  BY <2>2, <3>1, <3>2, <3>3
  <2> QED  BY <2>1, <2>2
<1> HIDE DEF gone
<1>6. Locked(lock', staged', p, "uncache", req[p])
  BY <1>2, <1>4, <1>5 DEF Locked
<1>7. \A q \in Procs \ {p} : \A s \in Sessions :
         (lock[s] = q <=> lock'[s] = q) /\ (lock[s] = q => staged'[s] = staged[s])
  BY <1>5, NoneAssumption
<1> QED  BY <1>0, <1>1, <1>2, <1>3, <1>6, <1>7, Turn DEF MintsForAClient, PCs

LEMMA DropEndedTurn ==
  ASSUME LInv, NEW p \in Procs, DropEnded(p)
  PROVE  Placed' /\ Apart'
<1>0. /\ req[p] \in Req /\ Place(disclosed, minter, pc[p], req[p])
      /\ Locked(lock, staged, p, pc[p], req[p]) /\ pc[p] = "uncache"
  BY OwnPlace DEF DropEnded
<1>1. PICK d \in req[p].doomed, w \in {"commit", "uncache"} :
        Move(p, w, [req[p] EXCEPT !.doomed = req[p].doomed \ {d}])
  BY DEF DropEnded
<1>2. PICK e \in SUBSET (Sessions \X Tokens) : e = req[p].doomed \ {d}
  BY <1>0 DEF Req
<1>3. PICK r : r = [req[p] EXCEPT !.doomed = e]
  OBVIOUS
<1>4. r \in Req /\ r.tok = req[p].tok /\ r.new = req[p].new /\ r.op = req[p].op
      /\ r.live = req[p].live
  BY <1>0, <1>3, LocalsDropped
<1>5. r.op \in EndOps /\ r.new = None
  BY <1>0, <1>4 DEF Place
<1>6. Place(disclosed, minter, w, r)
  BY <1>0, <1>4, <1>5 DEF Place, Fresh, UpgradeOps, EndOps
<1>7. Locked(lock, staged, p, w, r)
  BY <1>0, <1>4, <1>5 DEF Locked, UpgradeOps, EndOps
<1>8. Move(p, w, r) /\ w \in PCs /\ UNCHANGED <<minter, disclosed, lock, staged>>
  BY <1>1, <1>2, <1>3 DEF PCs, DropEnded, store
<1> QED  BY <1>4, <1>5, <1>6, <1>7, <1>8, QuietTurn

\* A request leaves, and lets its rows go.
LEMMA LeaveTurn ==
  ASSUME LInv, NEW p \in Procs, Commit(p) \/ Abandon(p)
  PROVE  Placed' /\ Apart'
<1>0. StoreTyped /\ p # None
  BY OwnPlace, NoneAssumption
<1>1. Move(p, "idle", NoReq) /\ Release(p) /\ UNCHANGED minter
  BY DEF Commit, Abandon, Leave
<1>2. disclosed \subseteq disclosed' /\ disclosed' \subseteq disclosed \cup {req[p].new}
  BY DEF Commit, Abandon
<1>3. NoReq \in Req /\ NoReq.tok = None /\ NoReq.new = None
  BY NoReqTyped, NoReqFields
<1>4. Place(disclosed', minter', "idle", NoReq)
  BY <1>3 DEF Place, Fresh
<1>5. \A s \in Sessions : lock'[s] # p
  BY <1>0, <1>1 DEF Release
<1>6. Locked(lock', staged', p, "idle", NoReq)
  BY <1>5 DEF Locked
<1>7. \A q \in Procs \ {p} : \A s \in Sessions :
         (lock[s] = q <=> lock'[s] = q) /\ (lock[s] = q => staged'[s] = staged[s])
  BY <1>0, <1>1, NoneAssumption DEF Release
<1> QED  BY <1>1, <1>2, <1>3, <1>4, <1>6, <1>7, Turn DEF MintsForAClient, PCs

LEMMA InitTurn == Init => Placed /\ Apart
<1> SUFFICES ASSUME Init PROVE Placed /\ Apart
  OBVIOUS
<1>1. \A p \in Procs : pc[p] = "idle" /\ req[p] = NoReq
  BY DEF Init
<1>2. ASSUME NEW p \in Procs
      PROVE  /\ Place(disclosed, minter, pc[p], req[p])
             /\ Locked(lock, staged, p, pc[p], req[p])
  BY <1>1, NoReqFields, NoneAssumption DEF Place, Locked, Fresh, Init
<1> QED  BY <1>1, <1>2 DEF Placed, Apart, Fresh

LEMMA NextTurn == LInv /\ [Next]_vars => Placed' /\ Apart'
<1> SUFFICES ASSUME LInv, [Next]_vars PROVE Placed' /\ Apart'
  OBVIOUS
<1>1. CASE Tick \/ UNCHANGED vars
  <2>1. UNCHANGED <<staged, lock, disclosed, minter, pc, req>>
    BY <1>1 DEF Tick, vars, store
  <2> QED  BY <2>1 DEF LInv, Placed, Apart, Place, Locked, Fresh
<1>2. ASSUME NEW p \in Procs, Step(p) PROVE Placed' /\ Apart'
  BY <1>2, FindsTurn, GoesTurn, IdentifyTurn, UpgradesTurn, CountTurn, SaveTurn, PutTurn,
     EndTurn, EndRowsTurn, DropEndedTurn, LeaveTurn DEF Step
<1> QED  BY <1>1, <1>2 DEF Next

LEMMA TurnsHold == Spec => []LInv
<1>1. Init => LInv
  BY InitTypeInv, InitSound, InitTurn DEF LInv, IInv
<1>2. LInv /\ [Next]_vars => LInv'
  BY StepTypeInv, StepSound, NextTurn DEF LInv, IInv
<1> QED  BY <1>1, <1>2, PTL DEF Spec
-----------------------------------------------------------------------------
(* What the promise sees of all this.                                      *)

\* What the promise reads off the rows r at time n, of tokens d handed out.
Resolves(r, n, t) ==
    \E s \in Sessions : /\ r[s] # None /\ r[s].state = "active" /\ r[s].live.expires > n
                        /\ r[s].token = t

StatusOf(d, r, n, t) == IF t \notin d THEN "unissued"
                        ELSE IF Resolves(r, n, t) THEN "live" ELSE "dead"

HolderOf(d, m, t) == IF t \in d THEN m[t] ELSE None

\* A step that hands nothing out and revives no token kills some, or none.
LEMMA KillsSome ==
  ASSUME disclosed' = disclosed,
         \A t \in disclosed : /\ minter'[t] = minter[t]
                              /\ Resolves(row', now', t) => Resolves(row, now, t)
  PROVE  Promise!Next
<1>0. PICK T \in SUBSET Tokens :
        T = {t \in Tokens : t \in disclosed /\ Resolves(row, now, t) /\ ~Resolves(row', now', t)}
  OBVIOUS
<1>1. \A t \in T : StatusOf(disclosed, row, now, t) = "live"
  BY <1>0 DEF StatusOf
<1>2. \A t \in Tokens : StatusOf(disclosed', row', now', t)
          = IF t \in T THEN "dead" ELSE StatusOf(disclosed, row, now, t)
  BY <1>0 DEF StatusOf
<1>3. \A t \in Tokens : HolderOf(disclosed', minter', t) = HolderOf(disclosed, minter, t)
  BY DEF HolderOf
<1>5. Promise!Kill(T)
  <2>1. \A t \in T : [x \in Tokens |-> StatusOf(disclosed, row, now, x)][t] = "live"
    BY <1>1
  <2>2. [t \in Tokens |-> StatusOf(disclosed', row', now', t)]
          = [t \in Tokens |-> IF t \in T THEN "dead"
               ELSE [x \in Tokens |-> StatusOf(disclosed, row, now, x)][t]]
    BY <1>2
  <2>3. [t \in Tokens |-> HolderOf(disclosed', minter', t)]
          = [t \in Tokens |-> HolderOf(disclosed, minter, t)]
    BY <1>3
  <2> QED  BY <2>1, <2>2, <2>3 DEF Promise!Kill, StatusOf, HolderOf, DbResolves, Alive, Resolves
<1> QED  BY <1>5 DEF Promise!Next

\* A step that hands out token t of session s, which answers to no other.
LEMMA IssuesOne ==
  ASSUME NEW s \in Sessions, NEW t \in Tokens, t \notin disclosed,
         disclosed' = disclosed \cup {t}, minter' = minter, minter[t] = s,
         \A x \in disclosed : minter[x] = s => ~Resolves(row', now', x),
         \A x \in disclosed : minter[x] # s => (Resolves(row', now', x) <=> Resolves(row, now, x))
  PROVE  Promise!Next
<1>1. PICK fate \in {"live", "dead"} : fate = IF Resolves(row', now', t) THEN "live" ELSE "dead"
  OBVIOUS
<1>2. PICK old : old = [x \in Tokens |-> StatusOf(disclosed, row, now, x)]
  OBVIOUS
<1>3. PICK held : held = [x \in Tokens |-> HolderOf(disclosed, minter, x)]
  OBVIOUS
<1>4. old[t] = "unissued"
  BY <1>2 DEF StatusOf
<1>5. [x \in Tokens |-> HolderOf(disclosed', minter', x)] = [held EXCEPT ![t] = s]
  BY <1>3 DEF HolderOf
<1>6. [x \in Tokens |-> StatusOf(disclosed', row', now', x)]
        = [x \in Tokens |-> IF x = t THEN fate
             ELSE IF held[x] = s /\ old[x] = "live" THEN "dead" ELSE old[x]]
  <2>1. ASSUME NEW x \in Tokens
        PROVE  StatusOf(disclosed', row', now', x)
                 = IF x = t THEN fate
                   ELSE IF held[x] = s /\ old[x] = "live" THEN "dead" ELSE old[x]
    <3>1. CASE x = t
      BY <1>1, <3>1 DEF StatusOf
    <3>2. CASE x # t /\ x \notin disclosed
      BY <1>2, <3>2 DEF StatusOf
    <3>3. CASE x \in disclosed
      BY <1>2, <1>3, <3>3 DEF StatusOf, HolderOf
    <3> QED  BY <3>1, <3>2, <3>3
  <2> QED  BY <2>1
<1>7. Promise!Issue(s, t, fate)
  BY <1>2, <1>3, <1>4, <1>5, <1>6
     DEF Promise!Issue, StatusOf, HolderOf, DbResolves, Alive, Resolves
<1> QED  BY <1>1, <1>7 DEF Promise!Next

\* Only a commit and an upsert write the rows, and only three steps mint.
LEMMA RowsAlone ==
  ASSUME NEW p \in Procs, Step(p)
  PROVE  /\ ~SaveRow(p) /\ ~Commit(p) => row' = row /\ now' = now /\ disclosed' = disclosed
         /\ ~Identify(p) /\ ~VerifyPassword(p) /\ ~Complete(p) => minter' = minter
<1>1. CASE Identify(p) \/ VerifyPassword(p) \/ Complete(p)
  <2>1. row' = row /\ now' = now /\ disclosed' = disclosed
    <3>1. CASE Identify(p)
      BY <3>1 DEF Identify, store
    <3>2. CASE VerifyPassword(p)
      BY <3>2 DEF VerifyPassword, store
    <3>3. CASE Complete(p)
      BY <3>3 DEF Complete, store
    <3> QED  BY <1>1, <3>1, <3>2, <3>3
  <2> QED  BY <1>1, <2>1
<1>2. CASE Present(p) \/ GetHit(p) \/ GetMiss(p) \/ ReadRow(p) \/ Refill(p)
  <2>1. row' = row /\ now' = now /\ disclosed' = disclosed /\ minter' = minter
    <3>1. CASE Present(p) \/ GetMiss(p) \/ Refill(p)
      BY <3>1 DEF Present, GetMiss, Refill, store
    <3>2. CASE GetHit(p)
      BY <3>2 DEF GetHit, store
    <3>3. CASE ReadRow(p)
      BY <3>3 DEF ReadRow, store
    <3> QED  BY <1>2, <3>1, <3>2, <3>3
  <2> QED  BY <2>1
<1>3. CASE ProveFactor(p) \/ WrongCode(p) \/ CountWrongCode(p) \/ Finalize(p)
  <2>1. row' = row /\ now' = now /\ disclosed' = disclosed /\ minter' = minter
    BY <1>3 DEF ProveFactor, WrongCode, CountWrongCode, Finalize, store
  <2> QED  BY <2>1
<1>4. CASE DropRotated(p) \/ PutCache(p) \/ EndFound(p) \/ TerminateByID(p) \/ RevokeRead(p)
  <2>1. row' = row /\ now' = now /\ disclosed' = disclosed /\ minter' = minter
    BY <1>4 DEF DropRotated, PutCache, EndFound, TerminateByID, RevokeRead, TerminateRead, store
  <2> QED  BY <2>1
<1>5. CASE EndRows(p) \/ DropEnded(p) \/ Abandon(p)
  <2>1. row' = row /\ now' = now /\ disclosed' = disclosed /\ minter' = minter
    BY <1>5 DEF EndRows, DropEnded, Abandon, store
  <2> QED  BY <2>1
<1>6. CASE SaveRow(p) \/ Commit(p)
  <2>1. minter' = minter
    BY <1>6 DEF SaveRow, Commit
  <2> QED  BY <1>6, <2>1
<1> QED  BY <1>1, <1>2, <1>3, <1>4, <1>5, <1>6 DEF Step

\* The session a token handed out was minted for stays.
LEMMA MintedStays ==
  ASSUME IInv, [Next]_vars
  PROVE  \A t \in disclosed : minter'[t] = minter[t]
<1>1. \A t \in disclosed : t \in Tokens /\ minter[t] # None
  BY DEF IInv, Inv, TypeInv, TypeOK, DisclosedSound
<1>2. minter' = minter \/ \E s, x : minter[x] = None /\ minter' = [minter EXCEPT ![x] = s]
  <2>1. CASE UNCHANGED vars \/ Tick
    BY <2>1 DEF vars, Tick
  <2>2. ASSUME NEW p \in Procs, Step(p)
        PROVE  minter' = minter \/ \E s, x : minter[x] = None /\ minter' = [minter EXCEPT ![x] = s]
    <3>1. CASE Identify(p)
      BY <3>1 DEF Identify, Mint
    <3>2. CASE VerifyPassword(p)
      BY <3>2 DEF VerifyPassword, Upgrade, Mint
    <3>3. CASE Complete(p)
      BY <3>3 DEF Complete, Upgrade, Mint
    <3> QED  BY <2>2, <3>1, <3>2, <3>3, RowsAlone
  <2> QED  BY <2>1, <2>2 DEF Next
<1>3. minter \in [Tokens -> Sessions \cup {None}]
  BY DEF IInv, TypeInv, TypeOK
<1> QED  BY <1>1, <1>2, <1>3

\* The row of a session is only ever resolved by a token minted for it.
LEMMA OneRow ==
  ASSUME IInv, NEW s \in Sessions, row[s] # None
  PROVE  row[s] \in Row /\ row[s].token \in Tokens /\ minter[row[s].token] = s
  BY DEF IInv, Inv, TypeInv, TypeOK, RowsSound, SoundRow, Row

\* An upsert that commits at once: a new session answers to a token that nobody
\* was handed, and a wrong code goes back into the row it was read from, or is
\* counted on a copy whose token is dead.
LEMMA SaveKeepsPromise ==
  ASSUME LInv, NEW p \in Procs, SaveRow(p), ~CountsTheDead(p),
         \A t \in disclosed : minter'[t] = minter[t]
  PROVE  Promise!Next
<1> DEFINE s == req[p].live.id
           seal == [state |-> "active", token |-> req[p].new, live |-> req[p].live]
<1>1. /\ StoreTyped /\ ProcsTyped /\ Fits(pc[p], req[p]) /\ req[p] \in Req
      /\ SoundReq(origin, proved, minter, pc[p], req[p])
      /\ Place(disclosed, minter, pc[p], req[p])
      /\ pc[p] = "save" /\ disclosed' = disclosed /\ now' = now
  BY OwnPlace DEF SaveRow
<1>2. req[p].live \in Live /\ s \in Sessions /\ req[p].new \in Tokens
  BY <1>1 DEF Fits, Req, Live
<1>3. CASE ~Autocommits(p)
  <2>1. row' = row
    BY <1>3 DEF SaveRow
  <2> QED  BY <1>1, <2>1, KillsSome
<1>4. CASE Autocommits(p)
  <2>1. row' = [row EXCEPT ![s] = seal]
    BY <1>4 DEF SaveRow, Seal
  <2>2. row'[s] = seal /\ \A x \in Sessions : x # s => row'[x] = row[x]
    BY <1>1, <1>2, <2>1 DEF StoreTyped
  <2>3. ASSUME NEW t \in disclosed, Resolves(row', now', t)
        PROVE  Resolves(row, now, t)
    <3>1. PICK x \in Sessions : /\ row'[x] # None /\ row'[x].state = "active"
                                /\ row'[x].live.expires > now /\ row'[x].token = t
      BY <1>1, <2>3 DEF Resolves
    <3>2. CASE x # s
      BY <2>2, <3>1, <3>2 DEF Resolves
    <3>3. CASE x = s
      <4>1. req[p].new = t
        BY <2>2, <3>1, <3>3
      <4>2. req[p].op = "wrong" /\ t = req[p].tok
        BY <1>1, <1>4, <4>1 DEF Autocommits, Place, Fresh
      <4>3. DbResolves(req[p].tok)
        <5>1. pc'[p] # "save"
          BY <1>1 DEF SaveRow, Goto, ProcsTyped
        <5> QED  BY <1>1, <4>2, <5>1 DEF CountsTheDead
      <4> QED  BY <4>2, <4>3 DEF DbResolves, Alive, Resolves
    <3> QED  BY <3>2, <3>3
  <2> QED  BY <1>1, <2>3, KillsSome
<1> QED  BY <1>3, <1>4

\* What a commit writes.
LEMMA CommitRows ==
  ASSUME LInv, NEW p \in Procs, Commit(p)
  PROVE  /\ req[p].op \in UpgradeOps =>
              /\ req[p].live.id \in Sessions
              /\ row' = [row EXCEPT ![req[p].live.id] =
                           [state |-> "active", token |-> req[p].new, live |-> req[p].live]]
         /\ req[p].op \in {"identify", "wrong"} => row' = row
         /\ req[p].op \in EndOps =>
              \A s \in Sessions :
                 row'[s] = row[s] \/ (row'[s] # None => row'[s].state = "terminated")
<1>1. StoreTyped /\ req[p] \in Req
  BY OwnPlace
<1>2. Locked(lock, staged, p, "commit", req[p]) /\ Place(disclosed, minter, "commit", req[p])
  BY OwnPlace DEF Commit
<1>3. row' = [s \in Sessions |-> IF lock[s] = p THEN staged[s] ELSE row[s]]
  BY DEF Commit
<1>4. CASE req[p].op \in UpgradeOps
  <2>1. req[p].live.id \in Sessions
    BY <1>2, <1>4 DEF Place, Fresh, Live
  <2>2. /\ lock[req[p].live.id] = p
        /\ staged[req[p].live.id] = [state |-> "active", token |-> req[p].new, live |-> req[p].live]
        /\ \A s \in Sessions : s # req[p].live.id => lock[s] # p
    BY <1>2, <1>4, <2>1 DEF Locked, UpgradeOps, EndOps
  <2>3. \A s \in Sessions : row'[s] = IF s = req[p].live.id
          THEN [state |-> "active", token |-> req[p].new, live |-> req[p].live] ELSE row[s]
    BY <1>3, <2>2
  <2>4. row' = [row EXCEPT ![req[p].live.id] =
                  [state |-> "active", token |-> req[p].new, live |-> req[p].live]]
    BY <1>1, <1>3, <2>3 DEF StoreTyped
  <2> QED  BY <1>4, <2>1, <2>4 DEF UpgradeOps, EndOps
<1>5. CASE req[p].op \in {"identify", "wrong"}
  <2>1. \A s \in Sessions : lock[s] # p
    BY <1>2, <1>5 DEF Locked, UpgradeOps, EndOps
  <2>2. row' = row
    BY <1>1, <1>3, <2>1 DEF StoreTyped
  <2> QED  BY <1>5, <2>2 DEF UpgradeOps, EndOps
<1>6. CASE req[p].op \in EndOps
  BY <1>2, <1>3, <1>6 DEF Locked, UpgradeOps, EndOps
<1> QED  BY <1>2, <1>4, <1>5, <1>6 DEF Place

LEMMA CommitKeepsPromise ==
  ASSUME LInv, NEW p \in Procs, Commit(p),
         \A t \in disclosed : minter'[t] = minter[t]
  PROVE  Promise!Next
<1> DEFINE s == req[p].live.id
<1>1. /\ StoreTyped /\ req[p] \in Req /\ Place(disclosed, minter, "commit", req[p])
      /\ pc[p] = "commit" /\ now' = now /\ minter' = minter
      /\ disclosed' = disclosed \cup ({req[p].new} \ {None})
  BY OwnPlace DEF Commit
<1>2. \A x \in Sessions : row[x] # None => row[x].token \in Tokens /\ minter[row[x].token] = x
  BY OneRow DEF LInv
<1>3. ASSUME req[p].op \in UpgradeOps \cup {"identify"}
      PROVE  /\ req[p].new \in Tokens /\ req[p].new \notin disclosed
             /\ s \in Sessions /\ minter[req[p].new] = s
             /\ disclosed' = disclosed \cup {req[p].new}
  BY <1>1, <1>3, NoneAssumption DEF Place, Fresh, Live
<1>4. CASE req[p].op \in UpgradeOps
  <2>1. /\ row'[s] # None => row'[s].token = req[p].new
        /\ \A x \in Sessions : x # s => row'[x] = row[x]
    <3>1. PICK seal : /\ seal = [state |-> "active", token |-> req[p].new, live |-> req[p].live]
                      /\ row' = [row EXCEPT ![s] = seal]
      <4>1. row' = [row EXCEPT ![req[p].live.id] =
                      [state |-> "active", token |-> req[p].new, live |-> req[p].live]]
        BY <1>4, CommitRows
      <4> QED  BY <4>1
    <3>2. seal.token = req[p].new
      BY <3>1
    <3> QED  BY <1>1, <1>3, <1>4, <3>1, <3>2 DEF StoreTyped
  <2>2. ASSUME NEW x \in disclosed, minter[x] = s
        PROVE  ~Resolves(row', now', x)
    <3> SUFFICES ASSUME NEW y \in Sessions, row'[y] # None, row'[y].token = x
                 PROVE  FALSE
      BY DEF Resolves
    <3>1. y # s
      BY <1>3, <1>4, <2>1
    <3>2. minter[x] = y
      BY <1>2, <2>1, <3>1
    <3> QED  BY <2>2, <3>1, <3>2
  <2>3. ASSUME NEW x \in disclosed, minter[x] # s
        PROVE  Resolves(row', now', x) <=> Resolves(row, now, x)
    <3>1. \A y \in Sessions : row[y] # None /\ row[y].token = x => y # s
      BY <1>2, <2>3
    <3>2. row'[s] # None => row'[s].token # x
      BY <1>3, <1>4, <2>1
    <3> QED  BY <1>1, <2>1, <3>1, <3>2 DEF Resolves
  <2> HIDE DEF s
  <2> QED  BY <1>1, <1>3, <1>4, <2>2, <2>3, IssuesOne
<1>5. CASE req[p].op = "identify"
  <2>1. row' = row
    BY <1>5, CommitRows
  <2>2. \A x \in disclosed : minter[x] # s
    BY <1>1, <1>3, <1>5 DEF Place, Fresh, StoreTyped
  <2>3. \A x \in disclosed : Resolves(row', now', x) <=> Resolves(row, now, x)
    BY <1>1, <2>1
  <2> HIDE DEF s
  <2> QED  BY <1>1, <1>3, <1>5, <2>2, <2>3, IssuesOne
<1>6. CASE req[p].op = "wrong"
  <2>1. row' = row /\ disclosed' = disclosed
    BY <1>1, <1>6, CommitRows DEF Place
  <2> QED  BY <1>1, <2>1, KillsSome
<1>7. CASE req[p].op \in EndOps
  <2>1. disclosed' = disclosed
    BY <1>1, <1>7 DEF Place
  <2>2. \A t \in disclosed : Resolves(row', now', t) => Resolves(row, now, t)
    <3>1. \A x \in Sessions : row'[x] # None /\ row'[x].state = "active" => row'[x] = row[x]
      BY <1>7, CommitRows
    <3> QED  BY <1>1, <3>1 DEF Resolves
  <2> QED  BY <1>1, <2>1, <2>2, KillsSome
<1> QED  BY <1>1, <1>4, <1>5, <1>6, <1>7 DEF Place

\* For every number of requests, whatever overlaps and whatever Redis loses: a
\* token is handed out once, its session answers to no earlier one, and a token
\* that the rows stopped answering never returns, but for the save of a wrong
\* code counted on a copy of a dead session.
THEOREM SessionsKeepPromise == Spec => KeepsPromise
<1>1. Init => Promise!Init
  BY DEF Init, Promise!Init
<1>2. ASSUME LInv, [Next]_vars
      PROVE  (\E p \in Procs : CountsTheDead(p)) \/ Promise!Next \/ UNCHANGED Promise!tvars
  <2> SUFFICES ASSUME \A p \in Procs : ~CountsTheDead(p) PROVE Promise!Next
    OBVIOUS
  <2>1. \A t \in disclosed : minter'[t] = minter[t]
    BY <1>2, MintedStays DEF LInv
  <2>2. CASE UNCHANGED vars \/ Tick
    <3>1. row' = row /\ disclosed' = disclosed /\ (now' = now \/ now' = now + 1) /\ now \in Nat
      BY <1>2, <2>2 DEF vars, Tick, store, LInv, IInv, TypeInv, TypeOK
    <3>2. \A t \in disclosed : Resolves(row', now', t) => Resolves(row, now, t)
      <4> SUFFICES ASSUME NEW t \in disclosed, NEW x \in Sessions,
                          row[x] # None, row[x].live.expires > now'
                   PROVE  row[x].live.expires > now
        BY <3>1 DEF Resolves
      <4>1. row[x].live.expires \in Nat
        BY <1>2 DEF LInv, IInv, TypeInv, TypeOK, Row, Live
      <4> QED  BY <3>1, <4>1
    <3> QED  BY <2>1, <3>1, <3>2, KillsSome
  <2>3. ASSUME NEW p \in Procs, Step(p)
        PROVE  Promise!Next
    <3>1. CASE SaveRow(p)
      BY <1>2, <2>1, <3>1, SaveKeepsPromise
    <3>2. CASE Commit(p)
      BY <1>2, <2>1, <3>2, CommitKeepsPromise
    <3>3. CASE ~SaveRow(p) /\ ~Commit(p)
      BY <2>1, <2>3, <3>3, RowsAlone, KillsSome
    <3> QED  BY <3>1, <3>2, <3>3
  <2> QED  BY <1>2, <2>2, <2>3 DEF Next
<1> QED  BY <1>1, <1>2, TurnsHold, PTL DEF Spec, KeepsPromise

=============================================================================

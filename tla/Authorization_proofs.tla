------------------------- MODULE Authorization_proofs -------------------------
(***************************************************************************)
(* The authorization requests, proved for any number of requests, people   *)
(* and finalize calls. A finalize checks the sign-in, then the consent,    *)
(* and saves a row it read before all that, while other calls save theirs  *)
(* and the person withdraws what they consented to: the invariant says     *)
(* what a call still knows at each of its statements, and what a saved row *)
(* carries until the engine resumes the request.                           *)
(***************************************************************************)
EXTENDS Authorization, TLAPS

-----------------------------------------------------------------------------
(* The invariant.                                                          *)

Typed ==
    /\ now \in Times
    /\ enabled \subseteq Scopes
    /\ provider = None \/ provider \in [scopes : SUBSET Scopes, expires : Nat]
    /\ retired \in [Scopes -> Times \cup {None}]
    /\ clients \subseteq Clients
    /\ auth \in [Users -> Times \cup {None}]
    /\ authn \in [Requests -> Authn \cup {None}]
    /\ ended \in [Requests -> {"open", "error", "grant"}]
    /\ grant \in [Requests -> Authn \cup {None}]
    /\ verdict \in [Requests -> Users \cup {None, "error"}]
    /\ consent \in [Pairs -> (SUBSET Scopes) \cup {None}]
    /\ raced \subseteq Pairs
    /\ pc \in [Procs -> PCs]
    /\ req \in [Procs -> Req]

\* A provider names a scope that was switched off only until the TTL is over
\* that began before.
ProviderFits ==
    /\ \A s \in enabled : retired[s] = None
    /\ provider # None =>
          /\ provider.expires <= now + ProviderTTL
          /\ \A s \in provider.scopes : retired[s] = None \/ provider.expires <= retired[s] + ProviderTTL

\* The sign-in that a row publishes is one the client may rely on.
RowFits(as) ==
    as.subject # None =>
        /\ as.auth \in Times /\ as.at \in Times
        /\ as.how.prompt = "login" => as.auth >= as.created
        /\ as.how.aged => as.at - as.auth <= MaxAge

\* What a person consented to, unless an overlap lost it or nobody asks.
Consented(u, c, scopes) == <<u, c>> \in raced \/ c \in FirstParty \/ scopes \subseteq Held(<<u, c>>)

\* A row that is still to be resumed carries the last answer, and no scope
\* nobody consented to.
AuthnFits(r) ==
    LET as == authn[r]
    IN  IF as = None THEN ended[r] = "open" /\ grant[r] = None
        ELSE /\ RowFits(as)
             /\ ended[r] = "open" =>
                   /\ as.error # None => verdict[r] = "error"
                   /\ as.error = None /\ as.subject # None =>
                         verdict[r] = as.subject /\ Consented(as.subject, as.client, as.scopes)

GrantFits(r) == grant[r] # None => ended[r] = "grant" /\ RowFits(grant[r]) /\ grant[r].subject # None

RequestsFit == \A r \in Requests : AuthnFits(r) /\ GrantFits(r)

\* What no finalize changes in a row.
Same(as, bs) ==
    as.client = bs.client /\ as.scopes = bs.scopes /\ as.how = bs.how /\ as.created = bs.created

\* The sign-in of a call passed the checks.
Checked(q) ==
    /\ q.user \in Users /\ q.auth \in Times /\ q.at \in Times
    /\ q.as.how.prompt = "login" => q.auth >= q.as.created
    /\ q.as.how.aged => q.at - q.auth <= MaxAge

\* What a call knows where it stands.
Knows(where, q) ==
    /\ where = "idle" <=> q = NoReq
    /\ where # "idle" =>
          /\ q.r \in Requests /\ authn[q.r] # None
          /\ q.user # None => q.auth \in Times
    /\ where \in {"decide", "approve", "union", "save"} =>
          q.as \in Authn /\ RowFits(q.as) /\ Same(q.as, authn[q.r])
    /\ where \in {"decide", "approve", "union"} => Checked(q)
    /\ where = "approve" => Consented(q.user, q.as.client, q.as.scopes \ q.asked)
    /\ where = "union" =>
          \/ <<q.user, q.as.client>> \in raced \/ q.as.client \in FirstParty
          \/ q.as.scopes \subseteq q.held \cup q.asked
    /\ where = "save" =>
          \/ q.says = "error" /\ q.as.error # None
          \/ /\ q.user \in Users /\ q.says = q.user /\ q.as.subject = q.user /\ q.as.error = None
             /\ Consented(q.user, q.as.client, q.as.scopes)

CallsKnow == \A p \in Procs : Knows(pc[p], req[p])

IInv ==
    /\ Typed
    /\ ProviderFits
    /\ RequestsFit
    /\ CallsKnow
    /\ GrantsAreConsented /\ AnswerStands

USE FirstPartyAssumption, TimeAssumption, NoneAssumption, NoRowAssumption DEF Times, Pairs

LEMMA InitHolds == Init => IInv
<1> SUFFICES ASSUME Init
             PROVE  IInv
  OBVIOUS
<1>1. NoReq \in Req
  BY DEF NoReq, Req
<1>2. Typed
  <2>1. now \in Times
    BY DEF Init
  <2>2. pc \in [Procs -> PCs] /\ req \in [Procs -> Req]
    BY <1>1 DEF Init, PCs
  <2>3. /\ authn \in [Requests -> Authn \cup {None}] /\ grant \in [Requests -> Authn \cup {None}]
        /\ ended \in [Requests -> {"open", "error", "grant"}]
        /\ verdict \in [Requests -> Users \cup {None, "error"}]
    BY DEF Init
  <2>4. consent \in [Pairs -> (SUBSET Scopes) \cup {None}]
    BY DEF Init
  <2> QED  BY <2>1, <2>2, <2>3, <2>4 DEF Init, Typed
<1>3. ProviderFits /\ RequestsFit
  BY DEF Init, ProviderFits, RequestsFit, AuthnFits, GrantFits
<1>4. CallsKnow
  BY DEF Init, CallsKnow, Knows
<1>5. GrantsAreConsented /\ AnswerStands
  BY DEF Init, GrantsAreConsented, AnswerStands, Granted
<1> QED  BY <1>2, <1>3, <1>4, <1>5 DEF IInv

-----------------------------------------------------------------------------
(* Lemmas about the model's operators.                                     *)

\* A call that moves touches itself alone.
LEMMA Moved ==
  ASSUME Typed, NEW p \in Procs, NEW where \in PCs, NEW locals \in Req, Move(p, where, locals)
  PROVE  /\ pc' \in [Procs -> PCs] /\ req' \in [Procs -> Req]
         /\ pc'[p] = where /\ req'[p] = locals
         /\ \A q \in Procs \ {p} : pc'[q] = pc[q] /\ req'[q] = req[q]
         /\ UNCHANGED <<now, enabled, retired, provider, clients, auth>>
  BY DEF Typed, Move, tenant

\* A call that is done holds nothing.
LEMMA NothingKnown == NoReq \in Req /\ "idle" \in PCs /\ Knows("idle", NoReq)
  BY DEF NoReq, Req, PCs, Knows

\* What stays as its variables do.
LEMMA RequestsStay ==
  ASSUME IInv, UNCHANGED <<requests, consents>>
  PROVE  RequestsFit' /\ GrantsAreConsented' /\ AnswerStands'
<1> USE DEF requests, consents
<1>1. RequestsFit'
  <2>1. \A r \in Requests : AuthnFits(r) /\ GrantFits(r)
    BY DEF IInv, RequestsFit
  <2>2. \A r \in Requests : AuthnFits(r)'
    BY <2>1 DEF AuthnFits, Consented, Held
  <2>3. \A r \in Requests : GrantFits(r)'
    BY <2>1 DEF GrantFits
  <2> QED  BY <2>2, <2>3 DEF RequestsFit
<1>2. GrantsAreConsented'
  BY DEF IInv, GrantsAreConsented, Granted, Held
<1>3. AnswerStands'
  BY DEF IInv, AnswerStands
<1> QED  BY <1>1, <1>2, <1>3

\* A call that goes on, having written nothing.
LEMMA GoKeeps ==
  ASSUME IInv, NEW p \in Procs, NEW where \in PCs, NEW locals \in Req,
         Knows(where, locals), Go(p, where, locals)
  PROVE  IInv'
<1>1. /\ pc' \in [Procs -> PCs] /\ req' \in [Procs -> Req]
      /\ pc'[p] = where /\ req'[p] = locals
      /\ \A q \in Procs \ {p} : pc'[q] = pc[q] /\ req'[q] = req[q]
      /\ UNCHANGED <<now, enabled, retired, provider, clients, auth>>
  BY Moved DEF IInv, Go
<1>2. UNCHANGED <<requests, consents>>
  BY DEF Go
<1>3. Typed'
  BY <1>1, <1>2 DEF IInv, Typed, requests, consents
<1>4. ProviderFits'
  BY <1>1 DEF IInv, ProviderFits
<1>5. RequestsFit' /\ GrantsAreConsented' /\ AnswerStands'
  BY <1>2, RequestsStay
<1>6. CallsKnow'
  <2>1. \A q \in Procs : Knows(pc'[q], req'[q])
    BY <1>1 DEF IInv, CallsKnow
  <2> QED  BY <2>1, <1>2 DEF CallsKnow, Knows, Consented, Held, requests, consents
<1> QED  BY <1>3, <1>4, <1>5, <1>6 DEF IInv

LEMMA AnswerKeeps ==
  ASSUME IInv, NEW p \in Procs, Answer(p)
  PROVE  IInv'
  BY NothingKnown, GoKeeps DEF Answer
-----------------------------------------------------------------------------
(* The portal, the console and time, but for the disconnect.               *)

\* What the calls know stays as the rows and the consents do.
LEMMA CallsStay ==
  ASSUME IInv, UNCHANGED <<authn, consents, pc, req>>
  PROVE  CallsKnow'
  BY DEF IInv, CallsKnow, Knows, Consented, Held, consents

LEMMA TickKeeps == ASSUME IInv, Tick PROVE IInv'
<1> USE DEF tenant, requests, consents
<1>1. now' = now + 1 /\ now' \in Times
  BY DEF Tick, IInv, Typed
<1>2. UNCHANGED <<enabled, retired, provider, clients, auth, authn, ended, grant, verdict, consent, raced, pc, req>>
  BY DEF Tick
<1>3. Typed'
  BY <1>1, <1>2 DEF IInv, Typed
<1>4. ProviderFits'
  <2>1. now \in Nat /\ (provider # None => provider.expires \in Nat)
    BY DEF IInv, Typed
  <2> QED  BY <1>1, <1>2, <2>1 DEF IInv, ProviderFits
<1>5. RequestsFit' /\ GrantsAreConsented' /\ AnswerStands' /\ CallsKnow'
  BY <1>2, RequestsStay, CallsStay
<1> QED  BY <1>3, <1>4, <1>5 DEF IInv

LEMMA SwitchScopeKeeps == ASSUME IInv, NEW s \in Scopes, SwitchScope(s) PROVE IInv'
<1> USE DEF requests, consents
<1>1. /\ enabled' = IF s \in enabled THEN enabled \ {s} ELSE enabled \cup {s}
      /\ retired' = [retired EXCEPT ![s] = IF s \in enabled THEN now ELSE None]
      /\ UNCHANGED <<now, provider, clients, auth, authn, ended, grant, verdict, consent, raced, pc, req>>
  BY DEF SwitchScope
<1>2. /\ now \in Times /\ enabled \subseteq Scopes
      /\ retired \in [Scopes -> Times \cup {None}]
      /\ provider = None \/ provider \in [scopes : SUBSET Scopes, expires : Nat]
  BY DEF IInv, Typed
<1>3. /\ retired' \in [Scopes -> Times \cup {None}]
      /\ retired'[s] = (IF s \in enabled THEN now ELSE None)
      /\ \A x \in Scopes \ {s} : retired'[x] = retired[x]
      /\ enabled' \subseteq Scopes
  BY <1>1, <1>2
<1>4. Typed'
  BY <1>1, <1>3 DEF IInv, Typed
<1>5. ProviderFits'
  <2>1. \A x \in enabled' : retired'[x] = None
    BY <1>1, <1>2, <1>3 DEF IInv, ProviderFits
  <2>2. ASSUME provider # None
        PROVE  \A x \in provider.scopes : retired'[x] = None \/ provider.expires <= retired'[x] + ProviderTTL
    BY <2>2, <1>2, <1>3 DEF IInv, ProviderFits
  <2> QED  BY <1>1, <2>1, <2>2 DEF IInv, ProviderFits
<1>6. RequestsFit' /\ GrantsAreConsented' /\ AnswerStands' /\ CallsKnow'
  BY <1>1, RequestsStay, CallsStay
<1> QED  BY <1>4, <1>5, <1>6 DEF IInv

LEMMA OthersKeep ==
  ASSUME IInv, \/ \E c \in Clients : DeleteClient(c)
               \/ \E u \in Users : SignIn(u) \/ SignOut(u)
               \/ UNCHANGED vars
  PROVE  IInv'
<1> USE DEF tenant, requests, consents
<1>1. UNCHANGED <<now, enabled, retired, provider, authn, ended, grant, verdict, consent, raced, pc, req>>
  BY DEF DeleteClient, SignIn, SignOut, vars
<1>2. clients' \subseteq Clients /\ auth' \in [Users -> Times \cup {None}]
  <2>1. CASE \E c \in Clients : DeleteClient(c)
    BY <2>1 DEF DeleteClient, IInv, Typed
  <2>2. CASE \E u \in Users : SignIn(u) \/ SignOut(u)
    <3>1. PICK u \in Users : auth' \in {[auth EXCEPT ![u] = now], [auth EXCEPT ![u] = None]} /\ UNCHANGED clients
      BY <2>2 DEF SignIn, SignOut
    <3> QED  BY <3>1 DEF IInv, Typed
  <2>3. CASE UNCHANGED vars
    BY <2>3 DEF vars, IInv, Typed
  <2> QED  BY <2>1, <2>2, <2>3
<1>3. Typed'
  BY <1>1, <1>2 DEF IInv, Typed
<1>4. ProviderFits'
  BY <1>1 DEF IInv, ProviderFits
<1>5. RequestsFit' /\ GrantsAreConsented' /\ AnswerStands' /\ CallsKnow'
  BY <1>1, RequestsStay, CallsStay
<1> QED  BY <1>3, <1>4, <1>5 DEF IInv

-----------------------------------------------------------------------------
(* The engine.                                                             *)

\* The provider that serves a request names no scope that was off for its TTL.
LEMMA ServedFits ==
  ASSUME Typed, ProviderFits
  PROVE  /\ Served.scopes \subseteq Scopes /\ Served.expires \in Nat
         /\ Served = provider \/ Served = Fresh
         /\ Served \in [scopes : SUBSET Scopes, expires : Nat]
         /\ Served.expires <= now + ProviderTTL
         /\ \A s \in Served.scopes :
               /\ retired[s] = None \/ Served.expires <= retired[s] + ProviderTTL
               /\ retired[s] = None \/ now - retired[s] < ProviderTTL
<1>1. /\ now \in Nat /\ enabled \subseteq Scopes
      /\ \A s \in Scopes : retired[s] # None => retired[s] \in Nat
      /\ provider = None \/ provider \in [scopes : SUBSET Scopes, expires : Nat]
  BY DEF Typed
<1>2. CASE provider # None /\ now < provider.expires
  <2>1. Served = provider
    BY <1>2 DEF Served
  <2> QED  BY <1>1, <1>2, <2>1 DEF ProviderFits
<1>3. CASE ~(provider # None /\ now < provider.expires)
  <2>1. Served = [scopes |-> enabled, expires |-> now + ProviderTTL] /\ Served = Fresh
    BY <1>3 DEF Served, Fresh, Advertised
  <2>2. Served.scopes = enabled /\ Served.expires = now + ProviderTTL /\ now + ProviderTTL \in Nat
    BY <1>1, <2>1
  <2>3. \A s \in enabled : retired[s] = None
    BY DEF ProviderFits
  <2> QED  BY <1>1, <2>1, <2>2, <2>3
<1> QED  BY <1>2, <1>3

LEMMA ProviderStays ==
  ASSUME Typed, ProviderFits, provider' = Served, UNCHANGED <<now, enabled, retired>>
  PROVE  provider' \in [scopes : SUBSET Scopes, expires : Nat] /\ ProviderFits'
<1>1. /\ Served \in [scopes : SUBSET Scopes, expires : Nat]
      /\ Served.expires <= now + ProviderTTL
      /\ \A s \in Served.scopes : retired[s] = None \/ Served.expires <= retired[s] + ProviderTTL
  BY ServedFits
<1> HIDE DEF Served
<1> QED  BY <1>1 DEF ProviderFits

\* A request that begins is nobody's, and new to every call.
LEMMA BeginKeeps ==
  ASSUME IInv, NEW r \in Requests, Begin(r)
  PROVE  IInv'
<1> USE DEF consents
<1>1. PICK c \in clients, scopes \in SUBSET Served.scopes, how \in Prompts :
        authn' = [authn EXCEPT ![r] =
            [client |-> c, scopes |-> scopes, how |-> how, created |-> now,
             subject |-> None, auth |-> None, at |-> None, error |-> None]]
  BY DEF Begin
<1>2. /\ authn[r] = None /\ provider' = Served
      /\ UNCHANGED <<now, enabled, retired, clients, auth, ended, grant, verdict, consent, raced, pc, req>>
  BY DEF Begin
<1>3. Typed /\ ProviderFits
  BY DEF IInv
<1>4. provider' \in [scopes : SUBSET Scopes, expires : Nat] /\ ProviderFits'
  BY <1>2, <1>3, ProviderStays
<1>5. /\ authn' \in [Requests -> Authn \cup {None}]
      /\ authn'[r] \in Authn /\ authn'[r].subject = None /\ authn'[r].error = None
      /\ \A x \in Requests \ {r} : authn'[x] = authn[x]
  <2>1. scopes \subseteq Scopes /\ c \in Clients /\ now \in Times
    BY <1>1, <1>3, ServedFits DEF Typed
  <2>2. [client |-> c, scopes |-> scopes, how |-> how, created |-> now,
         subject |-> None, auth |-> None, at |-> None, error |-> None] \in Authn
    BY <2>1 DEF Authn
  <2> QED  BY <1>1, <1>3, <2>2 DEF Typed
<1>6. Typed'
  BY <1>2, <1>3, <1>4, <1>5 DEF Typed
<1>7. RequestsFit'
  <2> SUFFICES ASSUME NEW x \in Requests
               PROVE  AuthnFits(x)' /\ GrantFits(x)'
    BY DEF RequestsFit
  <2>1. AuthnFits(x) /\ GrantFits(x)
    BY DEF IInv, RequestsFit
  <2>2. GrantFits(x)'
    BY <1>2, <2>1 DEF GrantFits
  <2>3. CASE x = r
    BY <1>2, <1>5, <2>3, <2>2 DEF AuthnFits, RowFits
  <2>4. CASE x # r
    <3>1. authn'[x] = authn[x]
      BY <1>5, <2>4
    <3> QED  BY <1>2, <2>1, <2>2, <3>1 DEF AuthnFits, Consented, Held
  <2> QED  BY <2>3, <2>4
<1>8. CallsKnow'
  <2>1. \A p \in Procs : pc[p] # "idle" => req[p].r \in Requests \ {r}
    BY <1>2 DEF IInv, CallsKnow, Knows
  <2>2. \A p \in Procs : pc[p] # "idle" => authn'[req[p].r] = authn[req[p].r]
    BY <2>1, <1>5
  <2> SUFFICES ASSUME NEW p \in Procs
               PROVE  Knows(pc[p], req[p])'
    BY DEF CallsKnow
  <2>3. Knows(pc[p], req[p])
    BY DEF IInv, CallsKnow
  <2>4. pc'[p] = pc[p] /\ req'[p] = req[p]
    BY <1>2
  <2> QED  BY <1>2, <2>2, <2>3, <2>4 DEF Knows, Consented, Held
<1>9. GrantsAreConsented' /\ AnswerStands'
  BY <1>2 DEF IInv, GrantsAreConsented, AnswerStands, Granted, Held
<1> QED  BY <1>4, <1>6, <1>7, <1>8, <1>9 DEF IInv

\* What the engine makes of a request is what its row carries.
LEMMA ResumeKeeps ==
  ASSUME IInv, NEW r \in Requests, Resume(r)
  PROVE  IInv'
<1> USE DEF consents
<1>1. /\ authn[r] # None /\ ended[r] = "open" /\ provider' = Served
      /\ ended' = [ended EXCEPT ![r] = Policy(authn[r])]
      /\ grant' = [grant EXCEPT ![r] = IF ended'[r] = "grant" THEN authn[r] ELSE None]
      /\ UNCHANGED <<now, enabled, retired, clients, auth, authn, verdict, consent, raced, pc, req>>
  BY DEF Resume
<1>2. Typed /\ ProviderFits
  BY DEF IInv
<1>3. provider' \in [scopes : SUBSET Scopes, expires : Nat] /\ ProviderFits'
  BY <1>1, <1>2, ProviderStays
<1>4. /\ ended' \in [Requests -> {"open", "error", "grant"}]
      /\ ended'[r] = Policy(authn[r])
      /\ \A x \in Requests \ {r} : ended'[x] = ended[x]
  BY <1>1, <1>2 DEF Typed, Policy
<1>5. /\ grant' \in [Requests -> Authn \cup {None}]
      /\ grant'[r] = IF ended'[r] = "grant" THEN authn[r] ELSE None
      /\ \A x \in Requests \ {r} : grant'[x] = grant[x]
  BY <1>1, <1>2 DEF Typed
<1>6. Typed'
  BY <1>1, <1>2, <1>3, <1>4, <1>5 DEF Typed
<1>7. /\ RowFits(authn[r])
      /\ authn[r].error # None => verdict[r] = "error"
      /\ authn[r].error = None /\ authn[r].subject # None =>
            verdict[r] = authn[r].subject /\ Consented(authn[r].subject, authn[r].client, authn[r].scopes)
  BY <1>1 DEF IInv, RequestsFit, AuthnFits
<1>8. /\ ended'[r] = "grant" => authn[r].error = None /\ authn[r].subject # None
      /\ ended'[r] = "error" => authn[r].error # None
  BY <1>4 DEF Policy
<1>9. RequestsFit'
  <2> SUFFICES ASSUME NEW x \in Requests
               PROVE  AuthnFits(x)' /\ GrantFits(x)'
    BY DEF RequestsFit
  <2>1. AuthnFits(x) /\ GrantFits(x)
    BY DEF IInv, RequestsFit
  <2>2. CASE x = r
    <3>1. GrantFits(r)'
      BY <1>5, <1>7, <1>8 DEF GrantFits, RowFits
    <3>2. AuthnFits(r)'
      BY <1>1, <1>7 DEF AuthnFits, RowFits, Consented, Held
    <3> QED  BY <2>2, <3>1, <3>2
  <2>3. CASE x # r
    <3>1. ended'[x] = ended[x] /\ grant'[x] = grant[x]
      BY <1>4, <1>5, <2>3
    <3> QED  BY <1>1, <2>1, <3>1 DEF AuthnFits, GrantFits, Consented, Held
  <2> QED  BY <2>2, <2>3
<1>10. CallsKnow'
  BY <1>1, CallsStay
<1>11. GrantsAreConsented'
  <2> SUFFICES ASSUME NEW w \in Pairs \ raced, NEW x \in Requests, Granted(x, w)', w[2] \notin FirstParty
               PROVE  grant'[x].scopes \subseteq Held(w)
    BY <1>1 DEF GrantsAreConsented, Held
  <2>1. CASE x # r
    BY <2>1, <1>5 DEF IInv, GrantsAreConsented, Granted
  <2>2. CASE x = r
    <3>1. ended'[r] = "grant" /\ grant'[r] = authn[r] /\ authn[r].subject = w[1] /\ authn[r].client = w[2]
      BY <2>2, <1>5 DEF Granted
    <3>2. w = <<w[1], w[2]>>
      OBVIOUS
    <3> QED  BY <2>2, <3>1, <3>2, <1>7, <1>8 DEF Consented
  <2> QED  BY <2>1, <2>2
<1>12. AnswerStands'
  <2> SUFFICES ASSUME NEW x \in Requests
               PROVE  /\ ended'[x] = "error" => verdict[x] = "error"
                      /\ grant'[x] # None => verdict[x] = grant'[x].subject
    BY <1>1 DEF AnswerStands
  <2>1. CASE x # r
    BY <2>1, <1>4, <1>5 DEF IInv, AnswerStands
  <2>2. CASE x = r
    BY <2>2, <1>5, <1>7, <1>8
  <2> QED  BY <2>1, <2>2
<1> QED  BY <1>3, <1>6, <1>9, <1>10, <1>11, <1>12 DEF IInv
-----------------------------------------------------------------------------
(* The finalize step.                                                      *)

LEMMA FinalizeKeeps ==
  ASSUME IInv, NEW p \in Procs, Finalize(p)
  PROVE  IInv'
<1>1. PICK r \in Requests, u \in Users \cup {None}, answer \in {"nil", "yes", "no"} :
        /\ authn[r] # None /\ (u # None => auth[u] # None)
        /\ Go(p, "find", [NoReq EXCEPT !.r = r, !.user = u, !.answer = answer,
                             !.auth = IF u = None THEN None ELSE auth[u]])
  BY DEF Finalize
<1> DEFINE at == IF u = None THEN None ELSE auth[u]
           q == [NoReq EXCEPT !.r = r, !.user = u, !.answer = answer, !.auth = at]
<1>2. at \in Times \cup {None} /\ (u # None => at \in Times)
  BY <1>1 DEF IInv, Typed
<1>3. Go(p, "find", q)
  BY <1>1
<1> HIDE DEF at
<1>4. q \in Req /\ q.r = r /\ q.user = u /\ q.auth = at
  BY <1>2 DEF NoReq, Req
<1>5. q # NoReq
  BY <1>4 DEF NoReq
<1> HIDE DEF q
<1>6. Knows("find", q)
  BY <1>1, <1>2, <1>4, <1>5 DEF Knows
<1>7. "find" \in PCs
  BY DEF PCs
<1> QED  BY <1>3, <1>4, <1>6, <1>7, GoKeeps

\* What a call knows as long as it goes on.
LEMMA Going ==
  ASSUME IInv, NEW p \in Procs, pc[p] # "idle"
  PROVE  /\ Typed /\ req[p] \in Req /\ Knows(pc[p], req[p])
         /\ req[p].r \in Requests /\ authn[req[p].r] \in Authn /\ RowFits(authn[req[p].r])
         /\ req[p].user # None => req[p].user \in Users /\ req[p].auth \in Times
         /\ req[p].r # None
<1>1. Typed /\ req[p] \in Req /\ Knows(pc[p], req[p])
  BY DEF IInv, Typed, CallsKnow
<1>2. req[p].r \in Requests /\ authn[req[p].r] # None
  BY <1>1 DEF Knows
<1>3. authn[req[p].r] \in Authn /\ RowFits(authn[req[p].r])
  BY <1>2 DEF IInv, Typed, RequestsFit, AuthnFits
<1> QED  BY <1>1, <1>2, <1>3 DEF Knows, Req

\* An error goes into a row that fits as it did.
LEMMA FailsKnows ==
  ASSUME NEW q \in Req, NEW as \in Authn, RowFits(as), q.r \in Requests, authn[q.r] # None,
         q.user # None => q.auth \in Times,
         Same(as, authn[q.r]), NEW error \in Markers
  PROVE  Fails(q, as, error) \in Req /\ Knows("save", Fails(q, as, error))
<1> DEFINE bs == [as EXCEPT !.error = error]
           f == [q EXCEPT !.as = bs, !.says = "error"]
<1>1. /\ bs \in Authn /\ bs.error = error /\ Same(bs, authn[q.r])
      /\ bs.subject = as.subject /\ bs.auth = as.auth /\ bs.at = as.at
      /\ bs.how = as.how /\ bs.created = as.created
  BY DEF Authn, Same
<1> HIDE DEF bs
<1>2. RowFits(bs)
  BY <1>1 DEF RowFits
<1>3. /\ f \in Req /\ f.as = bs /\ f.says = "error" /\ f.r = q.r /\ f.user = q.user /\ f.auth = q.auth
  BY <1>1 DEF Req
<1>4. f # NoReq
  BY <1>3 DEF NoReq
<1>5. error # None
  OBVIOUS
<1>6. Fails(q, as, error) = f
  BY DEF Fails, bs
<1> HIDE DEF f
<1>7. Knows("save", f)
  BY <1>1, <1>2, <1>3, <1>4, <1>5 DEF Knows
<1> QED  BY <1>3, <1>6, <1>7

\* A row that is tied publishes the sign-in that was checked.
LEMMA TiedRow ==
  ASSUME NEW q \in Req, q.as \in Authn, q.r \in Requests, authn[q.r] # None, Checked(q),
         Same(q.as, authn[q.r])
  PROVE  /\ Ties(q) \in Req /\ Ties(q) # NoReq
         /\ Ties(q).r = q.r /\ Ties(q).user = q.user /\ Ties(q).auth = q.auth /\ Ties(q).says = q.user
         /\ Ties(q).as \in Authn /\ RowFits(Ties(q).as) /\ Same(Ties(q).as, authn[q.r])
         /\ Ties(q).as.subject = q.user /\ Ties(q).as.error = None
         /\ Ties(q).as.client = q.as.client /\ Ties(q).as.scopes = q.as.scopes
<1> DEFINE bs == [q.as EXCEPT !.subject = q.user, !.auth = q.auth, !.at = q.at, !.error = None]
           f == [q EXCEPT !.as = bs, !.says = q.user]
<1>1. q.user \in Users /\ q.auth \in Times /\ q.at \in Times
  BY DEF Checked
<1>2. /\ bs \in Authn /\ bs.error = None /\ Same(bs, authn[q.r])
      /\ bs.subject = q.user /\ bs.auth = q.auth /\ bs.at = q.at
      /\ bs.how = q.as.how /\ bs.created = q.as.created
      /\ bs.client = q.as.client /\ bs.scopes = q.as.scopes
  BY <1>1 DEF Authn, Same
<1> HIDE DEF bs
<1>3. RowFits(bs)
  BY <1>1, <1>2 DEF RowFits, Checked
<1>4. f \in Req /\ f.as = bs /\ f.says = q.user /\ f.r = q.r /\ f.user = q.user /\ f.auth = q.auth
  BY <1>1, <1>2 DEF Req
<1>5. f # NoReq
  BY <1>4 DEF NoReq
<1>6. Ties(q) = f
  BY DEF Ties, Completed, bs
<1> HIDE DEF f
<1> QED  BY <1>2, <1>3, <1>4, <1>5, <1>6

LEMMA TiesKnows ==
  ASSUME NEW q \in Req, q.as \in Authn, q.r \in Requests, authn[q.r] # None, Checked(q),
         Same(q.as, authn[q.r]), Consented(q.user, q.as.client, q.as.scopes)
  PROVE  Ties(q) \in Req /\ Knows("save", Ties(q))
  BY TiedRow DEF Knows, Checked

LEMMA FindRequestKeeps ==
  ASSUME IInv, NEW p \in Procs, FindRequest(p)
  PROVE  IInv'
<1> DEFINE q == req[p]
           as == authn[q.r]
<1>1. pc[p] = "find" /\ pc[p] # "idle"
  BY DEF FindRequest
<1>2. /\ Typed /\ q \in Req /\ q.r \in Requests /\ as \in Authn /\ RowFits(as) /\ as # None
      /\ q.user # None => q.user \in Users /\ q.auth \in Times
      /\ Same(as, as)
  BY <1>1, Going DEF Same
<1>3. CASE ~Interaction(as, q)
  <2> DEFINE f == [q EXCEPT !.as = as, !.at = now]
  <2>1. Go(p, "decide", f)
    BY <1>3 DEF FindRequest
  <2>2. /\ f \in Req /\ f.as = as /\ f.at = now /\ f.r = q.r /\ f.user = q.user /\ f.auth = q.auth
    BY <1>2 DEF Req, Typed
  <2>3. f # NoReq
    BY <1>2, <2>2 DEF NoReq
  <2>4. Checked(f)
    <3>1. q.user # None /\ (as.how.prompt = "login" => ~(q.auth < as.created)) /\ (as.how.aged => ~(now - q.auth > MaxAge))
      BY <1>3 DEF Interaction
    <3>2. as.created \in Times /\ now \in Times /\ q.auth \in Times /\ q.user \in Users
      BY <1>2, <3>1 DEF Authn, Typed
    <3> HIDE DEF f, as, q
    <3>3. \A x, y \in Times : (~(x < y) => x >= y) /\ (~(x - y > MaxAge) => x - y <= MaxAge)
      OBVIOUS
    <3>4. (as.how.prompt = "login" => q.auth >= as.created) /\ (as.how.aged => now - q.auth <= MaxAge)
      BY <3>1, <3>2, <3>3
    <3> QED  BY <2>2, <3>2, <3>4 DEF Checked
  <2> HIDE DEF f
  <2>5. Knows("decide", f)
    BY <1>2, <2>2, <2>3, <2>4 DEF Knows
  <2>6. "decide" \in PCs
    BY DEF PCs
  <2> QED  BY <2>1, <2>2, <2>5, <2>6, GoKeeps
<1>4. CASE Interaction(as, q) /\ Answer(p)
  BY <1>4, AnswerKeeps
<1>5. CASE Go(p, "save", Fails(q, as, "login_required"))
  <2>1. Fails(q, as, "login_required") \in Req /\ Knows("save", Fails(q, as, "login_required"))
    BY <1>2, FailsKnows DEF Markers
  <2>2. "save" \in PCs
    BY DEF PCs
  <2> QED  BY <1>5, <2>1, <2>2, GoKeeps
<1> QED  BY <1>3, <1>4, <1>5 DEF FindRequest

LEMMA DecideConsentKeeps ==
  ASSUME IInv, NEW p \in Procs, DecideConsent(p)
  PROVE  IInv'
<1> DEFINE q == req[p]
           asked == Asked(q)
           w == <<q.user, q.as.client>>
<1>1. pc[p] = "decide" /\ pc[p] # "idle"
  BY DEF DecideConsent
<1>2. /\ Typed /\ q \in Req /\ q.r \in Requests /\ Knows("decide", q) /\ authn[q.r] # None
      /\ q.user # None => q.auth \in Times
  BY <1>1, Going DEF Knows
<1>3. q.as \in Authn /\ RowFits(q.as) /\ Same(q.as, authn[q.r]) /\ Checked(q)
  BY <1>2 DEF Knows
<1>4. q.as.client \in FirstParty \/ q.as.scopes \subseteq asked \cup Held(w)
  BY DEF Asked
<1>5. asked \in SUBSET Scopes
  BY <1>3 DEF Asked, Authn
<1>6. "save" \in PCs /\ "approve" \in PCs
  BY DEF PCs
<1>7. CASE Answer(p)
  BY <1>7, AnswerKeeps
<1>8. CASE asked = {} /\ Go(p, "save", Ties(q))
  <2>1. Consented(q.user, q.as.client, q.as.scopes)
    BY <1>4, <1>8 DEF Consented
  <2>2. Ties(q) \in Req /\ Knows("save", Ties(q))
    BY <1>2, <1>3, <2>1, TiesKnows
  <2> QED  BY <1>6, <1>8, <2>2, GoKeeps
<1>9. CASE Go(p, "approve", [q EXCEPT !.asked = asked])
  <2> HIDE DEF asked
  <2> DEFINE f == [q EXCEPT !.asked = asked]
  <2>1. /\ f \in Req /\ f.asked = asked /\ f.as = q.as /\ f.r = q.r
        /\ f.user = q.user /\ f.auth = q.auth /\ f.at = q.at
    BY <1>2, <1>5 DEF Req
  <2>2. f # NoReq /\ Go(p, "approve", f)
    BY <1>2, <1>9, <2>1 DEF NoReq
  <2> HIDE DEF f
  <2>3. Checked(f) /\ Consented(f.user, f.as.client, f.as.scopes \ f.asked)
    BY <1>3, <1>4, <2>1 DEF Checked, Consented
  <2>4. Knows("approve", f)
    BY <1>2, <1>3, <2>1, <2>2, <2>3 DEF Knows
  <2> QED  BY <1>6, <2>1, <2>2, <2>4, GoKeeps
<1>10. CASE \E error \in Markers : Go(p, "save", Fails(q, q.as, error))
  <2>1. PICK error \in Markers : Go(p, "save", Fails(q, q.as, error))
    BY <1>10
  <2>2. Fails(q, q.as, error) \in Req /\ Knows("save", Fails(q, q.as, error))
    BY <1>2, <1>3, FailsKnows
  <2> QED  BY <1>6, <2>1, <2>2, GoKeeps
<1> QED
  <2>1. "access_denied" \in Markers /\ "consent_required" \in Markers
    BY DEF Markers
  <2> HIDE DEF asked
  <2> QED  BY <2>1, <1>7, <1>8, <1>9, <1>10 DEF DecideConsent, asked

LEMMA ReadConsentKeeps ==
  ASSUME IInv, NEW p \in Procs, ReadConsent(p)
  PROVE  IInv'
<1> DEFINE q == req[p]
           held == Held(<<q.user, q.as.client>>)
<1>1. pc[p] = "approve" /\ pc[p] # "idle"
  BY DEF ReadConsent
<1>2. Typed /\ q \in Req /\ q.r \in Requests /\ Knows("approve", q) /\ authn[q.r] # None
  BY <1>1, Going
<1>3. /\ q.as \in Authn /\ RowFits(q.as) /\ Same(q.as, authn[q.r]) /\ Checked(q)
      /\ Consented(q.user, q.as.client, q.as.scopes \ q.asked)
  BY <1>2 DEF Knows
<1>4. held \in SUBSET Scopes
  BY <1>2, <1>3 DEF Held, Typed, Checked, Authn
<1>5. CASE Answer(p)
  BY <1>5, AnswerKeeps
<1>6. CASE Go(p, "union", [q EXCEPT !.held = held])
  <2>1. <<q.user, q.as.client>> \in raced \/ q.as.client \in FirstParty \/ q.as.scopes \subseteq held \cup q.asked
    BY <1>3 DEF Consented
  <2> HIDE DEF held
  <2> DEFINE f == [q EXCEPT !.held = held]
  <2>2. /\ f \in Req /\ f.held = held /\ f.as = q.as /\ f.r = q.r /\ f.asked = q.asked
        /\ f.user = q.user /\ f.auth = q.auth /\ f.at = q.at
    BY <1>2, <1>4 DEF Req
  <2>3. f # NoReq /\ Go(p, "union", f)
    BY <1>2, <1>6, <2>2 DEF NoReq
  <2> HIDE DEF f
  <2>4. Checked(f) /\ (f.user # None => f.auth \in Times)
    BY <1>3, <2>2 DEF Checked
  <2>5. Knows("union", f)
    BY <1>2, <1>3, <2>1, <2>2, <2>3, <2>4 DEF Knows
  <2>6. "union" \in PCs
    BY DEF PCs
  <2> QED  BY <2>2, <2>3, <2>5, <2>6, GoKeeps
<1> QED  BY <1>5, <1>6 DEF ReadConsent

\* Consents that only grow leave every row and every call as consented.
LEMMA ConsentGrows ==
  ASSUME IInv, UNCHANGED <<authn, ended, grant, verdict>>,
         \A w \in Pairs : w \in raced => w \in raced',
         \A w \in Pairs : w \notin raced' => Held(w) \subseteq Held(w)'
  PROVE  /\ RequestsFit' /\ GrantsAreConsented' /\ AnswerStands'
         /\ \A u \in Users, c \in Clients : \A scopes : Consented(u, c, scopes) => Consented(u, c, scopes)'
<1>1. \A u \in Users, c \in Clients : \A scopes : Consented(u, c, scopes) => Consented(u, c, scopes)'
  BY DEF Consented
<1>2. RequestsFit'
  <2> SUFFICES ASSUME NEW r \in Requests
               PROVE  AuthnFits(r)' /\ GrantFits(r)'
    BY DEF RequestsFit
  <2>1. AuthnFits(r) /\ GrantFits(r)
    BY DEF IInv, RequestsFit
  <2>2. authn[r] # None /\ authn[r].subject # None => authn[r].subject \in Users /\ authn[r].client \in Clients
    BY DEF IInv, Typed, Authn
  <2> QED  BY <1>1, <2>1, <2>2 DEF AuthnFits, GrantFits
<1>3. GrantsAreConsented'
  BY DEF IInv, GrantsAreConsented, Granted
<1>4. AnswerStands'
  BY DEF IInv, AnswerStands
<1> QED  BY <1>1, <1>2, <1>3, <1>4

\* The consent that is written holds what was held and what was asked about,
\* or the overlap is known.
LEMMA SaveConsentKeeps ==
  ASSUME IInv, NEW p \in Procs, SaveConsent(p)
  PROVE  IInv'
<1>1. pc[p] = "union" /\ pc[p] # "idle"
  BY DEF SaveConsent
<1>2. Typed /\ req[p] \in Req /\ req[p].r \in Requests /\ Knows("union", req[p]) /\ authn[req[p].r] # None
  BY <1>1, Going
<1>3. PICK q \in Req : q = req[p]
  BY <1>2
<1>4. PICK w : w = <<q.user, q.as.client>>
  OBVIOUS
<1>5. /\ consent' = [consent EXCEPT ![w] = Union(q)]
      /\ raced' = IF Held(w) # q.held THEN raced \cup {w} ELSE raced
      /\ Move(p, "save", Ties(q))
      /\ UNCHANGED <<authn, ended, grant, verdict>>
  BY <1>3, <1>4 DEF SaveConsent, requests
<1>6. /\ q.as \in Authn /\ RowFits(q.as) /\ Same(q.as, authn[q.r]) /\ Checked(q)
      /\ w \in raced \/ q.as.client \in FirstParty \/ q.as.scopes \subseteq q.held \cup q.asked
  BY <1>2, <1>3, <1>4 DEF Knows
<1>7. w \in Pairs /\ q.held \cup q.asked \in SUBSET Scopes /\ q.user \in Users /\ q.as.client \in Clients
  BY <1>2, <1>6, <1>3, <1>4 DEF Checked, Authn, Req
<1>8. /\ consent' \in [Pairs -> (SUBSET Scopes) \cup {None}]
      /\ consent'[w] = q.held \cup q.asked
      /\ \A x \in Pairs \ {w} : consent'[x] = consent[x]
  BY <1>5, <1>2, <1>7 DEF Typed, Union
<1>9. Held(w)' = q.held \cup q.asked /\ \A x \in Pairs \ {w} : Held(x)' = Held(x)
  BY <1>7, <1>8 DEF Held
<1>10. /\ \A x \in Pairs : x \in raced => x \in raced'
      /\ \A x \in Pairs : x \notin raced' => Held(x) \subseteq Held(x)'
      /\ raced' \subseteq Pairs
  BY <1>5, <1>2, <1>7, <1>9 DEF Typed
<1>11. /\ RequestsFit' /\ GrantsAreConsented' /\ AnswerStands'
      /\ \A u \in Users, c \in Clients : \A scopes : Consented(u, c, scopes) => Consented(u, c, scopes)'
  BY <1>5, <1>10, ConsentGrows
<1>12. /\ Ties(q) \in Req /\ Ties(q) # NoReq
      /\ Ties(q).r = q.r /\ Ties(q).user = q.user /\ Ties(q).auth = q.auth /\ Ties(q).says = q.user
      /\ Ties(q).as \in Authn /\ RowFits(Ties(q).as) /\ Same(Ties(q).as, authn[q.r])
      /\ Ties(q).as.subject = q.user /\ Ties(q).as.error = None
      /\ Ties(q).as.client = q.as.client /\ Ties(q).as.scopes = q.as.scopes
  BY <1>2, <1>6, <1>3, TiedRow
<1>13. /\ pc' \in [Procs -> PCs] /\ req' \in [Procs -> Req]
       /\ pc'[p] = "save" /\ req'[p] = Ties(q)
       /\ \A x \in Procs \ {p} : pc'[x] = pc[x] /\ req'[x] = req[x]
       /\ UNCHANGED <<now, enabled, retired, provider, clients, auth>>
  BY <1>5, <1>2, <1>12, Moved DEF PCs
<1>14. Typed'
  BY <1>5, <1>2, <1>8, <1>10, <1>13 DEF Typed
<1>15. ProviderFits'
  BY <1>13 DEF IInv, ProviderFits
<1>16. Consented(q.user, q.as.client, q.as.scopes)'
  BY <1>6, <1>7, <1>9, <1>10, <1>4 DEF Consented
<1>17. CallsKnow'
  <2> SUFFICES ASSUME NEW x \in Procs
               PROVE  Knows(pc[x], req[x])'
    BY DEF CallsKnow
  <2>1. CASE x = p
    <3>1. q.auth \in Times
      BY <1>6 DEF Checked
    <3> QED  BY <2>1, <3>1, <1>3, <1>5, <1>2, <1>7, <1>12, <1>13, <1>16 DEF Knows
  <2>2. CASE x # p
    <3>1. Knows(pc[x], req[x]) /\ pc'[x] = pc[x] /\ req'[x] = req[x] /\ req[x] \in Req
      BY <2>2, <1>2, <1>13 DEF IInv, CallsKnow, Typed
    <3>2. pc[x] \in {"approve", "union", "save"} => req[x].as.client \in Clients
      BY <3>1 DEF Knows, Authn
    <3>3. pc[x] \in {"approve", "union"} => req[x].user \in Users
      BY <3>1 DEF Knows, Checked
    <3> QED  BY <1>5, <1>10, <1>11, <3>1, <3>2, <3>3 DEF Knows
  <2> QED  BY <2>1, <2>2
<1> QED  BY <1>11, <1>14, <1>15, <1>17 DEF IInv
\* A call saves its answer over whatever another saved, and the row says what
\* the answer was.
LEMMA SaveRequestKeeps ==
  ASSUME IInv, NEW p \in Procs, SaveRequest(p)
  PROVE  IInv'
<1>1. pc[p] = "save" /\ pc[p] # "idle"
  BY DEF SaveRequest
<1>2. Typed /\ req[p] \in Req /\ req[p].r \in Requests /\ Knows("save", req[p])
  BY <1>1, Going
<1>3. PICK q \in Req : q = req[p]
  BY <1>2
<1>4. /\ q.as \in Authn /\ q.as # None /\ RowFits(q.as) /\ Same(q.as, authn[q.r])
      /\ \/ q.says = "error" /\ q.as.error # None
         \/ /\ q.says \in Users /\ q.as.subject = q.says /\ q.as.error = None
            /\ Consented(q.as.subject, q.as.client, q.as.scopes)
  BY <1>2, <1>3 DEF Knows
<1>5. /\ authn' = [authn EXCEPT ![q.r] = q.as]
      /\ verdict' = [verdict EXCEPT ![q.r] = IF ended[q.r] = "open" THEN q.says ELSE @]
      /\ Move(p, "idle", NoReq)
      /\ UNCHANGED <<ended, grant, consent, raced>>
  BY <1>3 DEF SaveRequest, consents
<1>6. /\ pc' \in [Procs -> PCs] /\ req' \in [Procs -> Req]
      /\ pc'[p] = "idle" /\ req'[p] = NoReq
      /\ \A x \in Procs \ {p} : pc'[x] = pc[x] /\ req'[x] = req[x]
      /\ UNCHANGED <<now, enabled, retired, provider, clients, auth>>
  BY <1>2, <1>5, NothingKnown, Moved
<1>7. /\ authn' \in [Requests -> Authn \cup {None}]
      /\ authn'[q.r] = q.as
      /\ \A r \in Requests \ {q.r} : authn'[r] = authn[r]
  BY <1>2, <1>3, <1>4, <1>5 DEF Typed
<1>8. /\ verdict' \in [Requests -> Users \cup {None, "error"}]
      /\ verdict'[q.r] = IF ended[q.r] = "open" THEN q.says ELSE verdict[q.r]
      /\ \A r \in Requests \ {q.r} : verdict'[r] = verdict[r]
  BY <1>2, <1>3, <1>4, <1>5 DEF Typed
<1>9. Typed'
  BY <1>2, <1>5, <1>6, <1>7, <1>8 DEF Typed
<1>10. ProviderFits'
  BY <1>6 DEF IInv, ProviderFits
<1>11. RequestsFit'
  <2> SUFFICES ASSUME NEW r \in Requests
               PROVE  AuthnFits(r)' /\ GrantFits(r)'
    BY DEF RequestsFit
  <2>1. AuthnFits(r) /\ GrantFits(r)
    BY DEF IInv, RequestsFit
  <2>2. GrantFits(r)'
    BY <1>5, <2>1 DEF GrantFits
  <2>3. CASE r = q.r
    BY <1>4, <1>5, <1>7, <1>8, <2>2, <2>3 DEF AuthnFits, Consented, Held
  <2>4. CASE r # q.r
    <3>1. authn'[r] = authn[r] /\ verdict'[r] = verdict[r]
      BY <1>7, <1>8, <2>4
    <3> QED  BY <1>5, <2>1, <2>2, <3>1 DEF AuthnFits, Consented, Held
  <2> QED  BY <2>2, <2>3, <2>4
<1>12. \A r \in Requests : authn[r] # None => authn'[r] # None /\ Same(authn'[r], authn[r])
  BY <1>4, <1>7 DEF Same
<1>13. CallsKnow'
  <2> SUFFICES ASSUME NEW x \in Procs
               PROVE  Knows(pc[x], req[x])'
    BY DEF CallsKnow
  <2>1. CASE x = p
    BY <2>1, <1>6 DEF Knows, NoReq
  <2>2. CASE x # p
    <3>1. Knows(pc[x], req[x]) /\ pc'[x] = pc[x] /\ req'[x] = req[x]
      BY <2>2, <1>6 DEF IInv, CallsKnow
    <3>2. pc[x] \in {"decide", "approve", "union", "save"} => Same(req[x].as, authn'[req[x].r])
      BY <1>12, <3>1 DEF Knows, Same
    <3> QED  BY <1>5, <1>12, <3>1, <3>2 DEF Knows, Consented, Held
  <2> QED  BY <2>1, <2>2
<1>14. GrantsAreConsented'
  BY <1>5 DEF IInv, GrantsAreConsented, Granted, Held
<1>15. AnswerStands'
  <2>1. \A r \in Requests : ended[r] # "open" => verdict'[r] = verdict[r]
    BY <1>8
  <2>2. \A r \in Requests : grant[r] # None => ended[r] = "grant"
    BY DEF IInv, RequestsFit, GrantFits
  <2> QED  BY <1>5, <2>1, <2>2 DEF IInv, AnswerStands
<1> QED  BY <1>9, <1>10, <1>11, <1>13, <1>14, <1>15 DEF IInv

\* What a disconnect cannot reach is known as raced.
LEMMA DisconnectKeeps ==
  ASSUME IInv, NEW w \in Pairs, Disconnect(w)
  PROVE  IInv'
<1>1. /\ consent' = [consent EXCEPT ![w] = None]
      /\ grant' = [r \in Requests |-> IF Granted(r, w) THEN None ELSE grant[r]]
      /\ raced' = IF UnderWay(w) THEN raced \cup {w} ELSE raced
      /\ UNCHANGED <<now, enabled, retired, provider, clients, auth, authn, ended, verdict, pc, req>>
  BY DEF Disconnect, DeleteForSubject, tenant
<1>2. Typed
  BY DEF IInv
<1>3. /\ consent' \in [Pairs -> (SUBSET Scopes) \cup {None}]
      /\ \A v \in Pairs \ {w} : Held(v)' = Held(v)
      /\ raced \subseteq raced' /\ raced' \subseteq Pairs
  BY <1>1, <1>2 DEF Typed, Held
<1>4. /\ grant' \in [Requests -> Authn \cup {None}]
      /\ \A r \in Requests : grant'[r] # None => grant'[r] = grant[r] /\ ~Granted(r, w)
      /\ \A r \in Requests : grant[r] = None => grant'[r] = None
  BY <1>1, <1>2 DEF Typed
<1>5. Typed'
  BY <1>1, <1>2, <1>3, <1>4 DEF Typed
<1>6. ProviderFits'
  BY <1>1 DEF IInv, ProviderFits
<1>7. ASSUME NEW u \in Users, NEW c \in Clients, NEW S, Consented(u, c, S), <<u, c>> = w => UnderWay(w)
      PROVE  Consented(u, c, S)'
  <2>1. CASE <<u, c>> = w
    BY <1>1, <1>7, <2>1 DEF Consented
  <2>2. CASE <<u, c>> # w
    BY <1>3, <1>7, <2>2 DEF Consented
  <2> QED  BY <2>1, <2>2
<1>8. RequestsFit'
  <2> SUFFICES ASSUME NEW r \in Requests
               PROVE  AuthnFits(r)' /\ GrantFits(r)'
    BY DEF RequestsFit
  <2>1. AuthnFits(r) /\ GrantFits(r)
    BY DEF IInv, RequestsFit
  <2>2. GrantFits(r)'
    BY <1>1, <1>4, <2>1 DEF GrantFits
  <2>3. CASE authn[r] = None
    BY <1>1, <1>4, <2>1, <2>2, <2>3 DEF AuthnFits
  <2>4. CASE authn[r] # None
    <3>1. authn[r].client \in Clients /\ authn[r].subject \in Users \cup {None}
      BY <1>2, <2>4 DEF Typed, Authn
    <3>2. ended[r] = "open" /\ <<authn[r].subject, authn[r].client>> = w => UnderWay(w)
      BY <2>4 DEF UnderWay
    <3>3. ended[r] = "open" /\ authn[r].error = None /\ authn[r].subject # None =>
            Consented(authn[r].subject, authn[r].client, authn[r].scopes)'
      <4> SUFFICES ASSUME ended[r] = "open", authn[r].error = None, authn[r].subject # None
                   PROVE  Consented(authn[r].subject, authn[r].client, authn[r].scopes)'
        OBVIOUS
      <4>1. PICK u, c, S : u \in Users /\ c \in Clients /\ u = authn[r].subject /\ c = authn[r].client /\ S = authn[r].scopes
        BY <3>1
      <4>2. Consented(u, c, S) /\ (<<u, c>> = w => UnderWay(w))
        BY <2>1, <2>4, <3>2, <4>1 DEF AuthnFits
      <4>3. Consented(u, c, S)'
        BY <1>7, <4>1, <4>2
      <4> QED  BY <1>1, <4>1, <4>3
    <3> QED  BY <1>1, <2>1, <2>2, <2>4, <3>3 DEF AuthnFits
  <2> QED  BY <2>2, <2>3, <2>4
<1>9. CallsKnow'
  <2> SUFFICES ASSUME NEW x \in Procs
               PROVE  Knows(pc[x], req[x])'
    BY DEF CallsKnow
  <2>1. Knows(pc[x], req[x]) /\ pc'[x] = pc[x] /\ req'[x] = req[x] /\ req[x] \in Req
    BY <1>1, <1>2 DEF IInv, CallsKnow, Typed
  <2>2. CASE pc[x] \notin {"approve", "union", "save"}
    BY <1>1, <2>1, <2>2 DEF Knows
  <2>3. CASE pc[x] \in {"approve", "union", "save"}
    <3>1. /\ authn[req[x].r] # None /\ req[x].as.client = authn[req[x].r].client
          /\ req[x].as.client \in Clients
      BY <2>1, <2>3 DEF Knows, Same, Authn
    <3>2. PICK u, c, S : u = req[x].user /\ c = req[x].as.client /\ S = req[x].as.scopes /\ c \in Clients
      BY <3>1
    <3>3. <<u, c>> = w => UnderWay(w)
      BY <2>3, <3>1, <3>2 DEF UnderWay
    <3>4. pc[x] = "union" => (u \in Users /\ (<<u, c>> \in raced => <<u, c>> \in raced'))
      BY <1>3, <2>1, <3>2 DEF Knows, Checked
    <3>5. pc[x] = "approve" => u \in Users
      BY <2>1, <3>2 DEF Knows, Checked
    <3>6. pc[x] = "approve" => Consented(u, c, S \ req[x].asked)'
      <4> SUFFICES ASSUME pc[x] = "approve" PROVE Consented(u, c, S \ req[x].asked)'
        OBVIOUS
      <4>1. PICK T : T = S \ req[x].asked
        OBVIOUS
      <4>2. Consented(u, c, T)
        BY <2>1, <3>2, <4>1 DEF Knows
      <4>3. Consented(u, c, T)'
        BY <1>7, <3>2, <3>3, <3>5, <4>2
      <4> QED  BY <2>1, <4>1, <4>3
    <3>7. pc[x] = "save" /\ u \in Users /\ Consented(u, c, S) => Consented(u, c, S)'
      BY <1>7, <3>2, <3>3
    <3> QED  BY <1>1, <2>1, <2>3, <3>1, <3>2, <3>4, <3>6, <3>7 DEF Knows
  <2> QED  BY <2>2, <2>3
<1>10. GrantsAreConsented'
  <2> SUFFICES ASSUME NEW v \in Pairs \ raced', NEW r \in Requests, Granted(r, v)', v[2] \notin FirstParty
               PROVE  grant'[r].scopes \subseteq Held(v)'
    BY DEF GrantsAreConsented
  <2>1. grant'[r] = grant[r] /\ ~Granted(r, w) /\ Granted(r, v)
    BY <1>4 DEF Granted
  <2>2. v # w
    BY <2>1
  <2> QED  BY <1>3, <2>1, <2>2 DEF IInv, GrantsAreConsented
<1>11. AnswerStands'
  BY <1>1, <1>4 DEF IInv, AnswerStands
<1> QED  BY <1>5, <1>6, <1>8, <1>9, <1>10, <1>11 DEF IInv

-----------------------------------------------------------------------------
(* The theorems.                                                           *)

LEMMA NextHolds == IInv /\ [Next]_vars => IInv'
<1> SUFFICES ASSUME IInv, [Next]_vars
             PROVE  IInv'
  OBVIOUS
<1>1. CASE Tick
  BY <1>1, TickKeeps
<1>2. CASE \E r \in Requests : Begin(r) \/ Resume(r)
  BY <1>2, BeginKeeps, ResumeKeeps
<1>3. CASE \E w \in Pairs : Disconnect(w)
  BY <1>3, DisconnectKeeps
<1>4. CASE \E s \in Scopes : SwitchScope(s)
  BY <1>4, SwitchScopeKeeps
<1>5. CASE \/ \E c \in Clients : DeleteClient(c)
           \/ \E u \in Users : SignIn(u) \/ SignOut(u)
           \/ UNCHANGED vars
  BY <1>5, OthersKeep
<1>6. ASSUME NEW p \in Procs,
             \/ Finalize(p) \/ FindRequest(p) \/ DecideConsent(p) \/ ReadConsent(p)
             \/ SaveConsent(p) \/ SaveRequest(p) \/ Abandon(p)
      PROVE  IInv'
  <2>1. CASE Abandon(p)
    BY <2>1, AnswerKeeps DEF Abandon
  <2> QED
    BY <1>6, <2>1, FinalizeKeeps, FindRequestKeeps, DecideConsentKeeps, ReadConsentKeeps,
       SaveConsentKeeps, SaveRequestKeeps
<1> QED  BY <1>1, <1>2, <1>3, <1>4, <1>5, <1>6 DEF Next

LEMMA Invariance == Spec => []IInv
  BY InitHolds, NextHolds, PTL DEF Spec

\* The type invariant of the authorization requests (oidc/service.go and
\* storage.go): a row with a subject carries the sign-in it publishes.
THEOREM AuthorizationTyped == Spec => []TypeOK
<1>1. IInv => TypeOK
  <2> SUFFICES ASSUME IInv
               PROVE  TypeOK
    OBVIOUS
  <2>1. \A r \in Requests : authn[r] # None /\ authn[r].subject # None => None \notin {authn[r].auth, authn[r].at}
    BY DEF IInv, RequestsFit, AuthnFits, RowFits
  <2>2. \A p \in Procs :
          /\ pc[p] \in PCs /\ (pc[p] = "idle" <=> req[p] = NoReq)
          /\ pc[p] \in {"decide", "approve", "union", "save"} => req[p].as \in Authn
    BY DEF IInv, Typed, CallsKnow, Knows
  <2> QED  BY <2>1, <2>2 DEF IInv, Typed, TypeOK
<1> QED  BY Invariance, <1>1, PTL

\* The grants a client holds of a person carry no scope outside the consent
\* that is remembered, unless an overlap lost it (Approve of consent/service.go,
\* Disconnect of the portal).
THEOREM ConsentCoversGrants == Spec => []GrantsAreConsented
<1>1. IInv => GrantsAreConsented
  BY DEF IInv
<1> QED  BY Invariance, <1>1, PTL

\* The engine answers what the last finalize said, on a sign-in the request
\* may rely on (completeLogin, interaction and the login policy).
THEOREM LastAnswerHolds == Spec => []AnswersHold
<1>1. IInv => AnswersHold
  <2> SUFFICES ASSUME IInv
               PROVE  AnswersHold
    OBVIOUS
  <2>1. AnswerStands
    BY DEF IInv
  <2>2. SignInFits
    BY DEF IInv, RequestsFit, GrantFits, RowFits, SignInFits
  <2> QED  BY <2>1, <2>2 DEF AnswersHold
<1> QED  BY Invariance, <1>1, PTL

\* A scope that is switched off is admitted for less than the TTL of a provider
\* longer (Handler of registry.go).
THEOREM ScopesAreRetired == Spec => ScopesRetire
<1> DEFINE Admits == \A r \in Requests : authn[r] = None /\ authn'[r] # None =>
              \A s \in authn'[r].scopes : retired[s] = None \/ now - retired[s] < ProviderTTL
<1>1. ASSUME IInv, [Next]_vars
      PROVE  [Admits]_vars
  <2>1. CASE \E r \in Requests : Begin(r)
    <3>1. PICK r \in Requests : Begin(r)
      BY <2>1
    <3>2. PICK c \in clients, scopes \in SUBSET Served.scopes, how \in Prompts :
            authn' = [authn EXCEPT ![r] =
                [client |-> c, scopes |-> scopes, how |-> how, created |-> now,
                 subject |-> None, auth |-> None, at |-> None, error |-> None]]
      BY <3>1 DEF Begin
    <3>3. authn'[r].scopes = scopes /\ \A x \in Requests \ {r} : authn'[x] = authn[x]
      BY <1>1, <3>2 DEF IInv, Typed
    <3>4. \A s \in scopes : retired[s] = None \/ now - retired[s] < ProviderTTL
      BY <1>1, <3>2, ServedFits DEF IInv
    <3> QED  BY <3>3, <3>4
  <2>2. CASE \E p \in Procs : SaveRequest(p)
    <3>1. PICK p \in Procs : SaveRequest(p)
      BY <2>2
    <3>2. authn' = [authn EXCEPT ![req[p].r] = req[p].as] /\ pc[p] # "idle"
      BY <3>1 DEF SaveRequest
    <3>3. authn[req[p].r] # None
      BY <1>1, <3>2 DEF IInv, CallsKnow, Knows
    <3>4. \A r \in Requests : authn[r] = None => authn'[r] = authn[r]
      BY <1>1, <3>2, <3>3 DEF IInv, Typed
    <3> QED  BY <3>4
  <2>3. CASE UNCHANGED authn
    BY <2>3
  <2>4. CASE \E p \in Procs : FindRequest(p) \/ DecideConsent(p) \/ ReadConsent(p)
    <3>1. UNCHANGED authn
      BY <2>4 DEF FindRequest, DecideConsent, ReadConsent, Go, Answer, requests
    <3> QED  BY <3>1
  <2>5. CASE \E p \in Procs : Finalize(p) \/ SaveConsent(p) \/ Abandon(p)
    <3>1. UNCHANGED authn
      BY <2>5 DEF Finalize, SaveConsent, Abandon, Go, Answer, requests
    <3> QED  BY <3>1
  <2>6. CASE \/ Tick \/ (\E r \in Requests : Resume(r)) \/ (\E w \in Pairs : Disconnect(w))
             \/ (\E s \in Scopes : SwitchScope(s)) \/ (\E c \in Clients : DeleteClient(c))
             \/ (\E u \in Users : SignIn(u) \/ SignOut(u))
    <3>1. UNCHANGED authn
      BY <2>6 DEF Tick, Resume, Disconnect, SwitchScope, DeleteClient, SignIn, SignOut, requests
    <3> QED  BY <3>1
  <2> QED  BY <1>1, <2>1, <2>2, <2>3, <2>4, <2>5, <2>6 DEF Next, vars
<1> QED  BY Invariance, <1>1, PTL DEF Spec, ScopesRetire

=============================================================================

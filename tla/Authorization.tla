---------------------------- MODULE Authorization ----------------------------
(***************************************************************************)
(* The authorization requests of a tenant, from the redirect of a client   *)
(* to the grant: the provider the tenant is served with, the finalize step *)
(* that ties a request to the signed-in person, the consents a person gave *)
(* to clients, and the portal that withdraws them.                         *)
(*                                                                         *)
(* A finalize reads and writes with statements of their own, so each is an *)
(* action; only the consent is written in a transaction, with its audit    *)
(* row. The row of a request is read once and written back whole.          *)
(*                                                                         *)
(* The go-oidc engine is external: it admits a request under the scopes of *)
(* the provider, asks the login policy when the browser comes back, and    *)
(* ends a request it got an answer about. What becomes of a grant is in    *)
(* Grants, and how a person signs in is in LoginSession.                   *)
(***************************************************************************)
EXTENDS Naturals, FiniteSets

CONSTANTS
    Procs,        \* finalize calls that run side by side
    Requests,     \* authorization requests
    Users,        \* people
    Clients,      \* relying parties
    FirstParty,   \* the clients of the operator, which ask nobody
    Scopes,       \* scope names
    None,         \* the absent value
    ProviderTTL,  \* providerTTL, 5 minutes in the source
    MaxAge,       \* the max_age of a request that carries one
    Prompts,      \* bound: the prompts that clients send
    MaxNow        \* bound: the clock stops here

ASSUME FirstPartyAssumption == FirstParty \subseteq Clients
ASSUME TimeAssumption == ProviderTTL \in Nat \ {0} /\ MaxAge \in Nat /\ MaxNow \in Nat
ASSUME PromptAssumption ==
    Prompts \subseteq [prompt : {"", "login", "consent", "none"}, aged : BOOLEAN]
ASSUME NoneAssumption ==
    None \notin Requests \cup Users \cup Clients \cup Nat /\ \A S \in SUBSET Scopes : S # None

Times == 0 .. MaxNow
Pairs == Users \X Clients

\* The errors a finalize leaves for the login policy to answer.
Markers == {"login_required", "consent_required", "access_denied"}

\* A row of oidc_sessions. error: the marker in its store; auth: the sign-in
\* its claims publish; at, which the row does not keep: when that was checked.
Authn == [client : Clients, scopes : SUBSET Scopes, how : Prompts, created : Times,
          subject : Users \cup {None}, auth : Times \cup {None}, at : Times \cup {None},
          error : Markers \cup {None}]

ASSUME NoRowAssumption == None \notin Authn \cup Markers

VARIABLES
    now,       \* the clock
    enabled,   \* oidc_scopes: the names that are switched on
    provider,  \* the entry of the registry
    clients,   \* clients that are not deleted
    auth,      \* when each person signed in, None while they are not
    authn,     \* oidc_sessions
    consent,   \* oidc_user_consents
    ended,     \* what the engine made of each request
    grant,     \* the grant it minted for it
    retired,   \* history: when each scope was switched off
    verdict,   \* history: the last answer a finalize saved for each request
    raced,     \* history: pairs whose consent an overlap lost
    pc,        \* where each finalize stands
    req        \* its local variables

tenant == <<enabled, retired, provider, clients>>
requests == <<authn, ended, grant, verdict>>
consents == <<consent, raced>>
vars == <<now, tenant, auth, requests, consents, pc, req>>

PCs == {"idle", "find", "decide", "approve", "union", "save"}

\* answer: what completeLogin and the consent endpoint send. at: when the
\* sign-in was checked. asked: the scopes Decide wants an answer about. held:
\* the consent Approve read. says: what the call is about to tell the engine.
Req == [r      : Requests \cup {None},
        user   : Users \cup {None},
        auth   : Times \cup {None},
        answer : {"nil", "yes", "no"},
        at     : Times \cup {None},
        as     : {None} \cup Authn,
        asked  : SUBSET Scopes,
        held   : SUBSET Scopes,
        says   : Users \cup {None, "error"}]

NoReq == [r |-> None, user |-> None, auth |-> None, answer |-> "nil", at |-> None,
          as |-> None, asked |-> {}, held |-> {}, says |-> None]

TypeOK ==
    /\ now \in Times
    /\ enabled \subseteq Scopes
    /\ provider = None \/ provider \in [scopes : SUBSET Scopes, expires : Nat]
    /\ clients \subseteq Clients
    /\ auth \in [Users -> Times \cup {None}]
    /\ \A r \in Requests :
        /\ authn[r] = None \/ authn[r] \in Authn
        /\ ended[r] \in {"open", "error", "grant"}
        /\ grant[r] = None \/ grant[r] \in Authn
        /\ authn[r] # None /\ authn[r].subject # None => None \notin {authn[r].auth, authn[r].at}
    /\ \A w \in Pairs : consent[w] = None \/ consent[w] \in SUBSET Scopes
    /\ raced \subseteq Pairs
    /\ \A p \in Procs :
        /\ pc[p] \in PCs /\ (pc[p] = "idle" <=> req[p] = NoReq)
        /\ pc[p] \in {"decide", "approve", "union", "save"} => req[p].as \in Authn

Init ==
    /\ now = 0
    /\ enabled = Scopes
    /\ provider = None
    /\ clients = Clients
    /\ auth = [u \in Users |-> None]
    /\ authn = [r \in Requests |-> None]
    /\ consent = [w \in Pairs |-> None]
    /\ ended = [r \in Requests |-> "open"]
    /\ grant = [r \in Requests |-> None]
    /\ retired = [s \in Scopes |-> None]
    /\ verdict = [r \in Requests |-> None]
    /\ raced = {}
    /\ pc = [p \in Procs |-> "idle"]
    /\ req = [p \in Procs |-> NoReq]

Move(p, where, locals) ==
    /\ pc' = [pc EXCEPT ![p] = where]
    /\ req' = [req EXCEPT ![p] = locals]
    /\ UNCHANGED <<now, tenant, auth>>

\* The call goes on, having written nothing.
Go(p, where, locals) == Move(p, where, locals) /\ UNCHANGED <<requests, consents>>

\* The call answers: an error, or a screen the person has to answer first.
Answer(p) == Go(p, "idle", NoReq)

\* The grants a client has of a person.
Granted(r, w) == grant[r] # None /\ grant[r].subject = w[1] /\ grant[r].client = w[2]

Held(w) == IF consent[w] = None THEN {} ELSE consent[w]

-----------------------------------------------------------------------------
(* The provider of the tenant, and the engine.                             *)

\* What the discovery document names, and a request may ask for.
Advertised == enabled

Fresh == [scopes |-> Advertised, expires |-> now + ProviderTTL]

\* Mutant of Served: an entry that is used is kept for another TTL.
ServedAndKept ==
    IF provider # None /\ now < provider.expires
    THEN [provider EXCEPT !.expires = now + ProviderTTL] ELSE Fresh

\* Handler: the cached provider until it expires, then a new one.
Served == IF provider # None /\ now < provider.expires THEN provider ELSE Fresh

\* The engine admits a request of a client, under the scopes it was built with.
Begin(r) ==
    /\ authn[r] = None
    /\ provider' = Served
    /\ \E c \in clients, scopes \in SUBSET Served.scopes, how \in Prompts :
        authn' = [authn EXCEPT ![r] =
            [client |-> c, scopes |-> scopes, how |-> how, created |-> now,
             subject |-> None, auth |-> None, at |-> None, error |-> None]]
    /\ UNCHANGED <<now, enabled, retired, clients, auth, ended, grant, verdict, consents, pc, req>>

\* LoginPolicy: an error marker, then a person, and otherwise the login page.
Policy(as) ==
    IF as.error # None THEN "error" ELSE IF as.subject # None THEN "grant" ELSE "open"

\* The browser comes back to the engine.
Resume(r) ==
    /\ authn[r] # None /\ ended[r] = "open"
    /\ authn[r].client \in clients
    /\ provider' = Served
    /\ ended' = [ended EXCEPT ![r] = Policy(authn[r])]
    /\ grant' = [grant EXCEPT ![r] = IF ended'[r] = "grant" THEN authn[r] ELSE None]
    /\ UNCHANGED <<now, enabled, retired, clients, auth, authn, verdict, consents, pc, req>>

-----------------------------------------------------------------------------
(* The finalize step.                                                      *)

\* completeLogin and consent: ResolveForFinalize names the person, or nobody. A
\* request that is not there answers an error.
Finalize(p) ==
    /\ pc[p] = "idle"
    /\ \E r \in Requests, u \in Users \cup {None}, answer \in {"nil", "yes", "no"} :
        /\ authn[r] # None /\ ended[r] = "open"
        /\ u # None => auth[u] # None
        /\ Go(p, "find", [NoReq EXCEPT !.r = r, !.user = u, !.answer = answer,
                             !.auth = IF u = None THEN None ELSE auth[u]])

\* Mutant of Interaction: an answered screen is past the checks of the sign-in.
InteractionOfScreen(as, q) ==
    \/ q.user = None
    \/ q.answer = "nil" /\ as.how.prompt = "login" /\ q.auth < as.created
    \/ q.answer = "nil" /\ as.how.aged /\ now - q.auth > MaxAge

\* interaction: why the person has to sign in first.
Interaction(as, q) ==
    \/ q.user = None
    \/ as.how.prompt = "login" /\ q.auth < as.created
    \/ as.how.aged /\ now - q.auth > MaxAge

Fails(q, as, error) == [q EXCEPT !.as = [as EXCEPT !.error = error], !.says = "error"]

\* Mutant of Completed: the claims of the sign-in are left out.
CompletedWithoutClaims(as, q) == [as EXCEPT !.subject = q.user, !.error = None]

\* The request is tied to the person, and carries no error any more.
Completed(as, q) ==
    [as EXCEPT !.subject = q.user, !.auth = q.auth, !.at = q.at, !.error = None]

Ties(q) == [q EXCEPT !.as = Completed(q.as, q), !.says = q.user]

\* find, and what needs no other read. A client that asked for no interaction
\* gets the error instead.
FindRequest(p) ==
    /\ pc[p] = "find"
    /\ LET q == req[p]
           as == authn[q.r]
       IN  IF ~Interaction(as, q) THEN Go(p, "decide", [q EXCEPT !.as = as, !.at = now])
           ELSE IF as.how.prompt # "none" THEN Answer(p)
           ELSE Go(p, "save", Fails(q, as, "login_required"))

\* Decide: the scopes to ask about.
Asked(q) ==
    IF q.as.how.prompt = "consent" THEN q.as.scopes
    ELSE IF q.as.client \in FirstParty THEN {}
    ELSE q.as.scopes \ Held(<<q.user, q.as.client>>)

\* consent. Denying writes an audit row only.
DecideConsent(p) ==
    /\ pc[p] = "decide"
    /\ LET q == req[p]
           asked == Asked(q)
       IN  IF q.as.how.prompt # "consent" /\ q.as.client \notin clients THEN Answer(p)
           ELSE IF asked = {} THEN Go(p, "save", Ties(q))
           ELSE IF q.answer = "yes" THEN Go(p, "approve", [q EXCEPT !.asked = asked])
           ELSE IF q.answer = "no"
                THEN Go(p, "save", Fails(q, q.as, "access_denied"))
           ELSE IF q.as.how.prompt = "none"
                THEN Go(p, "save", Fails(q, q.as, "consent_required"))
           ELSE Answer(p)

\* Approve reads the consent again, outside the transaction that writes it.
ReadConsent(p) ==
    /\ pc[p] = "approve"
    /\ LET q == req[p]
       IN  IF q.as.client \notin clients THEN Answer(p)
           ELSE Go(p, "union", [q EXCEPT !.held = Held(<<q.user, q.as.client>>)])

\* Mutant of Union: the scopes asked about replace the ones held.
UnionOfAsked(q) == q.asked

Union(q) == q.held \cup q.asked

SaveConsent(p) ==
    /\ pc[p] = "union"
    /\ LET q == req[p]
           w == <<q.user, q.as.client>>
       IN  /\ consent' = [consent EXCEPT ![w] = Union(q)]
           /\ raced' = IF Held(w) # q.held THEN raced \cup {w} ELSE raced
           /\ Move(p, "save", Ties(q))
           /\ UNCHANGED requests

\* save: the whole row, over whatever another finalize saved.
SaveRequest(p) ==
    /\ pc[p] = "save"
    /\ LET q == req[p]
       IN  /\ authn' = [authn EXCEPT ![q.r] = q.as]
           /\ verdict' = [verdict EXCEPT ![q.r] =
                 IF ended[q.r] = "open" THEN q.says ELSE @]
           /\ Move(p, "idle", NoReq)
           /\ UNCHANGED <<ended, grant, consents>>

\* A failed read, write or audit row: nothing of this step is kept.
Abandon(p) == pc[p] # "idle" /\ Answer(p)

-----------------------------------------------------------------------------
(* The portal, the console, and time.                                      *)

\* What a disconnect cannot reach: a finalize that runs, and a request that is
\* tied to the person and not resumed yet.
UnderWay(w) ==
    \/ \E p \in Procs : /\ pc[p] # "idle"
                        /\ req[p].user = w[1]
                        /\ authn[req[p].r] # None /\ authn[req[p].r].client = w[2]
    \/ \E r \in Requests : /\ authn[r] # None /\ ended[r] = "open"
                           /\ authn[r].subject = w[1] /\ authn[r].client = w[2]

\* DeleteForSubject: refused where there is none.
DeleteForSubject(w) == consent[w] # None /\ consent' = [consent EXCEPT ![w] = None]

\* Disconnect: the consent and the grants of the pair go in one transaction.
Disconnect(w) ==
    /\ DeleteForSubject(w)
    /\ grant' = [r \in Requests |-> IF Granted(r, w) THEN None ELSE grant[r]]
    /\ raced' = IF UnderWay(w) THEN raced \cup {w} ELSE raced
    /\ UNCHANGED <<now, tenant, auth, authn, ended, verdict, pc, req>>

\* UpdateScope switches a scope off or on.
SwitchScope(s) ==
    /\ enabled' = IF s \in enabled THEN enabled \ {s} ELSE enabled \cup {s}
    /\ retired' = [retired EXCEPT ![s] = IF s \in enabled THEN now ELSE None]
    /\ UNCHANGED <<now, provider, clients, auth, requests, consents, pc, req>>

DeleteClient(c) ==
    /\ c \in clients
    /\ clients' = clients \ {c}
    /\ UNCHANGED <<now, enabled, retired, provider, auth, requests, consents, pc, req>>

\* A sign-in proves a factor, or the session ends.
SignIn(u) ==
    /\ auth[u] # now
    /\ auth' = [auth EXCEPT ![u] = now]
    /\ UNCHANGED <<now, tenant, requests, consents, pc, req>>

SignOut(u) ==
    /\ auth[u] # None
    /\ auth' = [auth EXCEPT ![u] = None]
    /\ UNCHANGED <<now, tenant, requests, consents, pc, req>>

Tick ==
    /\ now < MaxNow
    /\ now' = now + 1
    /\ UNCHANGED <<tenant, auth, requests, consents, pc, req>>

Next ==
    \/ Tick
    \/ \E r \in Requests : Begin(r) \/ Resume(r)
    \/ \E w \in Pairs : Disconnect(w)
    \/ \E s \in Scopes : SwitchScope(s)
    \/ \E c \in Clients : DeleteClient(c)
    \/ \E u \in Users : SignIn(u) \/ SignOut(u)
    \/ \E p \in Procs :
        \/ Finalize(p)
        \/ FindRequest(p)
        \/ DecideConsent(p)
        \/ ReadConsent(p)
        \/ SaveConsent(p)
        \/ SaveRequest(p)
        \/ Abandon(p)

Spec == Init /\ [][Next]_vars

-----------------------------------------------------------------------------
(* Properties.                                                             *)

\* "One row holds the cumulative set of scopes": whatever a person approves,
\* denies and withdraws, in whichever order, the grants a client holds of them
\* carry no scope outside the remembered consent, so that the portal lists and
\* ends all of it. A consent that was written over unseen, or withdrawn under a
\* request that was under way, is exempt.
GrantsAreConsented ==
    \A w \in Pairs \ raced, r \in Requests :
        Granted(r, w) /\ w[2] \notin FirstParty => grant[r].scopes \subseteq Held(w)

\* The engine answers a client what the last finalize said, and about the person
\* it was about: neither an error of an earlier answer nor a person of an earlier
\* sign-in outlives it.
AnswerStands ==
    \A r \in Requests :
        /\ ended[r] = "error" => verdict[r] = "error"
        /\ grant[r] # None => verdict[r] = grant[r].subject

\* A grant is of a sign-in the client may rely on: no older than the request
\* when it asked for a new one, nor than max_age when the sign-in was checked.
SignInFits ==
    \A r \in Requests : grant[r] # None =>
        /\ grant[r].how.prompt = "login" => grant[r].auth >= grant[r].created
        /\ grant[r].how.aged => grant[r].at - grant[r].auth <= MaxAge

\* What the engine tells a client: the last answer, on a sign-in that fits it.
AnswersHold == AnswerStands /\ SignInFits

\* A scope that is switched off is admitted for less than the TTL of a provider
\* longer, however busy the tenant is.
ScopesRetire ==
    [][\A r \in Requests : authn[r] = None /\ authn'[r] # None =>
          \A s \in authn'[r].scopes : retired[s] = None \/ now - retired[s] < ProviderTTL]_vars

=============================================================================

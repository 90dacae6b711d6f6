------------------------------- MODULE Grants -------------------------------
(***************************************************************************)
(* The grants of one tenant: what a client received from one sign-in, the  *)
(* authorization code and the refresh token that name it, and the digests  *)
(* of the refresh tokens that rotations superseded.                        *)
(*                                                                         *)
(* The token and the logout endpoint run a request inside one transaction, *)
(* and so do the revocations of the console and the portal. Their plain    *)
(* reads see the snapshot of the first one, so a request reads everything  *)
(* in one action; its writes land at the commit, and overwrite whatever    *)
(* was committed in between. The authorization and the revocation endpoint *)
(* run no transaction: each of their statements is an action.              *)
(*                                                                         *)
(* Audit rows and access tokens are left out. The go-oidc engine is        *)
(* external: what it does with a grant it read is taken from the comments, *)
(* the tests and the store functions that serve it.                        *)
(***************************************************************************)
EXTENDS Naturals, FiniteSets

CONSTANTS
    Procs,      \* requests that run side by side
    Grants,     \* grant ids
    Tokens,     \* refresh tokens
    Sessions,   \* login sessions
    Users,      \* people
    Clients,    \* relying parties
    None,       \* the absent value: no row, no token
    Lifetime,   \* refresh_token_lifetime_secs
    PruneBatch, \* supersededPruneBatch, 200 in the source
    MaxNow      \* bound: the clock stops here

ASSUME NoneAssumption == None \notin Procs \cup Grants \cup Tokens
ASSUME ClockAssumption == Lifetime \in Nat /\ MaxNow \in Nat
ASSUME BatchAssumption == PruneBatch \in Nat \ {0}

\* A grant without a refresh token is one whose code nobody redeemed.
Row == [token : Tokens \cup {None}, revoked : BOOLEAN]

ASSUME NoRowAssumption == None \notin Row

VARIABLES
    owner,       \* the person of each login session, chosen once
    of,          \* the session and the client of each grant, chosen once
    grant,       \* oidc_grants, as committed
    superseded,  \* oidc_superseded_refresh_tokens: the grant of each digest
    session,     \* the row of each login session
    lock,        \* which transaction holds the lock of a grant row
    now,         \* the clock
    begun,       \* grant ids the engine minted
    made,        \* for which grant, against what and until when a token was minted
    handed,      \* refresh tokens a client was handed
    stale,       \* history: grants a write touched that did not see their row
    swept,       \* history: sessions whose sign-out committed
    dropped,     \* history: grants a delete took
    replayed,    \* history: grants whose superseded token was answered
    pc,          \* where each request stands
    req          \* the local variables of each request

fixed == <<owner, of>>
rows == <<grant, superseded, session>>
history == <<stale, swept, dropped, replayed>>
tokens == <<begun, made, handed>>
vars == <<fixed, rows, lock, now, tokens, history, pc, req>>

Ops == {"none", "authorize", "redeem", "refresh", "replay", "logout", "delete", "revoke"}

PCs == {"idle", "resume", "write", "commit", "reject", "look", "retain", "save", "forget"}

\* scope: the grants the request is about; ends: the sessions it ends; seen:
\* the rows of the scope as it read them; new: the refresh token it mints.
Req == [op    : Ops,
        scope : SUBSET Grants,
        ends  : SUBSET Sessions,
        seen  : [Grants -> Row \cup {None}],
        new   : Tokens \cup {None}]

Nothing == [g \in Grants |-> None]

NoReq == [op |-> "none", scope |-> {}, ends |-> {}, seen |-> Nothing, new |-> None]

\* by: the token that was exchanged, None for the authorization code.
Made == [grant : Grants, by : Tokens \cup {None}, expires : Nat]

ASSUME NoMadeAssumption == None \notin Made

TypeOK ==
    /\ owner \in [Sessions -> Users]
    /\ of \in [Grants -> [session : Sessions, client : Clients]]
    /\ grant \in [Grants -> Row \cup {None}]
    /\ superseded \in [Tokens -> Grants \cup {None}]
    /\ session \in [Sessions -> {"live", "over", "gone"}]
    /\ lock \in [Grants -> Procs \cup {None}]
    /\ now \in Nat
    /\ begun \subseteq Grants
    /\ made \in [Tokens -> Made \cup {None}]
    /\ handed \subseteq Tokens
    /\ stale \subseteq Grants
    /\ swept \subseteq Sessions
    /\ dropped \subseteq Grants
    /\ replayed \subseteq Grants
    /\ pc \in [Procs -> PCs]
    /\ req \in [Procs -> Req]

Init ==
    /\ owner \in [Sessions -> Users]
    /\ of \in [Grants -> [session : Sessions, client : Clients]]
    /\ grant = Nothing
    /\ superseded = [t \in Tokens |-> None]
    /\ session = [s \in Sessions |-> "live"]
    /\ lock = Nothing
    /\ now = 0
    /\ begun = {}
    /\ made = [t \in Tokens |-> None]
    /\ handed = {}
    /\ stale = {}
    /\ swept = {}
    /\ dropped = {}
    /\ replayed = {}
    /\ pc = [p \in Procs |-> "idle"]
    /\ req = [p \in Procs |-> NoReq]

-----------------------------------------------------------------------------
(* Helpers.                                                                *)

Live(g) == grant[g] # None /\ ~grant[g].revoked

\* A token the engine would still take: it did not expire.
Valid(t) == made[t].expires >= now

Goto(p, where) == pc' = [pc EXCEPT ![p] = where]

\* ... with new locals.
Move(p, where, locals) ==
    /\ Goto(p, where)
    /\ req' = [req EXCEPT ![p] = locals]

Leave(p) == Move(p, "idle", NoReq)

\* The rows of a scope, as committed. A transaction keeps them as its snapshot.
Seen(scope) == [g \in Grants |-> IF g \in scope THEN grant[g] ELSE None]

\* A request about a set of grants, as it finds them.
About(op, scope, ends) ==
    [op |-> op, scope |-> scope, ends |-> ends, seen |-> Seen(scope), new |-> None]

\* Mutant of Mint: without a configured lifetime no deadline is stamped.
MintWithoutDeadline(g, t, by) ==
    /\ made[t] = None
    /\ made' = [made EXCEPT ![t] = [grant |-> g, by |-> by, expires |-> None]]

\* The engine mints a refresh token for g in exchange for another, or for the
\* code.
Mint(g, t, by) ==
    /\ made[t] = None
    /\ made' = [made EXCEPT ![t] = [grant |-> g, by |-> by, expires |-> now + Lifetime]]

\* supersede, and the sweep on the same traffic: the replaced token is
\* retained, then at most PruneBatch expired records go.
Retained(t, g) == [superseded EXCEPT ![t] = g]

\* Mutant of Expired: the sweep takes a record whose token expires only now.
ExpiredEarly(kept) == {t \in Tokens : kept[t] # None /\ made[t].expires <= now}

Expired(kept) == {t \in Tokens : kept[t] # None /\ made[t].expires < now}

Retain(t, g) ==
    \E gone \in SUBSET Expired(Retained(t, g)) :
        /\ gone = Expired(Retained(t, g)) \/ Cardinality(gone) = PruneBatch
        /\ superseded' = [x \in Tokens |-> IF x \in gone THEN None ELSE Retained(t, g)[x]]

\* The history of a set of grants is dropped.
Forgotten(gs) == [t \in Tokens |-> IF superseded[t] \in gs THEN None ELSE superseded[t]]

Revoked(row) == [row EXCEPT !.revoked = TRUE]

\* The rows a transaction writes. A logout skips what it saw revoked.
Writes(p) ==
    {g \in req[p].scope :
        /\ req[p].seen[g] # None
        /\ req[p].op \in {"logout", "replay"} => ~req[p].seen[g].revoked}

\* Mutant of Written: the refresh saves the grant with the token it had.
WrittenUnrotated(p, g) ==
    CASE req[p].op \in {"logout", "revoke", "replay"} -> Revoked(req[p].seen[g])
      [] req[p].op = "delete" -> None
      [] OTHER -> IF req[p].seen[g].token # None THEN req[p].seen[g]
                  ELSE [req[p].seen[g] EXCEPT !.token = req[p].new]

\* What a request makes of a row it saw.
Written(p, g) ==
    CASE req[p].op \in {"logout", "revoke", "replay"} -> Revoked(req[p].seen[g])
      [] req[p].op = "delete" -> None
      [] OTHER -> [req[p].seen[g] EXCEPT !.token = req[p].new]

\* The rows that changed since the request read them. A delete takes a row it
\* saw whatever became of it, and misses one it did not see.
Outdated(p) ==
    {g \in req[p].scope :
        /\ grant[g] # req[p].seen[g]
        /\ req[p].op = "delete" => req[p].seen[g] = None}

Release(p) == lock' = [g \in Grants |-> IF lock[g] = p THEN None ELSE lock[g]]

-----------------------------------------------------------------------------
(* The authorization endpoint, outside a transaction.                      *)

\* Mutant of Authorize: a grant that is gone is authorized under its old id.
AuthorizeAgain(p) ==
    /\ pc[p] = "idle"
    /\ \E g \in Grants :
        /\ grant[g] = None
        /\ session[of[g].session] = "live"
        /\ begun' = begun \cup {g}
        /\ Move(p, "resume", About("authorize", {g}, {}))
    /\ UNCHANGED <<rows, lock, now, made, handed, history>>

\* A sign-in passes the finalize gate while its session lives. The engine
\* mints the grant when the browser comes back.
Authorize(p) ==
    /\ pc[p] = "idle"
    /\ \E g \in Grants \ begun :
        /\ session[of[g].session] = "live"
        /\ begun' = begun \cup {g}
        /\ Move(p, "resume", About("authorize", {g}, {}))
    /\ UNCHANGED <<rows, lock, now, made, handed, history>>

\* ... whatever became of the session meanwhile.
CreateGrant(p) ==
    /\ pc[p] = "resume"
    /\ \E g \in req[p].scope :
        /\ grant' = [grant EXCEPT ![g] = [token |-> None, revoked |-> FALSE]]
        /\ stale' = stale \cup (IF session[of[g].session] = "live" THEN {} ELSE {g})
    /\ Leave(p)
    /\ UNCHANGED <<superseded, session, lock, now, tokens, swept, dropped, replayed>>

-----------------------------------------------------------------------------
(* The token endpoint. A miss answers an error and changes nothing.        *)

\* Mutant of Redeem: a code whose grant carries a token is redeemed again.
RedeemAgain(p) ==
    /\ pc[p] = "idle"
    /\ \E g \in Grants, t \in Tokens :
        /\ Live(g)
        /\ Mint(g, t, None)
        /\ Move(p, "write", [About("redeem", {g}, {}) EXCEPT !.new = t])
    /\ UNCHANGED <<rows, lock, now, begun, handed, history>>

\* The code is exchanged for the first refresh token of its grant.
Redeem(p) ==
    /\ pc[p] = "idle"
    /\ \E g \in Grants, t \in Tokens :
        /\ Live(g)
        /\ grant[g].token = None
        /\ Mint(g, t, None)
        /\ Move(p, "write", [About("redeem", {g}, {}) EXCEPT !.new = t])
    /\ UNCHANGED <<rows, lock, now, begun, handed, history>>

\* A refresh token nothing superseded is exchanged for the next one.
Refresh(p) ==
    /\ pc[p] = "idle"
    /\ \E t \in handed, g \in Grants, u \in Tokens :
        /\ superseded[t] = None
        /\ Live(g)
        /\ grant[g].token = t
        /\ Valid(t)
        /\ Mint(g, u, t)
        /\ Move(p, "write", [About("refresh", {g}, {}) EXCEPT !.new = u])
    /\ UNCHANGED <<rows, lock, now, begun, handed, history>>

\* A superseded one is a replay: the grant is revoked, and its history goes.
ReplayAtToken(p) ==
    /\ pc[p] = "idle"
    /\ \E t \in handed :
        /\ superseded[t] # None
        /\ Move(p, "write", About("replay", {superseded[t]}, {}))
    /\ UNCHANGED <<rows, lock, now, tokens, history>>

-----------------------------------------------------------------------------
(* Sign-outs and disconnects, each in one transaction.                     *)

Of(gs, s) == {g \in gs : of[g].session = s}

\* The RP-initiated logout terminates a live session, and revokes the grants
\* FindGrantsByLoginSession answers.
Logout(p) ==
    /\ pc[p] = "idle"
    /\ \E s \in Sessions :
        /\ session[s] = "live"
        /\ Move(p, "write", About("logout", Of(Grants, s), {s}))
    /\ UNCHANGED <<rows, lock, now, tokens, history>>

\* The sessions one administrative or self-service revoke deletes: one, or
\* every one of a person except the one it spares.
Revocable ==
    {ends \in SUBSET {s \in Sessions : session[s] # "gone"} :
        \/ Cardinality(ends) = 1
        \/ ends # {} /\ \E u \in Users, except \in Sessions \cup {None} :
             ends = {s \in Sessions : owner[s] = u /\ session[s] # "gone"} \ {except}}

\* Mutant of RevokeSessions: only the sessions go.
RevokeSessionsAlone(p) ==
    /\ pc[p] = "idle"
    /\ \E ends \in Revocable : Move(p, "write", About("delete", {}, ends))
    /\ UNCHANGED <<rows, lock, now, tokens, history>>

\* The grants of those sessions are deleted with them.
RevokeSessions(p) ==
    /\ pc[p] = "idle"
    /\ \E ends \in Revocable :
        Move(p, "write", About("delete", {g \in Grants : of[g].session \in ends}, ends))
    /\ UNCHANGED <<rows, lock, now, tokens, history>>

\* A person is signed out of everything: RevokeForUser.
RevokeForUser(p) ==
    /\ pc[p] = "idle"
    /\ \E u \in Users :
        Move(p, "write", About("delete", {g \in Grants : owner[of[g].session] = u},
                               {s \in Sessions : owner[s] = u /\ session[s] # "gone"}))
    /\ UNCHANGED <<rows, lock, now, tokens, history>>

\* A person disconnects one application: DeleteGrantsBySubjectClient.
Disconnect(p) ==
    /\ pc[p] = "idle"
    /\ \E u \in Users, c \in Clients :
        Move(p, "write", About("delete",
                {g \in Grants : owner[of[g].session] = u /\ of[g].client = c}, {}))
    /\ UNCHANGED <<rows, lock, now, tokens, history>>

-----------------------------------------------------------------------------
(* A transaction writes and ends.                                          *)

\* The first write waits for the row locks. The writes are not visible before
\* the commit, so they are told apart only there.
Write(p) ==
    /\ pc[p] = "write"
    /\ \A g \in Writes(p) : lock[g] = None
    /\ lock' = [g \in Grants |-> IF g \in Writes(p) THEN p ELSE lock[g]]
    /\ Goto(p, IF req[p].op = "replay" THEN "reject" ELSE "commit")
    /\ UNCHANGED <<rows, now, tokens, history, req>>

\* What the commit makes of the superseded records: a rotation retains the
\* token it replaced, a delete drops the history of the grants it takes.
Superseding(p) ==
    CASE req[p].op = "refresh" ->
            \E g \in req[p].scope : Retain(req[p].seen[g].token, g)
      [] req[p].op = "delete" -> superseded' = Forgotten(Writes(p))
      [] OTHER -> UNCHANGED superseded

Commit(p) ==
    /\ pc[p] = "commit"
    /\ grant' = [g \in Grants |-> IF g \in Writes(p) THEN Written(p, g) ELSE grant[g]]
    /\ Superseding(p)
    /\ session' = [s \in Sessions |->
          IF s \notin req[p].ends THEN session[s]
          ELSE IF req[p].op = "delete" THEN "gone" ELSE "over"]
    /\ Release(p)
    /\ handed' = handed \cup ({req[p].new} \ {None})
    /\ stale' = stale \cup Outdated(p)
    /\ swept' = swept \cup req[p].ends
    /\ dropped' = IF req[p].op = "delete" THEN dropped \cup Writes(p) ELSE dropped
    /\ Leave(p)
    /\ UNCHANGED <<now, begun, made, replayed>>

\* The store revoked the grant of a replay and answers ErrNotFound, the engine
\* answers invalid_grant, and the middleware rolls every write of the request
\* back because the status is 400.
Reject(p) ==
    /\ pc[p] = "reject"
    /\ Release(p)
    /\ replayed' = replayed \cup req[p].scope
    /\ Leave(p)
    /\ UNCHANGED <<rows, now, tokens, stale, swept, dropped>>

-----------------------------------------------------------------------------
(* The revocation endpoint, outside a transaction.                         *)

\* The engine reads the grant of the token, returns early when it is revoked,
\* then stamps it and saves it.
RevokeFind(p) ==
    /\ pc[p] = "idle"
    /\ \E g \in Grants :
        /\ Live(g)
        /\ grant[g].token # None
        /\ Move(p, "retain", About("revoke", {g}, {}))
    /\ UNCHANGED <<rows, lock, now, tokens, history>>

\* retainSuperseded at the head of that save: a token rotated in meanwhile is
\* retained as superseded.
RevokeRetain(p) ==
    /\ pc[p] = "retain"
    /\ \E g \in req[p].scope :
        IF grant[g] # None /\ grant[g].token \notin {None, req[p].seen[g].token}
          THEN Retain(grant[g].token, g) /\ stale' = stale \cup {g}
          ELSE UNCHANGED <<superseded, stale>>
    /\ Goto(p, "save")
    /\ UNCHANGED <<grant, session, lock, now, tokens, swept, dropped, replayed, req>>

\* The upsert of a revoked grant, which commits at once.
SaveRevoked(p) ==
    /\ pc[p] = "save"
    /\ \A g \in Writes(p) : lock[g] = None
    /\ grant' = [g \in Grants |-> IF g \in Writes(p) THEN Written(p, g) ELSE grant[g]]
    /\ stale' = stale \cup Outdated(p)
    /\ IF req[p].op = "replay" THEN Goto(p, "forget") /\ UNCHANGED req ELSE Leave(p)
    /\ UNCHANGED <<superseded, session, lock, now, tokens, swept, dropped, replayed>>

\* A superseded token presented where no transaction runs: introspection and
\* revocation look a refresh token up like the token endpoint does.
ReplayElsewhere(p) ==
    /\ pc[p] = "idle"
    /\ \E t \in handed :
        /\ superseded[t] # None
        /\ Move(p, "look", About("replay", {superseded[t]}, {}))
    /\ UNCHANGED <<rows, lock, now, tokens, history>>

ReplayLook(p) ==
    /\ pc[p] = "look"
    /\ IF \E g \in req[p].scope : grant[g] = None
         THEN Leave(p)
         ELSE Move(p, "save", About("replay", req[p].scope, {}))
    /\ UNCHANGED <<rows, lock, now, tokens, history>>

ReplayForget(p) ==
    /\ pc[p] = "forget"
    /\ superseded' = Forgotten(req[p].scope)
    /\ replayed' = replayed \cup req[p].scope
    /\ Leave(p)
    /\ UNCHANGED <<grant, session, lock, now, tokens, stale, swept, dropped>>

-----------------------------------------------------------------------------

\* A failed statement, a failed audit write, a deadlock or a crash: a
\* transaction rolls back, and outside one what was written stays.
Abandon(p) ==
    /\ pc[p] # "idle"
    /\ Release(p)
    /\ Leave(p)
    /\ UNCHANGED <<rows, now, tokens, history>>

\* The session ends without a sign-out here: the sign-in front end logged it
\* out, a wrong code did, or it expired. See LoginSession.
EndElsewhere(s) ==
    /\ session[s] = "live"
    /\ session' = [session EXCEPT ![s] = "over"]
    /\ UNCHANGED <<grant, superseded, lock, now, tokens, history, pc, req>>

Tick ==
    /\ now < MaxNow
    /\ now' = now + 1
    /\ UNCHANGED <<rows, lock, tokens, history, pc, req>>

Step(p) ==
    \/ Authorize(p)
    \/ CreateGrant(p)
    \/ Redeem(p)
    \/ Refresh(p)
    \/ ReplayAtToken(p)
    \/ Logout(p)
    \/ RevokeSessions(p)
    \/ RevokeForUser(p)
    \/ Disconnect(p)
    \/ Write(p)
    \/ Commit(p)
    \/ Reject(p)
    \/ RevokeFind(p)
    \/ RevokeRetain(p)
    \/ SaveRevoked(p)
    \/ ReplayElsewhere(p)
    \/ ReplayLook(p)
    \/ ReplayForget(p)
    \/ Abandon(p)

Next ==
    /\ Tick \/ (\E s \in Sessions : EndElsewhere(s)) \/ (\E p \in Procs : Step(p))
    /\ UNCHANGED fixed

Spec == Init /\ [][Next]_vars

-----------------------------------------------------------------------------
(* Properties.                                                             *)

\* One authorization code and one refresh token buy one token each, for as
\* long as no write of the grant missed another.
ExchangedOnce ==
    \A t, u \in handed :
        /\ made[t].grant = made[u].grant
        /\ made[t].by = made[u].by
        /\ made[t].grant \notin stale
        => t = u

\* A token handed out for a live grant is the current one, or is recognised as
\* superseded for as long as the engine would take it: neither a rotation nor
\* the sweep makes a copy of it unrecognisable. And it is not both: a client that
\* presents its current token would be taken for a replay and lose the grant. A
\* grant that a revocation outside a transaction overlapped is exempt.
ReplaysAreToldApart ==
    \A t \in handed :
        LET g == made[t].grant
        IN  Live(g) /\ g \notin stale =>
              /\ Valid(t) => grant[g].token = t \/ superseded[t] = g
              /\ grant[g].token = t => superseded[t] = None

\* A revoked grant stays revoked and a deleted one stays away, unless a request
\* that read it before writes it back.
Dead(g) == IF grant[g] = None THEN g \in dropped ELSE grant[g].revoked

DeadGrantsStayDead ==
    [][\A g \in Grants : Dead(g) => Dead(g)' \/ g \in stale']_vars

\* A sign-out that committed left no live grant of its session, the ones of
\* requests that overlapped it apart.
SignOutReachesGrants ==
    \A g \in Grants \ stale : of[g].session \in swept => ~Live(g)

\* "Presenting one is proof of a leak, and it kills the whole grant"
\* (CONTEXT.md).
ReplayKillsGrant == \A g \in replayed : ~Live(g)

\* The promise of TokenLife for the refresh tokens of a grant.
Promise == INSTANCE TokenLife WITH
    Sessions <- Grants,
    status <- [t \in Tokens |->
        IF t \notin handed THEN "unissued"
        ELSE IF \E g \in Grants : Live(g) /\ grant[g].token = t THEN "live" ELSE "dead"],
    holder <- [t \in Tokens |-> IF t \in handed THEN made[t].grant ELSE None]

\* However requests overlap, a grant answers to one token, the last it handed
\* out, and a token that stopped answering never answers again.
RefreshTokensKeepPromise == Promise!Spec

=============================================================================

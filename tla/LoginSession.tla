---------------------------- MODULE LoginSession ----------------------------
(***************************************************************************)
(* The login sessions of one tenant: the rows of login_sessions, the Redis *)
(* copy of each session, and the requests that read and write both.        *)
(*                                                                         *)
(* A request is a process. It takes one action per statement or Redis call *)
(* the code makes, so that the steps of two requests interleave the way    *)
(* two instances of the gateway interleave them. The session a request     *)
(* read stays in its local "live", as the Go value does, and is written    *)
(* back whole by Save.                                                     *)
(***************************************************************************)
EXTENDS Naturals, FiniteSets

CONSTANTS
    Procs,            \* requests that run side by side
    Sessions,         \* login session ids, one per UUIDv7 minted
    Users,            \* people of the tenant
    Tokens,           \* session tokens, one per call of mintToken
    None,             \* the absent value: no row, no person, no token
    MaxWrongCodes,    \* maxWrongCodes, 5 in the source
    PartialLifetime,  \* partialLifetime, 10 minutes in the source
    FullLifetime,     \* fullLifetime, 12 hours in the source
    MaxNow,           \* bound: the clock stops here
    RedisFails,       \* may a Redis call fail?
    Opened,           \* bound: the kinds of session clients open
    Presented         \* bound: the steps clients submit with a token

ASSUME CapAssumption == MaxWrongCodes \in Nat \ {0}
ASSUME LifetimeAssumption ==
    /\ PartialLifetime \in Nat \ {0}
    /\ FullLifetime \in Nat \ {0}
ASSUME ClockAssumption == MaxNow \in Nat
ASSUME RedisAssumption == RedisFails \in BOOLEAN
ASSUME NoneAssumption == None \notin Users \cup Tokens \cup Sessions \cup Procs

-----------------------------------------------------------------------------
(* Factors, pending steps, and the login session itself.                   *)

SecondFactors == {"otp", "webauthn"}
Factors == {"pwd", "vc"} \cup SecondFactors

\* A challenge step holds the text of the factor it asks for.
ChallengeSteps == SecondFactors
EnrolSteps == {"otp_enroll", "webauthn_enroll"}

\* What pendingSteps may answer: the challenges of the factors the person
\* holds, or both enrolments when the policy requires a factor and none is
\* held, or nothing. Enrolments and policy belong to other components and
\* change at any moment, so each read picks any of them.
StepLists == (SUBSET ChallengeSteps) \cup {EnrolSteps}

\* What a session was opened with, which no later step rewrites: FederationID
\* and Identifier. The password step proves a local session with the hash of the
\* person it names, and a directory session with a bind; a QR login names nobody,
\* and "scanned" is the person its one transaction resolves to.
Kinds == {"local", "directory", "qr"}
ASSUME OpenedAssumption == Opened \subseteq Kinds

ClientSteps == {"password", "otp", "webauthn", "vc", "finalize", "logout"}
ASSUME PresentedAssumption == Presented \subseteq ClientSteps

Origin == {o \in [kind : Opened, scanned : Users \cup {None}] :
              o.scanned # None <=> o.kind = "qr"}

Live == [id      : Sessions,
         user    : Users \cup {None},
         factors : SUBSET Factors,
         wrong   : 0 .. (MaxWrongCodes - 1),
         expires : Nat]

ASSUME NoLiveAssumption == None \notin Live

Row == [state : {"active", "terminated"}, token : Tokens, live : Live]

ASSUME NoRowAssumption == None \notin Row

Authenticated(live) == live.factors # {}

\* Mutant of Meets: every proved factor meets every step.
MeetsByAnyFactor(live, step) == live.factors # {}

\* A challenge step is met by any proved second factor, an enrolment by none.
Meets(live, step) ==
    step \in ChallengeSteps /\ live.factors \cap SecondFactors # {}

-----------------------------------------------------------------------------
VARIABLES
    origin,     \* how each session is opened, chosen once
    row,        \* login_sessions, as committed
    staged,     \* what the transaction holding a row lock will commit
    lock,       \* which request holds the lock of a row
    cache,      \* login_session:<tenant>:<digest> in Redis
    lost,       \* history: has a Redis write failed?
    minter,     \* the session each minted token was minted for
    disclosed,  \* tokens a client was handed
    now,        \* the clock
    proved,     \* history: <<session, person, factor>> proved by a person
    pc,         \* where each request stands
    req         \* the local variables of each request

store == <<row, staged, lock>>
redis == <<cache, lost>>
vars == <<origin, row, staged, lock, cache, lost, minter, disclosed, now, proved, pc, req>>

Ops == {"none", "identify", "password", "otp", "webauthn", "vc", "wrong",
        "finalize", "logout", "terminate", "revoke"}

PCs == {"idle", "get", "read", "fill", "found", "save", "drop", "put",
        "commit", "end", "uncache", "finalized"}

\* tok: the token presented; new: the token Save writes; sure: the person a
\* factor was proved for; doomed: <<session, token>> pairs an end removes;
\* owed: the steps the finalize gate read.
Req == [op     : Ops,
        tok    : Tokens \cup {None},
        new    : Tokens \cup {None},
        live   : Live \cup {None},
        sure   : Users \cup {None},
        doomed : SUBSET (Sessions \X Tokens),
        owed   : SUBSET (ChallengeSteps \cup EnrolSteps)]

NoReq == [op |-> "none", tok |-> None, new |-> None, live |-> None,
          sure |-> None, doomed |-> {}, owed |-> {}]

TypeOK ==
    /\ origin \in [Sessions -> Origin]
    /\ row \in [Sessions -> Row \cup {None}]
    /\ staged \in [Sessions -> Row \cup {None}]
    /\ lock \in [Sessions -> Procs \cup {None}]
    /\ cache \in [Tokens -> Live \cup {None}]
    /\ lost \in BOOLEAN
    /\ minter \in [Tokens -> Sessions \cup {None}]
    /\ disclosed \subseteq Tokens
    /\ now \in Nat
    /\ proved \subseteq Sessions \X Users \X Factors
    /\ pc \in [Procs -> PCs]
    /\ req \in [Procs -> Req]

Init ==
    /\ origin \in [Sessions -> Origin]
    /\ row = [s \in Sessions |-> None]
    /\ staged = [s \in Sessions |-> None]
    /\ lock = [s \in Sessions |-> None]
    /\ cache = [t \in Tokens |-> None]
    /\ lost = FALSE
    /\ minter = [t \in Tokens |-> None]
    /\ disclosed = {}
    /\ now = 0
    /\ proved = {}
    /\ pc = [p \in Procs |-> "idle"]
    /\ req = [p \in Procs |-> NoReq]

-----------------------------------------------------------------------------
(* Helpers.                                                                *)

Goto(p, where) == pc' = [pc EXCEPT ![p] = where]

\* ... with new locals.
Move(p, where, locals) ==
    /\ Goto(p, where)
    /\ req' = [req EXCEPT ![p] = locals]

\* FindByTokenHash and Terminate read only active rows that did not expire.
Alive(r) == r # None /\ r.state = "active" /\ r.live.expires > now

\* A cached copy expires with the session it holds.
Cached(t) == cache[t] # None /\ cache[t].expires > now

\* The two Redis writes. A failure is logged and swallowed.
Del(t) ==
    \/ cache' = [cache EXCEPT ![t] = None] /\ UNCHANGED lost
    \/ RedisFails /\ lost' = TRUE /\ UNCHANGED cache

SetKey(t, live) ==
    \/ live.expires > now /\ cache' = [cache EXCEPT ![t] = live] /\ UNCHANGED lost
    \/ live.expires > now /\ RedisFails /\ lost' = TRUE /\ UNCHANGED cache
    \/ live.expires <= now /\ UNCHANGED redis

\* mintToken: a token nobody minted before, for session s.
Mint(s, t) == minter[t] = None /\ minter' = [minter EXCEPT ![t] = s]

\* Save without a transaction around it: the identifier step and the counter
\* of wrong codes.
Autocommits(p) == req[p].op \in {"identify", "wrong"}

\* The session Identify and Open build.
Opening(s, u) == [id |-> s, user |-> u, factors |-> {}, wrong |-> 0,
                  expires |-> now + PartialLifetime]

\* Mutant of Upgraded: a session that names somebody keeps that name.
UpgradedKeepingPerson(live, u, f) == [live EXCEPT !.user = IF @ = None THEN u ELSE @,
                                                  !.factors = @ \cup {f},
                                                  !.expires = now + FullLifetime]

\* The upgrade VerifyPassword and Complete share: bind the person, record the
\* factor, live for fullLifetime from now.
Upgraded(live, u, f) == [live EXCEPT !.user = u,
                                     !.factors = @ \cup {f},
                                     !.expires = now + FullLifetime]

\* The locals of a request about to save a session under token t.
Saving(r, t, live) == [r EXCEPT !.new = t, !.live = live]

\* The locals of a request about to end sessions.
Ending(r, op, doomed) == [r EXCEPT !.op = op, !.doomed = doomed]

\* Mutant of Seal: the upsert forgets token_hash.
SealUnderOldToken(p) == [state |-> "active", live |-> req[p].live,
    token |-> IF req[p].tok = None THEN req[p].new ELSE req[p].tok]

\* The row seal builds: always active, under the token of this save.
Seal(p) == [state |-> "active", token |-> req[p].new, live |-> req[p].live]

-----------------------------------------------------------------------------
(* A request begins.                                                       *)

\* Identify and Open mint a session that names somebody, or nobody.
Identify(p) ==
    /\ pc[p] = "idle"
    /\ \E s \in Sessions, t \in Tokens, u \in Users \cup {None} :
        /\ \A x \in Tokens : minter[x] # s
        /\ Mint(s, t)
        /\ origin[s].kind = "qr" => u = None
        /\ Move(p, "save",
               Saving([NoReq EXCEPT !.op = "identify"], t, Opening(s, u)))
    /\ UNCHANGED <<store, redis, disclosed, now, proved>>

\* Every other step of a sign-in presents a token.
Present(p) ==
    /\ pc[p] = "idle"
    /\ \E t \in disclosed, o \in Presented :
        Move(p, "get", [NoReq EXCEPT !.op = o, !.tok = t])
    /\ UNCHANGED <<store, redis, minter, disclosed, now, proved>>

-----------------------------------------------------------------------------
(* CachedFinder: Redis, then the database, then a refill.                  *)

GetHit(p) ==
    /\ pc[p] = "get"
    /\ Cached(req[p].tok)
    /\ Move(p, "found", [req[p] EXCEPT !.live = cache[req[p].tok]])
    /\ UNCHANGED <<store, redis, minter, disclosed, now, proved>>

GetMiss(p) ==
    /\ pc[p] = "get"
    /\ ~Cached(req[p].tok) \/ RedisFails
    /\ Goto(p, "read")
    /\ UNCHANGED <<store, redis, minter, disclosed, now, proved, req>>

\* Mutant of ReadRow: the query forgets token_hash.
ReadAnyRow(p) ==
    /\ pc[p] = "read"
    /\ \E s \in Sessions :
        /\ Alive(row[s])
        /\ Move(p, "fill", [req[p] EXCEPT !.live = row[s].live])
    /\ UNCHANGED <<store, redis, minter, disclosed, now, proved>>

\* The read takes no lock: it sees the last committed row.
ReadRow(p) ==
    /\ pc[p] = "read"
    /\ \E s \in Sessions :
        /\ Alive(row[s])
        /\ row[s].token = req[p].tok
        /\ Move(p, "fill", [req[p] EXCEPT !.live = row[s].live])
    /\ UNCHANGED <<store, redis, minter, disclosed, now, proved>>

Refill(p) ==
    /\ pc[p] = "fill"
    /\ SetKey(req[p].tok, req[p].live)
    /\ Goto(p, "found")
    /\ UNCHANGED <<store, minter, disclosed, now, proved, req>>

-----------------------------------------------------------------------------
(* The steps that act on the session found.                                *)

\* Every upgraded session answers to a new token.
Upgrade(p, u, f) ==
    LET live == req[p].live IN
    \E t \in Tokens :
        /\ Mint(live.id, t)
        /\ Move(p, "save", Saving(req[p], t, Upgraded(live, u, f)))

\* Whom the password step proves. The local hash is the one of the person the
\* session names; a session that names nobody meets the decoy hash and is
\* refused. A bind answers the person linked to the entry that the identifier
\* finds at that moment, and nothing compares them with the person the session
\* names: a directory hands an identifier on, so it may be anybody.
Provable(live) == IF origin[live.id].kind = "directory" THEN Users
                  ELSE {live.user} \ {None}

\* The person proved replaces the person named, and the factors stay.
VerifyPassword(p) ==
    LET live == req[p].live IN
    /\ pc[p] = "found"
    /\ req[p].op = "password"
    /\ \E person \in Provable(live) :
        /\ Upgrade(p, person, "pwd")
        /\ proved' = proved \cup {<<live.id, person, "pwd">>}
    /\ UNCHANGED <<store, redis, disclosed, now>>

\* The factor services read the session first. A second factor asks for a
\* proved password and proves the person the session names; the QR poll
\* answers at once when the scan was recorded, and otherwise binds the person
\* the scan resolved to. Complete then finds the session again.
ProveFactor(p) ==
    LET live == req[p].live
        person == IF req[p].op = "vc" THEN origin[live.id].scanned ELSE live.user
    IN  /\ pc[p] = "found"
        /\ req[p].op \in SecondFactors \cup {"vc"}
        /\ req[p].sure = None
        /\ person # None
        /\ IF req[p].op = "vc"
             THEN origin[live.id].kind = "qr" /\ "vc" \notin live.factors
             ELSE "pwd" \in live.factors
        /\ proved' = proved \cup {<<live.id, person, req[p].op>>}
        /\ Move(p, "get", [req[p] EXCEPT !.sure = person, !.live = None])
        /\ UNCHANGED <<store, redis, minter, disclosed, now>>

\* Complete refuses a session that names somebody else.
Complete(p) ==
    /\ pc[p] = "found"
    /\ req[p].op \in SecondFactors \cup {"vc"}
    /\ req[p].sure # None
    /\ req[p].live.user \in {None, req[p].sure}
    /\ Upgrade(p, req[p].sure, req[p].op)
    /\ UNCHANGED <<store, redis, disclosed, now, proved>>

\* A wrong code of an authenticator finds the session again to count itself.
WrongCode(p) ==
    /\ pc[p] = "found"
    /\ req[p].op = "otp"
    /\ req[p].sure = None
    /\ "pwd" \in req[p].live.factors
    /\ Move(p, "get", [req[p] EXCEPT !.op = "wrong", !.live = None])
    /\ UNCHANGED <<store, redis, minter, disclosed, now, proved>>

\* Mutants of CountWrongCode: the cap is off by one; the saved session forgets
\* the person.
CountPastTheCap(p) ==
    /\ pc[p] = "found"
    /\ req[p].op = "wrong"
    /\ req[p].live.wrong < MaxWrongCodes
    /\ Move(p, "save", Saving(req[p], req[p].tok, [req[p].live EXCEPT !.wrong = @ + 1]))
    /\ UNCHANGED <<store, redis, minter, disclosed, now, proved>>

CountForgettingPerson(p) ==
    /\ pc[p] = "found"
    /\ req[p].op = "wrong"
    /\ req[p].live.wrong + 1 < MaxWrongCodes
    /\ Move(p, "save", Saving(req[p], req[p].tok,
                             [req[p].live EXCEPT !.wrong = @ + 1, !.user = None]))
    /\ UNCHANGED <<store, redis, minter, disclosed, now, proved>>

\* FailSecondFactor below the cap: the raised count is saved in place.
CountWrongCode(p) ==
    /\ pc[p] = "found"
    /\ req[p].op = "wrong"
    /\ req[p].live.wrong + 1 < MaxWrongCodes
    /\ Move(p, "save", Saving(req[p], req[p].tok, [req[p].live EXCEPT !.wrong = @ + 1]))
    /\ UNCHANGED <<store, redis, minter, disclosed, now, proved>>

\* ResolveForFinalize: a factor was proved, and either the scan or every step
\* owed is met.
Finalize(p) ==
    /\ pc[p] = "found"
    /\ req[p].op = "finalize"
    /\ Authenticated(req[p].live)
    /\ \E owed \in StepLists :
        /\ \/ "vc" \in req[p].live.factors
           \/ \A step \in owed : Meets(req[p].live, step)
        /\ Move(p, "finalized", [req[p] EXCEPT !.owed = owed])
    /\ UNCHANGED <<store, redis, minter, disclosed, now, proved>>

-----------------------------------------------------------------------------
(* CachingSaver: the upsert, then the rotated entry, then the new entry.   *)

\* The upsert writes the row whatever it held: it inserts a row that is gone
\* and sets a terminated one active. Inside a transaction it takes the row
\* lock until the commit; outside one it commits at once.
SaveRow(p) ==
    LET s == req[p].live.id IN
    /\ pc[p] = "save"
    /\ lock[s] = None
    /\ IF Autocommits(p)
         THEN /\ row' = [row EXCEPT ![s] = Seal(p)]
              /\ UNCHANGED <<staged, lock>>
         ELSE /\ staged' = [staged EXCEPT ![s] = Seal(p)]
              /\ lock' = [lock EXCEPT ![s] = p]
              /\ UNCHANGED row
    /\ Goto(p, IF req[p].tok \in {None, req[p].new} THEN "put" ELSE "drop")
    /\ UNCHANGED <<redis, minter, disclosed, now, proved, req>>

\* Mutant of DropRotated: the entry of the rotated token stays.
KeepRotated(p) ==
    /\ pc[p] = "drop"
    /\ Goto(p, "put")
    /\ UNCHANGED <<store, redis, minter, disclosed, now, proved, req>>

DropRotated(p) ==
    /\ pc[p] = "drop"
    /\ Del(req[p].tok)
    /\ Goto(p, "put")
    /\ UNCHANGED <<store, minter, disclosed, now, proved, req>>

PutCache(p) ==
    /\ pc[p] = "put"
    /\ SetKey(req[p].new, req[p].live)
    /\ Goto(p, "commit")
    /\ UNCHANGED <<store, minter, disclosed, now, proved, req>>

-----------------------------------------------------------------------------
(* Terminate and the two deletes.                                          *)

\* The read at the head of Terminate: the token comes from this snapshot, and
\* the update that follows does not look at it again.
TerminateRead(p, s) ==
    /\ Alive(row[s])
    /\ Move(p, "end", Ending(req[p], "terminate", {<<s, row[s].token>>}))
    /\ UNCHANGED <<store, redis, minter, disclosed, now, proved>>

\* Logout, and the wrong code that reaches the cap, end the session found.
EndFound(p) ==
    /\ pc[p] = "found"
    /\ \/ req[p].op = "logout"
       \/ req[p].op = "wrong" /\ req[p].live.wrong + 1 >= MaxWrongCodes
    /\ TerminateRead(p, req[p].live.id)

\* TerminateByID: the RP-initiated logout names the session.
TerminateByID(p) ==
    /\ pc[p] = "idle"
    /\ \E s \in Sessions : TerminateRead(p, s)

\* The read at the head of DeleteSession and DeleteUserSessions: one row, or
\* the rows of one person except the one they spare, whatever their state.
RevokeRead(p) ==
    /\ pc[p] = "idle"
    /\ \E gone \in SUBSET {s \in Sessions : row[s] # None} :
        /\ gone # {}
        /\ \/ Cardinality(gone) = 1
           \/ \E u \in Users, except \in Sessions \cup {None} :
                gone = {s \in Sessions : row[s] # None /\ row[s].live.user = u}
                         \ {except}
        /\ Move(p, "end", Ending(NoReq, "revoke", {<<s, row[s].token>> : s \in gone}))
    /\ UNCHANGED <<store, redis, minter, disclosed, now, proved>>

\* The update by id, and the delete by ids, wait for every row lock.
EndRows(p) ==
    LET gone == {d[1] : d \in req[p].doomed}
        ended == [s \in Sessions |->
                    IF row[s] = None \/ req[p].op = "revoke" THEN None
                    ELSE [row[s] EXCEPT !.state = "terminated"]]
    IN  /\ pc[p] = "end"
        /\ \A s \in gone : lock[s] = None
        /\ staged' = [s \in Sessions |->
                        IF s \in gone THEN ended[s] ELSE staged[s]]
        /\ lock' = [s \in Sessions |-> IF s \in gone THEN p ELSE lock[s]]
        /\ Goto(p, "uncache")
        /\ UNCHANGED <<row, redis, minter, disclosed, now, proved, req>>

\* The cached copies are dropped one by one, inside the transaction.
DropEnded(p) ==
    /\ pc[p] = "uncache"
    /\ \E d \in req[p].doomed :
        /\ Del(d[2])
        /\ Move(p, IF req[p].doomed = {d} THEN "commit" ELSE "uncache",
               [req[p] EXCEPT !.doomed = @ \ {d}])
    /\ UNCHANGED <<store, minter, disclosed, now, proved>>

-----------------------------------------------------------------------------
(* A request ends.                                                         *)

Release(p) ==
    /\ lock' = [s \in Sessions |-> IF lock[s] = p THEN None ELSE lock[s]]
    /\ staged' = [s \in Sessions |-> IF lock[s] = p THEN None ELSE staged[s]]

Leave(p) == Move(p, "idle", NoReq)

\* The transaction commits, audit row included, and the answer hands out the
\* token the request minted.
Commit(p) ==
    /\ pc[p] = "commit"
    /\ row' = [s \in Sessions |-> IF lock[s] = p THEN staged[s] ELSE row[s]]
    /\ Release(p)
    /\ disclosed' = disclosed \cup ({req[p].new} \ {None})
    /\ Leave(p)
    /\ UNCHANGED <<redis, minter, now, proved>>

\* Every other way out: a miss, a refused password, a session that owes a
\* factor, a failed statement or audit write, a crash. The transaction rolls
\* back, and Redis keeps what was written to it.
Abandon(p) ==
    /\ pc[p] # "idle"
    /\ Release(p)
    /\ Leave(p)
    /\ UNCHANGED <<row, redis, minter, disclosed, now, proved>>

Tick ==
    /\ now < MaxNow
    /\ now' = now + 1
    /\ UNCHANGED <<store, redis, minter, disclosed, proved, pc, req>>

Step(p) ==
    \/ Identify(p)
    \/ Present(p)
    \/ GetHit(p)
    \/ GetMiss(p)
    \/ ReadRow(p)
    \/ Refill(p)
    \/ VerifyPassword(p)
    \/ ProveFactor(p)
    \/ Complete(p)
    \/ WrongCode(p)
    \/ CountWrongCode(p)
    \/ Finalize(p)
    \/ SaveRow(p)
    \/ DropRotated(p)
    \/ PutCache(p)
    \/ EndFound(p)
    \/ TerminateByID(p)
    \/ RevokeRead(p)
    \/ EndRows(p)
    \/ DropEnded(p)
    \/ Commit(p)
    \/ Abandon(p)

Next == (Tick \/ \E p \in Procs : Step(p)) /\ UNCHANGED origin

Spec == Init /\ [][Next]_vars

-----------------------------------------------------------------------------
(* Properties.                                                             *)

Stored == {row[s].live : s \in {x \in Sessions : row[x] # None}}
             \cup {cache[t] : t \in {x \in Tokens : cache[x] # None}}

\* A token names the one session it was minted for, in the row and in Redis
\* alike: Save keys both by a digest it took from the request, and a mix-up of
\* two sessions there would sign one person in as another.
TokenNamesItsSession ==
    /\ \A s \in Sessions : row[s] # None =>
          row[s].live.id = s /\ minter[row[s].token] = s
    /\ \A t \in Tokens : cache[t] # None => cache[t].id = minter[t]

\* A second factor that the person before proved: a bind that names somebody
\* else keeps the factors (service.go:281-295), so a directory session can
\* carry the code of one person beside the password of another.
Inherited(live, f) ==
    /\ origin[live.id].kind = "directory"
    /\ f \in SecondFactors
    /\ \E u \in Users \ {live.user} :
          {<<live.id, u, "pwd">>, <<live.id, u, f>>} \subseteq proved

Did(live, f) == <<live.id, live.user, f>> \in proved

\* Every factor a stored session carries was proved in that session, whatever
\* requests overlapped: by the person it names, for the ID token publishes the
\* names as amr for that person; or, a second factor of a directory session, by
\* somebody who proved the password of that session too.
FactorsProved ==
    \A live \in Stored : \A f \in live.factors :
        live.user # None /\ (Did(live, f) \/ Inherited(live, f))

\* A sign-in that passes ResolveForFinalize names somebody who proved the
\* password or the scan of that very session, whoever a bind named before; and
\* when that read found a step owed, a scan or a second factor was proved.
FinalizeAnswersTheGate ==
    \A p \in Procs : pc[p] = "finalized" =>
        LET live == req[p].live
        IN  /\ Did(live, "pwd") \/ Did(live, "vc")
            /\ req[p].owed # {} =>
                  \/ Did(live, "vc")
                  \/ \E f \in SecondFactors : Did(live, f) \/ Inherited(live, f)

\* What a table and a Redis answer for a token.
Answers(rows, redisOf, t) ==
    {rows[s].live : s \in {x \in Sessions : rows[x] # None /\ rows[x].token = t}}
       \cup ({redisOf[t]} \ {None})

\* A token stands for one session, one person, one list of factors and one
\* deadline for good: rows and Redis may disagree on the wrong codes alone. A
\* bind that names somebody else, a stale copy that is written back and a late
\* refill never turn the token one person was handed into the token of another.
TokenSpeaksForOne ==
    [][\A t \in Tokens :
          \A before \in Answers(row, cache, t), after \in Answers(row', cache', t) :
              after = [before EXCEPT !.wrong = after.wrong]]_vars

Quiet == \A p \in Procs : pc[p] = "idle"

\* With no request in flight, a token that Redis answers is the token of a
\* live row and answers that row, unless a Redis write was lost.
CacheAgreesWithRow ==
    Quiet /\ ~lost => \A t \in disclosed : Cached(t) =>
        \E s \in Sessions :
            /\ Alive(row[s])
            /\ row[s].token = t
            /\ cache[t].user = row[s].live.user
            /\ cache[t].factors = row[s].live.factors

DbResolves(t) == \E s \in Sessions : Alive(row[s]) /\ row[s].token = t

\* A token handed out that the database stopped answering is never answered
\* again: "a dead token never resolves" (repo.go).
DeadTokenStaysDead ==
    [][\A t \in disclosed : ~DbResolves(t) => ~DbResolves(t)']_vars

\* The promise of TokenLife, read off the rows.
Promise == INSTANCE TokenLife WITH
    status <- [t \in Tokens |-> IF t \notin disclosed THEN "unissued"
                                ELSE IF DbResolves(t) THEN "live" ELSE "dead"],
    holder <- [t \in Tokens |-> IF t \in disclosed THEN minter[t] ELSE None]

\* A wrong code is counted on a copy that the database stopped answering.
CountsTheDead(p) ==
    /\ pc[p] = "save" /\ pc'[p] # "save"
    /\ req[p].op = "wrong" /\ ~DbResolves(req[p].tok)

\* Whatever requests overlap and whatever Redis loses, the rows keep the promise,
\* one live token per session and a dead one never returns, but for the save of
\* a wrong code that DeadTokenStaysDead is about.
KeepsPromise ==
    /\ Promise!Init
    /\ [][(\E p \in Procs : CountsTheDead(p)) \/ Promise!Next]_Promise!tvars

=============================================================================

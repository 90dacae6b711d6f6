------------------------------- MODULE Factors -------------------------------
(***************************************************************************)
(* The second factors of the people of a tenant: time-based codes with     *)
(* their recovery codes (totp), and passkeys with their ceremonies in      *)
(* Redis (passkey). A sign-in enrols or answers one, the portal adds,      *)
(* replaces and removes them, and the console resets them.                 *)
(*                                                                         *)
(* A request reads, decides on what it read, and writes in a transaction   *)
(* of statements that lock the rows they touch, so a transaction is one    *)
(* action and every read before it another. Redis calls are actions of     *)
(* their own. A login session is what these services see of it: how far    *)
(* the sign-in is, and the wrong codes it counted. LoginSession has the    *)
(* rest, with two completions of one token at once.                        *)
(***************************************************************************)
EXTENDS Naturals, FiniteSets

CONSTANTS
    Procs,         \* requests that run side by side
    Users,         \* people
    Sessions,      \* sign-ins
    Devices,       \* authenticators, one credential id each
    None,          \* the absent value
    MaxPasskeys,   \* maxPasskeys, 10 in the source
    AttemptLimit,  \* attemptLimit, 15 in the source
    MaxWrongCodes, \* the cap of one sign-in, 5 in the source
    MaxSecrets,    \* bound: shared secrets minted
    MaxCodes,      \* bound: sets of recovery codes issued, of one code each
    MaxChallenges, \* bound: passkey challenges minted
    MaxStep,       \* bound: the time step the clock stops at
    Asked          \* bound: the operations that are asked for

\* What a sign-in may ask, and what a person in the portal or the console.
EnrolOps == {"enrolCode", "activate", "enrolKey", "enrolKeyFinish"}

LoginOps == EnrolOps \cup {"verify", "assert", "assertFinish"}

PortalOps == EnrolOps \cup {"remove", "replace", "removeKey", "reset"}

ASSUME LimitAssumption ==
    /\ MaxPasskeys \in Nat \ {0}
    /\ AttemptLimit \in Nat \ {0}
    /\ MaxWrongCodes \in Nat \ {0}
ASSUME BoundAssumption ==
    /\ {MaxSecrets, MaxCodes, MaxChallenges} \subseteq Nat
    /\ MaxStep \in Nat \ {0}
ASSUME AskedAssumption == Asked \subseteq LoginOps \cup PortalOps
ASSUME NoneAssumption == None \notin Users \cup Sessions \cup Devices \cup Nat
ASSUME DevicesAssumption == IsFiniteSet(Devices)

Secrets == 1 .. MaxSecrets
Steps == 0 .. MaxStep
Holders == Sessions \cup Users

\* A row of user_totp. A time code is the secret and the step it was made from,
\* a recovery code is its digest.
Enrolment == [secret : Secrets, active : BOOLEAN, last : Steps]
TimeCode == [secret : Secrets, step : Steps]
RecoveryCode == [digest : 1 .. MaxCodes]

\* A row of user_webauthn_credentials. Removal keeps it, marked deleted.
Credential == [user : Users, live : BOOLEAN]

\* The SessionData of a ceremony. seen: the passkeys its start counted against
\* the cap; a challenge to sign in counts none.
Ceremony == [nonce : 1 .. MaxChallenges, user : Users, seen : 0 .. Cardinality(Devices)]

\* What completed a sign-in, with which challenge, and what it owed then.
Proof == [by : {"code", "recovery", "key", "enrolment"}, nonce : 0 .. MaxChallenges,
          owed : SUBSET (Secrets \cup Devices)]

ASSUME NoRowAssumption ==
    None \notin Enrolment \cup TimeCode \cup RecoveryCode \cup Credential \cup Ceremony \cup Proof

VARIABLES
    person,    \* whom each sign-in names, chosen once
    stage,     \* how far each sign-in is
    wrong,     \* the wrong codes it counted
    totp,      \* user_totp
    codes,     \* user_totp_recovery_codes: the digests a person holds
    key,       \* user_webauthn_credentials, by credential id
    ceremony,  \* Redis: the ceremony of each holder
    guesses,   \* Redis: the guesses of each person in the window
    now,       \* the time step
    secrets,   \* secrets minted so far
    issued,    \* recovery codes issued so far
    asked,     \* history: the holder each challenge was minted for
    proof,     \* history: what completed each sign-in
    owed,      \* history: factors held since its password step
    used,      \* history: codes accepted
    replayed,  \* history: codes accepted again
    cleared,   \* history: secrets of enrolments that were removed
    checked,   \* history: secrets a code of theirs was checked against
    compared,  \* history: how often a code of each person was compared
    overrun,   \* history: people a passkey landed for beyond what its start saw
    pc,        \* where each request stands
    req        \* the local variables of each request

logins == <<person, stage, wrong, proof, owed>>
coded == <<totp, codes, secrets, issued, used, replayed, cleared, checked>>
keyed == <<key, overrun>>
redis == <<ceremony, asked>>
budget == <<guesses, compared>>
vars == <<logins, coded, keyed, redis, budget, now, pc, req>>

PCs == {"idle", "guess", "read", "save", "insert", "ceremony", "take", "drop",
        "answer", "write"}

Req == [op     : LoginOps \cup PortalOps \cup {"none"},
        s      : Sessions \cup {None},
        u      : Users \cup {None},
        row    : {None} \cup Enrolment,
        code   : {None} \cup TimeCode \cup RecoveryCode,
        got    : {None} \cup Ceremony,
        device : Devices \cup {None},
        revive : BOOLEAN]

NoReq == [op |-> "none", s |-> None, u |-> None, row |-> None, code |-> None,
          got |-> None, device |-> None, revive |-> FALSE]

TypeOK ==
    /\ person \in [Sessions -> Users]
    /\ stage \in [Sessions -> {"identified", "password", "signed", "ended"}]
    /\ wrong \in [Sessions -> 0 .. MaxWrongCodes]
    /\ \A u \in Users : totp[u] = None \/ totp[u] \in Enrolment
    /\ codes \in [Users -> SUBSET (1 .. MaxCodes)]
    /\ \A d \in Devices : key[d] = None \/ key[d] \in Credential
    /\ \A h \in Holders : ceremony[h] = None \/ ceremony[h] \in Ceremony
    /\ guesses \in [Users -> 0 .. AttemptLimit]
    /\ now \in Steps
    /\ \A p \in Procs : pc[p] \in PCs /\ (pc[p] = "idle" <=> req[p] = NoReq)

-----------------------------------------------------------------------------

Active(u) == totp[u] # None /\ totp[u].active

LiveKeys(u) == {d \in Devices : key[d] # None /\ key[d].live /\ key[d].user = u}

\* holdsFactor: the pending steps name a challenge.
HoldsFactor(u) == Active(u) \/ LiveKeys(u) # {}

\* The factors a person holds, by name.
Held(u) == LiveKeys(u) \cup (IF Active(u) THEN {totp[u].secret} ELSE {})

\* Mutant of Holder: every ceremony of a person is kept under the person.
HolderByUser(r) == r.u

\* Principal.holder: a sign-in keeps its ceremony under the session.
Holder(r) == IF r.s # None THEN r.s ELSE r.u

\* verify: the current step or the one before it.
Proves(row, c) == c \in TimeCode /\ c.secret = row.secret /\ c.step \in {now, now - 1}

-----------------------------------------------------------------------------

Init ==
    /\ person \in [Sessions -> Users]
    /\ stage = [s \in Sessions |-> "identified"]
    /\ wrong = [s \in Sessions |-> 0]
    /\ totp = [u \in Users |-> None]
    /\ codes = [u \in Users |-> {}]
    /\ key = [d \in Devices |-> None]
    /\ ceremony = [h \in Holders |-> None]
    /\ guesses = [u \in Users |-> 0]
    /\ now = 1
    /\ secrets = 0
    /\ issued = 0
    /\ asked = [n \in 1 .. MaxChallenges |-> None]
    /\ proof = [s \in Sessions |-> None]
    /\ owed = [s \in Sessions |-> {}]
    /\ used = {}
    /\ replayed = {}
    /\ cleared = {}
    /\ checked = {}
    /\ compared = [u \in Users |-> 0]
    /\ overrun = {}
    /\ pc = [p \in Procs |-> "idle"]
    /\ req = [p \in Procs |-> NoReq]

Move(p, where, locals) ==
    /\ pc' = [pc EXCEPT ![p] = where]
    /\ req' = [req EXCEPT ![p] = locals]
    /\ UNCHANGED now

Done(p) == Move(p, "idle", NoReq)

\* The request is refused, or a read or its transaction fails: nothing is kept.
Refuse(p) == Done(p) /\ UNCHANGED <<logins, coded, keyed, redis, budget>>

\* The request goes on, having written nothing.
Go(p, where, locals) ==
    Move(p, where, locals) /\ UNCHANGED <<logins, coded, keyed, redis, budget>>

\* CompleteSession, on the transaction of the factor. A completion of the same
\* sign-in that overlaps this one may have been first.
Completes(s, by, nonce) ==
    /\ stage[s] \in {"password", "signed"}
    /\ stage' = [stage EXCEPT ![s] = "signed"]
    /\ proof' = [proof EXCEPT ![s] = [by |-> by, nonce |-> nonce, owed |-> owed[s]]]
    /\ UNCHANGED <<person, wrong, owed>>

\* The sign-in path completes its session, the portal path has none.
Finish(s, by, nonce) ==
    IF s = None THEN UNCHANGED logins ELSE Completes(s, by, nonce)

\* Factors that are gone are owed no more.
Forget(gone) ==
    /\ owed' = [s \in Sessions |-> owed[s] \ gone]
    /\ UNCHANGED <<person, stage, wrong, proof>>

\* wrong: a wrong code counts against the sign-in, and the last ends it.
Wrong(p) ==
    LET s == req[p].s
    IN  /\ Done(p)
        /\ IF s = None \/ stage[s] = "ended" THEN UNCHANGED <<stage, wrong>>
           ELSE /\ wrong' = [wrong EXCEPT ![s] = @ + 1]
                /\ stage' = [stage EXCEPT ![s] = IF wrong'[s] = MaxWrongCodes THEN "ended" ELSE @]
        /\ UNCHANGED <<person, proof, owed, coded, keyed, redis>>

\* A code bought something.
Accept(c) ==
    /\ used' = used \cup {c}
    /\ replayed' = IF c \in used THEN replayed \cup {c} ELSE replayed

Tick == now < MaxStep /\ now' = now + 1 /\ UNCHANGED <<logins, coded, keyed, redis, budget, pc, req>>

\* The password step of a sign-in tells the factors it owes.
ProvePassword(s) ==
    /\ stage[s] = "identified"
    /\ stage' = [stage EXCEPT ![s] = "password"]
    /\ owed' = [owed EXCEPT ![s] = Held(person[s])]
    /\ UNCHANGED <<person, wrong, proof, coded, keyed, redis, budget, now, pc, req>>

-----------------------------------------------------------------------------
(* The gates.                                                              *)

Of(op, s, u) == [NoReq EXCEPT !.op = op, !.s = s, !.u = u]

\* Mutant of Entry: activating an enrolment of one's own is no guess.
EntryUnmetered(op) ==
    CASE op = "verify" -> "guess"
      [] op \in {"enrolCode", "activate", "remove", "replace"} -> "read"
      [] op \in {"enrolKey", "assert"} -> "ceremony"
      [] op \in {"enrolKeyFinish", "assertFinish"} -> "take"
      [] OTHER -> "write"

\* The first thing each operation does past its gate.
Entry(op) ==
    CASE op \in {"activate", "verify"} -> "guess"
      [] op \in {"enrolCode", "remove", "replace"} -> "read"
      [] op \in {"enrolKey", "assert"} -> "ceremony"
      [] op \in {"enrolKeyFinish", "assertFinish"} -> "take"
      [] OTHER -> "write"

\* principal: the session names a person and proved a password.
ProvedPassword(s) == stage[s] = "password"

\* Mutant of Admitted: an enrolment is refused where it starts.
AdmittedAtStart(s, op) ==
    /\ ProvedPassword(s)
    /\ op \in {"enrolCode", "enrolKey"} => ~HoldsFactor(person[s])

\* refuseHeldFactor: a sign-in enrols a factor only for somebody who holds none.
Admitted(s, op) ==
    /\ ProvedPassword(s)
    /\ op \in EnrolOps => ~HoldsFactor(person[s])

AskLogin(p) ==
    /\ pc[p] = "idle"
    /\ \E s \in Sessions, op \in LoginOps \cap Asked :
        /\ Admitted(s, op)
        /\ Go(p, Entry(op), Of(op, s, person[s]))

\* A bearer of the person, who proves their password to remove or replace, or
\* of an administrator who may write the person.
AskPortal(p) ==
    /\ pc[p] = "idle"
    /\ \E u \in Users, op \in PortalOps \cap Asked :
        Go(p, Entry(op), Of(op, None, u))

\* Mutant of Spent: one guess past the limit.
SpentPast(u) == guesses[u] > AttemptLimit

Spent(u) == guesses[u] >= AttemptLimit

\* spendGuess: one hit of the window, before anything is read. A Redis failure
\* refuses too.
SpendGuess(p) ==
    /\ pc[p] = "guess"
    /\ LET u == req[p].u
       IN  IF Spent(u) THEN Refuse(p)
           ELSE /\ guesses' = [guesses EXCEPT ![u] = @ + 1]
                /\ Move(p, "read", req[p])
                /\ UNCHANGED <<logins, coded, keyed, redis, compared>>

-----------------------------------------------------------------------------
(* Time codes and recovery codes.                                          *)

At(p, where, ops) == pc[p] = where /\ req[p].op \in ops

\* start: an active enrolment is not replaced.
StartEnrolment(p) ==
    /\ At(p, "read", {"enrolCode"})
    /\ IF Active(req[p].u) THEN Refuse(p) ELSE Go(p, "save", req[p])

Written(u, row) ==
    /\ secrets < MaxSecrets
    /\ secrets' = secrets + 1
    /\ totp' = [totp EXCEPT ![u] = row]
    /\ UNCHANGED <<codes, issued, used, replayed, cleared, checked>>

Pending(secret) == [secret |-> secret, active |-> FALSE, last |-> 0]

\* SavePending: an UPDATE of the pending row and, where there is none, an INSERT
\* that meets any row.
SavePending(p) ==
    /\ At(p, "save", {"enrolCode"})
    /\ LET u == req[p].u
       IN  IF totp[u] # None /\ ~totp[u].active
           THEN Written(u, Pending(secrets + 1)) /\ Done(p)
                /\ UNCHANGED <<logins, keyed, redis, budget>>
           ELSE Go(p, "insert", req[p])

InsertPending(p) ==
    /\ At(p, "insert", {"enrolCode"})
    /\ LET u == req[p].u
       IN  IF totp[u] # None THEN Refuse(p)
           ELSE Written(u, Pending(secrets + 1)) /\ Done(p)
                /\ UNCHANGED <<logins, keyed, redis, budget>>

\* The codes an Authenticator shows, or showed one step ago, and a wrong one.
Presented == [secret : 1 .. secrets, step : {now, now - 1}] \cup {None}

Compare(p) ==
    /\ compared' = [compared EXCEPT ![req[p].u] = @ + 1]
    /\ UNCHANGED guesses

\* activate, to the transaction.
ProveEnrolment(p) ==
    /\ At(p, "read", {"activate"})
    /\ LET row == totp[req[p].u]
       IN  IF row = None \/ Active(req[p].u) THEN Refuse(p)
           ELSE \E c \in Presented :
                  /\ Compare(p)
                  /\ IF Proves(row, c)
                     THEN /\ Move(p, "write", [req[p] EXCEPT !.row = row, !.code = c])
                          /\ checked' = checked \cup {row.secret}
                          /\ UNCHANGED <<logins, keyed, redis>>
                          /\ UNCHANGED <<totp, codes, secrets, issued, used, replayed, cleared>>
                     ELSE Wrong(p)

\* Mutant of Matches: any pending row is activated.
MatchesAny(row, seen) == row # None /\ ~row.active

\* The WHERE of Activate: the row is pending and holds the secret that was read.
Matches(row, seen) == row # None /\ ~row.active /\ row.secret = seen.secret

\* A fresh set of recovery codes replaces the set of a person.
Reissue(u) ==
    /\ issued < MaxCodes
    /\ issued' = issued + 1
    /\ codes' = [codes EXCEPT ![u] = {issued + 1}]

WriteActivation(p) ==
    /\ At(p, "write", {"activate"})
    /\ LET r == req[p]
       IN  IF ~Matches(totp[r.u], r.row) THEN Refuse(p)
           ELSE /\ totp' = [totp EXCEPT ![r.u].active = TRUE, ![r.u].last = r.code.step]
                /\ Reissue(r.u)
                /\ Accept(r.code)
                /\ Finish(r.s, "enrolment", 0)
                /\ Done(p)
                /\ UNCHANGED <<secrets, cleared, checked, keyed, redis, budget>>

\* Verify, to the transaction. Six digits are a time code, checked here; anything
\* else is a recovery code, looked for when it is redeemed.
AnswerChallenge(p) ==
    /\ At(p, "read", {"verify"})
    /\ LET row == totp[req[p].u]
       IN  IF ~Active(req[p].u) THEN Refuse(p)
           ELSE \/ \E c \in Presented :
                     /\ Compare(p)
                     /\ IF Proves(row, c)
                        THEN /\ Move(p, "write", [req[p] EXCEPT !.row = row, !.code = c])
                             /\ UNCHANGED <<logins, coded, keyed, redis>>
                        ELSE Wrong(p)
                \/ \E n \in 1 .. issued :
                     /\ Compare(p)
                     /\ Move(p, "write", [req[p] EXCEPT !.row = row, !.code = [digest |-> n]])
                     /\ UNCHANGED <<logins, coded, keyed, redis>>

\* Mutant of Fresh: the step the enrolment was activated with buys a challenge.
FreshAtMost(u, step) == totp[u] # None /\ totp[u].last <= step

\* The WHERE of SpendStep: whatever enrolment the row now holds.
Fresh(u, step) == totp[u] # None /\ totp[u].last < step

SpendStep(p) ==
    /\ At(p, "write", {"verify"})
    /\ req[p].code \in TimeCode
    /\ LET r == req[p]
       IN  IF ~Fresh(r.u, r.code.step) THEN Wrong(p) /\ UNCHANGED budget
           ELSE /\ totp' = [totp EXCEPT ![r.u].last = r.code.step]
                /\ Accept(r.code)
                /\ Completes(r.s, "code", 0)
                /\ Done(p)
                /\ UNCHANGED <<codes, secrets, issued, cleared, checked, keyed, redis, budget>>

RedeemRecoveryCode(p) ==
    /\ At(p, "write", {"verify"})
    /\ req[p].code \in RecoveryCode
    /\ LET r == req[p]
       IN  IF r.code.digest \notin codes[r.u] THEN Wrong(p) /\ UNCHANGED budget
           ELSE /\ codes' = [codes EXCEPT ![r.u] = @ \ {r.code.digest}]
                /\ Accept(r.code)
                /\ Completes(r.s, "recovery", 0)
                /\ Done(p)
                /\ UNCHANGED <<totp, secrets, issued, cleared, checked, keyed, redis, budget>>

\* The portal takes an active factor away, or its recovery codes.
ReadFactor(p) ==
    /\ At(p, "read", {"remove", "replace"})
    /\ IF Active(req[p].u) THEN Go(p, "write", req[p]) ELSE Refuse(p)

ReplaceCodes(p) ==
    /\ At(p, "write", {"replace"})
    /\ Reissue(req[p].u)
    /\ Done(p)
    /\ UNCHANGED <<totp, secrets, used, replayed, cleared, checked>>
    /\ UNCHANGED <<logins, keyed, redis, budget>>

\* Clear: both deletes are hard, whatever the row has become.
Clear(u) ==
    /\ totp' = [totp EXCEPT ![u] = None]
    /\ codes' = [codes EXCEPT ![u] = {}]
    /\ cleared' = IF totp[u] = None THEN cleared ELSE cleared \cup {totp[u].secret}
    /\ UNCHANGED <<secrets, issued, used, replayed, checked>>

RemoveCodes(p) ==
    /\ At(p, "write", {"remove"})
    /\ Clear(req[p].u)
    /\ Forget({row.secret : row \in {totp[req[p].u]} \ {None}})
    /\ Done(p)
    /\ UNCHANGED <<keyed, redis, budget>>

\* ClearPasskeys: the live ones of a person.
ClearPasskeys(u) ==
    key' = [d \in Devices |-> IF d \in LiveKeys(u) THEN [key[d] EXCEPT !.live = FALSE]
                              ELSE key[d]]

\* ResetMFA clears both kinds in one transaction.
ResetMFA(p) ==
    /\ At(p, "write", {"reset"})
    /\ LET u == req[p].u
       IN  /\ Clear(u)
           /\ ClearPasskeys(u)
           /\ owed' = [s \in Sessions |-> IF person[s] = u THEN {} ELSE owed[s]]
           /\ Done(p)
           /\ UNCHANGED <<person, stage, wrong, proof, overrun, redis, budget>>

-----------------------------------------------------------------------------
(* Passkeys.                                                               *)

Minted == {n \in DOMAIN asked : asked[n] # None}

BelowCap(u) == Cardinality(LiveKeys(u)) < MaxPasskeys

\* store: the ceremony replaces whatever its holder had.
Open(p, seen) ==
    LET r == req[p]
        n == Cardinality(Minted) + 1
    IN  /\ n <= MaxChallenges
        /\ ceremony' = [ceremony EXCEPT ![Holder(r)] = [nonce |-> n, user |-> r.u, seen |-> seen]]
        /\ asked' = [asked EXCEPT ![n] = IF r.s # None THEN r.s ELSE r.u]
        /\ Done(p)
        /\ UNCHANGED <<logins, coded, keyed, budget>>

OpenRegistration(p) ==
    /\ At(p, "ceremony", {"enrolKey"})
    /\ LET u == req[p].u
       IN  IF BelowCap(u) THEN Open(p, Cardinality(LiveKeys(u))) ELSE Refuse(p)

OpenAssertion(p) ==
    /\ At(p, "ceremony", {"assert"})
    /\ IF LiveKeys(req[p].u) # {} THEN Open(p, 0) ELSE Refuse(p)

\* spendEnrolment and spendChallenge: the starts of the hour are used up, or nothing
\* can count them.
TooManyStarts(p) == pc[p] = "ceremony" /\ Refuse(p)

\* The TTL of a ceremony runs out.
Expire(h) ==
    /\ ceremony[h] # None
    /\ ceremony' = [ceremony EXCEPT ![h] = None]
    /\ UNCHANGED <<logins, coded, keyed, asked, budget, now, pc, req>>

\* consume: a Get ...
TakeCeremony(p) ==
    /\ pc[p] = "take"
    /\ LET held == ceremony[Holder(req[p])]
       IN  IF held = None THEN Refuse(p)
           ELSE Go(p, "drop", [req[p] EXCEPT !.got = held])

\* ... and a Del, whose failure is only logged.
DropCeremony(p) ==
    /\ pc[p] = "drop"
    /\ ceremony' \in {[ceremony EXCEPT ![Holder(req[p])] = None], ceremony}
    /\ Move(p, "answer", req[p])
    /\ UNCHANGED <<logins, coded, keyed, asked, budget>>

\* registerFinish, to the transaction: a device answered the challenge for the
\* person it was minted for, and claim reads what holds its credential id.
AnswerRegistration(p) ==
    /\ At(p, "answer", {"enrolKeyFinish"})
    /\ req[p].got.user = req[p].u
    /\ \E d \in Devices :
        IF key[d] # None /\ key[d].live THEN Refuse(p)
        ELSE Go(p, "write", [req[p] EXCEPT !.device = d, !.revive = key[d] # None])

\* Mutant of Claims: a revival takes the row whoever holds it by now.
ClaimsAnyRow(r) == IF r.revive THEN key[r.device] # None ELSE key[r.device] = None

\* Insert meets any row, and Revive the removed one only.
Claims(r) ==
    IF r.revive THEN key[r.device] # None /\ ~key[r.device].live
    ELSE key[r.device] = None

WriteRegistration(p) ==
    /\ At(p, "write", {"enrolKeyFinish"})
    /\ LET r == req[p]
       IN  IF ~Claims(r) THEN Refuse(p)
           ELSE /\ key' = [key EXCEPT ![r.device] = [user |-> r.u, live |-> TRUE]]
                /\ overrun' = IF Cardinality(LiveKeys(r.u)) > r.got.seen
                              THEN overrun \cup {r.u} ELSE overrun
                /\ Finish(r.s, "enrolment", r.got.nonce)
                /\ Done(p)
                /\ UNCHANGED <<coded, redis, budget>>

\* LoginFinish, to the transaction: one of the person's passkeys answered.
AnswerAssertion(p) ==
    /\ At(p, "answer", {"assertFinish"})
    /\ req[p].got.user = req[p].u
    /\ \E d \in LiveKeys(req[p].u) : Go(p, "write", [req[p] EXCEPT !.device = d])

\* Touch meets the live row of the person only.
WriteAssertion(p) ==
    /\ At(p, "write", {"assertFinish"})
    /\ LET r == req[p]
       IN  IF r.device \notin LiveKeys(r.u) THEN Refuse(p)
           ELSE /\ Completes(r.s, "key", r.got.nonce)
                /\ Done(p)
                /\ UNCHANGED <<coded, keyed, redis, budget>>

\* The portal and the console remove one passkey.
RemoveKey(p) ==
    /\ At(p, "write", {"removeKey"})
    /\ \E d \in LiveKeys(req[p].u) :
        /\ key' = [key EXCEPT ![d].live = FALSE]
        /\ Forget({d})
        /\ Done(p)
        /\ UNCHANGED <<overrun, coded, redis, budget>>

\* A refusal the model keeps no reason for: an origin the relying party does not
\* cover, a wrong answer, a failed read or commit.
Abandon(p) == pc[p] # "idle" /\ Refuse(p)

Next ==
    \/ Tick
    \/ \E s \in Sessions : ProvePassword(s)
    \/ \E h \in Holders : Expire(h)
    \/ \E p \in Procs :
        \/ AskLogin(p)
        \/ AskPortal(p)
        \/ SpendGuess(p)
        \/ StartEnrolment(p)
        \/ SavePending(p)
        \/ InsertPending(p)
        \/ ProveEnrolment(p)
        \/ WriteActivation(p)
        \/ AnswerChallenge(p)
        \/ SpendStep(p)
        \/ RedeemRecoveryCode(p)
        \/ ReadFactor(p)
        \/ ReplaceCodes(p)
        \/ RemoveCodes(p)
        \/ ResetMFA(p)
        \/ OpenRegistration(p)
        \/ OpenAssertion(p)
        \/ TooManyStarts(p)
        \/ TakeCeremony(p)
        \/ DropCeremony(p)
        \/ AnswerRegistration(p)
        \/ WriteRegistration(p)
        \/ AnswerAssertion(p)
        \/ WriteAssertion(p)
        \/ RemoveKey(p)
        \/ Abandon(p)

Spec == Init /\ [][Next]_vars

-----------------------------------------------------------------------------
(* Properties.                                                             *)

\* A code buys one thing: no recovery code ever, and no time code by any mix of
\* activation and challenge, is accepted a second time. A time code whose
\* enrolment was removed under a request that had checked it may be, as the step
\* is then spent on whatever enrolment came after.
OneCodeOneUse == \A c \in replayed : c \in TimeCode /\ c.secret \in cleared

\* "only the secret a code proved is ever activated", whatever starts replace
\* the pending secret between the check and the write.
OnlyProvedSecrets == \A u \in Users : Active(u) => totp[u].secret \in checked

\* A sign-in has no way around the challenge: one that is completed by enrolling
\* a factor owed none it told the person about at the password step, whichever
\* request left the pending enrolment behind and whichever kind the person holds.
NoWayAround ==
    \A s \in Sessions : (proof[s] # None /\ proof[s].by = "enrolment") => proof[s].owed = {}

\* A ceremony is its holder's: a passkey completes a sign-in with the answer to a
\* challenge that was minted for that sign-in, whatever ceremonies the person
\* runs in another sign-in or in the portal.
ChallengeFitsSignIn ==
    \A s \in Sessions :
        (proof[s] # None /\ proof[s].nonce # 0) => asked[proof[s].nonce] = s

\* Nobody holds more passkeys than the cap, unless another one landed between
\* the start that counted them and the finish, or the finish answered a challenge
\* to sign in, which the same holder keeps under the same key. And the guessing
\* budget counts every code that is compared, at the challenge and at the
\* activation of an enrolment, over all sign-ins of a person.
CapsHold ==
    \A u \in Users :
        /\ Cardinality(LiveKeys(u)) <= MaxPasskeys \/ u \in overrun
        /\ compared[u] <= AttemptLimit

\* A live passkey is never taken over, whoever finds its row removed.
DeviceKeepsOwner ==
    [][\A d \in Devices :
          (key[d] # None /\ key[d].live /\ key'[d].live) => key'[d].user = key[d].user]_vars

=============================================================================

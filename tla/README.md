# A verification project for the identity gateway

TLA+ modules that model the gateway's stateful core, TLC configurations that
check them on small instances, and TLAPS proofs of what matters most. Paths are
relative to the repository root; Go paths to `src/internal/`.

## The system

The gateway signs people in for the tenants of one installation and issues
OpenID Connect tokens to their applications. It is one Go process (or several,
side by side) over MySQL (`REPEATABLE READ`, through `platform/db`) and Redis
(`platform/cache`). The protocol engine, go-oidc, is a library the repository
configures and gives its storage.

| Component | State it keeps | Operations | What makes it correct |
|---|---|---|---|
| Login sessions (`session/`) | a row per sign-in: token digest, state, person, factors, wrong codes, deadline; a copy in Redis | identify, open, password, second factor, scan, wrong code, finalize, logout, terminate, revoke | a token names its own session, and one person for good; a retired token never answers; every factor on a session was proved in it; the finalize gate lets nobody past with a step owed |
| Grants (`oidc/storage_repo.go`, `oidc/grant_repo.go`, `api/oidc/storage.go`, `api/oidc/logout.go`) | a row per grant: session, client, refresh token, revoked; the digests of superseded refresh tokens | authorize, redeem, refresh, replay, revoke, RP logout, deletes from console and portal | a code and a refresh token buy one token; a replay is recognised and kills the grant; a sign-out takes every grant of its session; what is dead stays dead |
| Authorization and consent (`api/oidc/policy.go`, `oidc/consent_*.go`) | the authn session; consented scopes per person and client | start, finalize, decide, resume, disconnect | no code without a finalized session and a consent that covers it |
| Memberships and owner rails (`organization/member_service.go`, `tenant/`, `user/service.go`) | roles per person, per tenant and per organization | add, change, remove a membership; disable, delete a person | a tenant keeps an owner, and one whose password the gateway itself checks |
| Second factors (`totp/`, `passkey/`) | enrolments, pending secrets, last step spent, recovery codes; passkeys; ceremonies in Redis | start, activate, verify, replace, register, assert, remove, reset | a code is spent once; only a proved secret is activated; a challenge answers the sign-in it was minted for; nobody enrols past a factor they owe |
| QR sign-in (`qrlogin/`) | a transaction per scan: state, person, deadline | start, callback, poll | one push finishes one transaction, and the browser that started it |
| Federation (`userfederation/`) | directories, claimed domains, links | resolve, provision, claim, unlink, delete | the proof signs in the person it names; one person per directory entry; nobody offboarded comes back as somebody new; a claim never locks the last local owner out |
| People (`user/`) | state, credential, one-time tokens | create, invite, disable, delete, reset, change password | a person an administrator disabled or deleted is nobody a sign-in can find |
| Budgets (`platform/cache/rueidis.go`) | sliding logs in Redis | allow, release | no window holds more than its limit, and every guess is counted |
| Provider registry (`api/oidc/registry.go`) | a provider per tenant for five minutes | build, serve | what was switched off is served for a TTL at most |
| Tenants and domains (`tenant/admin_*.go`, `middlewares/tenant.go`) | the hosts of each tenant | add, restore, remove, resolve | the host of the issuer stays; one registrable domain, on which passkeys hang |
| Organizations, projects, applications (`organization/`, `project/`, `application/`) | rows that are soft-deleted, a client per application | create, update, rotate, delete | a delete takes what it should, and what it leaves is known |
| Scopes and claim mappers (`oidc/scope_*`, `oidc/mapper_*`) | scopes, the claims each releases | create, rename, delete | no scope goes while a client holds it; a cap; protected claims stay |
| Keys (`oidc/key_*.go`, `platform/crypto/`), authentication policy, audit, notifications, HTTP wiring, configuration, web front ends | keys, one policy row per level, append-only audit | reads and single-row writes | nothing that interleaves |

How they interact. A sign-in opens a **login session** with a bearer token,
proves a password, a scan and second factors, each of which rotates the token,
and passes the finalize gate. The gate answers the **authorization** request,
which makes a **grant**; the grant turns a code into a refresh token and each
refresh token into the next. An RP-initiated logout ends the session and revokes
its grants; a revocation in the console or the portal deletes both; the login
front end's own logout ends only the session. **Factors**, **QR** and
**federation** prove the steps of a session through functions the router wires
together; **memberships** and **people** decide who may administer all of it, and the
**console** configures what clients, scopes and hosts there are.

What is hard: every service reads, decides and writes a whole row, usually
without a lock across the three; some calls run in a transaction and some do
not; a transaction is rolled back on any answer of 400 or worse; Redis is
written inside a transaction and is not rolled back with it; and budgets,
deadlines and ceremonies end by timeouts.

## Modules

| Module | What it is |
|---|---|
| `TokenLife` | The abstract specification: tokens are issued once, each session (or grant) answers to at most one live token, and a dead token never answers again. |
| `LoginSession` | Login sessions, statement by statement, with row locks, commits and the Redis copy. Refines `TokenLife`. |
| `Grants` | Grants and refresh tokens, with snapshot transactions. Refines `TokenLife` with grants for sessions. |
| `Authorization` | Authorization requests from admission to grant, the finalize step, consents, and the cached provider. |
| `Factors` | Time codes, recovery codes and passkeys, in a sign-in, the portal and the console. |
| `QrLogin` | QR sign-in: browser, verifier and callback, with faults, deadlines and liveness. |
| `Federation` | Directories: which one answers, what a proof signs in as, first bind, links. |
| `Owners` | Memberships, people and domain claims: who administers a tenant, and whether somebody is left to. |
| `Console` | Organizations, projects, applications, scopes, claim mappers and hosts. |
| `MC...` | One per module: symmetry sets, definitions for constants, and the scenes of its run. |
| `LoginSession_proofs` | Types, and the five properties of sessions that hold under any overlap. |
| `Grants_proofs` | Types, the four properties of grants, and that grants implement `TokenLife`. |
| `Owners_proofs` | Types, the holders of claims, the last local owner, and that a lockout is for good. |
| `Factors_proofs`, `QrLogin_proofs`, `Authorization_proofs`, `Federation_proofs`, `Console_proofs` | Types and every safety property of the module they extend. |

How they fit. Each module sees of the others what its code does: `LoginSession`
proves a factor in one action and takes what `pendingSteps` answers as a free
choice, `Factors` and `QrLogin` are what stands behind those actions, and
`Federation` is what stands behind `VerifyPassword` for a directory session: whom a
bind answers is a free choice of all people there, at every bind anew, since the
entry an identifier finds changes as the directory hands names on
(`Federation!DirectoryChanges`). `Authorization` takes who `ResolveForFinalize` names
and makes the grants that `Grants` begins with. Each such choice is meant to be at
least as wide as what stands behind it; that it is so is argued here and checked by
nothing, since no module composes them.

### LoginSession

`row` is the table `login_sessions`, as committed; `staged` what a transaction
has written and not committed; `lock` the row locks; `cache` the Redis entries by
token; `minter` the session each token was minted for; `disclosed` the tokens a
client was given. `origin` holds what a session is opened with and no step
rewrites: whether its password is a local hash or a bind (`FederationID`), or whether
it is a QR sign-in, with the person its one transaction resolves to
(`qrlogin/service.go`: a recorded result is never replaced). It does not say
who a directory session is of. `Provable` is whom a password step may prove: the
person named, for a local hash; anybody, for a bind, since `PersonOf` returns the
linked person without comparing them with the person the session names. The person
proved replaces the person named, and the factors stay (`session/service.go:281-295`).
`proved` is history: who proved what in which session.

A request (`pc[p]`, `req[p]`) presents a token (`Present`), looks it up in Redis
(`GetHit`, `GetMiss`), reads the row on a miss (`ReadRow`), refills the cache
(`Refill`) and then does its step: `VerifyPassword`, `ProveFactor`, `Complete`,
`WrongCode` with `CountWrongCode`, `Finalize`, or a logout. A step that succeeds
rotates the token: `SaveRow` stages the whole row as the request sees it,
`DropRotated` deletes the old entry, `PutCache` puts the new one, and `Commit`
publishes the row. That order, with Redis before the commit, is the code's
(`session/cache.go:20-67` inside the `InTx` of `session/service.go:584-612`).
`CountWrongCode` saves outside a transaction, as the code does. `TerminateRead`,
`EndRows` and `DropEnded` are the three steps of a termination; `RevokeRead` those
of the console and the portal. `Abandon` is a request that stops anywhere: a
transaction is rolled back, Redis is not. A Redis call may fail wherever
`RedisFails` says so, and the code only logs it.

A token stands for its digest. A factor stands for the method that was proved;
that the proof itself is right is the business of the factor's own component.
What `pendingSteps` answers is any list the router can build (`StepLists`), since
it reads tables other requests change.

### Grants

`grant` is `oidc_grants`, `superseded` `oidc_superseded_refresh_tokens`,
`session` the state of each login session as a sign-out sees it. A grant's code
is redeemable while the grant has no refresh token. A request that runs in a
transaction reads in one action (its snapshot, `seen`), takes its row locks in
`Write`, and publishes everything in `Commit`; `Written` and `Writes` say which
rows and how. `Reject` is the rollback of a replay: the engine answers 400 and
`api/http/middlewares/intx.go:51` rolls the request back. `/revoke`,
`/introspect` and `/authorize` mount no transaction, so `RevokeFind`,
`RevokeRetain`, `SaveRevoked`, `ReplayLook`, `ReplayForget` and `CreateGrant` are
statements that commit one by one.

`stale` is history: the grants some write touched without having seen their
committed row. Several properties are claimed for all grants except those; the
section on what overlaps lose says what happens to those.

The engine is external: that it redeems a code once, stamps
`RevokedAt`, rotates a refresh token, and turns a not-found into `invalid_grant`
is taken from the store functions that serve it and the flow tests.

### Authorization

`authn` is `oidc_sessions`, `consent` `oidc_user_consents`, `provider` the entry
of the registry, `enabled` the scopes that are switched on, `auth` when each
person signed in. A finalize is `Finalize`, `FindRequest`, `DecideConsent`,
`ReadConsent`, `SaveConsent`, `SaveRequest`: each statement of
`api/oidc/policy.go` and `oidc/consent_service.go` by itself, since only the
consent is written in a transaction, and the row of a request is read once and
written back whole. `Begin` and `Resume` are the external engine. `verdict`
remembers what the last finalize said, `retired` when a scope was switched off,
`raced` the pairs whose consent an overlap lost. `Served` reads the scopes and stamps
the deadline in one step, so the time a build takes (`api/oidc/provider.go:183` to
`api/oidc/registry.go:70`) is not counted: `ScopesRetire` bounds the age of an entry by
the TTL from its stamp, and the code by the TTL and one build.

### Factors

`totp` is `user_totp`, `codes` the recovery codes, `key` the passkeys by
credential id, `ceremony` the Redis entry of each holder, `guesses` the budget.
An operation is an `Ask` with its gate, reads as actions, and one action for its
transaction: the guarded statements (`Matches` for `Activate`, `Fresh` for
`SpendStep`, `Claims` for `Insert` and `Revive`) are where two requests meet. A
ceremony is taken by a `Get` (`TakeCeremony`) and a `Del` that may fail
(`DropCeremony`). Opening one (`OpenRegistration`, `OpenAssertion`) is the exception: the
read of the person's keys and the Redis write that follows it are one action, so a
key that comes or goes between the two is seen as coming or going before or after. A sign-in is what these services see of it: `stage`, the wrong
codes, and the history `owed`, the factors it told the person about. A time code
is the secret and the step it was made from; the clock counts steps.

### QrLogin

`row` is `qr_login_transactions`, `browser` what each browser was told last,
`push` what the verifier sent and `due` whether it was answered. The callback is
`Receive`, `Claim`, `Resolve`, `Record` or `RecordFailure`, which commit one by
one; `Break` is a statement that fails and `Crash` a stop of the process. A push
may arrive again after it was answered. References of a push name the
transaction, an identifier the gateway never stored, or nothing.

### Federation

`directory` is what the directories hold, which changes at any time: an entry
keeps its id, while its username and address are renamed and handed on. A
sign-in is `Identify`, `Resolve`, `FindFederation`, `Bind`, then `FindLink` with
`CanSignIn`, `HoldsNoLink` or `Provision`, `HeldAlready` and `CreatePerson`, each
read by itself. `person` numbers rows as they are written, deleted ones included.
`twin` and `stale` say which people and requests an overlap touched.

### Owners

`member[o][u]` is the roles of one person in one roster, the tenant's when `o` is
`None` (`tenant_members`, `organization_members`; a revoked row and none are the
same). `account` is `users.state` with the deletion mark, `hash` whether a
password hash is stored, `fed` and `claim` the directories and who holds each
email domain. Email addresses, the organization of an account and the level of a
directory are written once (`domainOf`, `home`, `level`).

Every write of the console has one shape: it reads the rights of the person who
asks (`AskMember`, `AskUser`, `AskPerson`, `AskClaim`, `AskDeleteFed`), runs its
owner rails as separate reads (`Sit`, `ReadHeld`, `CountOwners`, `ReadLocal`), and
then opens a transaction that only writes (`WriteMember`, `WriteUser`,
`WritePerson`, `WriteClaim`, `WriteDeleteFed`), whose statements lock the rows
they touch and so are one action. The two queries behind the rights are read as
one. `Add` has no rail: it goes from its gate to its write. `AskProvision` is
the first bind, which no administrator asks for. A bearer token names its subject
until it expires, and no console write reads the account of the person who asks,
so everybody who was ever created may ask.

Two histories say where a property stops: `stripped`, that an `Add` took
`IAM_OWNER` from somebody, and `raced`, that a write committed after what its
rail had read was no longer so. The code declares the second
(`organization/member_service.go:394-396`); the first is a finding.

### Console

One variable per table. Every request is two actions: `Decide` reads, `Commit`
writes what was decided, and the row conditions and unique keys of the statement
guard the write (`Live`, `ScopeKey`, `MapperKey`, `ClientKey`). Whether the reads
are a transaction's snapshot or statements before it makes no difference to that
shape. `stale` names the requests whose reads another write outdated. The bootstrap
seeds the default organization, the builtin scopes and the mapper of a protected
claim. A name, a claim and a host are model values; `Registrable` is the public
suffix list.

## Runs

| Run | Asks | Bounds |
|---|---|---|
| `session_serial` | `TypeOK`, `TokenNamesItsSession`, `CacheAgreesWithRow` when requests come one after another | 1 request at a time, 2 sessions, 3 tokens, clock to 1, Redis may fail |
| `session_concurrent` | `FactorsProved`, `FinalizeAnswersTheGate`, `TokenSpeaksForOne`, and `KeepsPromise`, the refinement of `TokenLife`, when two requests interleave and binds answer either person | 2 requests, 1 session of a directory or of a QR sign-in, 2 people, 4 tokens; scenes `Rebinding`, `Steps`, `Binds`, `Endings`, `Polls` |
| `session_dead_token` | violated: `DeadTokenStaysDead` | 2 requests, 1 session, 3 tokens |
| `grants` | `TypeOK`, `ExchangedOnce`, `ReplaysAreToldApart`, `SignOutReachesGrants`, `DeadGrantsStayDead`, and `RefreshTokensKeepPromise`, the refinement of `TokenLife` | 2 requests, 2 grants, 2 sessions, 3 tokens, clock to 2; scenes `Overlap`, `OneGrant`, `TwoGrants` |
| `grants_replay` | violated: `ReplayKillsGrant` | 1 request, 1 grant |
| `authorization` | `TypeOK`, `GrantsAreConsented`, `AnswersHold`, `ScopesRetire` | 2 finalize calls, 2 requests, 2 people, 2 clients, 2 scopes, clock to 2; scenes `Overlap`, `OneByOne`, `Switching` |
| `factors` | `TypeOK`, `OneCodeOneUse`, `OnlyProvedSecrets`, `NoWayAround`, `ChallengeFitsSignIn`, `CapsHold`, `DeviceKeepsOwner` | 2 requests, 2 people, 2 sign-ins, 2 devices, 2 secrets, 2 challenges; scenes `CodesRace`, `KeysRace`, `DeviceRace`, `Serial` |
| `qr` | `TypeOK`, `ScanFitsTransaction`, `ResolvesOnce`, `BrowserIsAnswered`, `AcceptedScanSignsIn` | 2 transactions, 2 people, 2 callbacks, 2 faults, clock to 2; one transaction is used while the other is there to be mixed up with it |
| `federation` | `TypeOK`, `OffboardedStaysOut`, `ProofNamesPerson`, `ACredentialStays` | 2 requests, 2 federations, 2 entries, 3 forms, 2 people; scenes `Renaming`, `Offboarding`, `Overlap` |
| `owners` | `TypeOK`, `ALocalOwnerStays`, `ClaimsHaveHolders`, `LockoutIsForGood` | 2 requests, 2 people, 1 organization, 1 directory, 1 domain; scenes `Directory`, `Members` |
| `owners_add` | violated: `NeverWithoutLocalOwner` | 1 request, 2 people |
| `console` | `TypeOK`, `LimitsHold`, `DeletesHold` | 2 requests, 2 organizations, 1 project, 2 applications, 3 scopes, 3 mappers, 2 tenants, 5 hosts; scenes `Organizing`, `Catalogue`, `Releases`, `Hosting` |

Scenes. The breadth of a module and an overlap of two requests on it are more
than one run can explore, so the `MC` module of a run names the scenes it looks
into, and `Within`, their disjunction, is its `CONSTRAINT`: a state outside every
scene is checked and not explored further. Each module has a scene with one
request at a time over the breadth of its operations, and scenes with two
requests on the rows they can meet on. A scene says which rows exist and which
operations run; it never says what they do.

Why the bounds are enough. An overlap needs two requests on one row, which is
what the overlapping scenes have; a third request adds no third kind of writer,
as each writes the row it read. Three tokens let a token be issued, rotated and
rotated again while a stale copy of the first is still held; the fourth of
`session_concurrent` is for the bind of a second person after a bind and a second
factor of the first, which `Rebinding` reaches one request at a time and `Binds`
with a bind and a second factor side by side. Two sessions,
grants, transactions or people are what it takes for one to be mistaken for the
other. Limits are small so that they are met: `MaxWrongCodes` is 2, so that one
wrong code is counted and the next ends the session; `MaxPasskeys` 1,
`AttemptLimit` 2 and `MaxMappers` 2 are met by the requests there are; `PruneBatch`
is 1, so that a sweep leaves something to sweep. Clocks reach the deadline that
matters and pass it. In `Owners` and `Console` a role list, a claim and a host
stand for those with the same rights, mapper or registrable domain. In
`Federation`, three identifiers are a name, the name it changes into, and an email
address in the one domain. Deadlock is not checked: a model with a finite stock of
tokens, secrets, rows or time comes to rest.

Fairness. Only `qr` checks liveness. `QrLogin!Fairness` is weak fairness of the
clock, of the poll of a browser that was told to wait (the login front end polls
until it is told otherwise), of a callback that runs (a handler that was entered
is scheduled until it returns or the process stops, which is `Crash`), and of the
arrival of a push that was not answered, as the verifier retries. It says nothing
of the start of a sign-in, of a wallet that answers, or of a second delivery of an
answered push. `BrowserIsAnswered` then needs the deadline, since a claim may be
lost in a crash; `AcceptedScanSignsIn` is claimed where no fault hit the
transaction.

## What the violated runs show

- **A dead session comes back** (`session_dead_token`). `FailSecondFactor` saves
  the session as it read it, state active; a logout in between is overwritten.
- **A replay does not kill the grant** (`grants_replay`). The revocation and its
  audit row are part of a request that answers 400 and is rolled back.
- **Adding the last owner again removes them** (`owners_add`). `Add` replaces the
  roles of a sitting member and asks neither rail, so the only `IAM_OWNER` can be
  made an `IAM_ADMIN`. `LockoutIsForGood` shows what follows: no request of
  anybody brings an owner back.

In each case the invariants of the passing runs say what still holds:
whatever comes back, comes back under a token of the same session, for the person
that token was handed to, and with factors that were proved in it; a refresh token that stopped answering never
answers again.

## What overlaps lose

Properties that exempt an overlap do so where the code does lose something. What
that is, by module, for whoever reads a history variable and asks why it is there:

- **Sessions.** The Redis entry of a rotated token is deleted before the commit
  that retires it. A reader that misses in between refills it from the old row,
  and it answers until its TTL, which the comment at `session/cache.go:26-27` says
  cannot be. So `CacheAgreesWithRow` is checked with one request at a time, and
  nothing is claimed of when such an entry goes; `TokenSpeaksForOne` bounds what it
  answers meanwhile.
- **Sessions, without an overlap** (`Inherited`). A second bind of a directory session
  may answer somebody else, when the directory handed the identifier on in between.
  The session then names the second person and keeps the factors: after password and
  code of one person and the password of another it carries both factors under the
  other's name, and the finalize gate takes the code for a step the other one owes.
  The comment inside the step expects the bind to have "changed the person"
  (`session/service.go:266-268`); the contracts around it do not. `Prover` says "The
  answer names that same person when the session named one"
  (`session/service.go:86-87`), `prove` that "The person is the one the session already
  named, except on the first bind" (`session/service.go:337-338`), while
  `userfederation/provision.go:69-98` returns the linked person whoever the session
  names, and `ErrSubjectBound` guards `Complete` alone (`session/model.go:126-129`).
  `FactorsProved` and `FinalizeAnswersTheGate` claim a factor for the person named
  except for such a second factor: the password or the scan is always that of the
  person named, and a second factor of somebody who proved the password too.
- **Grants** (`stale`). A sign-out commits while a redemption is in flight, whose
  upsert writes the unrevoked grant back. A code that two requests redeem at once
  buys two tokens, of which one is current.
- **Owners** (`raced`). `organization/member_service.go:394-396` declares it. A
  role change that read a member whom a revoke then removed seats them again, as
  the upsert clears the deletion mark, and is recorded as a change of roles.
- **Authorization** (`raced`). Two approvals of one pair keep the scopes of the
  later one only. A disconnect does not reach a finalize that runs or a request that
  is tied and not resumed. Where there is a grant and no consent (a client of the
  operator), a disconnect is refused and the grant stays.
- **Factors** (`cleared`, `overrun`). A code that was checked against an enrolment
  which is removed meanwhile is spent on the one that follows. The cap on passkeys
  is not counted again at the finish. Assertions and registrations of one holder
  share one Redis key, so the finish of a registration takes a challenge to sign in,
  for which nothing was counted.
- **Federation** (`twin`, `stale`). A row written between `heldAlready` and the
  create is not seen, and only the unique key of the username is left. A
  federation switched on between the check and the unlink leaves a person without a
  credential. `AnotherEntry` reads the links of active federations only. A local
  person whose address a directory claims, deactivated between identifier and
  password, still signs in when the directory proves them
  (`userfederation/provision.go:76-81`).
- **Console** (`stale`, `raced`). The cap of mappers, the scope a mapper lands on
  and the registrable domain are read from a snapshot and written under no lock. A
  restored host is put back whatever its domain, which `tenant/admin_service.go:174`
  declares. Clients of deleted projects are served on and nobody reaches them, also
  not to free a scope they hold. Renaming a scope in use is not refused, and
  the scopes a client names are looked up by nobody; neither is the organization of
  a project.
- **Revocation and audit.** The comment at `api/oidc/storage.go:163` says that the
  revocation endpoint mounts `InTx`; `api/http/oidc_route.go:52` and `:58` mount it
  on the token and the logout endpoints.

## Proofs

Every safety property a passing run checks is also a theorem, except
`CacheAgreesWithRow`, and each theorem holds for every value of the constants: any number of requests, people, sessions,
grants, tokens, directories or rows, where the runs have two or three.

| Module | Theorem | States |
|---|---|---|
| `LoginSession_proofs` | `TypeCorrect` | `TypeOK` |
| | `TokensNameTheirSession` | `TokenNamesItsSession` |
| | `EveryFactorProved` | `FactorsProved` |
| | `FinalizeAnswers` | `FinalizeAnswersTheGate` |
| | `TokensSpeakForOne` | `TokenSpeaksForOne` |
| | `SessionsKeepPromise` | `KeepsPromise`, the refinement of `TokenLife` |
| `Grants_proofs` | `GrantsTyped` | `TypeOK` |
| | `CodeAndTokenOnce` | `ExchangedOnce` |
| | `ReplayRecognised` | `ReplaysAreToldApart` |
| | `SignOutIsComplete` | `SignOutReachesGrants` |
| | `DeadStaysDead` | `DeadGrantsStayDead` |
| | `TokensKeepPromise` | `RefreshTokensKeepPromise`, the refinement of `TokenLife` |
| `Owners_proofs` | `OwnersTyped` | `TypeOK` |
| | `ClaimsKeepHolders` | `ClaimsHaveHolders` |
| | `LocalOwnerKept` | `ALocalOwnerStays` |
| | `LockedForGood` | `LockoutIsForGood` |
| `Factors_proofs` | `FactorsTyped` | `TypeOK` |
| | `NoCodeTwice` | `OneCodeOneUse` |
| | `ActiveSecretsProved` | `OnlyProvedSecrets` |
| | `ChallengeNotAvoided` | `NoWayAround` |
| | `OwnChallenge` | `ChallengeFitsSignIn` |
| | `CapsKept` | `CapsHold` |
| | `NoTakeover` | `DeviceKeepsOwner` |
| `QrLogin_proofs` | `QrTyped` | `TypeOK` |
| | `ScanFits` | `ScanFitsTransaction` |
| | `OneResolution` | `ResolvesOnce` |
| `Authorization_proofs` | `AuthorizationTyped` | `TypeOK` |
| | `ConsentCoversGrants` | `GrantsAreConsented` |
| | `LastAnswerHolds` | `AnswersHold` |
| | `ScopesAreRetired` | `ScopesRetire` |
| `Federation_proofs` | `FederationTyped` | `TypeOK` |
| | `NobodyComesBack` | `OffboardedStaysOut` |
| | `ProofIsForThePerson` | `ProofNamesPerson` |
| | `CredentialKept` | `ACredentialStays` |
| `Console_proofs` | `ConsoleTyped` | `TypeOK` |
| | `LimitsKept` | `LimitsHold` |
| | `DeletesAreKept` | `DeletesHold` |

### The shape of the arguments

None of the properties is inductive, and for one reason: a request decides on
what it read and writes some steps later. So each inductive invariant says of the
locals of every request what is still true of them when it comes to write,
whatever others wrote meanwhile. Each was checked by TLC on the runs of its module
before it was proved; where a conjunct turned out not to be inductive there, it was
strengthened. A proof has a lemma per helper, one that says what a request keeps
while it goes on (`...Keeps`), one step per action, and a last step per theorem.

- **LoginSession.** `TypeInv` adds to the types which locals are set where
  (`Shape`). `IInv` says of committed rows, staged rows, cached copies and the copies
  in the locals of requests alike that the copy of session `s` carries only factors
  proved in `s`, by the person it names or inherited (`Sound`), and answers to a token
  minted for `s`; the histories it speaks of only grow, so what was said of an old copy
  stays true. `UpgradeSound` is the step that matters: a bind that replaces the person
  keeps every factor proved or turns it into an inherited one, as the person before
  proved the password behind it.
  `TokensSpeakForOne` needs `NInv`, which adds `Told`: there is one meaning of every
  minted token (session, person, factors, deadline), and whatever rows, staged rows,
  Redis and locals say of that token agrees with it up to the wrong codes. A new token
  is told by nobody yet, so an upgrade gives it its meaning; no step changes one
  (`StepTells`).
  `SessionsKeepPromise` needs `LInv`, which adds `Placed`, what a request holds where it
  stands; `Locked`, that a staged row is the one its lock holder saves or ends; and
  `Apart`, that no two requests are about to hand out one token. Nothing in it says that a
  request's copy is fresh: a refill, a stale save or a save over an ended row change
  which token is live, never that one session has one. The only write under a token
  handed out before is the save of a wrong code: it changes nothing while that token
  is live, and `CountsTheDead` is the rest. `KillsSome` and `IssuesOne` then say
  which step of `TokenLife` a change of the rows is.
- **Grants.** `HandedFit` and `SeenFits` say that a token in a row or in a snapshot was
  handed out for that grant, `NewFits` that a token about to be handed out is in one
  request's hands and was minted against the token that request saw, `BirthsFit` that
  a grant about to be created is known to nobody else. `Unspent` is the core of
  `ExchangedOnce`: the token in a row was exchanged for nothing yet, unless the grant
  is stale. `SweptFits` and `ForgetFits` say that a signed-out session is not live and
  that a grant whose digests go is dead. No step needs the row locks: a write over a
  row that changed since it was seen makes the grant stale.
- **Owners.** `IInv` holds the types, that every request carries a body its gate
  accepted (`Fits`: roles of the roster it names, a federation that was read), and
  `ClaimsHaveHolders`. `LocalOwnerKept` needs `LInv`: `RailsKept` says which rails a request has
  passed by the place where it stands, and at the write those rails either hold of
  the rows still, or the write is raced. `LockedForGood` takes two facts of every
  step: a seat that is new was in the body of a request for that roster
  (`Conferred`), and a body that is new was let in by somebody who may write it
  (`AskedFor`).
- **Factors.** `RequestsKnow` says what a request knows between its gate and its
  guarded statement. `SecretsFit`, `CodesFit` and `UsedFit` relate an enrolment to
  its codes and to what was accepted, `KeysFit` bounds the passkeys of a person,
  `ChallengesFit` relates a ceremony to the sign-in that asked for it, `GuessesFit` the
  budget to what was compared and is about to be, `OwedFits` and `ProofsFit` what a sign-in was told and
  has proved.
- **QrLogin.** `ClaimsHold` is the core: a callback past its claim is alone with a row
  that is still pending. The rest says what a callback recorded (`RecordsFit`,
  `VerdictsFit`), what a poll read (`WaitersFit`, `PollsFit`, `ScansFit`), what is
  still to be delivered (`PushesFit`), and that nothing is recorded after the
  deadline (`NobodyLate`). Crashes, failed statements and second deliveries are steps
  like all others.
- **Authorization.** `CallsKnow` says what a finalize still knows at each statement:
  the row it will write back, the scopes it found consented. `ProviderFits` bounds
  the age of a cached provider, `AnswerStands` keeps the last verdict with the row.
- **Federation.** `Numbered`, `NamesUnique` and `LinksFit` are the keys of the tables.
  `RequestsFit` says what kind of link or person a request found, `RequestsKnow`
  that it is still so for every request no other one outdated.
- **Console.** `RowsFit` holds the keys and references of the tables, `OwnRow` and
  `CallsKnow` what a request decided on, for requests that are not stale.

### What is assumed

Only what each module assumes by name. The absent value is no member of the sets
it is told apart from (`NoneAssumption`, `NoLiveAssumption`, `NoRowAssumption`,
`NoMadeAssumption`, `NoNoteAssumption`, `NoRolesAssumption`, and `ForeignAssumption`
for the reference the gateway never stored). Limits and times are numbers, positive
where the source says so, and `Window` is shorter than `TTL` in `QrLogin`. Devices
(`DevicesAssumption`) and people (`PeopleAssumption`) are finite sets, since they are
counted. What the bootstrap seeds and what bodies, prompts and shapes there are is
well formed (`SeedAssumption`, `HostAssumption`, `BodyAssumption`, `PromptAssumption`,
`ShapeAssumption`). TLC evaluates all of them in the runs. Nothing is assumed of the
size of the other sets, nor of schedules.

### What is only model-checked

- `BrowserIsAnswered` and `AcceptedScanSignsIn` of `QrLogin`, which are liveness under
  fairness, and with them anything about `ENABLED`: out of the prover's reach.
- `CacheAgreesWithRow`, which two requests break ("What overlaps lose"): the run has one
  request at a time, where it asks that the order of delete, put and commit, and the
  failure of each, leave no entry that answers for a row that is not live.
- The three violated properties, whose counterexamples are runs.
- That the models compose: each module is proved against any behaviour of the
  others that its free choices admit, and the composition itself is stated nowhere.

## Plan

What is left, in order:

1. What two requests leave of `CacheAgreesWithRow`: a history of the entries a late
   refill wrote, and the property for all others.
2. The exemptions of `Grants`, `Federation` and `Console` (`stale`) by row instead of
   by request, so that the theorems say more of a request that was outdated in
   something it does not depend on.
3. An abstract specification of a QR transaction and of an authorization request,
   with `QrLogin` and `Authorization` shown to implement them.

## Not modelled

`PROJECT.json` lists every part with the reason. The authentication policy is a row
per level that the last writer wins; whatever it says, `LoginSession` allows. Keys
are written by the bootstrap and rotated by nothing in the repository. Invitations
and resets write one-time tokens that no Go code redeems, and profiles and password
changes are single-row writes nothing here decides on. The claims of a token, the
screens and the bytes of tokens, codes, digests and signatures are abstracted to
identities. Attempt windows fill and never slide, and a hit that an accepted password
releases is not modelled. Audit rows are append-only and appear only as one more
statement that can fail. Notifications, logging, migrations, rendering, start-up and
the LDAP wire are I/O.

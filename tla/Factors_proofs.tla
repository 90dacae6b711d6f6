---------------------------- MODULE Factors_proofs ----------------------------
(***************************************************************************)
(* The second factors, proved for any number of people, sign-ins, devices  *)
(* and requests. A request decides on what it read some steps before it    *)
(* writes, so no property of Factors is inductive: the invariant says what *)
(* a request still knows when it comes to write, whatever others wrote.    *)
(***************************************************************************)
EXTENDS Factors, FiniteSetTheorems, TLAPS

-----------------------------------------------------------------------------
(* The invariant, by the state it is about.                                *)

\* A sign-in below its cap of wrong codes is the only one that is not over.
LoginsTyped ==
    /\ person \in [Sessions -> Users]
    /\ stage \in [Sessions -> {"identified", "password", "signed", "ended"}]
    /\ wrong \in [Sessions -> 0 .. MaxWrongCodes]
    /\ \A s \in Sessions : stage[s] # "ended" => wrong[s] < MaxWrongCodes
    /\ proof \in [Sessions -> Proof \cup {None}]
    /\ owed \in [Sessions -> SUBSET (Secrets \cup Devices)]

CodedTyped ==
    /\ totp \in [Users -> Enrolment \cup {None}]
    /\ codes \in [Users -> SUBSET (1 .. MaxCodes)]
    /\ secrets \in 0 .. MaxSecrets /\ issued \in 0 .. MaxCodes
    /\ now \in 1 .. MaxStep

KeyedTyped == key \in [Devices -> Credential \cup {None}]

RedisTyped ==
    /\ ceremony \in [Holders -> Ceremony \cup {None}]
    /\ asked \in [1 .. MaxChallenges -> Holders \cup {None}]

BudgetTyped == guesses \in [Users -> 0 .. AttemptLimit] /\ compared \in [Users -> Nat]

\* What the local variables of a request are where it stands.
Fits(where, r) ==
    /\ where = "idle" <=> r = NoReq
    /\ where # "idle" => r.u \in Users
    /\ r.op \in {"verify", "assert", "assertFinish"} => r.s \in Sessions
    /\ where = "write" /\ r.op = "activate" =>
          r.row \in Enrolment /\ r.code \in TimeCode /\ r.code.secret = r.row.secret
    /\ where = "write" /\ r.op = "verify" => r.code \in TimeCode \cup RecoveryCode
    /\ where \in {"drop", "answer", "write"} /\ r.op \in {"enrolKeyFinish", "assertFinish"} =>
          r.got \in Ceremony
    /\ where = "write" /\ r.op \in {"enrolKeyFinish", "assertFinish"} => r.device \in Devices

RequestsTyped ==
    /\ pc \in [Procs -> PCs]
    /\ req \in [Procs -> Req]
    /\ \A p \in Procs : Fits(pc[p], req[p])

Typed == LoginsTyped /\ CodedTyped /\ KeyedTyped /\ RedisTyped /\ BudgetTyped /\ RequestsTyped

\* A secret is minted for one row, and an active one was checked.
SecretsFit ==
    /\ \A u \in Users : totp[u] # None =>
          /\ totp[u].secret <= secrets
          /\ totp[u].secret \notin cleared
          /\ totp[u].active => totp[u].secret \in checked
    /\ \A u, v \in Users : totp[u] # None /\ totp[v] # None /\ totp[u].secret = totp[v].secret => u = v
    /\ cleared \subseteq 1 .. secrets

\* A recovery code is issued to one person.
CodesFit ==
    /\ \A u \in Users : codes[u] \subseteq 1 .. issued
    /\ \A u, v \in Users : codes[u] \cap codes[v] # {} => u = v

\* A code that was accepted is spent: nobody holds it, or the row is past it.
UsedFit ==
    /\ used \subseteq TimeCode \cup RecoveryCode
    /\ \A c \in used \cap RecoveryCode : c.digest <= issued /\ \A u \in Users : c.digest \notin codes[u]
    /\ \A c \in used \cap TimeCode :
          \/ c.secret \in cleared
          \/ \E u \in Users : Active(u) /\ totp[u].secret = c.secret /\ c.step <= totp[u].last
    /\ \A c \in replayed : c \in TimeCode /\ c.secret \in cleared

\* Nobody holds more passkeys than the cap but those a passkey overran.
KeysFit == \A u \in Users : Cardinality(LiveKeys(u)) <= MaxPasskeys \/ u \in overrun

\* Challenges are minted in a row, each for the holder that keeps it.
ChallengesFit ==
    /\ Minted = 1 .. Cardinality(Minted)
    /\ \A h \in Holders : ceremony[h] # None =>
          asked[ceremony[h].nonce] = h /\ ceremony[h].seen < MaxPasskeys

\* A code that is to be compared was paid for.
Pays(where, r) == where = "read" /\ r.op \in {"activate", "verify"}
Payers(u) == {p \in Procs : Pays(pc[p], req[p]) /\ req[p].u = u}

GuessesFit ==
    \A u \in Users : IsFiniteSet(Payers(u)) /\ compared[u] + Cardinality(Payers(u)) <= guesses[u]

\* A sign-in owes what it was told and is still held.
OwedFits == \A s \in Sessions : owed[s] \subseteq Held(person[s])

ProofsFit ==
    \A s \in Sessions : proof[s] # None =>
        /\ proof[s].by = "enrolment" => proof[s].owed = {}
        /\ proof[s].nonce # 0 => asked[proof[s].nonce] = s

\* What a request knows of the state when it comes to write: its code was
\* checked, and the row is the one it was checked on or was cleared; its
\* ceremony was minted for it; its sign-in, if it enrols, owes nothing.
Knows(where, r) ==
    /\ where = "write" /\ r.op = "activate" => r.row.secret \in checked
    /\ where = "write" /\ r.op = "verify" /\ r.code \in TimeCode =>
          \/ r.code.secret \in cleared
          \/ Active(r.u) /\ totp[r.u].secret = r.code.secret
    /\ r.got # None => asked[r.got.nonce] = Holder(r) /\ r.got.seen < MaxPasskeys
    /\ r.s # None /\ r.op \in EnrolOps => owed[r.s] = {} /\ stage[r.s] # "identified"

RequestsKnow == \A p \in Procs : Knows(pc[p], req[p])

IInv ==
    /\ Typed
    /\ SecretsFit /\ CodesFit /\ UsedFit
    /\ KeysFit
    /\ ChallengesFit
    /\ GuessesFit
    /\ OwedFits /\ ProofsFit
    /\ RequestsKnow

USE LimitAssumption, BoundAssumption, NoneAssumption, DevicesAssumption, NoRowAssumption, AskedAssumption

LEMMA InitHolds == Init => IInv
<1> SUFFICES ASSUME Init
             PROVE  IInv
  OBVIOUS
<1>1. LoginsTyped /\ CodedTyped /\ KeyedTyped /\ RedisTyped /\ BudgetTyped
  BY DEF Init, LoginsTyped, CodedTyped, KeyedTyped, RedisTyped, BudgetTyped
<1>2. RequestsTyped /\ RequestsKnow
  BY DEF Init, RequestsTyped, RequestsKnow, Fits, Knows, NoReq, Req, PCs, EnrolOps
<1>3. SecretsFit /\ CodesFit /\ UsedFit /\ ProofsFit /\ OwedFits
  BY DEF Init, SecretsFit, CodesFit, UsedFit, ProofsFit, OwedFits
<1>4. KeysFit
  <2>1. \A u \in Users : LiveKeys(u) = {}
    BY DEF Init, LiveKeys
  <2> QED  BY <2>1, FS_EmptySet DEF KeysFit
<1>5. ChallengesFit
  <2>1. Minted = {} /\ \A h \in Holders : ceremony[h] = None
    BY DEF Init, Minted
  <2> QED  BY <2>1, FS_EmptySet DEF ChallengesFit
<1>6. GuessesFit
  <2> SUFFICES ASSUME NEW u \in Users
               PROVE  IsFiniteSet(Payers(u)) /\ compared[u] + Cardinality(Payers(u)) <= guesses[u]
    BY DEF GuessesFit
  <2>1. Payers(u) = {} /\ compared[u] = 0 /\ guesses[u] = 0
    BY DEF Init, Payers, Pays
  <2>2. IsFiniteSet(Payers(u)) /\ Cardinality(Payers(u)) = 0
    BY <2>1, FS_EmptySet
  <2> QED  BY <2>1, <2>2
<1> QED  BY <1>1, <1>2, <1>3, <1>4, <1>5, <1>6 DEF IInv, Typed

-----------------------------------------------------------------------------
(* Lemmas about the model's operators.                                     *)

\* A time code is no recovery code.
LEMMA CodesDiffer == TimeCode \cap RecoveryCode = {}
  BY DEF TimeCode, RecoveryCode

\* The passkeys of a person are finitely many.
LEMMA LiveKeysFinite ==
  \A u : LiveKeys(u) \subseteq Devices /\ IsFiniteSet(LiveKeys(u)) /\ Cardinality(LiveKeys(u)) \in 0 .. Cardinality(Devices)
<1>1. \A u : LiveKeys(u) \subseteq Devices
  BY DEF LiveKeys
<1> QED  BY <1>1, FS_Subset, FS_CardinalityType

\* A request that moves touches itself alone.
LEMMA Moved ==
  ASSUME RequestsTyped, NEW p \in Procs, NEW where \in PCs, NEW locals \in Req,
         Fits(where, locals), Move(p, where, locals)
  PROVE  /\ RequestsTyped'
         /\ pc'[p] = where /\ req'[p] = locals
         /\ \A q \in Procs \ {p} : pc'[q] = pc[q] /\ req'[q] = req[q]
         /\ now' = now
<1>1. /\ pc' \in [Procs -> PCs] /\ req' \in [Procs -> Req]
      /\ pc'[p] = where /\ req'[p] = locals
      /\ \A q \in Procs \ {p} : pc'[q] = pc[q] /\ req'[q] = req[q]
      /\ now' = now
  BY DEF RequestsTyped, Move
<1>2. \A q \in Procs : Fits(pc'[q], req'[q])
  BY <1>1 DEF RequestsTyped
<1> QED  BY <1>1, <1>2 DEF RequestsTyped

\* A request that is done holds nothing.
LEMMA Rests ==
  ASSUME RequestsTyped, NEW p \in Procs, Done(p)
  PROVE  /\ RequestsTyped'
         /\ pc'[p] = "idle" /\ req'[p] = NoReq
         /\ \A q \in Procs \ {p} : pc'[q] = pc[q] /\ req'[q] = req[q]
         /\ now' = now
<1>1. NoReq \in Req /\ Fits("idle", NoReq) /\ "idle" \in PCs
  BY DEF NoReq, Req, Fits, PCs
<1> QED  BY <1>1, Moved DEF Done

LEMMA NothingKnown == Knows("idle", NoReq)
  BY DEF Knows, NoReq

\* The frames: what stays as its variables do.
LEMMA LoginsStay ==
  ASSUME IInv, UNCHANGED <<logins, asked>>
  PROVE  (LoginsTyped /\ ProofsFit)'
  BY DEF IInv, Typed, LoginsTyped, ProofsFit, logins

LEMMA CodedStays ==
  ASSUME IInv, UNCHANGED <<coded, now>>
  PROVE  (CodedTyped /\ SecretsFit /\ CodesFit /\ UsedFit)'
  BY DEF IInv, Typed, CodedTyped, SecretsFit, CodesFit, UsedFit, Active, coded

LEMMA KeyedStays ==
  ASSUME IInv, UNCHANGED keyed
  PROVE  (KeyedTyped /\ KeysFit)'
  BY DEF IInv, Typed, KeyedTyped, KeysFit, LiveKeys, keyed

LEMMA RedisStays ==
  ASSUME IInv, UNCHANGED redis
  PROVE  (RedisTyped /\ ChallengesFit)'
  BY DEF IInv, Typed, RedisTyped, ChallengesFit, Minted, redis

LEMMA OwedStays ==
  ASSUME IInv, UNCHANGED <<owed, person, totp, key>>
  PROVE  OwedFits'
  BY DEF IInv, OwedFits, Held, LiveKeys, Active

\* Nobody pays more than was paid for, as long as no request comes to compare.
LEMMA FewerPayers ==
  ASSUME IInv, UNCHANGED budget,
         \A u \in Users : Payers(u)' \subseteq Payers(u)
  PROVE  (BudgetTyped /\ GuessesFit)'
<1>1. BudgetTyped'
  BY DEF IInv, Typed, BudgetTyped, budget
<1>2. ASSUME NEW u \in Users
      PROVE  IsFiniteSet(Payers(u))' /\ (compared[u] + Cardinality(Payers(u)) <= guesses[u])'
  <2>1. IsFiniteSet(Payers(u)) /\ compared[u] + Cardinality(Payers(u)) <= guesses[u]
    BY DEF IInv, GuessesFit
  <2>2. IsFiniteSet(Payers(u)') /\ Cardinality(Payers(u)') <= Cardinality(Payers(u))
    BY <2>1, FS_Subset
  <2>3. Cardinality(Payers(u)) \in Nat /\ Cardinality(Payers(u)') \in Nat
    BY <2>1, <2>2, FS_CardinalityType
  <2>4. compared[u] \in Nat /\ guesses[u] \in Nat /\ compared'[u] = compared[u] /\ guesses'[u] = guesses[u]
    BY DEF IInv, Typed, BudgetTyped, budget
  <2>5. compared'[u] + Cardinality(Payers(u)') <= guesses'[u]
    BY <2>1, <2>2, <2>3, <2>4
  <2> QED  BY <2>2, <2>5
<1> QED  BY <1>1, <1>2 DEF GuessesFit

LEMMA PayersOfOthers ==
  ASSUME NEW p \in Procs, ~Pays(pc'[p], req'[p]),
         \A q \in Procs \ {p} : pc'[q] = pc[q] /\ req'[q] = req[q]
  PROVE  \A u \in Users : Payers(u)' \subseteq Payers(u)
  BY DEF Payers, Pays

\* A step that checks and clears secrets, mints challenges, completes and ends
\* sign-ins, and takes nothing else away.
Grows ==
    /\ checked \subseteq checked' /\ cleared \subseteq cleared'
    /\ \A u \in Users : Active(u) =>
          \/ Active(u)' /\ totp'[u].secret = totp[u].secret
          \/ totp[u].secret \in cleared'
    /\ \A n \in 1 .. MaxChallenges : asked[n] # None => asked'[n] = asked[n]
    /\ \A s \in Sessions : stage[s] # "identified" =>
          stage'[s] # "identified" /\ owed'[s] \subseteq owed[s]

\* What a request knows outlasts such a step of another one.
LEMMA StillKnows ==
  ASSUME IInv, Grows, NEW q \in Procs, pc'[q] = pc[q], req'[q] = req[q]
  PROVE  Knows(pc[q], req[q])'
<1> DEFINE where == pc[q]
           r == req[q]
<1>1. Knows(where, r) /\ Fits(where, r) /\ r \in Req /\ pc'[q] = where /\ req'[q] = r
  BY DEF IInv, Typed, RequestsTyped, RequestsKnow
<1>2. r.s \in Sessions \cup {None} /\ (r.got # None => r.got \in Ceremony)
  BY <1>1 DEF Req
<1>3. where # "idle" => r.u \in Users
  BY <1>1 DEF Fits
<1>4. where = "idle" => r.op = "none" /\ r.got = None
  BY <1>1 DEF Fits, NoReq
<1> HIDE DEF where, r
<1>5. where = "write" /\ r.op = "activate" => r.row.secret \in checked'
  BY <1>1 DEF Knows, Grows
<1>6. where = "write" /\ r.op = "verify" /\ r.code \in TimeCode =>
         \/ r.code.secret \in cleared'
         \/ totp'[r.u] # None /\ totp'[r.u].active /\ totp'[r.u].secret = r.code.secret
  BY <1>1, <1>3 DEF Knows, Active, Grows
<1>7. r.got # None => asked'[r.got.nonce] = Holder(r) /\ r.got.seen < MaxPasskeys
  <2> SUFFICES ASSUME r.got # None
               PROVE  asked'[r.got.nonce] = Holder(r) /\ r.got.seen < MaxPasskeys
    OBVIOUS
  <2>1. r.got.nonce \in 1 .. MaxChallenges
    BY <1>2 DEF Ceremony
  <2>2. Holder(r) # None
    BY <1>2, <1>3, <1>4 DEF Holder
  <2> QED  BY <1>1, <2>1, <2>2 DEF Knows, Grows
<1>8. r.s # None /\ r.op \in EnrolOps => owed'[r.s] = {} /\ stage'[r.s] # "identified"
  BY <1>1, <1>2 DEF Knows, Grows
<1>9. pc'[q] = where /\ req'[q] = r
  BY <1>1
<1> QED  BY <1>5, <1>6, <1>7, <1>8, <1>9 DEF Knows, Active, Holder

\* A request that goes on knows what it knew and what it read.
LEMMA GoKeeps ==
  ASSUME IInv, NEW p \in Procs, NEW where \in PCs, NEW locals \in Req, Go(p, where, locals),
         Fits(where, locals), Knows(where, locals), ~Pays(where, locals)
  PROVE  IInv'
<1>1. UNCHANGED <<logins, coded, keyed, redis, budget>> /\ Move(p, where, locals)
  BY DEF Go
<1>2. /\ RequestsTyped'
      /\ pc'[p] = where /\ req'[p] = locals
      /\ \A q \in Procs \ {p} : pc'[q] = pc[q] /\ req'[q] = req[q]
      /\ now' = now
  BY <1>1, Moved DEF IInv, Typed
<1>3. (LoginsTyped /\ ProofsFit /\ CodedTyped /\ SecretsFit /\ CodesFit /\ UsedFit)'
  BY <1>1, <1>2, LoginsStay, CodedStays DEF redis
<1>4. (KeyedTyped /\ KeysFit /\ RedisTyped /\ ChallengesFit /\ OwedFits)'
  BY <1>1, KeyedStays, RedisStays, OwedStays DEF logins, coded, keyed
<1>5. (BudgetTyped /\ GuessesFit)'
  BY <1>1, <1>2, FewerPayers, PayersOfOthers
<1>6. \A q \in Procs \ {p} : Knows(pc[q], req[q])'
  BY <1>1, <1>2, StillKnows DEF Grows, logins, coded, redis, Active
<1>7. Knows(pc[p], req[p])'
  BY <1>1, <1>2 DEF Knows, Active, Holder, logins, coded, redis
<1> QED  BY <1>2, <1>3, <1>4, <1>5, <1>6, <1>7 DEF IInv, Typed, RequestsKnow

LEMMA RefuseKeeps ==
  ASSUME IInv, NEW p \in Procs, Refuse(p)
  PROVE  IInv'
<1>1. NoReq \in Req /\ Fits("idle", NoReq) /\ "idle" \in PCs /\ ~Pays("idle", NoReq)
  BY DEF NoReq, Req, Fits, PCs, Pays
<1>2. Go(p, "idle", NoReq)
  BY DEF Refuse, Done, Go
<1> QED  BY <1>1, <1>2, NothingKnown, GoKeeps

-----------------------------------------------------------------------------
(* Steps that write nothing: the gates and the reads.                      *)

LEMMA EntryFits ==
  ASSUME NEW op \in LoginOps \cup PortalOps, NEW s \in Sessions \cup {None}, NEW u \in Users,
         s = None => op \in PortalOps
  PROVE  /\ Entry(op) \in PCs /\ Of(op, s, u) \in Req
         /\ Fits(Entry(op), Of(op, s, u)) /\ ~Pays(Entry(op), Of(op, s, u))
         /\ Of(op, s, u).op = op /\ Of(op, s, u).s = s /\ Of(op, s, u).got = None
         /\ ~(Entry(op) = "write" /\ op \in {"activate", "verify"})
<1> DEFINE r == Of(op, s, u)
<1>1. /\ r.op = op /\ r.s = s /\ r.u = u /\ r.got = None /\ r.row = None
      /\ r.code = None /\ r.device = None /\ r.revive = FALSE
      /\ r \in Req
  BY DEF Of, NoReq, Req
<1>2. op # "none" /\ r # NoReq
  BY <1>1 DEF NoReq, LoginOps, PortalOps, EnrolOps
<1>3. Entry(op) \in PCs \ {"idle"}
  BY DEF Entry, PCs
<1>4. Entry(op) \in {"write", "drop", "answer"} => op \notin {"activate", "verify", "enrolKeyFinish", "assertFinish"}
  BY DEF Entry
<1>5. Entry(op) = "read" => op \notin {"activate", "verify"}
  BY DEF Entry
<1>6. op \in {"verify", "assert", "assertFinish"} => s \in Sessions
  BY DEF PortalOps, EnrolOps
<1> HIDE DEF r
<1>7. Fits(Entry(op), r) /\ ~Pays(Entry(op), r)
  BY <1>1, <1>2, <1>3, <1>4, <1>5, <1>6 DEF Fits, Pays
<1> QED  BY <1>1, <1>3, <1>4, <1>7 DEF r

\* A sign-in that may enrol holds no factor, and so owes none.
LEMMA AsksKeep ==
  ASSUME IInv, NEW p \in Procs, AskLogin(p) \/ AskPortal(p)
  PROVE  IInv'
<1>1. PICK op \in LoginOps \cup PortalOps, s \in Sessions \cup {None}, u \in Users :
        /\ s = None => op \in PortalOps
        /\ s # None => Admitted(s, op)
        /\ Go(p, Entry(op), Of(op, s, u))
  BY DEF IInv, Typed, LoginsTyped, AskLogin, AskPortal
<1>2. s # None /\ op \in EnrolOps => owed[s] = {} /\ stage[s] # "identified"
  BY <1>1 DEF IInv, OwedFits, Held, HoldsFactor, Admitted, ProvedPassword
<1>3. Knows(Entry(op), Of(op, s, u))
  BY <1>1, <1>2, EntryFits DEF Knows
<1> QED  BY <1>1, <1>3, EntryFits, GoKeeps

\* What a request read goes with it to the write.
LEMMA ReadsKeep ==
  ASSUME IInv, NEW p \in Procs,
         \/ StartEnrolment(p) \/ ReadFactor(p) \/ TooManyStarts(p) \/ TakeCeremony(p)
         \/ AnswerRegistration(p) \/ AnswerAssertion(p) \/ Abandon(p)
  PROVE  IInv'
<1>1. CASE Refuse(p)
  BY <1>1, RefuseKeeps
<1> DEFINE r == req[p]
<1>2. r \in Req /\ Fits(pc[p], r) /\ Knows(pc[p], r)
  BY DEF IInv, Typed, RequestsTyped, RequestsKnow
<1>3. CASE \/ At(p, "read", {"enrolCode"}) /\ Go(p, "save", r)
           \/ At(p, "read", {"remove", "replace"}) /\ Go(p, "write", r)
  <2>1. ASSUME NEW where \in {"save", "write"}, Go(p, where, r), pc[p] = "read",
               r.op \in {"enrolCode", "remove", "replace"}
        PROVE  IInv'
    <3>1. where \in PCs /\ Fits(where, r) /\ Knows(where, r) /\ ~Pays(where, r)
      BY <1>2, <2>1 DEF PCs, Fits, Knows, Pays
    <3> HIDE DEF r
    <3> QED  BY <1>2, <2>1, <3>1, GoKeeps
  <2> QED  BY <1>3, <2>1 DEF At
<1>4. CASE TakeCeremony(p) /\ ~Refuse(p)
  <2> DEFINE held == ceremony[Holder(r)]
             with == [r EXCEPT !.got = held]
  <2>1. pc[p] = "take" /\ held # None /\ Go(p, "drop", with)
    BY <1>4 DEF TakeCeremony
  <2>2. Holder(r) \in Holders /\ held \in Ceremony
    BY <1>2, <2>1 DEF IInv, Typed, RedisTyped, Fits, Holder, Holders, Req
  <2>3. asked[held.nonce] = Holder(r) /\ held.seen < MaxPasskeys
    BY <2>1, <2>2 DEF IInv, ChallengesFit
  <2> HIDE DEF held
  <2>4. with \in Req /\ with.op = r.op /\ with.s = r.s /\ with.u = r.u /\ with.got = held /\ with # NoReq
    BY <1>2, <2>1, <2>2 DEF Req, NoReq
  <2>5. Fits("drop", with)
    BY <1>2, <2>1, <2>2, <2>4 DEF Fits
  <2>6. Knows("drop", with)
    BY <1>2, <2>1, <2>3, <2>4 DEF Knows, Holder
  <2> HIDE DEF with
  <2> QED  BY <2>1, <2>4, <2>5, <2>6, GoKeeps DEF PCs, Pays
<1>5. CASE (AnswerRegistration(p) \/ AnswerAssertion(p)) /\ ~Refuse(p)
  <2>1. PICK d \in Devices, b \in BOOLEAN : Go(p, "write", [r EXCEPT !.device = d, !.revive = b])
    <3>1. CASE AnswerRegistration(p)
      <4>1. PICK d \in Devices : Go(p, "write", [r EXCEPT !.device = d, !.revive = key[d] # None])
        BY <1>5, <3>1 DEF AnswerRegistration
      <4>2. (key[d] # None) \in BOOLEAN
        OBVIOUS
      <4> QED  BY <4>1, <4>2
    <3>2. CASE AnswerAssertion(p)
      <4>1. PICK d \in Devices : Go(p, "write", [r EXCEPT !.device = d])
        BY <1>5, <3>2, LiveKeysFinite DEF AnswerAssertion
      <4>2. r.revive \in BOOLEAN /\ [r EXCEPT !.device = d] = [r EXCEPT !.device = d, !.revive = r.revive]
        BY <1>2 DEF Req
      <4> QED  BY <4>1, <4>2
    <3> QED  BY <1>5, <3>1, <3>2
  <2>2. pc[p] = "answer" /\ r.op \in {"enrolKeyFinish", "assertFinish"}
    BY <1>5 DEF AnswerRegistration, AnswerAssertion, At
  <2> DEFINE with == [r EXCEPT !.device = d, !.revive = b]
  <2>3. with \in Req /\ with.op = r.op /\ with.s = r.s /\ with.u = r.u /\ with.got = r.got /\ with.device = d
    BY <1>2, <2>1 DEF Req
  <2>4. Fits("write", with) /\ Knows("write", with) /\ ~Pays("write", with)
    BY <1>2, <2>2, <2>3 DEF Fits, Knows, Pays, Holder, NoReq
  <2> HIDE DEF with
  <2> QED  BY <2>1, <2>3, <2>4, GoKeeps DEF PCs, with
<1> QED  BY <1>1, <1>3, <1>4, <1>5 DEF StartEnrolment, ReadFactor, TooManyStarts, Abandon

-----------------------------------------------------------------------------
(* What the parts of a write keep.                                         *)

\* The end of a step by a request that is done.
LEMMA WriteKeeps ==
  ASSUME IInv, NEW p \in Procs, Done(p), Grows, (BudgetTyped /\ GuessesFit)',
         (LoginsTyped /\ ProofsFit /\ OwedFits)',
         (CodedTyped /\ SecretsFit /\ CodesFit /\ UsedFit)',
         (KeyedTyped /\ KeysFit /\ RedisTyped /\ ChallengesFit)'
  PROVE  IInv'
<1>1. /\ RequestsTyped'
      /\ pc'[p] = "idle" /\ req'[p] = NoReq
      /\ \A q \in Procs \ {p} : pc'[q] = pc[q] /\ req'[q] = req[q]
  BY Rests DEF IInv, Typed
<1>2. \A q \in Procs \ {p} : Knows(pc[q], req[q])'
  BY <1>1, StillKnows
<1>3. Knows(pc[p], req[p])'
  BY <1>1 DEF Knows, NoReq
<1> QED  BY <1>1, <1>2, <1>3 DEF IInv, Typed, RequestsKnow

\* A request that is done pays no more.
LEMMA RestingPayers ==
  ASSUME IInv, NEW p \in Procs, Done(p), UNCHANGED budget
  PROVE  (BudgetTyped /\ GuessesFit)'
<1>1. /\ pc'[p] = "idle"
      /\ \A q \in Procs \ {p} : pc'[q] = pc[q] /\ req'[q] = req[q]
  BY Rests DEF IInv, Typed
<1>2. ~Pays(pc'[p], req'[p])
  BY <1>1 DEF Pays
<1> QED  BY <1>1, <1>2, PayersOfOthers, FewerPayers

\* A guess that was paid for is compared once.
LEMMA ComparedOnce ==
  ASSUME IInv, NEW p \in Procs, Pays(pc[p], req[p]), Compare(p), ~Pays(pc'[p], req'[p]),
         \A q \in Procs \ {p} : pc'[q] = pc[q] /\ req'[q] = req[q]
  PROVE  (BudgetTyped /\ GuessesFit)'
<1> DEFINE u == req[p].u
<1>1. u \in Users
  BY DEF IInv, Typed, RequestsTyped, Fits, Pays
<1>2. guesses' = guesses /\ compared' = [compared EXCEPT ![u] = @ + 1]
  BY DEF Compare
<1>3. BudgetTyped'
  BY <1>1, <1>2 DEF IInv, Typed, BudgetTyped
<1>4. ASSUME NEW v \in Users
      PROVE  IsFiniteSet(Payers(v))' /\ (compared[v] + Cardinality(Payers(v)) <= guesses[v])'
  <2>1. IsFiniteSet(Payers(v)) /\ compared[v] + Cardinality(Payers(v)) <= guesses[v]
    BY DEF IInv, GuessesFit
  <2>2. compared[v] \in Nat /\ guesses[v] \in Nat /\ guesses'[v] = guesses[v]
    BY <1>2 DEF IInv, Typed, BudgetTyped
  <2>3. CASE v # u
    <3>1. Payers(v)' \subseteq Payers(v)
      BY PayersOfOthers
    <3>2. IsFiniteSet(Payers(v)') /\ Cardinality(Payers(v)') <= Cardinality(Payers(v))
      BY <2>1, <3>1, FS_Subset
    <3>3. Cardinality(Payers(v)) \in Nat /\ Cardinality(Payers(v)') \in Nat
      BY <2>1, <3>2, FS_CardinalityType
    <3>4. compared'[v] = compared[v]
      BY <1>2, <2>3 DEF IInv, Typed, BudgetTyped
    <3>5. compared'[v] + Cardinality(Payers(v)') <= guesses'[v]
      BY <2>1, <2>2, <3>2, <3>3, <3>4
    <3> QED  BY <3>2, <3>5
  <2>4. CASE v = u
    <3>1. p \in Payers(v) /\ Payers(v)' \subseteq Payers(v) \ {p}
      BY <2>4 DEF Payers, Pays
    <3>2. IsFiniteSet(Payers(v) \ {p}) /\ Cardinality(Payers(v) \ {p}) = Cardinality(Payers(v)) - 1
      BY <2>1, <3>1, FS_RemoveElement
    <3>3. IsFiniteSet(Payers(v)') /\ Cardinality(Payers(v)') <= Cardinality(Payers(v) \ {p})
      BY <3>1, <3>2, FS_Subset
    <3>4. Cardinality(Payers(v)) \in Nat /\ Cardinality(Payers(v)') \in Nat
      BY <2>1, <3>3, FS_CardinalityType
    <3>5. compared'[v] = compared[v] + 1
      BY <1>2, <2>4 DEF IInv, Typed, BudgetTyped
    <3>6. compared'[v] + Cardinality(Payers(v)') <= guesses'[v]
      BY <2>1, <2>2, <3>2, <3>3, <3>4, <3>5
    <3> QED  BY <3>3, <3>6
  <2> QED  BY <2>3, <2>4
<1> QED  BY <1>3, <1>4 DEF GuessesFit

\* A sign-in is completed with a challenge of its own, and by an enrolment only
\* if it owes nothing.
LEMMA FinishKeeps ==
  ASSUME IInv, NEW s \in Sessions \cup {None}, NEW by \in {"code", "recovery", "key", "enrolment"},
         NEW nonce \in 0 .. MaxChallenges,
         Finish(s, by, nonce), UNCHANGED asked,
         s # None /\ by = "enrolment" => owed[s] = {},
         s # None /\ nonce # 0 => asked[nonce] = s
  PROVE  /\ (LoginsTyped /\ ProofsFit)'
         /\ UNCHANGED <<person, owed>>
         /\ \A t \in Sessions : stage[t] # "identified" => stage'[t] # "identified"
<1>1. CASE s = None
  <2>1. UNCHANGED logins
    BY <1>1 DEF Finish
  <2> QED  BY <2>1, LoginsStay DEF logins
<1>2. CASE s # None
  <2> DEFINE with == [by |-> by, nonce |-> nonce, owed |-> owed[s]]
  <2>1. /\ stage[s] \in {"password", "signed"} /\ stage' = [stage EXCEPT ![s] = "signed"]
        /\ proof' = [proof EXCEPT ![s] = with]
        /\ UNCHANGED <<person, wrong, owed>>
    BY <1>2 DEF Finish, Completes
  <2>2. with \in Proof /\ with.by = by /\ with.nonce = nonce /\ with.owed = owed[s]
    BY <1>2 DEF IInv, Typed, LoginsTyped, Proof
  <2> HIDE DEF with
  <2>3. LoginsTyped'
    BY <1>2, <2>1, <2>2 DEF IInv, Typed, LoginsTyped
  <2>4. ProofsFit'
    BY <1>2, <2>1, <2>2 DEF IInv, Typed, LoginsTyped, ProofsFit
  <2> QED  BY <1>2, <2>1, <2>3, <2>4 DEF IInv, Typed, LoginsTyped
<1> QED  BY <1>1, <1>2

\* A wrong code ends the sign-in at the cap.
LEMMA WrongCounts ==
  ASSUME IInv, NEW p \in Procs, Wrong(p)
  PROVE  /\ (LoginsTyped /\ ProofsFit)'
         /\ UNCHANGED <<person, proof, owed, coded, keyed, redis>> /\ Done(p)
         /\ \A t \in Sessions : stage[t] # "identified" => stage'[t] # "identified"
<1> DEFINE s == req[p].s
<1>1. UNCHANGED <<person, proof, owed, coded, keyed, redis>> /\ Done(p)
  BY DEF Wrong
<1>2. CASE s = None \/ stage[s] = "ended"
  <2>1. UNCHANGED <<stage, wrong>>
    BY <1>2 DEF Wrong
  <2> QED  BY <1>1, <2>1, LoginsStay DEF logins, redis
<1>3. CASE ~(s = None \/ stage[s] = "ended")
  <2>1. s \in Sessions
    BY <1>3 DEF IInv, Typed, RequestsTyped, Req
  <2>2. wrong[s] \in Nat /\ wrong[s] < MaxWrongCodes
    BY <1>3, <2>1 DEF IInv, Typed, LoginsTyped
  <2>3. /\ wrong' = [wrong EXCEPT ![s] = wrong[s] + 1]
        /\ stage' = [stage EXCEPT ![s] = IF wrong'[s] = MaxWrongCodes THEN "ended" ELSE stage[s]]
    BY <1>3 DEF Wrong
  <2> HIDE DEF s
  <2>4. LoginsTyped'
    <3>1. wrong'[s] = wrong[s] + 1 /\ \A t \in Sessions \ {s} : wrong'[t] = wrong[t] /\ stage'[t] = stage[t]
      BY <2>1, <2>3 DEF IInv, Typed, LoginsTyped
    <3>2. stage'[s] = "ended" \/ wrong'[s] < MaxWrongCodes
      BY <2>1, <2>2, <2>3, <3>1 DEF IInv, Typed, LoginsTyped
    <3>3. wrong' \in [Sessions -> 0 .. MaxWrongCodes]
      BY <2>1, <2>2, <2>3 DEF IInv, Typed, LoginsTyped
    <3>4. stage' \in [Sessions -> {"identified", "password", "signed", "ended"}]
      BY <2>1, <2>3 DEF IInv, Typed, LoginsTyped
    <3> QED  BY <1>1, <3>1, <3>2, <3>3, <3>4 DEF IInv, Typed, LoginsTyped
  <2>5. ProofsFit'
    BY <1>1 DEF IInv, ProofsFit, redis
  <2> QED  BY <1>1, <2>1, <2>3, <2>4, <2>5 DEF IInv, Typed, LoginsTyped
<1> QED  BY <1>2, <1>3

\* What is held and owed no more than before.
LEMMA OwedHolds ==
  ASSUME IInv, UNCHANGED person, \A s \in Sessions : owed'[s] \subseteq owed[s],
         \A u \in Users : Held(u) \subseteq Held(u)'
  PROVE  OwedFits'
<1> SUFFICES ASSUME NEW s \in Sessions
             PROVE  owed'[s] \subseteq Held(person[s])'
  BY DEF OwedFits
<1>1. PICK u \in Users : u = person[s]
  BY DEF IInv, Typed, LoginsTyped
<1>2. owed'[s] \subseteq Held(u)'
  BY <1>1 DEF IInv, OwedFits
<1> QED  BY <1>1, <1>2 DEF Held, LiveKeys, Active

\* A wrong code is counted, and nothing else is written.
LEMMA WrongKeeps ==
  ASSUME IInv, NEW p \in Procs, Wrong(p), (BudgetTyped /\ GuessesFit)'
  PROVE  IInv'
<1>1. /\ (LoginsTyped /\ ProofsFit)'
      /\ UNCHANGED <<person, proof, owed, coded, keyed, redis>> /\ Done(p)
      /\ \A t \in Sessions : stage[t] # "identified" => stage'[t] # "identified"
  BY WrongCounts
<1>2. now' = now
  BY <1>1, Rests DEF IInv, Typed
<1>3. (CodedTyped /\ SecretsFit /\ CodesFit /\ UsedFit)'
  BY <1>1, <1>2, CodedStays
<1>4. (KeyedTyped /\ KeysFit /\ RedisTyped /\ ChallengesFit /\ OwedFits)'
  BY <1>1, KeyedStays, RedisStays, OwedStays DEF coded, keyed
<1>5. Grows
  BY <1>1 DEF Grows, Active, coded, redis
<1> QED  BY <1>1, <1>3, <1>4, <1>5, WriteKeeps

LEMMA WrongGuessKeeps ==
  ASSUME IInv, NEW p \in Procs, Pays(pc[p], req[p]), Compare(p), Wrong(p)
  PROVE  IInv'
<1>1. /\ pc'[p] = "idle"
      /\ \A q \in Procs \ {p} : pc'[q] = pc[q] /\ req'[q] = req[q]
  BY Rests DEF IInv, Typed, Wrong
<1>2. (BudgetTyped /\ GuessesFit)'
  BY <1>1, ComparedOnce DEF Pays
<1> QED  BY <1>2, WrongKeeps

-----------------------------------------------------------------------------
(* Time codes and recovery codes.                                          *)

\* A start writes the pending row of a person, with a secret of its own.
LEMMA StartsKeep ==
  ASSUME IInv, NEW p \in Procs, SavePending(p) \/ InsertPending(p)
  PROVE  IInv'
<1> DEFINE u == req[p].u
<1>1. u \in Users
  BY DEF IInv, Typed, RequestsTyped, Fits, SavePending, InsertPending, At
<1>2. CASE Refuse(p)
  BY <1>2, RefuseKeeps
<1>3. CASE Go(p, "insert", req[p])
  <2>1. req[p] \in Req /\ pc[p] # "idle" /\ req[p].op = "enrolCode"
    BY DEF IInv, Typed, RequestsTyped, SavePending, InsertPending, At
  <2>2. Fits("insert", req[p]) /\ Knows("insert", req[p]) /\ ~Pays("insert", req[p])
    BY <2>1 DEF IInv, Typed, RequestsTyped, RequestsKnow, Fits, Knows, Pays
  <2> QED  BY <1>3, <2>1, <2>2, GoKeeps DEF PCs
<1>4. CASE /\ ~Active(u) /\ Written(u, Pending(secrets + 1)) /\ Done(p)
           /\ UNCHANGED <<logins, keyed, redis, budget>>
  <2> DEFINE new == Pending(secrets + 1)
  <2>1. /\ secrets < MaxSecrets /\ secrets' = secrets + 1 /\ totp' = [totp EXCEPT ![u] = new]
        /\ UNCHANGED <<codes, issued, used, replayed, cleared, checked>>
    BY <1>4 DEF Written
  <2>2. secrets \in Nat /\ secrets + 1 \in Secrets
    BY <2>1 DEF IInv, Typed, CodedTyped, Secrets
  <2>3. new \in Enrolment /\ new.secret = secrets + 1 /\ new.active = FALSE
    BY <2>2 DEF Pending, Enrolment, Steps
  <2> HIDE DEF new, u
  <2>4. now' = now
    BY <1>4, Rests DEF IInv, Typed
  <2>5. totp'[u] = new /\ totp' \in [Users -> Enrolment \cup {None}] /\ \A v \in Users \ {u} : totp'[v] = totp[v]
    BY <1>1, <2>1, <2>3 DEF IInv, Typed, CodedTyped
  <2>6. CodedTyped'
    BY <2>1, <2>2, <2>4, <2>5 DEF IInv, Typed, CodedTyped
  <2>7. SecretsFit'
    <3>1. \A v \in Users \ {u} : totp[v] # None => totp[v].secret # secrets + 1
      BY <2>2 DEF IInv, Typed, CodedTyped, SecretsFit, Enrolment, Secrets
    <3>2. secrets + 1 \notin cleared /\ cleared \subseteq 1 .. secrets'
      BY <2>1, <2>2 DEF IInv, SecretsFit
    <3>3. \A v \in Users : totp'[v] # None =>
            totp'[v].secret <= secrets' /\ totp'[v].secret \notin cleared'
            /\ (totp'[v].active => totp'[v].secret \in checked')
      <4> TAKE v \in Users
      <4>1. CASE v = u
        BY <4>1, <2>1, <2>2, <2>3, <2>5, <3>2
      <4>2. CASE v # u /\ totp[v] # None
        <5>1. totp[v].secret \in Nat /\ totp[v].secret <= secrets
          BY <4>2 DEF IInv, Typed, CodedTyped, SecretsFit, Enrolment, Secrets
        <5> QED  BY <4>2, <5>1, <2>1, <2>2, <2>5 DEF IInv, SecretsFit
      <4> QED  BY <4>1, <4>2, <2>5
    <3>4. \A v, w \in Users : totp'[v] # None /\ totp'[w] # None /\ totp'[v].secret = totp'[w].secret => v = w
      BY <2>3, <2>5, <3>1 DEF IInv, SecretsFit
    <3> QED  BY <2>1, <3>2, <3>3, <3>4 DEF SecretsFit
  <2>8. \A v \in Users : Active(v) => Active(v)' /\ totp'[v] = totp[v]
    BY <1>4, <2>5 DEF Active, u
  <2>9. CodesFit'
    BY <2>1 DEF IInv, CodesFit
  <2>10. UsedFit'
    BY <2>1, <2>8 DEF IInv, UsedFit
  <2>11. UNCHANGED <<key, person, owed, stage, asked>>
    BY <1>4 DEF keyed, logins, redis
  <2>12. OwedFits'
    <3>1. \A v \in Users : Held(v) \subseteq Held(v)'
      BY <2>8, <2>11 DEF Held, LiveKeys
    <3> QED  BY <2>11, <3>1, OwedHolds
  <2>13. Grows
    BY <2>1, <2>8, <2>11 DEF Grows
  <2>14. (LoginsTyped /\ ProofsFit /\ KeyedTyped /\ KeysFit /\ RedisTyped /\ ChallengesFit)'
    BY <1>4, <2>11, LoginsStay, KeyedStays, RedisStays
  <2>15. (BudgetTyped /\ GuessesFit)'
    BY <1>4, RestingPayers
  <2> QED  BY <1>4, <2>6, <2>7, <2>9, <2>10, <2>12, <2>13, <2>14, <2>15, WriteKeeps
<1> QED  BY <1>2, <1>3, <1>4 DEF SavePending, InsertPending, Active

\* The code is checked on the row that was read, and the write asks for its secret.
LEMMA ProveEnrolmentKeeps ==
  ASSUME IInv, NEW p \in Procs, ProveEnrolment(p)
  PROVE  IInv'
<1> DEFINE u == req[p].u
           row == totp[u]
           r == req[p]
<1>1. /\ pc[p] = "read" /\ r.op = "activate" /\ r \in Req /\ u \in Users
      /\ Knows("read", r) /\ Fits("read", r) /\ Pays(pc[p], r)
  BY DEF IInv, Typed, RequestsTyped, RequestsKnow, Fits, ProveEnrolment, At, Pays
<1>2. CASE Refuse(p)
  BY <1>2, RefuseKeeps
<1>3. ASSUME NEW c, ~Refuse(p), row # None, Compare(p), Proves(row, c),
             Move(p, "write", [r EXCEPT !.row = row, !.code = c]),
             checked' = checked \cup {row.secret},
             UNCHANGED <<logins, keyed, redis>>,
             UNCHANGED <<totp, codes, secrets, issued, used, replayed, cleared>>
      PROVE  IInv'
  <2> DEFINE with == [r EXCEPT !.row = row, !.code = c]
  <2>1. row \in Enrolment /\ c \in TimeCode /\ c.secret = row.secret
    BY <1>1, <1>3 DEF IInv, Typed, CodedTyped, Proves
  <2>2. /\ with \in Req /\ with.op = "activate" /\ with.s = r.s /\ with.u = r.u /\ with.got = r.got
        /\ with.row = row /\ with.code = c /\ with # NoReq
    BY <1>1, <2>1 DEF Req, NoReq
  <2>3. Fits("write", with) /\ ~Pays("write", with)
    BY <1>1, <2>1, <2>2 DEF Fits, Pays
  <2> HIDE DEF with
  <2>4. Move(p, "write", with)
    BY <1>3 DEF with
  <2>5. /\ RequestsTyped' /\ pc'[p] = "write" /\ req'[p] = with
        /\ \A q \in Procs \ {p} : pc'[q] = pc[q] /\ req'[q] = req[q]
        /\ now' = now
    BY <2>2, <2>3, <2>4, Moved DEF IInv, Typed, PCs
  <2>6. (BudgetTyped /\ GuessesFit)'
    BY <1>1, <1>3, <2>3, <2>5, ComparedOnce
  <2>7. (LoginsTyped /\ ProofsFit /\ KeyedTyped /\ KeysFit /\ RedisTyped /\ ChallengesFit)'
    BY <1>3, LoginsStay, KeyedStays, RedisStays DEF redis
  <2>8. (CodedTyped /\ SecretsFit /\ CodesFit /\ UsedFit)'
    BY <1>3, <2>5 DEF IInv, Typed, CodedTyped, SecretsFit, CodesFit, UsedFit, Active
  <2>9. OwedFits'
    BY <1>3, OwedStays DEF logins, keyed
  <2>10. Grows
    BY <1>3 DEF Grows, Active, logins, redis
  <2>11. \A q \in Procs \ {p} : Knows(pc[q], req[q])'
    BY <2>5, <2>10, StillKnows
  <2>12. Knows(pc[p], req[p])'
    BY <1>1, <1>3, <2>2, <2>5 DEF Knows, Holder, logins, redis
  <2> QED  BY <2>5, <2>6, <2>7, <2>8, <2>9, <2>11, <2>12 DEF IInv, Typed, RequestsKnow
<1>4. CASE Compare(p) /\ Wrong(p)
  BY <1>1, <1>4, WrongGuessKeeps
<1> QED  BY <1>2, <1>3, <1>4 DEF ProveEnrolment

\* The row is as it was read when an activation is written, and its secret unused.
LEMMA WriteActivationKeeps ==
  ASSUME IInv, NEW p \in Procs, WriteActivation(p)
  PROVE  IInv'
<1> DEFINE r == req[p]
           u == r.u
<1>1. CASE Refuse(p)
  BY <1>1, RefuseKeeps
<1>2. CASE ~Refuse(p)
  <2>1. /\ r \in Req /\ r.op = "activate" /\ u \in Users /\ r.row \in Enrolment
        /\ r.code \in TimeCode /\ r.code.secret = r.row.secret /\ r.row.secret \in checked
        /\ r.s # None => owed[r.s] = {}
    BY DEF IInv, Typed, RequestsTyped, RequestsKnow, Fits, Knows, WriteActivation, At, EnrolOps
  <2>2. /\ totp[u] # None /\ ~totp[u].active /\ totp[u].secret = r.row.secret
        /\ totp' = [totp EXCEPT ![u].active = TRUE, ![u].last = r.code.step]
        /\ Reissue(u) /\ Accept(r.code) /\ Finish(r.s, "enrolment", 0) /\ Done(p)
        /\ UNCHANGED <<secrets, cleared, checked, keyed, redis, budget>>
    BY <1>2 DEF WriteActivation, Matches
  <2> DEFINE new == [totp[u] EXCEPT !.active = TRUE, !.last = r.code.step]
             c == r.code
  <2>3. totp[u] \in Enrolment /\ c.step \in Steps
    BY <2>1, <2>2 DEF IInv, Typed, CodedTyped, TimeCode
  <2>4. new \in Enrolment /\ new.active = TRUE /\ new.last = c.step /\ new.secret = totp[u].secret
    BY <2>3 DEF Enrolment
  <2>5. totp' = [totp EXCEPT ![u] = new]
    BY <2>2
  <2>6. now' = now
    BY <2>2, Rests DEF IInv, Typed
  <2>7. c \in TimeCode /\ c.secret = totp[u].secret /\ totp[u].secret \in checked
    BY <2>1, <2>2
  <2>8. u \in Users /\ r.s \in Sessions \cup {None} /\ (r.s # None => owed[r.s] = {})
    BY <2>1 DEF Req
  <2> HIDE DEF new, c, u
  <2>9. totp'[u] = new /\ totp' \in [Users -> Enrolment \cup {None}] /\ \A v \in Users \ {u} : totp'[v] = totp[v]
    BY <2>4, <2>5, <2>8 DEF IInv, Typed, CodedTyped
  <2>10. /\ issued < MaxCodes /\ issued' = issued + 1 /\ issued \in Nat
         /\ codes' = [codes EXCEPT ![u] = {issued + 1}]
    BY <2>2 DEF IInv, Typed, CodedTyped, Reissue, u
  <2>11. /\ used' = used \cup {c}
         /\ replayed' = IF c \in used THEN replayed \cup {c} ELSE replayed
    BY <2>2 DEF Accept, c
  <2>12. CodedTyped'
    <3>1. codes' \in [Users -> SUBSET (1 .. MaxCodes)] /\ issued' \in 0 .. MaxCodes
      BY <2>8, <2>10 DEF IInv, Typed, CodedTyped
    <3> QED  BY <2>2, <2>6, <2>9, <3>1 DEF IInv, Typed, CodedTyped
  <2>13. SecretsFit'
    <3>1. \A v \in Users : totp'[v] # None =>
             totp[v] # None /\ totp'[v].secret = totp[v].secret /\ (totp'[v].active => totp[v].active \/ v = u)
      BY <2>2, <2>4, <2>9 DEF u
    <3>2. \A v \in Users : totp'[v] # None =>
            totp'[v].secret <= secrets' /\ totp'[v].secret \notin cleared'
            /\ (totp'[v].active => totp'[v].secret \in checked')
      <4>1. UNCHANGED <<secrets, cleared, checked>>
        BY <2>2
      <4> QED  BY <2>7, <3>1, <4>1 DEF IInv, SecretsFit
    <3>3. \A v, w \in Users : totp'[v] # None /\ totp'[w] # None /\ totp'[v].secret = totp'[w].secret => v = w
      BY <3>1 DEF IInv, SecretsFit
    <3> QED  BY <2>2, <3>2, <3>3 DEF IInv, SecretsFit
  <2>14. codes'[u] = {issued + 1} /\ \A v \in Users \ {u} : codes'[v] = codes[v] /\ codes[v] \subseteq 1 .. issued
    BY <2>8, <2>10 DEF IInv, Typed, CodedTyped, CodesFit
  <2>15. CodesFit'
    <3>1. \A v \in Users : codes'[v] \subseteq 1 .. issued'
      BY <2>10, <2>14
    <3>2. \A v, w \in Users : codes'[v] \cap codes'[w] # {} => v = w
      BY <2>10, <2>14 DEF IInv, CodesFit
    <3> QED  BY <3>1, <3>2 DEF CodesFit
  <2>16. c \notin used
    <3>1. totp[u].secret \notin cleared
      BY <2>2, <2>8 DEF IInv, SecretsFit, u
    <3>2. \A v \in Users : Active(v) => totp[v].secret # c.secret
      BY <2>2, <2>7, <2>8 DEF IInv, SecretsFit, Active, u
    <3> QED  BY <2>7, <3>1, <3>2 DEF IInv, UsedFit
  <2>17. \A v \in Users : Active(v) => v # u /\ Active(v)' /\ totp'[v] = totp[v]
    BY <2>2, <2>9 DEF Active, u
  <2>18. UsedFit'
    <3>1. used' \subseteq TimeCode \cup RecoveryCode
      BY <2>7, <2>11 DEF IInv, UsedFit
    <3>2. \A d \in used' \cap RecoveryCode : d.digest <= issued' /\ \A v \in Users : d.digest \notin codes'[v]
      <4> TAKE d \in used' \cap RecoveryCode
      <4>1. d \in used /\ d.digest \in 1 .. MaxCodes
        BY <2>7, <2>11, CodesDiffer DEF RecoveryCode
      <4>2. d.digest <= issued /\ \A v \in Users : d.digest \notin codes[v]
        BY <4>1 DEF IInv, UsedFit
      <4> QED  BY <4>1, <4>2, <2>10, <2>14
    <3>3. \A d \in used' \cap TimeCode :
            \/ d.secret \in cleared'
            \/ \E v \in Users : Active(v)' /\ totp'[v].secret = d.secret /\ d.step <= totp'[v].last
      <4> TAKE d \in used' \cap TimeCode
      <4>1. CASE d = c
        <5>1. totp'[u] # None /\ totp'[u].active /\ totp'[u].secret = c.secret /\ totp'[u].last = c.step
          BY <2>4, <2>7, <2>9
        <5>2. c.step <= c.step
          BY <2>7 DEF TimeCode, Steps
        <5> QED  BY <4>1, <5>1, <5>2, <2>8 DEF Active
      <4>2. CASE d \in used
        BY <4>2, <2>2, <2>17 DEF IInv, UsedFit
      <4> QED  BY <4>1, <4>2, <2>11
    <3>4. \A d \in replayed' : d \in TimeCode /\ d.secret \in cleared'
      BY <2>2, <2>11, <2>16 DEF IInv, UsedFit
    <3> QED  BY <3>1, <3>2, <3>3, <3>4 DEF UsedFit
  <2>19. UNCHANGED asked /\ 0 \in 0 .. MaxChallenges
    BY <2>2 DEF redis
  <2>20. /\ (LoginsTyped /\ ProofsFit)' /\ UNCHANGED <<person, owed>>
         /\ \A t \in Sessions : stage[t] # "identified" => stage'[t] # "identified"
    BY <2>2, <2>8, <2>19, FinishKeeps
  <2>21. OwedFits'
    <3>1. \A v \in Users : Held(v) \subseteq Held(v)'
      BY <2>2, <2>17 DEF Held, LiveKeys, keyed
    <3> QED  BY <2>20, <3>1, OwedHolds
  <2>22. Grows
    BY <2>2, <2>17, <2>19, <2>20 DEF Grows
  <2>23. (BudgetTyped /\ GuessesFit /\ KeyedTyped /\ KeysFit /\ RedisTyped /\ ChallengesFit)'
    BY <2>2, RestingPayers, KeyedStays, RedisStays
  <2> QED  BY <2>2, <2>12, <2>13, <2>15, <2>18, <2>20, <2>21, <2>22, <2>23, WriteKeeps
<1> QED  BY <1>1, <1>2

\* A time code is checked on the active row it was read from.
LEMMA AnswerChallengeKeeps ==
  ASSUME IInv, NEW p \in Procs, AnswerChallenge(p)
  PROVE  IInv'
<1> DEFINE u == req[p].u
           row == totp[u]
           r == req[p]
<1>1. /\ pc[p] = "read" /\ r.op = "verify" /\ r \in Req /\ u \in Users
      /\ Knows("read", r) /\ Fits("read", r) /\ Pays(pc[p], r)
  BY DEF IInv, Typed, RequestsTyped, RequestsKnow, Fits, AnswerChallenge, At, Pays
<1>2. CASE Refuse(p)
  BY <1>2, RefuseKeeps
<1>3. ASSUME NEW c \in TimeCode \cup RecoveryCode, Active(u), Compare(p),
             c \in TimeCode => c.secret = row.secret,
             Move(p, "write", [r EXCEPT !.row = row, !.code = c]),
             UNCHANGED <<logins, coded, keyed, redis>>
      PROVE  IInv'
  <2> DEFINE with == [r EXCEPT !.row = row, !.code = c]
  <2>1. row \in Enrolment
    BY <1>1, <1>3 DEF IInv, Typed, CodedTyped, Active
  <2>2. /\ with \in Req /\ with.op = "verify" /\ with.s = r.s /\ with.u = r.u /\ with.got = r.got
        /\ with.row = row /\ with.code = c /\ with # NoReq
    BY <1>1, <2>1 DEF Req, NoReq
  <2>3. Fits("write", with) /\ ~Pays("write", with)
    BY <1>1, <2>1, <2>2 DEF Fits, Pays
  <2> HIDE DEF with
  <2>4. Move(p, "write", with)
    BY <1>3 DEF with
  <2>5. /\ RequestsTyped' /\ pc'[p] = "write" /\ req'[p] = with
        /\ \A q \in Procs \ {p} : pc'[q] = pc[q] /\ req'[q] = req[q]
        /\ now' = now
    BY <2>2, <2>3, <2>4, Moved DEF IInv, Typed, PCs
  <2>6. (BudgetTyped /\ GuessesFit)'
    BY <1>1, <1>3, <2>3, <2>5, ComparedOnce
  <2>7. (LoginsTyped /\ ProofsFit /\ KeyedTyped /\ KeysFit /\ RedisTyped /\ ChallengesFit)'
    BY <1>3, LoginsStay, KeyedStays, RedisStays DEF redis
  <2>8. (CodedTyped /\ SecretsFit /\ CodesFit /\ UsedFit /\ OwedFits)'
    BY <1>3, <2>5, CodedStays, OwedStays DEF logins, coded, keyed
  <2>9. Grows
    BY <1>3 DEF Grows, Active, logins, redis, coded
  <2>10. \A q \in Procs \ {p} : Knows(pc[q], req[q])'
    BY <2>5, <2>9, StillKnows
  <2>11. Knows(pc[p], req[p])'
    BY <1>1, <1>3, <2>2, <2>5 DEF Knows, Holder, Active, EnrolOps, coded, redis
  <2> QED  BY <2>5, <2>6, <2>7, <2>8, <2>10, <2>11 DEF IInv, Typed, RequestsKnow
<1>4. CASE Compare(p) /\ Wrong(p)
  BY <1>1, <1>4, WrongGuessKeeps
<1>5. \A n \in 1 .. issued : [digest |-> n] \in TimeCode \cup RecoveryCode /\ [digest |-> n] \notin TimeCode
  BY CodesDiffer DEF IInv, Typed, CodedTyped, RecoveryCode
<1> QED  BY <1>2, <1>3, <1>4, <1>5 DEF AnswerChallenge, Proves

\* A step is spent once: on the row the code was checked on, which is at an
\* earlier step, or on one that came after it was cleared.
LEMMA SpendStepKeeps ==
  ASSUME IInv, NEW p \in Procs, SpendStep(p)
  PROVE  IInv'
<1> DEFINE r == req[p]
           u == r.u
<1>1. CASE Wrong(p) /\ UNCHANGED budget
  <2>1. (BudgetTyped /\ GuessesFit)'
    BY <1>1, RestingPayers DEF Wrong
  <2> QED  BY <1>1, <2>1, WrongKeeps
<1>2. CASE Fresh(u, r.code.step)
  <2> DEFINE new == [totp[u] EXCEPT !.last = r.code.step]
             c == r.code
  <2>1. /\ totp[u] # None /\ totp[u].last < c.step
        /\ totp' = [totp EXCEPT ![u] = new]
        /\ Accept(c) /\ Completes(r.s, "code", 0) /\ Done(p)
        /\ UNCHANGED <<codes, secrets, issued, cleared, checked, keyed, redis, budget>>
    BY <1>2 DEF SpendStep, Fresh
  <2>2. /\ r.s \in Sessions /\ u \in Users /\ c \in TimeCode
        /\ c.secret \in cleared \/ (totp[u].active /\ totp[u].secret = c.secret)
    BY DEF IInv, Typed, RequestsTyped, RequestsKnow, Fits, Knows, Active, SpendStep, At
  <2>3. totp[u] \in Enrolment /\ c.step \in Steps
    BY <2>1, <2>2 DEF IInv, Typed, CodedTyped, TimeCode
  <2>4. new \in Enrolment /\ new.active = totp[u].active /\ new.last = c.step /\ new.secret = totp[u].secret
    BY <2>3 DEF Enrolment
  <2>5. now' = now
    BY <2>1, Rests DEF IInv, Typed
  <2> HIDE DEF new, c, u
  <2>6. totp'[u] = new /\ totp' \in [Users -> Enrolment \cup {None}] /\ \A v \in Users \ {u} : totp'[v] = totp[v]
    BY <2>1, <2>2, <2>4 DEF IInv, Typed, CodedTyped
  <2>7. /\ used' = used \cup {c}
        /\ replayed' = IF c \in used THEN replayed \cup {c} ELSE replayed
    BY <2>1 DEF Accept
  <2>8. CodedTyped'
    BY <2>1, <2>5, <2>6 DEF IInv, Typed, CodedTyped
  <2>9. \A v \in Users :
          /\ totp'[v] # None => totp[v] # None
          /\ totp[v] # None => /\ totp'[v] # None /\ totp'[v].secret = totp[v].secret
                               /\ totp'[v].active = totp[v].active
    BY <2>1, <2>4, <2>6
  <2>10. SecretsFit'
    <3>1. \A v \in Users : totp'[v] # None =>
            totp'[v].secret <= secrets' /\ totp'[v].secret \notin cleared'
            /\ (totp'[v].active => totp'[v].secret \in checked')
      BY <2>1, <2>9 DEF IInv, SecretsFit
    <3>2. \A v, w \in Users : totp'[v] # None /\ totp'[w] # None /\ totp'[v].secret = totp'[w].secret => v = w
      BY <2>9 DEF IInv, SecretsFit
    <3> QED  BY <2>1, <3>1, <3>2 DEF IInv, SecretsFit
  <2>11. CodesFit'
    BY <2>1 DEF IInv, CodesFit
  <2>12. c \in used => c.secret \in cleared
    <3> SUFFICES ASSUME c \in used, c.secret \notin cleared
                 PROVE  FALSE
      OBVIOUS
    <3>1. PICK v \in Users : Active(v) /\ totp[v].secret = c.secret /\ c.step <= totp[v].last
      BY <2>2 DEF IInv, UsedFit
    <3>2. v = u
      BY <2>1, <2>2, <3>1 DEF IInv, SecretsFit, Active
    <3>3. totp[u].last \in Nat /\ c.step \in Nat
      BY <2>3 DEF Enrolment, Steps
    <3> QED  BY <2>1, <3>1, <3>2, <3>3
  <2>13. UsedFit'
    <3>1. used' \subseteq TimeCode \cup RecoveryCode
      BY <2>2, <2>7 DEF IInv, UsedFit
    <3>2. \A d \in used' \cap RecoveryCode : d.digest <= issued' /\ \A v \in Users : d.digest \notin codes'[v]
      BY <2>1, <2>2, <2>7, CodesDiffer DEF IInv, UsedFit
    <3>3. \A d \in used' \cap TimeCode :
            \/ d.secret \in cleared'
            \/ \E v \in Users : Active(v)' /\ totp'[v].secret = d.secret /\ d.step <= totp'[v].last
      <4> TAKE d \in used' \cap TimeCode
      <4>1. CASE d = c
        <5>1. c.step <= c.step
          BY <2>3 DEF Steps
        <5> QED  BY <4>1, <5>1, <2>1, <2>2, <2>4, <2>6 DEF Active
      <4>2. ASSUME d \in used, d.secret \notin cleared
            PROVE  \E v \in Users : Active(v)' /\ totp'[v].secret = d.secret /\ d.step <= totp'[v].last
        <5>1. PICK v \in Users : Active(v) /\ totp[v].secret = d.secret /\ d.step <= totp[v].last
          BY <4>2 DEF IInv, UsedFit
        <5>2. Active(v)' /\ totp'[v].secret = d.secret
          BY <2>9, <5>1 DEF Active
        <5>3. totp[u].last \in Nat /\ c.step \in Nat /\ d.step \in Nat
          BY <2>3 DEF Enrolment, TimeCode, Steps
        <5>4. d.step <= totp'[v].last
          BY <2>1, <2>4, <2>6, <5>1, <5>3
        <5> QED  BY <5>2, <5>4
      <4> QED  BY <4>1, <4>2, <2>1, <2>7
    <3>4. \A d \in replayed' : d \in TimeCode /\ d.secret \in cleared'
      BY <2>1, <2>2, <2>7, <2>12 DEF IInv, UsedFit
    <3> QED  BY <3>1, <3>2, <3>3, <3>4 DEF UsedFit
  <2>14. r.s # None /\ UNCHANGED asked
    BY <2>1, <2>2 DEF redis
  <2>15. /\ (LoginsTyped /\ ProofsFit)' /\ UNCHANGED <<person, owed>>
         /\ \A t \in Sessions : stage[t] # "identified" => stage'[t] # "identified"
    BY <2>1, <2>2, <2>14, FinishKeeps DEF Finish
  <2>16. OwedFits'
    <3>1. \A v \in Users : Held(v) \subseteq Held(v)'
      BY <2>1, <2>9 DEF Held, LiveKeys, Active, keyed
    <3> QED  BY <2>15, <3>1, OwedHolds
  <2>17. Grows
    BY <2>1, <2>9, <2>14, <2>15 DEF Grows, Active
  <2>18. (BudgetTyped /\ GuessesFit /\ KeyedTyped /\ KeysFit /\ RedisTyped /\ ChallengesFit)'
    BY <2>1, RestingPayers, KeyedStays, RedisStays
  <2> QED  BY <2>1, <2>8, <2>10, <2>11, <2>13, <2>15, <2>16, <2>17, <2>18, WriteKeeps
<1> QED  BY <1>1, <1>2 DEF SpendStep

\* A recovery code is taken from the one person who holds it.
LEMMA RedeemKeeps ==
  ASSUME IInv, NEW p \in Procs, RedeemRecoveryCode(p)
  PROVE  IInv'
<1> DEFINE r == req[p]
           c == r.code
           n == c.digest
<1>1. CASE Wrong(p) /\ UNCHANGED budget
  <2>1. (BudgetTyped /\ GuessesFit)'
    BY <1>1, RestingPayers DEF Wrong
  <2> QED  BY <1>1, <2>1, WrongKeeps
<1>2. CASE n \in codes[r.u]
  <2>1. /\ codes' = [codes EXCEPT ![r.u] = codes[r.u] \ {n}]
        /\ Accept(c) /\ Completes(r.s, "recovery", 0) /\ Done(p)
        /\ UNCHANGED <<totp, secrets, issued, cleared, checked, keyed, redis, budget>>
    BY <1>2 DEF RedeemRecoveryCode
  <2>2. r.s \in Sessions /\ r.u \in Users /\ c \in RecoveryCode /\ c \notin TimeCode
    BY CodesDiffer DEF IInv, Typed, RequestsTyped, Fits, RedeemRecoveryCode, At
  <2>3. now' = now
    BY <2>1, Rests DEF IInv, Typed
  <2>4. /\ used' = used \cup {c}
        /\ replayed' = IF c \in used THEN replayed \cup {c} ELSE replayed
    BY <2>1 DEF Accept
  <2>5. CodedTyped' /\ SecretsFit'
    BY <2>1, <2>2, <2>3 DEF IInv, Typed, CodedTyped, SecretsFit
  <2>6. \A v \in Users : codes'[v] \subseteq codes[v] \ {n}
    BY <1>2, <2>1, <2>2 DEF IInv, Typed, CodedTyped, CodesFit
  <2>7. CodesFit'
    <3>1. \A v \in Users : codes'[v] \subseteq 1 .. issued'
      BY <2>1, <2>6 DEF IInv, CodesFit
    <3>2. \A v, w \in Users : codes'[v] \cap codes'[w] # {} => v = w
      BY <2>6 DEF IInv, CodesFit
    <3> QED  BY <3>1, <3>2 DEF CodesFit
  <2>8. c \notin used /\ n <= issued
    <3>1. n \in 1 .. issued
      BY <1>2, <2>2 DEF IInv, CodesFit
    <3>2. issued \in Nat
      BY DEF IInv, Typed, CodedTyped
    <3> QED  BY <1>2, <2>2, <3>1, <3>2 DEF IInv, UsedFit
  <2>9. UsedFit'
    <3>1. used' \subseteq TimeCode \cup RecoveryCode /\ used' \cap TimeCode = used \cap TimeCode /\ replayed' = replayed
      BY <2>2, <2>4, <2>8 DEF IInv, UsedFit
    <3>2. \A d \in used' \cap RecoveryCode : d.digest <= issued' /\ \A v \in Users : d.digest \notin codes'[v]
      BY <2>1, <2>4, <2>6, <2>8 DEF IInv, UsedFit
    <3> QED  BY <2>1, <3>1, <3>2 DEF IInv, UsedFit, Active
  <2>10. r.s # None /\ UNCHANGED asked
    BY <2>1, <2>2 DEF redis
  <2>11. /\ (LoginsTyped /\ ProofsFit)' /\ UNCHANGED <<person, owed>>
         /\ \A t \in Sessions : stage[t] # "identified" => stage'[t] # "identified"
    BY <2>1, <2>2, <2>10, FinishKeeps DEF Finish
  <2>12. OwedFits'
    BY <2>1, <2>11, OwedStays DEF keyed
  <2>13. Grows
    BY <2>1, <2>10, <2>11 DEF Grows, Active
  <2>14. (BudgetTyped /\ GuessesFit /\ KeyedTyped /\ KeysFit /\ RedisTyped /\ ChallengesFit)'
    BY <2>1, RestingPayers, KeyedStays, RedisStays
  <2> QED  BY <2>1, <2>5, <2>7, <2>9, <2>11, <2>12, <2>13, <2>14, WriteKeeps
<1> QED  BY <1>1, <1>2 DEF RedeemRecoveryCode

LEMMA ReplaceCodesKeeps ==
  ASSUME IInv, NEW p \in Procs, ReplaceCodes(p)
  PROVE  IInv'
<1>1. PICK u \in Users : u = req[p].u
  BY DEF IInv, Typed, RequestsTyped, Fits, ReplaceCodes, At
<1>2. /\ issued < MaxCodes /\ issued' = issued + 1 /\ issued \in Nat
      /\ codes' = [codes EXCEPT ![u] = {issued + 1}]
      /\ UNCHANGED <<totp, secrets, used, replayed, cleared, checked>>
      /\ UNCHANGED <<logins, keyed, redis, budget>> /\ Done(p)
  BY <1>1 DEF IInv, Typed, CodedTyped, ReplaceCodes, Reissue
<1>3. now' = now
  BY <1>2, Rests DEF IInv, Typed
<1>4. codes'[u] = {issued + 1} /\ \A v \in Users \ {u} : codes'[v] = codes[v] /\ codes[v] \subseteq 1 .. issued
  BY <1>2 DEF IInv, Typed, CodedTyped, CodesFit
<1>5. CodedTyped' /\ SecretsFit'
  BY <1>2, <1>3 DEF IInv, Typed, CodedTyped, SecretsFit
<1>6. CodesFit'
  <2>1. \A v \in Users : codes'[v] \subseteq 1 .. issued'
    BY <1>2, <1>4
  <2>2. \A v, w \in Users : codes'[v] \cap codes'[w] # {} => v = w
    BY <1>2, <1>4 DEF IInv, CodesFit
  <2> QED  BY <2>1, <2>2 DEF CodesFit
<1>7. UsedFit'
  <2>1. \A d \in used' \cap RecoveryCode : d.digest <= issued' /\ \A v \in Users : d.digest \notin codes'[v]
    <3> TAKE d \in used' \cap RecoveryCode
    <3>1. d \in used /\ d.digest \in Nat
      BY <1>2 DEF RecoveryCode
    <3>2. d.digest <= issued /\ \A v \in Users : d.digest \notin codes[v]
      BY <3>1 DEF IInv, UsedFit
    <3> QED  BY <3>1, <3>2, <1>2, <1>4
  <2> QED  BY <1>2, <2>1 DEF IInv, UsedFit, Active
<1>8. Grows
  BY <1>2 DEF Grows, Active, logins, redis
<1>9. (LoginsTyped /\ ProofsFit /\ OwedFits)'
  BY <1>2, LoginsStay, OwedStays DEF logins, redis, keyed
<1>10. (BudgetTyped /\ GuessesFit /\ KeyedTyped /\ KeysFit /\ RedisTyped /\ ChallengesFit)'
  BY <1>2, RestingPayers, KeyedStays, RedisStays
<1> QED  BY <1>2, <1>5, <1>6, <1>7, <1>8, <1>9, <1>10, WriteKeeps

\* Clearing retires the secret of a row and the codes of the person.
LEMMA ClearFits ==
  ASSUME IInv, NEW u \in Users, Clear(u), now' = now
  PROVE  /\ (CodedTyped /\ SecretsFit /\ CodesFit /\ UsedFit)'
         /\ checked \subseteq checked' /\ cleared \subseteq cleared'
         /\ \A v \in Users : Active(v) =>
               \/ Active(v)' /\ totp'[v].secret = totp[v].secret
               \/ v = u /\ totp[v].secret \in cleared'
         /\ totp'[u] = None /\ \A v \in Users \ {u} : totp'[v] = totp[v]
<1>1. /\ totp' = [totp EXCEPT ![u] = None]
      /\ codes' = [codes EXCEPT ![u] = {}]
      /\ cleared' = IF totp[u] = None THEN cleared ELSE cleared \cup {totp[u].secret}
      /\ UNCHANGED <<secrets, issued, used, replayed, checked>>
  BY DEF Clear
<1>2. totp'[u] = None /\ \A v \in Users \ {u} : totp'[v] = totp[v]
  BY <1>1 DEF IInv, Typed, CodedTyped
<1>3. \A v \in Users : codes'[v] \subseteq codes[v]
  BY <1>1 DEF IInv, Typed, CodedTyped
<1>4. CodedTyped'
  BY <1>1 DEF IInv, Typed, CodedTyped
<1>5. SecretsFit'
  <2>1. cleared' \subseteq 1 .. secrets'
    <3>1. totp[u] # None => totp[u].secret \in 1 .. secrets
      BY DEF IInv, Typed, CodedTyped, SecretsFit, Enrolment, Secrets
    <3> QED  BY <1>1, <3>1 DEF IInv, SecretsFit
  <2>2. \A v \in Users : totp'[v] # None =>
          totp'[v].secret <= secrets' /\ totp'[v].secret \notin cleared'
          /\ (totp'[v].active => totp'[v].secret \in checked')
    BY <1>1, <1>2 DEF IInv, SecretsFit
  <2>3. \A v, w \in Users : totp'[v] # None /\ totp'[w] # None /\ totp'[v].secret = totp'[w].secret => v = w
    BY <1>2 DEF IInv, SecretsFit
  <2> QED  BY <2>1, <2>2, <2>3 DEF SecretsFit
<1>6. CodesFit'
  <2>1. \A v \in Users : codes'[v] \subseteq 1 .. issued'
    BY <1>1, <1>3 DEF IInv, CodesFit
  <2>2. \A v, w \in Users : codes'[v] \cap codes'[w] # {} => v = w
    BY <1>3 DEF IInv, CodesFit
  <2> QED  BY <2>1, <2>2 DEF CodesFit
<1>7. \A v \in Users : Active(v) =>
        \/ Active(v)' /\ totp'[v] = totp[v]
        \/ v = u /\ totp[v].secret \in cleared'
  BY <1>1, <1>2 DEF Active
<1>8. UsedFit'
  <2>1. \A d \in used' \cap RecoveryCode : d.digest <= issued' /\ \A v \in Users : d.digest \notin codes'[v]
    BY <1>1, <1>3 DEF IInv, UsedFit
  <2>2. \A d \in used' \cap TimeCode :
          \/ d.secret \in cleared'
          \/ \E v \in Users : Active(v)' /\ totp'[v].secret = d.secret /\ d.step <= totp'[v].last
    <3> TAKE d \in used' \cap TimeCode
    <3>1. \/ d.secret \in cleared
          \/ \E v \in Users : Active(v) /\ totp[v].secret = d.secret /\ d.step <= totp[v].last
      BY <1>1 DEF IInv, UsedFit
    <3>2. CASE d.secret \in cleared
      BY <1>1, <3>2
    <3>3. ASSUME NEW v \in Users, Active(v), totp[v].secret = d.secret, d.step <= totp[v].last
          PROVE  \/ d.secret \in cleared'
                 \/ Active(v)' /\ totp'[v].secret = d.secret /\ d.step <= totp'[v].last
      BY <1>7, <3>3
    <3> QED  BY <3>1, <3>2, <3>3
  <2> QED  BY <1>1, <2>1, <2>2 DEF IInv, UsedFit
<1> QED  BY <1>1, <1>2, <1>4, <1>5, <1>6, <1>7, <1>8

\* A factor that is gone is owed no more, and held no more.
LEMMA RemoveCodesKeeps ==
  ASSUME IInv, NEW p \in Procs, RemoveCodes(p)
  PROVE  IInv'
<1>1. PICK u \in Users : u = req[p].u
  BY DEF IInv, Typed, RequestsTyped, Fits, RemoveCodes, At
<1>2. /\ Clear(u) /\ Done(p) /\ UNCHANGED <<keyed, redis, budget>>
      /\ Forget({row.secret : row \in {totp[u]} \ {None}})
  BY <1>1 DEF RemoveCodes
<1>3. now' = now
  BY <1>2, Rests DEF IInv, Typed
<1>4. /\ (CodedTyped /\ SecretsFit /\ CodesFit /\ UsedFit)'
      /\ checked \subseteq checked' /\ cleared \subseteq cleared'
      /\ \A v \in Users : Active(v) =>
            \/ Active(v)' /\ totp'[v].secret = totp[v].secret
            \/ v = u /\ totp[v].secret \in cleared'
      /\ totp'[u] = None /\ \A v \in Users \ {u} : totp'[v] = totp[v]
  BY <1>2, <1>3, ClearFits
<1>5. /\ \A s \in Sessions : owed'[s] = owed[s] \ {row.secret : row \in {totp[u]} \ {None}}
      /\ owed' = [s \in Sessions |-> owed[s] \ {row.secret : row \in {totp[u]} \ {None}}]
      /\ UNCHANGED <<person, stage, wrong, proof, key, asked>>
  BY <1>2 DEF Forget, keyed, redis
<1>6. LoginsTyped' /\ ProofsFit'
  BY <1>5 DEF IInv, Typed, LoginsTyped, ProofsFit
<1>7. OwedFits'
  <2> SUFFICES ASSUME NEW s \in Sessions, NEW x \in owed'[s]
               PROVE  x \in Held(person[s])'
    BY DEF OwedFits
  <2>1. x \in Held(person[s]) /\ person[s] \in Users /\ person'[s] = person[s]
    BY <1>5 DEF IInv, Typed, LoginsTyped, OwedFits
  <2>2. CASE x \in LiveKeys(person[s])
    BY <2>1, <2>2, <1>5 DEF Held, LiveKeys
  <2>3. CASE Active(person[s]) /\ x = totp[person[s]].secret
    <3>1. person[s] # u
      BY <1>5, <2>3 DEF Active
    <3> QED  BY <2>1, <2>3, <3>1, <1>4, <1>5 DEF Held, Active
  <2> QED  BY <2>1, <2>2, <2>3 DEF Held
<1>8. Grows
  BY <1>4, <1>5 DEF Grows
<1>9. (BudgetTyped /\ GuessesFit /\ KeyedTyped /\ KeysFit /\ RedisTyped /\ ChallengesFit)'
  BY <1>2, RestingPayers, KeyedStays, RedisStays
<1> QED  BY <1>2, <1>4, <1>6, <1>7, <1>8, <1>9, WriteKeeps

\* Fewer passkeys fit the cap.
LEMMA FewerKeys ==
  ASSUME IInv, \A u \in Users : LiveKeys(u)' \subseteq LiveKeys(u), overrun' = overrun
  PROVE  KeysFit'
<1> SUFFICES ASSUME NEW u \in Users
             PROVE  Cardinality(LiveKeys(u)') <= MaxPasskeys \/ u \in overrun'
  BY DEF KeysFit
<1>1. Cardinality(LiveKeys(u)') <= Cardinality(LiveKeys(u)) /\ IsFiniteSet(LiveKeys(u)')
  BY LiveKeysFinite, FS_Subset
<1>2. Cardinality(LiveKeys(u)') \in Nat /\ Cardinality(LiveKeys(u)) \in Nat
  BY <1>1, LiveKeysFinite, FS_CardinalityType
<1> QED  BY <1>1, <1>2 DEF IInv, KeysFit

LEMMA ResetKeeps ==
  ASSUME IInv, NEW p \in Procs, ResetMFA(p)
  PROVE  IInv'
<1>1. PICK u \in Users : u = req[p].u
  BY DEF IInv, Typed, RequestsTyped, Fits, ResetMFA, At
<1>2. /\ Clear(u) /\ ClearPasskeys(u) /\ Done(p)
      /\ owed' = [s \in Sessions |-> IF person[s] = u THEN {} ELSE owed[s]]
      /\ UNCHANGED <<person, stage, wrong, proof, overrun, redis, budget>>
  BY <1>1 DEF ResetMFA
<1>3. now' = now
  BY <1>2, Rests DEF IInv, Typed
<1>4. /\ (CodedTyped /\ SecretsFit /\ CodesFit /\ UsedFit)'
      /\ checked \subseteq checked' /\ cleared \subseteq cleared'
      /\ \A v \in Users : Active(v) =>
            \/ Active(v)' /\ totp'[v].secret = totp[v].secret
            \/ v = u /\ totp[v].secret \in cleared'
      /\ totp'[u] = None /\ \A v \in Users \ {u} : totp'[v] = totp[v]
  BY <1>2, <1>3, ClearFits
<1>5. \A d \in Devices : key'[d] = IF d \in LiveKeys(u) THEN [key[d] EXCEPT !.live = FALSE] ELSE key[d]
  BY <1>2 DEF ClearPasskeys
<1>6. \A d \in LiveKeys(u) : key'[d] \in Credential /\ ~key'[d].live
  BY <1>5 DEF IInv, Typed, KeyedTyped, LiveKeys, Credential
<1>7. KeyedTyped'
  BY <1>2, <1>5, <1>6 DEF IInv, Typed, KeyedTyped, ClearPasskeys
<1>8. /\ \A v \in Users : LiveKeys(v)' \subseteq LiveKeys(v)
      /\ \A v \in Users \ {u} : LiveKeys(v) \subseteq LiveKeys(v)'
  BY <1>5, <1>6 DEF LiveKeys
<1>9. KeysFit'
  BY <1>2, <1>8, FewerKeys
<1>10. LoginsTyped' /\ ProofsFit'
  BY <1>2 DEF IInv, Typed, LoginsTyped, ProofsFit, redis
<1>11. OwedFits'
  <2> SUFFICES ASSUME NEW s \in Sessions, NEW x \in owed'[s]
               PROVE  x \in Held(person[s])'
    BY DEF OwedFits
  <2>1. PICK v \in Users : v = person[s] /\ v = person'[s]
    BY <1>2 DEF IInv, Typed, LoginsTyped
  <2>2. v # u /\ x \in Held(v)
    BY <1>2, <2>1 DEF IInv, OwedFits
  <2>3. x \in Held(v)'
    BY <1>4, <1>8, <2>2 DEF Held, Active
  <2> QED  BY <2>1, <2>3 DEF Held, LiveKeys, Active
<1>12. Grows
  BY <1>2, <1>4 DEF Grows, redis
<1>13. (BudgetTyped /\ GuessesFit /\ RedisTyped /\ ChallengesFit)'
  BY <1>2, RestingPayers, RedisStays
<1> QED  BY <1>2, <1>4, <1>7, <1>9, <1>10, <1>11, <1>12, <1>13, WriteKeeps

-----------------------------------------------------------------------------
(* Passkeys.                                                               *)

\* The next challenge is new, so those of the others still name their holders.
LEMMA OpensKeep ==
  ASSUME IInv, NEW p \in Procs, OpenRegistration(p) \/ OpenAssertion(p)
  PROVE  IInv'
<1> DEFINE r == req[p]
<1>1. CASE Refuse(p)
  BY <1>1, RefuseKeeps
<1>2. ASSUME NEW seen \in 0 .. Cardinality(Devices), seen < MaxPasskeys, Open(p, seen)
      PROVE  IInv'
  <2> DEFINE h == Holder(r)
             n == Cardinality(Minted) + 1
             new == [nonce |-> n, user |-> r.u, seen |-> seen]
  <2>1. /\ n <= MaxChallenges /\ ceremony' = [ceremony EXCEPT ![h] = new]
        /\ asked' = [asked EXCEPT ![n] = h] /\ Done(p)
        /\ UNCHANGED <<logins, coded, keyed, budget>>
    BY <1>2 DEF Open, Holder
  <2>2. r \in Req /\ r.u \in Users
    BY DEF IInv, Typed, RequestsTyped, Fits, OpenRegistration, OpenAssertion, At
  <2>3. h \in Holders /\ h # None
    BY <2>2 DEF Holder, Holders, Req
  <2>4. IsFiniteSet(Minted) /\ Cardinality(Minted) \in Nat
    <3>1. Minted \subseteq 1 .. MaxChallenges /\ IsFiniteSet(1 .. MaxChallenges)
      BY FS_Interval DEF IInv, Typed, RedisTyped, Minted
    <3> QED  BY <3>1, FS_Subset, FS_CardinalityType
  <2>5. n \in 1 .. MaxChallenges /\ n \notin Minted
    BY <2>1, <2>4 DEF IInv, ChallengesFit
  <2>6. new \in Ceremony /\ new.nonce = n /\ new.seen = seen
    BY <1>2, <2>2, <2>5 DEF Ceremony
  <2> HIDE DEF n, h, new
  <2>7. /\ asked' \in [1 .. MaxChallenges -> Holders \cup {None}]
        /\ asked'[n] = h /\ \A m \in 1 .. MaxChallenges : asked[m] # None => asked'[m] = asked[m]
    BY <2>1, <2>3, <2>5 DEF IInv, Typed, RedisTyped, Minted
  <2>8. RedisTyped'
    BY <2>1, <2>3, <2>6, <2>7 DEF IInv, Typed, RedisTyped
  <2>9. ChallengesFit'
    <3>1. Minted' = Minted \cup {n}
      BY <2>1, <2>3, <2>5, <2>7 DEF IInv, Typed, RedisTyped, Minted
    <3>2. Cardinality(Minted') = Cardinality(Minted) + 1
      BY <2>4, <2>5, <3>1, FS_AddElement
    <3>3. Minted' = 1 .. Cardinality(Minted')
      BY <2>4, <3>1, <3>2 DEF IInv, ChallengesFit, n
    <3>4. \A g \in Holders : ceremony'[g] # None =>
            asked'[ceremony'[g].nonce] = g /\ ceremony'[g].seen < MaxPasskeys
      <4> TAKE g \in Holders
      <4>1. CASE g = h
        BY <4>1, <1>2, <2>1, <2>3, <2>6, <2>7 DEF IInv, Typed, RedisTyped
      <4>2. CASE g # h
        <5>1. ceremony'[g] = ceremony[g]
          BY <4>2, <2>1, <2>3 DEF IInv, Typed, RedisTyped
        <5>2. ceremony[g] # None => ceremony[g].nonce \in 1 .. MaxChallenges
          BY DEF IInv, Typed, RedisTyped, Ceremony
        <5>3. g # None
          BY DEF Holders
        <5> QED  BY <5>1, <5>2, <5>3, <2>7 DEF IInv, ChallengesFit
      <4> QED  BY <4>1, <4>2
    <3> QED  BY <3>3, <3>4 DEF ChallengesFit
  <2>10. LoginsTyped' /\ ProofsFit'
    <3>1. LoginsTyped'
      BY <2>1 DEF IInv, Typed, LoginsTyped, logins
    <3>2. ProofsFit'
      <4> SUFFICES ASSUME NEW s \in Sessions, proof[s] # None
                   PROVE  /\ proof[s].by = "enrolment" => proof[s].owed = {}
                          /\ proof[s].nonce # 0 => asked'[proof[s].nonce] = s
        BY <2>1 DEF ProofsFit, logins
      <4>1. proof[s].nonce \in 0 .. MaxChallenges
        BY DEF IInv, Typed, LoginsTyped, Proof
      <4>2. s # None
        OBVIOUS
      <4> QED  BY <4>1, <4>2, <2>7 DEF IInv, ProofsFit
    <3> QED  BY <3>1, <3>2
  <2>11. Grows
    BY <2>1, <2>7 DEF Grows, Active, logins, coded
  <2>12. now' = now
    BY <2>1, Rests DEF IInv, Typed
  <2>13. (CodedTyped /\ SecretsFit /\ CodesFit /\ UsedFit /\ OwedFits)'
    BY <2>1, <2>12, CodedStays, OwedStays DEF logins, coded, keyed
  <2>14. (KeyedTyped /\ KeysFit /\ BudgetTyped /\ GuessesFit)'
    BY <2>1, KeyedStays, RestingPayers
  <2> QED  BY <2>1, <2>8, <2>9, <2>10, <2>11, <2>13, <2>14, WriteKeeps
<1>3. OpenRegistration(p) /\ ~Refuse(p) => Open(p, Cardinality(LiveKeys(r.u))) /\ BelowCap(r.u)
  BY DEF OpenRegistration
<1>4. OpenAssertion(p) /\ ~Refuse(p) => Open(p, 0)
  BY DEF OpenAssertion
<1>5. 0 \in 0 .. Cardinality(Devices) /\ 0 < MaxPasskeys
  BY FS_CardinalityType
<1> QED  BY <1>1, <1>2, <1>3, <1>4, <1>5, LiveKeysFinite DEF BelowCap

\* A ceremony that goes takes nothing else with it.
LEMMA CeremonyGoes ==
  ASSUME IInv, NEW h \in Holders, ceremony' = [ceremony EXCEPT ![h] = None] \/ ceremony' = ceremony,
         UNCHANGED asked
  PROVE  (RedisTyped /\ ChallengesFit)'
<1>1. RedisTyped'
  BY DEF IInv, Typed, RedisTyped
<1>2. \A g \in Holders : ceremony'[g] # None => ceremony'[g] = ceremony[g]
  BY DEF IInv, Typed, RedisTyped
<1>3. ChallengesFit'
  BY <1>2 DEF IInv, ChallengesFit, Minted
<1> QED  BY <1>1, <1>3

LEMMA DropKeeps ==
  ASSUME IInv, NEW p \in Procs, DropCeremony(p)
  PROVE  IInv'
<1> DEFINE r == req[p]
<1>1. /\ r \in Req /\ pc[p] = "drop" /\ Fits("drop", r) /\ Knows("drop", r) /\ r.u \in Users
      /\ Move(p, "answer", r) /\ UNCHANGED <<logins, coded, keyed, asked, budget>>
  BY DEF IInv, Typed, RequestsTyped, RequestsKnow, Fits, DropCeremony
<1>2. Fits("answer", r) /\ Knows("answer", r) /\ ~Pays("answer", r)
  BY <1>1 DEF Fits, Knows, Pays
<1>3. Holder(r) \in Holders
  BY <1>1 DEF Holder, Holders, Req
<1>4. ceremony' = [ceremony EXCEPT ![Holder(r)] = None] \/ ceremony' = ceremony
  BY DEF DropCeremony
<1> HIDE DEF r
<1>5. (RedisTyped /\ ChallengesFit)'
  BY <1>1, <1>3, <1>4, CeremonyGoes
<1>6. /\ RequestsTyped' /\ pc'[p] = "answer" /\ req'[p] = r
      /\ \A q \in Procs \ {p} : pc'[q] = pc[q] /\ req'[q] = req[q]
      /\ now' = now
  BY <1>1, <1>2, Moved DEF IInv, Typed, PCs
<1>7. (LoginsTyped /\ ProofsFit /\ CodedTyped /\ SecretsFit /\ CodesFit /\ UsedFit)'
  BY <1>1, <1>6, LoginsStay, CodedStays
<1>8. (KeyedTyped /\ KeysFit /\ OwedFits)'
  BY <1>1, KeyedStays, OwedStays DEF logins, coded, keyed
<1>9. (BudgetTyped /\ GuessesFit)'
  BY <1>1, <1>2, <1>6, FewerPayers, PayersOfOthers
<1>10. \A q \in Procs \ {p} : Knows(pc[q], req[q])'
  BY <1>1, <1>6, StillKnows DEF Grows, logins, coded, Active
<1>11. Knows(pc[p], req[p])'
  BY <1>1, <1>2, <1>6 DEF Knows, Active, Holder, logins, coded
<1> QED  BY <1>5, <1>6, <1>7, <1>8, <1>9, <1>10, <1>11 DEF IInv, Typed, RequestsKnow

\* A passkey lands on a row no live one holds, and its start saw one below the
\* cap; if more are there by now, the person is overrun.
LEMMA WriteRegistrationKeeps ==
  ASSUME IInv, NEW p \in Procs, WriteRegistration(p)
  PROVE  IInv'
<1> DEFINE r == req[p]
           u == r.u
           d == r.device
<1>1. CASE Refuse(p)
  BY <1>1, RefuseKeeps
<1>2. CASE ~Refuse(p)
  <2> DEFINE new == [user |-> u, live |-> TRUE]
  <2>1. /\ Claims(r) /\ key' = [key EXCEPT ![d] = new]
        /\ overrun' = IF Cardinality(LiveKeys(u)) > r.got.seen THEN overrun \cup {u} ELSE overrun
        /\ Finish(r.s, "enrolment", r.got.nonce) /\ Done(p)
        /\ UNCHANGED <<coded, redis, budget>>
    BY <1>2 DEF WriteRegistration
  <2>2. /\ u \in Users /\ d \in Devices /\ r.got \in Ceremony /\ r.s \in Sessions \cup {None}
        /\ asked[r.got.nonce] = Holder(r) /\ r.got.seen < MaxPasskeys
        /\ r.s # None => owed[r.s] = {}
    BY DEF IInv, Typed, RequestsTyped, RequestsKnow, Fits, Knows, Req, WriteRegistration, At, EnrolOps
  <2>3. key[d] = None \/ ~key[d].live
    BY <2>1 DEF Claims
  <2>4. new \in Credential /\ new.live = TRUE /\ new.user = u
    BY <2>2 DEF Credential
  <2>5. r.got.nonce \in 0 .. MaxChallenges /\ r.got.seen \in Nat
    BY <2>2, FS_CardinalityType DEF Ceremony
  <2>6. r.s # None => asked[r.got.nonce] = r.s
    BY <2>2 DEF Holder
  <2>7. now' = now
    BY <2>1, Rests DEF IInv, Typed
  <2> HIDE DEF new, u, d
  <2>8. key' \in [Devices -> Credential \cup {None}] /\ key'[d] = new /\ \A e \in Devices \ {d} : key'[e] = key[e]
    BY <2>1, <2>2, <2>4 DEF IInv, Typed, KeyedTyped
  <2>9. \A v \in Users : LiveKeys(v) \subseteq LiveKeys(v)'
    BY <2>3, <2>8 DEF LiveKeys
  <2>10. /\ \A v \in Users \ {u} : LiveKeys(v)' = LiveKeys(v)
         /\ \A v \in Users : v = u => LiveKeys(v)' = LiveKeys(v) \cup {d} /\ d \notin LiveKeys(v)
    BY <2>2, <2>3, <2>4, <2>8 DEF LiveKeys
  <2>11. KeysFit'
    <3> SUFFICES ASSUME NEW v \in Users, v \notin overrun'
                 PROVE  Cardinality(LiveKeys(v)') <= MaxPasskeys
      BY DEF KeysFit
    <3>1. v \notin overrun
      BY <2>1
    <3>2. CASE v # u
      BY <3>1, <3>2, <2>10 DEF IInv, KeysFit
    <3>3. CASE v = u
      <4>1. ~(Cardinality(LiveKeys(v)) > r.got.seen)
        BY <3>3, <2>1
      <4>2. IsFiniteSet(LiveKeys(v)) /\ Cardinality(LiveKeys(v)) \in Nat
        BY LiveKeysFinite, FS_CardinalityType
      <4>3. Cardinality(LiveKeys(v)') = Cardinality(LiveKeys(v)) + 1
        BY <3>3, <4>2, <2>10, FS_AddElement
      <4> QED  BY <4>1, <4>2, <4>3, <2>2, <2>5
    <3> QED  BY <3>2, <3>3
  <2>12. UNCHANGED asked
    BY <2>1 DEF redis
  <2>13. /\ (LoginsTyped /\ ProofsFit)' /\ UNCHANGED <<person, owed>>
         /\ \A t \in Sessions : stage[t] # "identified" => stage'[t] # "identified"
    BY <2>1, <2>2, <2>5, <2>6, <2>12, FinishKeeps
  <2>14. OwedFits'
    <3>1. \A v \in Users : Held(v) \subseteq Held(v)'
      BY <2>1, <2>9 DEF Held, Active, coded
    <3> QED  BY <2>13, <3>1, OwedHolds
  <2>15. Grows
    BY <2>1, <2>12, <2>13 DEF Grows, Active, coded
  <2>16. (CodedTyped /\ SecretsFit /\ CodesFit /\ UsedFit)'
    BY <2>1, <2>7, CodedStays
  <2>17. (BudgetTyped /\ GuessesFit /\ RedisTyped /\ ChallengesFit)'
    BY <2>1, RestingPayers, RedisStays
  <2>18. KeyedTyped'
    BY <2>8 DEF KeyedTyped
  <2> QED  BY <2>1, <2>11, <2>13, <2>14, <2>15, <2>16, <2>17, <2>18, WriteKeeps
<1> QED  BY <1>1, <1>2

\* An answer of a passkey completes the sign-in its challenge was minted for.
LEMMA WriteAssertionKeeps ==
  ASSUME IInv, NEW p \in Procs, WriteAssertion(p)
  PROVE  IInv'
<1> DEFINE r == req[p]
<1>1. CASE Refuse(p)
  BY <1>1, RefuseKeeps
<1>2. CASE ~Refuse(p)
  <2>1. Completes(r.s, "key", r.got.nonce) /\ Done(p) /\ UNCHANGED <<coded, keyed, redis, budget>>
    BY <1>2 DEF WriteAssertion
  <2>2. r.s \in Sessions /\ r.got \in Ceremony /\ asked[r.got.nonce] = Holder(r)
    BY DEF IInv, Typed, RequestsTyped, RequestsKnow, Fits, Knows, WriteAssertion, At
  <2>3. r.s # None /\ asked[r.got.nonce] = r.s /\ r.got.nonce \in 0 .. MaxChallenges
    BY <2>2 DEF Holder, Ceremony
  <2>4. UNCHANGED asked
    BY <2>1 DEF redis
  <2>5. /\ (LoginsTyped /\ ProofsFit)' /\ UNCHANGED <<person, owed>>
        /\ \A t \in Sessions : stage[t] # "identified" => stage'[t] # "identified"
    BY <2>1, <2>2, <2>3, <2>4, FinishKeeps DEF Finish
  <2>6. now' = now
    BY <2>1, Rests DEF IInv, Typed
  <2>7. (CodedTyped /\ SecretsFit /\ CodesFit /\ UsedFit /\ OwedFits)'
    BY <2>1, <2>5, <2>6, CodedStays, OwedStays DEF coded, keyed
  <2>8. (KeyedTyped /\ KeysFit /\ BudgetTyped /\ GuessesFit /\ RedisTyped /\ ChallengesFit)'
    BY <2>1, RestingPayers, KeyedStays, RedisStays
  <2>9. Grows
    BY <2>1, <2>4, <2>5 DEF Grows, Active, coded
  <2> QED  BY <2>1, <2>5, <2>7, <2>8, <2>9, WriteKeeps
<1> QED  BY <1>1, <1>2

LEMMA RemoveKeyKeeps ==
  ASSUME IInv, NEW p \in Procs, RemoveKey(p)
  PROVE  IInv'
<1>1. PICK d \in LiveKeys(req[p].u) :
        /\ key' = [key EXCEPT ![d].live = FALSE]
        /\ Forget({d}) /\ Done(p) /\ UNCHANGED <<overrun, coded, redis, budget>>
  BY DEF RemoveKey
<1>2. d \in Devices /\ key[d] \in Credential
  BY DEF IInv, Typed, KeyedTyped, LiveKeys
<1> DEFINE gone == [key[d] EXCEPT !.live = FALSE]
<1>3. gone \in Credential /\ gone.live = FALSE /\ key' = [key EXCEPT ![d] = gone]
  BY <1>1, <1>2 DEF Credential
<1> HIDE DEF gone
<1>4. KeyedTyped' /\ key'[d] = gone /\ \A e \in Devices \ {d} : key'[e] = key[e]
  BY <1>2, <1>3 DEF IInv, Typed, KeyedTyped
<1>5. \A v \in Users : LiveKeys(v)' \subseteq LiveKeys(v) /\ LiveKeys(v) \ {d} \subseteq LiveKeys(v)'
  BY <1>3, <1>4 DEF LiveKeys
<1>6. KeysFit'
  BY <1>1, <1>5, FewerKeys
<1>7. /\ owed' = [s \in Sessions |-> owed[s] \ {d}]
      /\ UNCHANGED <<person, stage, wrong, proof, totp, asked>>
  BY <1>1 DEF Forget, coded, redis
<1>8. LoginsTyped' /\ ProofsFit'
  BY <1>7 DEF IInv, Typed, LoginsTyped, ProofsFit
<1>9. OwedFits'
  <2> SUFFICES ASSUME NEW s \in Sessions, NEW x \in owed'[s]
               PROVE  x \in Held(person[s])'
    BY DEF OwedFits
  <2>1. PICK v \in Users : v = person[s] /\ v = person'[s]
    BY <1>7 DEF IInv, Typed, LoginsTyped
  <2>2. x # d /\ x \in Held(v)
    BY <1>7, <2>1 DEF IInv, OwedFits
  <2>3. x \in Held(v)'
    BY <1>5, <1>7, <2>2 DEF Held, Active
  <2> QED  BY <2>1, <2>3 DEF Held, LiveKeys, Active
<1>10. Grows
  BY <1>1, <1>7 DEF Grows, Active, coded
<1>11. now' = now
  BY <1>1, Rests DEF IInv, Typed
<1>12. (CodedTyped /\ SecretsFit /\ CodesFit /\ UsedFit)'
  BY <1>1, <1>11, CodedStays
<1>13. (BudgetTyped /\ GuessesFit /\ RedisTyped /\ ChallengesFit)'
  BY <1>1, RestingPayers, RedisStays
<1> QED  BY <1>1, <1>4, <1>6, <1>8, <1>9, <1>10, <1>12, <1>13, WriteKeeps

-----------------------------------------------------------------------------
(* The gate of the guesses, the clock and the steps of no request.         *)

\* A guess is paid for before anything is compared, and within the limit.
LEMMA SpendGuessKeeps ==
  ASSUME IInv, NEW p \in Procs, SpendGuess(p)
  PROVE  IInv'
<1> DEFINE r == req[p]
<1>1. CASE Refuse(p)
  BY <1>1, RefuseKeeps
<1>2. CASE ~Refuse(p)
  <2>1. PICK u \in Users : u = r.u
    BY DEF IInv, Typed, RequestsTyped, Fits, SpendGuess
  <2>2. /\ ~Spent(u) /\ guesses' = [guesses EXCEPT ![u] = @ + 1] /\ Move(p, "read", r)
        /\ UNCHANGED <<logins, coded, keyed, redis, compared>>
    BY <1>2, <2>1 DEF SpendGuess
  <2>3. r \in Req /\ Fits("read", r) /\ Knows("read", r) /\ pc[p] = "guess"
    BY DEF IInv, Typed, RequestsTyped, RequestsKnow, Fits, Knows, SpendGuess
  <2> HIDE DEF r
  <2>4. /\ RequestsTyped' /\ pc'[p] = "read" /\ req'[p] = r
        /\ \A q \in Procs \ {p} : pc'[q] = pc[q] /\ req'[q] = req[q]
        /\ now' = now
    BY <2>2, <2>3, Moved DEF IInv, Typed, PCs
  <2>5. guesses[u] \in Nat /\ guesses[u] < AttemptLimit
    BY <2>2 DEF IInv, Typed, BudgetTyped, Spent
  <2>6. BudgetTyped'
    BY <2>2, <2>5 DEF IInv, Typed, BudgetTyped
  <2>7. ASSUME NEW v \in Users
        PROVE  IsFiniteSet(Payers(v))' /\ (compared[v] + Cardinality(Payers(v)) <= guesses[v])'
    <3>1. IsFiniteSet(Payers(v)) /\ compared[v] + Cardinality(Payers(v)) <= guesses[v]
      BY DEF IInv, GuessesFit
    <3>2. compared[v] \in Nat /\ guesses[v] \in Nat /\ Cardinality(Payers(v)) \in Nat
      BY <3>1, FS_CardinalityType DEF IInv, Typed, BudgetTyped
    <3>3. CASE v # u
      <4>1. Payers(v)' \subseteq Payers(v)
        BY <2>1, <2>4, <3>3 DEF Payers, r
      <4>2. IsFiniteSet(Payers(v)') /\ Cardinality(Payers(v)') <= Cardinality(Payers(v))
        BY <3>1, <4>1, FS_Subset
      <4>3. Cardinality(Payers(v)') \in Nat
        BY <4>2, FS_CardinalityType
      <4>4. compared'[v] = compared[v] /\ guesses'[v] = guesses[v]
        BY <2>2, <3>3 DEF IInv, Typed, BudgetTyped
      <4>5. compared'[v] + Cardinality(Payers(v)') <= guesses'[v]
        BY <3>1, <3>2, <4>2, <4>3, <4>4
      <4> QED  BY <4>2, <4>5
    <3>4. CASE v = u
      <4>1. p \notin Payers(v) /\ Payers(v)' \subseteq Payers(v) \cup {p}
        BY <2>3, <2>4 DEF Payers, Pays
      <4>2. IsFiniteSet(Payers(v) \cup {p}) /\ Cardinality(Payers(v) \cup {p}) = Cardinality(Payers(v)) + 1
        BY <3>1, <4>1, FS_AddElement
      <4>3. IsFiniteSet(Payers(v)') /\ Cardinality(Payers(v)') <= Cardinality(Payers(v)) + 1
        BY <4>1, <4>2, FS_Subset
      <4>4. Cardinality(Payers(v)') \in Nat
        BY <4>3, FS_CardinalityType
      <4>5. compared'[v] = compared[v] /\ guesses'[v] = guesses[v] + 1
        BY <2>2, <3>4 DEF IInv, Typed, BudgetTyped
      <4>6. compared'[v] + Cardinality(Payers(v)') <= guesses'[v]
        BY <3>1, <3>2, <4>3, <4>4, <4>5
      <4> QED  BY <4>3, <4>6
    <3> QED  BY <3>3, <3>4
  <2>8. (LoginsTyped /\ ProofsFit /\ CodedTyped /\ SecretsFit /\ CodesFit /\ UsedFit)'
    BY <2>2, <2>4, LoginsStay, CodedStays DEF redis
  <2>9. (KeyedTyped /\ KeysFit /\ RedisTyped /\ ChallengesFit /\ OwedFits)'
    BY <2>2, KeyedStays, RedisStays, OwedStays DEF logins, coded, keyed
  <2>10. \A q \in Procs \ {p} : Knows(pc[q], req[q])'
    BY <2>2, <2>4, StillKnows DEF Grows, logins, coded, redis, Active
  <2>11. Knows(pc[p], req[p])'
    BY <2>2, <2>3, <2>4 DEF Knows, Active, Holder, logins, coded, redis
  <2> QED  BY <2>4, <2>6, <2>7, <2>8, <2>9, <2>10, <2>11 DEF IInv, Typed, RequestsKnow, GuessesFit
<1> QED  BY <1>1, <1>2

\* A step of no request.
LEMMA OthersStay ==
  ASSUME IInv, UNCHANGED <<pc, req, budget>>, Grows
  PROVE  (RequestsTyped /\ RequestsKnow /\ BudgetTyped /\ GuessesFit)'
<1>1. RequestsTyped'
  BY DEF IInv, Typed, RequestsTyped
<1>2. RequestsKnow'
  BY StillKnows DEF RequestsKnow
<1>3. \A u \in Users : Payers(u)' \subseteq Payers(u)
  BY DEF Payers
<1> QED  BY <1>1, <1>2, <1>3, FewerPayers

LEMMA TickKeeps ==
  ASSUME IInv, Tick
  PROVE  IInv'
<1>1. /\ now < MaxStep /\ now' = now + 1 /\ UNCHANGED <<logins, coded, keyed, redis, budget, pc, req>>
  BY DEF Tick
<1>2. (CodedTyped /\ SecretsFit /\ CodesFit /\ UsedFit)'
  BY <1>1 DEF IInv, Typed, CodedTyped, SecretsFit, CodesFit, UsedFit, Active, coded
<1>3. (LoginsTyped /\ ProofsFit /\ KeyedTyped /\ KeysFit /\ RedisTyped /\ ChallengesFit /\ OwedFits)'
  BY <1>1, LoginsStay, KeyedStays, RedisStays, OwedStays DEF logins, coded, keyed, redis
<1>4. Grows
  BY <1>1 DEF Grows, Active, logins, coded, redis
<1> QED  BY <1>1, <1>2, <1>3, <1>4, OthersStay DEF IInv, Typed

LEMMA ExpireKeeps ==
  ASSUME IInv, NEW h \in Holders, Expire(h)
  PROVE  IInv'
<1>1. /\ ceremony' = [ceremony EXCEPT ![h] = None]
      /\ UNCHANGED <<logins, coded, keyed, asked, budget, now, pc, req>>
  BY DEF Expire
<1>2. (RedisTyped /\ ChallengesFit)'
  BY <1>1, CeremonyGoes
<1>3. (LoginsTyped /\ ProofsFit /\ CodedTyped /\ SecretsFit /\ CodesFit /\ UsedFit)'
  BY <1>1, LoginsStay, CodedStays
<1>4. (KeyedTyped /\ KeysFit /\ OwedFits)'
  BY <1>1, KeyedStays, OwedStays DEF logins, coded, keyed
<1>5. Grows
  BY <1>1 DEF Grows, Active, logins, coded
<1> QED  BY <1>1, <1>2, <1>3, <1>4, <1>5, OthersStay DEF IInv, Typed

\* The password step tells a sign-in what it owes; no request of it enrols yet.
LEMMA ProvePasswordKeeps ==
  ASSUME IInv, NEW s \in Sessions, ProvePassword(s)
  PROVE  IInv'
<1>1. /\ stage[s] = "identified" /\ stage' = [stage EXCEPT ![s] = "password"]
      /\ owed' = [owed EXCEPT ![s] = Held(person[s])]
      /\ UNCHANGED <<person, wrong, proof, coded, keyed, redis, budget, now, pc, req>>
  BY DEF ProvePassword
<1>2. Held(person[s]) \subseteq Secrets \cup Devices
  BY LiveKeysFinite DEF IInv, Typed, LoginsTyped, CodedTyped, Held, Active, Enrolment
<1>3. LoginsTyped'
  BY <1>1, <1>2 DEF IInv, Typed, LoginsTyped
<1>4. OwedFits'
  <2>1. \A t \in Sessions : owed'[t] \subseteq Held(person[t])
    BY <1>1 DEF IInv, Typed, LoginsTyped, OwedFits
  <2> QED  BY <1>1, <2>1 DEF OwedFits, Held, LiveKeys, Active, coded, keyed
<1>5. Grows
  BY <1>1 DEF IInv, Typed, LoginsTyped, Grows, Active, coded, redis
<1>6. (CodedTyped /\ SecretsFit /\ CodesFit /\ UsedFit)'
  BY <1>1, CodedStays
<1>7. (KeyedTyped /\ KeysFit /\ RedisTyped /\ ChallengesFit)'
  BY <1>1, KeyedStays, RedisStays
<1>8. ProofsFit'
  BY <1>1 DEF IInv, ProofsFit, redis
<1> QED  BY <1>1, <1>3, <1>4, <1>5, <1>6, <1>7, <1>8, OthersStay DEF IInv, Typed

LEMMA StutterKeeps == IInv /\ UNCHANGED vars => IInv'
<1> SUFFICES ASSUME IInv, UNCHANGED vars
             PROVE  IInv'
  OBVIOUS
<1>1. UNCHANGED <<logins, coded, keyed, redis, budget, now, pc, req>>
  BY DEF vars
<1>2. (LoginsTyped /\ ProofsFit /\ CodedTyped /\ SecretsFit /\ CodesFit /\ UsedFit)'
  BY <1>1, LoginsStay, CodedStays DEF redis
<1>3. (KeyedTyped /\ KeysFit /\ RedisTyped /\ ChallengesFit /\ OwedFits)'
  BY <1>1, KeyedStays, RedisStays, OwedStays DEF logins, coded, keyed
<1>4. Grows
  BY <1>1 DEF Grows, Active, logins, coded, redis
<1> QED  BY <1>1, <1>2, <1>3, <1>4, OthersStay DEF IInv, Typed

LEMMA NextKeeps == IInv /\ [Next]_vars => IInv'
  BY StutterKeeps, TickKeeps, ProvePasswordKeeps, ExpireKeeps, AsksKeep, SpendGuessKeeps, ReadsKeep,
     StartsKeep, ProveEnrolmentKeeps, WriteActivationKeeps, AnswerChallengeKeeps, SpendStepKeeps,
     RedeemKeeps, ReplaceCodesKeeps, RemoveCodesKeeps, ResetKeeps, OpensKeep, DropKeeps,
     WriteRegistrationKeeps, WriteAssertionKeeps, RemoveKeyKeeps DEF Next

LEMMA InvariantHolds == Spec => []IInv
  BY InitHolds, NextKeeps, PTL DEF Spec

-----------------------------------------------------------------------------
(* The theorems.                                                           *)

\* TypeOK: also that no sign-in counts past its cap of wrong codes, and no person
\* past their budget of guesses.
THEOREM FactorsTyped == Spec => []TypeOK
<1>1. IInv => TypeOK
  BY DEF IInv, Typed, LoginsTyped, CodedTyped, KeyedTyped, RedisTyped, BudgetTyped, RequestsTyped, Fits,
         TypeOK, Steps
<1> QED  BY <1>1, InvariantHolds, PTL

\* OneCodeOneUse: whatever requests verify, activate, replace and remove side by
\* side, no code is accepted twice, save a time code whose enrolment was removed
\* under a request that had checked it.
THEOREM NoCodeTwice == Spec => []OneCodeOneUse
<1>1. IInv => OneCodeOneUse
  BY DEF IInv, UsedFit, OneCodeOneUse
<1> QED  BY <1>1, InvariantHolds, PTL

\* OnlyProvedSecrets: a start that replaces the pending secret between the check
\* and the write never gets an unproved one activated.
THEOREM ActiveSecretsProved == Spec => []OnlyProvedSecrets
<1>1. IInv => OnlyProvedSecrets
  BY DEF IInv, SecretsFit, Active, OnlyProvedSecrets
<1> QED  BY <1>1, InvariantHolds, PTL

\* NoWayAround: a sign-in that owes a factor is not completed by enrolling one.
THEOREM ChallengeNotAvoided == Spec => []NoWayAround
<1>1. IInv => NoWayAround
  BY DEF IInv, ProofsFit, NoWayAround
<1> QED  BY <1>1, InvariantHolds, PTL

\* ChallengeFitsSignIn: a passkey completes a sign-in with a challenge of its own,
\* whatever ceremonies of the person overlap, expire or are replaced.
THEOREM OwnChallenge == Spec => []ChallengeFitsSignIn
<1>1. IInv => ChallengeFitsSignIn
  BY DEF IInv, ProofsFit, ChallengeFitsSignIn
<1> QED  BY <1>1, InvariantHolds, PTL

\* CapsHold: the cap of passkeys, and the guesses of a person over all sign-ins.
THEOREM CapsKept == Spec => []CapsHold
<1>1. IInv => CapsHold
  <2> SUFFICES ASSUME IInv, NEW u \in Users
               PROVE  /\ Cardinality(LiveKeys(u)) <= MaxPasskeys \/ u \in overrun
                      /\ compared[u] <= AttemptLimit
    BY DEF CapsHold
  <2>1. IsFiniteSet(Payers(u)) /\ compared[u] + Cardinality(Payers(u)) <= guesses[u]
    BY DEF IInv, GuessesFit
  <2>2. Cardinality(Payers(u)) \in Nat /\ compared[u] \in Nat /\ guesses[u] \in 0 .. AttemptLimit
    BY <2>1, FS_CardinalityType DEF IInv, Typed, BudgetTyped
  <2> QED  BY <2>1, <2>2 DEF IInv, KeysFit
<1> QED  BY <1>1, InvariantHolds, PTL

\* DeviceKeepsOwner: a registration, which read the holder of the credential id
\* some steps before, never takes a live passkey over.
THEOREM NoTakeover == Spec => DeviceKeepsOwner
<1> DEFINE Kept == \A d \in Devices :
                     (key[d] # None /\ key[d].live /\ key'[d].live) => key'[d].user = key[d].user
<1>1. IInv /\ [Next]_vars => [Kept]_vars
  <2> SUFFICES ASSUME IInv, Next
               PROVE  Kept
    OBVIOUS
  <2>1. CASE UNCHANGED key
    BY <2>1
  <2>2. ASSUME NEW p \in Procs, WriteRegistration(p), ~UNCHANGED key
        PROVE  Kept
    <3>1. ~Refuse(p)
      BY <2>2 DEF Refuse, keyed
    <3>2. Claims(req[p]) /\ key' = [key EXCEPT ![req[p].device] = [user |-> req[p].u, live |-> TRUE]]
      BY <2>2, <3>1 DEF WriteRegistration
    <3>3. req[p].device \in Devices
      BY <2>2 DEF IInv, Typed, RequestsTyped, Fits, WriteRegistration, At
    <3> QED  BY <3>2, <3>3 DEF IInv, Typed, KeyedTyped, Claims
  <2>3. ASSUME NEW p \in Procs, ResetMFA(p)
        PROVE  Kept
    <3> SUFFICES ASSUME NEW d \in Devices, key[d] # None, key'[d].live
                 PROVE  key'[d].user = key[d].user
      OBVIOUS
    <3>1. key[d] \in Credential
      BY DEF IInv, Typed, KeyedTyped
    <3>2. key'[d] = [key[d] EXCEPT !.live = FALSE] \/ key'[d] = key[d]
      BY <2>3 DEF ResetMFA, ClearPasskeys
    <3> QED  BY <3>1, <3>2 DEF Credential
  <2>4. ASSUME NEW p \in Procs, RemoveKey(p)
        PROVE  Kept
    <3>1. PICK e \in LiveKeys(req[p].u) : key' = [key EXCEPT ![e].live = FALSE]
      BY <2>4 DEF RemoveKey
    <3> SUFFICES ASSUME NEW d \in Devices, key[d] # None, key'[d].live
                 PROVE  key'[d].user = key[d].user
      OBVIOUS
    <3>2. key[d] \in Credential
      BY DEF IInv, Typed, KeyedTyped
    <3>3. key'[d] = [key[d] EXCEPT !.live = FALSE] \/ key'[d] = key[d]
      BY <3>1 DEF IInv, Typed, KeyedTyped
    <3> QED  BY <3>2, <3>3 DEF Credential
  <2>5. ASSUME NEW p \in Procs,
               \/ AskLogin(p) \/ AskPortal(p) \/ SpendGuess(p) \/ StartEnrolment(p) \/ SavePending(p)
               \/ InsertPending(p) \/ ReadFactor(p) \/ TooManyStarts(p) \/ TakeCeremony(p) \/ DropCeremony(p)
               \/ OpenRegistration(p) \/ OpenAssertion(p) \/ AnswerRegistration(p) \/ AnswerAssertion(p)
               \/ Abandon(p)
        PROVE  UNCHANGED key
    BY <2>5 DEF AskLogin, AskPortal, SpendGuess, StartEnrolment, SavePending, InsertPending, ReadFactor,
                TooManyStarts, TakeCeremony, DropCeremony, OpenRegistration, OpenAssertion,
                AnswerRegistration, AnswerAssertion, Abandon, Go, Refuse, Open, keyed
  <2>6. ASSUME NEW p \in Procs,
               \/ ProveEnrolment(p) \/ WriteActivation(p) \/ AnswerChallenge(p) \/ SpendStep(p)
               \/ RedeemRecoveryCode(p) \/ ReplaceCodes(p) \/ RemoveCodes(p) \/ WriteAssertion(p)
        PROVE  UNCHANGED key
    BY <2>6 DEF ProveEnrolment, WriteActivation, AnswerChallenge, SpendStep, RedeemRecoveryCode,
                ReplaceCodes, RemoveCodes, WriteAssertion, Refuse, Wrong, keyed
  <2>7. Tick \/ (\E s \in Sessions : ProvePassword(s)) \/ (\E h \in Holders : Expire(h)) => UNCHANGED key
    BY DEF Tick, ProvePassword, Expire, keyed
  <2> QED  BY <2>1, <2>2, <2>3, <2>4, <2>5, <2>6, <2>7 DEF Next
<1> QED  BY <1>1, InvariantHolds, PTL DEF Spec, DeviceKeepsOwner

=============================================================================

----------------------------- MODULE QrLogin_proofs -----------------------------
(***************************************************************************)
(* QR Login, proved for any number of transactions, callbacks and faults:  *)
(* a transaction resolves once, and a scan signs in the person whose       *)
(* wallet was read for it. Neither is inductive. A callback writes its     *)
(* result some steps after the claim that allowed it, and the poll binds   *)
(* the person some steps after it read the row, so the invariant says what *)
(* holds between: a callback past its claim is alone with a row that is    *)
(* still pending, and what it is about to record is what the push says.    *)
(***************************************************************************)
EXTENDS QrLogin, TLAPS

\* The variables are functions over the transactions and the callbacks.
Typed ==
    /\ now \in Times
    /\ due \subseteq Txns
    /\ row \in [Txns -> Row \cup {None}]
    /\ session \in [Txns -> Session]
    /\ browser \in [Txns -> {"idle", "waiting", "in", "over"}]
    /\ poll \in [Txns -> People \cup {None}]
    /\ wallet \in [Txns -> [person : Shown, nonce : Txns] \cup {None}]
    /\ push \in [Txns -> Push \cup {None}]
    /\ pc \in [Callbacks -> {"idle", "claim", "resolve", "record", "fail"}]
    /\ call \in [Callbacks -> [txn : Txns \cup {None}, user : People \cup {None}]]

\* A result is written on a claimed row, and only a verified row names somebody.
RowsFit ==
    \A t \in Txns : row[t] \in Row =>
        /\ row[t].state # "pending" => row[t].consumed
        /\ row[t].state = "verified" <=> row[t].user # None

\* Past its claim.
Working(c) == pc[c] \in {"resolve", "record", "fail"}

\* A callback works on a transaction that is there, and about the push of it.
CallsFit ==
    \A c \in Callbacks : pc[c] # "idle" =>
        /\ call[c].txn \in Txns
        /\ row[call[c].txn] \in Row
        /\ push[call[c].txn] \in Push

\* A claim is held by one callback, and its row waits for the result.
ClaimsHold ==
    /\ \A c \in Callbacks : Working(c) =>
          row[call[c].txn].state = "pending" /\ row[call[c].txn].consumed
    /\ \A c, d \in Callbacks : Working(c) /\ Working(d) /\ call[c].txn = call[d].txn => c = d

\* What the push of a transaction says when it may sign somebody in.
Says(t, u) ==
    /\ push[t] \in Push
    /\ push[t].name = u
    /\ push[t].nonce \in {t, None}

\* What is about to be recorded, is recorded, read by a poll, or bound: the push
\* of the transaction says so.
RecordsFit ==
    \A c \in Callbacks : pc[c] = "record" =>
        call[c].user \in People /\ Says(call[c].txn, call[c].user)

VerdictsFit ==
    \A t \in Txns : row[t] \in Row /\ row[t].state = "verified" => Says(t, row[t].user)

WaitersFit == \A t \in Txns : browser[t] = "waiting" => row[t] \in Row

PollsFit == \A t \in Txns : poll[t] # None => Says(t, poll[t])

ScansFit == \A t \in Txns : session[t].scanned => Says(t, session[t].person)

\* A push says what the verifier read, and names its transaction or nothing.
PushesFit ==
    \A t \in Txns : push[t] \in Push =>
        /\ {push[t].session, push[t].presentation} \subseteq {t, "foreign", None}
        /\ wallet[t].person = push[t].name
        /\ push[t].nonce # None => wallet[t].nonce = push[t].nonce

NobodyLate == late = {}

IInv == Typed /\ RowsFit /\ CallsFit /\ ClaimsHold /\ RecordsFit /\ VerdictsFit
          /\ WaitersFit /\ PollsFit /\ ScansFit /\ PushesFit /\ NobodyLate

USE NoneAssumption, ForeignAssumption, NoRowAssumption, TimeAssumption

LEMMA InitHolds == Init => IInv
  BY DEF Init, IInv, Typed, RowsFit, CallsFit, ClaimsHold, RecordsFit, VerdictsFit,
         WaitersFit, PollsFit, ScansFit, PushesFit, NobodyLate, Working, Says, Session, Times, NoCall

\* A start touches a row that was not there, which no callback works on.
LEMMA StartKeeps ==
  ASSUME IInv, NEW t \in Txns, Start(t)
  PROVE  IInv'
<1> DEFINE new == [state |-> "pending", user |-> None, expires |-> now + TTL, consumed |-> FALSE]
<1>1. new \in Row /\ new # None
  <2>1. now \in Nat /\ TTL \in Nat /\ MaxTime \in Nat /\ now + TTL <= MaxTime
    BY DEF IInv, Typed, Times, Start
  <2>2. now + TTL \in Times
    BY <2>1 DEF Times
  <2>3. new \in Row
    BY <2>2 DEF Row
  <2> HIDE DEF new
  <2> QED  BY <2>3
<1>2. row' = [row EXCEPT ![t] = new] /\ row[t] = None
  BY DEF Start
<1> HIDE DEF new
<1>3. Typed'
  <2>1. row' \in [Txns -> Row \cup {None}]
    BY <1>1, <1>2 DEF IInv, Typed
  <2> QED  BY <2>1 DEF IInv, Typed, Start, verifier, calls
<1>4. (RowsFit /\ VerdictsFit /\ WaitersFit)'
  <2>1. row'[t] = new /\ \A x \in Txns \ {t} : row'[x] = row[x] /\ browser'[x] = browser[x]
    BY <1>2 DEF IInv, Typed, Start
  <2>2. new.state = "pending" /\ new.user = None
    BY DEF new
  <2>3. RowsFit'
    BY <2>1, <2>2 DEF IInv, RowsFit
  <2>4. VerdictsFit'
    BY <2>1, <2>2 DEF IInv, VerdictsFit, Says, Start, verifier
  <2>5. WaitersFit'
    BY <1>1, <2>1 DEF IInv, WaitersFit
  <2> QED  BY <2>3, <2>4, <2>5
<1>5. (CallsFit /\ ClaimsHold /\ RecordsFit)'
  BY <1>1, <1>2 DEF IInv, Typed, CallsFit, ClaimsHold, RecordsFit, Working, Says, Start, verifier, calls
<1>6. (PollsFit /\ ScansFit /\ PushesFit /\ NobodyLate)'
  BY DEF IInv, PollsFit, ScansFit, PushesFit, NobodyLate, Says, Start, verifier, calls
<1> QED  BY <1>3, <1>4, <1>5, <1>6 DEF IInv

\* A poll reads the person of a verified row, and the push says who that is.
LEMMA PollReadsKeeps ==
  ASSUME IInv, NEW t \in Txns, PollReads(t)
  PROVE  IInv'
<1>1. row[t] \in Row
  BY DEF IInv, WaitersFit, PollReads
<1>2. row[t].user \in People \cup {None} /\ (row[t].state = "verified" => Says(t, row[t].user))
  BY <1>1 DEF IInv, VerdictsFit, Row
<1>3. Typed'
  BY <1>2 DEF IInv, Typed, PollReads, verifier, calls
<1>4. PollsFit'
  BY <1>2 DEF IInv, Typed, PollsFit, Says, PollReads, verifier, calls
<1>5. WaitersFit'
  BY DEF IInv, Typed, WaitersFit, PollReads
<1>6. (RowsFit /\ CallsFit /\ ClaimsHold /\ RecordsFit /\ VerdictsFit)'
  BY DEF IInv, RowsFit, CallsFit, ClaimsHold, RecordsFit, VerdictsFit, Working, Says, PollReads, verifier, calls
<1>7. (ScansFit /\ PushesFit /\ NobodyLate)'
  BY DEF IInv, ScansFit, PushesFit, NobodyLate, Says, PollReads, verifier, calls
<1> QED  BY <1>3, <1>4, <1>5, <1>6, <1>7 DEF IInv

\* What is bound is what the poll read, some steps ago.
LEMMA PollCompletesKeeps ==
  ASSUME IInv, NEW t \in Txns, PollCompletes(t)
  PROVE  IInv'
<1>1. poll[t] \in People /\ Says(t, poll[t])
  BY DEF IInv, Typed, PollsFit, PollCompletes
<1> DEFINE bound == [person |-> poll[t], scanned |-> TRUE]
<1>2. bound \in Session
  BY <1>1 DEF Session
<1>3. session' = [session EXCEPT ![t] = bound] \/ session' = session
  BY DEF PollCompletes
<1>4. browser' = [browser EXCEPT ![t] = "in"] \/ browser' = [browser EXCEPT ![t] = "over"]
  BY DEF PollCompletes
<1>5. poll' = [poll EXCEPT ![t] = None]
  BY DEF PollCompletes
<1>6. UNCHANGED <<now, row, verifier, calls, late>>
  BY DEF PollCompletes
<1> HIDE DEF bound
<1>7. Typed'
  BY <1>2, <1>3, <1>4, <1>5, <1>6 DEF IInv, Typed, verifier, calls
<1>8. ScansFit'
  <2> SUFFICES ASSUME NEW x \in Txns, session'[x].scanned
               PROVE  Says(x, session'[x].person)
    BY <1>6 DEF ScansFit, Says, verifier
  <2>1. CASE x = t /\ session' = [session EXCEPT ![t] = bound]
    BY <2>1, <1>1 DEF IInv, Typed, bound
  <2>2. CASE session'[x] = session[x]
    BY <2>2 DEF IInv, ScansFit
  <2> QED  BY <1>3, <2>1, <2>2 DEF IInv, Typed
<1>9. (WaitersFit /\ PollsFit)'
  BY <1>4, <1>5, <1>6 DEF IInv, Typed, WaitersFit, PollsFit, Says, verifier
<1>10. (RowsFit /\ CallsFit /\ ClaimsHold /\ RecordsFit /\ VerdictsFit)'
  BY <1>6 DEF IInv, RowsFit, CallsFit, ClaimsHold, RecordsFit, VerdictsFit, Working, Says, verifier, calls
<1>11. (PushesFit /\ NobodyLate)'
  BY <1>6 DEF IInv, PushesFit, NobodyLate, verifier
<1> QED  BY <1>7, <1>8, <1>9, <1>10, <1>11 DEF IInv

\* The verifier pushes once about a transaction, so what a push says stands.
LEMMA PresentKeeps ==
  ASSUME IInv, NEW t \in Txns, NEW u \in Shown, NEW n \in Txns, NEW ok \in BOOLEAN,
         Present(t, u, n, ok)
  PROVE  IInv'
<1>1. Typed'
  BY DEF IInv, Typed, Row, Session, Times, Present, Push, References, calls
<1>2. (CallsFit /\ ClaimsHold /\ RecordsFit)'
  BY DEF IInv, Typed, CallsFit, ClaimsHold, RecordsFit, Working, Says, Present, Push, References, calls
<1>3. (VerdictsFit /\ PollsFit /\ ScansFit)'
  BY DEF IInv, Typed, VerdictsFit, PollsFit, ScansFit, Says, Present, References
<1>4. PushesFit'
  BY DEF IInv, Typed, PushesFit, Present, Push, References
<1>5. (RowsFit /\ WaitersFit /\ NobodyLate)'
  BY DEF IInv, RowsFit, WaitersFit, NobodyLate, Present
<1> QED  BY <1>1, <1>2, <1>3, <1>4, <1>5 DEF IInv

\* Moving a callback on leaves the rows, the browsers and the verifier alone.
LEMMA CallbackMoves ==
  ASSUME IInv, UNCHANGED <<now, row, session, browser, wallet, push, late>>, due' \subseteq due,
         poll' = poll \/ poll' = [t \in Txns |-> None],
         pc' \in [Callbacks -> {"idle", "claim", "resolve", "record", "fail"}],
         call' \in [Callbacks -> [txn : Txns \cup {None}, user : People \cup {None}]]
  PROVE  (Typed /\ RowsFit /\ VerdictsFit /\ WaitersFit /\ PollsFit /\ ScansFit /\ PushesFit /\ NobodyLate)'
<1>1. Typed'
  BY DEF IInv, Typed
<1>2. (RowsFit /\ VerdictsFit /\ WaitersFit /\ PushesFit /\ NobodyLate)'
  BY DEF IInv, RowsFit, VerdictsFit, WaitersFit, PushesFit, NobodyLate, Says
<1>3. (PollsFit /\ ScansFit)'
  BY DEF IInv, Typed, PollsFit, ScansFit, Says
<1> QED  BY <1>1, <1>2, <1>3

\* What a callback that is answered holds.
LEMMA Answered ==
  ASSUME Typed, NEW c \in Callbacks, NEW t, Answer(c, t)
  PROVE  /\ pc' \in [Callbacks -> {"idle", "claim", "resolve", "record", "fail"}]
         /\ call' \in [Callbacks -> [txn : Txns \cup {None}, user : People \cup {None}]]
         /\ pc'[c] = "idle"
         /\ \A d \in Callbacks \ {c} : pc'[d] = pc[d] /\ call'[d] = call[d]
         /\ due' \subseteq due /\ UNCHANGED <<wallet, push>>
  BY DEF Typed, Answer, NoCall

\* What a callback that goes on holds.
LEMMA Gone ==
  ASSUME Typed, NEW c \in Callbacks, NEW where \in {"idle", "claim", "resolve", "record", "fail"},
         NEW locals \in [txn : Txns \cup {None}, user : People \cup {None}], Go(c, where, locals)
  PROVE  /\ pc' \in [Callbacks -> {"idle", "claim", "resolve", "record", "fail"}]
         /\ call' \in [Callbacks -> [txn : Txns \cup {None}, user : People \cup {None}]]
         /\ pc'[c] = where /\ call'[c] = locals
         /\ \A d \in Callbacks \ {c} : pc'[d] = pc[d] /\ call'[d] = call[d]
         /\ UNCHANGED <<wallet, push, due>>
  BY DEF Typed, Go, verifier

LEMMA ReceiveKeeps ==
  ASSUME IInv, NEW t \in Txns, NEW c \in Callbacks, Receive(c, t)
  PROVE  IInv'
<1>1. UNCHANGED <<now, row, session, browser, poll, late>> /\ pc[c] = "idle" /\ push[t] \in Push
  BY DEF IInv, Typed, Receive
<1>2. CASE Answer(c, t)
  <2>1. (Typed /\ RowsFit /\ VerdictsFit /\ WaitersFit /\ PollsFit /\ ScansFit /\ PushesFit /\ NobodyLate)'
    BY <1>1, <1>2, Answered, CallbackMoves DEF IInv
  <2>2. /\ pc'[c] = "idle" /\ \A d \in Callbacks \ {c} : pc'[d] = pc[d] /\ call'[d] = call[d]
        /\ UNCHANGED push
    BY <1>2, Answered DEF IInv
  <2>3. (CallsFit /\ ClaimsHold /\ RecordsFit)'
    BY <1>1, <2>2 DEF IInv, CallsFit, ClaimsHold, RecordsFit, Working, Says
  <2> QED  BY <2>1, <2>3 DEF IInv
<1>3. ASSUME NEW s \in Named(push[t]) \cap {x \in Txns : row[x] # None},
             Go(c, "claim", [txn |-> s, user |-> None])
      PROVE  IInv'
  <2>1. s = t /\ row[t] \in Row
    BY <1>1 DEF IInv, Typed, PushesFit, Named
  <2>2. [txn |-> s, user |-> None] \in [txn : Txns \cup {None}, user : People \cup {None}]
    OBVIOUS
  <2>3. /\ pc' \in [Callbacks -> {"idle", "claim", "resolve", "record", "fail"}]
        /\ call' \in [Callbacks -> [txn : Txns \cup {None}, user : People \cup {None}]]
        /\ pc'[c] = "claim" /\ call'[c].txn = t
        /\ \A d \in Callbacks \ {c} : pc'[d] = pc[d] /\ call'[d] = call[d]
        /\ UNCHANGED <<wallet, push, due>>
    BY <1>3, <2>1, <2>2, Gone DEF IInv
  <2>4. (Typed /\ RowsFit /\ VerdictsFit /\ WaitersFit /\ PollsFit /\ ScansFit /\ PushesFit /\ NobodyLate)'
    BY <1>1, <2>3, CallbackMoves
  <2>5. (CallsFit /\ ClaimsHold /\ RecordsFit)'
    BY <1>1, <2>1, <2>3 DEF IInv, CallsFit, ClaimsHold, RecordsFit, Working, Says
  <2> QED  BY <2>4, <2>5 DEF IInv
<1> QED  BY <1>2, <1>3 DEF Receive

\* The guarded claim lets in one callback, while the row is pending and in time.
LEMMA ClaimKeeps ==
  ASSUME IInv, NEW c \in Callbacks, Claim(c)
  PROVE  IInv'
<1> DEFINE t == call[c].txn
<1>1. /\ t \in Txns /\ row[t] \in Row /\ push[t] \in Push
      /\ pc[c] = "claim" /\ call[c] \in [txn : Txns \cup {None}, user : People \cup {None}]
      /\ UNCHANGED <<now, session, browser, poll>>
  BY DEF IInv, Typed, CallsFit, Claim
<1>2. CASE ~Claimable(t)
  <2>1. Answer(c, t) /\ UNCHANGED <<row, late>>
    BY <1>2 DEF Claim
  <2>2. (Typed /\ RowsFit /\ VerdictsFit /\ WaitersFit /\ PollsFit /\ ScansFit /\ PushesFit /\ NobodyLate)'
    BY <1>1, <2>1, Answered, CallbackMoves DEF IInv
  <2>3. (CallsFit /\ ClaimsHold /\ RecordsFit)'
    BY <2>1, Answered DEF IInv, CallsFit, ClaimsHold, RecordsFit, Working, Says
  <2> QED  BY <2>2, <2>3 DEF IInv
<1>3. CASE Claimable(t)
  <2> DEFINE claimed == [row[t] EXCEPT !.consumed = TRUE]
  <2>1. row' = [row EXCEPT ![t] = claimed] /\ Go(c, "resolve", call[c])
    BY <1>3 DEF Claim
  <2>2. late' = late
    <3>1. row[t].expires \in Nat /\ now \in Nat /\ row[t].expires > now
      BY <1>1, <1>3 DEF IInv, Typed, Row, Times, Claimable
    <3> QED  BY <1>3, <3>1 DEF Claim
  <2>3. claimed \in Row /\ claimed # None /\ claimed.state = "pending" /\ claimed.consumed
        /\ claimed.user = row[t].user
    BY <1>1, <1>3 DEF Row, Claimable
  <2>4. row[t].state = "pending" /\ ~row[t].consumed
    BY <1>3 DEF Claimable
  <2> HIDE DEF claimed
  <2>5. /\ pc' \in [Callbacks -> {"idle", "claim", "resolve", "record", "fail"}]
        /\ call' \in [Callbacks -> [txn : Txns \cup {None}, user : People \cup {None}]]
        /\ pc'[c] = "resolve" /\ call'[c] = call[c]
        /\ \A d \in Callbacks \ {c} : pc'[d] = pc[d] /\ call'[d] = call[d]
        /\ UNCHANGED <<wallet, push, due>>
    BY <1>1, <2>1, Gone DEF IInv
  <2>6. Typed'
    BY <1>1, <2>1, <2>3, <2>5 DEF IInv, Typed
  <2>7. row'[t] = claimed /\ \A x \in Txns \ {t} : row'[x] = row[x]
    BY <1>1, <2>1 DEF IInv, Typed
  <2>8. RowsFit'
    BY <1>1, <2>3, <2>4, <2>7 DEF IInv, RowsFit
  <2>9. (VerdictsFit /\ WaitersFit)'
    BY <1>1, <2>3, <2>5, <2>7 DEF IInv, VerdictsFit, WaitersFit, Says
  <2>10. (CallsFit /\ RecordsFit)'
    BY <1>1, <2>3, <2>5, <2>7 DEF IInv, CallsFit, RecordsFit, Says
  <2>11. ClaimsHold'
    BY <1>1, <2>3, <2>4, <2>5, <2>7 DEF IInv, CallsFit, ClaimsHold, Working
  <2>12. (PollsFit /\ ScansFit /\ PushesFit /\ NobodyLate)'
    BY <1>1, <2>2, <2>5 DEF IInv, PollsFit, ScansFit, PushesFit, NobodyLate, Says
  <2> QED  BY <2>6, <2>8, <2>9, <2>10, <2>11, <2>12 DEF IInv
<1> QED  BY <1>2, <1>3

\* What is to be recorded is what the push says, and the nonce fits.
LEMMA ResolveKeeps ==
  ASSUME IInv, NEW c \in Callbacks, Resolve(c)
  PROVE  IInv'
<1> DEFINE t == call[c].txn
<1>1. /\ t \in Txns /\ push[t] \in Push
      /\ pc[c] = "resolve" /\ call[c] \in [txn : Txns \cup {None}, user : People \cup {None}]
      /\ UNCHANGED <<now, row, session, browser, poll, late>>
  BY DEF IInv, Typed, CallsFit, Resolve
<1>2. PICK where \in {"fail", "record"}, locals \in [txn : Txns \cup {None}, user : People \cup {None}] :
        /\ Go(c, where, locals) /\ locals.txn = t
        /\ where = "record" => locals.user \in People /\ Says(t, locals.user)
  <2>1. CASE Refused(push[t], t)
    BY <1>1, <2>1 DEF Resolve
  <2>2. CASE ~Refused(push[t], t)
    <3> DEFINE locals == [call[c] EXCEPT !.user = push[t].name]
    <3>1. Go(c, "record", locals)
      BY <2>2 DEF Resolve
    <3>2. push[t].name \in People /\ Says(t, push[t].name)
      BY <1>1, <2>2 DEF Refused, Says
    <3>3. locals \in [txn : Txns \cup {None}, user : People \cup {None}] /\ locals.txn = t /\ locals.user = push[t].name
      BY <1>1, <3>2
    <3> HIDE DEF locals
    <3> QED  BY <3>1, <3>2, <3>3
  <2> QED  BY <2>1, <2>2
<1>3. /\ pc' \in [Callbacks -> {"idle", "claim", "resolve", "record", "fail"}]
      /\ call' \in [Callbacks -> [txn : Txns \cup {None}, user : People \cup {None}]]
      /\ pc'[c] = where /\ call'[c] = locals
      /\ \A d \in Callbacks \ {c} : pc'[d] = pc[d] /\ call'[d] = call[d]
      /\ UNCHANGED <<wallet, push, due>>
  BY <1>2, Gone DEF IInv
<1>4. (Typed /\ RowsFit /\ VerdictsFit /\ WaitersFit /\ PollsFit /\ ScansFit /\ PushesFit /\ NobodyLate)'
  BY <1>1, <1>3, CallbackMoves
<1>5. (CallsFit /\ ClaimsHold /\ RecordsFit)'
  BY <1>1, <1>2, <1>3 DEF IInv, CallsFit, ClaimsHold, RecordsFit, Working, Says
<1> QED  BY <1>4, <1>5 DEF IInv

\* A callback that fails between two statements leaves the row as it was.
LEMMA FaultsKeep ==
  ASSUME IInv, (\E c \in Callbacks : LookupFails(c) \/ Break(c)) \/ Crash
  PROVE  IInv'
<1>1. ASSUME NEW c \in Callbacks, LookupFails(c)
      PROVE  IInv'
  <2>1. pc[c] = "resolve" /\ call[c] \in [txn : Txns \cup {None}, user : People \cup {None}]
    BY <1>1 DEF IInv, Typed, LookupFails
  <2>2. /\ pc' \in [Callbacks -> {"idle", "claim", "resolve", "record", "fail"}]
        /\ call' \in [Callbacks -> [txn : Txns \cup {None}, user : People \cup {None}]]
        /\ pc'[c] = "fail" /\ call'[c] = call[c]
        /\ \A d \in Callbacks \ {c} : pc'[d] = pc[d] /\ call'[d] = call[d]
        /\ UNCHANGED <<wallet, push, due, now, row, session, browser, poll, late>>
    BY <1>1, <2>1, Gone DEF IInv, LookupFails
  <2>3. (Typed /\ RowsFit /\ VerdictsFit /\ WaitersFit /\ PollsFit /\ ScansFit /\ PushesFit /\ NobodyLate)'
    BY <2>2, CallbackMoves
  <2>4. (CallsFit /\ ClaimsHold /\ RecordsFit)'
    BY <2>1, <2>2 DEF IInv, CallsFit, ClaimsHold, RecordsFit, Working, Says
  <2> QED  BY <2>3, <2>4 DEF IInv
<1>2. ASSUME NEW c \in Callbacks, Break(c)
      PROVE  IInv'
  <2>1. NoCall \in [txn : Txns \cup {None}, user : People \cup {None}]
    BY DEF NoCall
  <2>2. /\ pc' \in [Callbacks -> {"idle", "claim", "resolve", "record", "fail"}]
        /\ call' \in [Callbacks -> [txn : Txns \cup {None}, user : People \cup {None}]]
        /\ pc'[c] = "idle"
        /\ \A d \in Callbacks \ {c} : pc'[d] = pc[d] /\ call'[d] = call[d]
        /\ UNCHANGED <<wallet, push, due, now, row, session, browser, poll, late>>
    BY <1>2, <2>1, Gone DEF IInv, Break
  <2>3. (Typed /\ RowsFit /\ VerdictsFit /\ WaitersFit /\ PollsFit /\ ScansFit /\ PushesFit /\ NobodyLate)'
    BY <2>2, CallbackMoves
  <2>4. (CallsFit /\ ClaimsHold /\ RecordsFit)'
    BY <2>2 DEF IInv, CallsFit, ClaimsHold, RecordsFit, Working, Says
  <2> QED  BY <2>3, <2>4 DEF IInv
<1>3. ASSUME Crash
      PROVE  IInv'
  <2>1. (Typed /\ RowsFit /\ VerdictsFit /\ WaitersFit /\ PollsFit /\ ScansFit /\ PushesFit /\ NobodyLate)'
    BY <1>3, CallbackMoves DEF Crash, NoCall, verifier
  <2>2. (CallsFit /\ ClaimsHold /\ RecordsFit)'
    BY <1>3 DEF CallsFit, ClaimsHold, RecordsFit, Working, Crash
  <2> QED  BY <2>1, <2>2 DEF IInv
<1> QED  BY <1>1, <1>2, <1>3

\* A result lands on the row its callback claimed, which no other works on.
LEMMA ResultKeeps ==
  ASSUME IInv, NEW c \in Callbacks, Record(c) \/ RecordFailure(c)
  PROVE  IInv'
<1> DEFINE t == call[c].txn
<1>1. /\ t \in Txns /\ row[t] \in Row /\ pc[c] \in {"record", "fail"} /\ Working(c)
      /\ row[t].state = "pending" /\ row[t].consumed
      /\ Answer(c, t) /\ UNCHANGED <<now, session, browser, poll, late>>
  BY DEF IInv, Typed, CallsFit, ClaimsHold, Working, Record, RecordFailure
<1>2. PICK new \in Row :
        /\ row' = [row EXCEPT ![t] = new]
        /\ new.consumed /\ (new.state = "verified" <=> new.user # None)
        /\ new.state = "verified" => Says(t, new.user)
  <2>1. CASE Record(c)
    <3> DEFINE new == [row[t] EXCEPT !.state = "verified", !.user = call[c].user]
    <3>1. row' = [row EXCEPT ![t] = new] /\ call[c].user \in People /\ Says(t, call[c].user)
      BY <2>1 DEF IInv, RecordsFit, Record
    <3>2. new \in Row /\ new.state = "verified" /\ new.user = call[c].user /\ new.consumed
      BY <1>1, <3>1 DEF Row
    <3> HIDE DEF new
    <3> QED  BY <3>1, <3>2
  <2>2. CASE row' = [row EXCEPT ![t].state = "failed"]
    <3> DEFINE new == [row[t] EXCEPT !.state = "failed"]
    <3>1. new \in Row /\ new.state = "failed" /\ new.user = row[t].user /\ new.consumed
      BY <1>1 DEF Row
    <3>2. row[t].user = None
      BY <1>1 DEF IInv, RowsFit
    <3>3. row' = [row EXCEPT ![t] = new]
      BY <2>2
    <3> HIDE DEF new
    <3> QED  BY <3>1, <3>2, <3>3
  <2>3. CASE row' = row
    BY <1>1, <2>3 DEF IInv, Typed, RowsFit
  <2> QED  BY <2>1, <2>2, <2>3 DEF RecordFailure
<1>3. /\ pc' \in [Callbacks -> {"idle", "claim", "resolve", "record", "fail"}]
      /\ call' \in [Callbacks -> [txn : Txns \cup {None}, user : People \cup {None}]]
      /\ pc'[c] = "idle"
      /\ \A d \in Callbacks \ {c} : pc'[d] = pc[d] /\ call'[d] = call[d]
      /\ due' \subseteq due /\ UNCHANGED <<wallet, push>>
  BY <1>1, Answered DEF IInv
<1>4. row'[t] = new /\ \A x \in Txns \ {t} : row'[x] = row[x]
  BY <1>1, <1>2 DEF IInv, Typed
<1>5. Typed'
  BY <1>1, <1>2, <1>3 DEF IInv, Typed
<1>6. (RowsFit /\ VerdictsFit /\ WaitersFit)'
  BY <1>1, <1>2, <1>3, <1>4 DEF IInv, RowsFit, VerdictsFit, WaitersFit, Says
<1>7. (CallsFit /\ RecordsFit)'
  BY <1>1, <1>2, <1>3, <1>4 DEF IInv, CallsFit, RecordsFit, Says
<1>8. ClaimsHold'
  BY <1>1, <1>3, <1>4 DEF IInv, CallsFit, ClaimsHold, Working
<1>9. (PollsFit /\ ScansFit /\ PushesFit /\ NobodyLate)'
  BY <1>1, <1>3 DEF IInv, PollsFit, ScansFit, PushesFit, NobodyLate, Says
<1> QED  BY <1>5, <1>6, <1>7, <1>8, <1>9 DEF IInv

LEMMA TickKeeps ==
  ASSUME IInv, Tick
  PROVE  IInv'
<1>1. Typed'
  BY DEF IInv, Typed, Times, Tick, verifier, calls
<1>2. (RowsFit /\ CallsFit /\ ClaimsHold /\ RecordsFit /\ VerdictsFit)'
  BY DEF IInv, RowsFit, CallsFit, ClaimsHold, RecordsFit, VerdictsFit, Working, Says, Tick, verifier, calls
<1>3. (WaitersFit /\ PollsFit /\ ScansFit /\ PushesFit /\ NobodyLate)'
  BY DEF IInv, WaitersFit, PollsFit, ScansFit, PushesFit, NobodyLate, Says, Tick, verifier
<1> QED  BY <1>1, <1>2, <1>3 DEF IInv

LEMMA NextKeeps == IInv /\ [Next]_vars => IInv'
<1> SUFFICES ASSUME IInv, [Next]_vars
             PROVE  IInv'
  OBVIOUS
<1>1. CASE UNCHANGED vars
  BY <1>1 DEF IInv, Typed, RowsFit, CallsFit, ClaimsHold, RecordsFit, VerdictsFit, WaitersFit,
              PollsFit, ScansFit, PushesFit, NobodyLate, Working, Says, vars, verifier, calls
<1>2. CASE Next
  BY <1>2, StartKeeps, PollReadsKeeps, PollCompletesKeeps, PresentKeeps, ReceiveKeeps, ClaimKeeps,
     ResolveKeeps, FaultsKeep, ResultKeeps, TickKeeps DEF Next
<1> QED  BY <1>1, <1>2

LEMMA InvariantHolds == Spec => []IInv
  BY InitHolds, NextKeeps, PTL DEF Spec

-----------------------------------------------------------------------------
(* The theorems.                                                           *)

\* TypeOK: also that every result stands on a claimed row, and that only a
\* verified row names a person.
THEOREM QrTyped == Spec => []TypeOK
<1>1. IInv => TypeOK
  BY DEF IInv, Typed, RowsFit, TypeOK
<1> QED  BY <1>1, InvariantHolds, PTL

\* ScanFitsTransaction: whatever callbacks and polls run side by side, stop or
\* are repeated, a scan signs in the person whose wallet the verifier read for
\* this very transaction, in time.
THEOREM ScanFits == Spec => []ScanFitsTransaction
<1>1. IInv => ScanFitsTransaction
  BY DEF IInv, Typed, ScansFit, PushesFit, NobodyLate, Says, ScanFitsTransaction
<1> QED  BY <1>1, InvariantHolds, PTL

\* ResolvesOnce: a result that was written stands. SetResult has no guard of its
\* own, so this is the invariant's doing: only the holder of the claim writes.
THEOREM OneResolution == Spec => ResolvesOnce
<1> DEFINE Stands == \A t \in Txns : (row[t] # None /\ row[t].state # "pending") =>
                         (row'[t].state = row[t].state /\ row'[t].user = row[t].user)
<1>1. IInv /\ [Next]_vars => [Stands]_vars
  <2> SUFFICES ASSUME IInv, Next
               PROVE  Stands
    OBVIOUS
  <2>1. CASE row' = row
    BY <2>1
  <2>2. ASSUME NEW t \in Txns, Start(t)
        PROVE  Stands
    BY <2>2 DEF IInv, Typed, Start
  <2>3. ASSUME NEW c \in Callbacks, Claim(c)
        PROVE  Stands
    <3>1. call[c].txn \in Txns /\ row[call[c].txn] \in Row
      BY <2>3 DEF IInv, CallsFit, Claim
    <3>2. \/ row' = row
          \/ row[call[c].txn].state = "pending" /\ \A x \in Txns \ {call[c].txn} : row'[x] = row[x]
      BY <2>3, <3>1 DEF IInv, Typed, Claim, Claimable
    <3> QED  BY <3>1, <3>2
  <2>4. ASSUME NEW c \in Callbacks, Record(c) \/ RecordFailure(c)
        PROVE  Stands
    <3>1. row[call[c].txn].state = "pending"
      BY <2>4 DEF IInv, ClaimsHold, Working, Record, RecordFailure
    <3>2. \A x \in Txns \ {call[c].txn} : row'[x] = row[x]
      BY <2>4 DEF IInv, Typed, Record, RecordFailure
    <3> QED  BY <3>1, <3>2
  <2>5. Next => \/ row' = row
                \/ \E t \in Txns : Start(t)
                \/ \E c \in Callbacks : Claim(c) \/ Record(c) \/ RecordFailure(c)
    BY DEF Next, Tick, Crash, PollReads, PollCompletes, Present, Receive, Resolve, LookupFails, Break
  <2> QED  BY <2>1, <2>2, <2>3, <2>4, <2>5
<1> QED  BY <1>1, InvariantHolds, PTL DEF Spec, ResolvesOnce

=============================================================================

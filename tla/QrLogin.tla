------------------------------- MODULE QrLogin -------------------------------
(***************************************************************************)
(* QR Login: the browser starts a transaction and polls it, the Scan       *)
(* Verifier pushes what a wallet presented to a callback, and a poll binds *)
(* the person. A transaction is named as its login session and the         *)
(* transaction of the verifier are, as one start opens all three.          *)
(*                                                                         *)
(* The callback and the poll run in no transaction: each statement commits *)
(* by itself, and the process can stop between two of them. The verifier   *)
(* pushes until it is answered, and may push what was answered again.      *)
(***************************************************************************)
EXTENDS Naturals, FiniteSets

CONSTANTS
    Txns,      \* transactions a browser may start
    People,    \* people of the tenant
    Callbacks, \* callback requests that run side by side
    None,      \* the absent value
    TTL,       \* TransactionTTL, 90 seconds in the source
    Window,    \* how long the verifier takes a presentation, about 60 seconds
    MaxTime,   \* bound: the time the clock stops at
    MaxReads,  \* bound: transactions a wallet is read for
    MaxFaults  \* bound: stops of the process and statements that fail

ASSUME TimeAssumption == {TTL, Window, MaxTime, MaxReads, MaxFaults} \subseteq Nat /\ 0 < Window /\ Window < TTL
ASSUME NoneAssumption == None \notin Txns \cup People
ASSUME ForeignAssumption == "foreign" \notin Txns

Times == 0 .. MaxTime

\* A presented name is a person's, or "stranger": missing, or nobody's here.
Shown == People \cup {"stranger"}

\* The push of the verifier. A reference is the transaction it names or an
\* identifier of the verifier's own. accepted: its result code is "0" or absent.
Push == [session      : Txns \cup {"foreign", None},
         presentation : Txns \cup {"foreign", None},
         nonce        : Txns \cup {None},
         accepted     : BOOLEAN,
         name         : Shown]

\* A row of qr_login_transactions, and what the flow sees of a login session.
Row == [state : {"pending", "verified", "failed"}, user : People \cup {None},
        expires : Times, consumed : BOOLEAN]
Session == [person : People \cup {None}, scanned : BOOLEAN]

ASSUME NoRowAssumption == None \notin Push \cup Row

VARIABLES
    now,
    row,      \* qr_login_transactions
    session,  \* login_sessions
    browser,  \* what each browser was told last: "idle", "waiting", "in", "over"
    poll,     \* the row each poll read, if it is to complete
    wallet,   \* the verifier: the person whose wallet was read, with which nonce
    push,     \* the verifier: the push it sent
    due,      \* the verifier: pushes not answered yet
    pc,       \* where each callback stands
    call,     \* the local variables of each callback
    faults,   \* faults so far
    late,     \* history: transactions claimed at or after their deadline
    faulted   \* history: transactions that met a fault or a delay

verifier == <<wallet, push, due>>
calls == <<pc, call>>
vars == <<now, row, session, browser, poll, verifier, calls, faults, late, faulted>>

NoCall == [txn |-> None, user |-> None]

TypeOK ==
    /\ now \in Times
    /\ \A t \in Txns :
        /\ row[t] = None \/ row[t] \in Row
        /\ row[t] # None /\ row[t].state # "pending" => row[t].consumed
        /\ row[t] # None => (row[t].state = "verified" <=> row[t].user # None)
        /\ session[t] \in Session
        /\ browser[t] \in {"idle", "waiting", "in", "over"}
        /\ poll[t] \in People \cup {None}
        /\ push[t] = None \/ push[t] \in Push
    /\ due \subseteq Txns
    /\ pc \in [Callbacks -> {"idle", "claim", "resolve", "record", "fail"}]
    /\ \A c \in Callbacks : call[c] \in [txn : Txns \cup {None}, user : People \cup {None}]

Init ==
    /\ now = 0
    /\ row = [t \in Txns |-> None]
    /\ session = [t \in Txns |-> [person |-> None, scanned |-> FALSE]]
    /\ browser = [t \in Txns |-> "idle"]
    /\ poll = [t \in Txns |-> None]
    /\ wallet = [t \in Txns |-> None]
    /\ push = [t \in Txns |-> None]
    /\ due = {}
    /\ pc = [c \in Callbacks |-> "idle"]
    /\ call = [c \in Callbacks |-> NoCall]
    /\ faults = 0
    /\ late = {}
    /\ faulted = {}

-----------------------------------------------------------------------------
(* The browser.                                                            *)

\* Start: the verifier first, then the login session and the row. A failure of
\* any of them hands the browser no token.
Start(t) ==
    /\ row[t] = None
    /\ now + TTL <= MaxTime
    /\ row' = [row EXCEPT ![t] = [state |-> "pending", user |-> None,
                                  expires |-> now + TTL, consumed |-> FALSE]]
    /\ browser' = [browser EXCEPT ![t] = "waiting"]
    /\ UNCHANGED <<now, session, poll, verifier, calls, faults, late, faulted>>

\* Mutant of Unfinished: a pending transaction is pending whatever the clock says.
UnfinishedForever(t) == row[t].state = "pending"

Unfinished(t) == row[t].state = "pending" /\ row[t].expires > now

\* Poll: the session and the row are read, and every answer but one is known. A
\* poll that is answered "pending" changes nothing.
PollReads(t) ==
    /\ browser[t] = "waiting"
    /\ poll[t] = None
    /\ ~Unfinished(t)
    /\ IF row[t].state = "verified"
       THEN poll' = [poll EXCEPT ![t] = row[t].user] /\ UNCHANGED browser
       ELSE browser' = [browser EXCEPT ![t] = "over"] /\ UNCHANGED poll
    /\ UNCHANGED <<now, row, session, verifier, calls, faults, late, faulted>>

\* complete: the session is bound to the person the row names, unless it names
\* another. The rotated token is in the answer, so an answer that is lost leaves
\* the browser with a dead one.
PollCompletes(t) ==
    /\ poll[t] # None
    /\ poll' = [poll EXCEPT ![t] = None]
    /\ IF session[t].person \in {None, poll[t]}
       THEN /\ session' = [session EXCEPT ![t] = [person |-> poll[t], scanned |-> TRUE]]
            /\ browser' \in {[browser EXCEPT ![t] = "in"], [browser EXCEPT ![t] = "over"]}
       ELSE /\ browser' = [browser EXCEPT ![t] = "over"]
            /\ UNCHANGED session
    /\ UNCHANGED <<now, row, verifier, calls, faults, late, faulted>>

-----------------------------------------------------------------------------
(* The Scan Verifier.                                                      *)

\* The references of a push about t: both, one, or one beside an identifier the
\* gateway never stored.
References(t) ==
    {t} \X {t, "foreign", None} \cup {"foreign", None} \X {t}

\* A wallet answers the code of t, or an answer it gave to another code is
\* presented again. The verifier accepts it or not, and pushes, with the nonce
\* it read or without one.
Present(t, u, nonce, accepted) ==
    /\ row[t] # None /\ row[nonce] # None /\ push[t] = None
    /\ Cardinality({s \in Txns : push[s] # None}) < MaxReads
    /\ now + TTL < row[t].expires + Window
    /\ wallet' = [wallet EXCEPT ![t] = [person |-> u, nonce |-> nonce]]
    /\ \E ref \in References(t), carried \in {nonce, None} :
          push' = [push EXCEPT ![t] = [session |-> ref[1], presentation |-> ref[2],
                                       nonce |-> carried, accepted |-> accepted, name |-> u]]
    /\ due' = due \cup {t}
    /\ UNCHANGED <<now, row, session, browser, poll, calls, faults, late, faulted>>

-----------------------------------------------------------------------------
(* The callback.                                                           *)

Answer(c, t) ==
    /\ pc' = [pc EXCEPT ![c] = "idle"]
    /\ call' = [call EXCEPT ![c] = NoCall]
    /\ due' = due \ {t}
    /\ UNCHANGED <<wallet, push>>

Go(c, where, locals) ==
    /\ pc' = [pc EXCEPT ![c] = where]
    /\ call' = [call EXCEPT ![c] = locals]
    /\ UNCHANGED verifier

\* Mutant of Named: the session reference is preferred.
NamedByOne(p) == IF p.session # None THEN {p.session} ELSE {p.presentation}

\* FindByVerifierRef: a push that carries both references is matched on both.
Named(p) == {p.session, p.presentation}

\* A push arrives, perhaps again, and names a row or none.
Receive(c, t) ==
    /\ pc[c] = "idle"
    /\ push[t] # None
    /\ LET found == Named(push[t]) \cap {s \in Txns : row[s] # None}
       IN  \/ \E s \in found : Go(c, "claim", [txn |-> s, user |-> None])
           \/ found = {} /\ Answer(c, t)
    /\ UNCHANGED <<now, row, session, browser, poll, faults, late, faulted>>

\* Mutant of Claimable: the claim is not guarded by itself.
ClaimableAgain(t) == row[t].state = "pending" /\ row[t].expires > now

\* The WHERE of Consume.
Claimable(t) == row[t].state = "pending" /\ ~row[t].consumed /\ row[t].expires > now

Claim(c) ==
    LET t == call[c].txn
    IN  /\ pc[c] = "claim"
        /\ IF Claimable(t)
           THEN /\ row' = [row EXCEPT ![t].consumed = TRUE]
                /\ late' = IF row[t].expires <= now THEN late \cup {t} ELSE late
                /\ Go(c, "resolve", call[c])
           ELSE Answer(c, t) /\ UNCHANGED <<row, late>>
        /\ UNCHANGED <<now, session, browser, poll, faults, faulted>>

\* Mutant of Refused: the nonce is not compared.
RefusedIgnoringNonce(p, t) == ~p.accepted \/ p.name \notin People

\* resolve: a result code, a nonce that is carried, and the name must fit.
Refused(p, t) ==
    \/ ~p.accepted
    \/ p.nonce \notin {t, None}
    \/ p.name \notin People

Resolve(c) ==
    LET t == call[c].txn
    IN  /\ pc[c] = "resolve"
        /\ IF Refused(push[t], t) THEN Go(c, "fail", call[c])
           ELSE Go(c, "record", [call[c] EXCEPT !.user = push[t].name])
        /\ UNCHANGED <<now, row, session, browser, poll, faults, late, faulted>>

Fault(txns) ==
    /\ faults < MaxFaults
    /\ faults' = faults + 1
    /\ faulted' = faulted \cup (txns \ {None})

\* A lookup that fails is a refusal too.
LookupFails(c) ==
    /\ pc[c] = "resolve"
    /\ Fault({call[c].txn})
    /\ Go(c, "fail", call[c])
    /\ UNCHANGED <<now, row, session, browser, poll, late>>

\* SetResult has no guard of its own.
Record(c) ==
    LET t == call[c].txn
    IN  /\ pc[c] = "record"
        /\ row' = [row EXCEPT ![t].state = "verified", ![t].user = call[c].user]
        /\ Answer(c, t)
        /\ UNCHANGED <<now, session, browser, poll, faults, late, faulted>>

\* fail: a result that cannot be written is only logged.
RecordFailure(c) ==
    LET t == call[c].txn
    IN  /\ pc[c] = "fail"
        /\ row' \in {[row EXCEPT ![t].state = "failed"], row}
        /\ Answer(c, t)
        /\ UNCHANGED <<now, session, browser, poll, faults, late, faulted>>

\* A statement fails: the verifier is answered with an error and pushes again.
Break(c) ==
    /\ pc[c] \in {"claim", "record"}
    /\ Fault({call[c].txn})
    /\ Go(c, "idle", NoCall)
    /\ UNCHANGED <<now, row, session, browser, poll, late>>

\* The process stops: requests are gone, and the browser polls again.
Crash ==
    /\ Fault({call[c].txn : c \in Callbacks})
    /\ pc' = [c \in Callbacks |-> "idle"]
    /\ call' = [c \in Callbacks |-> NoCall]
    /\ poll' = [t \in Txns |-> None]
    /\ UNCHANGED <<now, row, session, browser, verifier, late>>

\* A push on its way or being served when the deadline passes is late.
Tick ==
    /\ now < MaxTime
    /\ now' = now + 1
    /\ faulted' = faulted \cup {t \in (due \cup {call[c].txn : c \in Callbacks}) \ {None} :
                               row[t].state = "pending" /\ row[t].expires <= now + 1}
    /\ UNCHANGED <<row, session, browser, poll, verifier, calls, faults, late>>

Next ==
    \/ Tick
    \/ Crash
    \/ \E t \in Txns :
        \/ Start(t)
        \/ PollReads(t)
        \/ PollCompletes(t)
        \/ \E u \in Shown, n \in Txns, ok \in BOOLEAN : Present(t, u, n, ok)
        \/ \E c \in Callbacks : Receive(c, t)
    \/ \E c \in Callbacks :
        \/ Claim(c)
        \/ Resolve(c)
        \/ LookupFails(c)
        \/ Record(c)
        \/ RecordFailure(c)
        \/ Break(c)

\* Time passes, a browser that was told to wait polls on, a request that runs is
\* served, and the verifier pushes until it is answered.
Fairness ==
    /\ WF_vars(Tick)
    /\ \A t \in Txns :
        /\ WF_vars(PollReads(t))
        /\ WF_vars(PollCompletes(t))
        /\ WF_vars(t \in due /\ \E c \in Callbacks : Receive(c, t))
    /\ \A c \in Callbacks :
        /\ WF_vars(Claim(c))
        /\ WF_vars(Resolve(c))
        /\ WF_vars(Record(c))
        /\ WF_vars(RecordFailure(c))

Spec == Init /\ [][Next]_vars /\ Fairness

-----------------------------------------------------------------------------
(* Properties.                                                             *)

\* "A fresh nonce per transaction": a scan signs in the person whose wallet the
\* verifier read for this very transaction, and never by an answer that carries
\* the nonce of another one or arrived after the deadline, whenever the poll comes.
ScanFitsTransaction ==
    \A t \in Txns : session[t].scanned =>
        /\ wallet[t].person = session[t].person
        /\ push[t].nonce # None => wallet[t].nonce = t
        /\ t \notin late

\* "One transaction resolves exactly once": a result stands, whatever pushes are
\* retried, repeated or served side by side.
ResolvesOnce ==
    [][\A t \in Txns :
          (row[t] # None /\ row[t].state # "pending") =>
              (row'[t].state = row[t].state /\ row'[t].user = row[t].user)]_vars

\* A browser does not wait for ever, also for a transaction that was claimed and
\* whose result a stop of the process or a failed write lost.
BrowserIsAnswered == \A t \in Txns : browser[t] = "waiting" ~> browser[t] # "waiting"

Accepted(t) ==
    /\ push[t] # None
    /\ push[t].accepted /\ push[t].nonce \in {t, None} /\ push[t].name \in People

\* A presentation the verifier accepted signs the person in, whichever references
\* its push carries and however often it is sent, unless a failure hit the
\* callback or the push came too late.
AcceptedScanSignsIn ==
    \A t \in Txns :
        Accepted(t) ~> \/ session[t].scanned
                       \/ t \in faulted

=============================================================================

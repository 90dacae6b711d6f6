----------------------------- MODULE TokenLife -----------------------------
(***************************************************************************)
(* What a login session promises the holder of its token, without rows,    *)
(* caches or requests: a token is handed out once, a session answers to    *)
(* the last token handed out for it, and a token that stopped answering    *)
(* never answers again.                                                    *)
(***************************************************************************)
CONSTANTS Sessions, Tokens, None

VARIABLES status,  \* of each token
          holder   \* the session a token was handed out for

tvars == <<status, holder>>

Init ==
    /\ status = [t \in Tokens |-> "unissued"]
    /\ holder = [t \in Tokens |-> None]

\* A token is handed out. Every earlier token of its session is dead from then
\* on. The session may have ended on the way to the client.
Issue(s, t, fate) ==
    /\ status[t] = "unissued"
    /\ holder' = [holder EXCEPT ![t] = s]
    /\ status' = [x \in Tokens |->
          IF x = t THEN fate
          ELSE IF holder[x] = s /\ status[x] = "live" THEN "dead" ELSE status[x]]

\* Sessions end or expire, or a rotation whose answer is still on its way
\* retires their token.
Kill(T) ==
    /\ \A t \in T : status[t] = "live"
    /\ status' = [t \in Tokens |-> IF t \in T THEN "dead" ELSE status[t]]
    /\ UNCHANGED holder

Next ==
    \/ \E s \in Sessions, t \in Tokens, fate \in {"live", "dead"} : Issue(s, t, fate)
    \/ \E T \in SUBSET Tokens : Kill(T)

Spec == Init /\ [][Next]_tvars

=============================================================================

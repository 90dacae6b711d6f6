--------------------------- MODULE MCLoginSession ---------------------------
(* Small instances of LoginSession. People and tokens are interchangeable.  *)
EXTENDS LoginSession, TLC

Symmetry == Permutations(Procs) \cup Permutations(Sessions)
              \cup Permutations(Users) \cup Permutations(Tokens)

(* The scenes a run looks into, each with bounds of its own. *)

Busy == {p \in Procs : pc[p] # "idle"}
Minted == {t \in Tokens : minter[t] # None}
OpenedAs(kind) == \A s \in Sessions : origin[s].kind = kind

Asks(ops) == \A p \in Busy : req[p].op \in ops

\* No session was ended, and no wrong code was counted.
Going ==
    /\ disclosed # {} => \A s \in Sessions : row[s] # None
    /\ \A s \in Sessions :
          row[s] # None => row[s].state = "active" /\ row[s].live.wrong = 0

\* One request at a time on a session of a directory, up to a second factor
\* between two binds.
Rebinding == OpenedAs("directory") /\ Going /\ Cardinality(Busy) <= 1

\* Two steps of a sign-in at once: binds, second factors and wrong codes.
Steps ==
    /\ OpenedAs("directory") /\ Cardinality(Minted) <= 3 /\ Going
    /\ Asks({"identify", "password", "otp", "wrong"})

\* A bind beside a second factor, up to the last token.
Binds ==
    /\ OpenedAs("directory") /\ Going /\ Asks({"identify", "password", "otp"})
    /\ \A p, q \in Busy : p = q \/ req[p].op # req[q].op

\* Whatever ends a session beside its first steps.
Endings == OpenedAs("directory") /\ Cardinality(Minted) <= 2

\* Two steps of a QR sign-in at once.
Polls ==
    /\ OpenedAs("qr") /\ Cardinality(Minted) <= 3
    /\ Asks({"identify", "vc", "terminate"})

Within == Rebinding \/ Steps \/ Binds \/ Endings \/ Polls
=============================================================================

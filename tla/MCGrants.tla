------------------------------ MODULE MCGrants ------------------------------
(* Small instances of Grants. Requests, grants, tokens and clients are      *)
(* interchangeable.                                                         *)
EXTENDS Grants, TLC

Symmetry == Permutations(Procs) \cup Permutations(Grants) \cup Permutations(Tokens)
              \cup Permutations(Sessions) \cup Permutations(Users) \cup Permutations(Clients)

(* The scenes a run looks into, each with bounds of its own. *)

Apart == \A g, h \in Grants : g # h => of[g].session # of[h].session

\* Two requests at once, about the grant of one of two sign-ins.
Overlap ==
    /\ Apart /\ now = 0
    /\ \E g \in Grants :
        /\ begun \subseteq {g}
        /\ \A s \in Sessions \ {of[g].session} : session[s] = "live"
        /\ \A p \in Procs : req[p].ends \subseteq {of[g].session}
    /\ \A p \in Procs : (\A t \in Tokens : made[t] # None) =>
          req[p].op \in {"none", "refresh", "replay", "revoke"}

Serial == stale = {} /\ Cardinality({p \in Procs : pc[p] # "idle"}) <= 1

\* One request at a time, about one grant until its tokens expire.
OneGrant == Serial /\ Apart /\ Cardinality(begun) <= 1

\* One request at a time, about two grants of one or two sign-ins.
TwoGrants == Serial /\ now = 0 /\ Cardinality({t \in Tokens : made[t] # None}) <= 2

Within == Overlap \/ OneGrant \/ TwoGrants

=============================================================================

------------------------------ MODULE MCOwners ------------------------------
(* Owners on small instances: people, requests and domains are alike. *)
EXTENDS Owners, TLC

Symmetry == Permutations(Procs) \cup Permutations(Users) \cup Permutations(Domains)

(* The scenes a run looks into, each with bounds of its own. *)

Busy == {p \in Procs : pc[p] # "idle"}

\* One request at a time, about the tenant, its people and its directories.
Directory ==
    /\ Cardinality(Busy) <= 1 /\ ~raced
    /\ \A p \in Busy : req[p].op \notin {"invite", "deleteUser"} /\ req[p].scope = None
    /\ \A u \in Users : account[u] \in {"absent", "active", "inactive"}
    /\ \E u \in Users : account[u] # "absent" /\ \A o \in Orgs : \A v \in Users :
          IF v = u /\ o = home[u] THEN Held(o, v) = {"ORG_OWNER"} ELSE Held(o, v) = {}

\* Two requests at once, about the memberships and the people of both levels.
Members ==
    /\ ~stripped
    /\ \A f \in Feds : fed[f] = "absent" /\ level[f] = None
    /\ \A u \in Users :
        /\ domainOf[u] = None /\ account[u] # "inactive"
        /\ Held(None, u) \subseteq {"IAM_OWNER"}
    /\ \A p \in Busy :
        /\ req[p].op \in {"add", "update", "remove", "create", "invite", "deleteUser"}
        /\ "IAM_ADMIN" \notin req[p].roles
    /\ Cardinality({p \in Busy : req[p].op \in {"add", "create", "invite"}}) <= 1

Within == Directory \/ Members

=============================================================================

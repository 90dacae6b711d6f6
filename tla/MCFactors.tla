------------------------------ MODULE MCFactors ------------------------------
(* Factors on small instances: people, sign-ins, devices are alike. *)
EXTENDS Factors, TLC

Symmetry == Permutations(Procs) \cup Permutations(Users)
              \cup Permutations(Sessions) \cup Permutations(Devices)

(* The scenes a run looks into, each with bounds of its own. *)

Asks(p, ops) == pc[p] = "idle" \/ req[p].op \in ops
CodeOps == {"enrolCode", "activate", "verify", "remove", "replace"}
KeyOps == {"enrolKey", "enrolKeyFinish", "assert", "assertFinish", "removeKey"}

OneSignIn == Cardinality({s \in Sessions : stage[s] # "identified"}) <= 1

\* One person is about, with every sign-in.
Alone ==
    \E u \in Users :
        /\ \A s \in Sessions : person[s] = u
        /\ \A p \in Procs : req[p].u \in {u, None}
        /\ \A v \in Users \ {u} : totp[v] = None /\ ceremony[v] = None /\ guesses[v] = 0
        /\ \A d \in Devices : key[d] # None => key[d].user = u

\* Two requests of one sign-in and the portal, about time codes.
CodesRace ==
    /\ Alone /\ OneSignIn /\ Minted = {}
    /\ \A p \in Procs : Asks(p, CodeOps)

\* The same, about passkeys.
KeysRace ==
    /\ Alone /\ OneSignIn /\ secrets = 0 /\ now = 1
    /\ \A p \in Procs : Asks(p, KeyOps)

\* Two people in the portal with one device.
DeviceRace ==
    /\ \A s \in Sessions : stage[s] = "identified" /\ \A t \in Sessions : person[s] = person[t]
    /\ secrets = 0 /\ now = 1 /\ \A p \in Procs : Asks(p, KeyOps)
    /\ \E d \in Devices :
        /\ \A e \in Devices \ {d} : key[e] = None
        /\ \A p \in Procs : req[p].device \in {d, None}

\* One request at a time, about both kinds of factor, in two sign-ins.
Serial ==
    /\ Alone
    /\ Cardinality({p \in Procs : pc[p] # "idle"}) <= 1
    /\ \A p \in Procs : req[p].op \notin {"remove", "replace", "removeKey"}
    /\ \A s \in Sessions : wrong[s] = 0
    /\ now = 1 /\ secrets <= 1 /\ issued <= 1 /\ Cardinality(Minted) <= 1
    /\ Cardinality({d \in Devices : key[d] # None}) <= 1

Within == CodesRace \/ KeysRace \/ DeviceRace \/ Serial

=============================================================================

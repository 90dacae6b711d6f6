------------------------------ MODULE MCQrLogin ------------------------------
(* QrLogin on a small instance: liveness is checked, so no symmetry is used. *)
EXTENDS QrLogin

\* One transaction is used, while the others are there to be mixed up with it.
Used(t) == push[t] # None \/ session[t].person # None \/ browser[t] \notin {"idle", "waiting"}

OneUsed == Cardinality({t \in Txns : Used(t)}) <= 1

=============================================================================

---------------------------- MODULE MCFederation ----------------------------
(* Federation on small instances.                                           *)
EXTENDS Federation, TLC

CONSTANTS a, b, m, d

Symmetry == Permutations(Procs) \cup Permutations(Entries)

Domain == [form \in Forms |-> IF form = m THEN d ELSE None]
Plain(name) == [name |-> name, email |-> None]
Mailed(name) == [name |-> name, email |-> m]
EachShape == {Plain(a), Plain(b), Mailed(a)}
EachBody == {Plain(a), Mailed(b)}

(* The scenes a run looks into, each with bounds of its own. *)

Busy == {p \in Procs : pc[p] # "idle"}
Entered(f) == {e \in Entries : directory[f][e] # None}

Unclaimed == claim = [x \in Domains |-> None]
Alone == Cardinality(Busy) <= 1 /\ twin = {}

NoEmails ==
    /\ \A f \in Feds : \A e \in Entered(f) : directory[f][e].email = None
    /\ \A u \in Rows : person[u].email = None

\* One request at a time, in a directory that hands its names on.
Renaming ==
    /\ Alone /\ stale = {} /\ Unclaimed /\ NoEmails
    /\ \A f \in Feds : fed[f] = None \/ (fed[f] = "active" /\ f \in Peopled)
    /\ \A u \in Rows : person[u].state # "inactive"
    /\ \A p \in Busy : pc[p] # "unlink"

\* One request at a time, while people and links are removed, and two
\* federations are switched and claim a domain.
Offboarding ==
    /\ Alone
    /\ \A f \in Feds :
        /\ f \notin Peopled => fed[f] = None \/ (fed[f] = "active" /\ Cardinality(Rows) <= 1)
        /\ Cardinality(Entered(f)) <= 1
        /\ \A e \in Entered(f) : directory[f][e] = Mailed(a)
    /\ \A l \in links : person[l.user].email # None

\* Two requests at once, in a directory that hands its names on.
Overlap ==
    /\ Unclaimed /\ NoEmails
    /\ \A f \in Feds : (fed[f] = None /\ Entered(f) = {}) \/ (fed[f] = "active" /\ f \in Peopled)
    /\ \A u \in Rows : person[u].state = "active" /\ ~person[u].password

Within == Renaming \/ Offboarding \/ Overlap

=============================================================================

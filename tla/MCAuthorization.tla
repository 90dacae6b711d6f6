--------------------------- MODULE MCAuthorization ---------------------------
(* Authorization on small instances.                                        *)
EXTENDS Authorization, TLC

Symmetry == Permutations(Procs) \cup Permutations(Requests) \cup Permutations(Users)
              \cup Permutations(Clients \ FirstParty) \cup Permutations(Scopes)

\* Each prompt on its own, and a max_age without a prompt.
EachPrompt == {[prompt |-> k, aged |-> FALSE] : k \in {"", "login", "consent", "none"}}
                \cup {[prompt |-> "", aged |-> TRUE]}

(* The scenes a run looks into, each with bounds of its own. *)

Busy == {p \in Procs : pc[p] # "idle"}
Begun == {r \in Requests : authn[r] # None}
ScopesStay == (\A s \in Scopes : retired[s] = None) /\ (provider # None => provider.scopes = Scopes)

\* One person, two requests of one client, and two finalize calls at once.
Overlap ==
    /\ now = 0 /\ ScopesStay /\ clients = Clients
    /\ \E u \in Users, c \in Clients \ FirstParty :
        /\ Begun # {} => auth[u] # None
        /\ \A v \in Users \ {u} : auth[v] = None
        /\ \A w \in Pairs \ {<<u, c>>} : consent[w] = None
        /\ \A p \in Busy : req[p].user = u /\ (Cardinality(Busy) + Cardinality(Begun) > 3
                                                => req[p].answer = "yes")
        /\ \A r \in Begun :
            /\ authn[r].client = c /\ authn[r].how = [prompt |-> "", aged |-> FALSE]
            /\ Cardinality(authn[r].scopes) = 1
            /\ authn[r].subject \in {u, None} /\ verdict[r] \in {u, "error", None}

\* Two people, one after the other, and a request with any prompt, one finalize
\* at a time.
OneByOne ==
    /\ Cardinality(Busy) <= 1 /\ raced = {} /\ now <= 1 /\ ScopesStay
    /\ \E u \in Users : \A v \in Users \ {u} : auth[v] = None
    /\ Cardinality(Begun) <= 1
    /\ \A r \in Begun : Cardinality(authn[r].scopes) = 1 /\ (authn[r].how.aged \/ now = 0)
    /\ \/ clients = Clients
       \/ now = 0 /\ \A r \in Begun : authn[r].how.prompt = ""

\* Scopes that are switched off and on under a provider that is cached.
Switching ==
    /\ Busy = {} /\ clients = Clients
    /\ \A u \in Users : auth[u] = None
    /\ \A r \in Begun : ended[r] = "open" /\ authn[r].how.prompt = ""
    /\ \A w \in Pairs : consent[w] = None

Within == Overlap \/ OneByOne \/ Switching

=============================================================================

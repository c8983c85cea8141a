-------------------------- MODULE MCMcpClientPool --------------------------
(* Small instances of McpClientPool for TLC. *)
EXTENDS McpClientPool, TLC

\* Servers, sessions, clients and calls are interchangeable.
Interchangeable == Permutations(Server) \cup Permutations(Session)
                     \cup Permutations(ClientId) \cup Permutations(Call)

\* The servers something is known of.
Touched == boot \cup tools \cup UNION {About(p) : p \in Proc} \cup {l[2] : l \in open}
             \cup {s \in Server : client[s] # None \/ status[s] # None}

\* Bound: a third call is made while only one server is known and nothing has
\* failed.
Fits == \/ Cardinality({c \in Call : pc[c] # "idle"}) <= 2
        \/ Cardinality(Touched) <= 1 /\ faults = 0
=============================================================================

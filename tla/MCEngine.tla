------------------------------- MODULE MCEngine -------------------------------
(* TLC instances of Engine: what may happen, and how often, in each run. *)
EXTENDS EngineProperties, TLC

Bounds(S) == S @@ [e \in Events |-> 0]

\* Peers that are started alike can be told apart only by what they do.
Symmetry ==
    {f \in Permutations(Peers) :
        \A p \in Peers : /\ p \in RelayUsers <=> f[p] \in RelayUsers
                         /\ p \in FixedPorts <=> f[p] \in FixedPorts}

\* Crossing and repeated requests, a message, a name given to a peer, and two
\* restarts anywhere, over a network that repeats datagrams.
ContactBudgets ==
    {Bounds([request |-> 2, message |-> 1, nickname |-> 1, restart |-> 2, duplicate |-> 1])}

\* What can fail: a restart beside a loss and a repetition, or beside a loss and a
\* write to the store file that fails unnoticed; contacts added out of band beside
\* requests and restarts, or beside failed writes; hole punching, with wrong
\* lookups, beside late advertisements and a restart, or beside relayed traffic;
\* and a route that is forgotten, and announced again, while a contact is made.
FailureBudgets ==
    {Bounds([request |-> 1, message |-> 1, restart |-> 1, loss |-> 1, duplicate |-> 1]),
     Bounds([request |-> 1, message |-> 1, restart |-> 1, loss |-> 1, save_failure |-> 1]),
     Bounds([add_peer |-> 1, request |-> 1, restart |-> 1]),
     Bounds([add_peer |-> 2, message |-> 1, restart |-> 1, duplicate |-> 1,
             save_failure |-> 1]),
     Bounds([connect |-> 1, advertise |-> 1, restart |-> 1]),
     Bounds([connect |-> 1, request |-> 1]),
     Bounds([announce |-> 1, request |-> 1, message |-> 1, route_expiry |-> 1])}

\* Every datagram arrives and nobody restarts: the contact flow, or hole punching.
SteadyBudgets ==
    {Bounds([request |-> 3, message |-> 1, duplicate |-> 1]),
     Bounds([connect |-> 2, advertise |-> 1])}

CrossingBudgets == {Bounds([request |-> 2])}
=============================================================================

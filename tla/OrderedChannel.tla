---------------------------- MODULE OrderedChannel ----------------------------
(***************************************************************************)
(* What a pair of sessions promises the application: for every ordered     *)
(* pair of peers an ordered channel that may lose items but neither        *)
(* invents, alters, repeats nor reorders them.                             *)
(***************************************************************************)
EXTENDS Naturals, Sequences

CONSTANTS Peers, Items

VARIABLES
    sent,       \* sent[p][q]: everything p has given the channel for q
    received,   \* received[p][q]: everything the channel has given q from p
    next        \* next[p][q]: the first position of sent[p][q] still deliverable

vars == <<sent, received, next>>

Init ==
    /\ sent = [p \in Peers |-> [q \in Peers |-> <<>>]]
    /\ received = [p \in Peers |-> [q \in Peers |-> <<>>]]
    /\ next = [p \in Peers |-> [q \in Peers |-> 1]]

Send(p, q, item) ==
    /\ sent' = [sent EXCEPT ![p][q] = Append(@, item)]
    /\ UNCHANGED <<received, next>>

\* Delivery of position i; the positions it skips are lost for good.
Deliver(p, q, i) ==
    /\ i >= next[p][q]
    /\ received' = [received EXCEPT ![p][q] = Append(@, sent[p][q][i])]
    /\ next' = [next EXCEPT ![p][q] = i + 1]
    /\ UNCHANGED sent

Next ==
    \E p, q \in Peers :
        \/ \E item \in Items : Send(p, q, item)
        \/ \E i \in DOMAIN sent[p][q] : Deliver(p, q, i)

Spec == Init /\ [][Next]_vars
=============================================================================

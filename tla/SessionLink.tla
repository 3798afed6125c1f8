----------------------------- MODULE SessionLink -----------------------------
(***************************************************************************)
(* Session objects at work: every peer holds one session with every other  *)
(* peer and their packets cross a datagram network that may lose, repeat,  *)
(* delay, reorder and damage them.  `net` is the set of packets the network *)
(* has ever held: a packet may be delivered any number of times, at any     *)
(* time, or never, so losing one needs no action.                           *)
(*                                                                         *)
(* `sent`, `received` and `accepted` are history variables: what the       *)
(* callers of encrypt_as handed over, what decrypt returned, and the        *)
(* counters of the packets decrypt accepted.                                *)
(***************************************************************************)
EXTENDS Session, Sequences

CONSTANTS
    Peers,
    Types,        \* packet types carried encrypted
    Texts,        \* plaintexts
    MaxCounter,   \* bound: packets a session may encrypt (2^64 in the code)
    MaxDamaged    \* bound: packets the network damages

ASSUME BoundsAssumption == MaxCounter \in Nat /\ MaxDamaged \in Nat

VARIABLES session, net, sent, received, accepted, damaged

vars == <<session, net, sent, received, accepted, damaged>>

Items == [type : Types, text : Texts]

Envelopes == [type : Types, encrypted : BOOLEAN, counter : Nat,
              source : Peers, destination : Peers]

\* What a payload can be: sealed under a shared key, or noise (the empty key,
\* which no session holds).
Payloads == [key : SUBSET Peers, text : Texts, aad : Envelopes]

Packets == [type : Types, encrypted : BOOLEAN, counter : Nat,
            source : Peers, destination : Peers, payload : Payloads]

PerPair(S) == [Peers -> [Peers -> S]]

TypeOK ==
    /\ session \in PerPair(SessionState)
    /\ net \subseteq Packets
    /\ sent \in PerPair(Seq(Items))
    /\ received \in PerPair(Seq(Items))
    /\ accepted \in PerPair(Seq(Nat))
    /\ damaged \in Nat

Init ==
    /\ session = [p \in Peers |-> [q \in Peers |-> FreshSession]]
    /\ net = {}
    /\ sent = [p \in Peers |-> [q \in Peers |-> <<>>]]
    /\ received = [p \in Peers |-> [q \in Peers |-> <<>>]]
    /\ accepted = [p \in Peers |-> [q \in Peers |-> <<>>]]
    /\ damaged = 0

\* p encrypts an item for q and hands the packet to the network.
Encrypt(p, q, item) ==
    /\ p # q
    /\ session[p][q].send < MaxCounter
    /\ net' = net \cup {encrypt_as(p, q, session[p][q], item.type, item.text)}
    /\ session' = [session EXCEPT ![p][q] = AfterEncrypt(@)]
    /\ sent' = [sent EXCEPT ![p][q] = Append(@, item)]
    /\ UNCHANGED <<received, accepted, damaged>>

\* p's session with q is given a packet and accepts it.  A packet it refuses
\* changes nothing.
Decrypt(p, q, pkt) ==
    /\ p # q
    /\ CanDecrypt(p, q, session[p][q], pkt)
    /\ session' = [session EXCEPT ![p][q] = AfterDecrypt(@, pkt)]
    /\ received' = [received EXCEPT ![q][p] =
                       Append(@, [type |-> pkt.type, text |-> pkt.payload.text])]
    /\ accepted' = [accepted EXCEPT ![q][p] = Append(@, pkt.counter)]
    /\ UNCHANGED <<net, sent, damaged>>

\* The copies of a packet that differ from it in one envelope field or whose
\* ciphertext is spoilt.
DamagedCopies(pkt) ==
       {[pkt EXCEPT !.type = t] : t \in Types}
  \cup {[pkt EXCEPT !.encrypted = FALSE]}
  \cup {[pkt EXCEPT !.counter = c] : c \in 0 .. MaxCounter}
  \cup {[pkt EXCEPT !.source = r] : r \in Peers}
  \cup {[pkt EXCEPT !.destination = r] : r \in Peers}
  \cup {[pkt EXCEPT !.payload.key = {}]}

Damage(pkt) ==
    /\ damaged < MaxDamaged
    /\ \E bad \in DamagedCopies(pkt) : net' = net \cup {bad}
    /\ damaged' = damaged + 1
    /\ UNCHANGED <<session, sent, received, accepted>>

Next ==
    \/ \E p, q \in Peers, item \in Items : Encrypt(p, q, item)
    \/ \E p, q \in Peers, pkt \in net : Decrypt(p, q, pkt)
    \/ \E pkt \in net : Damage(pkt)

Spec == Init /\ [][Next]_vars

-----------------------------------------------------------------------------
(* Properties *)

\* Within the life of a session the counters of the packets Session::decrypt
\* accepts strictly increase, however the network repeats and reorders: no
\* packet is accepted twice and none after a later one (wire-format.md, 7).
StrictlyIncreasing ==
    \A p, q \in Peers :
        \A i, j \in 1 .. Len(accepted[p][q]) :
            i < j => accepted[p][q][i] < accepted[p][q][j]

\* Everything Session::decrypt returns is what the peer passed to encrypt_as
\* under that very counter and type, although envelopes are damaged on the way:
\* the envelope is authenticated as associated data.
Authentic ==
    \A p, q \in Peers :
        /\ Len(received[p][q]) = Len(accepted[p][q])
        /\ \A i \in 1 .. Len(accepted[p][q]) :
              /\ accepted[p][q][i] < Len(sent[p][q])
              /\ received[p][q][i] = sent[p][q][accepted[p][q][i] + 1]

\* The first position of q's items for p that p's session would still accept.
NextPosition ==
    [q \in Peers |-> [p \in Peers |->
        IF session[p][q].have THEN session[p][q].last + 2 ELSE 1]]

Channel == INSTANCE OrderedChannel WITH next <- NextPosition

\* A pair of sessions over this network implements the lossy ordered channel.
ImplementsChannel == Channel!Spec

-----------------------------------------------------------------------------
(* Strengthening that makes the invariants inductive *)

\* A sealed payload in the network was made by its envelope's source for its
\* destination, from the item at the position its counter names.
SealedWasSent ==
    \A pkt \in net :
        LET e == pkt.payload.aad
        IN  pkt.payload.key # {} =>
                /\ e.encrypted
                /\ pkt.payload.key = SharedKey(e.source, e.destination)
                /\ e.counter < Len(sent[e.source][e.destination])
                /\ sent[e.source][e.destination][e.counter + 1]
                       = [type |-> e.type, text |-> pkt.payload.text]

\* The send counter is the number of items sent; have_received_ and
\* last_received_ summarise the accepted counters.
CountersTrackHistory ==
    \A p, q \in Peers :
        /\ session[p][q].send = Len(sent[p][q])
        /\ session[p][q].have <=> accepted[q][p] # <<>>
        /\ \A i \in 1 .. Len(accepted[q][p]) : accepted[q][p][i] <= session[p][q].last

IInv ==
    /\ TypeOK
    /\ SealedWasSent
    /\ CountersTrackHistory
    /\ StrictlyIncreasing
    /\ Authentic
=============================================================================

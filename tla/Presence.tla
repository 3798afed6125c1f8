------------------------------ MODULE Presence ------------------------------
(***************************************************************************)
(* How a running client stays known to the two servers.  The client's loop *)
(* (cli/src/main.cpp, run; cli/src/tui.cpp, net_loop) renews its entry in   *)
(* the signaling server's registry with a HEARTBEAT and its route in the    *)
(* relay's table with an announcement; both servers forget what was not     *)
(* renewed for a time to live.                                              *)
(*                                                                         *)
(* Time is kept as ages: how long ago something happened.  The client reads *)
(* its clock once a round and checks both timers with that reading; `Delay` *)
(* counts from it, so it includes the wait behind a heartbeat that blocks.  *)
(* A server reads its clock, waits up to a window, handles what came and    *)
(* expires, with the reading it took before the wait.                       *)
(***************************************************************************)
EXTENDS Naturals

Services == {"signaling", "relay"}

CONSTANTS
    Period,     \* per service: a renewal is due when its timer is past this
    Ttl,        \* peer_ttl_seconds, route_ttl_seconds
    Round,      \* the longest round of the client's loop
    Delay,      \* the longest time from the reading of the clock to arrival
    Window,     \* the longest wait of a server's receive()
    MaxLosses   \* per service: most renewals lost in a row

\* Longest time between two renewals, and until one gets through.
Interval(s) == Period[s] + Round
Silence(s) == (MaxLosses[s] + 1) * Interval(s) + Delay

\* The last conjunct is what the numbers in the code must satisfy: 30 against
\* 120 seconds leave room for two lost heartbeats, 20 against 60 for one lost
\* announcement.
ASSUME PresenceAssumption ==
    /\ Period \in [Services -> Nat] /\ Ttl \in [Services -> Nat]
    /\ MaxLosses \in [Services -> Nat]
    /\ Round \in Nat /\ Delay \in Nat /\ Window \in Nat
    /\ \A s \in Services : Delay <= Period[s] /\ Silence(s) + Window <= Ttl[s]

VARIABLES
    round,      \* age of the client's last look at its timers
    since,      \* age of last_heartbeat and last_announce
    flying,     \* the renewal sent then is still on its way
    lost,       \* renewals lost since the last one that arrived
    lag,        \* age of the server's reading of its clock
    listed,     \* the server has an entry for the client
    age         \* age of the entry's last_seen; without entry, of its loss

client == <<round, since>>
server == <<lag, listed, age>>
vars == <<client, flying, lost, server>>

\* run: the client has registered and announced itself.
Init ==
    /\ round = 0
    /\ since = [s \in Services |-> 0]
    /\ flying = [s \in Services |-> FALSE]
    /\ lost = [s \in Services |-> 0]
    /\ lag = [s \in Services |-> 0]
    /\ listed = [s \in Services |-> TRUE]
    /\ age = [s \in Services |-> 0]

-----------------------------------------------------------------------------
(* The client's loop *)

\* Fault: a renewal is due when the server's time to live is over.
DueAtTtl(s) == since[s] > Ttl[s]

Due(s) == since[s] > Period[s]

\* The end of a round: what is due is sent, and its timer set to the reading.
\* What heartbeat() returns is not looked at.
Timers ==
    /\ round' = 0
    /\ since' = [s \in Services |-> IF Due(s) THEN 0 ELSE since[s]]
    /\ flying' = [s \in Services |-> flying[s] \/ Due(s)]
    /\ UNCHANGED <<lost, server>>

-----------------------------------------------------------------------------
(* The servers' loops *)

\* Fault: the relay only refreshes routes it has.
RefreshOnly(s) == listed[s]

\* RouteTable::upsert makes an entry; a HEARTBEAT only refreshes one.
Recorded(s) == listed[s] \/ s = "relay"

\* expire: the entry is older than the time to live, by the reading.
Expired(s) == age[s] > lag[s] + Ttl[s]

\* A round that handles a renewal: its entry's last_seen is the reading.
Deliver(s) ==
    /\ flying[s]
    /\ flying' = [flying EXCEPT ![s] = FALSE]
    /\ lost' = [lost EXCEPT ![s] = 0]
    /\ lag' = [lag EXCEPT ![s] = 0]
    /\ listed' = [listed EXCEPT ![s] = Recorded(s)]
    /\ age' = [age EXCEPT ![s] = IF Recorded(s) THEN lag[s] ELSE @]
    /\ UNCHANGED client

\* A round in which receive() times out, or handles somebody else's packet.
Idle(s) ==
    /\ lag' = [lag EXCEPT ![s] = 0]
    /\ listed' = [listed EXCEPT ![s] = @ /\ ~Expired(s)]
    /\ age' = [age EXCEPT ![s] = IF listed[s] /\ Expired(s) THEN 0 ELSE @]
    /\ UNCHANGED <<client, flying, lost>>

\* Registry and routes are in memory only.
ServerRestart(s) ==
    /\ lag' = [lag EXCEPT ![s] = 0]
    /\ listed' = [listed EXCEPT ![s] = FALSE]
    /\ age' = [age EXCEPT ![s] = 0]
    /\ UNCHANGED <<client, flying, lost>>

-----------------------------------------------------------------------------
Lose(s) ==
    /\ flying[s]
    /\ lost[s] < MaxLosses[s]
    /\ flying' = [flying EXCEPT ![s] = FALSE]
    /\ lost' = [lost EXCEPT ![s] = @ + 1]
    /\ UNCHANGED <<client, server>>

\* A registry entry that was lost does not come back: its age is not followed.
Followed(s) == listed[s] \/ s = "relay"
Older(s) == IF Followed(s) THEN age[s] + 1 ELSE age[s]

\* Time passes: rounds, waits and flights end in time.
Tick ==
    /\ round < Round
    /\ \A s \in Services : lag[s] < Window /\ (flying[s] => since[s] < Delay)
    /\ round' = round + 1
    /\ since' = [s \in Services |-> since[s] + 1]
    /\ lag' = [s \in Services |-> lag[s] + 1]
    /\ age' = [s \in Services |-> Older(s)]
    /\ UNCHANGED <<flying, lost, listed>>

Next ==
    \/ Timers
    \/ \E s \in Services : Deliver(s) \/ Idle(s) \/ ServerRestart(s) \/ Lose(s)
    \/ Tick

Spec == Init /\ [][Next]_vars

-----------------------------------------------------------------------------
(* Properties *)

\* A server that does not restart never forgets a client whose loop runs, as
\* long as no more than MaxLosses renewals in a row are lost: whenever its round
\* ends, the entry is within its time to live (the timers of run and net_loop
\* against the expiry of PeerRegistry and RouteTable).
NeverExpires == \A s \in Services : listed[s] => ~Expired(s)

\* After a restart of the relay the route is back in the time it takes an
\* announcement to get through; nothing of the kind holds for the registry,
\* which takes no HEARTBEAT of a peer it does not know.
RouteComesBack == ~listed["relay"] => age["relay"] <= Silence("relay")

TypeOK ==
    /\ round \in Nat
    /\ since \in [Services -> Nat]
    /\ flying \in [Services -> BOOLEAN]
    /\ lost \in [Services -> Nat]
    /\ lag \in [Services -> Nat]
    /\ listed \in [Services -> BOOLEAN]
    /\ age \in [Services -> Nat]

\* Timers are looked at in time, and flights end in time.
InTime ==
    /\ round <= Round
    /\ \A s \in Services :
          /\ since[s] <= Period[s] + round
          /\ flying[s] => since[s] <= Delay
          /\ lag[s] <= Window
          /\ lost[s] <= MaxLosses[s]

\* The renewals that cover the time since the entry's last_seen.
Renewals(s) == IF flying[s] THEN lost[s] + 1 ELSE lost[s]

\* An entry, or its absence, is as old as the renewals lost since then allow.
AgeIsCovered ==
    \A s \in Services : Followed(s) =>
        age[s] <= Renewals(s) * Interval(s) + since[s] + (IF listed[s] THEN Window ELSE 0)

\* Inductive; the two properties follow.
IInv == TypeOK /\ InTime /\ AgeIsCovered
=============================================================================

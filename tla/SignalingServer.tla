--------------------------- MODULE SignalingServer ---------------------------
(***************************************************************************)
(* The signaling server (servers/signaling/src/server.cpp, registry.cpp):  *)
(* registration by challenge and signature, discovery, CONNECT forwarding, *)
(* heartbeats, teardown and expiry, driven by the loop of run().           *)
(*                                                                         *)
(* The loop samples the clock, waits up to a poll window for one datagram, *)
(* handles it with the sampled time and expires with the sampled time.     *)
(* `clock` is the true time, `now` the sample.                             *)
(*                                                                         *)
(* Any packet a peer may have sent can arrive at any time, from any address *)
(* the peer has been seen at, any number of times: the network delays,      *)
(* repeats and reorders.  A signature is the challenge it was made for;     *)
(* NoChallenge signs something that was no challenge of this server's.      *)
(***************************************************************************)
EXTENDS Naturals, Sequences

CONSTANTS
    Peers,
    Addresses,      \* addresses a peer may be observed at
    PeerTtl,        \* peer_ttl_seconds
    ChallengeTtl,   \* challenge_ttl_seconds
    PollWindow,     \* longest wait of receive() in run(), in clock units
    MaxClock,       \* bound: the time the model runs for
    MaxChallenges,  \* bound: challenges issued
    MaxRestarts     \* bound: restarts of the server

ASSUME SignalingAssumption ==
    /\ PeerTtl \in Nat /\ ChallengeTtl \in Nat /\ PollWindow \in Nat
    /\ MaxClock \in Nat /\ MaxChallenges \in Nat /\ MaxRestarts \in Nat

VARIABLES
    registry,   \* peers_: endpoint and last-seen time of a registered peer
    pending,    \* pending_: challenge, endpoint and expiry of a handshake
    now,        \* the loop's sample of the clock
    polling,    \* the loop is waiting in receive()
    clock,      \* true time
    out,        \* what the last step sent: a sequence of at most one datagram
    issued,     \* history: challenges issued, in order
    proofs,     \* history: registrations completed, in order
    heard,      \* history: true time of a peer's last accepted sign of life
    restarts

vars == <<registry, pending, now, polling, clock, out, issued, proofs, heard, restarts>>

Unregistered == [online |-> FALSE]
Entry(addr, t) == [online |-> TRUE, endpoint |-> addr, last_seen |-> t]
Online(p) == registry[p].online

NoPending == [active |-> FALSE]
Challenged(c, addr, expiry) ==
    [active |-> TRUE, challenge |-> c, endpoint |-> addr, expiry |-> expiry]

Empty == {}
NoChallenge == 0

Reply(to, type, body) == <<[to |-> to, type |-> type, body |-> body]>>

Init ==
    /\ registry = [p \in Peers |-> Unregistered]
    /\ pending = [p \in Peers |-> NoPending]
    /\ now = 0
    /\ polling = FALSE
    /\ clock = 0
    /\ out = <<>>
    /\ issued = <<>>
    /\ proofs = <<>>
    /\ heard = [p \in Peers |-> 0]
    /\ restarts = 0

-----------------------------------------------------------------------------
(* expire, the last thing of every round: what `upsert`, `remove` and the    *)
(* handlers left, minus what is out of date.                                 *)

\* Fault: a peer outlives its time to live.
ExpireLate(reg, t) ==
    [p \in Peers |-> IF reg[p].online /\ reg[p].last_seen + PeerTtl + ChallengeTtl + 1 < t
                     THEN Unregistered ELSE reg[p]]

\* PeerRegistry::expire with cutoff t - peer_ttl.
ExpirePeers(reg, t) ==
    [p \in Peers |-> IF reg[p].online /\ reg[p].last_seen + PeerTtl < t
                     THEN Unregistered ELSE reg[p]]

ExpireChallenges(pend, t) ==
    [p \in Peers |-> IF pend[p].active /\ pend[p].expiry < t THEN NoPending ELSE pend[p]]

\* The end of run_once: tables as the handler left them, expired.
Finish(reg, pend) ==
    /\ registry' = ExpirePeers(reg, now)
    /\ pending' = ExpireChallenges(pend, now)
    /\ polling' = FALSE
    /\ UNCHANGED <<now, clock, restarts>>

-----------------------------------------------------------------------------
(* Handlers: one packet from address `from`, at sampled time `now`. *)

\* REGISTER without payload: a fresh challenge replaces the pending one.
HandleRegister(p, from) ==
    /\ polling
    /\ Len(issued) < MaxChallenges
    /\ LET c == Len(issued) + 1 IN
       /\ issued' = Append(issued, [peer |-> p, endpoint |-> from, at |-> clock])
       /\ out' = Reply(from, "Hello", c)
       /\ Finish(registry, [pending EXCEPT ![p] = Challenged(c, from, now + ChallengeTtl)])
    /\ UNCHANGED <<proofs, heard>>

\* Fault: the address that answers is not compared with the challenged one.
AnswerableAnywhere(p, from) == pending[p].active /\ pending[p].expiry >= now

\* A signed REGISTER is looked at: there is a live challenge for this endpoint.
Answerable(p, from) ==
    /\ pending[p].active
    /\ pending[p].expiry >= now
    /\ pending[p].endpoint = from

\* Fault: the challenge stays pending after it was used.
KeepChallenge(p) == pending

\* pending_.erase, after a good and after a bad signature.
SpendChallenge(p) == [pending EXCEPT ![p] = NoPending]

\* crypto::verify_detached: the signature is over the pending challenge.
verify_detached(p, c) == pending[p].challenge = c

HandleSigned(p, from, c) ==
    /\ polling
    /\ \/ /\ ~Answerable(p, from)
          /\ out' = <<>>
          /\ Finish(registry, pending)
          /\ UNCHANGED <<proofs, heard>>
       \/ /\ Answerable(p, from)
          /\ ~verify_detached(p, c)
          /\ out' = <<>>
          /\ Finish(registry, SpendChallenge(p))
          /\ UNCHANGED <<proofs, heard>>
       \/ /\ Answerable(p, from)
          /\ verify_detached(p, c)
          /\ out' = Reply(from, "Ack", from)
          /\ Finish([registry EXCEPT ![p] = Entry(from, now)], SpendChallenge(p))
          /\ proofs' = Append(proofs, [peer |-> p, challenge |-> c, endpoint |-> from, at |-> clock])
          /\ heard' = [heard EXCEPT ![p] = clock]
    /\ UNCHANGED issued

\* DISCOVER q: the reply names q and carries its endpoint, or nothing.
HandleDiscover(q, from) ==
    /\ polling
    /\ out' = Reply(from, "Connect",
                    [source |-> q,
                     endpoint |-> IF Online(q) THEN {registry[q].endpoint} ELSE Empty])
    /\ Finish(registry, pending)
    /\ UNCHANGED <<issued, proofs, heard>>

\* CONNECT from p to q is passed on to where q is registered.
HandleConnect(p, q, addr) ==
    /\ polling
    /\ out' = IF Online(q)
              THEN Reply(registry[q].endpoint, "Connect", [source |-> p, endpoint |-> {addr}])
              ELSE <<>>
    /\ Finish(registry, pending)
    /\ UNCHANGED <<issued, proofs, heard>>

\* Fault: a heartbeat brings an unknown peer into the registry.
HeartbeatEntryAlways(p, from) == Entry(from, now)

\* A registered peer's entry after its heartbeat.
HeartbeatEntry(p, from) == IF Online(p) THEN Entry(from, now) ELSE registry[p]

\* HEARTBEAT: the entry follows the address it came from; it is echoed to
\* anybody.
HandleHeartbeat(p, from) ==
    /\ polling
    /\ out' = Reply(from, "Heartbeat", Empty)
    /\ heard' = [heard EXCEPT ![p] = IF Online(p) THEN clock ELSE @]
    /\ Finish([registry EXCEPT ![p] = HeartbeatEntry(p, from)], pending)
    /\ UNCHANGED <<issued, proofs>>

HandleDisconnect(p) ==
    /\ polling
    /\ out' = <<>>
    /\ Finish([registry EXCEPT ![p] = Unregistered], pending)
    /\ UNCHANGED <<issued, proofs, heard>>

\* receive() times out, or brings something that is no packet for the server.
Idle ==
    /\ polling
    /\ out' = <<>>
    /\ Finish(registry, pending)
    /\ UNCHANGED <<issued, proofs, heard>>

-----------------------------------------------------------------------------
\* run(): the clock is read once per round, before receive().
Sample ==
    /\ ~polling
    /\ now' = clock
    /\ polling' = TRUE
    /\ out' = <<>>
    /\ UNCHANGED <<registry, pending, clock, issued, proofs, heard, restarts>>

\* Time passes while the loop waits, for at most the poll window.
Tick ==
    /\ polling
    /\ clock < MaxClock
    /\ clock < now + PollWindow
    /\ clock' = clock + 1
    /\ out' = <<>>
    /\ UNCHANGED <<registry, pending, now, polling, issued, proofs, heard, restarts>>

\* Both tables are in memory only.
ServerRestart ==
    /\ restarts < MaxRestarts
    /\ restarts' = restarts + 1
    /\ registry' = [p \in Peers |-> Unregistered]
    /\ pending' = [p \in Peers |-> NoPending]
    /\ polling' = FALSE
    /\ out' = <<>>
    /\ UNCHANGED <<now, clock, issued, proofs, heard>>

\* What p can have signed: a challenge it was sent, or something else.
Signable(p) == {NoChallenge} \cup {c \in DOMAIN issued : issued[c].peer = p}

Next ==
    \/ \E p \in Peers, from \in Addresses :
          \/ HandleRegister(p, from)
          \/ \E c \in Signable(p) : HandleSigned(p, from, c)
          \/ HandleDiscover(p, from)
          \/ \E q \in Peers : HandleConnect(p, q, from)
          \/ HandleHeartbeat(p, from)
    \/ \E p \in Peers : HandleDisconnect(p)
    \/ Idle
    \/ Sample
    \/ Tick
    \/ ServerRestart

Spec == Init /\ [][Next]_vars

-----------------------------------------------------------------------------
(* Properties *)

RegistryEntries == {Unregistered} \cup
    [online : {TRUE}, endpoint : Addresses, last_seen : Nat]
PendingEntries == {NoPending} \cup
    [active : {TRUE}, challenge : Nat, endpoint : Addresses, expiry : Nat]

TypeOK ==
    /\ registry \in [Peers -> RegistryEntries]
    /\ pending \in [Peers -> PendingEntries]
    /\ now \in Nat /\ clock \in Nat /\ restarts \in Nat
    /\ polling \in BOOLEAN
    /\ issued \in Seq([peer : Peers, endpoint : Addresses, at : Nat])
    /\ proofs \in Seq([peer : Peers, challenge : Nat, endpoint : Addresses, at : Nat])
    /\ heard \in [Peers -> Nat]

\* A peer that DISCOVER reports was heard of within the time to live plus two
\* poll windows: one because the clock is read before receive(), one because
\* a round answers before it expires (run, run_once, expire).
EntryIsFresh ==
    \A p \in Peers : Online(p) => clock <= heard[p] + PeerTtl + 2 * PollWindow

\* Every completed registration answers a challenge issued to that peer at that
\* very address no longer than the challenge's lifetime and a poll window ago,
\* whatever was delayed or repeated (handle_register).
ProofIsSound ==
    \A i \in DOMAIN proofs :
        LET r == proofs[i] IN
        /\ r.challenge \in DOMAIN issued
        /\ issued[r.challenge].peer = r.peer
        /\ issued[r.challenge].endpoint = r.endpoint
        /\ r.at <= issued[r.challenge].at + ChallengeTtl + PollWindow

\* No challenge registers anybody twice: it is erased when it is used.
ChallengeUsedOnce ==
    \A i, j \in DOMAIN proofs : proofs[i].challenge = proofs[j].challenge => i = j

\* Only peers that completed the handshake are ever in the registry.
OnlineIsProven ==
    \A p \in Peers : Online(p) => \E i \in DOMAIN proofs : proofs[i].peer = p

-----------------------------------------------------------------------------
(* Strengthening that makes the invariants inductive *)

\* The sample is never ahead of the clock, nor more than a poll window behind.
SampleIsRecent == now <= clock /\ clock <= now + PollWindow

\* Entries survived the last expiry: before the next sample they are within
\* their time to live, after it within one more poll window.
EntriesSurvived ==
    \A p \in Peers : Online(p) =>
        /\ registry[p].last_seen <= heard[p]
        /\ now <= registry[p].last_seen + PeerTtl + (IF polling THEN PollWindow ELSE 0)

\* A pending challenge was issued to that peer at that address, expires in time
\* and has registered nobody yet.
PendingIsUnused ==
    \A p \in Peers : pending[p].active =>
        LET c == pending[p].challenge IN
        /\ c \in DOMAIN issued
        /\ issued[c].peer = p
        /\ issued[c].endpoint = pending[p].endpoint
        /\ pending[p].expiry <= issued[c].at + ChallengeTtl
        /\ \A i \in DOMAIN proofs : proofs[i].challenge # c

\* The inductive invariant behind the four properties above.
IInv ==
    /\ TypeOK
    /\ SampleIsRecent
    /\ EntriesSurvived
    /\ PendingIsUnused
    /\ ProofIsSound
    /\ ChallengeUsedOnce
    /\ OnlineIsProven
=============================================================================

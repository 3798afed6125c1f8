-------------------------------- MODULE Engine --------------------------------
(***************************************************************************)
(* The messaging engine (libs/messaging/src/engine.cpp) of every peer, its *)
(* encrypted store (libs/storage/src/store.cpp) and the datagrams between  *)
(* engines, through the relay server (servers/relay/src/server.cpp) or not. *)
(*                                                                         *)
(* An engine is driven by one thread: an API call or poll() runs to its end *)
(* before the next.  What a call does to memory is invisible until it ends, *)
(* but its file writes, datagrams and callbacks happen one after the other  *)
(* and the process may die between two of them.  So an action applies the   *)
(* whole call to memory and leaves its outside effects, in order, in        *)
(* `todo`; Effect performs them one at a time; the next call waits until    *)
(* `todo` is empty; Restart drops what is left of it.                       *)
(*                                                                         *)
(* Peers stand for public keys.  A socket address is <<peer, port>>.        *)
(* A contact's nickname, a request's greeting and timestamps are left out:  *)
(* the engine takes no decision from them.  A session that does not exist   *)
(* yet is a fresh one: ensure_session makes it before it is used, and key   *)
(* agreement between well-formed keys does not fail.                        *)
(***************************************************************************)
EXTENDS Session, Sequences, FiniteSets

CONSTANTS
    Peers,
    Texts,        \* message texts, each sent at most once
    RelayUsers,   \* peers started with a relay (set_relay)
    FixedPorts,   \* peers that bind the same port on every start
    MaxProbes,    \* kMaxProbes
    Budgets       \* bounds: how often each event below may happen, one choice each

Events == {"request", "message", "connect", "advertise", "nickname", "add_peer",
           "announce", "restart", "loss", "duplicate", "save_failure", "route_expiry"}

ASSUME EngineAssumption ==
    /\ IsFiniteSet(Peers)
    /\ RelayUsers \subseteq Peers /\ FixedPorts \subseteq Peers
    /\ MaxProbes \in Nat
    /\ Budgets \subseteq [Events -> Nat]

\* Peers stand for public keys, which are not the names used for anything else.
ASSUME PeersAssumption == Peers \cap {"none", "relay", "signaling", "nobody"} = {}

VARIABLES
    store,      \* contacts_ in memory: contacts' trust, requests, messages
    disk,       \* the store file
    torn,       \* peers whose store file cannot be read
    detached,   \* peers running without their file (persistent_ is false)
    incoming,   \* incoming_requests_
    outgoing,   \* outgoing_requests_
    session,    \* sessions_
    endpoint,   \* endpoints_
    probe,      \* probes_
    todo,       \* effects of the running call still to be performed
    starts,     \* number of times the process was restarted
    net,        \* datagrams in flight
    route,      \* routes_ of the relay server
    left,       \* what is left of the bounds
    did,        \* history: contact decisions the users took
    submitted,  \* history: messages accepted by send()
    shown       \* history: callbacks made to the application, in order

memory == <<store, incoming, outgoing, session, endpoint, probe>>
outside == <<disk, torn, detached, starts, route>>   \* what no call touches itself
history == <<did, submitted, shown>>
vars == <<memory, outside, todo, net, left, history>>

-----------------------------------------------------------------------------
(* Addresses and packets *)

NoAddr == <<"none", 0>>
Relay == <<"relay", 0>>
Signaling == <<"signaling", 0>>

PortOf(p, n) == <<p, IF p \in FixedPorts THEN 0 ELSE n>>
Addr(p) == PortOf(p, starts[p])
\* Every address p has had, the current one included: the signaling server's
\* entry for p may be stale.
AddrsOf(p) == {PortOf(p, n) : n \in 0 .. starts[p]}
\* What a lookup, of whichever peer, may give p: discover takes the next CONNECT
\* to arrive for its answer, so the address may be any other peer's.
Found(p) == UNION {AddrsOf(r) : r \in Peers \ {p}}

RelayOf(p) == IF p \in RelayUsers THEN Relay ELSE NoAddr

Hello(p, q) == [type |-> "Hello", source |-> p, destination |-> q]
\* An announcement has no destination; the relay learns its source's address.
Nobody == "nobody"
Connect(p, q, addr) ==
    [type |-> "Connect", source |-> p, destination |-> q, endpoint |-> addr]

Datagram(from, to, pkt) == [from |-> from, to |-> to, pkt |-> pkt]
Announcement(from, p) == Datagram(from, Relay, Hello(p, Nobody))

-----------------------------------------------------------------------------
(* Effects of a call, in the order the code performs them *)

Save(s) == [op |-> "save", store |-> s]
Notify(kind, q, text) ==
    [op |-> "notify", event |-> [kind |-> kind, peer |-> q, text |-> text]]
SendTo(p, to, pkt) == [op |-> "send", datagram |-> Datagram(Addr(p), to, pkt)]
Transmit(p, to, pkt) == IF to = NoAddr THEN <<>> ELSE <<SendTo(p, to, pkt)>>

\* send_packet: the peer's endpoint, else the relay, else nowhere.
Route(p, addr) == IF addr # NoAddr THEN addr ELSE RelayOf(p)
send_packet(p, addr, pkt) == Transmit(p, Route(p, addr), pkt)
send_probe(p, q, to) == Transmit(p, to, Hello(p, q))

-----------------------------------------------------------------------------
(* The store *)

TrustStatus == {"none", "Pending", "Accepted", "Rejected", "Blocked"}

EmptyStore == [trust |-> [q \in Peers |-> "none"], requests |-> {}, messages |-> <<>>]

set_trust(s, q, t) == [s EXCEPT !.trust[q] = t]

\* A contact that did not exist is created with Contact's default trust.
set_nickname(s, q) == IF s.trust[q] = "none" THEN set_trust(s, q, "Pending") ELSE s

add_request(s, q) == [s EXCEPT !.requests = @ \cup {q}]
remove_request(s, q) == [s EXCEPT !.requests = @ \ {q}]
append_message(s, q, text, out) ==
    [s EXCEPT !.messages = Append(@, [peer |-> q, text |-> text, outgoing |-> out])]

-----------------------------------------------------------------------------
(* Hole-punch state; the record with no candidate and no confirmation is an *)
(* entry probes_ does not have.                                             *)

NoProbe == [candidate |-> NoAddr, confirmed |-> FALSE, attempts |-> 0]

\* Fault: an advertised address counts as a confirmed path.
StartProbingConfirmed(pr, addr) ==
    [candidate |-> addr, confirmed |-> TRUE, attempts |-> 1]

start_probing(pr, addr) ==
    IF pr.confirmed THEN pr
    ELSE [candidate |-> addr, confirmed |-> FALSE, attempts |-> 1]

ProbeStarted(p, q, addr) ==
    IF probe[p][q].confirmed THEN <<>> ELSE send_probe(p, q, addr)

\* Fault: a probe is never answered.
NoReply(p, q, from) == <<>>

\* handle_probe answers the probe that confirms the path, and only that one.
ProbeReply(p, q, from) ==
    IF probe[p][q].confirmed THEN <<>> ELSE send_probe(p, q, from)

-----------------------------------------------------------------------------
PerPair(S) == [Peers -> [Peers -> S]]

Init ==
    /\ store = [p \in Peers |-> EmptyStore]
    /\ disk = [p \in Peers |-> EmptyStore]
    /\ torn = {}
    /\ detached = {}
    /\ incoming = [p \in Peers |-> {}]
    /\ outgoing = [p \in Peers |-> {}]
    /\ session = [p \in Peers |-> [q \in Peers |-> FreshSession]]
    /\ endpoint = [p \in Peers |-> [q \in Peers |-> NoAddr]]
    /\ probe = [p \in Peers |-> [q \in Peers |-> NoProbe]]
    /\ todo = [p \in Peers |-> <<>>]
    /\ starts = [p \in Peers |-> 0]
    /\ net = {Announcement(PortOf(p, 0), p) : p \in RelayUsers}
    /\ route = [p \in Peers |-> NoAddr]
    /\ left \in Budgets
    /\ did = {}
    /\ submitted = {}
    /\ shown = [p \in Peers |-> <<>>]

Spend(event) ==
    /\ left[event] > 0
    /\ left' = [left EXCEPT ![event] = @ - 1]

\* The engine's thread is between two calls.
Idle(p) == todo[p] = <<>>

Do(p, effects) == todo' = [todo EXCEPT ![p] = effects]

-----------------------------------------------------------------------------
(* API calls.  A call that returns false before it changes anything is not  *)
(* a step.                                                                  *)

\* Fault: only the request that creates the contact is remembered.
AwaitingFirst(p, q) ==
    IF store[p].trust[q] = "none" THEN outgoing[p] \cup {q} ELSE outgoing[p]

\* outgoing_requests_ once q has been asked.
Awaiting(p, q) == outgoing[p] \cup {q}

SendContactRequest(p, q, addr) ==
    /\ Idle(p) /\ p # q
    /\ store[p].trust[q] # "Accepted"
    /\ Spend("request")
    /\ endpoint' = [endpoint EXCEPT ![p][q] = addr]
    /\ outgoing' = [outgoing EXCEPT ![p] = Awaiting(p, q)]
    /\ store' = [store EXCEPT ![p] = set_trust(@, q, "Pending")]
    /\ session' = [session EXCEPT ![p][q] = AfterEncrypt(@)]
    /\ Do(p, <<Save(store'[p])>> \o
             send_packet(p, addr, encrypt_as(p, q, session[p][q], "ContactRequest", "hello")))
    /\ did' = did \cup {<<"request", p, q>>}
    /\ UNCHANGED <<incoming, probe, outside, net, submitted, shown>>

\* accept_contact and reject_contact: the request leaves the store first, then
\* the trust is set, then the requester is told.
Decide(p, q, trust, answer) ==
    /\ Idle(p)
    /\ q \in incoming[p]
    /\ incoming' = [incoming EXCEPT ![p] = @ \ {q}]
    /\ LET removed == remove_request(store[p], q)
           decided == set_trust(removed, q, trust)
       IN  /\ store' = [store EXCEPT ![p] = decided]
           /\ Do(p, (IF removed = store[p] THEN <<>> ELSE <<Save(removed)>>)
                    \o <<Save(decided)>>
                    \o send_packet(p, endpoint[p][q],
                           encrypt_as(p, q, session[p][q], "ContactResponse", answer)))
    /\ session' = [session EXCEPT ![p][q] = AfterEncrypt(@)]
    /\ did' = did \cup {<<answer, p, q>>}
    /\ UNCHANGED <<outgoing, endpoint, probe, outside, net, left, submitted, shown>>

AcceptContact(p, q) == Decide(p, q, "Accepted", "accept")

\* Fault: a rejected contact stays pending.
RejectKeepsPending(p, q) == Decide(p, q, "Pending", "reject")
RejectContact(p, q) == Decide(p, q, "Rejected", "reject")

\* send: the counter is used up even when there is nowhere to send to; the
\* message is recorded after its packet has gone out.
Send(p, q, text) ==
    /\ Idle(p) /\ p # q
    /\ store[p].trust[q] = "Accepted"
    /\ Spend("message")
    /\ \A m \in submitted : m.text # text
    /\ session' = [session EXCEPT ![p][q] = AfterEncrypt(@)]
    /\ LET packets == send_packet(p, endpoint[p][q],
                          encrypt_as(p, q, session[p][q], "Message", text))
       IN  \/ /\ packets = <<>>
              /\ UNCHANGED <<store, todo, submitted>>
           \/ /\ packets # <<>>
              /\ store' = [store EXCEPT ![p] = append_message(@, q, text, TRUE)]
              /\ Do(p, packets \o <<Save(store'[p])>>)
              /\ submitted' = submitted \cup {[from |-> p, to |-> q, text |-> text]}
    /\ UNCHANGED <<incoming, outgoing, endpoint, probe, outside, net, did, shown>>

AddPeer(p, q, addr) ==
    /\ Idle(p) /\ p # q
    /\ Spend("add_peer")
    /\ endpoint' = [endpoint EXCEPT ![p][q] = addr]
    /\ store' = [store EXCEPT ![p] = set_trust(@, q, "Accepted")]
    /\ Do(p, <<Save(store'[p])>>)
    /\ did' = did \cup {<<"add_peer", p, q>>}
    /\ UNCHANGED <<incoming, outgoing, session, probe, outside, net, submitted, shown>>

SetNickname(p, q) ==
    /\ Idle(p) /\ p # q
    /\ Spend("nickname")
    /\ store' = [store EXCEPT ![p] = set_nickname(@, q)]
    /\ Do(p, <<Save(store'[p])>>)
    /\ UNCHANGED <<incoming, outgoing, session, endpoint, probe, outside, net, history>>

\* connect: start a hole punch to the discovered address; meanwhile traffic
\* goes through the relay, or to that address if there is no relay.
ConnectTo(p, q, addr) ==
    /\ Idle(p) /\ p # q
    /\ Spend("connect")
    /\ endpoint' = [endpoint EXCEPT ![p][q] = IF p \in RelayUsers THEN Relay ELSE addr]
    /\ probe' = [probe EXCEPT ![p][q] = start_probing(@, addr)]
    /\ Do(p, ProbeStarted(p, q, addr))
    /\ UNCHANGED <<store, incoming, outgoing, session, outside, net, history>>

\* announce_to, which the application repeats every now and then.
Announce(p) ==
    /\ Idle(p) /\ p \in RelayUsers
    /\ Spend("announce")
    /\ Do(p, <<[op |-> "send", datagram |-> Announcement(Addr(p), p)]>>)
    /\ UNCHANGED <<memory, outside, net, history>>

\* Probes that tick sends again once their interval has passed.
Punching(p) ==
    {q \in Peers : /\ probe[p][q].candidate # NoAddr
                   /\ ~probe[p][q].confirmed
                   /\ probe[p][q].attempts < MaxProbes}

Repeated(pr) == [pr EXCEPT !.attempts = @ + 1]

Orders(S) == {f \in [1 .. Cardinality(S) -> S] : \A q \in S : \E i \in DOMAIN f : f[i] = q}

\* tick: the probes that are due are sent again, one after the other.
Tick(p) ==
    /\ Idle(p)
    /\ \E due \in (SUBSET Punching(p)) \ {{}} : \E order \in Orders(due) :
          /\ probe' = [probe EXCEPT ![p] = [q \in Peers |->
                 IF q \in due THEN Repeated(@[q]) ELSE @[q]]]
          /\ Do(p, [i \in DOMAIN order |->
                 SendTo(p, probe[p][order[i]].candidate, Hello(p, order[i]))])
    /\ UNCHANGED <<store, incoming, outgoing, session, endpoint,
                   outside, net, left, history>>

-----------------------------------------------------------------------------
(* poll: one datagram is taken off the socket and dispatched. *)

\* The network may keep a copy of a datagram it delivers.
Receive(p, d) ==
    /\ Idle(p)
    /\ d.to = Addr(p)
    /\ \/ net' = net \ {d} /\ UNCHANGED left
       \/ Spend("duplicate") /\ UNCHANGED net

\* handle_probe, reached for a HELLO addressed to this peer.
PollHello(p, d) ==
    LET q == d.pkt.source IN
    /\ d.pkt.type = "Hello"
    /\ Receive(p, d)
    /\ d.pkt.destination = p
    /\ probe' = [probe EXCEPT ![p][q].confirmed = TRUE]
    /\ endpoint' = [endpoint EXCEPT ![p][q] = d.from]
    /\ Do(p, ProbeReply(p, q, d.from))
    /\ UNCHANGED <<store, incoming, outgoing, session, outside, history>>

\* handle_connect falls back on the relay for a peer without an endpoint.
FallbackPath(p, q) == Route(p, endpoint[p][q])

\* handle_connect: an empty endpoint is ignored.
PollConnect(p, d) ==
    LET q == d.pkt.source
        addr == d.pkt.endpoint
    IN
    /\ d.pkt.type = "Connect"
    /\ Receive(p, d)
    /\ \/ addr = NoAddr /\ UNCHANGED <<probe, endpoint, todo>>
       \/ /\ addr # NoAddr
          /\ endpoint' = [endpoint EXCEPT ![p][q] = FallbackPath(p, q)]
          /\ probe' = [probe EXCEPT ![p][q] = start_probing(@, addr)]
          /\ Do(p, ProbeStarted(p, q, addr))
    /\ UNCHANGED <<store, incoming, outgoing, session, outside, history>>

\* Fault: a confirmed path is given up for the address a packet came from.
FollowAlways(p, q, from) == from

\* poll follows the address of a peer's packets unless a direct path is confirmed.
Followed(p, q, from) == IF probe[p][q].confirmed THEN endpoint[p][q] ELSE from

\* The part of poll() every accepted packet goes through.
Opened(p, d) ==
    LET q == d.pkt.source IN
    /\ CanDecrypt(p, q, session[p][q], d.pkt)
    /\ session' = [session EXCEPT ![p][q] = AfterDecrypt(@, d.pkt)]
    /\ endpoint' = [endpoint EXCEPT ![p][q] = Followed(p, q, d.from)]

\* Fault: only rejected peers are kept out.
GateNotRejected(p, q) == store[p].trust[q] # "Rejected"

\* The spam gate for messages.
GateOpen(p, q) == store[p].trust[q] = "Accepted"

\* A packet that is dropped: a probe meant for somebody else, or one that may not
\* be or cannot be decrypted; the spam gate comes before decryption.
PollDropped(p, d) ==
    LET q == d.pkt.source IN
    /\ Receive(p, d)
    /\ \/ d.pkt.type = "Hello" /\ d.pkt.destination # p
       \/ d.pkt.type = "Message" /\ ~GateOpen(p, q)
       \/ d.pkt.type \in {"Message", "ContactRequest", "ContactResponse"}
          /\ ~CanDecrypt(p, q, session[p][q], d.pkt)
    /\ UNCHANGED <<memory, outside, todo, history>>

\* Fault: the application is called before the message is recorded.
ShowThenSave(s, q, text) == <<Notify("message", q, text), Save(s)>>

\* handle_message: record, then call the application.
MessageEffects(s, q, text) == <<Save(s), Notify("message", q, text)>>

PollMessage(p, d) ==
    LET q == d.pkt.source
        text == d.pkt.payload.text
    IN
    /\ d.pkt.type = "Message"
    /\ Receive(p, d)
    /\ GateOpen(p, q)
    /\ Opened(p, d)
    /\ store' = [store EXCEPT ![p] = append_message(@, q, text, FALSE)]
    /\ Do(p, MessageEffects(store'[p], q, text))
    /\ UNCHANGED <<incoming, outgoing, probe, outside, history>>

\* Fault: a contact whose request was answered may ask again.
AwaitingDecision(p, q) == q \in incoming[p]

\* The one-request rule.
AlreadyKnown(p, q) == store[p].trust[q] # "none" \/ q \in incoming[p]

\* Fault: the application is called before the request is saved.
SurfaceThenSave(pending, asked, q) ==
    <<Save(pending), Notify("request", q, "hello"), Save(asked)>>

RequestEffects(pending, asked, q) ==
    <<Save(pending), Save(asked), Notify("request", q, "hello")>>

\* handle_contact_request: only the first request of an unknown peer counts.
PollRequest(p, d) ==
    LET q == d.pkt.source IN
    /\ d.pkt.type = "ContactRequest"
    /\ Receive(p, d)
    /\ Opened(p, d)
    /\ IF AlreadyKnown(p, q)
       THEN UNCHANGED <<store, incoming, todo>>
       ELSE LET pending == set_trust(store[p], q, "Pending")
                asked == add_request(pending, q)
            IN  /\ incoming' = [incoming EXCEPT ![p] = @ \cup {q}]
                /\ store' = [store EXCEPT ![p] = asked]
                /\ Do(p, RequestEffects(pending, asked, q))
    /\ UNCHANGED <<outgoing, probe, outside, history>>

\* Faults: any answer counts as an acceptance; the answers are mixed up.
DecisionIgnored(answer) == "Accepted"
DecisionSwapped(answer) == IF answer = "reject" THEN "Accepted" ELSE "Rejected"

DecisionTrust(answer) == IF answer = "accept" THEN "Accepted" ELSE "Rejected"

\* handle_contact_response: ignored unless we are waiting for it.
PollResponse(p, d) ==
    LET q == d.pkt.source
        answer == d.pkt.payload.text
    IN
    /\ d.pkt.type = "ContactResponse"
    /\ Receive(p, d)
    /\ Opened(p, d)
    /\ IF q \notin outgoing[p]
       THEN UNCHANGED <<store, outgoing, todo>>
       ELSE /\ outgoing' = [outgoing EXCEPT ![p] = @ \ {q}]
            /\ store' = [store EXCEPT ![p] = set_trust(@, q, DecisionTrust(answer))]
            /\ Do(p, <<Save(store'[p]), Notify("response", q, answer)>>)
    /\ UNCHANGED <<incoming, probe, outside, history>>

Poll(p, d) ==
    \/ PollHello(p, d)
    \/ PollConnect(p, d)
    \/ PollDropped(p, d)
    \/ PollMessage(p, d)
    \/ PollRequest(p, d)
    \/ PollResponse(p, d)

-----------------------------------------------------------------------------
(* The outside effects of a call, one at a time *)

\* write_blob writes a temporary file and renames it over the store file.  When
\* writing fails the store file is left alone, unless the data was still in
\* the stream's buffer: then it is found out only when the stream is closed,
\* nobody looks, and the short file replaces the good one.  No caller of
\* save() looks at what it returns.  Without a file nothing is written.
EffectSave(p) ==
    /\ Head(todo[p]).op = "save"
    /\ \/ p \in detached /\ UNCHANGED <<disk, torn, left>>
       \/ /\ p \notin detached
          /\ disk' = [disk EXCEPT ![p] = Head(todo[p]).store]
          /\ torn' = torn \ {p}
          /\ UNCHANGED left
       \/ /\ p \notin detached
          /\ Spend("save_failure")
          /\ torn' \in {torn, torn \cup {p}}
          /\ UNCHANGED disk
    /\ UNCHANGED <<net, shown>>

EffectSend(p) ==
    /\ Head(todo[p]).op = "send"
    /\ net' = net \cup {Head(todo[p]).datagram}
    /\ UNCHANGED <<disk, torn, left, shown>>

EffectNotify(p) ==
    /\ Head(todo[p]).op = "notify"
    /\ shown' = [shown EXCEPT ![p] = Append(@, Head(todo[p]).event)]
    /\ UNCHANGED <<disk, torn, left, net>>

Effect(p) ==
    /\ todo[p] # <<>>
    /\ EffectSave(p) \/ EffectSend(p) \/ EffectNotify(p)
    /\ todo' = [todo EXCEPT ![p] = Tail(@)]
    /\ UNCHANGED <<memory, detached, starts, route, did, submitted>>

\* open_store loads the file if it can be read; neither front end gives up when
\* it cannot, so the engine then runs on an empty store that is never saved.
OpenStore(p) == IF p \in torn THEN EmptyStore ELSE disk[p]

\* Fault: every Pending contact is taken for one that asked us.
ResurfacePending(p) == {q \in Peers : OpenStore(p).trust[q] = "Pending"}

Resurfaced(p) == OpenStore(p).requests

\* The process ends at any point, a call in progress included, and is started
\* again: the store is opened and its requests are re-surfaced; everything else
\* starts empty, and a relay user announces its new address.
Restart(p) ==
    /\ Spend("restart")
    /\ starts' = [starts EXCEPT ![p] = @ + 1]
    /\ store' = [store EXCEPT ![p] = OpenStore(p)]
    /\ incoming' = [incoming EXCEPT ![p] = Resurfaced(p)]
    /\ detached' = IF p \in torn THEN detached \cup {p} ELSE detached \ {p}
    /\ outgoing' = [outgoing EXCEPT ![p] = {}]
    /\ session' = [session EXCEPT ![p] = [q \in Peers |-> FreshSession]]
    /\ endpoint' = [endpoint EXCEPT ![p] = [q \in Peers |-> NoAddr]]
    /\ probe' = [probe EXCEPT ![p] = [q \in Peers |-> NoProbe]]
    /\ Do(p, IF p \in RelayUsers
             THEN <<[op |-> "send", datagram |-> Announcement(PortOf(p, starts'[p]), p)]>>
             ELSE <<>>)
    /\ UNCHANGED <<disk, torn, route, net, history>>

-----------------------------------------------------------------------------
(* The relay server: it learns where a packet's source is, and passes the    *)
(* packet on to its destination, if it knows where that is.                 *)

RelayHandle(d) ==
    LET known == [route EXCEPT ![d.pkt.source] = d.from]
        q == d.pkt.destination
    IN
    /\ d.to = Relay
    /\ route' = known
    /\ net' = (net \ {d}) \cup {Datagram(Relay, known[r], d.pkt) :
                                  r \in {r \in Peers : r = q /\ known[r] # NoAddr}}
    /\ UNCHANGED <<memory, disk, torn, detached, starts, todo, left, history>>

\* A route not refreshed for its time to live is forgotten.
RelayExpire(q) ==
    /\ route[q] # NoAddr
    /\ Spend("route_expiry")
    /\ route' = [route EXCEPT ![q] = NoAddr]
    /\ UNCHANGED <<memory, disk, torn, detached, starts, todo, net, history>>

-----------------------------------------------------------------------------
(* The network and the signaling server, as the engine sees them *)

Lose(d) ==
    /\ Spend("loss")
    /\ net' = net \ {d}
    /\ UNCHANGED <<memory, outside, todo, history>>

\* The signaling server forwards p's CONNECT to q, or a DISCOVER reply arrives
\* after the lookup gave up on it and poll() gets it (empty when p is unknown).
Advertise(p, q, addr) ==
    /\ p # q
    /\ Spend("advertise")
    /\ net' = net \cup {Datagram(Signaling, Addr(q), Connect(p, q, addr))}
    /\ UNCHANGED <<memory, outside, todo, history>>

\* What an application passes as a peer's endpoint: the relay if it has one,
\* else what its lookup gave.
Reachable(p) == IF p \in RelayUsers THEN {Relay} ELSE Found(p)

ApiCall(p) ==
    \E q \in Peers :
        \/ \E addr \in Reachable(p) : SendContactRequest(p, q, addr)
        \/ AcceptContact(p, q)
        \/ RejectContact(p, q)
        \/ \E text \in Texts : Send(p, q, text)
        \/ \E addr \in Reachable(p) : AddPeer(p, q, addr)
        \/ SetNickname(p, q)
        \/ \E addr \in Found(p) : ConnectTo(p, q, addr)

Next ==
    \/ \E p \in Peers : ApiCall(p) \/ Announce(p) \/ Tick(p)
    \/ \E p \in Peers, d \in net : Poll(p, d)
    \/ \E p \in Peers : Effect(p)
    \/ \E p \in Peers : Restart(p)
    \/ \E d \in net : RelayHandle(d)
    \/ \E q \in Peers : RelayExpire(q)
    \/ \E d \in net : Lose(d)
    \/ \E p, q \in Peers : \E addr \in AddrsOf(p) \cup {NoAddr} : Advertise(p, q, addr)

Spec == Init /\ [][Next]_vars

\* The application's loop keeps polling and ticking, a started call ends and the
\* relay keeps serving; users owe nothing.
Fairness ==
    /\ WF_vars(\E d \in net : RelayHandle(d))
    /\ \A p \in Peers :
          /\ WF_vars(\E d \in net : Poll(p, d))
          /\ WF_vars(Effect(p))
          /\ WF_vars(Tick(p))

FairSpec == Spec /\ Fairness
=============================================================================

--------------------------- MODULE EngineProperties ---------------------------
(* What the engine promises: properties of the specification Engine. *)
EXTENDS Engine

Words == Texts \cup {"hello", "accept", "reject"}
Addresses == (Peers \X Nat) \cup {NoAddr, Relay, Signaling}

SealedTypes == {"Message", "ContactRequest", "ContactResponse"}
SealedEnvelopes ==
    [type : SealedTypes, encrypted : {TRUE}, counter : Nat, source : Peers,
     destination : Peers]
SealedPayloads == [key : SUBSET Peers, text : Words, aad : SealedEnvelopes]
SealedPackets ==
    [type : SealedTypes, encrypted : {TRUE}, counter : Nat, source : Peers,
     destination : Peers, payload : SealedPayloads]

Packets ==
    SealedPackets
    \cup [type : {"Hello"}, source : Peers, destination : Peers \cup {Nobody}]
    \cup [type : {"Connect"}, source : Peers, destination : Peers, endpoint : Addresses]

Datagrams == [from : Addresses, to : Addresses, pkt : Packets]

Messages == [peer : Peers, text : Texts, outgoing : BOOLEAN]
Stores == [trust : [Peers -> TrustStatus], requests : SUBSET Peers, messages : Seq(Messages)]

Notices == [kind : {"message", "request", "response"}, peer : Peers, text : Words]

Steps == [op : {"save"}, store : Stores]
         \cup [op : {"send"}, datagram : Datagrams]
         \cup [op : {"notify"}, event : Notices]

Probes == [candidate : Addresses, confirmed : BOOLEAN, attempts : Nat]

Decisions == {"request", "accept", "reject", "add_peer"} \X Peers \X Peers
Submissions == [from : Peers, to : Peers, text : Texts]

TypeOK ==
    /\ store \in [Peers -> Stores]
    /\ disk \in [Peers -> Stores]
    /\ torn \subseteq Peers /\ detached \subseteq Peers
    /\ incoming \in [Peers -> SUBSET Peers]
    /\ outgoing \in [Peers -> SUBSET Peers]
    /\ session \in PerPair(SessionState)
    /\ endpoint \in PerPair(Addresses)
    /\ probe \in PerPair(Probes)
    /\ todo \in [Peers -> Seq(Steps)]
    /\ starts \in [Peers -> Nat]
    /\ net \subseteq Datagrams
    /\ route \in [Peers -> Addresses]
    /\ left \in [Events -> Nat]
    /\ did \subseteq Decisions
    /\ submitted \subseteq Submissions
    /\ shown \in [Peers -> Seq(Notices)]

-----------------------------------------------------------------------------
(* Contacts *)

\* By the decisions D, both users agreed that p and q be contacts of p's: one
\* asked and the other accepted, or p trusted q out of band.
Agreed(D, p, q) ==
    \/ <<"request", p, q>> \in D /\ <<"accept", q, p>> \in D
    \/ <<"request", q, p>> \in D /\ <<"accept", p, q>> \in D
    \/ <<"add_peer", p, q>> \in D

\* A contact is Accepted, in memory or in the store file, only if both users
\* agreed, through losses, repetitions, reordering and restarts
\* (handle_contact_response, accept_contact; SRS FR-2).
AcceptedByBoth ==
    \A p, q \in Peers :
        "Accepted" \in {store[p].trust[q], disk[p].trust[q]} => Agreed(did, p, q)

\* A conversation holds only messages that the peer's send() took for us, and
\* only from peers both users agreed on (the spam gate in poll()).
ReceivedWithConsent ==
    \A p \in Peers : \A i \in DOMAIN store[p].messages :
        LET m == store[p].messages[i] IN
        ~m.outgoing =>
            /\ [from |-> m.peer, to |-> p, text |-> m.text] \in submitted
            /\ Agreed(did, p, m.peer)

\* The stores, packets and steps that the decisions D and the submitted messages
\* U account for.
MeantStores(D, U, p) ==
    {s \in Stores :
        /\ \A q \in Peers : s.trust[q] = "Accepted" => Agreed(D, p, q)
        /\ \A q \in s.requests : <<"request", q, p>> \in D
        /\ \A i \in DOMAIN s.messages :
              LET m == s.messages[i] IN
              ~m.outgoing => /\ [from |-> m.peer, to |-> p, text |-> m.text] \in U
                             /\ Agreed(D, p, m.peer)}

Meant(D, U, pkt) ==
    /\ pkt.type = "ContactRequest" => <<"request", pkt.source, pkt.destination>> \in D
    /\ pkt.type = "ContactResponse" /\ pkt.payload.text = "accept" =>
          <<"accept", pkt.source, pkt.destination>> \in D
    /\ pkt.type = "Message" =>
          [from |-> pkt.source, to |-> pkt.destination, text |-> pkt.payload.text] \in U

MeantDatagrams(D, U) == {d \in Datagrams : Meant(D, U, d.pkt)}

MeantSteps(D, U, p) ==
    [op : {"save"}, store : MeantStores(D, U, p)]
    \cup [op : {"send"}, datagram : MeantDatagrams(D, U)]
    \cup [op : {"notify"}, event : Notices]

\* Consent is nowhere lost track of: what the engines hold in memory and on disk,
\* are about to save or send, wait for, and have in flight, follows from what
\* the users did.  Inductive; AcceptedByBoth and ReceivedWithConsent follow
\* (send_contact_request, accept_contact, poll, open_store and the auto-saves).
ConsentInv ==
    /\ TypeOK
    /\ \A p \in Peers :
          /\ store[p] \in MeantStores(did, submitted, p)
          /\ disk[p] \in MeantStores(did, submitted, p)
          /\ todo[p] \in Seq(MeantSteps(did, submitted, p))
          /\ \A q \in incoming[p] : <<"request", q, p>> \in did
          /\ \A q \in outgoing[p] : <<"request", p, q>> \in did
    /\ net \subseteq MeantDatagrams(did, submitted)

IsRequestFrom(e, q) == e.kind = "request" /\ e.peer = q

\* The one-request rule (handle_contact_request; SRS 7): the application is
\* told of a peer's contact request at most once, however often the peer
\* repeats it, the network repeats it, or we restart.
SurfacedOnce ==
    \A p, q \in Peers : \A i, j \in DOMAIN shown[p] :
        IsRequestFrom(shown[p][i], q) /\ IsRequestFrom(shown[p][j], q) => i = j

Answered(p, q) == <<"accept", p, q>> \in did \/ <<"reject", p, q>> \in did

\* A request the user was told of can be answered until the user answers it,
\* now and after a restart at any point (open_store re-surfaces it).
SurfacedIsAnswerable ==
    \A p, q \in Peers :
        (\E i \in DOMAIN shown[p] : IsRequestFrom(shown[p][i], q)) /\ ~Answered(p, q)
            => q \in incoming[p] /\ q \in disk[p].requests

\* A message the user was shown is in the conversation on disk: a restart does
\* not take it back (handle_message saves before it calls the application).
ShownIsRecorded ==
    \A p \in Peers : \A i \in DOMAIN shown[p] :
        shown[p][i].kind = "message" =>
            \E j \in DOMAIN disk[p].messages :
                disk[p].messages[j] =
                    [peer |-> shown[p][i].peer, text |-> shown[p][i].text, outgoing |-> FALSE]

\* The engines on disks that do not fail: what the application was told is then
\* not taken back.  A save that fails unnoticed can take it back.
SavingInit == Init /\ left["save_failure"] = 0
SavingSpec == SavingInit /\ [][Next]_vars

Knowing(q) == {s \in Stores : s.trust[q] # "none"}
Asking(q) == {s \in Stores : q \in s.requests}
Recording(q, text) ==
    {s \in Stores : \E j \in DOMAIN s.messages :
        s.messages[j] = [peer |-> q, text |-> text, outgoing |-> FALSE]}

\* A store s in memory, a file f and the steps still to be taken leave the file in
\* the set G before step i and from then on: it is in G now, or a save before
\* step i puts it there, and no later save takes it out again.
Lasts(s, f, steps, i, G) ==
    /\ s \in G
    /\ \E j \in 0 .. i - 1 :
          /\ IF j = 0 THEN f \in G ELSE steps[j].op = "save"
          /\ \A k \in DOMAIN steps :
                k >= j /\ steps[k].op = "save" => steps[k].store \in G

Lasting(p, i, G) == Lasts(store[p], disk[p], todo[p], i, G)

\* What the notice e, made to p's application in step i, says lasts.
Kept(p, i, e) ==
    /\ e.kind = "request" =>
          /\ Lasting(p, i, Knowing(e.peer))
          /\ ~Answered(p, e.peer) => e.peer \in incoming[p] /\ Lasting(p, i, Asking(e.peer))
    /\ e.kind = "message" => Lasting(p, i, Recording(e.peer, e.text))

ShownAreKept(p) == \A i \in DOMAIN shown[p] : Kept(p, 1, shown[p][i])
NoticesAreKept(p) ==
    \A i \in DOMAIN todo[p] : todo[p][i].op = "notify" => Kept(p, i, todo[p][i].event)

Surfacing(step, q) == step.op = "notify" /\ IsRequestFrom(step.event, q)

\* p is about to tell of a request that it has not told of, and only once.
SurfacingOnce(p) ==
    \A q \in Peers : \A i \in DOMAIN todo[p] :
        Surfacing(todo[p][i], q) =>
            /\ \A j \in DOMAIN shown[p] : ~IsRequestFrom(shown[p][j], q)
            /\ \A j \in DOMAIN todo[p] : Surfacing(todo[p][j], q) => j = i

\* Inductive, with the types, as long as saves succeed: SurfacedOnce,
\* SurfacedIsAnswerable and ShownIsRecorded follow (handle_contact_request,
\* handle_message, accept_contact, reject_contact, open_store).
NoticeInv ==
    /\ torn = {} /\ detached = {} /\ left["save_failure"] = 0
    /\ \A p \in Peers : ShownAreKept(p) /\ NoticesAreKept(p) /\ SurfacingOnce(p)
    /\ SurfacedOnce

-----------------------------------------------------------------------------
(* Contacts and messages while nobody restarts *)

\* Nothing is being done and nothing is on its way.
AtRest == (\A p \in Peers : Idle(p)) /\ (\A d \in net : d.to # Relay /\ \A p \in Peers : d.to # Addr(p))

\* As long as our own request is unanswered we wait for its answer: a
\* response would not be taken for an unsolicited one.
PendingIsAwaited ==
    \A p, q \in Peers :
        store[p].trust[q] = "Pending" /\ <<"request", p, q>> \in did => q \in outgoing[p]

\* A peer that asked us, and that we did not ask, can be answered for as long as
\* it is Pending.
PendingIsAnswerable ==
    \A p, q \in Peers :
        store[p].trust[q] = "Pending" /\ <<"request", p, q>> \notin did => q \in incoming[p]

\* A message is recorded at most once in the receiver's conversation, whatever
\* the network repeats.
RecordedOnce ==
    \A p \in Peers : \A i, j \in DOMAIN store[p].messages :
        LET m == store[p].messages[i] IN
        ~m.outgoing /\ store[p].messages[j] = m => i = j

\* The highest counter a receiver has seen is one its peer's session has used
\* up, so the next packet the peer sends is not taken for a replay.
CountersInStep ==
    \A p, q \in Peers :
        session[p][q].have => session[p][q].last < session[q][p].send

\* Engines that are not restarted.
SteadySpec == Init /\ left["restart"] = 0 /\ [][Next]_vars

\* Once asked, a peer is a contact.
AskedIsKnown ==
    \A p, q \in Peers : <<"request", p, q>> \in did => store[p].trust[q] # "none"

\* Inductive, with the types: PendingIsAwaited follows (send_contact_request,
\* handle_contact_request, handle_contact_response, set_nickname).
AwaitInv == left["restart"] = 0 /\ PendingIsAwaited /\ AskedIsKnown

\* The packets p is about to send, and the sealed packets in flight or about to be.
Sends(p) == {todo[p][i].datagram.pkt : i \in {j \in DOMAIN todo[p] : todo[p][j].op = "send"}}
Underway ==
    {pkt \in {d.pkt : d \in net} \cup UNION {Sends(p) : p \in Peers} :
        pkt.type \in SealedTypes}

\* The sender's session has moved past every counter it used.
CountersUsedUp ==
    \A pkt \in Underway : pkt.counter < session[pkt.source][pkt.destination].send

Carries(pkt, p, q, text) ==
    pkt.type = "Message" /\ pkt.source = p /\ pkt.destination = q /\ pkt.payload.text = text

\* A message travels under one counter only.
OneCounterEach ==
    \A a, b \in Underway :
        Carries(a, b.source, b.destination, b.payload.text) /\ b.type = "Message"
            => a.counter = b.counter

\* What is left of a message that was recorded will be taken for a replay.
RecordedIsStale ==
    \A p \in Peers : \A i \in DOMAIN store[p].messages : \A pkt \in Underway :
        LET m == store[p].messages[i] IN
        ~m.outgoing /\ Carries(pkt, m.peer, p, m.text)
            => ~FreshCounter(session[p][m.peer], pkt.counter)

\* Inductive, with ConsentInv: CountersInStep and RecordedOnce follow (send,
\* Session::encrypt_as, Session::decrypt, handle_message).
ReplayInv ==
    /\ left["restart"] = 0
    /\ CountersInStep
    /\ CountersUsedUp
    /\ OneCounterEach
    /\ RecordedIsStale
    /\ RecordedOnce

\* When all is done, a request has been answered, or can be, or the two are
\* contacts already.
AskedIsAnswerable ==
    AtRest => \A p, q \in Peers :
        <<"request", p, q>> \in did =>
            \/ p \in incoming[q]
            \/ Answered(q, p)
            \/ store[p].trust[q] = "Accepted"

\* Accepting a request eventually makes the requester's side Accepted too,
\* provided nothing is lost and nobody restarts, although datagrams overtake
\* each other and other requests cross them: when both use the relay, the
\* request itself has taught it the way back.
AcceptArrives ==
    \A p, q \in Peers :
        <<"accept", p, q>> \in did ~> store[q].trust[p] = "Accepted"

-----------------------------------------------------------------------------
(* Connectivity *)

\* p's user gives q an endpoint; the address may be anybody's.
CalledFor(p, q) ==
    \E addr \in Found(p) \cup {Relay} :
        SendContactRequest(p, q, addr) \/ AddPeer(p, q, addr) \/ ConnectTo(p, q, addr)

\* A confirmed direct path is the peer's.  Whatever address a lookup or an
\* advertisement gave us to punch at, the path that a probe confirms goes to an
\* address of the peer's own, and so does every later one: what arrives late,
\* through the relay or from the signaling server does not lead traffic
\* elsewhere.  Only our user's own call does (handle_probe, handle_connect,
\* "never downgrade a confirmed direct path" in poll()).
DirectPathIsPeers ==
    [][\A p, q \in Peers :
        probe'[p][q].confirmed /\ ~CalledFor(p, q) =>
            \/ endpoint'[p][q] \in AddrsOf(q)
            \/ UNCHANGED <<endpoint[p][q], probe[p][q]>>]_vars

\* A direct path is confirmed only if the other side, unless it restarted, is
\* punching towards us or has confirmed us: probes are sent for no other reason.
ConfirmedIsMutual ==
    \A p, q \in Peers :
        probe[p][q].confirmed /\ starts[q] = 0 => probe[q][p] # NoProbe

\* A datagram shows where its source is: it comes from an address of the source's
\* or was passed on by the relay, which is sent nothing that was; an advertised
\* address is the source's; and a probe comes straight from the source and is one
\* its hole punch or answer accounts for, unless it restarted since.
Traceable(d) ==
    LET q == d.pkt.source IN
    /\ IF d.pkt.type = "Connect" THEN d.pkt.endpoint \in AddrsOf(q) \cup {NoAddr}
       ELSE d.from \in AddrsOf(q) \cup {Relay}
    /\ d.to = Relay => d.from \in AddrsOf(q)
    /\ d.pkt.type = "Hello" /\ d.pkt.destination \in Peers =>
          /\ d.from \in AddrsOf(q) /\ d.to # Relay
          /\ starts[q] = 0 => probe[q][d.pkt.destination] # NoProbe

SendsTraceable(p) ==
    \A i \in DOMAIN todo[p] : todo[p][i].op = "send" => Traceable(todo[p][i].datagram)

\* The relay passes a peer's packets on to an address of that peer's; probes aim
\* at sockets of peers, never at the relay; and a confirmed path has an endpoint.
PathsKnown ==
    \A p, q \in Peers :
        /\ route[q] \in AddrsOf(q) \cup {NoAddr}
        /\ probe[p][q].candidate # Relay
        /\ probe[p][q].confirmed => endpoint[p][q] # NoAddr

\* Inductive, with the types: DirectPathIsPeers and ConfirmedIsMutual hold because
\* all that is in flight or about to be sent can be traced, although a candidate
\* may be anybody's address (connect, handle_connect, handle_probe, send_packet,
\* RelayServer::handle).
PathInv ==
    /\ PathsKnown
    /\ ConfirmedIsMutual
    /\ \A d \in net : Traceable(d)
    /\ \A p \in Peers : SendsTraceable(p)

\* A direct path confirmed on one side is eventually confirmed on the other
\* (handle_probe replies to the probe that confirmed it).
PathsConverge ==
    \A p, q \in Peers : probe[p][q].confirmed ~> probe[q][p].confirmed

=============================================================================

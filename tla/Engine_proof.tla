----------------------------- MODULE Engine_proof -----------------------------
(***************************************************************************)
(* Proofs about Engine, for every finite set of peers, every set of texts, *)
(* any choice of relay users and fixed ports and any budget of events:     *)
(* what the stores hold was meant and consented to; what the application   *)
(* is told, on disks that do not fail; where datagrams go; and what holds  *)
(* while nobody restarts.                                                  *)
(***************************************************************************)
EXTENDS EngineProperties, SequenceTheorems, FiniteSetTheorems, TLAPS

USE EngineAssumption

-----------------------------------------------------------------------------
(* What is accounted for stays accounted for as the histories grow. *)

LEMMA StoresGrow ==
    ASSUME NEW D, NEW E, NEW U, NEW V, NEW p, D \subseteq E, U \subseteq V
    PROVE  MeantStores(D, U, p) \subseteq MeantStores(E, V, p)
<1>1. \A q : Agreed(D, p, q) => Agreed(E, p, q)
  BY DEF Agreed
<1> QED
  BY <1>1 DEF MeantStores

LEMMA DatagramsGrow ==
    ASSUME NEW D, NEW E, NEW U, NEW V, D \subseteq E, U \subseteq V
    PROVE  MeantDatagrams(D, U) \subseteq MeantDatagrams(E, V)
BY DEF MeantDatagrams, Meant

LEMMA StepsGrow ==
    ASSUME NEW D, NEW E, NEW U, NEW V, NEW p, D \subseteq E, U \subseteq V
    PROVE  MeantSteps(D, U, p) \subseteq MeantSteps(E, V, p)
BY StoresGrow, DatagramsGrow DEF MeantSteps

LEMMA SeqGrow ==
    ASSUME NEW S, NEW T, S \subseteq T, NEW s \in Seq(S)
    PROVE  s \in Seq(T)
OBVIOUS

LEMMA StepsAreSteps ==
    ASSUME NEW D, NEW U, NEW p
    PROVE  MeantSteps(D, U, p) \subseteq Steps
<1>1. MeantStores(D, U, p) \subseteq Stores /\ MeantDatagrams(D, U) \subseteq Datagrams
  BY DEF MeantStores, MeantDatagrams
<1> QED
  BY <1>1 DEF MeantSteps, Steps

-----------------------------------------------------------------------------
(* The store's operations *)

LEMMA EmptyStoreMeant ==
    ASSUME NEW D, NEW U, NEW p
    PROVE  EmptyStore \in MeantStores(D, U, p)
<1>1. EmptyStore \in Stores
  BY DEF EmptyStore, Stores, TrustStatus
<1> QED
  BY <1>1 DEF MeantStores, EmptyStore

LEMMA SetTrustMeant ==
    ASSUME NEW D, NEW U, NEW p, NEW q \in Peers, NEW t \in TrustStatus,
           NEW s \in MeantStores(D, U, p), t = "Accepted" => Agreed(D, p, q)
    PROVE  set_trust(s, q, t) \in MeantStores(D, U, p)
<1> DEFINE z == set_trust(s, q, t)
<1>1. s \in Stores
  BY DEF MeantStores
<1>2. /\ z \in Stores
      /\ z.requests = s.requests /\ z.messages = s.messages
      /\ \A r \in Peers : z.trust[r] = IF r = q THEN t ELSE s.trust[r]
  BY <1>1 DEF set_trust, Stores
<1> HIDE DEF z
<1>3. z \in MeantStores(D, U, p)
  BY <1>2 DEF MeantStores
<1> QED
  BY <1>3 DEF z

LEMMA SetNicknameMeant ==
    ASSUME NEW D, NEW U, NEW p, NEW q \in Peers, NEW s \in MeantStores(D, U, p)
    PROVE  set_nickname(s, q) \in MeantStores(D, U, p)
BY SetTrustMeant DEF set_nickname, TrustStatus

LEMMA AddRequestMeant ==
    ASSUME NEW D, NEW U, NEW p, NEW q \in Peers, NEW s \in MeantStores(D, U, p),
           <<"request", q, p>> \in D
    PROVE  add_request(s, q) \in MeantStores(D, U, p)
<1> DEFINE z == add_request(s, q)
<1>1. s \in Stores
  BY DEF MeantStores
<1>2. /\ z \in Stores
      /\ z.trust = s.trust /\ z.messages = s.messages
      /\ z.requests = s.requests \cup {q}
  BY <1>1 DEF add_request, Stores
<1> HIDE DEF z
<1>3. z \in MeantStores(D, U, p)
  BY <1>2 DEF MeantStores
<1> QED
  BY <1>3 DEF z

LEMMA RemoveRequestMeant ==
    ASSUME NEW D, NEW U, NEW p, NEW q \in Peers, NEW s \in MeantStores(D, U, p)
    PROVE  remove_request(s, q) \in MeantStores(D, U, p)
<1> DEFINE z == remove_request(s, q)
<1>1. s \in Stores
  BY DEF MeantStores
<1>2. /\ z \in Stores
      /\ z.trust = s.trust /\ z.messages = s.messages
      /\ z.requests = s.requests \ {q}
  BY <1>1 DEF remove_request, Stores
<1> HIDE DEF z
<1>3. z \in MeantStores(D, U, p)
  BY <1>2 DEF MeantStores
<1> QED
  BY <1>3 DEF z

LEMMA AppendMessageMeant ==
    ASSUME NEW D, NEW U, NEW p, NEW q \in Peers, NEW text \in Texts, NEW out \in BOOLEAN,
           NEW s \in MeantStores(D, U, p),
           ~out => Agreed(D, p, q) /\ [from |-> q, to |-> p, text |-> text] \in U
    PROVE  append_message(s, q, text, out) \in MeantStores(D, U, p)
<1> DEFINE z == append_message(s, q, text, out)
           m == [peer |-> q, text |-> text, outgoing |-> out]
<1>1. s \in Stores
  BY DEF MeantStores
<1>2. /\ m \in Messages /\ m.peer = q /\ m.text = text /\ (m.outgoing <=> out)
  BY DEF Messages
<1> HIDE DEF m
<1> DEFINE h == Append(s.messages, m)
<1>3. s.messages \in Seq(Messages)
  BY <1>1 DEF Stores
<1>4. /\ h \in Seq(Messages)
      /\ \A i \in DOMAIN h : (i \in DOMAIN s.messages /\ h[i] = s.messages[i]) \/ h[i] = m
  BY <1>2, <1>3, AppendProperties
<1> HIDE DEF h
<1>5. /\ z \in Stores
      /\ z.trust = s.trust /\ z.requests = s.requests /\ z.messages = h
  BY <1>1, <1>4 DEF append_message, Stores, h, m
<1> HIDE DEF z
<1>6. \A i \in DOMAIN z.messages :
          ~z.messages[i].outgoing =>
              /\ [from |-> z.messages[i].peer, to |-> p, text |-> z.messages[i].text] \in U
              /\ Agreed(D, p, z.messages[i].peer)
  BY <1>2, <1>4, <1>5 DEF MeantStores
<1>7. z \in MeantStores(D, U, p)
  BY <1>5, <1>6 DEF MeantStores
<1> QED
  BY <1>7 DEF z

-----------------------------------------------------------------------------
(* Packets and steps *)

LEMMA EncryptAsType ==
    ASSUME NEW p \in Peers, NEW q \in Peers, NEW s \in SessionState,
           NEW type \in SealedTypes, NEW text \in Words
    PROVE  LET pkt == encrypt_as(p, q, s, type, text) IN
           /\ pkt \in SealedPackets
           /\ pkt.type = type /\ pkt.source = p /\ pkt.destination = q
           /\ pkt.payload.text = text
BY DEF encrypt_as, WithPayload, Envelope, seal, SharedKey, SealedPackets, SealedPayloads,
       SealedEnvelopes, SessionState

LEMMA SentMeant ==
    ASSUME NEW D, NEW U, NEW p \in Peers, NEW to \in Addresses, starts[p] \in Nat,
           NEW pkt \in Packets, Meant(D, U, pkt)
    PROVE  /\ SendTo(p, to, pkt) \in MeantSteps(D, U, p)
           /\ Transmit(p, to, pkt) \in Seq(MeantSteps(D, U, p))
<1>1. Addr(p) \in Addresses
  BY DEF Addr, PortOf, Addresses
<1>2. Datagram(Addr(p), to, pkt) \in MeantDatagrams(D, U)
  BY <1>1 DEF Datagram, MeantDatagrams, Datagrams
<1>3. SendTo(p, to, pkt) \in MeantSteps(D, U, p)
  BY <1>2 DEF SendTo, MeantSteps
<1> QED
  BY <1>3 DEF Transmit

LEMMA HelloMeant ==
    ASSUME NEW D, NEW U, NEW p \in Peers, NEW q \in Peers \cup {Nobody}
    PROVE  Hello(p, q) \in Packets /\ Meant(D, U, Hello(p, q))
BY DEF Hello, Packets, Meant

LEMMA SaveMeant ==
    ASSUME NEW D, NEW U, NEW p, NEW s \in MeantStores(D, U, p)
    PROVE  Save(s) \in MeantSteps(D, U, p)
BY DEF Save, MeantSteps

LEMMA NotifyMeant ==
    ASSUME NEW D, NEW U, NEW p, NEW q \in Peers, NEW text \in Words,
           NEW kind \in {"message", "request", "response"}
    PROVE  Notify(kind, q, text) \in MeantSteps(D, U, p)
BY DEF Notify, MeantSteps, Notices

-----------------------------------------------------------------------------
(* The invariant, part by part *)

StorePart ==
    /\ store \in [Peers -> Stores]
    /\ \A p \in Peers : store[p] \in MeantStores(did, submitted, p)
DiskPart ==
    /\ disk \in [Peers -> Stores]
    /\ \A p \in Peers : disk[p] \in MeantStores(did, submitted, p)
TodoPart ==
    /\ todo \in [Peers -> Seq(Steps)]
    /\ \A p \in Peers : todo[p] \in Seq(MeantSteps(did, submitted, p))
NetPart ==
    /\ net \subseteq Datagrams
    /\ net \subseteq MeantDatagrams(did, submitted)
RequestPart ==
    /\ incoming \in [Peers -> SUBSET Peers]
    /\ outgoing \in [Peers -> SUBSET Peers]
    /\ \A p \in Peers : \A q \in incoming[p] : <<"request", q, p>> \in did
    /\ \A p \in Peers : \A q \in outgoing[p] : <<"request", p, q>> \in did
PathPart ==
    /\ session \in PerPair(SessionState)
    /\ endpoint \in PerPair(Addresses)
    /\ probe \in PerPair(Probes)
HistoryPart ==
    /\ did \subseteq Decisions
    /\ submitted \subseteq Submissions
    /\ shown \in [Peers -> Seq(Notices)]
OutsidePart ==
    /\ torn \subseteq Peers /\ detached \subseteq Peers
    /\ starts \in [Peers -> Nat]
    /\ route \in [Peers -> Addresses]
    /\ left \in [Events -> Nat]

LEMMA Parts ==
    ConsentInv <=> /\ StorePart /\ DiskPart /\ TodoPart /\ NetPart /\ RequestPart
                   /\ PathPart /\ HistoryPart /\ OutsidePart
BY DEF ConsentInv, TypeOK, StorePart, DiskPart, TodoPart, NetPart, RequestPart, PathPart,
       HistoryPart, OutsidePart

LEMMA PartsNext ==
    ASSUME StorePart', DiskPart', TodoPart', NetPart', RequestPart', PathPart', HistoryPart',
           OutsidePart'
    PROVE  ConsentInv'
BY DEF ConsentInv, TypeOK, StorePart, DiskPart, TodoPart, NetPart, RequestPart, PathPart,
       HistoryPart, OutsidePart

Grows == did \subseteq did' /\ submitted \subseteq submitted'

\* What a step leaves alone stays accounted for.
LEMMA LeftAlone ==
    ASSUME ConsentInv, Grows
    PROVE  /\ UNCHANGED store => StorePart'
           /\ UNCHANGED disk => DiskPart'
           /\ UNCHANGED todo => TodoPart'
           /\ net' \subseteq net => NetPart'
           /\ UNCHANGED <<incoming, outgoing>> => RequestPart'
           /\ UNCHANGED <<session, endpoint, probe>> => PathPart'
<1>1. /\ \A p : MeantStores(did, submitted, p) \subseteq MeantStores(did', submitted', p)
      /\ MeantDatagrams(did, submitted) \subseteq MeantDatagrams(did', submitted')
  BY StoresGrow, DatagramsGrow DEF Grows
<1>2. \A p : Seq(MeantSteps(did, submitted, p)) \subseteq Seq(MeantSteps(did', submitted', p))
  BY StepsGrow, SeqGrow DEF Grows
<1>3. UNCHANGED store => StorePart'
  BY <1>1, Parts DEF StorePart
<1>4. UNCHANGED disk => DiskPart'
  BY <1>1, Parts DEF DiskPart
<1>5. UNCHANGED todo => TodoPart'
  BY <1>2, Parts DEF TodoPart
<1>6. net' \subseteq net => NetPart'
  BY <1>1, Parts DEF NetPart
<1>7. UNCHANGED <<incoming, outgoing>> => RequestPart'
  BY Parts DEF RequestPart, Grows
<1>8. UNCHANGED <<session, endpoint, probe>> => PathPart'
  BY Parts DEF PathPart
<1> QED
  BY <1>3, <1>4, <1>5, <1>6, <1>7, <1>8

\* One peer's entry changes.
LEMMA StoreUpdate ==
    ASSUME ConsentInv, Grows, NEW p \in Peers, NEW s \in MeantStores(did', submitted', p),
           store' = [store EXCEPT ![p] = s]
    PROVE  StorePart'
<1>1. \A r : MeantStores(did, submitted, r) \subseteq MeantStores(did', submitted', r)
  BY StoresGrow DEF Grows
<1>2. s \in Stores
  BY DEF MeantStores
<1> QED
  BY <1>1, <1>2, Parts DEF StorePart

LEMMA TodoUpdate ==
    ASSUME ConsentInv, Grows, NEW p \in Peers,
           NEW e \in Seq(MeantSteps(did', submitted', p)), todo' = [todo EXCEPT ![p] = e]
    PROVE  TodoPart'
<1>1. \A r : Seq(MeantSteps(did, submitted, r)) \subseteq Seq(MeantSteps(did', submitted', r))
  BY StepsGrow, SeqGrow DEF Grows
<1>2. e \in Seq(Steps)
  BY StepsAreSteps, SeqGrow
<1> QED
  BY <1>1, <1>2, Parts DEF TodoPart

LEMMA SpendType ==
    ASSUME ConsentInv, NEW event \in Events, Spend(event)
    PROVE  left' \in [Events -> Nat]
BY Parts DEF OutsidePart, Spend

LEMMA PairUpdate ==
    ASSUME NEW S, NEW f \in PerPair(S), NEW p \in Peers, NEW q \in Peers, NEW v \in S
    PROVE  [f EXCEPT ![p][q] = v] \in PerPair(S)
BY DEF PerPair

LEMMA RowUpdate ==
    ASSUME NEW S, NEW f \in PerPair(S), NEW p \in Peers, NEW g \in [Peers -> S]
    PROVE  [f EXCEPT ![p] = g] \in PerPair(S)
BY DEF PerPair

\* What is known of a peer and of a pair.
LEMMA PeerFacts ==
    ASSUME ConsentInv, NEW p \in Peers, NEW q \in Peers
    PROVE  /\ store[p] \in MeantStores(did, submitted, p)
           /\ disk[p] \in MeantStores(did, submitted, p)
           /\ store[p] \in Stores /\ disk[p] \in Stores
           /\ session[p][q] \in SessionState
           /\ endpoint[p][q] \in Addresses
           /\ probe[p][q] \in Probes
           /\ probe[p][q].candidate \in Addresses
           /\ starts[p] \in Nat
           /\ Addr(p) \in Addresses
<1>1. /\ store[p] \in MeantStores(did, submitted, p)
      /\ disk[p] \in MeantStores(did, submitted, p)
      /\ store[p] \in Stores /\ disk[p] \in Stores
  BY Parts DEF StorePart, DiskPart
<1>2. session[p][q] \in SessionState /\ endpoint[p][q] \in Addresses /\ probe[p][q] \in Probes
  BY Parts DEF PathPart, PerPair
<1>3. probe[p][q].candidate \in Addresses
  BY <1>2 DEF Probes
<1>4. starts[p] \in Nat
  BY Parts DEF OutsidePart
<1>5. Addr(p) \in Addresses
  BY <1>4 DEF Addr, PortOf, Addresses
<1> QED
  BY <1>1, <1>2, <1>3, <1>4, <1>5

LEMMA AddrsType ==
    ASSUME ConsentInv, NEW q \in Peers
    PROVE  AddrsOf(q) \subseteq Addresses
<1>1. starts[q] \in Nat
  BY PeerFacts
<1> QED
  BY <1>1 DEF AddrsOf, PortOf, Addresses

\* What a lookup, or the application, takes for an address is one.
LEMMA FoundType ==
    ASSUME ConsentInv, NEW p \in Peers
    PROVE  Found(p) \subseteq Addresses /\ Reachable(p) \subseteq Addresses
<1>1. Found(p) \subseteq Addresses
  BY AddrsType DEF Found
<1> QED
  BY <1>1 DEF Reachable, Addresses

LEMMA SendPacketMeant ==
    ASSUME ConsentInv, NEW D, NEW U, NEW p \in Peers, NEW addr \in Addresses,
           NEW pkt \in Packets, Meant(D, U, pkt)
    PROVE  send_packet(p, addr, pkt) \in Seq(MeantSteps(D, U, p))
<1>1. Route(p, addr) \in Addresses
  BY DEF Route, RelayOf, Addresses
<1> QED
  BY <1>1, PeerFacts, SentMeant DEF send_packet

LEMMA SealedMeant ==
    ASSUME ConsentInv, NEW D, NEW U, NEW p \in Peers, NEW q \in Peers,
           NEW type \in SealedTypes, NEW text \in Words, NEW addr \in Addresses,
           type = "ContactRequest" => <<"request", p, q>> \in D,
           type = "ContactResponse" /\ text = "accept" => <<"accept", p, q>> \in D,
           type = "Message" => [from |-> p, to |-> q, text |-> text] \in U
    PROVE  send_packet(p, addr, encrypt_as(p, q, session[p][q], type, text))
               \in Seq(MeantSteps(D, U, p))
<1> DEFINE pkt == encrypt_as(p, q, session[p][q], type, text)
<1>1. /\ pkt \in SealedPackets
      /\ pkt.type = type /\ pkt.source = p /\ pkt.destination = q
      /\ pkt.payload.text = text
  BY PeerFacts, EncryptAsType
<1> HIDE DEF pkt
<1>2. pkt \in Packets /\ Meant(D, U, pkt)
  BY <1>1 DEF Packets, Meant
<1>3. send_packet(p, addr, pkt) \in Seq(MeantSteps(D, U, p))
  BY <1>2, SendPacketMeant
<1> QED
  BY <1>3 DEF pkt

LEMMA FreshSessionType == FreshSession \in SessionState
BY DEF FreshSession, SessionState

LEMMA AfterEncryptType ==
    ASSUME NEW s \in SessionState
    PROVE  AfterEncrypt(s) \in SessionState
BY DEF AfterEncrypt, SessionState

LEMMA AfterDecryptType ==
    ASSUME NEW s \in SessionState, NEW pkt, pkt.counter \in Nat
    PROVE  AfterDecrypt(s, pkt) \in SessionState
BY DEF AfterDecrypt, SessionState

LEMMA OneStep ==
    ASSUME NEW S, NEW a \in S
    PROVE  <<a>> \in Seq(S)
OBVIOUS

LEMMA Joined ==
    ASSUME NEW S, NEW s \in Seq(S), NEW t \in Seq(S)
    PROVE  s \o t \in Seq(S)
BY ConcatProperties

-----------------------------------------------------------------------------
(* API calls *)

LEMMA SendContactRequestKeeps ==
    ASSUME ConsentInv, NEW p \in Peers, NEW q \in Peers, NEW addr \in Addresses,
           SendContactRequest(p, q, addr)
    PROVE  ConsentInv'
<1> DEFINE s == set_trust(store[p], q, "Pending")
           pkt == encrypt_as(p, q, session[p][q], "ContactRequest", "hello")
<1>1. /\ endpoint' = [endpoint EXCEPT ![p][q] = addr]
      /\ outgoing' = [outgoing EXCEPT ![p] = outgoing[p] \cup {q}]
      /\ session' = [session EXCEPT ![p][q] = AfterEncrypt(session[p][q])]
      /\ did' = did \cup {<<"request", p, q>>}
      /\ Spend("request")
      /\ UNCHANGED <<incoming, probe, disk, torn, detached, starts, route, net, submitted, shown>>
  BY DEF SendContactRequest, Awaiting, outside
<1>2. /\ store' = [store EXCEPT ![p] = s]
      /\ todo' = [todo EXCEPT ![p] = <<Save(store'[p])>> \o send_packet(p, addr, pkt)]
  BY DEF SendContactRequest, Do
<1>3. Grows
  BY <1>1 DEF Grows
<1>4. s \in MeantStores(did', submitted', p) /\ store'[p] = s
  <2>1. store[p] \in MeantStores(did', submitted', p)
    BY <1>3, PeerFacts, StoresGrow DEF Grows
  <2>2. s \in MeantStores(did', submitted', p)
    BY <2>1, SetTrustMeant DEF TrustStatus
  <2>3. store'[p] = s
    BY <1>2, Parts DEF StorePart
  <2> QED
    BY <2>2, <2>3
<1>5. send_packet(p, addr, pkt) \in Seq(MeantSteps(did', submitted', p))
  BY <1>1, SealedMeant DEF SealedTypes, Words
<1> HIDE DEF s, pkt
<1>6. StorePart'
  BY <1>2, <1>3, <1>4, StoreUpdate
<1>7. TodoPart'
  BY <1>2, <1>3, <1>4, <1>5, SaveMeant, OneStep, Joined, TodoUpdate
<1>8. DiskPart' /\ NetPart'
  BY <1>1, <1>3, LeftAlone
<1>9. RequestPart'
  BY <1>1, Parts DEF RequestPart
<1>10. PathPart'
  BY <1>1, PeerFacts, AfterEncryptType, PairUpdate, Parts DEF PathPart
<1>11. HistoryPart'
  BY <1>1, Parts DEF HistoryPart, Decisions
<1>12. OutsidePart'
  BY <1>1, SpendType, Parts DEF OutsidePart, Events
<1> QED
  BY <1>6, <1>7, <1>8, <1>9, <1>10, <1>11, <1>12, PartsNext

LEMMA DecideKeeps ==
    ASSUME ConsentInv, NEW p \in Peers, NEW q \in Peers, NEW trust \in TrustStatus,
           NEW answer \in {"accept", "reject"}, trust = "Accepted" => answer = "accept",
           Decide(p, q, trust, answer)
    PROVE  ConsentInv'
<1> DEFINE removed == remove_request(store[p], q)
           decided == set_trust(removed, q, trust)
           first == IF removed = store[p] THEN <<>> ELSE <<Save(removed)>>
           packets == send_packet(p, endpoint[p][q],
                          encrypt_as(p, q, session[p][q], "ContactResponse", answer))
<1>1. /\ q \in incoming[p]
      /\ incoming' = [incoming EXCEPT ![p] = incoming[p] \ {q}]
      /\ session' = [session EXCEPT ![p][q] = AfterEncrypt(session[p][q])]
      /\ did' = did \cup {<<answer, p, q>>}
      /\ UNCHANGED <<outgoing, endpoint, probe, disk, torn, detached, starts, route, net,
                     left, submitted, shown>>
  BY DEF Decide, outside
<1>2. /\ store' = [store EXCEPT ![p] = decided]
      /\ todo' = [todo EXCEPT ![p] = first \o <<Save(decided)>> \o packets]
  BY DEF Decide, Do
<1>3. Grows
  BY <1>1 DEF Grows
<1>4. trust = "Accepted" => Agreed(did', p, q)
  BY <1>1, Parts DEF RequestPart, Agreed
<1>5. /\ removed \in MeantStores(did', submitted', p)
      /\ decided \in MeantStores(did', submitted', p)
  <2>1. store[p] \in MeantStores(did', submitted', p)
    BY <1>3, PeerFacts, StoresGrow DEF Grows
  <2>2. removed \in MeantStores(did', submitted', p)
    BY <2>1, RemoveRequestMeant
  <2> HIDE DEF removed
  <2> QED
    BY <1>4, <2>2, SetTrustMeant
<1>6. packets \in Seq(MeantSteps(did', submitted', p))
  BY <1>1, PeerFacts, SealedMeant DEF SealedTypes, Words
<1> HIDE DEF removed, decided, packets
<1>7. first \in Seq(MeantSteps(did', submitted', p))
  BY <1>5, SaveMeant, OneStep
<1> HIDE DEF first
<1>8. StorePart'
  BY <1>2, <1>3, <1>5, StoreUpdate
<1>9. TodoPart'
  <2>1. <<Save(decided)>> \in Seq(MeantSteps(did', submitted', p))
    BY <1>5, SaveMeant, OneStep
  <2>2. first \o <<Save(decided)>> \in Seq(MeantSteps(did', submitted', p))
    BY <1>7, <2>1, Joined
  <2>3. first \o <<Save(decided)>> \o packets \in Seq(MeantSteps(did', submitted', p))
    BY <1>6, <2>2, Joined
  <2> QED
    BY <1>2, <1>3, <2>3, TodoUpdate
<1>10. DiskPart' /\ NetPart'
  BY <1>1, <1>3, LeftAlone
<1>11. RequestPart'
  BY <1>1, Parts DEF RequestPart
<1>12. PathPart'
  BY <1>1, PeerFacts, AfterEncryptType, PairUpdate, Parts DEF PathPart
<1>13. HistoryPart' /\ OutsidePart'
  BY <1>1, Parts DEF HistoryPart, OutsidePart, Decisions
<1> QED
  BY <1>8, <1>9, <1>10, <1>11, <1>12, <1>13, PartsNext

LEMMA SendKeeps ==
    ASSUME ConsentInv, NEW p \in Peers, NEW q \in Peers, NEW text \in Texts, Send(p, q, text)
    PROVE  ConsentInv'
<1> DEFINE s == append_message(store[p], q, text, TRUE)
           packets == send_packet(p, endpoint[p][q],
                          encrypt_as(p, q, session[p][q], "Message", text))
           sub == submitted \cup {[from |-> p, to |-> q, text |-> text]}
<1>1. /\ session' = [session EXCEPT ![p][q] = AfterEncrypt(session[p][q])]
      /\ Spend("message")
      /\ UNCHANGED <<incoming, outgoing, endpoint, probe, disk, torn, detached, starts, route,
                     net, did, shown>>
  BY DEF Send, outside
<1>2. \/ UNCHANGED <<store, todo, submitted>>
      \/ /\ store' = [store EXCEPT ![p] = s]
         /\ todo' = [todo EXCEPT ![p] = packets \o <<Save(store'[p])>>]
         /\ submitted' = sub
  BY DEF Send, Do
<1>3. Grows
  BY <1>1, <1>2 DEF Grows
<1>4. StorePart' /\ TodoPart'
  <2>1. CASE UNCHANGED <<store, todo, submitted>>
    BY <1>3, <2>1, LeftAlone
  <2>2. CASE /\ store' = [store EXCEPT ![p] = s]
             /\ todo' = [todo EXCEPT ![p] = packets \o <<Save(store'[p])>>]
             /\ submitted' = sub
    <3>1. s \in MeantStores(did', submitted', p)
      <4>1. store[p] \in MeantStores(did', submitted', p)
        BY <1>3, PeerFacts, StoresGrow DEF Grows
      <4> QED
        BY <4>1, AppendMessageMeant
    <3>2. packets \in Seq(MeantSteps(did', submitted', p))
      BY <2>2, PeerFacts, SealedMeant DEF SealedTypes, Words
    <3> HIDE DEF s, packets, sub
    <3>3. store'[p] = s
      BY <2>2, Parts DEF StorePart
    <3>4. packets \o <<Save(store'[p])>> \in Seq(MeantSteps(did', submitted', p))
      BY <3>1, <3>2, <3>3, SaveMeant, OneStep, Joined
    <3> QED
      BY <1>3, <2>2, <3>1, <3>4, StoreUpdate, TodoUpdate
  <2> QED
    BY <1>2, <2>1, <2>2
<1>5. DiskPart' /\ NetPart' /\ RequestPart'
  BY <1>1, <1>3, LeftAlone
<1>6. PathPart'
  BY <1>1, PeerFacts, AfterEncryptType, PairUpdate, Parts DEF PathPart
<1>7. HistoryPart'
  <2>1. [from |-> p, to |-> q, text |-> text] \in Submissions
    BY DEF Submissions
  <2>2. submitted' \subseteq Submissions
    BY <1>2, <2>1, Parts DEF HistoryPart
  <2> QED
    BY <1>1, <2>2, Parts DEF HistoryPart
<1>8. OutsidePart'
  BY <1>1, SpendType, Parts DEF OutsidePart, Events
<1> QED
  BY <1>4, <1>5, <1>6, <1>7, <1>8, PartsNext

LEMMA AddPeerKeeps ==
    ASSUME ConsentInv, NEW p \in Peers, NEW q \in Peers, NEW addr \in Addresses,
           AddPeer(p, q, addr)
    PROVE  ConsentInv'
<1> DEFINE s == set_trust(store[p], q, "Accepted")
<1>1. /\ endpoint' = [endpoint EXCEPT ![p][q] = addr]
      /\ did' = did \cup {<<"add_peer", p, q>>}
      /\ Spend("add_peer")
      /\ UNCHANGED <<incoming, outgoing, session, probe, disk, torn, detached, starts, route,
                     net, submitted, shown>>
  BY DEF AddPeer, outside
<1>2. /\ store' = [store EXCEPT ![p] = s]
      /\ todo' = [todo EXCEPT ![p] = <<Save(store'[p])>>]
  BY DEF AddPeer, Do
<1>3. Grows
  BY <1>1 DEF Grows
<1>4. s \in MeantStores(did', submitted', p) /\ store'[p] = s
  <2>1. store[p] \in MeantStores(did', submitted', p)
    BY <1>3, PeerFacts, StoresGrow DEF Grows
  <2>2. Agreed(did', p, q)
    BY <1>1 DEF Agreed
  <2>3. s \in MeantStores(did', submitted', p)
    BY <2>1, <2>2, SetTrustMeant DEF TrustStatus
  <2>4. store'[p] = s
    BY <1>2, Parts DEF StorePart
  <2> QED
    BY <2>3, <2>4
<1> HIDE DEF s
<1>5. StorePart'
  BY <1>2, <1>3, <1>4, StoreUpdate
<1>6. TodoPart'
  BY <1>2, <1>3, <1>4, SaveMeant, OneStep, TodoUpdate
<1>7. DiskPart' /\ NetPart' /\ RequestPart'
  BY <1>1, <1>3, LeftAlone
<1>8. PathPart'
  BY <1>1, PairUpdate, Parts DEF PathPart
<1>9. HistoryPart'
  BY <1>1, Parts DEF HistoryPart, Decisions
<1>10. OutsidePart'
  BY <1>1, SpendType, Parts DEF OutsidePart, Events
<1> QED
  BY <1>5, <1>6, <1>7, <1>8, <1>9, <1>10, PartsNext

LEMMA SetNicknameKeeps ==
    ASSUME ConsentInv, NEW p \in Peers, NEW q \in Peers, SetNickname(p, q)
    PROVE  ConsentInv'
<1> DEFINE s == set_nickname(store[p], q)
<1>1. /\ Spend("nickname")
      /\ UNCHANGED <<incoming, outgoing, session, endpoint, probe, disk, torn, detached, starts,
                     route, net, did, submitted, shown>>
  BY DEF SetNickname, outside, history
<1>2. /\ store' = [store EXCEPT ![p] = s]
      /\ todo' = [todo EXCEPT ![p] = <<Save(store'[p])>>]
  BY DEF SetNickname, Do
<1>3. Grows
  BY <1>1 DEF Grows
<1>4. s \in MeantStores(did', submitted', p) /\ store'[p] = s
  <2>1. s \in MeantStores(did', submitted', p)
    BY <1>1, PeerFacts, SetNicknameMeant
  <2>2. store'[p] = s
    BY <1>2, Parts DEF StorePart
  <2> QED
    BY <2>1, <2>2
<1> HIDE DEF s
<1>5. StorePart'
  BY <1>2, <1>3, <1>4, StoreUpdate
<1>6. TodoPart'
  BY <1>2, <1>3, <1>4, SaveMeant, OneStep, TodoUpdate
<1>7. DiskPart' /\ NetPart' /\ RequestPart' /\ PathPart'
  BY <1>1, <1>3, LeftAlone
<1>8. HistoryPart' /\ OutsidePart'
  BY <1>1, SpendType, Parts DEF HistoryPart, OutsidePart, Events
<1> QED
  BY <1>5, <1>6, <1>7, <1>8, PartsNext

LEMMA StartProbingType ==
    ASSUME NEW pr \in Probes, NEW addr \in Addresses
    PROVE  start_probing(pr, addr) \in Probes
BY DEF start_probing, Probes

LEMMA ProbeStartedMeant ==
    ASSUME ConsentInv, NEW D, NEW U, NEW p \in Peers, NEW q \in Peers, NEW addr \in Addresses
    PROVE  /\ ProbeStarted(p, q, addr) \in Seq(MeantSteps(D, U, p))
           /\ ProbeReply(p, q, addr) \in Seq(MeantSteps(D, U, p))
<1>1. send_probe(p, q, addr) \in Seq(MeantSteps(D, U, p))
  BY PeerFacts, HelloMeant, SentMeant DEF send_probe
<1> QED
  BY <1>1 DEF ProbeStarted, ProbeReply

LEMMA ConnectToKeeps ==
    ASSUME ConsentInv, NEW p \in Peers, NEW q \in Peers, NEW addr \in Addresses,
           ConnectTo(p, q, addr)
    PROVE  ConsentInv'
<1> DEFINE path == IF p \in RelayUsers THEN Relay ELSE addr
<1>1. /\ endpoint' = [endpoint EXCEPT ![p][q] = path]
      /\ probe' = [probe EXCEPT ![p][q] = start_probing(probe[p][q], addr)]
      /\ todo' = [todo EXCEPT ![p] = ProbeStarted(p, q, addr)]
      /\ Spend("connect")
      /\ UNCHANGED <<store, incoming, outgoing, session, disk, torn, detached, starts, route,
                     net, did, submitted, shown>>
  BY DEF ConnectTo, outside, history, Do
<1>2. path \in Addresses
  BY DEF Addresses
<1> HIDE DEF path
<1>3. Grows
  BY <1>1 DEF Grows
<1>4. TodoPart'
  BY <1>1, <1>3, ProbeStartedMeant, TodoUpdate
<1>5. StorePart' /\ DiskPart' /\ NetPart' /\ RequestPart'
  BY <1>1, <1>3, LeftAlone
<1>6. PathPart'
  BY <1>1, <1>2, PeerFacts, StartProbingType, PairUpdate, Parts DEF PathPart
<1>7. HistoryPart' /\ OutsidePart'
  BY <1>1, SpendType, Parts DEF HistoryPart, OutsidePart, Events
<1> QED
  BY <1>4, <1>5, <1>6, <1>7, PartsNext

LEMMA AnnouncementMeant ==
    ASSUME NEW D, NEW U, NEW p \in Peers, NEW r, NEW from \in Addresses
    PROVE  /\ Announcement(from, p) \in MeantDatagrams(D, U)
           /\ <<[op |-> "send", datagram |-> Announcement(from, p)]>> \in Seq(MeantSteps(D, U, r))
<1>1. Hello(p, Nobody) \in Packets /\ Meant(D, U, Hello(p, Nobody))
  BY HelloMeant
<1>2. Announcement(from, p) \in MeantDatagrams(D, U)
  BY <1>1 DEF Announcement, Datagram, MeantDatagrams, Datagrams, Addresses
<1>3. [op |-> "send", datagram |-> Announcement(from, p)] \in MeantSteps(D, U, r)
  BY <1>2 DEF MeantSteps
<1> QED
  BY <1>2, <1>3, OneStep

LEMMA AnnounceKeeps ==
    ASSUME ConsentInv, NEW p \in Peers, Announce(p)
    PROVE  ConsentInv'
<1> DEFINE e == <<[op |-> "send", datagram |-> Announcement(Addr(p), p)]>>
<1>1. /\ todo' = [todo EXCEPT ![p] = e]
      /\ Spend("announce")
      /\ UNCHANGED <<store, incoming, outgoing, session, endpoint, probe, disk, torn, detached,
                     starts, route, net, did, submitted, shown>>
  BY DEF Announce, memory, outside, history, Do
<1>2. Grows
  BY <1>1 DEF Grows
<1>3. e \in Seq(MeantSteps(did', submitted', p))
  BY PeerFacts, AnnouncementMeant
<1> HIDE DEF e
<1>4. TodoPart'
  BY <1>1, <1>2, <1>3, TodoUpdate
<1>5. StorePart' /\ DiskPart' /\ NetPart' /\ RequestPart' /\ PathPart'
  BY <1>1, <1>2, LeftAlone
<1>6. HistoryPart' /\ OutsidePart'
  BY <1>1, SpendType, Parts DEF HistoryPart, OutsidePart, Events
<1> QED
  BY <1>4, <1>5, <1>6, PartsNext

LEMMA TickKeeps ==
    ASSUME ConsentInv, NEW p \in Peers, Tick(p)
    PROVE  ConsentInv'
<1>1. PICK due \in SUBSET Punching(p) : \E order \in Orders(due) :
          /\ probe' = [probe EXCEPT ![p] = [q \in Peers |->
                 IF q \in due THEN Repeated(probe[p][q]) ELSE probe[p][q]]]
          /\ todo' = [todo EXCEPT ![p] = [i \in DOMAIN order |->
                 SendTo(p, probe[p][order[i]].candidate, Hello(p, order[i]))]]
  BY DEF Tick, Do
<1>2. PICK order \in Orders(due) :
          /\ probe' = [probe EXCEPT ![p] = [q \in Peers |->
                 IF q \in due THEN Repeated(probe[p][q]) ELSE probe[p][q]]]
          /\ todo' = [todo EXCEPT ![p] = [i \in DOMAIN order |->
                 SendTo(p, probe[p][order[i]].candidate, Hello(p, order[i]))]]
  BY <1>1
<1>3. UNCHANGED <<store, incoming, outgoing, session, endpoint, disk, torn, detached, starts,
                  route, net, left, did, submitted, shown>>
  BY DEF Tick, outside, history
<1>4. Grows
  BY <1>3 DEF Grows
<1> DEFINE e == [i \in DOMAIN order |->
                    SendTo(p, probe[p][order[i]].candidate, Hello(p, order[i]))]
           g == [q \in Peers |->
                    IF q \in due THEN Repeated(probe[p][q]) ELSE probe[p][q]]
<1>5. e \in Seq(MeantSteps(did', submitted', p))
  <2>1. due \subseteq Peers
    BY DEF Punching
  <2>2. Cardinality(due) \in Nat
    BY <2>1, FS_Subset, FS_CardinalityType
  <2>3. order \in [1 .. Cardinality(due) -> due]
    BY DEF Orders
  <2>4. ASSUME NEW i \in DOMAIN order
        PROVE  e[i] \in MeantSteps(did', submitted', p)
    <3>1. order[i] \in Peers
      BY <2>1, <2>3
    <3> QED
      BY <3>1, PeerFacts, HelloMeant, SentMeant
  <2> HIDE DEF e
  <2>5. e \in [1 .. Cardinality(due) -> MeantSteps(did', submitted', p)]
    BY <2>3, <2>4 DEF e
  <2> QED
    BY <2>2, <2>5
<1>6. g \in [Peers -> Probes]
  <2>1. ASSUME NEW q \in Peers
        PROVE  Repeated(probe[p][q]) \in Probes /\ probe[p][q] \in Probes
    <3>1. probe[p][q] \in Probes
      BY PeerFacts
    <3> QED
      BY <3>1 DEF Probes, Repeated
  <2> QED
    BY <2>1
<1>7. probe' = [probe EXCEPT ![p] = g] /\ todo' = [todo EXCEPT ![p] = e]
  BY <1>2
<1> HIDE DEF e, g
<1>8. TodoPart'
  BY <1>4, <1>5, <1>7, TodoUpdate
<1>9. StorePart' /\ DiskPart' /\ NetPart' /\ RequestPart'
  BY <1>3, <1>4, LeftAlone
<1>10. PathPart'
  BY <1>3, <1>6, <1>7, RowUpdate, Parts DEF PathPart
<1>11. HistoryPart' /\ OutsidePart'
  BY <1>3, Parts DEF HistoryPart, OutsidePart
<1> QED
  BY <1>8, <1>9, <1>10, <1>11, PartsNext

-----------------------------------------------------------------------------
(* poll *)

\* What is known of a datagram in flight, and what taking it does.
LEMMA InFlight ==
    ASSUME ConsentInv, NEW d \in net
    PROVE  /\ d.from \in Addresses
           /\ d.pkt \in Packets /\ d.pkt.source \in Peers
           /\ Meant(did, submitted, d.pkt)
           /\ d.pkt.type = "Connect" => d.pkt.endpoint \in Addresses
           /\ d.pkt.type \in SealedTypes =>
                 /\ d.pkt.counter \in Nat
                 /\ d.pkt.payload.text \in Words
<1>1. d \in Datagrams /\ Meant(did, submitted, d.pkt)
  BY Parts DEF NetPart, MeantDatagrams
<1>2. d.from \in Addresses /\ d.pkt \in Packets
  BY <1>1 DEF Datagrams
<1>3. d.pkt \in SealedPackets \/ d.pkt \notin SealedPackets
  OBVIOUS
<1>4. CASE d.pkt \in SealedPackets
  BY <1>1, <1>2, <1>4 DEF SealedPackets, SealedPayloads, SealedTypes
<1>5. CASE d.pkt \notin SealedPackets
  BY <1>1, <1>2, <1>5 DEF Packets, SealedTypes
<1> QED
  BY <1>3, <1>4, <1>5

LEMMA ReceiveFacts ==
    ASSUME ConsentInv, NEW p \in Peers, NEW d \in net, Receive(p, d)
    PROVE  net' \subseteq net /\ left' \in [Events -> Nat]
<1>1. \/ net' = net \ {d} /\ UNCHANGED left
      \/ Spend("duplicate") /\ UNCHANGED net
  BY DEF Receive
<1>2. left \in [Events -> Nat]
  BY Parts DEF OutsidePart
<1> QED
  BY <1>1, <1>2, SpendType DEF Events

LEMMA PollHelloKeeps ==
    ASSUME ConsentInv, NEW p \in Peers, NEW d \in net, PollHello(p, d)
    PROVE  ConsentInv'
<1> DEFINE q == d.pkt.source
           pr == [probe[p][q] EXCEPT !.confirmed = TRUE]
<1>1. q \in Peers /\ d.from \in Addresses
  BY InFlight
<1>2. /\ Receive(p, d)
      /\ endpoint' = [endpoint EXCEPT ![p][q] = d.from]
      /\ todo' = [todo EXCEPT ![p] = ProbeReply(p, q, d.from)]
      /\ UNCHANGED <<store, incoming, outgoing, session, disk, torn, detached, starts, route,
                     did, submitted, shown>>
  BY DEF PollHello, outside, history, Do
<1>3. probe' = [probe EXCEPT ![p][q] = pr]
  BY DEF PollHello
<1>4. Grows
  BY <1>2 DEF Grows
<1>5. net' \subseteq net /\ left' \in [Events -> Nat]
  BY <1>2, ReceiveFacts
<1>6. pr \in Probes
  <2>1. probe[p][q] \in Probes
    BY <1>1, PeerFacts
  <2> QED
    BY <2>1 DEF Probes
<1> HIDE DEF pr, q
<1>7. TodoPart'
  BY <1>1, <1>2, <1>4, ProbeStartedMeant, TodoUpdate
<1>8. StorePart' /\ DiskPart' /\ NetPart' /\ RequestPart'
  BY <1>2, <1>4, <1>5, LeftAlone
<1>9. PathPart'
  BY <1>1, <1>2, <1>3, <1>6, PairUpdate, Parts DEF PathPart
<1>10. HistoryPart' /\ OutsidePart'
  BY <1>2, <1>5, Parts DEF HistoryPart, OutsidePart
<1> QED
  BY <1>7, <1>8, <1>9, <1>10, PartsNext

LEMMA PollConnectKeeps ==
    ASSUME ConsentInv, NEW p \in Peers, NEW d \in net, PollConnect(p, d)
    PROVE  ConsentInv'
<1> DEFINE q == d.pkt.source
           addr == d.pkt.endpoint
           path == FallbackPath(p, q)
<1>1. q \in Peers /\ addr \in Addresses
  BY InFlight DEF PollConnect
<1>2. /\ Receive(p, d)
      /\ UNCHANGED <<store, incoming, outgoing, session, disk, torn, detached, starts, route,
                     did, submitted, shown>>
  BY DEF PollConnect, outside, history
<1>3. \/ UNCHANGED <<probe, endpoint, todo>>
      \/ /\ endpoint' = [endpoint EXCEPT ![p][q] = path]
         /\ probe' = [probe EXCEPT ![p][q] = start_probing(probe[p][q], addr)]
         /\ todo' = [todo EXCEPT ![p] = ProbeStarted(p, q, addr)]
  BY DEF PollConnect, Do
<1>4. Grows
  BY <1>2 DEF Grows
<1>5. net' \subseteq net /\ left' \in [Events -> Nat]
  BY <1>2, ReceiveFacts
<1>6. path \in Addresses
  <2>1. endpoint[p][q] \in Addresses
    BY <1>1, PeerFacts
  <2> QED
    BY <2>1 DEF FallbackPath, Route, RelayOf, Addresses
<1> HIDE DEF q, addr, path
<1>7. TodoPart' /\ PathPart'
  <2>1. CASE UNCHANGED <<probe, endpoint, todo>>
    BY <1>2, <1>4, <2>1, LeftAlone
  <2>2. CASE /\ endpoint' = [endpoint EXCEPT ![p][q] = path]
             /\ probe' = [probe EXCEPT ![p][q] = start_probing(probe[p][q], addr)]
             /\ todo' = [todo EXCEPT ![p] = ProbeStarted(p, q, addr)]
    <3>1. TodoPart'
      BY <1>1, <1>4, <2>2, ProbeStartedMeant, TodoUpdate
    <3>2. PathPart'
      BY <1>1, <1>2, <1>6, <2>2, PeerFacts, StartProbingType, PairUpdate, Parts DEF PathPart
    <3> QED
      BY <3>1, <3>2
  <2> QED
    BY <1>3, <2>1, <2>2
<1>8. StorePart' /\ DiskPart' /\ NetPart' /\ RequestPart'
  BY <1>2, <1>4, <1>5, LeftAlone
<1>9. HistoryPart' /\ OutsidePart'
  BY <1>2, <1>5, Parts DEF HistoryPart, OutsidePart
<1> QED
  BY <1>7, <1>8, <1>9, PartsNext

LEMMA PollDroppedKeeps ==
    ASSUME ConsentInv, NEW p \in Peers, NEW d \in net, PollDropped(p, d)
    PROVE  ConsentInv'
<1>1. /\ Receive(p, d)
      /\ UNCHANGED <<store, incoming, outgoing, session, endpoint, probe, todo, disk, torn,
                     detached, starts, route, did, submitted, shown>>
  BY DEF PollDropped, memory, outside, history
<1>2. net' \subseteq net /\ left' \in [Events -> Nat] /\ Grows
  BY <1>1, ReceiveFacts DEF Grows
<1>3. StorePart' /\ DiskPart' /\ TodoPart' /\ NetPart' /\ RequestPart' /\ PathPart'
  BY <1>1, <1>2, LeftAlone
<1>4. HistoryPart' /\ OutsidePart'
  BY <1>1, <1>2, Parts DEF HistoryPart, OutsidePart
<1> QED
  BY <1>3, <1>4, PartsNext

\* A packet that decrypts is addressed to us, and leaves well-formed paths.
LEMMA OpenedFacts ==
    ASSUME ConsentInv, NEW p \in Peers, NEW d \in net, d.pkt.type \in SealedTypes,
           Opened(p, d), UNCHANGED probe
    PROVE  d.pkt.destination = p /\ PathPart'
<1> DEFINE q == d.pkt.source
           s == AfterDecrypt(session[p][q], d.pkt)
<1>1. q \in Peers /\ d.from \in Addresses /\ d.pkt.counter \in Nat
  BY InFlight
<1>2. /\ d.pkt.destination = p
      /\ session' = [session EXCEPT ![p][q] = s]
      /\ endpoint' = endpoint \/ endpoint' = [endpoint EXCEPT ![p][q] = d.from]
  BY Parts DEF Opened, CanDecrypt, Followed, PathPart, PerPair
<1>3. s \in SessionState
  BY <1>1, PeerFacts, AfterDecryptType
<1> HIDE DEF q, s
<1>4. /\ session \in PerPair(SessionState) /\ endpoint \in PerPair(Addresses)
      /\ probe' \in PerPair(Probes)
  BY Parts DEF PathPart
<1>5. session' \in PerPair(SessionState)
  BY <1>1, <1>2, <1>3, <1>4, PairUpdate
<1>6. endpoint' \in PerPair(Addresses)
  BY <1>1, <1>2, <1>4, PairUpdate
<1> QED
  BY <1>2, <1>4, <1>5, <1>6 DEF PathPart

LEMMA PollMessageKeeps ==
    ASSUME ConsentInv, NEW p \in Peers, NEW d \in net, PollMessage(p, d)
    PROVE  ConsentInv'
<1> DEFINE q == d.pkt.source
           text == d.pkt.payload.text
           s == append_message(store[p], q, text, FALSE)
<1>1. /\ d.pkt.type = "Message" /\ Receive(p, d) /\ Opened(p, d)
      /\ store[p].trust[q] = "Accepted"
      /\ store' = [store EXCEPT ![p] = s]
      /\ todo' = [todo EXCEPT ![p] = <<Save(store'[p]), Notify("message", q, text)>>]
      /\ UNCHANGED <<incoming, outgoing, probe, disk, torn, detached, starts, route,
                     did, submitted, shown>>
  BY DEF PollMessage, GateOpen, MessageEffects, outside, history, Do
<1>2. net' \subseteq net /\ left' \in [Events -> Nat] /\ Grows
  BY <1>1, ReceiveFacts DEF Grows
<1>3. /\ q \in Peers /\ text \in Words /\ Meant(did, submitted, d.pkt)
  BY <1>1, InFlight DEF SealedTypes
<1>4. d.pkt.destination = p /\ PathPart'
  BY <1>1, OpenedFacts DEF SealedTypes
<1>5. [from |-> q, to |-> p, text |-> text] \in submitted
  BY <1>1, <1>3, <1>4 DEF Meant
<1>6. text \in Texts
  <2>1. [from |-> q, to |-> p, text |-> text] \in Submissions
    BY <1>5, Parts DEF HistoryPart
  <2> QED
    BY <2>1 DEF Submissions
<1>7. Agreed(did, p, q)
  BY <1>1, <1>3, PeerFacts DEF MeantStores
<1>8. s \in MeantStores(did', submitted', p)
  <2> HIDE DEF q, text
  <2> QED
    BY <1>1, <1>3, <1>5, <1>6, <1>7, PeerFacts, AppendMessageMeant
<1> HIDE DEF q, text, s
<1>9. store'[p] = s
  BY <1>1, Parts DEF StorePart
<1>10. <<Save(store'[p]), Notify("message", q, text)>> \in Seq(MeantSteps(did', submitted', p))
  BY <1>3, <1>8, <1>9, SaveMeant, NotifyMeant
<1>11. StorePart' /\ TodoPart'
  BY <1>1, <1>2, <1>8, <1>10, StoreUpdate, TodoUpdate
<1>12. DiskPart' /\ NetPart' /\ RequestPart'
  BY <1>1, <1>2, LeftAlone
<1>13. HistoryPart' /\ OutsidePart'
  BY <1>1, <1>2, Parts DEF HistoryPart, OutsidePart
<1> QED
  BY <1>4, <1>11, <1>12, <1>13, PartsNext

LEMMA PollRequestKeeps ==
    ASSUME ConsentInv, NEW p \in Peers, NEW d \in net, PollRequest(p, d)
    PROVE  ConsentInv'
<1> DEFINE q == d.pkt.source
           pending == set_trust(store[p], q, "Pending")
           asked == add_request(pending, q)
           effects == <<Save(pending), Save(asked), Notify("request", q, "hello")>>
<1>1. /\ d.pkt.type = "ContactRequest" /\ Receive(p, d) /\ Opened(p, d)
      /\ UNCHANGED <<outgoing, probe, disk, torn, detached, starts, route, did, submitted, shown>>
  BY DEF PollRequest, outside, history
<1>2. \/ UNCHANGED <<store, incoming, todo>>
      \/ /\ incoming' = [incoming EXCEPT ![p] = incoming[p] \cup {q}]
         /\ store' = [store EXCEPT ![p] = asked]
         /\ todo' = [todo EXCEPT ![p] = effects]
  BY DEF PollRequest, RequestEffects, Do
<1>3. net' \subseteq net /\ left' \in [Events -> Nat] /\ Grows
  BY <1>1, ReceiveFacts DEF Grows
<1>4. q \in Peers /\ Meant(did, submitted, d.pkt)
  BY InFlight
<1>5. d.pkt.destination = p /\ PathPart'
  BY <1>1, OpenedFacts DEF SealedTypes
<1>6. <<"request", q, p>> \in did
  BY <1>1, <1>4, <1>5 DEF Meant
<1>7. pending \in MeantStores(did', submitted', p)
  BY <1>1, <1>4, PeerFacts, SetTrustMeant DEF TrustStatus
<1> HIDE DEF pending
<1>8. asked \in MeantStores(did', submitted', p)
  BY <1>1, <1>4, <1>6, <1>7, AddRequestMeant
<1> HIDE DEF asked
<1>9. effects \in Seq(MeantSteps(did', submitted', p))
  BY <1>4, <1>7, <1>8, SaveMeant, NotifyMeant DEF Words
<1> HIDE DEF q, effects
<1>10. StorePart' /\ TodoPart' /\ RequestPart'
  <2>1. CASE UNCHANGED <<store, incoming, todo>>
    BY <1>1, <1>3, <2>1, LeftAlone
  <2>2. CASE /\ incoming' = [incoming EXCEPT ![p] = incoming[p] \cup {q}]
             /\ store' = [store EXCEPT ![p] = asked]
             /\ todo' = [todo EXCEPT ![p] = effects]
    <3>1. StorePart' /\ TodoPart'
      BY <1>3, <1>8, <1>9, <2>2, StoreUpdate, TodoUpdate
    <3>2. RequestPart'
      BY <1>1, <1>4, <1>6, <2>2, Parts DEF RequestPart
    <3> QED
      BY <3>1, <3>2
  <2> QED
    BY <1>2, <2>1, <2>2
<1>11. DiskPart' /\ NetPart'
  BY <1>1, <1>3, LeftAlone
<1>12. HistoryPart' /\ OutsidePart'
  BY <1>1, <1>3, Parts DEF HistoryPart, OutsidePart
<1> QED
  BY <1>5, <1>10, <1>11, <1>12, PartsNext

LEMMA PollResponseKeeps ==
    ASSUME ConsentInv, NEW p \in Peers, NEW d \in net, PollResponse(p, d)
    PROVE  ConsentInv'
<1> DEFINE q == d.pkt.source
           answer == d.pkt.payload.text
           s == set_trust(store[p], q, DecisionTrust(answer))
           effects == <<Save(store'[p]), Notify("response", q, answer)>>
<1>1. /\ d.pkt.type = "ContactResponse" /\ Receive(p, d) /\ Opened(p, d)
      /\ UNCHANGED <<incoming, probe, disk, torn, detached, starts, route, did, submitted, shown>>
  BY DEF PollResponse, outside, history
<1>2. \/ UNCHANGED <<store, outgoing, todo>>
      \/ /\ q \in outgoing[p]
         /\ outgoing' = [outgoing EXCEPT ![p] = outgoing[p] \ {q}]
         /\ store' = [store EXCEPT ![p] = s]
         /\ todo' = [todo EXCEPT ![p] = effects]
  BY DEF PollResponse, Do
<1>3. net' \subseteq net /\ left' \in [Events -> Nat] /\ Grows
  BY <1>1, ReceiveFacts DEF Grows
<1>4. q \in Peers /\ answer \in Words /\ Meant(did, submitted, d.pkt)
  BY <1>1, InFlight DEF SealedTypes
<1>5. d.pkt.destination = p /\ PathPart'
  BY <1>1, OpenedFacts DEF SealedTypes
<1>6. answer = "accept" => <<"accept", q, p>> \in did
  BY <1>1, <1>4, <1>5 DEF Meant
<1> HIDE DEF q, answer
<1>7. StorePart' /\ TodoPart' /\ RequestPart'
  <2>1. CASE UNCHANGED <<store, outgoing, todo>>
    BY <1>1, <1>3, <2>1, LeftAlone
  <2>2. CASE /\ q \in outgoing[p]
             /\ outgoing' = [outgoing EXCEPT ![p] = outgoing[p] \ {q}]
             /\ store' = [store EXCEPT ![p] = s]
             /\ todo' = [todo EXCEPT ![p] = effects]
    <3>1. DecisionTrust(answer) = "Accepted" => Agreed(did', p, q)
      BY <1>1, <1>6, <2>2, Parts DEF DecisionTrust, Agreed, RequestPart
    <3>2. DecisionTrust(answer) \in TrustStatus
      BY DEF DecisionTrust, TrustStatus
    <3>3. s \in MeantStores(did', submitted', p)
      BY <1>1, <1>4, <3>1, <3>2, PeerFacts, SetTrustMeant
    <3> HIDE DEF s
    <3>4. store'[p] = s
      BY <2>2, Parts DEF StorePart
    <3>5. effects \in Seq(MeantSteps(did', submitted', p))
      BY <1>4, <3>3, <3>4, SaveMeant, NotifyMeant
    <3> HIDE DEF effects
    <3>6. StorePart' /\ TodoPart'
      BY <1>3, <2>2, <3>3, <3>5, StoreUpdate, TodoUpdate
    <3>7. RequestPart'
      BY <1>1, <2>2, Parts DEF RequestPart
    <3> QED
      BY <3>6, <3>7
  <2> QED
    BY <1>2, <2>1, <2>2
<1>8. DiskPart' /\ NetPart'
  BY <1>1, <1>3, LeftAlone
<1>9. HistoryPart' /\ OutsidePart'
  BY <1>1, <1>3, Parts DEF HistoryPart, OutsidePart
<1> QED
  BY <1>5, <1>7, <1>8, <1>9, PartsNext

LEMMA PollKeeps ==
    ASSUME ConsentInv, NEW p \in Peers, NEW d \in net, Poll(p, d)
    PROVE  ConsentInv'
BY PollHelloKeeps, PollConnectKeeps, PollDroppedKeeps, PollMessageKeeps, PollRequestKeeps,
   PollResponseKeeps DEF Poll

-----------------------------------------------------------------------------
(* Effects, restarts, the relay and the network *)

LEMMA EffectKeeps ==
    ASSUME ConsentInv, NEW p \in Peers, Effect(p)
    PROVE  ConsentInv'
<1> DEFINE S == MeantSteps(did, submitted, p)
           e == Head(todo[p])
<1>1. /\ todo[p] # <<>> /\ todo' = [todo EXCEPT ![p] = Tail(todo[p])]
      /\ EffectSave(p) \/ EffectSend(p) \/ EffectNotify(p)
      /\ UNCHANGED <<store, incoming, outgoing, session, endpoint, probe, detached, starts,
                     route, did, submitted>>
  BY DEF Effect, memory
<1>2. Grows
  BY <1>1 DEF Grows
<1>3. e \in S /\ Tail(todo[p]) \in Seq(S)
  <2>1. todo[p] \in Seq(S)
    BY Parts DEF TodoPart
  <2> HIDE DEF S
  <2> QED
    BY <1>1, <2>1, HeadTailProperties
<1>4. TodoPart'
  BY <1>1, <1>2, <1>3, TodoUpdate
<1>5. StorePart' /\ RequestPart' /\ PathPart'
  BY <1>1, <1>2, LeftAlone
<1>6. CASE EffectSave(p)
  <2>1. e.op = "save" /\ UNCHANGED <<net, shown>>
    BY <1>6 DEF EffectSave
  <2>2. e.store \in MeantStores(did, submitted, p) /\ e.store \in Stores
    BY <1>3, <2>1 DEF MeantSteps, MeantStores
  <2>3. \/ UNCHANGED <<disk, torn, left>>
        \/ disk' = [disk EXCEPT ![p] = e.store] /\ torn' = torn \ {p} /\ UNCHANGED left
        \/ Spend("save_failure") /\ torn' \in {torn, torn \cup {p}} /\ UNCHANGED disk
    BY <1>6 DEF EffectSave
  <2> HIDE DEF e
  <2>4. DiskPart'
    BY <1>1, <2>2, <2>3, Parts DEF DiskPart
  <2>5. left' \in [Events -> Nat] /\ torn' \subseteq Peers
    BY <2>3, SpendType, Parts DEF OutsidePart, Events
  <2>6. NetPart'
    BY <1>2, <2>1, LeftAlone
  <2>7. HistoryPart' /\ OutsidePart'
    BY <1>1, <2>1, <2>5, Parts DEF HistoryPart, OutsidePart
  <2> QED
    BY <1>4, <1>5, <2>4, <2>6, <2>7, PartsNext
<1>7. CASE EffectSend(p)
  <2>1. /\ e.op = "send" /\ net' = net \cup {e.datagram}
        /\ UNCHANGED <<disk, torn, left, shown>>
    BY <1>7 DEF EffectSend
  <2>2. e.datagram \in MeantDatagrams(did, submitted) /\ e.datagram \in Datagrams
    BY <1>3, <2>1 DEF MeantSteps, MeantDatagrams
  <2> HIDE DEF e
  <2>3. NetPart'
    BY <1>1, <2>1, <2>2, Parts DEF NetPart
  <2>4. DiskPart'
    BY <1>2, <2>1, LeftAlone
  <2>5. HistoryPart' /\ OutsidePart'
    BY <1>1, <2>1, Parts DEF HistoryPart, OutsidePart
  <2> QED
    BY <1>4, <1>5, <2>3, <2>4, <2>5, PartsNext
<1>8. CASE EffectNotify(p)
  <2>1. /\ e.op = "notify" /\ shown' = [shown EXCEPT ![p] = Append(shown[p], e.event)]
        /\ UNCHANGED <<disk, torn, left, net>>
    BY <1>8 DEF EffectNotify
  <2>2. e.event \in Notices
    BY <1>3, <2>1 DEF MeantSteps
  <2> HIDE DEF e
  <2>3. shown \in [Peers -> Seq(Notices)]
    BY Parts DEF HistoryPart
  <2>4. Append(shown[p], e.event) \in Seq(Notices)
    BY <2>2, <2>3, AppendProperties
  <2>5. shown' \in [Peers -> Seq(Notices)]
    BY <2>1, <2>3, <2>4
  <2>6. DiskPart' /\ NetPart'
    BY <1>2, <2>1, LeftAlone
  <2>7. HistoryPart' /\ OutsidePart'
    BY <1>1, <2>1, <2>5, Parts DEF HistoryPart, OutsidePart
  <2> QED
    BY <1>4, <1>5, <2>6, <2>7, PartsNext
<1> QED
  BY <1>1, <1>6, <1>7, <1>8

LEMMA RestartKeeps ==
    ASSUME ConsentInv, NEW p \in Peers, Restart(p)
    PROVE  ConsentInv'
<1> DEFINE s == OpenStore(p)
           here == PortOf(p, starts'[p])
           effects == IF p \in RelayUsers
                      THEN <<[op |-> "send", datagram |-> Announcement(here, p)]>>
                      ELSE <<>>
<1>1. /\ starts' = [starts EXCEPT ![p] = starts[p] + 1]
      /\ incoming' = [incoming EXCEPT ![p] = s.requests]
      /\ detached' = IF p \in torn THEN detached \cup {p} ELSE detached \ {p}
      /\ outgoing' = [outgoing EXCEPT ![p] = {}]
      /\ Spend("restart")
      /\ UNCHANGED <<disk, torn, route, net, did, submitted, shown>>
  BY DEF Restart, Resurfaced, history
<1>2. /\ session' = [session EXCEPT ![p] = [q \in Peers |-> FreshSession]]
      /\ endpoint' = [endpoint EXCEPT ![p] = [q \in Peers |-> NoAddr]]
      /\ probe' = [probe EXCEPT ![p] = [q \in Peers |-> NoProbe]]
  BY DEF Restart
<1>3. /\ store' = [store EXCEPT ![p] = s]
      /\ todo' = [todo EXCEPT ![p] = effects]
  BY DEF Restart, Do
<1>4. Grows
  BY <1>1 DEF Grows
<1>5. s \in MeantStores(did', submitted', p)
  BY <1>1, PeerFacts, EmptyStoreMeant DEF OpenStore
<1>6. starts' \in [Peers -> Nat] /\ here \in Addresses
  <2>1. starts \in [Peers -> Nat]
    BY Parts DEF OutsidePart
  <2>2. starts' \in [Peers -> Nat]
    BY <1>1, <2>1
  <2>3. starts'[p] \in Nat
    BY <2>2
  <2> QED
    BY <2>2, <2>3 DEF PortOf, Addresses
<1> HIDE DEF s, here
<1>7. effects \in Seq(MeantSteps(did', submitted', p))
  <2>1. <<>> \in Seq(MeantSteps(did', submitted', p))
    OBVIOUS
  <2> QED
    BY <1>6, <2>1, AnnouncementMeant
<1> HIDE DEF effects
<1>8. StorePart' /\ TodoPart'
  BY <1>3, <1>4, <1>5, <1>7, StoreUpdate, TodoUpdate
<1>9. RequestPart'
  <2>1. s.requests \subseteq Peers /\ \A q \in s.requests : <<"request", q, p>> \in did'
    BY <1>5 DEF MeantStores, Stores
  <2> QED
    BY <1>1, <2>1, Parts DEF RequestPart
<1>10. PathPart'
  <2>1. /\ [q \in Peers |-> FreshSession] \in [Peers -> SessionState]
        /\ [q \in Peers |-> NoAddr] \in [Peers -> Addresses]
        /\ [q \in Peers |-> NoProbe] \in [Peers -> Probes]
    BY FreshSessionType DEF Addresses, NoProbe, Probes
  <2> QED
    BY <1>2, <2>1, RowUpdate, Parts DEF PathPart
<1>11. DiskPart' /\ NetPart'
  BY <1>1, <1>4, LeftAlone
<1>12. HistoryPart' /\ OutsidePart'
  BY <1>1, <1>6, SpendType, Parts DEF HistoryPart, OutsidePart, Events
<1> QED
  BY <1>8, <1>9, <1>10, <1>11, <1>12, PartsNext

LEMMA RelayHandleKeeps ==
    ASSUME ConsentInv, NEW d \in net, RelayHandle(d)
    PROVE  ConsentInv'
<1> DEFINE known == [route EXCEPT ![d.pkt.source] = d.from]
           on == {Datagram(Relay, known[r], d.pkt) :
                    r \in {r \in Peers : r = d.pkt.destination /\ known[r] # NoAddr}}
<1>1. /\ route' = known /\ net' = (net \ {d}) \cup on
      /\ UNCHANGED <<store, incoming, outgoing, session, endpoint, probe, disk, torn, detached,
                     starts, todo, left, did, submitted, shown>>
  BY DEF RelayHandle, memory, history
<1>2. Grows
  BY <1>1 DEF Grows
<1>3. known \in [Peers -> Addresses]
  BY InFlight, Parts DEF OutsidePart
<1> HIDE DEF known
<1>4. on \subseteq MeantDatagrams(did, submitted) /\ on \subseteq Datagrams
  <2> SUFFICES ASSUME NEW r \in Peers
               PROVE  Datagram(Relay, known[r], d.pkt) \in MeantDatagrams(did, submitted)
    BY DEF MeantDatagrams
  <2>1. known[r] \in Addresses /\ Relay \in Addresses
    BY <1>3 DEF Addresses
  <2>2. d.pkt \in Packets /\ Meant(did, submitted, d.pkt)
    BY InFlight
  <2> QED
    BY <2>1, <2>2 DEF Datagram, MeantDatagrams, Datagrams
<1> HIDE DEF on
<1>5. NetPart'
  BY <1>1, <1>4, Parts DEF NetPart
<1>6. StorePart' /\ DiskPart' /\ TodoPart' /\ RequestPart' /\ PathPart'
  BY <1>1, <1>2, LeftAlone
<1>7. HistoryPart' /\ OutsidePart'
  BY <1>1, <1>3, Parts DEF HistoryPart, OutsidePart
<1> QED
  BY <1>5, <1>6, <1>7, PartsNext

LEMMA RelayExpireKeeps ==
    ASSUME ConsentInv, NEW q \in Peers, RelayExpire(q)
    PROVE  ConsentInv'
<1>1. /\ route' = [route EXCEPT ![q] = NoAddr] /\ Spend("route_expiry")
      /\ UNCHANGED <<store, incoming, outgoing, session, endpoint, probe, disk, torn, detached,
                     starts, todo, net, did, submitted, shown>>
  BY DEF RelayExpire, memory, history
<1>2. Grows
  BY <1>1 DEF Grows
<1>3. StorePart' /\ DiskPart' /\ TodoPart' /\ NetPart' /\ RequestPart' /\ PathPart'
  BY <1>1, <1>2, LeftAlone
<1>4. route' \in [Peers -> Addresses]
  BY <1>1, Parts DEF OutsidePart, Addresses
<1>5. HistoryPart' /\ OutsidePart'
  BY <1>1, <1>4, SpendType, Parts DEF HistoryPart, OutsidePart, Events
<1> QED
  BY <1>3, <1>5, PartsNext

LEMMA LoseKeeps ==
    ASSUME ConsentInv, NEW d \in net, Lose(d)
    PROVE  ConsentInv'
<1>1. /\ net' \subseteq net /\ Spend("loss")
      /\ UNCHANGED <<store, incoming, outgoing, session, endpoint, probe, disk, torn, detached,
                     starts, route, todo, did, submitted, shown>>
  BY DEF Lose, memory, outside, history
<1>2. Grows
  BY <1>1 DEF Grows
<1>3. StorePart' /\ DiskPart' /\ TodoPart' /\ NetPart' /\ RequestPart' /\ PathPart'
  BY <1>1, <1>2, LeftAlone
<1>4. HistoryPart' /\ OutsidePart'
  BY <1>1, SpendType, Parts DEF HistoryPart, OutsidePart, Events
<1> QED
  BY <1>3, <1>4, PartsNext

LEMMA AdvertiseKeeps ==
    ASSUME ConsentInv, NEW p \in Peers, NEW q \in Peers, NEW addr \in Addresses,
           Advertise(p, q, addr)
    PROVE  ConsentInv'
<1> DEFINE d == Datagram(Signaling, Addr(q), Connect(p, q, addr))
<1>1. /\ net' = net \cup {d} /\ Spend("advertise")
      /\ UNCHANGED <<store, incoming, outgoing, session, endpoint, probe, disk, torn, detached,
                     starts, route, todo, did, submitted, shown>>
  BY DEF Advertise, memory, outside, history
<1>2. Grows
  BY <1>1 DEF Grows
<1>3. d \in MeantDatagrams(did, submitted) /\ d \in Datagrams
  <2>1. Connect(p, q, addr) \in Packets /\ Meant(did, submitted, Connect(p, q, addr))
    BY DEF Connect, Packets, Meant
  <2>2. Addr(q) \in Addresses /\ Signaling \in Addresses
    BY PeerFacts DEF Addresses
  <2> QED
    BY <2>1, <2>2 DEF Datagram, MeantDatagrams, Datagrams
<1> HIDE DEF d
<1>4. NetPart'
  BY <1>1, <1>3, Parts DEF NetPart
<1>5. StorePart' /\ DiskPart' /\ TodoPart' /\ RequestPart' /\ PathPart'
  BY <1>1, <1>2, LeftAlone
<1>6. HistoryPart' /\ OutsidePart'
  BY <1>1, SpendType, Parts DEF HistoryPart, OutsidePart, Events
<1> QED
  BY <1>4, <1>5, <1>6, PartsNext

-----------------------------------------------------------------------------
LEMMA InitConsent == Init => ConsentInv
<1> SUFFICES ASSUME Init PROVE ConsentInv
  OBVIOUS
<1>1. StorePart /\ DiskPart
  <2>1. EmptyStore \in Stores
    BY EmptyStoreMeant DEF MeantStores
  <2> QED
    BY <2>1, EmptyStoreMeant DEF Init, StorePart, DiskPart
<1>2. TodoPart
  BY DEF Init, TodoPart
<1>3. NetPart
  <2>1. ASSUME NEW p \in RelayUsers
        PROVE  Announcement(PortOf(p, 0), p) \in MeantDatagrams(did, submitted)
    <3>1. p \in Peers /\ PortOf(p, 0) \in Addresses
      BY DEF PortOf, Addresses
    <3> QED
      BY <3>1, AnnouncementMeant
  <2> QED
    BY <2>1 DEF Init, NetPart, MeantDatagrams
<1>4. RequestPart /\ HistoryPart
  BY DEF Init, RequestPart, HistoryPart
<1>5. PathPart
  BY FreshSessionType DEF Init, PathPart, PerPair, Addresses, NoProbe, Probes
<1>6. OutsidePart
  BY DEF Init, OutsidePart, Addresses
<1> QED
  BY <1>1, <1>2, <1>3, <1>4, <1>5, <1>6, Parts

LEMMA ApiCallKeeps ==
    ASSUME ConsentInv, NEW p \in Peers, ApiCall(p)
    PROVE  ConsentInv'
<1>1. PICK q \in Peers :
          \/ \E addr \in Reachable(p) : SendContactRequest(p, q, addr)
          \/ AcceptContact(p, q)
          \/ RejectContact(p, q)
          \/ \E text \in Texts : Send(p, q, text)
          \/ \E addr \in Reachable(p) : AddPeer(p, q, addr)
          \/ SetNickname(p, q)
          \/ \E addr \in Found(p) : ConnectTo(p, q, addr)
  BY DEF ApiCall
<1>2. Found(p) \subseteq Addresses /\ Reachable(p) \subseteq Addresses
  BY FoundType
<1>3. AcceptContact(p, q) => ConsentInv'
  BY DecideKeeps DEF AcceptContact, TrustStatus
<1>4. RejectContact(p, q) => ConsentInv'
  BY DecideKeeps DEF RejectContact, TrustStatus
<1> QED
  BY <1>1, <1>2, <1>3, <1>4, SendContactRequestKeeps, SendKeeps, AddPeerKeeps,
     SetNicknameKeeps, ConnectToKeeps

LEMMA NextConsent == ConsentInv /\ [Next]_vars => ConsentInv'
<1> SUFFICES ASSUME ConsentInv, [Next]_vars PROVE ConsentInv'
  OBVIOUS
<1>1. CASE \E p \in Peers : ApiCall(p) \/ Announce(p) \/ Tick(p)
  BY <1>1, ApiCallKeeps, AnnounceKeeps, TickKeeps
<1>2. CASE \E p \in Peers, d \in net : Poll(p, d)
  BY <1>2, PollKeeps
<1>3. CASE \E p \in Peers : Effect(p) \/ Restart(p)
  BY <1>3, EffectKeeps, RestartKeeps
<1>4. CASE \E d \in net : RelayHandle(d) \/ Lose(d)
  BY <1>4, RelayHandleKeeps, LoseKeeps
<1>5. CASE \E q \in Peers : RelayExpire(q)
  BY <1>5, RelayExpireKeeps
<1>6. ASSUME NEW p \in Peers, NEW q \in Peers, NEW addr \in AddrsOf(p) \cup {NoAddr},
             Advertise(p, q, addr)
      PROVE  ConsentInv'
  <2>1. addr \in Addresses
    BY AddrsType DEF Addresses
  <2> QED
    BY <1>6, <2>1, AdvertiseKeeps
<1>7. CASE UNCHANGED vars
  <2>1. UNCHANGED <<store, incoming, outgoing, session, endpoint, probe, disk, torn, detached,
                    starts, route, todo, net, left, did, submitted, shown>>
    BY <1>7 DEF vars, memory, outside, history
  <2>2. Grows
    BY <2>1 DEF Grows
  <2>3. StorePart' /\ DiskPart' /\ TodoPart' /\ NetPart' /\ RequestPart' /\ PathPart'
    BY <2>1, <2>2, LeftAlone
  <2>4. HistoryPart' /\ OutsidePart'
    BY <2>1, Parts DEF HistoryPart, OutsidePart
  <2> QED
    BY <2>3, <2>4, PartsNext
<1> QED
  BY <1>1, <1>2, <1>3, <1>4, <1>5, <1>6, <1>7 DEF Next

\* Everything the engines hold, are about to do and have in flight follows from
\* what the users did, in every reachable state (ConsentInv).
THEOREM Accounted == Spec => []ConsentInv
BY InitConsent, NextConsent, PTL DEF Spec

\* Every variable keeps its type.
THEOREM TypeCorrect == Spec => []TypeOK
<1>1. ConsentInv => TypeOK
  BY DEF ConsentInv
<1> QED
  BY <1>1, Accounted, PTL

\* Nobody is a contact, in memory or on disk, without both users' consent,
\* through losses, repetitions, reordering, failed saves and restarts
\* (accept_contact, handle_contact_response, add_peer).
THEOREM Consent == Spec => []AcceptedByBoth
<1>1. ConsentInv => AcceptedByBoth
  BY DEF ConsentInv, AcceptedByBoth, MeantStores
<1> QED
  BY <1>1, Accounted, PTL

\* Every message in a conversation was submitted by that peer for us, and the
\* two agreed to be contacts (the spam gate of poll()).
THEOREM ReceivedAreConsented == Spec => []ReceivedWithConsent
<1>1. ConsentInv => ReceivedWithConsent
  BY DEF ConsentInv, ReceivedWithConsent, MeantStores
<1> QED
  BY <1>1, Accounted, PTL

-----------------------------------------------------------------------------
(***************************************************************************)
(* Proofs about what Engine tells the application, on disks that do not    *)
(* fail: a request is surfaced once and stays answerable, a message that   *)
(* was shown stays recorded, through losses, repetitions and restarts at   *)
(* any point, for all peers, relay users, fixed ports and budgets.         *)
(***************************************************************************)

ContactsInv == ConsentInv /\ NoticeInv

-----------------------------------------------------------------------------
(* What lasts *)

\* The stores a call may leave behind, in memory or on the way there: contacts
\* and messages are kept, and requests other than those from A.
Onward(s, A) ==
    {z \in Stores :
        /\ \A q \in Peers : s.trust[q] # "none" => z.trust[q] # "none"
        /\ \A q \in s.requests \ A : q \in z.requests
        /\ \A j \in DOMAIN s.messages : \E k \in DOMAIN z.messages :
              z.messages[k] = s.messages[j]}

LEMMA OnwardKeeps ==
    ASSUME NEW s \in Stores, NEW A
    PROVE  /\ \A q \in Peers : s \in Knowing(q) => Onward(s, A) \subseteq Knowing(q)
           /\ \A q \in Peers \ A : s \in Asking(q) => Onward(s, A) \subseteq Asking(q)
           /\ \A q, text : s \in Recording(q, text) => Onward(s, A) \subseteq Recording(q, text)
<1>1. \A q \in Peers : s \in Knowing(q) => Onward(s, A) \subseteq Knowing(q)
  BY DEF Onward, Knowing
<1>2. \A q \in Peers \ A : s \in Asking(q) => Onward(s, A) \subseteq Asking(q)
  BY DEF Onward, Asking
<1>3. ASSUME NEW q, NEW text, s \in Recording(q, text), NEW z \in Onward(s, A)
      PROVE  z \in Recording(q, text)
  <2> DEFINE m == [peer |-> q, text |-> text, outgoing |-> FALSE]
  <2>1. PICK j \in DOMAIN s.messages : s.messages[j] = m
    BY <1>3 DEF Recording
  <2> HIDE DEF m
  <2>2. PICK k \in DOMAIN z.messages : z.messages[k] = m
    BY <1>3, <2>1 DEF Onward
  <2>3. z \in Stores
    BY <1>3 DEF Onward
  <2> QED BY <2>2, <2>3 DEF Recording, m
<1> QED BY <1>1, <1>2, <1>3

LEMMA OnwardSame ==
    ASSUME NEW s \in Stores, NEW A
    PROVE  s \in Onward(s, A)
BY DEF Onward

LEMMA SetTrustOnward ==
    ASSUME NEW s \in Stores, NEW A, NEW z \in Onward(s, A), NEW q \in Peers,
           NEW t \in TrustStatus \ {"none"}
    PROVE  set_trust(z, q, t) \in Onward(s, A)
<1> DEFINE y == set_trust(z, q, t)
<1>1. z \in Stores
  BY DEF Onward
<1>2. /\ y \in Stores
      /\ y.requests = z.requests /\ y.messages = z.messages
      /\ \A r \in Peers : y.trust[r] = IF r = q THEN t ELSE z.trust[r]
  BY <1>1 DEF set_trust, Stores
<1> HIDE DEF y
<1>3. y \in Onward(s, A)
  BY <1>2 DEF Onward
<1> QED BY <1>3 DEF y

LEMMA SetNicknameOnward ==
    ASSUME NEW s \in Stores, NEW q \in Peers
    PROVE  set_nickname(s, q) \in Onward(s, {})
<1>1. s \in Onward(s, {})
  BY OnwardSame
<1>2. set_trust(s, q, "Pending") \in Onward(s, {})
  BY <1>1, SetTrustOnward DEF TrustStatus
<1> QED BY <1>1, <1>2 DEF set_nickname

LEMMA AddRequestOnward ==
    ASSUME NEW s \in Stores, NEW A, NEW z \in Onward(s, A), NEW q \in Peers
    PROVE  /\ add_request(z, q) \in Onward(s, A)
           /\ add_request(z, q).trust = z.trust
           /\ q \in add_request(z, q).requests
<1> DEFINE y == add_request(z, q)
<1>1. z \in Stores
  BY DEF Onward
<1>2. /\ y \in Stores
      /\ y.trust = z.trust /\ y.messages = z.messages
      /\ y.requests = z.requests \cup {q}
  BY <1>1 DEF add_request, Stores
<1> HIDE DEF y
<1>3. y \in Onward(s, A)
  BY <1>2 DEF Onward
<1> QED BY <1>2, <1>3 DEF y

LEMMA RemoveRequestOnward ==
    ASSUME NEW s \in Stores, NEW q \in Peers
    PROVE  remove_request(s, q) \in Onward(s, {q})
<1> DEFINE y == remove_request(s, q)
<1>2. /\ y \in Stores
      /\ y.trust = s.trust /\ y.messages = s.messages
      /\ y.requests = s.requests \ {q}
  BY DEF remove_request, Stores
<1> HIDE DEF y
<1>3. y \in Onward(s, {q})
  BY <1>2 DEF Onward
<1> QED BY <1>3 DEF y

LEMMA AppendMessageOnward ==
    ASSUME NEW s \in Stores, NEW q \in Peers, NEW text \in Texts, NEW out \in BOOLEAN
    PROVE  /\ append_message(s, q, text, out) \in Onward(s, {})
           /\ ~out => append_message(s, q, text, out) \in Recording(q, text)
<1> DEFINE z == append_message(s, q, text, out)
           m == [peer |-> q, text |-> text, outgoing |-> out]
<1>1. m \in Messages
  BY DEF Messages
<1>2. ~out => m = [peer |-> q, text |-> text, outgoing |-> FALSE]
  OBVIOUS
<1> HIDE DEF m
<1> DEFINE h == Append(s.messages, m)
<1>3. s.messages \in Seq(Messages)
  BY DEF Stores
<1>4. /\ h \in Seq(Messages)
      /\ \A i \in DOMAIN s.messages : i \in DOMAIN h /\ h[i] = s.messages[i]
      /\ \E i \in DOMAIN h : h[i] = m
  <2>1. Len(h) = Len(s.messages) + 1 /\ Len(s.messages) \in Nat
    BY <1>1, <1>3, AppendProperties
  <2> QED BY <1>1, <1>3, <2>1, AppendProperties
<1> HIDE DEF h
<1>5. /\ z \in Stores
      /\ z.trust = s.trust /\ z.requests = s.requests /\ z.messages = h
  BY <1>4 DEF append_message, Stores, h, m
<1> HIDE DEF z
<1>6. z \in Onward(s, {})
  BY <1>4, <1>5 DEF Onward
<1>7. ~out => z \in Recording(q, text)
  BY <1>2, <1>4, <1>5 DEF Recording
<1> QED BY <1>6, <1>7 DEF z

\* A call that runs to its end before the next one, from a file already in G.
LEMMA CallLasts ==
    ASSUME NEW s, NEW f, NEW G, Lasts(s, f, <<>>, 1, G),
           NEW z \in G, NEW t, \A k \in DOMAIN t : t[k].op = "save" => t[k].store \in G
    PROVE  Lasts(z, f, t, 1, G)
<1>1. f \in G
  BY DEF Lasts
<1> QED BY <1>1 DEF Lasts

\* The next step of a call is taken.
LEMMA StepLasts ==
    ASSUME NEW S, NEW t \in Seq(S), t # <<>>, NEW s, NEW f, NEW g, NEW G, NEW i \in DOMAIN t,
           g = IF t[1].op = "save" THEN t[1].store ELSE f,
           Lasts(s, f, t, i, G)
    PROVE  Lasts(s, g, Tail(t), IF i = 1 THEN 1 ELSE i - 1, G)
<1> DEFINE u == Tail(t)
           n == IF i = 1 THEN 1 ELSE i - 1
<1>1. /\ Len(t) \in Nat /\ Len(t) > 0 /\ DOMAIN t = 1 .. Len(t)
      /\ DOMAIN u = 1 .. Len(t) - 1
      /\ \A k \in DOMAIN u : u[k] = t[k + 1]
  BY HeadTailProperties
<1> HIDE DEF u
<1>2. PICK j \in 0 .. i - 1 :
          /\ IF j = 0 THEN f \in G ELSE t[j].op = "save"
          /\ \A k \in DOMAIN t : k >= j /\ t[k].op = "save" => t[k].store \in G
  BY DEF Lasts
<1>3. s \in G
  BY DEF Lasts
<1>4. CASE j <= 1
  <2>1. g \in G
    BY <1>1, <1>2, <1>4
  <2>2. \A k \in DOMAIN u : k >= 0 /\ u[k].op = "save" => u[k].store \in G
    BY <1>1, <1>2, <1>4
  <2>3. 0 \in 0 .. n - 1
    OBVIOUS
  <2> QED BY <1>3, <2>1, <2>2, <2>3 DEF Lasts, u
<1>5. CASE j > 1
  <2>1. j - 1 \in 0 .. n - 1 /\ j - 1 # 0
    <3>1. i \in Nat /\ j \in Nat /\ j <= i - 1
      BY <1>1
    <3>2. n = i - 1
      BY <1>5, <3>1
    <3> HIDE DEF n
    <3> QED BY <1>5, <3>1, <3>2
  <2>2. u[j - 1].op = "save"
    BY <1>1, <1>2, <1>5
  <2>3. \A k \in DOMAIN u : k >= j - 1 /\ u[k].op = "save" => u[k].store \in G
    BY <1>1, <1>2, <1>5
  <2> QED BY <1>3, <2>1, <2>2, <2>3 DEF Lasts, u
<1> QED BY <1>2, <1>4, <1>5

-----------------------------------------------------------------------------
(* The invariant, peer by peer *)

Told(p) == ShownAreKept(p) /\ NoticesAreKept(p) /\ SurfacingOnce(p)

LEMMA PeerTypes ==
    ASSUME ConsentInv, NEW p \in Peers
    PROVE  /\ store[p] \in Stores /\ disk[p] \in Stores
           /\ todo[p] \in Seq(Steps)
           /\ shown[p] \in Seq(Notices)
           /\ incoming[p] \subseteq Peers
BY DEF ConsentInv, TypeOK

LEMMA PeerTypesNext ==
    ASSUME ConsentInv', NEW p \in Peers
    PROVE  /\ store'[p] \in Stores /\ disk'[p] \in Stores
           /\ todo'[p] \in Seq(Steps)
           /\ shown'[p] \in Seq(Notices)
           /\ incoming'[p] \subseteq Peers
BY DEF ConsentInv, TypeOK

\* What a step of somebody else leaves alone.
Spared(p) ==
    /\ store'[p] = store[p] /\ disk'[p] = disk[p] /\ todo'[p] = todo[p]
    /\ shown'[p] = shown[p] /\ incoming'[p] = incoming[p]

LEMMA AnsweredStays ==
    ASSUME did \subseteq did', NEW p, NEW q, Answered(p, q)
    PROVE  Answered(p, q)'
BY DEF Answered

LEMMA SparedTold ==
    ASSUME NEW p \in Peers, Told(p), Spared(p), did \subseteq did'
    PROVE  Told(p)'
<1>1. ASSUME NEW i, NEW e, Kept(p, i, e)
      PROVE  Kept(p, i, e)'
  <2>1. \A G : Lasting(p, i, G) => Lasts(store'[p], disk'[p], todo'[p], i, G)
    BY DEF Lasting, Spared
  <2>2. \A q : Answered(p, q) => Answered(p, q)'
    BY AnsweredStays
  <2> QED BY <1>1, <2>1, <2>2 DEF Kept, Lasting, Spared
<1>2. ShownAreKept(p)'
  <2> SUFFICES ASSUME NEW i \in DOMAIN shown'[p], NEW e, e = shown'[p][i]
               PROVE  Kept(p, 1, e)'
    BY DEF ShownAreKept
  <2> QED BY <1>1 DEF Told, ShownAreKept, Spared
<1>3. NoticesAreKept(p)'
  <2> SUFFICES ASSUME NEW i \in DOMAIN todo'[p], todo'[p][i].op = "notify",
                      NEW e, e = todo'[p][i].event
               PROVE  Kept(p, i, e)'
    BY DEF NoticesAreKept
  <2> QED BY <1>1 DEF Told, NoticesAreKept, Spared
<1>4. SurfacingOnce(p)'
  BY DEF Told, SurfacingOnce, Spared
<1> QED BY <1>2, <1>3, <1>4 DEF Told

LEMMA Assembled ==
    ASSUME NoticeInv, UNCHANGED <<shown, torn, detached>>, left'["save_failure"] = 0,
           \A p \in Peers : Told(p)'
    PROVE  NoticeInv'
<1>1. SurfacedOnce'
  BY DEF NoticeInv, SurfacedOnce
<1> QED BY <1>1 DEF NoticeInv, Told

\* What a call of p's may do to memory and leave in todo, as far as the notices
\* made so far go: requests from A were answered.
Onwards(p, A) ==
    /\ Idle(p)
    /\ disk'[p] = disk[p] /\ shown'[p] = shown[p] /\ did \subseteq did'
    /\ \A q \in A : Answered(p, q)'
    /\ incoming[p] \ A \subseteq incoming'[p]
    /\ store'[p] \in Onward(store[p], A)
    /\ \A k \in DOMAIN todo'[p] :
          todo'[p][k].op = "save" => todo'[p][k].store \in Onward(store[p], A)

LEMMA ShownStay ==
    ASSUME ConsentInv, NEW p \in Peers, NEW A, ShownAreKept(p), Onwards(p, A)
    PROVE  ShownAreKept(p)'
<1> SUFFICES ASSUME NEW i \in DOMAIN shown'[p], NEW e, e = shown'[p][i]
             PROVE  Kept(p, 1, e)'
  BY DEF ShownAreKept
<1>1. Kept(p, 1, e) /\ e.peer \in Peers
  <2>1. shown'[p] = shown[p]
    BY DEF Onwards
  <2>2. Kept(p, 1, e)
    BY <2>1 DEF ShownAreKept
  <2>3. e \in Notices
    BY <2>1, PeerTypes
  <2> QED BY <2>2, <2>3 DEF Notices
<1>2. ASSUME NEW G, Lasting(p, 1, G), store[p] \in G => Onward(store[p], A) \subseteq G
      PROVE  Lasts(store'[p], disk'[p], todo'[p], 1, G)
  <2>1. Lasts(store[p], disk[p], <<>>, 1, G)
    BY <1>2 DEF Lasting, Onwards, Idle
  <2>2. Onward(store[p], A) \subseteq G
    BY <1>2, <2>1 DEF Lasts
  <2>3. store'[p] \in G /\ \A k \in DOMAIN todo'[p] :
            todo'[p][k].op = "save" => todo'[p][k].store \in G
    BY <2>2 DEF Onwards
  <2>4. disk'[p] = disk[p]
    BY DEF Onwards
  <2> QED BY <2>1, <2>3, <2>4, CallLasts
<1>3. Answered(p, e.peer) => Answered(p, e.peer)'
  BY AnsweredStays DEF Onwards
<1>4. e.peer \in A => Answered(p, e.peer)'
  BY DEF Onwards
<1>5. e.kind = "request" => Lasts(store'[p], disk'[p], todo'[p], 1, Knowing(e.peer))
  BY <1>1, <1>2, PeerTypes, OnwardKeeps DEF Kept
<1>6. e.kind = "request" /\ ~Answered(p, e.peer)' =>
          /\ e.peer \in incoming'[p]
          /\ Lasts(store'[p], disk'[p], todo'[p], 1, Asking(e.peer))
  <2> SUFFICES ASSUME e.kind = "request", ~Answered(p, e.peer)'
               PROVE  /\ e.peer \in incoming'[p]
                      /\ Lasts(store'[p], disk'[p], todo'[p], 1, Asking(e.peer))
    OBVIOUS
  <2>1. e.peer \in incoming[p] /\ Lasting(p, 1, Asking(e.peer)) /\ e.peer \in Peers \ A
    BY <1>1, <1>3, <1>4 DEF Kept
  <2> QED BY <1>2, <2>1, PeerTypes, OnwardKeeps DEF Onwards
<1>7. e.kind = "message" => Lasts(store'[p], disk'[p], todo'[p], 1, Recording(e.peer, e.text))
  BY <1>1, <1>2, PeerTypes, OnwardKeeps DEF Kept
<1> QED BY <1>5, <1>6, <1>7 DEF Kept, Lasting

LEMMA SpendOther ==
    ASSUME ConsentInv, NEW event \in Events \ {"save_failure"}, Spend(event)
    PROVE  left'["save_failure"] = left["save_failure"]
<1>1. left \in [Events -> Nat]
  BY Parts DEF OutsidePart
<1> QED BY <1>1 DEF Spend, Events

LEMMA ReceiveSpends ==
    ASSUME ConsentInv, NEW p, NEW d, Receive(p, d)
    PROVE  left'["save_failure"] = left["save_failure"]
BY SpendOther DEF Receive, Events

-----------------------------------------------------------------------------
(* Calls that tell the application nothing *)

\* Steps that save stores from O only, and make no callback.
Quiet(O) == {e \in Steps : e.op # "notify" /\ (e.op = "save" => e.store \in O)}

LEMMA QuietCall ==
    ASSUME ConsentInv, NoticeInv, NEW p \in Peers, NEW A, Idle(p),
           UNCHANGED <<disk, shown, torn, detached>>, did \subseteq did',
           left'["save_failure"] = left["save_failure"],
           \A r \in Peers \ {p} : Spared(r),
           \A q \in A : Answered(p, q)',
           incoming[p] \ A \subseteq incoming'[p],
           store'[p] \in Onward(store[p], A),
           todo'[p] \in Seq(Quiet(Onward(store[p], A)))
    PROVE  NoticeInv'
<1>1. \A k \in DOMAIN todo'[p] : todo'[p][k] \in Quiet(Onward(store[p], A))
  OBVIOUS
<1>2. \A k \in DOMAIN todo'[p] :
          /\ todo'[p][k].op # "notify"
          /\ todo'[p][k].op = "save" => todo'[p][k].store \in Onward(store[p], A)
  BY <1>1 DEF Quiet
<1>3. Onwards(p, A)
  BY <1>2 DEF Onwards
<1>4. ShownAreKept(p)'
  BY <1>3, ShownStay DEF NoticeInv
<1>5. NoticesAreKept(p)' /\ SurfacingOnce(p)'
  BY <1>2 DEF NoticesAreKept, SurfacingOnce, Surfacing
<1>6. \A r \in Peers \ {p} : Told(r)'
  BY SparedTold DEF NoticeInv, Told
<1>7. \A r \in Peers : Told(r)'
  BY <1>4, <1>5, <1>6 DEF Told
<1> QED BY <1>7, Assembled DEF NoticeInv

\* The same for a call that answers no request.
LEMMA PlainCall ==
    ASSUME ConsentInv, NoticeInv, NEW p \in Peers, Idle(p),
           UNCHANGED <<incoming, disk, shown, torn, detached>>, did \subseteq did',
           left'["save_failure"] = left["save_failure"],
           \A r \in Peers \ {p} : Spared(r),
           store'[p] \in Onward(store[p], {}),
           todo'[p] \in Seq(Quiet(Onward(store[p], {})))
    PROVE  NoticeInv'
<1>1. incoming[p] \ {} \subseteq incoming'[p]
  OBVIOUS
<1>2. \A q \in {} : Answered(p, q)'
  OBVIOUS
<1>3. UNCHANGED <<disk, shown, torn, detached>>
  OBVIOUS
<1> DEFINE A == {}
<1> HIDE DEF A
<1>4. /\ \A q \in A : Answered(p, q)'
      /\ incoming[p] \ A \subseteq incoming'[p]
      /\ store'[p] \in Onward(store[p], A)
      /\ todo'[p] \in Seq(Quiet(Onward(store[p], A)))
  BY <1>1, <1>2 DEF A
<1> QED BY <1>3, <1>4, QuietCall

LEMMA CalmStep ==
    ASSUME NoticeInv, UNCHANGED <<store, disk, todo, shown, incoming, torn, detached>>,
           did \subseteq did', left'["save_failure"] = left["save_failure"]
    PROVE  NoticeInv'
<1>1. \A r \in Peers : Spared(r)
  BY DEF Spared
<1>2. \A r \in Peers : Told(r)'
  BY <1>1, SparedTold DEF NoticeInv, Told
<1> QED BY <1>2, Assembled DEF NoticeInv

LEMMA SaveQuiet ==
    ASSUME NEW O, O \subseteq Stores, NEW s \in O
    PROVE  Save(s) \in Quiet(O)
BY DEF Save, Quiet, Steps

LEMMA SendQuiet ==
    ASSUME NEW O, NEW t \in Seq(Steps), \A k \in DOMAIN t : t[k].op = "send"
    PROVE  t \in Seq(Quiet(O))
<1>1. \A k \in DOMAIN t : t[k] \in Quiet(O)
  BY DEF Quiet
<1> QED BY <1>1

LEMMA TransmitSends ==
    ASSUME NEW p, NEW to, NEW pkt, NEW k \in DOMAIN Transmit(p, to, pkt)
    PROVE  Transmit(p, to, pkt)[k].op = "send"
BY DEF Transmit, SendTo

LEMMA SealedQuiet ==
    ASSUME ConsentInv, NEW O, NEW p \in Peers, NEW q \in Peers, NEW type \in SealedTypes,
           NEW text \in Words, NEW addr \in Addresses
    PROVE  send_packet(p, addr, encrypt_as(p, q, session[p][q], type, text))
               \in Seq(Quiet(O))
<1> DEFINE t == send_packet(p, addr, encrypt_as(p, q, session[p][q], type, text))
           D == {<<"request", p, q>>, <<"accept", p, q>>}
           U == {[from |-> p, to |-> q, text |-> text]}
<1>1. t \in Seq(MeantSteps(D, U, p))
  BY SealedMeant
<1>2. t \in Seq(Steps)
  BY <1>1, StepsAreSteps, SeqGrow
<1>3. \A k \in DOMAIN t : t[k].op = "send"
  BY TransmitSends DEF send_packet
<1> HIDE DEF t
<1>4. t \in Seq(Quiet(O))
  BY <1>2, <1>3, SendQuiet
<1> QED BY <1>4 DEF t

-----------------------------------------------------------------------------
(* API calls *)

LEMMA OnwardStores ==
    ASSUME NEW s, NEW A
    PROVE  Onward(s, A) \subseteq Stores
BY DEF Onward

LEMMA SendContactRequestNotice ==
    ASSUME ContactsInv, NEW p \in Peers, NEW q \in Peers, NEW addr \in Addresses,
           SendContactRequest(p, q, addr)
    PROVE  NoticeInv'
<1> DEFINE s == set_trust(store[p], q, "Pending")
           O == Onward(store[p], {})
           out == send_packet(p, addr,
                      encrypt_as(p, q, session[p][q], "ContactRequest", "hello"))
<1>1. /\ Idle(p) /\ Spend("request")
      /\ store' = [store EXCEPT ![p] = s]
      /\ todo' = [todo EXCEPT ![p] = <<Save(store'[p])>> \o out]
      /\ did \subseteq did'
      /\ UNCHANGED <<incoming, disk, torn, detached, shown>>
  BY DEF SendContactRequest, Do, outside
<1>2. ConsentInv /\ NoticeInv
  BY DEF ContactsInv
<1>3. store[p] \in Stores
  BY <1>2, PeerTypes
<1>4. s \in O
  BY <1>3, OnwardSame, SetTrustOnward DEF TrustStatus
<1>5. out \in Seq(Quiet(O))
  BY <1>2, SealedQuiet DEF SealedTypes, Words
<1> HIDE DEF s, O, out
<1>6. store'[p] = s /\ todo'[p] = <<Save(s)>> \o out
  BY <1>1, <1>2 DEF ConsentInv, TypeOK
<1>7. <<Save(s)>> \in Seq(Quiet(O))
  BY <1>4, SaveQuiet, OneStep, OnwardStores DEF O
<1>8. todo'[p] \in Seq(Quiet(O))
  BY <1>5, <1>6, <1>7, Joined
<1>9. left'["save_failure"] = left["save_failure"]
  BY <1>1, <1>2, SpendOther DEF Events
<1>10. \A r \in Peers \ {p} : Spared(r)
  BY <1>1, <1>2 DEF Spared, ConsentInv, TypeOK
<1> QED BY <1>1, <1>2, <1>4, <1>6, <1>8, <1>9, <1>10, PlainCall DEF O

LEMMA DecideNotice ==
    ASSUME ContactsInv, NEW p \in Peers, NEW q \in Peers, NEW trust \in {"Accepted", "Rejected"},
           NEW answer \in {"accept", "reject"}, Decide(p, q, trust, answer)
    PROVE  NoticeInv'
<1> DEFINE removed == remove_request(store[p], q)
           decided == set_trust(removed, q, trust)
           O == Onward(store[p], {q})
           first == IF removed = store[p] THEN <<>> ELSE <<Save(removed)>>
           out == send_packet(p, endpoint[p][q],
                      encrypt_as(p, q, session[p][q], "ContactResponse", answer))
<1>1. /\ Idle(p)
      /\ incoming' = [incoming EXCEPT ![p] = incoming[p] \ {q}]
      /\ store' = [store EXCEPT ![p] = decided]
      /\ todo' = [todo EXCEPT ![p] = first \o <<Save(decided)>> \o out]
      /\ did' = did \cup {<<answer, p, q>>}
      /\ UNCHANGED <<disk, torn, detached, left, shown>>
  BY DEF Decide, Do, outside
<1>2. ConsentInv /\ NoticeInv
  BY DEF ContactsInv
<1>3. store[p] \in Stores /\ endpoint[p][q] \in Addresses
  BY <1>2, PeerFacts
<1>4. removed \in O
  BY <1>3, RemoveRequestOnward
<1>5. decided \in O
  BY <1>3, <1>4, SetTrustOnward DEF TrustStatus
<1>6. out \in Seq(Quiet(O))
  BY <1>2, <1>3, SealedQuiet DEF SealedTypes, Words
<1> HIDE DEF removed, decided, O, out
<1>7. Save(removed) \in Quiet(O) /\ Save(decided) \in Quiet(O)
  BY <1>4, <1>5, SaveQuiet, OnwardStores DEF O
<1>8. first \in Seq(Quiet(O)) /\ <<Save(decided)>> \in Seq(Quiet(O))
  BY <1>7
<1> HIDE DEF first
<1>9. store'[p] = decided /\ todo'[p] = first \o <<Save(decided)>> \o out
      /\ incoming'[p] = incoming[p] \ {q}
  BY <1>1, <1>2 DEF ConsentInv, TypeOK
<1>10. todo'[p] \in Seq(Quiet(O))
  BY <1>6, <1>8, <1>9, Joined
<1>11. \A r \in Peers \ {p} : Spared(r)
  BY <1>1, <1>2 DEF Spared, ConsentInv, TypeOK
<1>12. Answered(p, q)'
  BY <1>1 DEF Answered
<1> QED BY <1>1, <1>2, <1>5, <1>9, <1>10, <1>11, <1>12, QuietCall DEF O

LEMMA SendNotice ==
    ASSUME ContactsInv, NEW p \in Peers, NEW q \in Peers, NEW text \in Texts, Send(p, q, text)
    PROVE  NoticeInv'
<1> DEFINE s == append_message(store[p], q, text, TRUE)
           O == Onward(store[p], {})
           out == send_packet(p, endpoint[p][q],
                      encrypt_as(p, q, session[p][q], "Message", text))
<1>1. /\ Idle(p) /\ Spend("message")
      /\ UNCHANGED <<incoming, disk, torn, detached, did, shown>>
      /\ \/ UNCHANGED <<store, todo>>
         \/ /\ store' = [store EXCEPT ![p] = s]
            /\ todo' = [todo EXCEPT ![p] = out \o <<Save(store'[p])>>]
  BY DEF Send, Do, outside
<1>2. ConsentInv /\ NoticeInv
  BY DEF ContactsInv
<1>3. store[p] \in Stores /\ endpoint[p][q] \in Addresses
  BY <1>2, PeerFacts
<1>4. left'["save_failure"] = left["save_failure"]
  BY <1>1, <1>2, SpendOther DEF Events
<1>5. CASE UNCHANGED <<store, todo>>
  BY <1>1, <1>2, <1>4, <1>5, CalmStep
<1>6. CASE /\ store' = [store EXCEPT ![p] = s]
           /\ todo' = [todo EXCEPT ![p] = out \o <<Save(store'[p])>>]
  <2>1. s \in O
    BY <1>3, AppendMessageOnward
  <2>2. out \in Seq(Quiet(O))
    BY <1>2, <1>3, SealedQuiet DEF SealedTypes, Words
  <2> HIDE DEF s, O, out
  <2>3. store'[p] = s /\ todo'[p] = out \o <<Save(s)>>
    BY <1>6, <1>2 DEF ConsentInv, TypeOK
  <2>4. <<Save(s)>> \in Seq(Quiet(O))
    BY <2>1, SaveQuiet, OneStep, OnwardStores DEF O
  <2>5. todo'[p] \in Seq(Quiet(O))
    BY <2>2, <2>3, <2>4, Joined
  <2>6. \A r \in Peers \ {p} : Spared(r)
    BY <1>1, <1>6, <1>2 DEF Spared, ConsentInv, TypeOK
  <2> QED BY <1>1, <1>2, <1>4, <2>1, <2>3, <2>5, <2>6, PlainCall DEF O
<1> QED BY <1>1, <1>5, <1>6

\* add_peer and set_nickname.
LEMMA SavingCall ==
    ASSUME ContactsInv, NEW p \in Peers, NEW s \in Onward(store[p], {}), Idle(p),
           NEW event \in Events \ {"save_failure"}, Spend(event),
           store' = [store EXCEPT ![p] = s], todo' = [todo EXCEPT ![p] = <<Save(s)>>],
           did \subseteq did', UNCHANGED <<incoming, disk, torn, detached, shown>>
    PROVE  NoticeInv'
<1> DEFINE O == Onward(store[p], {})
<1>1. ConsentInv /\ NoticeInv
  BY DEF ContactsInv
<1>2. store'[p] = s /\ todo'[p] = <<Save(s)>>
  BY <1>1 DEF ConsentInv, TypeOK
<1>3. Save(s) \in Quiet(O)
  BY SaveQuiet, OnwardStores
<1> HIDE DEF O
<1>4. todo'[p] \in Seq(Quiet(O))
  BY <1>2, <1>3, OneStep
<1>5. \A r \in Peers \ {p} : Spared(r)
  BY <1>1 DEF Spared, ConsentInv, TypeOK
<1>6. left'["save_failure"] = left["save_failure"]
  BY <1>1, SpendOther
<1> QED BY <1>1, <1>2, <1>4, <1>5, <1>6, PlainCall DEF O

LEMMA AddPeerNotice ==
    ASSUME ContactsInv, NEW p \in Peers, NEW q \in Peers, NEW addr, AddPeer(p, q, addr)
    PROVE  NoticeInv'
<1> DEFINE s == set_trust(store[p], q, "Accepted")
<1>1. /\ Idle(p) /\ Spend("add_peer")
      /\ store' = [store EXCEPT ![p] = s]
      /\ todo' = [todo EXCEPT ![p] = <<Save(store'[p])>>]
      /\ did \subseteq did'
      /\ UNCHANGED <<incoming, disk, torn, detached, shown>>
  BY DEF AddPeer, Do, outside
<1>2. store[p] \in Stores /\ store \in [Peers -> Stores]
  BY DEF ContactsInv, ConsentInv, TypeOK
<1>3. s \in Onward(store[p], {})
  BY <1>2, OnwardSame, SetTrustOnward DEF TrustStatus
<1> HIDE DEF s
<1>4. store'[p] = s
  BY <1>1, <1>2
<1> QED BY <1>1, <1>3, <1>4, SavingCall DEF Events

LEMMA SetNicknameNotice ==
    ASSUME ContactsInv, NEW p \in Peers, NEW q \in Peers, SetNickname(p, q)
    PROVE  NoticeInv'
<1> DEFINE s == set_nickname(store[p], q)
<1>1. /\ Idle(p) /\ Spend("nickname")
      /\ store' = [store EXCEPT ![p] = s]
      /\ todo' = [todo EXCEPT ![p] = <<Save(store'[p])>>]
      /\ did \subseteq did'
      /\ UNCHANGED <<incoming, disk, torn, detached, shown>>
  BY DEF SetNickname, Do, outside, history
<1>2. store[p] \in Stores /\ store \in [Peers -> Stores]
  BY DEF ContactsInv, ConsentInv, TypeOK
<1>3. s \in Onward(store[p], {})
  BY <1>2, SetNicknameOnward
<1> HIDE DEF s
<1>4. store'[p] = s
  BY <1>1, <1>2
<1> QED BY <1>1, <1>3, <1>4, SavingCall DEF Events

\* Calls that only send.
LEMMA SendingCall ==
    ASSUME ContactsInv, ConsentInv', NEW p \in Peers, Idle(p),
           NEW t, todo' = [todo EXCEPT ![p] = t], \A k \in DOMAIN t : t[k].op = "send",
           UNCHANGED <<store, incoming, disk, shown, torn, detached, did>>,
           left'["save_failure"] = left["save_failure"]
    PROVE  NoticeInv'
<1> DEFINE O == Onward(store[p], {})
<1>1. ConsentInv /\ NoticeInv
  BY DEF ContactsInv
<1>2. todo'[p] = t /\ \A r \in Peers \ {p} : todo'[r] = todo[r]
  BY <1>1 DEF ConsentInv, TypeOK
<1>3. t \in Seq(Steps)
  BY <1>2, PeerTypesNext
<1>4. t \in Seq(Quiet(O))
  BY <1>3, SendQuiet
<1>5. store'[p] \in O
  BY <1>1, PeerTypes, OnwardSame
<1> HIDE DEF O
<1>6. \A r \in Peers \ {p} : Spared(r)
  BY <1>2 DEF Spared
<1>7. UNCHANGED <<incoming, disk, shown, torn, detached>> /\ did \subseteq did'
  OBVIOUS
<1> QED BY <1>1, <1>2, <1>4, <1>5, <1>6, <1>7, PlainCall DEF O

LEMMA ConnectToNotice ==
    ASSUME ContactsInv, ConsentInv', NEW p \in Peers, NEW q \in Peers, NEW addr,
           ConnectTo(p, q, addr)
    PROVE  NoticeInv'
<1> DEFINE t == ProbeStarted(p, q, addr)
<1>1. /\ Idle(p) /\ Spend("connect") /\ todo' = [todo EXCEPT ![p] = t]
      /\ UNCHANGED <<store, incoming, disk, shown, torn, detached, did>>
  BY DEF ConnectTo, Do, outside, history
<1>2. \A k \in DOMAIN t : t[k].op = "send"
  BY TransmitSends DEF ProbeStarted, send_probe
<1>3. left'["save_failure"] = left["save_failure"]
  BY <1>1, SpendOther DEF Events, ContactsInv
<1> HIDE DEF t
<1> QED BY <1>1, <1>2, <1>3, SendingCall

LEMMA AnnounceNotice ==
    ASSUME ContactsInv, ConsentInv', NEW p \in Peers, Announce(p)
    PROVE  NoticeInv'
<1> DEFINE t == <<[op |-> "send", datagram |-> Announcement(Addr(p), p)]>>
<1>1. /\ Idle(p) /\ Spend("announce") /\ todo' = [todo EXCEPT ![p] = t]
      /\ UNCHANGED <<store, incoming, disk, shown, torn, detached, did>>
  BY DEF Announce, Do, memory, outside, history
<1>2. \A k \in DOMAIN t : t[k].op = "send"
  OBVIOUS
<1>3. left'["save_failure"] = left["save_failure"]
  BY <1>1, SpendOther DEF Events, ContactsInv
<1> HIDE DEF t
<1> QED BY <1>1, <1>2, <1>3, SendingCall

LEMMA TickNotice ==
    ASSUME ContactsInv, ConsentInv', NEW p \in Peers, Tick(p)
    PROVE  NoticeInv'
<1>1. PICK due \in SUBSET Punching(p) : \E order \in Orders(due) :
          todo' = [todo EXCEPT ![p] = [i \in DOMAIN order |->
                 SendTo(p, probe[p][order[i]].candidate, Hello(p, order[i]))]]
  BY DEF Tick, Do
<1>2. PICK order \in Orders(due) :
          todo' = [todo EXCEPT ![p] = [i \in DOMAIN order |->
                 SendTo(p, probe[p][order[i]].candidate, Hello(p, order[i]))]]
  BY <1>1
<1> DEFINE t == [i \in DOMAIN order |->
                    SendTo(p, probe[p][order[i]].candidate, Hello(p, order[i]))]
<1>3. /\ Idle(p) /\ UNCHANGED left
      /\ UNCHANGED <<store, incoming, disk, shown, torn, detached, did>>
  BY DEF Tick, outside, history
<1>4. \A k \in DOMAIN t : t[k].op = "send"
  BY DEF SendTo
<1>5. todo' = [todo EXCEPT ![p] = t]
  BY <1>2
<1> HIDE DEF t
<1> QED BY <1>3, <1>4, <1>5, SendingCall

-----------------------------------------------------------------------------
(* poll *)

LEMMA PollHelloNotice ==
    ASSUME ContactsInv, ConsentInv', NEW p \in Peers, NEW d, PollHello(p, d)
    PROVE  NoticeInv'
<1> DEFINE t == ProbeReply(p, d.pkt.source, d.from)
<1>1. /\ Idle(p) /\ Receive(p, d) /\ todo' = [todo EXCEPT ![p] = t]
      /\ UNCHANGED <<store, incoming, disk, shown, torn, detached, did>>
  BY DEF PollHello, Receive, Do, outside, history
<1>2. \A k \in DOMAIN t : t[k].op = "send"
  BY TransmitSends DEF ProbeReply, send_probe
<1>3. left'["save_failure"] = left["save_failure"]
  BY <1>1, ReceiveSpends DEF ContactsInv
<1> HIDE DEF t
<1> QED BY <1>1, <1>2, <1>3, SendingCall

LEMMA PollConnectNotice ==
    ASSUME ContactsInv, ConsentInv', NEW p \in Peers, NEW d, PollConnect(p, d)
    PROVE  NoticeInv'
<1> DEFINE t == ProbeStarted(p, d.pkt.source, d.pkt.endpoint)
<1>1. /\ Idle(p) /\ Receive(p, d)
      /\ UNCHANGED todo \/ todo' = [todo EXCEPT ![p] = t]
      /\ UNCHANGED <<store, incoming, disk, shown, torn, detached, did>>
  BY DEF PollConnect, Receive, Do, outside, history
<1>2. \A k \in DOMAIN t : t[k].op = "send"
  BY TransmitSends DEF ProbeStarted, send_probe
<1>3. left'["save_failure"] = left["save_failure"]
  BY <1>1, ReceiveSpends DEF ContactsInv
<1> HIDE DEF t
<1>4. UNCHANGED todo => NoticeInv'
  BY <1>1, <1>3, CalmStep DEF ContactsInv
<1> QED BY <1>1, <1>2, <1>3, <1>4, SendingCall

LEMMA PollDroppedNotice ==
    ASSUME ContactsInv, NEW p \in Peers, NEW d, PollDropped(p, d)
    PROVE  NoticeInv'
<1>1. /\ Receive(p, d) /\ did \subseteq did'
      /\ UNCHANGED <<store, disk, todo, shown, incoming, torn, detached>>
  BY DEF PollDropped, memory, outside, history
<1>2. left'["save_failure"] = left["save_failure"]
  BY <1>1, ReceiveSpends DEF ContactsInv
<1> QED BY <1>1, <1>2, CalmStep DEF ContactsInv

\* A call of p's that ends by telling the application: what is left to prove of
\* it is that its own notice lasts and is the only one of its request.
LEMMA TellingCall ==
    ASSUME ContactsInv, NEW p \in Peers, Onwards(p, {}),
           UNCHANGED <<disk, torn, detached, shown>>, did \subseteq did',
           left'["save_failure"] = left["save_failure"],
           \A r \in Peers \ {p} : Spared(r),
           NoticesAreKept(p)', SurfacingOnce(p)'
    PROVE  NoticeInv'
<1>1. ConsentInv /\ NoticeInv /\ ShownAreKept(p)
  BY DEF ContactsInv, NoticeInv
<1>2. ShownAreKept(p)'
  BY <1>1, ShownStay
<1>3. \A r \in Peers \ {p} : Told(r)'
  BY <1>1, SparedTold DEF NoticeInv, Told
<1>4. \A r \in Peers : Told(r)'
  BY <1>2, <1>3 DEF Told
<1>5. left'["save_failure"] = 0
  BY <1>1 DEF NoticeInv
<1> QED BY <1>1, <1>4, <1>5, Assembled

LEMMA PollMessageNotice ==
    ASSUME ContactsInv, NEW p \in Peers, NEW d \in net, PollMessage(p, d)
    PROVE  NoticeInv'
<1> DEFINE q == d.pkt.source
           text == d.pkt.payload.text
           s == append_message(store[p], q, text, FALSE)
           note == [kind |-> "message", peer |-> q, text |-> text]
           t == <<[op |-> "save", store |-> s], [op |-> "notify", event |-> note]>>
<1>1. /\ d.pkt.type = "Message" /\ Idle(p) /\ Receive(p, d) /\ Opened(p, d)
      /\ store' = [store EXCEPT ![p] = s]
      /\ todo' = [todo EXCEPT ![p] = <<Save(store'[p]), Notify("message", q, text)>>]
      /\ UNCHANGED <<incoming, probe, disk, torn, detached, did, shown>>
  BY DEF PollMessage, Receive, MessageEffects, outside, history, Do
<1>2. ConsentInv /\ NoticeInv
  BY DEF ContactsInv
<1>3. q \in Peers /\ text \in Texts
  <2>1. q \in Peers /\ d.pkt.destination = p /\ Meant(did, submitted, d.pkt)
    BY <1>1, <1>2, InFlight, OpenedFacts DEF SealedTypes
  <2>2. [from |-> q, to |-> p, text |-> text] \in submitted
    BY <1>1, <2>1 DEF Meant
  <2>3. [from |-> q, to |-> p, text |-> text] \in Submissions
    BY <1>2, <2>2, Parts DEF HistoryPart
  <2> QED BY <2>1, <2>3 DEF Submissions
<1> HIDE DEF q, text
<1>4. store[p] \in Stores
  BY <1>2, PeerTypes
<1>5. s \in Onward(store[p], {}) /\ s \in Recording(q, text)
  BY <1>3, <1>4, AppendMessageOnward
<1> HIDE DEF s
<1>6. store'[p] = s /\ todo'[p] = t
  BY <1>1, <1>2 DEF ConsentInv, TypeOK, Save, Notify
<1>7. /\ DOMAIN t = {1, 2}
      /\ t[1].op = "save" /\ t[1].store = s /\ t[2].op = "notify" /\ t[2].event = note
      /\ note.kind = "message" /\ note.peer = q /\ note.text = text
  OBVIOUS
<1> HIDE DEF t, note
<1>8. Onwards(p, {})
  BY <1>1, <1>5, <1>6, <1>7 DEF Onwards
<1>9. Lasts(s, disk'[p], t, 2, Recording(q, text))
  BY <1>5, <1>7 DEF Lasts
<1>10. NoticesAreKept(p)'
  <2>1. Kept(p, 2, note)'
    BY <1>6, <1>7, <1>9 DEF Kept, Lasting
  <2> QED BY <1>6, <1>7, <2>1 DEF NoticesAreKept
<1>11. SurfacingOnce(p)'
  BY <1>6, <1>7 DEF SurfacingOnce, Surfacing, IsRequestFrom
<1>12. \A r \in Peers \ {p} : Spared(r)
  BY <1>1, <1>2 DEF Spared, ConsentInv, TypeOK
<1>13. left'["save_failure"] = left["save_failure"]
  BY <1>1, <1>2, ReceiveSpends
<1> QED BY <1>1, <1>8, <1>10, <1>11, <1>12, <1>13, TellingCall

LEMMA PollRequestNotice ==
    ASSUME ContactsInv, NEW p \in Peers, NEW d \in net, PollRequest(p, d)
    PROVE  NoticeInv'
<1> DEFINE q == d.pkt.source
           pending == set_trust(store[p], q, "Pending")
           asked == add_request(pending, q)
           O == Onward(store[p], {})
           note == [kind |-> "request", peer |-> q, text |-> "hello"]
           t == <<[op |-> "save", store |-> pending], [op |-> "save", store |-> asked],
                  [op |-> "notify", event |-> note]>>
<1>1. /\ Idle(p) /\ Receive(p, d)
      /\ UNCHANGED <<disk, torn, detached, did, shown>>
      /\ \/ UNCHANGED <<store, incoming, todo>>
         \/ /\ ~AlreadyKnown(p, q)
            /\ incoming' = [incoming EXCEPT ![p] = incoming[p] \cup {q}]
            /\ store' = [store EXCEPT ![p] = asked]
            /\ todo' = [todo EXCEPT ![p] =
                   <<Save(pending), Save(asked), Notify("request", q, "hello")>>]
  BY DEF PollRequest, RequestEffects, Receive, outside, history, Do
<1>2. ConsentInv /\ NoticeInv
  BY DEF ContactsInv
<1>3. left'["save_failure"] = left["save_failure"]
  BY <1>1, <1>2, ReceiveSpends
<1>4. CASE UNCHANGED <<store, incoming, todo>>
  BY <1>1, <1>2, <1>3, <1>4, CalmStep
<1>5. CASE /\ ~AlreadyKnown(p, q)
           /\ incoming' = [incoming EXCEPT ![p] = incoming[p] \cup {q}]
           /\ store' = [store EXCEPT ![p] = asked]
           /\ todo' = [todo EXCEPT ![p] =
                   <<Save(pending), Save(asked), Notify("request", q, "hello")>>]
  <2>1. q \in Peers /\ store[p] \in Stores
    BY <1>2, InFlight, PeerTypes
  <2> HIDE DEF q
  <2>2. pending \in O /\ pending \in Knowing(q)
    <3>1. pending \in O
      BY <2>1, OnwardSame, SetTrustOnward DEF TrustStatus
    <3>2. pending \in Stores
      BY <3>1, OnwardStores
    <3>3. pending.trust[q] = "Pending"
      BY <2>1 DEF set_trust, Stores
    <3> QED BY <3>1, <3>2, <3>3 DEF Knowing
  <2> HIDE DEF pending
  <2>3. asked \in O /\ asked \in Knowing(q) /\ asked \in Asking(q)
    <3>1. asked \in O /\ asked.trust = pending.trust /\ q \in asked.requests
      BY <2>1, <2>2, AddRequestOnward
    <3>2. asked \in Stores
      BY <3>1, OnwardStores
    <3> QED BY <2>2, <3>1, <3>2 DEF Knowing, Asking
  <2> HIDE DEF asked
  <2>4. store'[p] = asked /\ todo'[p] = t /\ incoming'[p] = incoming[p] \cup {q}
    BY <1>2, <1>5 DEF ConsentInv, TypeOK, Save, Notify
  <2>5. /\ DOMAIN t = {1, 2, 3}
        /\ t[1].op = "save" /\ t[1].store = pending
        /\ t[2].op = "save" /\ t[2].store = asked
        /\ t[3].op = "notify" /\ t[3].event = note
        /\ note.kind = "request" /\ note.peer = q
    OBVIOUS
  <2> HIDE DEF t, note
  <2>6. Onwards(p, {})
    BY <1>1, <2>2, <2>3, <2>4, <2>5 DEF Onwards, O
  <2>7. Lasts(asked, disk'[p], t, 3, Knowing(q))
    <3>1. 1 \in 0 .. 3 - 1
      OBVIOUS
    <3> QED BY <2>2, <2>3, <2>5, <3>1 DEF Lasts
  <2>8. Lasts(asked, disk'[p], t, 3, Asking(q))
    <3>1. 2 \in 0 .. 3 - 1
      OBVIOUS
    <3>2. \A k \in DOMAIN t : k >= 2 /\ t[k].op = "save" => t[k].store \in Asking(q)
      BY <2>3, <2>5
    <3> QED BY <2>3, <2>5, <3>1, <3>2 DEF Lasts
  <2>9. NoticesAreKept(p)'
    <3>1. Kept(p, 3, note)'
      BY <2>4, <2>5, <2>7, <2>8 DEF Kept, Lasting
    <3> QED BY <2>4, <2>5, <3>1 DEF NoticesAreKept
  <2>10. \A j \in DOMAIN shown[p] : ~IsRequestFrom(shown[p][j], q)
    <3> SUFFICES ASSUME NEW j \in DOMAIN shown[p], IsRequestFrom(shown[p][j], q)
                 PROVE  FALSE
      OBVIOUS
    <3>1. Kept(p, 1, shown[p][j])
      BY <1>2 DEF NoticeInv, ShownAreKept
    <3>2. store[p] \in Knowing(q)
      BY <3>1 DEF Kept, Lasting, Lasts, IsRequestFrom
    <3> QED BY <1>5, <3>2 DEF Knowing, AlreadyKnown
  <2>11. SurfacingOnce(p)'
    <3>1. ASSUME NEW r \in Peers, NEW i \in DOMAIN t, Surfacing(t[i], r)
          PROVE  r = q /\ i = 3
      BY <2>5, <3>1 DEF Surfacing, IsRequestFrom
    <3> QED BY <1>1, <2>4, <2>10, <3>1 DEF SurfacingOnce
  <2>12. \A r \in Peers \ {p} : Spared(r)
    BY <1>1, <1>5, <1>2 DEF Spared, ConsentInv, TypeOK
  <2> QED BY <1>1, <1>3, <2>6, <2>9, <2>11, <2>12, TellingCall
<1> QED BY <1>1, <1>4, <1>5

LEMMA PollResponseNotice ==
    ASSUME ContactsInv, NEW p \in Peers, NEW d \in net, PollResponse(p, d)
    PROVE  NoticeInv'
<1> DEFINE q == d.pkt.source
           answer == d.pkt.payload.text
           s == set_trust(store[p], q, DecisionTrust(answer))
           note == [kind |-> "response", peer |-> q, text |-> answer]
           t == <<[op |-> "save", store |-> s], [op |-> "notify", event |-> note]>>
<1>1. /\ Idle(p) /\ Receive(p, d)
      /\ UNCHANGED <<incoming, disk, torn, detached, did, shown>>
      /\ \/ UNCHANGED <<store, todo>>
         \/ /\ store' = [store EXCEPT ![p] = s]
            /\ todo' = [todo EXCEPT ![p] = <<Save(store'[p]), Notify("response", q, answer)>>]
  BY DEF PollResponse, Receive, outside, history, Do
<1>2. ConsentInv /\ NoticeInv
  BY DEF ContactsInv
<1>3. left'["save_failure"] = left["save_failure"]
  BY <1>1, <1>2, ReceiveSpends
<1>4. CASE UNCHANGED <<store, todo>>
  BY <1>1, <1>2, <1>3, <1>4, CalmStep
<1>5. CASE /\ store' = [store EXCEPT ![p] = s]
           /\ todo' = [todo EXCEPT ![p] = <<Save(store'[p]), Notify("response", q, answer)>>]
  <2>1. q \in Peers /\ store[p] \in Stores
    BY <1>2, InFlight, PeerTypes
  <2> HIDE DEF q, answer
  <2>2. s \in Onward(store[p], {})
    BY <2>1, OnwardSame, SetTrustOnward DEF TrustStatus, DecisionTrust
  <2> HIDE DEF s
  <2>3. store'[p] = s /\ todo'[p] = t
    BY <1>2, <1>5 DEF ConsentInv, TypeOK, Save, Notify
  <2>4. /\ DOMAIN t = {1, 2}
        /\ t[1].op = "save" /\ t[1].store = s /\ t[2].op = "notify" /\ t[2].event = note
        /\ note.kind = "response"
    OBVIOUS
  <2> HIDE DEF t, note
  <2>5. Onwards(p, {})
    BY <1>1, <2>2, <2>3, <2>4 DEF Onwards
  <2>6. NoticesAreKept(p)'
    <3>1. Kept(p, 2, note)'
      BY <2>4 DEF Kept
    <3> QED BY <2>3, <2>4, <3>1 DEF NoticesAreKept
  <2>7. SurfacingOnce(p)'
    BY <2>3, <2>4 DEF SurfacingOnce, Surfacing, IsRequestFrom
  <2>8. \A r \in Peers \ {p} : Spared(r)
    BY <1>1, <1>5, <1>2 DEF Spared, ConsentInv, TypeOK
  <2> QED BY <1>1, <1>3, <2>5, <2>6, <2>7, <2>8, TellingCall
<1> QED BY <1>1, <1>4, <1>5

-----------------------------------------------------------------------------
(* Effects, restarts, the relay and the network *)

LEMMA EffectNotice ==
    ASSUME ContactsInv, NEW p \in Peers, Effect(p)
    PROVE  NoticeInv'
<1> DEFINE t == todo[p]
           n(i) == IF i = 1 THEN 1 ELSE i - 1
<1>1. /\ t # <<>> /\ todo' = [todo EXCEPT ![p] = Tail(t)]
      /\ EffectSave(p) \/ EffectSend(p) \/ EffectNotify(p)
      /\ UNCHANGED <<store, incoming, detached, did>>
  BY DEF Effect, memory
<1>2. ConsentInv /\ NoticeInv
  BY DEF ContactsInv
<1>3. /\ t \in Seq(Steps) /\ Len(t) \in Nat /\ Len(t) > 0 /\ DOMAIN t = 1 .. Len(t)
      /\ Head(t) = t[1] /\ 1 \in DOMAIN t
      /\ DOMAIN Tail(t) = 1 .. Len(t) - 1
      /\ \A k \in DOMAIN Tail(t) : Tail(t)[k] = t[k + 1] /\ k + 1 \in DOMAIN t
  <2>1. t \in Seq(Steps)
    BY <1>2, PeerTypes
  <2> QED BY <1>1, <2>1, HeadTailProperties
<1>4. /\ torn = {} /\ detached = {} /\ left["save_failure"] = 0
      /\ \A r \in Peers : Told(r)
      /\ SurfacedOnce
  BY <1>2 DEF NoticeInv, Told
<1>5. /\ torn' = {} /\ UNCHANGED left
      /\ disk' = IF t[1].op = "save" THEN [disk EXCEPT ![p] = t[1].store] ELSE disk
      /\ shown' = IF t[1].op = "notify" THEN [shown EXCEPT ![p] = Append(shown[p], t[1].event)]
                  ELSE shown
  <2>1. ~Spend("save_failure")
    BY <1>4 DEF Spend
  <2> QED BY <1>1, <1>3, <1>4, <2>1 DEF EffectSave, EffectSend, EffectNotify
<1>6. /\ todo'[p] = Tail(t) /\ store'[p] = store[p] /\ incoming'[p] = incoming[p]
      /\ disk'[p] = IF t[1].op = "save" THEN t[1].store ELSE disk[p]
      /\ shown'[p] = IF t[1].op = "notify" THEN Append(shown[p], t[1].event) ELSE shown[p]
      /\ shown[p] \in Seq(Notices)
      /\ \A r \in Peers \ {p} : Spared(r)
  <2>1. /\ todo \in [Peers -> Seq(Steps)] /\ disk \in [Peers -> Stores]
        /\ shown \in [Peers -> Seq(Notices)]
    BY <1>2 DEF ConsentInv, TypeOK
  <2> HIDE DEF t
  <2>2. todo'[p] = Tail(t) /\ \A r \in Peers \ {p} : todo'[r] = todo[r]
    BY <1>1, <2>1
  <2>3. /\ disk'[p] = IF t[1].op = "save" THEN t[1].store ELSE disk[p]
        /\ \A r \in Peers \ {p} : disk'[r] = disk[r]
    BY <1>5, <2>1
  <2>4. /\ shown'[p] = IF t[1].op = "notify" THEN Append(shown[p], t[1].event) ELSE shown[p]
        /\ \A r \in Peers \ {p} : shown'[r] = shown[r]
    BY <1>5, <2>1
  <2> QED BY <1>1, <2>1, <2>2, <2>3, <2>4 DEF Spared
<1>7. ASSUME NEW i \in DOMAIN t, NEW e, Kept(p, i, e)
      PROVE  Kept(p, n(i), e)'
  <2>1. ASSUME NEW G, Lasting(p, i, G)
        PROVE  Lasts(store'[p], disk'[p], todo'[p], n(i), G)
    <3>1. Lasts(store[p], disk[p], t, i, G)
      BY <2>1 DEF Lasting
    <3> HIDE DEF t
    <3>2. disk'[p] = IF t[1].op = "save" THEN t[1].store ELSE disk[p]
      BY <1>6
    <3>3. t \in Seq(Steps) /\ t # <<>>
      BY <1>1, <1>3
    <3>4. Lasts(store[p], disk'[p], Tail(t), IF i = 1 THEN 1 ELSE i - 1, G)
      BY ONLY <3>1, <3>2, <3>3, i \in DOMAIN t, StepLasts
    <3> QED BY <1>6, <3>4
  <2>2. Answered(p, e.peer)' <=> Answered(p, e.peer)
    BY <1>1 DEF Answered
  <2> HIDE DEF n, t
  <2> QED BY <1>6, <1>7, <2>1, <2>2 DEF Kept, Lasting
<1> HIDE DEF t
<1>8. ShownAreKept(p)'
  <2> SUFFICES ASSUME NEW i \in DOMAIN shown'[p], NEW e, e = shown'[p][i]
               PROVE  Kept(p, 1, e)'
    BY DEF ShownAreKept
  <2>1. Kept(p, 1, e)
    <3>1. CASE i \in DOMAIN shown[p] /\ shown'[p][i] = shown[p][i]
      BY <1>4, <3>1 DEF Told, ShownAreKept
    <3>2. CASE t[1].op = "notify" /\ e = t[1].event
      BY <1>3, <1>4, <3>2 DEF Told, NoticesAreKept, t
    <3>3. t[1].op = "notify" => t[1].event \in Notices
      <4>1. t[1] \in Steps
        BY <1>3
      <4> QED BY <4>1 DEF Steps
    <3> QED BY <1>6, <3>1, <3>2, <3>3, AppendProperties
  <2> QED BY <1>3, <1>7, <2>1
<1>9. NoticesAreKept(p)'
  <2> SUFFICES ASSUME NEW i \in DOMAIN todo'[p], todo'[p][i].op = "notify",
                      NEW e, e = todo'[p][i].event
               PROVE  Kept(p, i, e)'
    BY DEF NoticesAreKept
  <2>1. i \in Nat \ {0} /\ i + 1 \in DOMAIN t /\ todo'[p][i] = t[i + 1]
    BY <1>3, <1>6
  <2>2. Kept(p, i + 1, e)
    BY <1>4, <2>1 DEF Told, NoticesAreKept, t
  <2>3. n(i + 1) = i
    BY <2>1
  <2> QED BY <1>7, <2>1, <2>2, <2>3
<1>10. \A q \in Peers : \A i \in DOMAIN t : Surfacing(t[i], q) =>
          /\ \A j \in DOMAIN shown[p] : ~IsRequestFrom(shown[p][j], q)
          /\ \A j \in DOMAIN t : Surfacing(t[j], q) => j = i
  BY <1>4 DEF Told, SurfacingOnce, t
<1>11. \A i \in DOMAIN shown'[p] :
          \/ i \in DOMAIN shown[p] /\ shown'[p][i] = shown[p][i]
          \/ /\ t[1].op = "notify" /\ shown'[p][i] = t[1].event
             /\ i = Len(shown[p]) + 1
  <2>1. CASE t[1].op = "notify"
    <3>1. t[1].event \in Notices
      <4>1. t[1] \in Steps
        BY <1>3
      <4> QED BY <2>1, <4>1 DEF Steps
    <3> QED BY <1>6, <2>1, <3>1, AppendProperties
  <2>2. CASE t[1].op # "notify"
    BY <1>6, <2>2
  <2> QED BY <2>1, <2>2
<1>12. SurfacingOnce(p)'
  <2> SUFFICES ASSUME NEW q \in Peers, NEW i \in DOMAIN Tail(t), Surfacing(Tail(t)[i], q)
               PROVE  /\ \A j \in DOMAIN shown'[p] : ~IsRequestFrom(shown'[p][j], q)
                      /\ \A j \in DOMAIN Tail(t) : Surfacing(Tail(t)[j], q) => j = i
    BY <1>6 DEF SurfacingOnce
  <2>1. i + 1 \in DOMAIN t /\ Surfacing(t[i + 1], q) /\ i \in Nat \ {0}
    BY <1>3
  <2>2. ~Surfacing(t[1], q)
    BY <1>3, <1>10, <2>1
  <2>3. \A j \in DOMAIN shown'[p] : ~IsRequestFrom(shown'[p][j], q)
    BY <1>10, <1>11, <2>1, <2>2 DEF Surfacing
  <2>4. ASSUME NEW j \in DOMAIN Tail(t), Surfacing(Tail(t)[j], q)
        PROVE  j = i
    <3>1. j + 1 \in DOMAIN t /\ Surfacing(t[j + 1], q) /\ j \in Nat
      BY <1>3, <2>4
    <3>2. j + 1 = i + 1
      BY <1>10, <2>1, <3>1
    <3> QED BY <2>1, <3>1, <3>2
  <2> QED BY <2>3, <2>4
<1>13. SurfacedOnce'
  <2> SUFFICES ASSUME NEW r \in Peers, NEW q \in Peers, NEW i \in DOMAIN shown'[r],
                      NEW j \in DOMAIN shown'[r], IsRequestFrom(shown'[r][i], q),
                      IsRequestFrom(shown'[r][j], q)
               PROVE  i = j
    BY DEF SurfacedOnce
  <2>1. \A a, b \in DOMAIN shown[r] :
            IsRequestFrom(shown[r][a], q) /\ IsRequestFrom(shown[r][b], q) => a = b
    BY <1>4 DEF SurfacedOnce
  <2>2. CASE r # p
    BY <1>6, <2>1, <2>2 DEF Spared
  <2>3. CASE r = p
    <3>1. t[1].op = "notify" /\ IsRequestFrom(t[1].event, q) =>
              \A k \in DOMAIN shown[p] : ~IsRequestFrom(shown[p][k], q)
      BY <1>3, <1>10 DEF Surfacing
    <3> QED BY <1>11, <2>1, <2>3, <3>1
  <2> QED BY <2>2, <2>3
<1>14. \A r \in Peers \ {p} : Told(r)'
  BY <1>1, <1>4, <1>6, SparedTold
<1>15. Told(p)'
  BY <1>8, <1>9, <1>12 DEF Told
<1> QED BY <1>1, <1>4, <1>5, <1>13, <1>14, <1>15 DEF NoticeInv, Told

LEMMA RestartNotice ==
    ASSUME ContactsInv, NEW p \in Peers, Restart(p)
    PROVE  NoticeInv'
<1> DEFINE t == IF p \in RelayUsers
                THEN <<[op |-> "send", datagram |-> Announcement(PortOf(p, starts'[p]), p)]>>
                ELSE <<>>
<1>1. ConsentInv /\ NoticeInv
  BY DEF ContactsInv
<1>2. torn = {} /\ detached = {} /\ left["save_failure"] = 0
  BY <1>1 DEF NoticeInv
<1>3. /\ Spend("restart")
      /\ store' = [store EXCEPT ![p] = disk[p]]
      /\ incoming' = [incoming EXCEPT ![p] = disk[p].requests]
      /\ detached' = {}
      /\ todo' = [todo EXCEPT ![p] = t]
      /\ UNCHANGED <<disk, torn, did, shown>>
  BY <1>2 DEF Restart, Resurfaced, OpenStore, Do, history
<1>4. \A k \in DOMAIN t : t[k].op = "send"
  OBVIOUS
<1> HIDE DEF t
<1>5. /\ store'[p] = disk[p] /\ disk'[p] = disk[p] /\ incoming'[p] = disk[p].requests
      /\ todo'[p] = t
      /\ \A r \in Peers \ {p} : Spared(r)
  BY <1>1, <1>3 DEF Spared, ConsentInv, TypeOK
<1>6. left'["save_failure"] = 0
  BY <1>1, <1>2, <1>3, SpendOther DEF Events
<1>7. ShownAreKept(p)'
  <2> SUFFICES ASSUME NEW i \in DOMAIN shown'[p], NEW e, e = shown'[p][i]
               PROVE  Kept(p, 1, e)'
    BY DEF ShownAreKept
  <2>1. Kept(p, 1, e)
    BY <1>1, <1>3 DEF NoticeInv, ShownAreKept
  <2>2. ASSUME NEW G, Lasting(p, 1, G)
        PROVE  disk[p] \in G /\ Lasts(store'[p], disk'[p], todo'[p], 1, G)
    <3>1. disk[p] \in G
      BY <2>2 DEF Lasting, Lasts
    <3> QED BY <1>4, <1>5, <3>1 DEF Lasts
  <2>3. Answered(p, e.peer)' <=> Answered(p, e.peer)
    BY <1>3 DEF Answered
  <2>4. e.kind = "request" /\ ~Answered(p, e.peer) => e.peer \in incoming'[p]
    BY <1>5, <2>1, <2>2 DEF Kept, Asking
  <2> QED BY <2>1, <2>2, <2>3, <2>4 DEF Kept, Lasting
<1>8. NoticesAreKept(p)' /\ SurfacingOnce(p)'
  BY <1>4, <1>5 DEF NoticesAreKept, SurfacingOnce, Surfacing
<1>9. \A r \in Peers \ {p} : Told(r)'
  BY <1>1, <1>3, <1>5, SparedTold DEF NoticeInv, Told
<1>10. \A r \in Peers : Told(r)'
  BY <1>7, <1>8, <1>9 DEF Told
<1>11. UNCHANGED <<shown, torn, detached>>
  BY <1>2, <1>3
<1> QED BY <1>1, <1>6, <1>10, <1>11, Assembled

-----------------------------------------------------------------------------
LEMMA InitNotice == Init /\ left["save_failure"] = 0 => ContactsInv
<1> SUFFICES ASSUME Init, left["save_failure"] = 0 PROVE ContactsInv
  OBVIOUS
<1>1. torn = {} /\ detached = {} /\ \A p \in Peers : shown[p] = <<>> /\ todo[p] = <<>>
  BY DEF Init
<1>2. \A p \in Peers : DOMAIN shown[p] = {} /\ DOMAIN todo[p] = {}
  BY <1>1
<1>3. \A p \in Peers : ShownAreKept(p) /\ NoticesAreKept(p) /\ SurfacingOnce(p)
  BY <1>2 DEF ShownAreKept, NoticesAreKept, SurfacingOnce
<1>4. SurfacedOnce
  BY <1>2 DEF SurfacedOnce
<1> QED BY <1>1, <1>3, <1>4, InitConsent DEF ContactsInv, NoticeInv

LEMMA ApiCallNotice ==
    ASSUME ContactsInv, ConsentInv', NEW p \in Peers, ApiCall(p)
    PROVE  NoticeInv'
<1>1. PICK q \in Peers :
          \/ \E addr \in Reachable(p) : SendContactRequest(p, q, addr)
          \/ AcceptContact(p, q)
          \/ RejectContact(p, q)
          \/ \E text \in Texts : Send(p, q, text)
          \/ \E addr \in Reachable(p) : AddPeer(p, q, addr)
          \/ SetNickname(p, q)
          \/ \E addr \in Found(p) : ConnectTo(p, q, addr)
  BY DEF ApiCall
<1>2. Reachable(p) \subseteq Addresses /\ Found(p) \subseteq Addresses
  BY FoundType DEF ContactsInv
<1>3. AcceptContact(p, q) \/ RejectContact(p, q) => NoticeInv'
  BY DecideNotice DEF AcceptContact, RejectContact
<1> QED
  BY <1>1, <1>2, <1>3, SendContactRequestNotice, SendNotice, AddPeerNotice,
     SetNicknameNotice, ConnectToNotice

LEMMA PollNotice ==
    ASSUME ContactsInv, ConsentInv', NEW p \in Peers, NEW d \in net, Poll(p, d)
    PROVE  NoticeInv'
BY PollHelloNotice, PollConnectNotice, PollDroppedNotice, PollMessageNotice,
   PollRequestNotice, PollResponseNotice DEF Poll

\* The relay, the network and the signaling server.
LEMMA ElsewhereNotice ==
    ASSUME ContactsInv, UNCHANGED <<store, disk, todo, shown, incoming, torn, detached, did>>,
           \/ UNCHANGED left
           \/ Spend("route_expiry") \/ Spend("loss") \/ Spend("advertise")
    PROVE  NoticeInv'
<1>1. left'["save_failure"] = left["save_failure"]
  BY SpendOther DEF Events, ContactsInv
<1>2. /\ UNCHANGED <<store, disk, todo, shown, incoming, torn, detached>>
      /\ did \subseteq did' /\ NoticeInv
  BY DEF ContactsInv
<1> QED BY <1>1, <1>2, CalmStep

LEMMA NextNotice == ContactsInv /\ [Next]_vars => ContactsInv'
<1> SUFFICES ASSUME ContactsInv, [Next]_vars PROVE NoticeInv' /\ ConsentInv'
  BY DEF ContactsInv
<1>1. ConsentInv'
  BY NextConsent DEF ContactsInv
<1>2. CASE \E p \in Peers : ApiCall(p) \/ Announce(p) \/ Tick(p)
  BY <1>1, <1>2, ApiCallNotice, AnnounceNotice, TickNotice
<1>3. CASE \E p \in Peers, d \in net : Poll(p, d)
  BY <1>1, <1>3, PollNotice
<1>4. CASE \E p \in Peers : Effect(p) \/ Restart(p)
  BY <1>1, <1>4, EffectNotice, RestartNotice
<1>5. ASSUME NEW d \in net, RelayHandle(d) \/ Lose(d)
      PROVE  NoticeInv'
  BY <1>5, ElsewhereNotice DEF RelayHandle, Lose, memory, outside, history
<1>6. ASSUME NEW q \in Peers, RelayExpire(q)
      PROVE  NoticeInv'
  BY <1>6, ElsewhereNotice DEF RelayExpire, memory, outside, history
<1>7. ASSUME NEW p \in Peers, NEW q \in Peers, NEW addr \in AddrsOf(p) \cup {NoAddr},
             Advertise(p, q, addr)
      PROVE  NoticeInv'
  BY <1>7, ElsewhereNotice DEF Advertise, memory, outside, history
<1>8. CASE UNCHANGED vars
  <2>1. UNCHANGED <<store, disk, todo, shown, incoming, torn, detached, did>> /\ UNCHANGED left
    BY <1>8 DEF vars, memory, outside, history
  <2> QED BY <1>1, <2>1, ElsewhereNotice
<1> QED
  BY <1>1, <1>2, <1>3, <1>4, <1>5, <1>6, <1>7, <1>8 DEF Next

\* On disks that do not fail, what the application was told, or is about to be
\* told, is on disk by then and stays there (NoticeInv).
THEOREM NothingTakenBack == SavingSpec => []NoticeInv
<1>1. ContactsInv => NoticeInv
  BY DEF ContactsInv
<1> QED BY <1>1, InitNotice, NextNotice, PTL DEF SavingSpec, SavingInit

\* A peer's contact request is surfaced at most once, through repetitions by the
\* peer or the network and restarts at any point (handle_contact_request).
THEOREM OneRequest == SavingSpec => []SurfacedOnce
<1>1. NoticeInv => SurfacedOnce
  BY DEF NoticeInv
<1> QED BY <1>1, NothingTakenBack, PTL

\* A surfaced request can be answered until it is, now and after a restart
\* (handle_contact_request saves before it calls back, open_store re-surfaces).
THEOREM StaysAnswerable == SavingSpec => []SurfacedIsAnswerable
<1>1. ASSUME NoticeInv, NEW p \in Peers, NEW q \in Peers, NEW i \in DOMAIN shown[p],
             IsRequestFrom(shown[p][i], q), ~Answered(p, q)
      PROVE  q \in incoming[p] /\ q \in disk[p].requests
  <2>1. Kept(p, 1, shown[p][i])
    BY <1>1 DEF NoticeInv, ShownAreKept
  <2>2. q \in incoming[p] /\ Lasts(store[p], disk[p], todo[p], 1, Asking(q))
    BY <1>1, <2>1 DEF Kept, IsRequestFrom, Lasting
  <2>3. disk[p] \in Asking(q)
    BY <2>2 DEF Lasts
  <2> QED BY <2>2, <2>3 DEF Asking
<1>2. NoticeInv => SurfacedIsAnswerable
  BY <1>1 DEF SurfacedIsAnswerable
<1> QED BY <1>2, NothingTakenBack, PTL

\* A message the user was shown is in the conversation on disk
\* (handle_message records before it calls the application).
THEOREM StaysRecorded == SavingSpec => []ShownIsRecorded
<1>1. ASSUME NoticeInv, NEW p \in Peers, NEW i \in DOMAIN shown[p],
             shown[p][i].kind = "message"
      PROVE  disk[p] \in Recording(shown[p][i].peer, shown[p][i].text)
  <2>1. Kept(p, 1, shown[p][i])
    BY <1>1 DEF NoticeInv, ShownAreKept
  <2> QED BY <1>1, <2>1 DEF Kept, Lasting, Lasts
<1>2. NoticeInv => ShownIsRecorded
  BY <1>1 DEF ShownIsRecorded, Recording
<1> QED BY <1>2, NothingTakenBack, PTL

-----------------------------------------------------------------------------
(***************************************************************************)
(* Proofs about the paths of Engine: where datagrams go and what a         *)
(* confirmed direct path means, for all peers, relay users, fixed ports    *)
(* and budgets.                                                            *)
(***************************************************************************)

PathsInv == ConsentInv /\ PathInv

LEMMA StartsType ==
    ASSUME ConsentInv
    PROVE  starts \in [Peers -> Nat]
BY Parts DEF OutsidePart

LEMMA StartsTypeNext ==
    ASSUME ConsentInv'
    PROVE  starts' \in [Peers -> Nat]
BY DEF ConsentInv, TypeOK

LEMMA OwnAddress ==
    ASSUME ConsentInv, NEW p \in Peers
    PROVE  Addr(p) \in AddrsOf(p) /\ Addr(p) # Relay
<1>1. starts[p] \in Nat
  BY PeerFacts
<1>2. Addr(p) \in AddrsOf(p)
  BY <1>1 DEF Addr, AddrsOf
<1>3. p # "relay"
  BY PeersAssumption
<1>4. Addr(p)[1] = p /\ Relay[1] = "relay"
  BY DEF Addr, PortOf, Relay
<1> QED BY <1>2, <1>3, <1>4

LEMMA RelayIsSomewhere == Relay # NoAddr
BY DEF Relay, NoAddr

LEMMA NotTheRelays ==
    ASSUME ConsentInv, NEW p \in Peers
    PROVE  Relay \notin AddrsOf(p) /\ NoAddr \notin AddrsOf(p) /\ Relay # NoAddr
<1> SUFFICES ASSUME NEW n \in Nat
             PROVE  Relay # PortOf(p, n) /\ NoAddr # PortOf(p, n) /\ Relay # NoAddr
  BY PeerFacts DEF AddrsOf
<1>1. p # "relay" /\ p # "none"
  BY PeersAssumption
<1>2. PortOf(p, n)[1] = p /\ Relay[1] = "relay" /\ NoAddr[1] = "none"
  BY DEF PortOf, Relay, NoAddr
<1> QED BY <1>1, <1>2

LEMMA FoundFacts ==
    ASSUME ConsentInv, NEW p \in Peers, NEW addr
    PROVE  /\ addr \in Found(p) => addr # NoAddr /\ addr # Relay
           /\ addr \in Reachable(p) => addr # NoAddr /\ addr \in Found(p) \cup {Relay}
<1>1. addr \in Found(p) => addr # NoAddr /\ addr # Relay
  BY NotTheRelays DEF Found
<1> QED BY <1>1, NotTheRelays DEF Reachable

\* Nobody forgets an address or, unless it restarts, a hole punch.
PathsGrow ==
    /\ \A q \in Peers : starts[q] <= starts'[q]
    /\ \A q, r \in Peers : starts'[q] = 0 /\ probe[q][r] # NoProbe => probe'[q][r] # NoProbe

LEMMA AddrsGrow ==
    ASSUME ConsentInv, ConsentInv', PathsGrow, NEW q \in Peers
    PROVE  AddrsOf(q) \subseteq AddrsOf(q)'
<1>1. starts[q] \in Nat /\ starts'[q] \in Nat /\ starts[q] <= starts'[q]
  BY StartsType, StartsTypeNext DEF PathsGrow
<1>2. 0 .. starts[q] \subseteq 0 .. starts'[q]
  BY <1>1
<1> QED BY <1>2 DEF AddrsOf

LEMMA AddrsSame ==
    ASSUME UNCHANGED starts, NEW q \in Peers
    PROVE  AddrsOf(q)' = AddrsOf(q)
BY DEF AddrsOf

LEMMA TraceableStays ==
    ASSUME ConsentInv, ConsentInv', PathsGrow, NEW d, d.pkt.source \in Peers, Traceable(d)
    PROVE  Traceable(d)'
<1> DEFINE q == d.pkt.source
<1>1. AddrsOf(q) \subseteq AddrsOf(q)'
  BY AddrsGrow
<1>2. starts[q] \in Nat /\ starts'[q] \in Nat /\ starts[q] <= starts'[q]
  BY StartsType, StartsTypeNext DEF PathsGrow
<1>3. starts'[q] = 0 => starts[q] = 0
  BY <1>2
<1> QED BY <1>1, <1>3 DEF Traceable, PathsGrow

\* What a peer sends under its own name.
LEMMA OwnDatagram ==
    ASSUME ConsentInv, ConsentInv', PathsGrow, NEW p \in Peers, NEW d,
           d.from \in AddrsOf(p)', d.pkt.source = p, d.pkt.type # "Connect",
           d.pkt.type = "Hello" /\ d.pkt.destination \in Peers =>
               d.to # Relay /\ (starts'[p] = 0 => probe'[p][d.pkt.destination] # NoProbe)
    PROVE  Traceable(d)'
BY DEF Traceable

\* Steps that send nothing but sealed packets of p's own.
OwnSteps(p) ==
    {e \in Steps : e.op = "send" => /\ e.datagram.from = Addr(p)
                                    /\ e.datagram.pkt.source = p
                                    /\ e.datagram.pkt.type \in SealedTypes}

LEMMA OwnStepsTraceable ==
    ASSUME ConsentInv, ConsentInv', PathsGrow, NEW p \in Peers,
           todo'[p] \in Seq(OwnSteps(p))
    PROVE  SendsTraceable(p)'
<1> SUFFICES ASSUME NEW i \in DOMAIN todo'[p], todo'[p][i].op = "send",
                    NEW d, d = todo'[p][i].datagram
             PROVE  Traceable(d)'
  BY DEF SendsTraceable
<1>1. todo'[p][i] \in OwnSteps(p)
  OBVIOUS
<1>2. d.from = Addr(p) /\ d.pkt.source = p /\ d.pkt.type \in SealedTypes
  BY <1>1 DEF OwnSteps
<1>3. Addr(p) \in AddrsOf(p)'
  BY OwnAddress, AddrsGrow
<1> QED BY <1>2, <1>3, OwnDatagram DEF SealedTypes

LEMMA SaveIsOwn ==
    ASSUME NEW p, NEW s \in Stores
    PROVE  Save(s) \in OwnSteps(p)
BY DEF Save, OwnSteps, Steps

LEMMA NotifyIsOwn ==
    ASSUME NEW p, NEW q \in Peers, NEW text \in Words,
           NEW kind \in {"message", "request", "response"}
    PROVE  Notify(kind, q, text) \in OwnSteps(p)
BY DEF Notify, OwnSteps, Steps, Notices

LEMMA SealedIsOwn ==
    ASSUME ConsentInv, NEW p \in Peers, NEW q \in Peers, NEW type \in SealedTypes,
           NEW text \in Words, NEW addr \in Addresses
    PROVE  send_packet(p, addr, encrypt_as(p, q, session[p][q], type, text))
               \in Seq(OwnSteps(p))
<1> DEFINE pkt == encrypt_as(p, q, session[p][q], type, text)
           to == Route(p, addr)
           e == SendTo(p, to, pkt)
<1>1. pkt \in SealedPackets /\ pkt.type = type /\ pkt.source = p
  BY PeerFacts, EncryptAsType
<1> HIDE DEF pkt
<1>2. to \in Addresses /\ Addr(p) \in Addresses /\ pkt \in Packets
  BY <1>1, PeerFacts DEF Route, RelayOf, Addresses, Packets
<1> HIDE DEF to
<1>3. Datagram(Addr(p), to, pkt) \in Datagrams
  BY <1>2 DEF Datagram, Datagrams
<1>4. e \in Steps /\ e.op = "send" /\ e.datagram = Datagram(Addr(p), to, pkt)
  BY <1>3 DEF SendTo, Steps
<1>5. e \in OwnSteps(p)
  BY <1>1, <1>4 DEF OwnSteps, Datagram
<1>6. <<e>> \in Seq(OwnSteps(p)) /\ <<>> \in Seq(OwnSteps(p))
  BY <1>5, OneStep
<1> QED BY <1>6 DEF send_packet, Transmit, pkt, to

LEMMA SendsStay ==
    ASSUME PathsInv, ConsentInv', PathsGrow, NEW r \in Peers, todo'[r] = todo[r]
    PROVE  SendsTraceable(r)'
<1> SUFFICES ASSUME NEW i \in DOMAIN todo'[r], todo'[r][i].op = "send",
                    NEW d, d = todo'[r][i].datagram
             PROVE  Traceable(d)'
  BY DEF SendsTraceable
<1>1. todo[r] \in Seq(Steps)
  BY Parts DEF PathsInv, TodoPart
<1>2. Traceable(d) /\ d \in Datagrams
  BY <1>1 DEF PathsInv, PathInv, SendsTraceable, Steps
<1>3. d.pkt.source \in Peers
  BY <1>2 DEF Datagrams, Packets, SealedPackets
<1> QED BY <1>2, <1>3, TraceableStays DEF PathsInv

\* What all calls have in common.
LEMMA Carried ==
    ASSUME PathsInv, ConsentInv', PathsGrow, NEW p \in Peers,
           \A r \in Peers : r # p => todo'[r] = todo[r],
           SendsTraceable(p)',
           net' \subseteq net,
           PathsKnown', ConfirmedIsMutual'
    PROVE  PathInv'
<1>1. ASSUME NEW d \in net'
      PROVE  Traceable(d)'
  <2>1. Traceable(d) /\ d.pkt.source \in Peers
    BY <1>1, InFlight DEF PathsInv, PathInv
  <2> QED BY <2>1, TraceableStays DEF PathsInv
<1>2. ASSUME NEW r \in Peers, r # p
      PROVE  SendsTraceable(r)'
  BY <1>2, SendsStay
<1> QED BY <1>1, <1>2 DEF PathInv

-----------------------------------------------------------------------------
(* Calls that start or confirm no hole punch *)

\* At most one endpoint changes, and none is lost.
EndpointSet(p, q) ==
    \/ UNCHANGED endpoint
    \/ \E a : /\ endpoint' = [endpoint EXCEPT ![p][q] = a]
              /\ endpoint[p][q] # NoAddr => a # NoAddr

LEMMA EndpointsKept ==
    ASSUME PathsInv, NEW p \in Peers, NEW q \in Peers, EndpointSet(p, q), UNCHANGED <<starts, route>>,
           NEW x \in Peers, NEW y \in Peers
    PROVE  /\ endpoint[x][y] # NoAddr => endpoint'[x][y] # NoAddr
           /\ route'[y] \in AddrsOf(y)' \cup {NoAddr}
<1>1. AddrsOf(y)' = AddrsOf(y)
  BY AddrsSame
<1>2. endpoint \in PerPair(Addresses)
  BY Parts DEF PathsInv, PathPart
<1>3. route[y] \in AddrsOf(y) \cup {NoAddr}
  BY DEF PathsInv, PathInv, PathsKnown
<1>4. endpoint[x][y] # NoAddr => endpoint'[x][y] # NoAddr
  BY <1>2 DEF EndpointSet, PerPair
<1> QED BY <1>1, <1>3, <1>4

LEMMA QuietPathCall ==
    ASSUME PathsInv, ConsentInv', NEW p \in Peers, NEW q \in Peers,
           UNCHANGED <<probe, starts, route>>, net' \subseteq net,
           EndpointSet(p, q),
           UNCHANGED todo \/ \E e \in Seq(OwnSteps(p)) : todo' = [todo EXCEPT ![p] = e]
    PROVE  PathInv'
<1>0. todo'[p] \in Seq(OwnSteps(p)) \/ UNCHANGED todo
  BY Parts DEF PathsInv, TodoPart
<1>1. PathsGrow
  BY StartsType DEF PathsInv, PathsGrow
<1>2. PathsKnown'
  <2> SUFFICES ASSUME NEW x \in Peers, NEW y \in Peers
               PROVE  /\ route'[y] \in AddrsOf(y)' \cup {NoAddr}
                      /\ probe'[x][y].candidate # Relay
                      /\ probe'[x][y].confirmed => endpoint'[x][y] # NoAddr
    BY DEF PathsKnown
  <2> QED BY EndpointsKept DEF PathsInv, PathInv, PathsKnown
<1>3. ConfirmedIsMutual'
  BY DEF PathsInv, PathInv, ConfirmedIsMutual
<1>4. SendsTraceable(p)'
  <2>1. CASE todo'[p] \in Seq(OwnSteps(p))
    BY <1>1, <2>1, OwnStepsTraceable DEF PathsInv
  <2>2. CASE UNCHANGED todo
    BY <1>1, <2>2, SendsStay
  <2> QED BY <1>0, <2>1, <2>2
<1>5. \A r \in Peers : r # p => todo'[r] = todo[r]
  BY Parts DEF PathsInv, TodoPart
<1> QED BY <1>1, <1>2, <1>3, <1>4, <1>5, Carried

LEMMA StoreOf ==
    ASSUME ConsentInv', NEW p \in Peers
    PROVE  store'[p] \in Stores
BY DEF ConsentInv, TypeOK

LEMMA SendContactRequestPath ==
    ASSUME PathsInv, ConsentInv', NEW p \in Peers, NEW q \in Peers, NEW addr \in Reachable(p),
           SendContactRequest(p, q, addr)
    PROVE  PathInv'
<1> DEFINE packets == send_packet(p, addr,
                          encrypt_as(p, q, session[p][q], "ContactRequest", "hello"))
<1>1. /\ todo' = [todo EXCEPT ![p] = <<Save(store'[p])>> \o packets]
      /\ endpoint' = [endpoint EXCEPT ![p][q] = addr]
      /\ UNCHANGED <<probe, starts, route, net>>
  BY DEF SendContactRequest, Do, outside
<1>2. addr # NoAddr /\ addr \in Addresses
  BY FoundType, FoundFacts DEF PathsInv
<1>3. packets \in Seq(OwnSteps(p))
  BY <1>2, SealedIsOwn DEF PathsInv, SealedTypes, Words
<1> HIDE DEF packets
<1>4. <<Save(store'[p])>> \o packets \in Seq(OwnSteps(p))
  BY <1>3, StoreOf, SaveIsOwn, OneStep, Joined
<1>5. EndpointSet(p, q)
  BY <1>1, <1>2 DEF EndpointSet
<1> QED BY <1>1, <1>4, <1>5, QuietPathCall DEF PathsInv

LEMMA DecidePath ==
    ASSUME PathsInv, ConsentInv', NEW p \in Peers, NEW q \in Peers, NEW trust \in TrustStatus,
           NEW answer \in {"accept", "reject"}, Decide(p, q, trust, answer)
    PROVE  PathInv'
<1> DEFINE removed == remove_request(store[p], q)
           decided == set_trust(removed, q, trust)
           first == IF removed = store[p] THEN <<>> ELSE <<Save(removed)>>
           packets == send_packet(p, endpoint[p][q],
                          encrypt_as(p, q, session[p][q], "ContactResponse", answer))
<1>1. /\ todo' = [todo EXCEPT ![p] = first \o <<Save(decided)>> \o packets]
      /\ UNCHANGED <<endpoint, probe, starts, route, net>>
  BY DEF Decide, Do, outside
<1>2. removed \in Stores
  <2>1. store[p] \in Stores
    BY PeerFacts DEF PathsInv
  <2> QED BY <2>1 DEF remove_request, Stores
<1>3. decided \in Stores
  BY <1>2 DEF set_trust, Stores
<1>4. packets \in Seq(OwnSteps(p))
  BY PeerFacts, SealedIsOwn DEF PathsInv, SealedTypes, Words
<1> HIDE DEF removed, decided, packets
<1>5. first \in Seq(OwnSteps(p)) /\ <<Save(decided)>> \in Seq(OwnSteps(p))
  BY <1>2, <1>3, SaveIsOwn, OneStep
<1> HIDE DEF first
<1>6. first \o <<Save(decided)>> \in Seq(OwnSteps(p))
  BY <1>5, Joined
<1>7. first \o <<Save(decided)>> \o packets \in Seq(OwnSteps(p))
  BY <1>4, <1>6, Joined
<1> QED BY <1>1, <1>7, QuietPathCall DEF PathsInv, EndpointSet

LEMMA SendPath ==
    ASSUME PathsInv, ConsentInv', NEW p \in Peers, NEW q \in Peers, NEW text \in Texts, Send(p, q, text)
    PROVE  PathInv'
<1> DEFINE packets == send_packet(p, endpoint[p][q],
                          encrypt_as(p, q, session[p][q], "Message", text))
<1>1. /\ \/ UNCHANGED todo
         \/ todo' = [todo EXCEPT ![p] = packets \o <<Save(store'[p])>>]
      /\ UNCHANGED <<endpoint, probe, starts, route, net>>
  BY DEF Send, Do, outside
<1>2. packets \in Seq(OwnSteps(p))
  BY PeerFacts, SealedIsOwn DEF PathsInv, SealedTypes, Words
<1> HIDE DEF packets
<1>3. packets \o <<Save(store'[p])>> \in Seq(OwnSteps(p))
  BY <1>2, StoreOf, SaveIsOwn, OneStep, Joined
<1> QED BY <1>1, <1>3, QuietPathCall DEF PathsInv, EndpointSet

LEMMA AddPeerPath ==
    ASSUME PathsInv, ConsentInv', NEW p \in Peers, NEW q \in Peers, NEW addr \in Reachable(p),
           AddPeer(p, q, addr)
    PROVE  PathInv'
<1>1. /\ todo' = [todo EXCEPT ![p] = <<Save(store'[p])>>]
      /\ endpoint' = [endpoint EXCEPT ![p][q] = addr]
      /\ UNCHANGED <<probe, starts, route, net>>
  BY DEF AddPeer, Do, outside
<1>2. EndpointSet(p, q)
  BY <1>1, FoundFacts DEF EndpointSet, PathsInv
<1>3. <<Save(store'[p])>> \in Seq(OwnSteps(p))
  BY StoreOf, SaveIsOwn, OneStep
<1> QED BY <1>1, <1>2, <1>3, QuietPathCall DEF PathsInv

LEMMA SetNicknamePath ==
    ASSUME PathsInv, ConsentInv', NEW p \in Peers, NEW q \in Peers, SetNickname(p, q)
    PROVE  PathInv'
<1>1. /\ todo' = [todo EXCEPT ![p] = <<Save(store'[p])>>]
      /\ UNCHANGED <<endpoint, probe, starts, route, net>>
  BY DEF SetNickname, Do, outside
<1>2. <<Save(store'[p])>> \in Seq(OwnSteps(p))
  BY StoreOf, SaveIsOwn, OneStep
<1> QED BY <1>1, <1>2, QuietPathCall DEF PathsInv, EndpointSet

\* A sealed packet comes from its source or from the relay, never from nowhere.
LEMMA OpenedPath ==
    ASSUME PathsInv, NEW p \in Peers, NEW d \in net, d.pkt.type \in SealedTypes, Opened(p, d)
    PROVE  d.pkt.source \in Peers /\ EndpointSet(p, d.pkt.source)
<1>1. d.pkt.source \in Peers /\ Traceable(d)
  BY InFlight DEF PathsInv, PathInv
<1>2. d.from # NoAddr
  BY <1>1, NotTheRelays DEF Traceable, SealedTypes, PathsInv
<1>3. \/ Followed(p, d.pkt.source, d.from) = d.from
      \/ Followed(p, d.pkt.source, d.from) = endpoint[p][d.pkt.source]
  BY DEF Followed
<1> QED BY <1>1, <1>2, <1>3 DEF Opened, EndpointSet

LEMMA TwoSteps ==
    ASSUME NEW S, NEW a \in S, NEW b \in S
    PROVE  <<a, b>> \in Seq(S)
OBVIOUS

LEMMA ThreeSteps ==
    ASSUME NEW S, NEW a \in S, NEW b \in S, NEW c \in S
    PROVE  <<a, b, c>> \in Seq(S)
OBVIOUS

LEMMA PollSealedPath ==
    ASSUME PathsInv, ConsentInv', NEW p \in Peers, NEW d \in net,
           PollMessage(p, d) \/ PollRequest(p, d) \/ PollResponse(p, d)
    PROVE  PathInv'
<1> DEFINE q == d.pkt.source
           text == d.pkt.payload.text
<1>1. /\ Receive(p, d) /\ Opened(p, d) /\ d.pkt.type \in SealedTypes
      /\ UNCHANGED <<probe, starts, route>>
  BY DEF PollMessage, PollRequest, PollResponse, outside, SealedTypes
<1>2. q \in Peers /\ EndpointSet(p, q) /\ net' \subseteq net /\ text \in Words
  BY <1>1, OpenedPath, ReceiveFacts, InFlight DEF PathsInv
<1>3. UNCHANGED todo \/ \E e \in Seq(OwnSteps(p)) : todo' = [todo EXCEPT ![p] = e]
  <2>1. CASE PollMessage(p, d)
    <3>1. todo' = [todo EXCEPT ![p] = <<Save(store'[p]), Notify("message", q, text)>>]
      BY <2>1 DEF PollMessage, MessageEffects, Do
    <3>2. Save(store'[p]) \in OwnSteps(p) /\ Notify("message", q, text) \in OwnSteps(p)
      BY <1>2, StoreOf, SaveIsOwn, NotifyIsOwn
    <3>3. <<Save(store'[p]), Notify("message", q, text)>> \in Seq(OwnSteps(p))
      BY <3>2, TwoSteps
    <3> QED BY <3>1, <3>3
  <2>2. CASE PollRequest(p, d)
    <3> DEFINE pending == set_trust(store[p], q, "Pending")
    <3>1. \/ UNCHANGED todo
          \/ /\ todo' = [todo EXCEPT ![p] = <<Save(pending), Save(add_request(pending, q)),
                                             Notify("request", q, "hello")>>]
    BY <2>2 DEF PollRequest, RequestEffects, Do
    <3>2. pending \in Stores
      <4>1. store[p] \in Stores
        BY PeerFacts DEF PathsInv
      <4> QED BY <4>1 DEF set_trust, Stores, TrustStatus
    <3>3. add_request(pending, q) \in Stores
      BY <1>2, <3>2 DEF add_request, Stores
    <3> HIDE DEF pending
    <3>4. Notify("request", q, "hello") \in OwnSteps(p)
      BY <1>2, NotifyIsOwn DEF Words
    <3>5. Save(pending) \in OwnSteps(p) /\ Save(add_request(pending, q)) \in OwnSteps(p)
      BY <3>2, <3>3, SaveIsOwn
    <3>6. <<Save(pending), Save(add_request(pending, q)), Notify("request", q, "hello")>>
              \in Seq(OwnSteps(p))
      BY <3>4, <3>5, ThreeSteps
    <3> QED BY <3>1, <3>6
  <2>3. CASE PollResponse(p, d)
    <3>1. \/ UNCHANGED todo
          \/ todo' = [todo EXCEPT ![p] = <<Save(store'[p]), Notify("response", q, text)>>]
      BY <2>3 DEF PollResponse, Do
    <3>2. Save(store'[p]) \in OwnSteps(p) /\ Notify("response", q, text) \in OwnSteps(p)
      BY <1>2, StoreOf, SaveIsOwn, NotifyIsOwn
    <3>3. <<Save(store'[p]), Notify("response", q, text)>> \in Seq(OwnSteps(p))
      BY <3>2, TwoSteps
    <3> QED BY <3>1, <3>3
  <2> QED BY <2>1, <2>2, <2>3
<1> HIDE DEF q, text
<1> QED BY <1>1, <1>2, <1>3, QuietPathCall DEF PathsInv

LEMMA PollDroppedPath ==
    ASSUME PathsInv, ConsentInv', NEW p \in Peers, NEW d \in net, PollDropped(p, d)
    PROVE  PathInv'
<1>1. Receive(p, d) /\ UNCHANGED <<endpoint, probe, starts, route, todo>>
  BY DEF PollDropped, memory, outside
<1> QED BY <1>1, ReceiveFacts, QuietPathCall DEF PathsInv, EndpointSet

-----------------------------------------------------------------------------
(* Hole punching *)

LEMMA ProbeDatagram ==
    ASSUME NEW p, NEW q, NEW to
    PROVE  LET d == SendTo(p, to, Hello(p, q)).datagram IN
           /\ d.from = Addr(p) /\ d.to = to
           /\ d.pkt.source = p /\ d.pkt.type = "Hello" /\ d.pkt.destination = q
BY DEF SendTo, Datagram, Hello

\* A peer that is about to send probes punches, or has confirmed, those paths.
LEMMA ProbesTraceable ==
    ASSUME ConsentInv, ConsentInv', PathsGrow, NEW p \in Peers, Addr(p) \in AddrsOf(p)',
           \A i \in DOMAIN todo'[p] :
               LET d == todo'[p][i].datagram IN
               /\ d.from = Addr(p) /\ d.pkt.source = p /\ d.pkt.type = "Hello"
               /\ d.pkt.destination \in Peers =>
                      d.to # Relay /\ probe'[p][d.pkt.destination] # NoProbe
    PROVE  SendsTraceable(p)'
<1> SUFFICES ASSUME NEW i \in DOMAIN todo'[p], NEW d, d = todo'[p][i].datagram
             PROVE  Traceable(d)'
  BY DEF SendsTraceable
<1> QED BY OwnDatagram

\* The peer q of which p has learned that it may be reached directly.
LEMMA ProbeCall ==
    ASSUME PathsInv, ConsentInv', NEW p \in Peers, NEW q \in Peers, NEW pr,
           probe' = [probe EXCEPT ![p][q] = pr], pr # NoProbe,
           pr.candidate # Relay,
           pr.confirmed => endpoint'[p][q] # NoAddr,
           pr.confirmed /\ starts[q] = 0 => probe[q][p] # NoProbe,
           UNCHANGED <<starts, route>>, net' \subseteq net, EndpointSet(p, q),
           NEW to, to # Relay,
                   \/ todo' = [todo EXCEPT ![p] = <<>>]
                   \/ todo' = [todo EXCEPT ![p] = <<SendTo(p, to, Hello(p, q))>>]
    PROVE  PathInv'
<1>1. \A x, y \in Peers : probe'[x][y] = IF x = p /\ y = q THEN pr ELSE probe[x][y]
  BY Parts DEF PathsInv, PathPart, PerPair
<1>2. PathsGrow
  BY <1>1, StartsType DEF PathsInv, PathsGrow
<1>3. PathsKnown'
  <2> SUFFICES ASSUME NEW x \in Peers, NEW y \in Peers
               PROVE  /\ route'[y] \in AddrsOf(y)' \cup {NoAddr}
                      /\ probe'[x][y].candidate # Relay
                      /\ probe'[x][y].confirmed => endpoint'[x][y] # NoAddr
    BY DEF PathsKnown
  <2>1. /\ probe[x][y].candidate # Relay
        /\ probe[x][y].confirmed => endpoint[x][y] # NoAddr
    BY DEF PathsInv, PathInv, PathsKnown
  <2> QED BY <1>1, <2>1, EndpointsKept
<1>4. ConfirmedIsMutual'
  <2> SUFFICES ASSUME NEW x \in Peers, NEW y \in Peers, probe'[x][y].confirmed, starts[y] = 0
               PROVE  probe'[y][x] # NoProbe
    BY DEF ConfirmedIsMutual
  <2>1. probe[y][x] # NoProbe
    BY <1>1 DEF PathsInv, PathInv, ConfirmedIsMutual
  <2> QED BY <1>1, <2>1
<1>5. /\ todo'[p] = <<>> \/ todo'[p] = <<SendTo(p, to, Hello(p, q))>>
      /\ \A r \in Peers : r # p => todo'[r] = todo[r]
  BY Parts DEF PathsInv, TodoPart
<1>6. ASSUME NEW i \in DOMAIN todo'[p]
      PROVE  LET d == todo'[p][i].datagram IN
             /\ d.from = Addr(p) /\ d.pkt.source = p /\ d.pkt.type = "Hello"
             /\ d.pkt.destination \in Peers =>
                    d.to # Relay /\ probe'[p][d.pkt.destination] # NoProbe
  <2>1. todo'[p][i] = SendTo(p, to, Hello(p, q)) /\ probe'[p][q] # NoProbe
    BY <1>1, <1>5
  <2> QED BY <2>1, ProbeDatagram
<1>7. Addr(p) \in AddrsOf(p)'
  BY <1>2, OwnAddress, AddrsGrow DEF PathsInv
<1>8. SendsTraceable(p)'
  BY <1>2, <1>6, <1>7, ProbesTraceable DEF PathsInv
<1> QED BY <1>2, <1>3, <1>4, <1>5, <1>8, Carried

LEMMA StartedProbe ==
    ASSUME PathsInv, NEW p \in Peers, NEW q \in Peers, NEW addr, addr # Relay
    PROVE  LET pr == start_probing(probe[p][q], addr) IN
           /\ pr # NoProbe
           /\ pr.candidate # Relay
           /\ pr.confirmed => endpoint[p][q] # NoAddr
           /\ pr.confirmed /\ starts[q] = 0 => probe[q][p] # NoProbe
<1>1. /\ probe[p][q].confirmed /\ starts[q] = 0 => probe[q][p] # NoProbe
      /\ probe[p][q].confirmed => endpoint[p][q] # NoAddr
      /\ probe[p][q].candidate # Relay
  BY DEF PathsInv, PathInv, PathsKnown, ConfirmedIsMutual
<1>2. ~NoProbe.confirmed /\ NoProbe.attempts = 0
  BY DEF NoProbe
<1>3. CASE probe[p][q].confirmed
  BY <1>1, <1>2, <1>3 DEF start_probing
<1>4. CASE ~probe[p][q].confirmed
  <2> DEFINE pr == [candidate |-> addr, confirmed |-> FALSE, attempts |-> 1]
  <2>1. start_probing(probe[p][q], addr) = pr
    BY <1>4 DEF start_probing
  <2>2. pr.attempts = 1 /\ ~pr.confirmed /\ pr.candidate = addr
    OBVIOUS
  <2> HIDE DEF pr
  <2> QED BY <1>2, <2>1, <2>2
<1> QED BY <1>3, <1>4

LEMMA ConnectToPath ==
    ASSUME PathsInv, ConsentInv', NEW p \in Peers, NEW q \in Peers, NEW addr \in Found(p),
           ConnectTo(p, q, addr)
    PROVE  PathInv'
<1> DEFINE pr == start_probing(probe[p][q], addr)
<1>1. /\ endpoint' = [endpoint EXCEPT ![p][q] = IF p \in RelayUsers THEN Relay ELSE addr]
      /\ probe' = [probe EXCEPT ![p][q] = pr]
      /\ UNCHANGED <<starts, route, net>>
      /\ \/ todo' = [todo EXCEPT ![p] = <<>>]
         \/ todo' = [todo EXCEPT ![p] = <<SendTo(p, addr, Hello(p, q))>>]
  BY DEF ConnectTo, Do, outside, ProbeStarted, send_probe, Transmit
<1>2. addr # NoAddr /\ addr # Relay /\ Relay # NoAddr
  BY FoundFacts, NotTheRelays DEF PathsInv
<1>3. EndpointSet(p, q)
  BY <1>1, <1>2 DEF EndpointSet
<1>4. /\ pr # NoProbe /\ pr.candidate # Relay
      /\ pr.confirmed => endpoint[p][q] # NoAddr
      /\ pr.confirmed /\ starts[q] = 0 => probe[q][p] # NoProbe
  BY <1>2, StartedProbe
<1> HIDE DEF pr
<1>5. pr.confirmed => endpoint'[p][q] # NoAddr
  BY <1>1, <1>3, <1>4, EndpointsKept
<1> QED BY <1>1, <1>2, <1>3, <1>4, <1>5, ProbeCall

LEMMA PollHelloPath ==
    ASSUME PathsInv, ConsentInv', NEW p \in Peers, NEW d \in net, PollHello(p, d)
    PROVE  PathInv'
<1> DEFINE q == d.pkt.source
           pr == [probe[p][q] EXCEPT !.confirmed = TRUE]
<1>1. q \in Peers /\ Traceable(d) /\ d.pkt.type = "Hello" /\ d.pkt.destination = p
  BY InFlight DEF PathsInv, PathInv, PollHello
<1>2. /\ Receive(p, d) /\ UNCHANGED <<starts, route>>
      /\ probe' = [probe EXCEPT ![p][q] = pr]
      /\ endpoint' = [endpoint EXCEPT ![p][q] = d.from]
      /\ \/ todo' = [todo EXCEPT ![p] = <<>>]
         \/ todo' = [todo EXCEPT ![p] = <<SendTo(p, d.from, Hello(p, q))>>]
  BY DEF PollHello, Do, outside, ProbeReply, send_probe, Transmit
<1>3. d.from # NoAddr /\ d.from # Relay
  BY <1>1, NotTheRelays DEF Traceable, PathsInv
<1>8. EndpointSet(p, q)
  BY <1>2, <1>3 DEF EndpointSet
<1>9. endpoint'[p][q] # NoAddr
  <2>1. endpoint \in PerPair(Addresses)
    BY Parts DEF PathsInv, PathPart
  <2> QED BY <1>1, <1>2, <1>3, <2>1 DEF PerPair
<1>4. pr.confirmed /\ pr.candidate = probe[p][q].candidate
  <2>1. probe[p][q] \in Probes
    BY <1>1, PeerFacts DEF PathsInv
  <2> QED BY <2>1 DEF Probes
<1>5. /\ starts[q] = 0 => probe[q][p] # NoProbe
      /\ pr.candidate # Relay
  BY <1>1, <1>4 DEF PathsInv, PathInv, Traceable, PathsKnown
<1>6. pr # NoProbe
  BY <1>4 DEF NoProbe
<1>7. net' \subseteq net
  BY <1>2, ReceiveFacts DEF PathsInv
<1> HIDE DEF pr, q
<1> QED BY <1>1, <1>2, <1>3, <1>5, <1>6, <1>7, <1>8, <1>9, ProbeCall

LEMMA PollConnectPath ==
    ASSUME PathsInv, ConsentInv', NEW p \in Peers, NEW d \in net, PollConnect(p, d)
    PROVE  PathInv'
<1> DEFINE q == d.pkt.source
           addr == d.pkt.endpoint
           pr == start_probing(probe[p][q], addr)
<1>1. /\ q \in Peers /\ Traceable(d) /\ d.pkt.type = "Connect"
      /\ Receive(p, d) /\ UNCHANGED <<starts, route>>
  BY InFlight DEF PathsInv, PathInv, PollConnect, outside
<1>2. net' \subseteq net
  BY <1>1, ReceiveFacts DEF PathsInv
<1>3. CASE UNCHANGED <<probe, endpoint, todo>>
  BY <1>1, <1>2, <1>3, QuietPathCall DEF EndpointSet
<1>4. CASE /\ addr # NoAddr
           /\ endpoint' = [endpoint EXCEPT ![p][q] = FallbackPath(p, q)]
           /\ probe' = [probe EXCEPT ![p][q] = pr]
           /\ Do(p, ProbeStarted(p, q, addr))
  <2>1. addr # Relay
    BY <1>1, <1>4, NotTheRelays DEF Traceable, PathsInv
  <2>2. endpoint[p][q] # NoAddr => FallbackPath(p, q) # NoAddr
    BY DEF FallbackPath, Route
  <2>3. EndpointSet(p, q)
    BY <1>4, <2>2 DEF EndpointSet
  <2>4. /\ pr # NoProbe /\ pr.candidate # Relay
        /\ pr.confirmed => endpoint[p][q] # NoAddr
        /\ pr.confirmed /\ starts[q] = 0 => probe[q][p] # NoProbe
    BY <1>1, <2>1, StartedProbe
  <2>6. pr.confirmed => endpoint'[p][q] # NoAddr
    BY <1>1, <2>3, <2>4, EndpointsKept
  <2>5. \/ todo' = [todo EXCEPT ![p] = <<>>]
        \/ todo' = [todo EXCEPT ![p] = <<SendTo(p, addr, Hello(p, q))>>]
    BY <1>4 DEF Do, ProbeStarted, send_probe, Transmit
  <2> HIDE DEF q, addr, pr
  <2> QED BY <1>1, <1>2, <1>4, <2>1, <2>3, <2>4, <2>5, <2>6, ProbeCall
<1> QED BY <1>3, <1>4 DEF PollConnect

LEMMA AnnouncePath ==
    ASSUME PathsInv, ConsentInv', NEW p \in Peers, Announce(p)
    PROVE  PathInv'
<1>1. /\ todo' = [todo EXCEPT ![p] = <<SendTo(p, Relay, Hello(p, Nobody))>>]
      /\ UNCHANGED <<endpoint, probe, starts, route, net>>
  BY DEF Announce, Do, memory, outside, Announcement, SendTo
<1>2. PathsGrow
  BY <1>1, StartsType DEF PathsInv, PathsGrow
<1>3. /\ todo'[p] = <<SendTo(p, Relay, Hello(p, Nobody))>>
      /\ \A r \in Peers : r # p => todo'[r] = todo[r]
  BY <1>1, Parts DEF PathsInv, TodoPart
<1>4. Nobody \notin Peers
  BY PeersAssumption DEF Nobody
<1>5. Addr(p) \in AddrsOf(p)'
  BY <1>2, OwnAddress, AddrsGrow DEF PathsInv
<1>6. SendsTraceable(p)'
  <2>1. ASSUME NEW i \in DOMAIN todo'[p]
        PROVE  LET d == todo'[p][i].datagram IN
               /\ d.from = Addr(p) /\ d.pkt.source = p /\ d.pkt.type = "Hello"
               /\ d.pkt.destination \notin Peers
    <3>1. todo'[p][i] = SendTo(p, Relay, Hello(p, Nobody))
      BY <1>3
    <3> QED BY <1>4, <3>1, ProbeDatagram
  <2> QED BY <1>2, <1>5, <2>1, ProbesTraceable DEF PathsInv
<1>7. PathsKnown' /\ ConfirmedIsMutual'
  BY <1>1 DEF PathsInv, PathInv, PathsKnown, ConfirmedIsMutual, AddrsOf
<1> QED BY <1>1, <1>2, <1>3, <1>6, <1>7, Carried

LEMMA TickPath ==
    ASSUME PathsInv, ConsentInv', NEW p \in Peers, Tick(p)
    PROVE  PathInv'
<1>1. PICK due \in SUBSET Punching(p) : \E order \in Orders(due) :
          /\ probe' = [probe EXCEPT ![p] = [q \in Peers |->
                 IF q \in due THEN Repeated(probe[p][q]) ELSE probe[p][q]]]
          /\ todo' = [todo EXCEPT ![p] = [i \in DOMAIN order |->
                 SendTo(p, probe[p][order[i]].candidate, Hello(p, order[i]))]]
  BY DEF Tick, Do
<1>2. PICK order \in Orders(due) :
          todo' = [todo EXCEPT ![p] = [i \in DOMAIN order |->
                 SendTo(p, probe[p][order[i]].candidate, Hello(p, order[i]))]]
  BY <1>1
<1>3. UNCHANGED <<endpoint, starts, route, net>>
  BY DEF Tick, outside
<1>4. ASSUME NEW x \in Peers, NEW y \in Peers
      PROVE  /\ probe'[x][y].candidate = probe[x][y].candidate
             /\ probe'[x][y].confirmed = probe[x][y].confirmed
             /\ probe[x][y] # NoProbe => probe'[x][y] # NoProbe
  <2>1. probe'[x][y] = IF x = p /\ y \in due THEN Repeated(probe[x][y]) ELSE probe[x][y]
    BY <1>1, Parts DEF PathsInv, PathPart, PerPair
  <2>2. probe[x][y] \in Probes
    BY PeerFacts DEF PathsInv
  <2>3. /\ Repeated(probe[x][y]).candidate = probe[x][y].candidate
        /\ Repeated(probe[x][y]).confirmed = probe[x][y].confirmed
        /\ Repeated(probe[x][y]).attempts = probe[x][y].attempts + 1
        /\ probe[x][y].attempts \in Nat
    BY <2>2 DEF Repeated, Probes
  <2>4. Repeated(probe[x][y]) # NoProbe
    BY <2>3 DEF NoProbe
  <2> QED BY <2>1, <2>3, <2>4
<1>5. PathsGrow
  BY <1>3, <1>4, StartsType DEF PathsInv, PathsGrow
<1>6. PathsKnown' /\ ConfirmedIsMutual'
  BY <1>3, <1>4 DEF PathsInv, PathInv, PathsKnown, ConfirmedIsMutual, AddrsOf
<1> DEFINE e == [i \in DOMAIN order |->
                    SendTo(p, probe[p][order[i]].candidate, Hello(p, order[i]))]
<1>7. todo'[p] = e /\ \A r \in Peers : r # p => todo'[r] = todo[r]
  BY <1>2, Parts DEF PathsInv, TodoPart
<1>8. ASSUME NEW i \in DOMAIN todo'[p]
      PROVE  LET d == todo'[p][i].datagram IN
             /\ d.from = Addr(p) /\ d.pkt.source = p /\ d.pkt.type = "Hello"
             /\ d.pkt.destination \in Peers =>
                    d.to # Relay /\ probe'[p][d.pkt.destination] # NoProbe
  <2>1. order[i] \in due
    BY <1>7 DEF Orders
  <2>2. /\ order[i] \in Peers /\ probe[p][order[i]].candidate # NoAddr
        /\ probe[p][order[i]].candidate # Relay
    BY <2>1 DEF Punching, PathsInv, PathInv, PathsKnown
  <2>3. probe[p][order[i]] # NoProbe
    BY <2>2 DEF NoProbe
  <2>4. probe'[p][order[i]] # NoProbe
    BY <1>4, <2>2, <2>3
  <2>5. todo'[p][i] = SendTo(p, probe[p][order[i]].candidate, Hello(p, order[i]))
    BY <1>7
  <2> QED BY <2>2, <2>4, <2>5, ProbeDatagram
<1>9. Addr(p) \in AddrsOf(p)'
  BY <1>5, OwnAddress, AddrsGrow DEF PathsInv
<1>10. SendsTraceable(p)'
  BY <1>5, <1>8, <1>9, ProbesTraceable DEF PathsInv
<1> QED BY <1>3, <1>5, <1>6, <1>7, <1>10, Carried

-----------------------------------------------------------------------------
(* Effects, restarts, the relay and the network *)

LEMMA EffectPath ==
    ASSUME PathsInv, ConsentInv', NEW p \in Peers, Effect(p)
    PROVE  PathInv'
<1>1. /\ todo[p] # <<>> /\ todo' = [todo EXCEPT ![p] = Tail(todo[p])]
      /\ UNCHANGED <<endpoint, probe, starts, route>>
      /\ UNCHANGED net \/ (Head(todo[p]).op = "send" /\ net' = net \cup {Head(todo[p]).datagram})
  BY DEF Effect, EffectSave, EffectSend, EffectNotify, memory
<1>2. todo[p] \in Seq(Steps)
  BY Parts DEF PathsInv, TodoPart
<1>3. /\ Head(todo[p]) = todo[p][1] /\ 1 \in DOMAIN todo[p]
      /\ \A i \in DOMAIN Tail(todo[p]) :
            i + 1 \in DOMAIN todo[p] /\ Tail(todo[p])[i] = todo[p][i + 1]
  BY <1>1, <1>2
<1>4. \A d : Traceable(d)' <=> Traceable(d)
  BY <1>1 DEF Traceable, AddrsOf
<1>5. /\ todo'[p] = Tail(todo[p]) /\ \A r \in Peers : r # p => todo'[r] = todo[r]
  BY <1>1, Parts DEF PathsInv, TodoPart
<1>6. PathsKnown' /\ ConfirmedIsMutual'
  BY <1>1 DEF PathsInv, PathInv, PathsKnown, ConfirmedIsMutual, AddrsOf
<1>7. ASSUME NEW r \in Peers
      PROVE  SendsTraceable(r)'
  <2> SUFFICES ASSUME NEW i \in DOMAIN todo'[r], todo'[r][i].op = "send",
                      NEW d, d = todo'[r][i].datagram
               PROVE  Traceable(d)
    BY <1>4 DEF SendsTraceable
  <2>1. \E j \in DOMAIN todo[r] : todo[r][j] = todo'[r][i]
    <3>1. CASE r = p
      <4>1. i + 1 \in DOMAIN todo[p] /\ Tail(todo[p])[i] = todo[p][i + 1]
        BY <1>3, <1>5, <3>1
      <4> QED BY <1>5, <3>1, <4>1
    <3>2. CASE r # p
      BY <1>5, <3>2
    <3> QED BY <3>1, <3>2
  <2> QED BY <2>1 DEF PathsInv, PathInv, SendsTraceable
<1>8. ASSUME NEW d \in net'
      PROVE  Traceable(d)'
  <2>1. Traceable(d)
    BY <1>1, <1>3 DEF PathsInv, PathInv, SendsTraceable
  <2> QED BY <1>4, <2>1
<1> QED BY <1>6, <1>7, <1>8 DEF PathInv

LEMMA RestartPath ==
    ASSUME PathsInv, ConsentInv', NEW p \in Peers, Restart(p)
    PROVE  PathInv'
<1> DEFINE here == PortOf(p, starts'[p])
           e == [op |-> "send", datagram |-> Announcement(here, p)]
<1>1. /\ starts' = [starts EXCEPT ![p] = starts[p] + 1]
      /\ endpoint' = [endpoint EXCEPT ![p] = [q \in Peers |-> NoAddr]]
      /\ probe' = [probe EXCEPT ![p] = [q \in Peers |-> NoProbe]]
      /\ todo' = [todo EXCEPT ![p] = IF p \in RelayUsers THEN <<e>> ELSE <<>>]
      /\ UNCHANGED <<route, net>>
  BY DEF Restart, Do
<1>2. \A q \in Peers : /\ starts[q] \in Nat /\ starts'[q] \in Nat
                       /\ starts'[q] = IF q = p THEN starts[q] + 1 ELSE starts[q]
  BY <1>1, StartsType DEF PathsInv
<1>3. \A x, y \in Peers :
          /\ endpoint'[x][y] = IF x = p THEN NoAddr ELSE endpoint[x][y]
          /\ probe'[x][y] = IF x = p THEN NoProbe ELSE probe[x][y]
  BY <1>1, Parts DEF PathsInv, PathPart, PerPair
<1>4. PathsGrow
  BY <1>2, <1>3 DEF PathsGrow
<1>5. PathsKnown'
  <2> SUFFICES ASSUME NEW x \in Peers, NEW y \in Peers
               PROVE  /\ route'[y] \in AddrsOf(y)' \cup {NoAddr}
                      /\ probe'[x][y].candidate # Relay
                      /\ probe'[x][y].confirmed => endpoint'[x][y] # NoAddr
    BY DEF PathsKnown
  <2>1. AddrsOf(y) \subseteq AddrsOf(y)'
    BY <1>4, AddrsGrow DEF PathsInv
  <2>2. /\ route[y] \in AddrsOf(y) \cup {NoAddr}
        /\ probe[x][y].candidate # Relay
        /\ probe[x][y].confirmed => endpoint[x][y] # NoAddr
    BY DEF PathsInv, PathInv, PathsKnown
  <2>3. NoProbe.candidate = NoAddr /\ ~NoProbe.confirmed
    BY DEF NoProbe
  <2> QED BY <1>1, <1>3, <2>1, <2>2, <2>3, NotTheRelays DEF PathsInv
<1>6. ConfirmedIsMutual'
  <2> SUFFICES ASSUME NEW x \in Peers, NEW y \in Peers, probe'[x][y].confirmed, starts'[y] = 0
               PROVE  probe'[y][x] # NoProbe
    BY DEF ConfirmedIsMutual
  <2>1. ~NoProbe.confirmed
    BY DEF NoProbe
  <2>2. x # p /\ y # p /\ starts[y] = 0
    BY <1>2, <1>3, <2>1
  <2> QED BY <1>3, <2>2 DEF PathsInv, PathInv, ConfirmedIsMutual
<1>7. /\ todo'[p] = <<e>> \/ todo'[p] = <<>>
      /\ \A r \in Peers : r # p => todo'[r] = todo[r]
  BY <1>1, Parts DEF PathsInv, TodoPart
<1>8. SendsTraceable(p)'
  <2> SUFFICES ASSUME NEW i \in DOMAIN todo'[p], NEW d, d = todo'[p][i].datagram
               PROVE  Traceable(d)'
    BY DEF SendsTraceable
  <2>1. d = Announcement(here, p)
    BY <1>7
  <2>2. /\ d.from = here /\ d.pkt.source = p /\ d.pkt.type = "Hello"
        /\ d.pkt.destination = Nobody
    BY <2>1 DEF Announcement, Datagram, Hello
  <2>3. here \in AddrsOf(p)'
    BY <1>2 DEF AddrsOf
  <2>4. Nobody \notin Peers
    BY PeersAssumption DEF Nobody
  <2> QED BY <1>4, <2>2, <2>3, <2>4, OwnDatagram DEF PathsInv
<1> QED BY <1>1, <1>4, <1>5, <1>6, <1>7, <1>8, Carried

LEMMA RelayHandlePath ==
    ASSUME PathsInv, ConsentInv', NEW d \in net, RelayHandle(d)
    PROVE  PathInv'
<1> DEFINE known == [route EXCEPT ![d.pkt.source] = d.from]
<1>1. /\ d.to = Relay /\ route' = known
      /\ net' = (net \ {d}) \cup {Datagram(Relay, known[r], d.pkt) :
                    r \in {r \in Peers : r = d.pkt.destination /\ known[r] # NoAddr}}
      /\ UNCHANGED <<endpoint, probe, starts, todo>>
  BY DEF RelayHandle, memory
<1>2. d.pkt.source \in Peers /\ Traceable(d)
  BY InFlight DEF PathsInv, PathInv
<1>3. d.from \in AddrsOf(d.pkt.source)
  BY <1>1, <1>2 DEF Traceable
<1>4. \A r \in Peers : known[r] \in AddrsOf(r) \cup {NoAddr}
  BY <1>3, Parts DEF PathsInv, PathInv, PathsKnown, OutsidePart
<1> HIDE DEF known
<1>5. \A x : Traceable(x)' <=> Traceable(x)
  BY <1>1 DEF Traceable, AddrsOf
<1>6. PathsKnown' /\ ConfirmedIsMutual'
  BY <1>1, <1>4 DEF PathsInv, PathInv, PathsKnown, ConfirmedIsMutual, AddrsOf
<1>7. \A r \in Peers : SendsTraceable(r)'
  BY <1>1, <1>5 DEF PathsInv, PathInv, SendsTraceable
<1>8. ASSUME NEW x \in net'
      PROVE  Traceable(x)'
  <2>1. CASE x \in net
    BY <1>5, <2>1 DEF PathsInv, PathInv
  <2>2. ASSUME NEW r \in Peers, x = Datagram(Relay, known[r], d.pkt), known[r] # NoAddr
        PROVE  Traceable(x)
    <3>1. x.from = Relay /\ x.pkt = d.pkt /\ x.to = known[r]
      BY <2>2 DEF Datagram
    <3>2. x.to # Relay
      BY <1>4, <2>2, <3>1, NotTheRelays DEF PathsInv
    <3> QED BY <1>1, <1>2, <3>1, <3>2 DEF Traceable
  <2> QED BY <1>1, <1>5, <2>1, <2>2
<1> QED BY <1>6, <1>7, <1>8 DEF PathInv

LEMMA AdvertisePath ==
    ASSUME PathsInv, ConsentInv', NEW p \in Peers, NEW q \in Peers,
           NEW addr \in AddrsOf(p) \cup {NoAddr}, Advertise(p, q, addr)
    PROVE  PathInv'
<1> DEFINE d == Datagram(Signaling, Addr(q), Connect(p, q, addr))
<1>1. net' = net \cup {d} /\ UNCHANGED <<endpoint, probe, starts, route, todo>>
  BY DEF Advertise, memory, outside
<1>2. \A x : Traceable(x)' <=> Traceable(x)
  BY <1>1 DEF Traceable, AddrsOf
<1>3. Traceable(d)
  <2>1. /\ d.to = Addr(q) /\ d.pkt.type = "Connect" /\ d.pkt.source = p
        /\ d.pkt.endpoint = addr
    BY DEF Datagram, Connect
  <2>2. Addr(q) # Relay
    BY OwnAddress DEF PathsInv
  <2> HIDE DEF d
  <2> QED BY <2>1, <2>2 DEF Traceable
<1> HIDE DEF d
<1>4. PathsKnown' /\ ConfirmedIsMutual'
  BY <1>1 DEF PathsInv, PathInv, PathsKnown, ConfirmedIsMutual, AddrsOf
<1>5. \A r \in Peers : SendsTraceable(r)'
  BY <1>1, <1>2 DEF PathsInv, PathInv, SendsTraceable
<1>6. \A x \in net' : Traceable(x)'
  BY <1>1, <1>2, <1>3 DEF PathsInv, PathInv
<1> QED BY <1>4, <1>5, <1>6 DEF PathInv

\* Losing a datagram, forgetting a route, and no step at all.
LEMMA LessPath ==
    ASSUME PathsInv, net' \subseteq net, UNCHANGED <<endpoint, probe, starts, todo>>,
           \A q \in Peers : route'[q] \in {route[q], NoAddr}
    PROVE  PathInv'
<1>1. \A x : Traceable(x)' <=> Traceable(x)
  BY DEF Traceable, AddrsOf
<1>2. PathsKnown' /\ ConfirmedIsMutual'
  BY DEF PathsInv, PathInv, PathsKnown, ConfirmedIsMutual, AddrsOf
<1>3. \A r \in Peers : SendsTraceable(r)'
  BY <1>1 DEF PathsInv, PathInv, SendsTraceable
<1>4. \A x \in net' : Traceable(x)'
  BY <1>1 DEF PathsInv, PathInv
<1> QED BY <1>2, <1>3, <1>4 DEF PathInv

-----------------------------------------------------------------------------
LEMMA InitPath == Init => PathsInv
<1> SUFFICES ASSUME Init PROVE PathInv
  BY InitConsent DEF PathsInv
<1>1. PathsKnown /\ ConfirmedIsMutual
  BY RelayIsSomewhere DEF Init, PathsKnown, ConfirmedIsMutual, NoProbe
<1>2. \A p \in Peers : SendsTraceable(p)
  BY DEF Init, SendsTraceable
<1>3. ASSUME NEW p \in RelayUsers, NEW d, d = Announcement(PortOf(p, 0), p)
      PROVE  Traceable(d)
  <2>1. /\ d.from = PortOf(p, 0) /\ d.pkt.source = p /\ d.pkt.type = "Hello"
        /\ d.pkt.destination = Nobody
    BY <1>3 DEF Announcement, Datagram, Hello
  <2>2. PortOf(p, 0) \in AddrsOf(p)
    <3>1. p \in Peers /\ starts[p] = 0 /\ 0 \in 0 .. 0
      BY EngineAssumption DEF Init
    <3> QED BY <3>1 DEF AddrsOf
  <2>3. Nobody \notin Peers
    BY PeersAssumption DEF Nobody
  <2> QED BY <2>1, <2>2, <2>3 DEF Traceable
<1>4. \A d \in net : Traceable(d)
  BY <1>3 DEF Init
<1> QED BY <1>1, <1>2, <1>4 DEF PathInv

LEMMA NextPath == PathsInv /\ [Next]_vars => PathsInv'
<1> SUFFICES ASSUME PathsInv, [Next]_vars PROVE PathsInv'
  OBVIOUS
<1>0. ConsentInv'
  BY NextConsent DEF PathsInv
<1> SUFFICES PathInv'
  BY <1>0 DEF PathsInv
<1>1. ASSUME NEW p \in Peers, ApiCall(p)
      PROVE  PathInv'
  <2>1. PICK q \in Peers :
            \/ \E addr \in Reachable(p) : SendContactRequest(p, q, addr)
            \/ AcceptContact(p, q)
            \/ RejectContact(p, q)
            \/ \E text \in Texts : Send(p, q, text)
            \/ \E addr \in Reachable(p) : AddPeer(p, q, addr)
            \/ SetNickname(p, q)
            \/ \E addr \in Found(p) : ConnectTo(p, q, addr)
    BY <1>1 DEF ApiCall
  <2>2. AcceptContact(p, q) \/ RejectContact(p, q) => PathInv'
    BY <1>0, DecidePath DEF AcceptContact, RejectContact, TrustStatus
  <2> QED BY <1>0, <2>1, <2>2, SendContactRequestPath, SendPath, AddPeerPath, SetNicknamePath,
             ConnectToPath
<1>2. ASSUME NEW p \in Peers, Announce(p) \/ Tick(p) \/ Effect(p) \/ Restart(p)
      PROVE  PathInv'
  BY <1>0, <1>2, AnnouncePath, TickPath, EffectPath, RestartPath
<1>3. ASSUME NEW p \in Peers, NEW d \in net, Poll(p, d)
      PROVE  PathInv'
  BY <1>0, <1>3, PollHelloPath, PollConnectPath, PollDroppedPath, PollSealedPath DEF Poll
<1>4. ASSUME NEW d \in net, RelayHandle(d)
      PROVE  PathInv'
  BY <1>0, <1>4, RelayHandlePath
<1>5. ASSUME \/ \E q \in Peers : RelayExpire(q)
             \/ \E d \in net : Lose(d)
             \/ UNCHANGED vars
      PROVE  PathInv'
  <2>1. net' \subseteq net /\ UNCHANGED <<endpoint, probe, starts, todo>>
    BY <1>5 DEF RelayExpire, Lose, vars, memory, outside
  <2>2. \A q \in Peers : route'[q] \in {route[q], NoAddr}
    BY <1>5, Parts DEF PathsInv, OutsidePart, RelayExpire, Lose, vars, outside
  <2> QED BY <2>1, <2>2, LessPath
<1>6. ASSUME NEW p \in Peers, NEW q \in Peers, NEW addr \in AddrsOf(p) \cup {NoAddr},
             Advertise(p, q, addr)
      PROVE  PathInv'
  BY <1>0, <1>6, AdvertisePath
<1> QED BY <1>1, <1>2, <1>3, <1>4, <1>5, <1>6 DEF Next

\* All that is in flight or about to be sent can be traced to its source, in
\* every reachable state (PathInv).
THEOREM AllTraceable == Spec => []PathInv
<1>1. PathsInv => PathInv
  BY DEF PathsInv
<1> QED BY <1>1, InitPath, NextPath, PTL DEF Spec

-----------------------------------------------------------------------------
(* What a step may do to a confirmed path *)

PathHeld(x, y) ==
    probe'[x][y].confirmed /\ ~CalledFor(x, y) =>
        \/ endpoint'[x][y] \in AddrsOf(y)
        \/ UNCHANGED <<endpoint[x][y], probe[x][y]>>

\* A call changes the path to one peer only.
LEMMA OnePath ==
    ASSUME PathsInv, NEW p \in Peers, NEW q \in Peers, NEW a, NEW pr,
           endpoint' = [endpoint EXCEPT ![p][q] = a],
           probe' = [probe EXCEPT ![p][q] = pr] \/ UNCHANGED probe,
           NEW x \in Peers, NEW y \in Peers
    PROVE  /\ x = p /\ y = q => /\ endpoint'[x][y] = a
                                /\ probe'[x][y] = pr \/ probe'[x][y] = probe[x][y]
           /\ ~(x = p /\ y = q) => /\ endpoint'[x][y] = endpoint[x][y]
                                   /\ probe'[x][y] = probe[x][y]
<1>1. endpoint \in PerPair(Addresses) /\ probe \in PerPair(Probes)
  BY Parts DEF PathsInv, PathPart
<1> QED BY <1>1 DEF PerPair

LEMMA CallHolds ==
    ASSUME PathsInv, NEW p \in Peers, NEW q \in Peers, NEW x \in Peers, NEW y \in Peers,
           NEW addr \in Found(p) \cup {Relay},
           \/ SendContactRequest(p, q, addr) \/ AddPeer(p, q, addr) \/ ConnectTo(p, q, addr)
    PROVE  PathHeld(x, y)
<1>1. CASE x = p /\ y = q
  BY <1>1 DEF PathHeld, CalledFor
<1>2. CASE ~(x = p /\ y = q)
  <2>1. /\ \E a : endpoint' = [endpoint EXCEPT ![p][q] = a]
        /\ (\E pr : probe' = [probe EXCEPT ![p][q] = pr]) \/ UNCHANGED probe
    BY DEF SendContactRequest, AddPeer, ConnectTo
  <2>2. PICK a : endpoint' = [endpoint EXCEPT ![p][q] = a]
    BY <2>1
  <2>3. PICK pr : probe' = [probe EXCEPT ![p][q] = pr] \/ UNCHANGED probe
    BY <2>1
  <2>4. endpoint \in PerPair(Addresses) /\ probe \in PerPair(Probes)
    BY Parts DEF PathsInv, PathPart
  <2>5. endpoint'[x][y] = endpoint[x][y]
    BY <1>2, <2>2, <2>4 DEF PerPair
  <2>6. probe'[x][y] = probe[x][y]
    BY <1>2, <2>3, <2>4 DEF PerPair
  <2> QED BY <2>5, <2>6 DEF PathHeld
<1> QED BY <1>1, <1>2

LEMMA ApiCallHolds ==
    ASSUME PathsInv, NEW p \in Peers, ApiCall(p), NEW x \in Peers, NEW y \in Peers
    PROVE  PathHeld(x, y)
<1>1. PICK q \in Peers :
          \/ \E addr \in Reachable(p) : SendContactRequest(p, q, addr)
          \/ AcceptContact(p, q)
          \/ RejectContact(p, q)
          \/ \E text \in Texts : Send(p, q, text)
          \/ \E addr \in Reachable(p) : AddPeer(p, q, addr)
          \/ SetNickname(p, q)
          \/ \E addr \in Found(p) : ConnectTo(p, q, addr)
  BY DEF ApiCall
<1>2. ASSUME NEW addr \in Reachable(p) \cup Found(p),
             SendContactRequest(p, q, addr) \/ AddPeer(p, q, addr) \/ ConnectTo(p, q, addr)
      PROVE  PathHeld(x, y)
  BY <1>2, CallHolds, FoundFacts DEF PathsInv
<1>3. CASE AcceptContact(p, q) \/ RejectContact(p, q) \/ SetNickname(p, q)
           \/ \E text \in Texts : Send(p, q, text)
  BY <1>3 DEF AcceptContact, RejectContact, Decide, SetNickname, Send, PathHeld
<1> QED BY <1>1, <1>2, <1>3

LEMMA TickHolds ==
    ASSUME PathsInv, NEW p \in Peers, Tick(p), NEW x \in Peers, NEW y \in Peers
    PROVE  PathHeld(x, y)
<1>1. PICK due \in SUBSET Punching(p) :
          probe' = [probe EXCEPT ![p] = [q \in Peers |->
                 IF q \in due THEN Repeated(probe[p][q]) ELSE probe[p][q]]]
  BY DEF Tick
<1>2. probe'[x][y] = IF x = p /\ y \in due THEN Repeated(probe[x][y]) ELSE probe[x][y]
  BY <1>1, Parts DEF PathsInv, PathPart, PerPair
<1>3. probe[x][y] \in Probes
  BY PeerFacts DEF PathsInv
<1>4. CASE x = p /\ y \in due
  <2>1. ~probe[x][y].confirmed
    BY <1>4 DEF Punching
  <2> QED BY <1>2, <1>3, <1>4, <2>1 DEF Repeated, Probes, PathHeld
<1>5. CASE ~(x = p /\ y \in due)
  BY <1>2, <1>5 DEF Tick, PathHeld
<1> QED BY <1>4, <1>5

LEMMA PollHelloHolds ==
    ASSUME PathsInv, NEW p \in Peers, NEW d \in net, PollHello(p, d),
           NEW x \in Peers, NEW y \in Peers
    PROVE  PathHeld(x, y)
<1> DEFINE q == d.pkt.source
           pr == [probe[p][q] EXCEPT !.confirmed = TRUE]
<1>1. q \in Peers /\ Traceable(d) /\ d.pkt.type = "Hello" /\ d.pkt.destination = p
  BY InFlight DEF PathsInv, PathInv, PollHello
<1>2. d.from \in AddrsOf(q)
  BY <1>1 DEF Traceable
<1>3. /\ probe' = [probe EXCEPT ![p][q] = pr]
      /\ endpoint' = [endpoint EXCEPT ![p][q] = d.from]
  BY DEF PollHello
<1> HIDE DEF q, pr
<1>4. endpoint \in PerPair(Addresses) /\ probe \in PerPair(Probes)
  BY Parts DEF PathsInv, PathPart
<1>5. CASE x = p /\ y = q
  <2>1. endpoint'[x][y] = d.from
    BY <1>1, <1>3, <1>4, <1>5 DEF PerPair
  <2> QED BY <1>2, <1>5, <2>1 DEF PathHeld
<1>6. CASE ~(x = p /\ y = q)
  <2>1. endpoint'[x][y] = endpoint[x][y] /\ probe'[x][y] = probe[x][y]
    BY <1>3, <1>4, <1>6 DEF PerPair
  <2> QED BY <2>1 DEF PathHeld
<1> QED BY <1>5, <1>6

LEMMA PollConnectHolds ==
    ASSUME PathsInv, NEW p \in Peers, NEW d \in net, PollConnect(p, d),
           NEW x \in Peers, NEW y \in Peers
    PROVE  PathHeld(x, y)
<1> DEFINE q == d.pkt.source
           pr == start_probing(probe[p][q], d.pkt.endpoint)
<1>1. q \in Peers
  BY InFlight DEF PathsInv
<1>2. CASE UNCHANGED <<probe, endpoint>>
  BY <1>2 DEF PathHeld
<1>3. CASE /\ endpoint' = [endpoint EXCEPT ![p][q] = FallbackPath(p, q)]
           /\ probe' = [probe EXCEPT ![p][q] = pr]
  <2>1. CASE probe[p][q].confirmed
    <3>1. endpoint[p][q] # NoAddr
      BY <1>1, <2>1 DEF PathsInv, PathInv, PathsKnown
    <3>2. FallbackPath(p, q) = endpoint[p][q] /\ pr = probe[p][q]
      BY <2>1, <3>1 DEF FallbackPath, Route, start_probing
    <3> HIDE DEF q, pr
    <3> QED BY <1>1, <1>3, <3>2, OnePath DEF PathHeld
  <2>2. CASE ~probe[p][q].confirmed
    <3>1. ~pr.confirmed
      BY <2>2 DEF start_probing
    <3> HIDE DEF q, pr
    <3> QED BY <1>1, <1>3, <2>2, <3>1, OnePath DEF PathHeld
  <2> QED BY <2>1, <2>2
<1> QED BY <1>2, <1>3 DEF PollConnect

LEMMA PollSealedHolds ==
    ASSUME PathsInv, NEW p \in Peers, NEW d \in net,
           PollMessage(p, d) \/ PollRequest(p, d) \/ PollResponse(p, d),
           NEW x \in Peers, NEW y \in Peers
    PROVE  PathHeld(x, y)
<1> DEFINE q == d.pkt.source
<1>1. q \in Peers
  BY InFlight DEF PathsInv
<1>2. /\ UNCHANGED probe
      /\ endpoint' = [endpoint EXCEPT ![p][q] = Followed(p, q, d.from)]
  BY DEF PollMessage, PollRequest, PollResponse, Opened
<1>3. probe[p][q].confirmed => Followed(p, q, d.from) = endpoint[p][q]
  BY DEF Followed
<1> HIDE DEF q
<1> QED BY <1>1, <1>2, <1>3, OnePath DEF PathHeld

LEMMA RestartHolds ==
    ASSUME PathsInv, NEW p \in Peers, Restart(p), NEW x \in Peers, NEW y \in Peers
    PROVE  PathHeld(x, y)
<1>1. /\ endpoint' = [endpoint EXCEPT ![p] = [q \in Peers |-> NoAddr]]
      /\ probe' = [probe EXCEPT ![p] = [q \in Peers |-> NoProbe]]
  BY DEF Restart
<1>2. /\ endpoint'[x][y] = IF x = p THEN NoAddr ELSE endpoint[x][y]
      /\ probe'[x][y] = IF x = p THEN NoProbe ELSE probe[x][y]
  BY <1>1, Parts DEF PathsInv, PathPart, PerPair
<1> QED BY <1>2 DEF PathHeld, NoProbe

LEMMA NextHolds == PathsInv /\ [Next]_vars => \A x, y \in Peers : PathHeld(x, y)
<1> SUFFICES ASSUME PathsInv, [Next]_vars, NEW x \in Peers, NEW y \in Peers
             PROVE  PathHeld(x, y)
  OBVIOUS
<1>1. ASSUME NEW p \in Peers, ApiCall(p) \/ Tick(p) \/ Restart(p)
      PROVE  PathHeld(x, y)
  BY <1>1, ApiCallHolds, TickHolds, RestartHolds
<1>2. ASSUME NEW p \in Peers, NEW d \in net, Poll(p, d)
      PROVE  PathHeld(x, y)
  <2>1. PollDropped(p, d) => PathHeld(x, y)
    BY DEF PollDropped, memory, PathHeld
  <2> QED BY <1>2, <2>1, PollHelloHolds, PollConnectHolds, PollSealedHolds DEF Poll
<1>3. CASE \/ \E p \in Peers : Announce(p) \/ Effect(p)
           \/ \E d \in net : RelayHandle(d) \/ Lose(d)
           \/ \E q \in Peers : RelayExpire(q)
           \/ \E p, q \in Peers : \E addr \in AddrsOf(p) \cup {NoAddr} : Advertise(p, q, addr)
           \/ UNCHANGED vars
  <2>1. UNCHANGED <<endpoint, probe>>
    BY <1>3 DEF Announce, Effect, RelayHandle, Lose, RelayExpire, Advertise, vars, memory
  <2> QED BY <2>1 DEF PathHeld
<1> QED BY <1>1, <1>2, <1>3 DEF Next

\* A confirmed direct path is the peer's own, however wrong or old the addresses
\* are that lookups and advertisements gave, whatever arrives late or through
\* the relay, and whoever restarts, until our user's own call sends the traffic
\* elsewhere (connect, handle_connect, handle_probe, the address tracking in
\* poll(), RelayServer::handle).
THEOREM DirectPaths == Spec => DirectPathIsPeers
<1>1. PathsInv /\ [Next]_vars =>
          [\A p, q \in Peers :
              probe'[p][q].confirmed /\ ~CalledFor(p, q) =>
                  \/ endpoint'[p][q] \in AddrsOf(q)
                  \/ UNCHANGED <<endpoint[p][q], probe[p][q]>>]_vars
  BY NextHolds DEF PathHeld
<1> QED BY <1>1, InitPath, NextPath, PTL DEF Spec, DirectPathIsPeers

\* A direct path is confirmed only if the other side, unless it restarted, punches
\* or has confirmed it as well (start_probing, handle_probe, tick).
THEOREM Mutual == Spec => []ConfirmedIsMutual
<1>1. PathInv => ConfirmedIsMutual
  BY DEF PathInv
<1> QED BY <1>1, AllTraceable, PTL

-----------------------------------------------------------------------------
(***************************************************************************)
(* Proofs about Engine while nobody restarts: requests stay awaited and    *)
(* answerable, counters stay in step and no message is recorded twice, for *)
(* all peers, relay users, fixed ports and budgets.                        *)
(***************************************************************************)

LEMMA Types ==
    ASSUME ConsentInv
    PROVE  /\ store \in [Peers -> Stores]
           /\ incoming \in [Peers -> SUBSET Peers]
           /\ outgoing \in [Peers -> SUBSET Peers]
           /\ left \in [Events -> Nat]
BY DEF ConsentInv, TypeOK

-----------------------------------------------------------------------------
(* Trust *)

\* What a step does to p's view of q.
PairStep(p, q) ==
    \/ /\ store'[p].trust[q] = store[p].trust[q]
       /\ <<"request", p, q>> \in did' <=> <<"request", p, q>> \in did
       /\ q \in outgoing[p] => q \in outgoing'[p]
       /\ q \in incoming[p] => q \in incoming'[p]
    \/ /\ store'[p].trust[q] = "Pending"
       /\ q \in outgoing'[p] /\ <<"request", p, q>> \in did'
    \/ store'[p].trust[q] \in {"Accepted", "Rejected"}
    \/ /\ store[p].trust[q] = "none" /\ store'[p].trust[q] = "Pending"
       /\ <<"request", p, q>> \in did' <=> <<"request", p, q>> \in did
       /\ q \in incoming'[p] \/ left["nickname"] > 0

PairSteps == \A p, q \in Peers : PairStep(p, q)

LEMMA SamePairs ==
    ASSUME UNCHANGED <<store, did, outgoing, incoming>>
    PROVE  PairSteps
BY DEF PairSteps, PairStep

\* p's view of q changes, and nobody else's view of anybody.
LEMMA OnePair ==
    ASSUME ConsentInv, NEW p \in Peers, NEW q \in Peers, NEW s \in Stores,
           store' = [store EXCEPT ![p] = s],
           \A r \in Peers \ {q} : s.trust[r] = store[p].trust[r],
           \A r, u \in Peers : <<r, u>> # <<p, q>> =>
               /\ <<"request", r, u>> \in did' <=> <<"request", r, u>> \in did
               /\ u \in outgoing[r] => u \in outgoing'[r]
               /\ u \in incoming[r] => u \in incoming'[r],
           PairStep(p, q)
    PROVE  PairSteps
<1> SUFFICES ASSUME NEW r \in Peers, NEW u \in Peers, <<r, u>> # <<p, q>>
             PROVE  PairStep(r, u)
  BY DEF PairSteps
<1>1. store'[r].trust[u] = store[r].trust[u]
  BY Types
<1> QED BY <1>1 DEF PairStep

LEMMA TrustSet ==
    ASSUME NEW s \in Stores, NEW q \in Peers, NEW t \in TrustStatus
    PROVE  /\ set_trust(s, q, t) \in Stores
           /\ set_trust(s, q, t).trust[q] = t
           /\ \A r \in Peers \ {q} : set_trust(s, q, t).trust[r] = s.trust[r]
BY DEF set_trust, Stores

LEMMA SendContactRequestPair ==
    ASSUME ConsentInv, NEW p \in Peers, NEW q \in Peers, NEW addr,
           SendContactRequest(p, q, addr)
    PROVE  PairSteps
<1> DEFINE s == set_trust(store[p], q, "Pending")
<1>1. /\ store' = [store EXCEPT ![p] = s]
      /\ outgoing' = [outgoing EXCEPT ![p] = outgoing[p] \cup {q}]
      /\ did' = did \cup {<<"request", p, q>>}
      /\ UNCHANGED incoming
  BY DEF SendContactRequest, Awaiting
<1>2. store[p] \in Stores
  BY Types
<1>3. s \in Stores /\ s.trust[q] = "Pending"
      /\ \A r \in Peers \ {q} : s.trust[r] = store[p].trust[r]
  BY <1>2, TrustSet DEF TrustStatus
<1> HIDE DEF s
<1>4. PairStep(p, q)
  BY <1>1, <1>3, Types DEF PairStep
<1>5. \A r, u \in Peers : <<r, u>> # <<p, q>> =>
          /\ <<"request", r, u>> \in did' <=> <<"request", r, u>> \in did
          /\ u \in outgoing[r] => u \in outgoing'[r]
          /\ u \in incoming[r] => u \in incoming'[r]
  BY <1>1, Types
<1> QED BY <1>1, <1>3, <1>4, <1>5, OnePair

LEMMA RequestRemoved ==
    ASSUME NEW s \in Stores, NEW q
    PROVE  /\ remove_request(s, q) \in Stores
           /\ remove_request(s, q).trust = s.trust
           /\ remove_request(s, q).messages = s.messages
BY DEF remove_request, Stores

LEMMA DecidePair ==
    ASSUME ConsentInv, NEW p \in Peers, NEW q \in Peers, NEW trust \in {"Accepted", "Rejected"},
           NEW answer \in {"accept", "reject"}, Decide(p, q, trust, answer)
    PROVE  PairSteps
<1> DEFINE removed == remove_request(store[p], q)
           s == set_trust(removed, q, trust)
<1>1. /\ store' = [store EXCEPT ![p] = s]
      /\ incoming' = [incoming EXCEPT ![p] = incoming[p] \ {q}]
      /\ did' = did \cup {<<answer, p, q>>}
      /\ UNCHANGED outgoing
  BY DEF Decide
<1>2. store[p] \in Stores
  BY Types
<1>3. removed \in Stores /\ removed.trust = store[p].trust
  BY <1>2, RequestRemoved
<1> HIDE DEF removed
<1>4. s \in Stores /\ s.trust[q] = trust
      /\ \A r \in Peers \ {q} : s.trust[r] = store[p].trust[r]
  <2>1. trust \in TrustStatus
    BY DEF TrustStatus
  <2> QED BY <1>3, <2>1, TrustSet
<1> HIDE DEF s
<1>5. PairStep(p, q)
  BY <1>1, <1>4, Types DEF PairStep
<1>6. \A r, u \in Peers : <<r, u>> # <<p, q>> =>
          /\ <<"request", r, u>> \in did' <=> <<"request", r, u>> \in did
          /\ u \in outgoing[r] => u \in outgoing'[r]
          /\ u \in incoming[r] => u \in incoming'[r]
  BY <1>1, Types
<1> QED BY <1>1, <1>4, <1>5, <1>6, OnePair

LEMMA AddPeerPair ==
    ASSUME ConsentInv, NEW p \in Peers, NEW q \in Peers, NEW addr, AddPeer(p, q, addr)
    PROVE  PairSteps
<1> DEFINE s == set_trust(store[p], q, "Accepted")
<1>1. /\ store' = [store EXCEPT ![p] = s]
      /\ did' = did \cup {<<"add_peer", p, q>>}
      /\ UNCHANGED <<incoming, outgoing>>
  BY DEF AddPeer
<1>2. store[p] \in Stores
  BY Types
<1>3. s \in Stores /\ s.trust[q] = "Accepted"
      /\ \A r \in Peers \ {q} : s.trust[r] = store[p].trust[r]
  BY <1>2, TrustSet DEF TrustStatus
<1> HIDE DEF s
<1>4. PairStep(p, q)
  BY <1>1, <1>3, Types DEF PairStep
<1>5. \A r, u \in Peers : <<r, u>> # <<p, q>> =>
          /\ <<"request", r, u>> \in did' <=> <<"request", r, u>> \in did
          /\ u \in outgoing[r] => u \in outgoing'[r]
          /\ u \in incoming[r] => u \in incoming'[r]
  BY <1>1
<1> QED BY <1>1, <1>3, <1>4, <1>5, OnePair

LEMMA SetNicknamePair ==
    ASSUME ConsentInv, NEW p \in Peers, NEW q \in Peers, SetNickname(p, q)
    PROVE  PairSteps
<1> DEFINE s == set_nickname(store[p], q)
<1>1. /\ store' = [store EXCEPT ![p] = s]
      /\ left["nickname"] > 0
      /\ UNCHANGED <<incoming, outgoing, did>>
  BY DEF SetNickname, Spend, history
<1>2. store[p] \in Stores
  BY Types
<1>3. s \in Stores /\ s.trust[q] = (IF store[p].trust[q] = "none" THEN "Pending"
                                    ELSE store[p].trust[q])
      /\ \A r \in Peers \ {q} : s.trust[r] = store[p].trust[r]
  <2>1. /\ set_trust(store[p], q, "Pending") \in Stores
        /\ set_trust(store[p], q, "Pending").trust[q] = "Pending"
        /\ \A r \in Peers \ {q} : set_trust(store[p], q, "Pending").trust[r] = store[p].trust[r]
    BY <1>2, TrustSet DEF TrustStatus
  <2> QED BY <1>2, <2>1 DEF set_nickname
<1> HIDE DEF s
<1>4. PairStep(p, q)
  BY <1>1, <1>3, Types DEF PairStep
<1>5. \A r, u \in Peers : <<r, u>> # <<p, q>> =>
          /\ <<"request", r, u>> \in did' <=> <<"request", r, u>> \in did
          /\ u \in outgoing[r] => u \in outgoing'[r]
          /\ u \in incoming[r] => u \in incoming'[r]
  BY <1>1
<1> QED BY <1>1, <1>3, <1>4, <1>5, OnePair

\* A message is recorded.
LEMMA RecordingPair ==
    ASSUME ConsentInv, NEW p \in Peers, NEW s, s.trust = store[p].trust,
           store' = [store EXCEPT ![p] = s], UNCHANGED <<incoming, outgoing, did>>
    PROVE  PairSteps
BY Types DEF PairSteps, PairStep

LEMMA AppendTrust ==
    ASSUME NEW s \in Stores, NEW q, NEW text, NEW out \in BOOLEAN
    PROVE  append_message(s, q, text, out).trust = s.trust
BY DEF append_message, Stores

LEMMA PollRequestPair ==
    ASSUME ConsentInv, NEW p \in Peers, NEW d \in net, PollRequest(p, d)
    PROVE  PairSteps
<1> DEFINE q == d.pkt.source
           pending == set_trust(store[p], q, "Pending")
           s == add_request(pending, q)
<1>1. /\ UNCHANGED <<outgoing, did>>
      /\ \/ UNCHANGED <<store, incoming>>
         \/ /\ store[p].trust[q] = "none"
            /\ incoming' = [incoming EXCEPT ![p] = incoming[p] \cup {q}]
            /\ store' = [store EXCEPT ![p] = s]
  BY DEF PollRequest, AlreadyKnown, history
<1>2. q \in Peers /\ store[p] \in Stores
  BY InFlight, Types
<1> HIDE DEF q
<1>3. pending \in Stores /\ pending.trust[q] = "Pending"
      /\ \A r \in Peers \ {q} : pending.trust[r] = store[p].trust[r]
  BY <1>2, TrustSet DEF TrustStatus
<1> HIDE DEF pending
<1>4. s \in Stores /\ s.trust = pending.trust
  BY <1>2, <1>3 DEF add_request, Stores
<1> HIDE DEF s
<1>5. CASE UNCHANGED <<store, incoming>>
  BY <1>1, <1>5, SamePairs
<1>6. CASE /\ store[p].trust[q] = "none"
           /\ incoming' = [incoming EXCEPT ![p] = incoming[p] \cup {q}]
           /\ store' = [store EXCEPT ![p] = s]
  <2>1. PairStep(p, q)
    BY <1>1, <1>2, <1>3, <1>4, <1>6, Types DEF PairStep
  <2>2. \A r, u \in Peers : <<r, u>> # <<p, q>> =>
            /\ <<"request", r, u>> \in did' <=> <<"request", r, u>> \in did
            /\ u \in outgoing[r] => u \in outgoing'[r]
            /\ u \in incoming[r] => u \in incoming'[r]
    BY <1>1, <1>6, Types
  <2>3. \A r \in Peers \ {q} : s.trust[r] = store[p].trust[r]
    BY <1>3, <1>4
  <2> QED BY <1>2, <1>4, <1>6, <2>1, <2>2, <2>3, OnePair
<1> QED BY <1>1, <1>5, <1>6

LEMMA PollResponsePair ==
    ASSUME ConsentInv, NEW p \in Peers, NEW d \in net, PollResponse(p, d)
    PROVE  PairSteps
<1> DEFINE q == d.pkt.source
           t == DecisionTrust(d.pkt.payload.text)
           s == set_trust(store[p], q, t)
<1>1. /\ UNCHANGED <<incoming, did>>
      /\ \/ UNCHANGED <<store, outgoing>>
         \/ /\ outgoing' = [outgoing EXCEPT ![p] = outgoing[p] \ {q}]
            /\ store' = [store EXCEPT ![p] = s]
  BY DEF PollResponse, history
<1>2. q \in Peers /\ store[p] \in Stores /\ t \in {"Accepted", "Rejected"}
  <2>1. q \in Peers /\ store[p] \in Stores
    BY InFlight, Types
  <2>2. t \in {"Accepted", "Rejected"}
    BY DEF DecisionTrust
  <2> QED BY <2>1, <2>2
<1> HIDE DEF q, t
<1>3. s \in Stores /\ s.trust[q] = t
      /\ \A r \in Peers \ {q} : s.trust[r] = store[p].trust[r]
  <2>1. t \in TrustStatus
    BY <1>2 DEF TrustStatus
  <2> QED BY <1>2, <2>1, TrustSet
<1> HIDE DEF s
<1>4. CASE UNCHANGED <<store, outgoing>>
  BY <1>1, <1>4, SamePairs
<1>5. CASE /\ outgoing' = [outgoing EXCEPT ![p] = outgoing[p] \ {q}]
           /\ store' = [store EXCEPT ![p] = s]
  <2>1. PairStep(p, q)
    BY <1>2, <1>3, <1>5, Types DEF PairStep
  <2>2. \A r, u \in Peers : <<r, u>> # <<p, q>> =>
            /\ <<"request", r, u>> \in did' <=> <<"request", r, u>> \in did
            /\ u \in outgoing[r] => u \in outgoing'[r]
            /\ u \in incoming[r] => u \in incoming'[r]
    BY <1>1, <1>5, Types
  <2> QED BY <1>2, <1>3, <1>5, <2>1, <2>2, OnePair
<1> QED BY <1>1, <1>4, <1>5

LEMMA ApiCallPairs ==
    ASSUME ConsentInv, NEW p \in Peers, ApiCall(p)
    PROVE  PairSteps
<1>1. PICK q \in Peers :
          \/ \E addr \in Reachable(p) : SendContactRequest(p, q, addr)
          \/ AcceptContact(p, q)
          \/ RejectContact(p, q)
          \/ \E text \in Texts : Send(p, q, text)
          \/ \E addr \in Reachable(p) : AddPeer(p, q, addr)
          \/ SetNickname(p, q)
          \/ \E addr \in Found(p) : ConnectTo(p, q, addr)
  BY DEF ApiCall
<1>2. AcceptContact(p, q) \/ RejectContact(p, q) => PairSteps
  BY DecidePair DEF AcceptContact, RejectContact
<1>3. ASSUME NEW text \in Texts, Send(p, q, text)
      PROVE  PairSteps
  <2> DEFINE s == append_message(store[p], q, text, TRUE)
  <2>1. /\ UNCHANGED <<incoming, outgoing, did>>
        /\ UNCHANGED store \/ store' = [store EXCEPT ![p] = s]
    BY <1>3 DEF Send
  <2>2. store[p] \in Stores
    BY Types
  <2>3. s.trust = store[p].trust
    BY <2>2, AppendTrust
  <2> HIDE DEF s
  <2> QED BY <2>1, <2>3, SamePairs, RecordingPair
<1>4. ASSUME NEW addr, ConnectTo(p, q, addr)
      PROVE  PairSteps
  BY <1>4, SamePairs DEF ConnectTo, history
<1> QED
  BY <1>1, <1>2, <1>3, <1>4, SendContactRequestPair, AddPeerPair, SetNicknamePair

LEMMA PollPairs ==
    ASSUME ConsentInv, NEW p \in Peers, NEW d \in net, Poll(p, d)
    PROVE  PairSteps
<1>1. PollHello(p, d) => PairSteps
  BY SamePairs DEF PollHello, history
<1>2. PollConnect(p, d) => PairSteps
  BY SamePairs DEF PollConnect, history
<1>3. PollDropped(p, d) => PairSteps
  BY SamePairs DEF PollDropped, memory, history
<1>4. ASSUME PollMessage(p, d)
      PROVE  PairSteps
  <2> DEFINE s == append_message(store[p], d.pkt.source, d.pkt.payload.text, FALSE)
  <2>1. UNCHANGED <<incoming, outgoing, did>> /\ store' = [store EXCEPT ![p] = s]
    BY <1>4 DEF PollMessage, history
  <2>2. store[p] \in Stores
    BY Types
  <2>3. s.trust = store[p].trust
    BY <2>2, AppendTrust
  <2> HIDE DEF s
  <2> QED BY <2>1, <2>3, RecordingPair
<1> QED BY <1>1, <1>2, <1>3, <1>4, PollRequestPair, PollResponsePair DEF Poll

LEMMA NextPairs ==
    ASSUME ConsentInv, left["restart"] = 0, [Next]_vars
    PROVE  PairSteps
<1>1. CASE \E p \in Peers : ApiCall(p)
  BY <1>1, ApiCallPairs
<1>2. CASE \E p \in Peers : Announce(p) \/ Tick(p) \/ Effect(p)
  BY <1>2, SamePairs DEF Announce, Tick, Effect, memory, history
<1>3. CASE \E p \in Peers, d \in net : Poll(p, d)
  BY <1>3, PollPairs
<1>4. CASE \E p \in Peers : Restart(p)
  BY <1>4 DEF Restart, Spend
<1>5. CASE \E d \in net : RelayHandle(d) \/ Lose(d)
  BY <1>5, SamePairs DEF RelayHandle, Lose, memory, history
<1>6. CASE \E q \in Peers : RelayExpire(q)
  BY <1>6, SamePairs DEF RelayExpire, memory, history
<1>7. CASE \E p, q \in Peers : \E addr \in AddrsOf(p) \cup {NoAddr} : Advertise(p, q, addr)
  BY <1>7, SamePairs DEF Advertise, memory, history
<1>8. CASE UNCHANGED vars
  BY <1>8, SamePairs DEF vars, memory, history
<1> QED
  BY <1>1, <1>2, <1>3, <1>4, <1>5, <1>6, <1>7, <1>8 DEF Next

-----------------------------------------------------------------------------
(* Budgets only shrink. *)

Spending == UNCHANGED left \/ \E event \in Events : Spend(event)

LEMMA NextSpends ==
    ASSUME [Next]_vars
    PROVE  Spending
<1>1. ASSUME NEW p \in Peers, ApiCall(p) PROVE Spending
  BY <1>1 DEF ApiCall, SendContactRequest, AcceptContact, RejectContact, Decide, Send, AddPeer,
              SetNickname, ConnectTo, Spending, Events
<1>2. ASSUME NEW p \in Peers, Announce(p) \/ Tick(p) PROVE Spending
  BY <1>2 DEF Announce, Tick, Spending, Events
<1>3. ASSUME NEW p \in Peers, NEW d \in net, Poll(p, d) PROVE Spending
  <2>1. Receive(p, d)
    BY <1>3 DEF Poll, PollHello, PollConnect, PollDropped, PollMessage, PollRequest, PollResponse
  <2> QED BY <2>1 DEF Receive, Spending, Events
<1>4. ASSUME NEW p \in Peers, Effect(p) PROVE Spending
  BY <1>4 DEF Effect, EffectSave, EffectSend, EffectNotify, Spending, Events
<1>5. ASSUME NEW p \in Peers, Restart(p) PROVE Spending
  BY <1>5 DEF Restart, Spending, Events
<1>6. ASSUME NEW d \in net, RelayHandle(d) \/ Lose(d) PROVE Spending
  BY <1>6 DEF RelayHandle, Lose, Spending, Events
<1>7. ASSUME NEW q \in Peers, RelayExpire(q) PROVE Spending
  BY <1>7 DEF RelayExpire, Spending, Events
<1>8. ASSUME NEW p \in Peers, NEW q \in Peers, NEW addr \in AddrsOf(p) \cup {NoAddr},
             Advertise(p, q, addr)
      PROVE  Spending
  BY <1>8 DEF Advertise, Spending, Events
<1>9. UNCHANGED vars => Spending
  BY DEF vars, Spending
<1> QED
  BY <1>1, <1>2, <1>3, <1>4, <1>5, <1>6, <1>7, <1>8, <1>9 DEF Next

LEMMA NoneLeft ==
    ASSUME ConsentInv, [Next]_vars, NEW event \in Events, left[event] = 0
    PROVE  left'[event] = 0
<1>1. CASE UNCHANGED left
  BY <1>1
<1>2. ASSUME NEW e \in Events, Spend(e)
      PROVE  left'[event] = 0
  <2>1. e # event
    BY <1>2 DEF Spend
  <2> QED BY <1>2, <2>1, Types DEF Spend
<1> QED BY <1>1, <1>2, NextSpends DEF Spending

-----------------------------------------------------------------------------
(* Requests *)

LEMMA InitAwait == Init /\ left["restart"] = 0 => ConsentInv /\ AwaitInv
<1> SUFFICES ASSUME Init, left["restart"] = 0 PROVE AwaitInv
  BY InitConsent
<1>1. did = {}
  BY DEF Init
<1> QED BY <1>1 DEF AwaitInv, PendingIsAwaited, AskedIsKnown

LEMMA NextAwait == ConsentInv /\ AwaitInv /\ [Next]_vars => ConsentInv' /\ AwaitInv'
<1> SUFFICES ASSUME ConsentInv, AwaitInv, [Next]_vars PROVE AwaitInv'
  BY NextConsent
<1>1. left'["restart"] = 0
  BY NoneLeft DEF AwaitInv, Events
<1>2. PairSteps
  BY NextPairs DEF AwaitInv
<1>3. ASSUME NEW p \in Peers, NEW q \in Peers
      PROVE  /\ store'[p].trust[q] = "Pending" /\ <<"request", p, q>> \in did' => q \in outgoing'[p]
             /\ <<"request", p, q>> \in did' => store'[p].trust[q] # "none"
  <2>1. PairStep(p, q)
    BY <1>2 DEF PairSteps
  <2>2. /\ store[p].trust[q] = "Pending" /\ <<"request", p, q>> \in did => q \in outgoing[p]
        /\ <<"request", p, q>> \in did => store[p].trust[q] # "none"
    BY DEF AwaitInv, PendingIsAwaited, AskedIsKnown
  <2> QED BY <2>1, <2>2 DEF PairStep
<1> QED BY <1>1, <1>3 DEF AwaitInv, PendingIsAwaited, AskedIsKnown

\* As long as our own request is unanswered its answer is awaited, whatever else
\* the two peers, the users and the network do (send_contact_request,
\* handle_contact_response).
THEOREM Awaited == SteadySpec => []PendingIsAwaited
<1>1. AwaitInv => PendingIsAwaited
  BY DEF AwaitInv
<1> QED BY <1>1, InitAwait, NextAwait, PTL DEF SteadySpec

\* A peer that asked us first can be answered for as long as it is Pending,
\* provided that nobody names a peer before it is a contact: set_nickname
\* creates a Pending contact (handle_contact_request, accept_contact).
THEOREM Answerable ==
    Init /\ left["restart"] = 0 /\ left["nickname"] = 0 /\ [][Next]_vars
        => []PendingIsAnswerable
<1> DEFINE I == /\ ConsentInv /\ left["restart"] = 0 /\ left["nickname"] = 0
                /\ PendingIsAnswerable
<1>1. Init /\ left["restart"] = 0 /\ left["nickname"] = 0 => I
  <2> SUFFICES ASSUME Init PROVE PendingIsAnswerable
    BY InitConsent
  <2>1. \A p, q \in Peers : store[p].trust[q] = "none"
    BY DEF Init, EmptyStore
  <2> QED BY <2>1 DEF PendingIsAnswerable
<1>2. I /\ [Next]_vars => I'
  <2> SUFFICES ASSUME I, [Next]_vars PROVE PendingIsAnswerable' /\ left'["restart"] = 0
                                           /\ left'["nickname"] = 0
    BY NextConsent
  <2>1. left'["restart"] = 0 /\ left'["nickname"] = 0
    BY NoneLeft DEF Events
  <2>2. ASSUME NEW p \in Peers, NEW q \in Peers
        PROVE  store'[p].trust[q] = "Pending" /\ <<"request", p, q>> \notin did'
                   => q \in incoming'[p]
    <3>1. PairStep(p, q)
      BY NextPairs DEF PairSteps
    <3>2. store[p].trust[q] = "Pending" /\ <<"request", p, q>> \notin did => q \in incoming[p]
      BY DEF PendingIsAnswerable
    <3> QED BY <3>1, <3>2 DEF PairStep
  <2> QED BY <2>1, <2>2 DEF PendingIsAnswerable
<1>3. I => PendingIsAnswerable
  OBVIOUS
<1> QED BY <1>1, <1>2, <1>3, PTL

-----------------------------------------------------------------------------
(* Counters and replays: what a step may do *)

LEMMA UnderwayFacts ==
    ASSUME ConsentInv, NEW pkt \in Underway
    PROVE  /\ pkt \in SealedPackets
           /\ pkt.source \in Peers /\ pkt.destination \in Peers /\ pkt.counter \in Nat
           /\ pkt.type \in SealedTypes
           /\ Meant(did, submitted, pkt)
<1>1. pkt.type \in SealedTypes /\ (\/ \E d \in net : pkt = d.pkt
                                   \/ \E p \in Peers : pkt \in Sends(p))
  BY DEF Underway
<1>2. \E d \in MeantDatagrams(did, submitted) : pkt = d.pkt
  <2>1. CASE \E d \in net : pkt = d.pkt
    BY <2>1 DEF ConsentInv
  <2>2. ASSUME NEW p \in Peers, NEW i \in DOMAIN todo[p], todo[p][i].op = "send",
               pkt = todo[p][i].datagram.pkt
        PROVE  \E d \in MeantDatagrams(did, submitted) : pkt = d.pkt
    <3>1. todo[p] \in Seq(MeantSteps(did, submitted, p))
      BY DEF ConsentInv
    <3>2. todo[p][i] \in MeantSteps(did, submitted, p)
      BY <2>2, <3>1
    <3>3. todo[p][i].datagram \in MeantDatagrams(did, submitted)
      BY <2>2, <3>2 DEF MeantSteps
    <3> QED BY <2>2, <3>3
  <2> QED BY <1>1, <2>1, <2>2 DEF Sends
<1>3. pkt \in Packets /\ Meant(did, submitted, pkt)
  BY <1>2 DEF MeantDatagrams, Datagrams
<1>4. pkt \in SealedPackets
  BY <1>1, <1>3 DEF Packets, SealedTypes
<1> QED BY <1>1, <1>3, <1>4 DEF SealedPackets

LEMMA SessionTypes ==
    ASSUME ConsentInv, NEW p \in Peers, NEW q \in Peers
    PROVE  /\ session[p][q] \in SessionState
           /\ session[p][q].send \in Nat /\ session[p][q].last \in Nat
           /\ session[p][q].have \in BOOLEAN
<1>1. session[p][q] \in SessionState
  BY PeerFacts
<1> QED BY <1>1 DEF SessionState

\* No received message is added, and none is moved.
SameHeard ==
    \A r \in Peers : \A i \in DOMAIN store'[r].messages :
        ~store'[r].messages[i].outgoing =>
            i \in DOMAIN store[r].messages /\ store[r].messages[i] = store'[r].messages[i]

LEMMA HeardOnce ==
    ASSUME ReplayInv, SameHeard
    PROVE  RecordedOnce'
<1> SUFFICES ASSUME NEW p \in Peers, NEW i \in DOMAIN store'[p].messages,
                    NEW j \in DOMAIN store'[p].messages,
                    ~store'[p].messages[i].outgoing,
                    store'[p].messages[j] = store'[p].messages[i]
             PROVE  i = j
  BY DEF RecordedOnce
<1>1. /\ i \in DOMAIN store[p].messages /\ store[p].messages[i] = store'[p].messages[i]
      /\ j \in DOMAIN store[p].messages /\ store[p].messages[j] = store'[p].messages[j]
  BY DEF SameHeard
<1>2. ~store[p].messages[i].outgoing /\ store[p].messages[j] = store[p].messages[i]
  BY <1>1
<1> QED BY <1>1, <1>2 DEF ReplayInv, RecordedOnce

\* Neither a session nor the packets under way change, except that some are lost.
LEMMA StillReplay ==
    ASSUME ReplayInv, left'["restart"] = 0, SameHeard, UNCHANGED session,
           Underway' \subseteq Underway
    PROVE  ReplayInv'
<1>1. CountersInStep' /\ CountersUsedUp' /\ OneCounterEach'
  BY DEF ReplayInv, CountersInStep, CountersUsedUp, OneCounterEach
<1>2. RecordedIsStale'
  BY DEF ReplayInv, RecordedIsStale, SameHeard
<1> QED BY <1>1, <1>2, HeardOnce DEF ReplayInv

\* A conversation tells who sent its messages.
LEMMA HeardSubmitted ==
    ASSUME ConsentInv, NEW p \in Peers, NEW i \in DOMAIN store[p].messages,
           ~store[p].messages[i].outgoing
    PROVE  /\ [from |-> store[p].messages[i].peer, to |-> p, text |-> store[p].messages[i].text]
                 \in submitted
           /\ store[p].messages[i].peer \in Peers
<1>1. store[p] \in MeantStores(did, submitted, p) /\ store[p] \in Stores
  BY PeerFacts
<1>2. store[p].messages \in Seq(Messages)
  BY <1>1 DEF Stores
<1>3. store[p].messages[i] \in Messages
  BY <1>2
<1> QED BY <1>1, <1>3 DEF MeantStores, Messages

LEMMA SealedReplay ==
    ASSUME ConsentInv, ReplayInv, left'["restart"] = 0, SameHeard,
           NEW p \in Peers, NEW q \in Peers, NEW pkt,
           session' = [session EXCEPT ![p][q] = AfterEncrypt(session[p][q])],
           pkt.source = p, pkt.destination = q, pkt.counter = session[p][q].send,
           Underway' \subseteq Underway \cup {pkt},
           pkt.type = "Message" => \A m \in submitted : m.text # pkt.payload.text
    PROVE  ReplayInv'
<1>1. \A r, u \in Peers :
          /\ session'[r][u].have = session[r][u].have /\ session'[r][u].last = session[r][u].last
          /\ session'[r][u].send = session[r][u].send + IF r = p /\ u = q THEN 1 ELSE 0
  <2>1. session \in PerPair(SessionState)
    BY Parts DEF PathPart
  <2>2. ASSUME NEW r \in Peers, NEW u \in Peers
        PROVE  session'[r][u] = IF r = p /\ u = q THEN AfterEncrypt(session[p][q])
                                                 ELSE session[r][u]
    BY <2>1 DEF PerPair
  <2>3. /\ AfterEncrypt(session[p][q]).send = session[p][q].send + 1
        /\ AfterEncrypt(session[p][q]).have = session[p][q].have
        /\ AfterEncrypt(session[p][q]).last = session[p][q].last
    <3>1. session[p][q] \in SessionState
      BY SessionTypes
    <3> QED BY <3>1 DEF AfterEncrypt, SessionState
  <2> QED BY <2>2, <2>3, SessionTypes
<1>2. CountersInStep'
  BY <1>1, SessionTypes DEF ReplayInv, CountersInStep
<1>3. CountersUsedUp'
  <2> SUFFICES ASSUME NEW k \in Underway'
               PROVE  k.counter < session'[k.source][k.destination].send
    BY DEF CountersUsedUp
  <2>1. CASE k \in Underway
    <3>1. k.source \in Peers /\ k.destination \in Peers /\ k.counter \in Nat
      BY <2>1, UnderwayFacts
    <3>2. k.counter < session[k.source][k.destination].send
      BY <2>1 DEF ReplayInv, CountersUsedUp
    <3> QED BY <1>1, <3>1, <3>2, SessionTypes
  <2>2. CASE k = pkt
    BY <1>1, <2>2, SessionTypes
  <2> QED BY <2>1, <2>2
<1>4. ASSUME NEW k \in Underway, NEW u, Carries(k, p, q, u), pkt.type = "Message"
      PROVE  pkt.payload.text # u
  <2>1. Meant(did, submitted, k)
    BY UnderwayFacts
  <2>2. [from |-> p, to |-> q, text |-> u] \in submitted
    BY <1>4, <2>1 DEF Meant, Carries
  <2> QED BY <1>4, <2>2
<1>5. OneCounterEach'
  <2> SUFFICES ASSUME NEW a \in Underway', NEW b \in Underway', b.type = "Message",
                      Carries(a, b.source, b.destination, b.payload.text)
               PROVE  a.counter = b.counter
    BY DEF OneCounterEach
  <2>1. CASE a \in Underway /\ b \in Underway
    BY <2>1 DEF ReplayInv, OneCounterEach
  <2>2. CASE a = pkt /\ b \in Underway
    BY <1>4, <2>2 DEF Carries
  <2>3. CASE a \in Underway /\ b = pkt
    BY <1>4, <2>3
  <2> QED BY <2>1, <2>2, <2>3
<1>6. RecordedIsStale'
  <2> SUFFICES ASSUME NEW r \in Peers, NEW i \in DOMAIN store'[r].messages,
                      NEW k \in Underway', NEW m, m = store'[r].messages[i],
                      ~m.outgoing, Carries(k, m.peer, r, m.text)
               PROVE  ~FreshCounter(session'[r][m.peer], k.counter)
    BY DEF RecordedIsStale
  <2>1. i \in DOMAIN store[r].messages /\ store[r].messages[i] = m
    BY DEF SameHeard
  <2>2. m.peer \in Peers /\ [from |-> m.peer, to |-> r, text |-> m.text] \in submitted
    BY <2>1, HeardSubmitted
  <2>3. k \in Underway
    BY <2>2 DEF Carries
  <2>4. ~FreshCounter(session[r][m.peer], k.counter)
    BY <2>1, <2>3 DEF ReplayInv, RecordedIsStale
  <2>5. /\ session'[r][m.peer].have = session[r][m.peer].have
        /\ session'[r][m.peer].last = session[r][m.peer].last
    BY <1>1, <2>2
  <2>6. session[r][m.peer].have /\ ~(k.counter > session[r][m.peer].last)
    BY <2>4 DEF FreshCounter
  <2>7. session'[r][m.peer].have
    BY <2>5, <2>6
  <2>8. ~(k.counter > session'[r][m.peer].last)
    BY <2>5, <2>6
  <2> QED BY <2>7, <2>8 DEF FreshCounter
<1> QED BY <1>2, <1>3, <1>5, <1>6, HeardOnce DEF ReplayInv

\* The only message received is that of pkt, which p records for q.
OneHeard(p, q, pkt) ==
    /\ pkt.type = "Message"
    /\ \A r \in Peers : \A i \in DOMAIN store'[r].messages :
          \/ ~store'[r].messages[i].outgoing =>
                 /\ i \in DOMAIN store[r].messages
                 /\ store[r].messages[i] = store'[r].messages[i]
          \/ /\ r = p /\ i = Len(store[p].messages) + 1
             /\ store'[p].messages[i] =
                   [peer |-> q, text |-> pkt.payload.text, outgoing |-> FALSE]

LEMMA OpenedReplay ==
    ASSUME ConsentInv, ReplayInv, left'["restart"] = 0, Underway' \subseteq Underway,
           NEW p \in Peers, NEW q \in Peers, NEW pkt \in Underway,
           pkt.source = q, pkt.destination = p,
           FreshCounter(session[p][q], pkt.counter),
           session' = [session EXCEPT ![p][q] = AfterDecrypt(session[p][q], pkt)],
           SameHeard \/ OneHeard(p, q, pkt)
    PROVE  ReplayInv'
<1> DEFINE new(r, i) == /\ pkt.type = "Message"
                        /\ r = p /\ i = Len(store[p].messages) + 1
                        /\ store'[p].messages[i] =
                              [peer |-> q, text |-> pkt.payload.text, outgoing |-> FALSE]
           old(r, i) == /\ i \in DOMAIN store[r].messages
                        /\ store[r].messages[i] = store'[r].messages[i]
<1>1. \A r \in Peers : \A i \in DOMAIN store'[r].messages :
          ~store'[r].messages[i].outgoing => new(r, i) \/ old(r, i)
  BY DEF SameHeard, OneHeard
<1>2. \A r, u \in Peers :
          /\ session'[r][u].send = session[r][u].send
          /\ ~(r = p /\ u = q) => session'[r][u] = session[r][u]
          /\ r = p /\ u = q => session'[r][u].have = TRUE /\ session'[r][u].last = pkt.counter
  <2>1. session \in PerPair(SessionState)
    BY Parts DEF PathPart
  <2>2. ASSUME NEW r \in Peers, NEW u \in Peers
        PROVE  session'[r][u] = IF r = p /\ u = q THEN AfterDecrypt(session[p][q], pkt)
                                                 ELSE session[r][u]
    BY <2>1 DEF PerPair
  <2>3. /\ AfterDecrypt(session[p][q], pkt).send = session[p][q].send
        /\ AfterDecrypt(session[p][q], pkt).have = TRUE
        /\ AfterDecrypt(session[p][q], pkt).last = pkt.counter
    <3>1. session[p][q] \in SessionState
      BY SessionTypes
    <3> QED BY <3>1 DEF AfterDecrypt, SessionState
  <2> QED BY <2>2, <2>3
<1>3. pkt.counter \in Nat /\ pkt.counter < session[q][p].send
  BY UnderwayFacts DEF ReplayInv, CountersUsedUp
<1>4. CountersInStep'
  <2> SUFFICES ASSUME NEW r \in Peers, NEW u \in Peers, session'[r][u].have
               PROVE  session'[r][u].last < session'[u][r].send
    BY DEF CountersInStep
  <2>1. CASE r = p /\ u = q
    BY <1>2, <1>3, <2>1
  <2>2. CASE ~(r = p /\ u = q)
    BY <1>2, <2>2 DEF ReplayInv, CountersInStep
  <2> QED BY <2>1, <2>2
<1>5. CountersUsedUp'
  BY <1>2, UnderwayFacts DEF ReplayInv, CountersUsedUp
<1>6. OneCounterEach'
  BY DEF ReplayInv, OneCounterEach
<1>7. RecordedIsStale'
  <2> SUFFICES ASSUME NEW r \in Peers, NEW i \in DOMAIN store'[r].messages,
                      NEW k \in Underway', NEW m, m = store'[r].messages[i],
                      ~m.outgoing, Carries(k, m.peer, r, m.text)
               PROVE  ~FreshCounter(session'[r][m.peer], k.counter)
    BY DEF RecordedIsStale
  <2>1. k \in Underway /\ k.counter \in Nat
    BY UnderwayFacts
  <2>2. CASE new(r, i)
    <3>1. m.peer = q /\ m.text = pkt.payload.text
      BY <2>2
    <3>2. k.counter = pkt.counter
      BY <2>1, <2>2, <3>1 DEF ReplayInv, OneCounterEach
    <3> QED BY <1>2, <1>3, <2>2, <3>1, <3>2 DEF FreshCounter
  <2>3. CASE old(r, i)
    <3>1. m.peer \in Peers
      BY <2>3, HeardSubmitted
    <3>2. ~FreshCounter(session[r][m.peer], k.counter)
      BY <2>1, <2>3 DEF ReplayInv, RecordedIsStale
    <3>3. CASE r = p /\ m.peer = q
      <4>1. session[p][q].have /\ ~(k.counter > session[p][q].last)
        BY <3>2, <3>3 DEF FreshCounter
      <4>2. pkt.counter > session[p][q].last
        BY <4>1 DEF FreshCounter
      <4>3. ~(k.counter > pkt.counter)
        BY <1>3, <2>1, <4>1, <4>2, SessionTypes
      <4>4. session'[p][q].have = TRUE /\ session'[p][q].last = pkt.counter
        BY <1>2
      <4> QED BY <3>3, <4>3, <4>4 DEF FreshCounter
    <3>4. CASE ~(r = p /\ m.peer = q)
      BY <1>2, <3>1, <3>2, <3>4
    <3> QED BY <3>3, <3>4
  <2> QED BY <1>1, <2>2, <2>3
<1>8. RecordedOnce'
  <2> SUFFICES ASSUME NEW r \in Peers, NEW i \in DOMAIN store'[r].messages,
                      NEW j \in DOMAIN store'[r].messages,
                      ~store'[r].messages[i].outgoing,
                      store'[r].messages[j] = store'[r].messages[i]
               PROVE  i = j
    BY DEF RecordedOnce
  <2>1. (new(r, i) \/ old(r, i)) /\ (new(r, j) \/ old(r, j))
    BY <1>1
  <2>2. CASE old(r, i) /\ old(r, j)
    BY <2>2 DEF ReplayInv, RecordedOnce
  <2>3. CASE new(r, i) /\ new(r, j)
    BY <2>3
  <2>4. ASSUME NEW a \in DOMAIN store'[r].messages, NEW b \in DOMAIN store'[r].messages,
               new(r, a), old(r, b), store'[r].messages[b] = store'[r].messages[a]
        PROVE  FALSE
    <3> DEFINE m == store[p].messages[b]
    <3>1. /\ b \in DOMAIN store[p].messages
          /\ m = [peer |-> q, text |-> pkt.payload.text, outgoing |-> FALSE]
      BY <2>4
    <3>2. ~m.outgoing /\ Carries(pkt, m.peer, p, m.text) /\ m.peer = q
      BY <2>4, <3>1 DEF Carries
    <3> QED BY <3>1, <3>2 DEF ReplayInv, RecordedIsStale
  <2> QED BY <2>1, <2>2, <2>3, <2>4
<1> QED BY <1>4, <1>5, <1>6, <1>7, <1>8 DEF ReplayInv

-----------------------------------------------------------------------------
(* Counters and replays: the packets under way *)

\* Steps that send no sealed packet but those in P.
Bearing(P) ==
    {e \in Steps : e.op = "send" /\ e.datagram.pkt.type \in SealedTypes => e.datagram.pkt \in P}

LEMMA UnderwayCall ==
    ASSUME ConsentInv, NEW p \in Peers, NEW P, NEW t \in Seq(Bearing(P)),
           todo' = [todo EXCEPT ![p] = t], net' \subseteq net
    PROVE  Underway' \subseteq Underway \cup P
<1> SUFFICES ASSUME NEW k \in Underway'
             PROVE  k \in Underway \cup P
  OBVIOUS
<1>1. todo'[p] = t /\ \A r \in Peers \ {p} : todo'[r] = todo[r]
  BY DEF ConsentInv, TypeOK
<1>2. k.type \in SealedTypes /\ (\/ \E d \in net' : k = d.pkt
                                 \/ \E r \in Peers : k \in Sends(r)')
  BY DEF Underway
<1>3. CASE \E d \in net' : k = d.pkt
  BY <1>2, <1>3 DEF Underway
<1>4. ASSUME NEW r \in Peers \ {p}, k \in Sends(r)'
      PROVE  k \in Underway
  <2>1. k \in Sends(r)
    BY <1>1, <1>4 DEF Sends
  <2> QED BY <1>2, <2>1 DEF Underway
<1>5. ASSUME k \in Sends(p)'
      PROVE  k \in P
  <2>1. PICK i \in DOMAIN t : t[i].op = "send" /\ k = t[i].datagram.pkt
    BY <1>1, <1>5 DEF Sends
  <2>2. t[i] \in Bearing(P)
    OBVIOUS
  <2> QED BY <1>2, <2>1, <2>2 DEF Bearing
<1> QED BY <1>2, <1>3, <1>4, <1>5

LEMMA UnderwaySame ==
    ASSUME UNCHANGED todo, net' \subseteq net
    PROVE  Underway' \subseteq Underway
<1>1. \A r \in Peers : Sends(r)' = Sends(r)
  BY DEF Sends
<1> QED BY <1>1 DEF Underway

LEMMA SealedBears ==
    ASSUME ConsentInv, NEW p \in Peers, NEW addr \in Addresses, NEW pkt \in SealedPackets
    PROVE  send_packet(p, addr, pkt) \in Seq(Bearing({pkt}))
<1> DEFINE to == Route(p, addr)
           e == SendTo(p, to, pkt)
<1>1. to \in Addresses /\ Addr(p) \in Addresses /\ pkt \in Packets
  BY PeerFacts DEF Route, RelayOf, Addresses, Packets
<1> HIDE DEF to
<1>2. Datagram(Addr(p), to, pkt) \in Datagrams /\ Datagram(Addr(p), to, pkt).pkt = pkt
  BY <1>1 DEF Datagram, Datagrams
<1>3. e \in Steps /\ e.op = "send" /\ e.datagram = Datagram(Addr(p), to, pkt)
  BY <1>2 DEF SendTo, Steps
<1>4. e \in Bearing({pkt})
  BY <1>2, <1>3 DEF Bearing
<1>5. <<e>> \in Seq(Bearing({pkt})) /\ <<>> \in Seq(Bearing({pkt}))
  BY <1>4, OneStep
<1> QED BY <1>5 DEF send_packet, Transmit, to

LEMMA Encrypted ==
    ASSUME ConsentInv, NEW p \in Peers, NEW q \in Peers, NEW type \in SealedTypes,
           NEW text \in Words
    PROVE  encrypt_as(p, q, session[p][q], type, text) \in SealedPackets
BY PeerFacts, EncryptAsType

LEMMA SaveBears ==
    ASSUME NEW P, NEW s \in Stores
    PROVE  Save(s) \in Bearing(P)
BY DEF Save, Bearing, Steps

LEMMA NotifyBears ==
    ASSUME NEW P, NEW q \in Peers, NEW text \in Words,
           NEW kind \in {"message", "request", "response"}
    PROVE  Notify(kind, q, text) \in Bearing(P)
BY DEF Notify, Bearing, Steps, Notices

LEMMA SameMessages ==
    ASSUME ConsentInv, NEW p \in Peers, NEW s, s.messages = store[p].messages,
           store' = [store EXCEPT ![p] = s]
    PROVE  SameHeard
BY Types DEF SameHeard

LEMMA SameStores ==
    ASSUME UNCHANGED store
    PROVE  SameHeard
BY DEF SameHeard

LEMMA TrustMessages ==
    ASSUME NEW s \in Stores, NEW q, NEW t
    PROVE  set_trust(s, q, t).messages = s.messages
BY DEF set_trust, Stores

LEMMA Appended ==
    ASSUME NEW s \in Stores, NEW q \in Peers, NEW text \in Texts, NEW out \in BOOLEAN
    PROVE  LET h == append_message(s, q, text, out).messages IN
           \A i \in DOMAIN h :
              \/ i \in DOMAIN s.messages /\ s.messages[i] = h[i]
              \/ /\ i = Len(s.messages) + 1
                 /\ h[i] = [peer |-> q, text |-> text, outgoing |-> out]
<1> DEFINE m == [peer |-> q, text |-> text, outgoing |-> out]
           z == append_message(s, q, text, out)
<1>1. m \in Messages
  BY DEF Messages
<1> HIDE DEF m
<1>2. s.messages \in Seq(Messages)
  BY DEF Stores
<1> DEFINE h == Append(s.messages, m)
<1>3. \A i \in DOMAIN h :
          \/ i \in DOMAIN s.messages /\ s.messages[i] = h[i]
          \/ i = Len(s.messages) + 1 /\ h[i] = m
  BY <1>1, <1>2, AppendProperties
<1> HIDE DEF h
<1>4. z.messages = h
  BY DEF append_message, Stores, h, m
<1> HIDE DEF z
<1>5. \A i \in DOMAIN z.messages :
          \/ i \in DOMAIN s.messages /\ s.messages[i] = z.messages[i]
          \/ i = Len(s.messages) + 1 /\ z.messages[i] = m
  BY <1>3, <1>4
<1> QED BY <1>5 DEF z, m

LEMMA UnsealedCall ==
    ASSUME ConsentInv, ConsentInv', NEW p \in Peers, NEW t, todo' = [todo EXCEPT ![p] = t],
           \A k \in DOMAIN t : t[k].op = "send" => t[k].datagram.pkt.type = "Hello",
           net' \subseteq net
    PROVE  Underway' \subseteq Underway
<1>1. todo'[p] = t /\ todo'[p] \in Seq(Steps)
  BY DEF ConsentInv, TypeOK
<1>2. \A k \in DOMAIN t : t[k] \in Bearing({})
  BY <1>1 DEF Bearing, SealedTypes
<1>3. t \in Seq(Bearing({}))
  BY <1>1, <1>2
<1>4. Underway' \subseteq Underway \cup {}
  BY <1>3, UnderwayCall
<1> QED BY <1>4

LEMMA HelloSends ==
    ASSUME NEW p, NEW q, NEW to, NEW k \in DOMAIN send_probe(p, q, to)
    PROVE  send_probe(p, q, to)[k].datagram.pkt.type = "Hello"
BY DEF send_probe, Transmit, SendTo, Datagram, Hello

-----------------------------------------------------------------------------
(* Counters and replays: API calls *)

Holds == ConsentInv /\ ConsentInv' /\ ReplayInv /\ left'["restart"] = 0

LEMMA SendContactRequestReplay ==
    ASSUME Holds, NEW p \in Peers, NEW q \in Peers, NEW addr \in Addresses,
           SendContactRequest(p, q, addr)
    PROVE  ReplayInv'
<1> DEFINE s == set_trust(store[p], q, "Pending")
           pkt == encrypt_as(p, q, session[p][q], "ContactRequest", "hello")
           out == send_packet(p, addr, pkt)
<1>1. /\ store' = [store EXCEPT ![p] = s]
      /\ session' = [session EXCEPT ![p][q] = AfterEncrypt(session[p][q])]
      /\ todo' = [todo EXCEPT ![p] = <<Save(store'[p])>> \o out]
      /\ UNCHANGED net
  BY DEF SendContactRequest, Do
<1>2. ConsentInv /\ ConsentInv' /\ ReplayInv /\ left'["restart"] = 0
  BY DEF Holds
<1>3. store[p] \in Stores /\ store'[p] \in Stores
  BY <1>2 DEF ConsentInv, TypeOK
<1>4. SameHeard
  <2>1. s.messages = store[p].messages
    BY <1>3, TrustMessages
  <2> HIDE DEF s
  <2> QED BY <1>1, <1>2, <2>1, SameMessages
<1> HIDE DEF pkt
<1>5. /\ pkt.source = p /\ pkt.destination = q /\ pkt.counter = session[p][q].send
      /\ pkt.type = "ContactRequest"
      /\ out \in Seq(Bearing({pkt}))
  <2>1. "ContactRequest" \in SealedTypes /\ "hello" \in Words
    BY DEF SealedTypes, Words
  <2>2. /\ pkt.source = p /\ pkt.destination = q /\ pkt.counter = session[p][q].send
        /\ pkt.type = "ContactRequest" /\ pkt.payload.text = "hello"
    BY DEF pkt, encrypt_as, WithPayload, Envelope, seal
  <2>3. pkt \in SealedPackets
    BY <1>2, <2>1, Encrypted DEF pkt
  <2>4. out \in Seq(Bearing({pkt}))
    BY <1>2, <1>3, <2>3, SealedBears
  <2> QED BY <2>2, <2>4
<1> HIDE DEF out
<1>6. <<Save(store'[p])>> \in Seq(Bearing({pkt}))
  BY <1>3, SaveBears, OneStep
<1>7. <<Save(store'[p])>> \o out \in Seq(Bearing({pkt}))
  BY <1>5, <1>6, Joined
<1>8. Underway' \subseteq Underway \cup {pkt}
  BY <1>1, <1>2, <1>7, UnderwayCall
<1> QED BY <1>1, <1>2, <1>4, <1>5, <1>8, SealedReplay

LEMMA DecideReplay ==
    ASSUME Holds, NEW p \in Peers, NEW q \in Peers, NEW trust, NEW answer \in {"accept", "reject"},
           Decide(p, q, trust, answer)
    PROVE  ReplayInv'
<1> DEFINE removed == remove_request(store[p], q)
           decided == set_trust(removed, q, trust)
           first == IF removed = store[p] THEN <<>> ELSE <<Save(removed)>>
           pkt == encrypt_as(p, q, session[p][q], "ContactResponse", answer)
           out == send_packet(p, endpoint[p][q], pkt)
<1>1. /\ store' = [store EXCEPT ![p] = decided]
      /\ session' = [session EXCEPT ![p][q] = AfterEncrypt(session[p][q])]
      /\ todo' = [todo EXCEPT ![p] = first \o <<Save(decided)>> \o out]
      /\ UNCHANGED net
  BY DEF Decide, Do
<1>2. ConsentInv /\ ConsentInv' /\ ReplayInv /\ left'["restart"] = 0
  BY DEF Holds
<1>3. store[p] \in Stores /\ endpoint[p][q] \in Addresses
  BY <1>2, PeerFacts
<1>4. removed \in Stores /\ removed.messages = store[p].messages
  BY <1>3, RequestRemoved
<1> HIDE DEF removed
<1>5. decided.messages = store[p].messages
  BY <1>4, TrustMessages
<1> HIDE DEF pkt
<1>6. /\ pkt.source = p /\ pkt.destination = q /\ pkt.counter = session[p][q].send
      /\ pkt.type = "ContactResponse"
      /\ out \in Seq(Bearing({pkt}))
  <2>1. "ContactResponse" \in SealedTypes /\ answer \in Words
    BY DEF SealedTypes, Words
  <2>2. /\ pkt.source = p /\ pkt.destination = q /\ pkt.counter = session[p][q].send
        /\ pkt.type = "ContactResponse" /\ pkt.payload.text = answer
    BY DEF pkt, encrypt_as, WithPayload, Envelope, seal
  <2>3. pkt \in SealedPackets
    BY <1>2, <2>1, Encrypted DEF pkt
  <2>4. out \in Seq(Bearing({pkt}))
    BY <1>2, <1>3, <2>3, SealedBears
  <2> QED BY <2>2, <2>4
<1> HIDE DEF out, decided
<1>7. decided \in Stores
  <2>1. store'[p] \in Stores /\ store'[p] = decided
    BY <1>1, <1>2 DEF ConsentInv, TypeOK
  <2> QED BY <2>1
<1>8. SameHeard
  BY <1>1, <1>2, <1>5, SameMessages
<1>9. Save(removed) \in Bearing({pkt}) /\ Save(decided) \in Bearing({pkt})
  BY <1>4, <1>7, SaveBears
<1>10. first \in Seq(Bearing({pkt})) /\ <<Save(decided)>> \in Seq(Bearing({pkt}))
  <2>1. /\ <<Save(removed)>> \in Seq(Bearing({pkt})) /\ <<Save(decided)>> \in Seq(Bearing({pkt}))
        /\ <<>> \in Seq(Bearing({pkt}))
    BY <1>9, OneStep
  <2> QED BY <2>1
<1> HIDE DEF first
<1>11. first \o <<Save(decided)>> \o out \in Seq(Bearing({pkt}))
  BY <1>6, <1>10, Joined
<1>12. Underway' \subseteq Underway \cup {pkt}
  BY <1>1, <1>2, <1>11, UnderwayCall
<1> QED BY <1>1, <1>2, <1>6, <1>8, <1>12, SealedReplay

LEMMA SendReplay ==
    ASSUME Holds, NEW p \in Peers, NEW q \in Peers, NEW text \in Texts, Send(p, q, text)
    PROVE  ReplayInv'
<1> DEFINE s == append_message(store[p], q, text, TRUE)
           pkt == encrypt_as(p, q, session[p][q], "Message", text)
           out == send_packet(p, endpoint[p][q], pkt)
<1>1. /\ session' = [session EXCEPT ![p][q] = AfterEncrypt(session[p][q])]
      /\ \A m \in submitted : m.text # text
      /\ UNCHANGED net
      /\ \/ UNCHANGED <<store, todo>>
         \/ /\ store' = [store EXCEPT ![p] = s]
            /\ todo' = [todo EXCEPT ![p] = out \o <<Save(store'[p])>>]
  BY DEF Send, Do
<1>2. ConsentInv /\ ConsentInv' /\ ReplayInv /\ left'["restart"] = 0
  BY DEF Holds
<1>3. store[p] \in Stores /\ endpoint[p][q] \in Addresses
  BY <1>2, PeerFacts
<1> HIDE DEF pkt
<1>4. /\ pkt.source = p /\ pkt.destination = q /\ pkt.counter = session[p][q].send
      /\ pkt.payload.text = text
      /\ out \in Seq(Bearing({pkt}))
  <2>1. "Message" \in SealedTypes /\ text \in Words
    BY DEF SealedTypes, Words
  <2>2. /\ pkt.source = p /\ pkt.destination = q /\ pkt.counter = session[p][q].send
        /\ pkt.type = "Message" /\ pkt.payload.text = text
    BY DEF pkt, encrypt_as, WithPayload, Envelope, seal
  <2>3. pkt \in SealedPackets
    BY <1>2, <2>1, Encrypted DEF pkt
  <2>4. out \in Seq(Bearing({pkt}))
    BY <1>2, <1>3, <2>3, SealedBears
  <2> QED BY <2>2, <2>4
<1>5. \A i \in DOMAIN s.messages :
          ~s.messages[i].outgoing => i \in DOMAIN store[p].messages
                                     /\ store[p].messages[i] = s.messages[i]
  <2>1. TRUE \in BOOLEAN
    OBVIOUS
  <2>2. \A i \in DOMAIN s.messages :
            \/ i \in DOMAIN store[p].messages /\ store[p].messages[i] = s.messages[i]
            \/ s.messages[i] = [peer |-> q, text |-> text, outgoing |-> TRUE]
    BY <1>3, <2>1, Appended
  <2> HIDE DEF s
  <2> QED BY <2>2
<1> HIDE DEF s, out
<1>6. SameHeard
  <2>1. CASE store' = [store EXCEPT ![p] = s]
    BY <1>2, <1>5, <2>1, Types DEF SameHeard
  <2> QED BY <1>1, <2>1, SameStores
<1>7. Underway' \subseteq Underway \cup {pkt}
  <2>1. CASE UNCHANGED todo
    BY <1>1, <2>1, UnderwaySame
  <2>2. CASE todo' = [todo EXCEPT ![p] = out \o <<Save(store'[p])>>]
    <3>1. store'[p] \in Stores
      BY <1>2 DEF ConsentInv, TypeOK
    <3>2. <<Save(store'[p])>> \in Seq(Bearing({pkt}))
      BY <3>1, SaveBears, OneStep
    <3>3. out \o <<Save(store'[p])>> \in Seq(Bearing({pkt}))
      BY <1>4, <3>2, Joined
    <3> QED BY <1>1, <1>2, <2>2, <3>3, UnderwayCall
  <2> QED BY <1>1, <2>1, <2>2
<1>8. \A m \in submitted : m.text # pkt.payload.text
  BY <1>1, <1>4
<1>9. session' = [session EXCEPT ![p][q] = AfterEncrypt(session[p][q])]
  BY <1>1
<1> QED BY <1>2, <1>4, <1>6, <1>7, <1>8, <1>9, SealedReplay

\* Calls that neither encrypt nor decrypt.
LEMMA UnsealedReplay ==
    ASSUME Holds, NEW p \in Peers, NEW t, todo' = [todo EXCEPT ![p] = t],
           \A k \in DOMAIN t : t[k].op = "send" => t[k].datagram.pkt.type = "Hello",
           net' \subseteq net, SameHeard, UNCHANGED session
    PROVE  ReplayInv'
<1>1. Underway' \subseteq Underway
  BY UnsealedCall DEF Holds
<1> QED BY <1>1, StillReplay DEF Holds

LEMMA SavingReplay ==
    ASSUME Holds, NEW p \in Peers, NEW q \in Peers,
           (\E addr : AddPeer(p, q, addr)) \/ SetNickname(p, q)
    PROVE  ReplayInv'
<1> DEFINE s == IF SetNickname(p, q) THEN set_nickname(store[p], q)
                                     ELSE set_trust(store[p], q, "Accepted")
           t == <<Save(store'[p])>>
<1>1. /\ store' = [store EXCEPT ![p] = s]
      /\ todo' = [todo EXCEPT ![p] = t]
      /\ UNCHANGED <<session, net>>
  BY DEF AddPeer, SetNickname, Do
<1>2. store[p] \in Stores
  BY Types DEF Holds
<1>3. s.messages = store[p].messages
  BY <1>2, TrustMessages DEF set_nickname
<1> HIDE DEF s
<1>4. SameHeard
  BY <1>1, <1>3, SameMessages DEF Holds
<1>5. \A k \in DOMAIN t : t[k].op = "send" => t[k].datagram.pkt.type = "Hello"
  BY DEF Save
<1> HIDE DEF t
<1> QED BY <1>1, <1>4, <1>5, UnsealedReplay

LEMMA ConnectToReplay ==
    ASSUME Holds, NEW p \in Peers, NEW q \in Peers, NEW addr, ConnectTo(p, q, addr)
    PROVE  ReplayInv'
<1> DEFINE t == ProbeStarted(p, q, addr)
<1>1. todo' = [todo EXCEPT ![p] = t] /\ UNCHANGED <<store, session, net>>
  BY DEF ConnectTo, Do
<1>2. \A k \in DOMAIN t : t[k].op = "send" => t[k].datagram.pkt.type = "Hello"
  BY HelloSends DEF ProbeStarted
<1> HIDE DEF t
<1> QED BY <1>1, <1>2, SameStores, UnsealedReplay

LEMMA AnnounceReplay ==
    ASSUME Holds, NEW p \in Peers, Announce(p)
    PROVE  ReplayInv'
<1> DEFINE t == <<[op |-> "send", datagram |-> Announcement(Addr(p), p)]>>
<1>1. todo' = [todo EXCEPT ![p] = t] /\ UNCHANGED <<store, session, net>>
  BY DEF Announce, Do, memory
<1>2. \A k \in DOMAIN t : t[k].op = "send" => t[k].datagram.pkt.type = "Hello"
  BY DEF Announcement, Datagram, Hello
<1> HIDE DEF t
<1> QED BY <1>1, <1>2, SameStores, UnsealedReplay

LEMMA TickReplay ==
    ASSUME Holds, NEW p \in Peers, Tick(p)
    PROVE  ReplayInv'
<1>1. PICK due \in SUBSET Punching(p) : \E order \in Orders(due) :
          todo' = [todo EXCEPT ![p] = [i \in DOMAIN order |->
                 SendTo(p, probe[p][order[i]].candidate, Hello(p, order[i]))]]
  BY DEF Tick, Do
<1>2. PICK order \in Orders(due) :
          todo' = [todo EXCEPT ![p] = [i \in DOMAIN order |->
                 SendTo(p, probe[p][order[i]].candidate, Hello(p, order[i]))]]
  BY <1>1
<1> DEFINE t == [i \in DOMAIN order |->
                    SendTo(p, probe[p][order[i]].candidate, Hello(p, order[i]))]
<1>3. UNCHANGED <<store, session, net>>
  BY DEF Tick
<1>4. \A k \in DOMAIN t : t[k].op = "send" => t[k].datagram.pkt.type = "Hello"
  BY DEF SendTo, Datagram, Hello
<1>5. todo' = [todo EXCEPT ![p] = t]
  BY <1>2
<1> HIDE DEF t
<1> QED BY <1>3, <1>4, <1>5, SameStores, UnsealedReplay
-----------------------------------------------------------------------------
(* Counters and replays: poll *)

LEMMA PollUnsealedReplay ==
    ASSUME Holds, NEW p \in Peers, NEW d \in net,
           PollHello(p, d) \/ PollConnect(p, d) \/ PollDropped(p, d)
    PROVE  ReplayInv'
<1> DEFINE q == d.pkt.source
           reply == ProbeReply(p, q, d.from)
           start == ProbeStarted(p, q, d.pkt.endpoint)
<1>1. ConsentInv /\ ReplayInv /\ left'["restart"] = 0
  BY DEF Holds
<1>2. Receive(p, d)
  BY DEF PollHello, PollConnect, PollDropped
<1>3. net' \subseteq net
  BY <1>1, <1>2, ReceiveFacts
<1>4. UNCHANGED <<store, session>>
  BY DEF PollHello, PollConnect, PollDropped, memory
<1>5. SameHeard
  BY <1>4, SameStores
<1>6. \/ UNCHANGED todo
      \/ todo' = [todo EXCEPT ![p] = reply]
      \/ todo' = [todo EXCEPT ![p] = start]
  BY DEF PollHello, PollConnect, PollDropped, Do
<1>7. /\ \A k \in DOMAIN reply : reply[k].op = "send" => reply[k].datagram.pkt.type = "Hello"
      /\ \A k \in DOMAIN start : start[k].op = "send" => start[k].datagram.pkt.type = "Hello"
  BY HelloSends DEF ProbeReply, ProbeStarted
<1> HIDE DEF reply, start
<1>8. CASE UNCHANGED todo
  <2>1. Underway' \subseteq Underway
    BY <1>3, <1>8, UnderwaySame
  <2> QED BY <1>1, <1>4, <1>5, <2>1, StillReplay
<1>9. CASE todo' = [todo EXCEPT ![p] = reply]
  BY <1>3, <1>4, <1>5, <1>7, <1>9, UnsealedReplay
<1>10. CASE todo' = [todo EXCEPT ![p] = start]
  BY <1>3, <1>4, <1>5, <1>7, <1>10, UnsealedReplay
<1> QED BY <1>6, <1>8, <1>9, <1>10

\* What decrypting a packet tells of it.
LEMMA OpenedUnderway ==
    ASSUME Holds, NEW p \in Peers, NEW d \in net, d.pkt.type \in SealedTypes,
           Receive(p, d), Opened(p, d)
    PROVE  LET q == d.pkt.source IN
           /\ d.pkt \in Underway /\ q \in Peers /\ d.pkt.destination = p
           /\ FreshCounter(session[p][q], d.pkt.counter)
           /\ session' = [session EXCEPT ![p][q] = AfterDecrypt(session[p][q], d.pkt)]
           /\ net' \subseteq net
<1>1. ConsentInv
  BY DEF Holds
<1>2. d.pkt \in Underway
  BY DEF Underway
<1>3. d.pkt.source \in Peers
  BY <1>1, InFlight
<1>4. net' \subseteq net
  BY <1>1, ReceiveFacts
<1> QED BY <1>2, <1>3, <1>4 DEF Opened, CanDecrypt

\* A packet is opened that is not a message.
LEMMA OpenedSame ==
    ASSUME Holds, NEW p \in Peers, NEW d \in net, d.pkt.type \in SealedTypes,
           Receive(p, d), Opened(p, d), SameHeard,
           \/ UNCHANGED todo
           \/ \E t : /\ todo' = [todo EXCEPT ![p] = t]
                     /\ \A k \in DOMAIN t : t[k].op # "send"
    PROVE  ReplayInv'
<1> DEFINE q == d.pkt.source
           pkt == d.pkt
<1>1. ConsentInv /\ ConsentInv' /\ ReplayInv /\ left'["restart"] = 0
  BY DEF Holds
<1>2. /\ pkt \in Underway /\ q \in Peers /\ pkt.destination = p /\ pkt.source = q
      /\ FreshCounter(session[p][q], pkt.counter)
      /\ session' = [session EXCEPT ![p][q] = AfterDecrypt(session[p][q], pkt)]
      /\ net' \subseteq net
  BY OpenedUnderway
<1> HIDE DEF q, pkt
<1>3. Underway' \subseteq Underway
  <2>1. CASE UNCHANGED todo
    BY <1>2, <2>1, UnderwaySame
  <2>2. ASSUME NEW t, todo' = [todo EXCEPT ![p] = t], \A k \in DOMAIN t : t[k].op # "send"
        PROVE  Underway' \subseteq Underway
    <3>1. \A k \in DOMAIN t : t[k].op = "send" => t[k].datagram.pkt.type = "Hello"
      BY <2>2
    <3>2. todo' = [todo EXCEPT ![p] = t]
      BY <2>2
    <3>3. ConsentInv /\ ConsentInv' /\ net' \subseteq net
      BY <1>1, <1>2
    <3> QED BY <3>1, <3>2, <3>3, UnsealedCall
  <2> QED BY <2>1, <2>2
<1> QED BY <1>1, <1>2, <1>3, OpenedReplay

LEMMA PollMessageReplay ==
    ASSUME Holds, NEW p \in Peers, NEW d \in net, PollMessage(p, d)
    PROVE  ReplayInv'
<1> DEFINE q == d.pkt.source
           pkt == d.pkt
           text == d.pkt.payload.text
           s == append_message(store[p], q, text, FALSE)
           t == <<Save(store'[p]), Notify("message", q, text)>>
<1>1. /\ pkt.type = "Message" /\ Receive(p, d) /\ Opened(p, d)
      /\ store' = [store EXCEPT ![p] = s]
      /\ todo' = [todo EXCEPT ![p] = t]
  BY DEF PollMessage, MessageEffects, Do
<1>2. ConsentInv /\ ConsentInv' /\ ReplayInv /\ left'["restart"] = 0
  BY DEF Holds
<1>3. pkt.type \in SealedTypes
  BY <1>1 DEF SealedTypes
<1>4. /\ pkt \in Underway /\ q \in Peers /\ pkt.destination = p /\ pkt.source = q
      /\ FreshCounter(session[p][q], pkt.counter)
      /\ session' = [session EXCEPT ![p][q] = AfterDecrypt(session[p][q], pkt)]
      /\ net' \subseteq net
  BY <1>1, <1>3, OpenedUnderway
<1>5. text \in Texts /\ pkt.payload.text = text
  <2>1. Meant(did, submitted, pkt)
    BY <1>2, InFlight
  <2>2. [from |-> q, to |-> p, text |-> text] \in submitted
    BY <1>1, <1>4, <2>1 DEF Meant
  <2>3. [from |-> q, to |-> p, text |-> text] \in Submissions
    BY <1>2, <2>2 DEF ConsentInv, TypeOK
  <2> QED BY <2>3 DEF Submissions
<1>6. \A k \in DOMAIN t : t[k].op # "send"
  BY DEF Save, Notify
<1> HIDE DEF q, pkt, text, t
<1>7. Underway' \subseteq Underway
  BY <1>1, <1>2, <1>4, <1>6, UnsealedCall
<1>8. store[p] \in Stores
  BY <1>2, Types
<1>9. \A i \in DOMAIN s.messages :
          \/ i \in DOMAIN store[p].messages /\ store[p].messages[i] = s.messages[i]
          \/ /\ i = Len(store[p].messages) + 1
             /\ s.messages[i] = [peer |-> q, text |-> text, outgoing |-> FALSE]
  <2>1. FALSE \in BOOLEAN
    OBVIOUS
  <2> QED BY <1>4, <1>5, <1>8, <2>1, Appended
<1> HIDE DEF s
<1>10. store'[p] = s /\ \A r \in Peers \ {p} : store'[r] = store[r]
  BY <1>1, <1>2, Types
<1>11. \A r \in Peers : \A i \in DOMAIN store'[r].messages :
          \/ ~store'[r].messages[i].outgoing =>
                 /\ i \in DOMAIN store[r].messages
                 /\ store[r].messages[i] = store'[r].messages[i]
          \/ /\ r = p /\ i = Len(store[p].messages) + 1
             /\ store'[p].messages[i] = [peer |-> q, text |-> pkt.payload.text, outgoing |-> FALSE]
  BY <1>5, <1>9, <1>10
<1>12. pkt.type = "Message"
  BY <1>1
<1>13. OneHeard(p, q, pkt)
  BY <1>11, <1>12 DEF OneHeard
<1> QED BY <1>2, <1>4, <1>7, <1>13, OpenedReplay

LEMMA PollRequestReplay ==
    ASSUME Holds, NEW p \in Peers, NEW d \in net, PollRequest(p, d)
    PROVE  ReplayInv'
<1> DEFINE q == d.pkt.source
           pending == set_trust(store[p], q, "Pending")
           asked == add_request(pending, q)
           t == <<Save(pending), Save(asked), Notify("request", q, "hello")>>
<1>1. d.pkt.type \in SealedTypes /\ Receive(p, d) /\ Opened(p, d)
  BY DEF PollRequest, SealedTypes
<1>2. \/ UNCHANGED <<store, todo>>
      \/ store' = [store EXCEPT ![p] = asked] /\ todo' = [todo EXCEPT ![p] = t]
  BY DEF PollRequest, RequestEffects, Do
<1>3. ConsentInv
  BY DEF Holds
<1>4. \A k \in DOMAIN t : t[k].op # "send"
  BY DEF Save, Notify
<1>5. SameHeard
  <2>1. store[p] \in Stores /\ q \in Peers
    BY <1>3, Types, InFlight
  <2>2. pending.messages = store[p].messages
    BY <2>1, TrustMessages
  <2>3. pending \in Stores
    BY <2>1, TrustSet DEF TrustStatus
  <2> HIDE DEF pending
  <2>4. asked.messages = store[p].messages
    BY <2>2, <2>3 DEF add_request, Stores
  <2> HIDE DEF asked
  <2>5. CASE store' = [store EXCEPT ![p] = asked]
    BY <1>3, <2>4, <2>5, SameMessages
  <2> QED BY <1>2, <2>5, SameStores
<1> HIDE DEF t
<1> QED BY <1>1, <1>2, <1>4, <1>5, OpenedSame

LEMMA PollResponseReplay ==
    ASSUME Holds, NEW p \in Peers, NEW d \in net, PollResponse(p, d)
    PROVE  ReplayInv'
<1> DEFINE q == d.pkt.source
           answer == d.pkt.payload.text
           s == set_trust(store[p], q, DecisionTrust(answer))
           t == <<Save(store'[p]), Notify("response", q, answer)>>
<1>1. d.pkt.type \in SealedTypes /\ Receive(p, d) /\ Opened(p, d)
  BY DEF PollResponse, SealedTypes
<1>2. \/ UNCHANGED <<store, todo>>
      \/ store' = [store EXCEPT ![p] = s] /\ todo' = [todo EXCEPT ![p] = t]
  BY DEF PollResponse, Do
<1>3. ConsentInv
  BY DEF Holds
<1>4. \A k \in DOMAIN t : t[k].op # "send"
  BY DEF Save, Notify
<1>5. SameHeard
  <2>1. store[p] \in Stores
    BY <1>3, Types
  <2>2. s.messages = store[p].messages
    BY <2>1, TrustMessages
  <2> HIDE DEF s
  <2>3. CASE store' = [store EXCEPT ![p] = s]
    BY <1>3, <2>2, <2>3, SameMessages
  <2> QED BY <1>2, <2>3, SameStores
<1> HIDE DEF t
<1> QED BY <1>1, <1>2, <1>4, <1>5, OpenedSame
-----------------------------------------------------------------------------
(* Counters and replays: effects, the relay and the network *)

\* A call's next effect takes its packet from the call to the network.
LEMMA EffectReplay ==
    ASSUME Holds, NEW p \in Peers, Effect(p)
    PROVE  ReplayInv'
<1> DEFINE e == Head(todo[p])
<1>1. /\ todo[p] # <<>> /\ todo' = [todo EXCEPT ![p] = Tail(todo[p])]
      /\ UNCHANGED <<store, session>>
  BY DEF Effect, memory
<1>2. ConsentInv /\ ReplayInv /\ left'["restart"] = 0
  BY DEF Holds
<1>3. todo \in [Peers -> Seq(Steps)] /\ todo[p] \in Seq(Steps)
  BY <1>2 DEF ConsentInv, TypeOK
<1>4. /\ 1 \in DOMAIN todo[p] /\ e = todo[p][1]
      /\ \A i \in DOMAIN Tail(todo[p]) :
            i + 1 \in DOMAIN todo[p] /\ Tail(todo[p])[i] = todo[p][i + 1]
  BY <1>1, <1>3
<1>5. \A r \in Peers : Sends(r)' \subseteq Sends(r)
  <2> SUFFICES ASSUME NEW r \in Peers, NEW k \in Sends(r)' PROVE k \in Sends(r)
    OBVIOUS
  <2>1. CASE r = p
    <3>1. PICK i \in DOMAIN Tail(todo[p]) :
              Tail(todo[p])[i].op = "send" /\ k = Tail(todo[p])[i].datagram.pkt
      BY <1>1, <1>3, <2>1 DEF Sends
    <3>2. i + 1 \in DOMAIN todo[p] /\ todo[p][i + 1].op = "send"
          /\ k = todo[p][i + 1].datagram.pkt
      BY <1>4, <3>1
    <3> QED BY <2>1, <3>2 DEF Sends
  <2>2. CASE r # p
    BY <1>1, <1>3, <2>2 DEF Sends
  <2> QED BY <2>1, <2>2
<1>6. net' \subseteq net \/ (e.op = "send" /\ net' = net \cup {e.datagram})
  BY DEF Effect, EffectSave, EffectSend, EffectNotify
<1>7. e.op = "send" => e.datagram.pkt \in Sends(p)
  BY <1>4 DEF Sends
<1> HIDE DEF e
<1>8. Underway' \subseteq Underway
  BY <1>5, <1>6, <1>7 DEF Underway
<1>9. SameHeard
  BY <1>1, SameStores
<1> QED BY <1>1, <1>2, <1>8, <1>9, StillReplay

\* The relay passes the packet on as it is.
LEMMA RelayHandleReplay ==
    ASSUME Holds, NEW d \in net, RelayHandle(d)
    PROVE  ReplayInv'
<1>1. UNCHANGED <<store, session, todo>>
  BY DEF RelayHandle, memory
<1>2. \A c \in net' : \E b \in net : c.pkt = b.pkt
  BY DEF RelayHandle, Datagram
<1>3. \A r \in Peers : Sends(r)' = Sends(r)
  BY <1>1 DEF Sends
<1>4. Underway' \subseteq Underway
  BY <1>2, <1>3 DEF Underway
<1>5. SameHeard
  BY <1>1, SameStores
<1>6. ReplayInv /\ left'["restart"] = 0
  BY DEF Holds
<1> QED BY <1>1, <1>4, <1>5, <1>6, StillReplay

LEMMA NetworkReplay ==
    ASSUME Holds, UNCHANGED <<store, session, todo>>,
           \A d \in net' \ net : d.pkt.type \notin SealedTypes
    PROVE  ReplayInv'
<1>1. \A r \in Peers : Sends(r)' = Sends(r)
  BY DEF Sends
<1>2. Underway' \subseteq Underway
  BY <1>1 DEF Underway
<1>3. SameHeard
  BY SameStores
<1>4. ReplayInv /\ left'["restart"] = 0
  BY DEF Holds
<1> QED BY <1>2, <1>3, <1>4, StillReplay

-----------------------------------------------------------------------------
(* Counters and replays: all steps *)

LEMMA InitReplay == Init /\ left["restart"] = 0 => ConsentInv /\ ReplayInv
<1> SUFFICES ASSUME Init, left["restart"] = 0 PROVE ReplayInv
  BY InitConsent
<1>1. \A p, q \in Peers : session[p][q].have = FALSE
  BY DEF Init, FreshSession
<1>2. \A p \in Peers : DOMAIN store[p].messages = {}
  BY DEF Init, EmptyStore
<1>3. Underway = {}
  <2>1. \A d \in net : d.pkt.type = "Hello"
    BY DEF Init, Announcement, Datagram, Hello
  <2>2. \A p \in Peers : Sends(p) = {}
    BY DEF Init, Sends
  <2> QED BY <2>1, <2>2 DEF Underway, SealedTypes
<1> QED BY <1>1, <1>2, <1>3 DEF ReplayInv, CountersInStep, CountersUsedUp, OneCounterEach,
                                RecordedIsStale, RecordedOnce

LEMMA ApiCallReplay ==
    ASSUME Holds, NEW p \in Peers, ApiCall(p)
    PROVE  ReplayInv'
<1>1. PICK q \in Peers :
          \/ \E addr \in Reachable(p) : SendContactRequest(p, q, addr)
          \/ AcceptContact(p, q)
          \/ RejectContact(p, q)
          \/ \E text \in Texts : Send(p, q, text)
          \/ \E addr \in Reachable(p) : AddPeer(p, q, addr)
          \/ SetNickname(p, q)
          \/ \E addr \in Found(p) : ConnectTo(p, q, addr)
  BY DEF ApiCall
<1>2. Reachable(p) \subseteq Addresses
  <2>1. ConsentInv
    BY DEF Holds
  <2> QED BY <2>1, FoundType
<1>3. CASE \E addr \in Reachable(p) : SendContactRequest(p, q, addr)
  BY <1>2, <1>3, SendContactRequestReplay
<1>4. CASE AcceptContact(p, q)
  BY <1>4, DecideReplay DEF AcceptContact
<1>5. CASE RejectContact(p, q)
  BY <1>5, DecideReplay DEF RejectContact
<1>6. CASE \E text \in Texts : Send(p, q, text)
  BY <1>6, SendReplay
<1>7. CASE \E addr \in Reachable(p) : AddPeer(p, q, addr)
  BY <1>7, SavingReplay
<1>8. CASE SetNickname(p, q)
  BY <1>8, SavingReplay
<1>9. CASE \E addr \in Found(p) : ConnectTo(p, q, addr)
  BY <1>9, ConnectToReplay
<1> QED BY <1>1, <1>3, <1>4, <1>5, <1>6, <1>7, <1>8, <1>9

LEMMA NextReplay == ConsentInv /\ ReplayInv /\ [Next]_vars => ConsentInv' /\ ReplayInv'
<1> SUFFICES ASSUME ConsentInv, ReplayInv, [Next]_vars PROVE ReplayInv'
  BY NextConsent
<1>1. Holds
  <2>1. ConsentInv'
    BY NextConsent
  <2>2. left["restart"] = 0 /\ "restart" \in Events
    BY DEF ReplayInv, Events
  <2>3. left'["restart"] = 0
    BY <2>2, NoneLeft
  <2> QED BY <2>1, <2>3 DEF Holds
<1>2. CASE \E p \in Peers : ApiCall(p)
  BY <1>1, <1>2, ApiCallReplay
<1>3. CASE \E p \in Peers : Announce(p)
  BY <1>1, <1>3, AnnounceReplay
<1>4. CASE \E p \in Peers : Tick(p)
  BY <1>1, <1>4, TickReplay
<1>5. CASE \E p \in Peers, d \in net : Poll(p, d)
  BY <1>1, <1>5, PollUnsealedReplay, PollMessageReplay, PollRequestReplay, PollResponseReplay
  DEF Poll
<1>6. CASE \E p \in Peers : Effect(p)
  BY <1>1, <1>6, EffectReplay
<1>7. CASE \E p \in Peers : Restart(p)
  BY <1>7 DEF Restart, Spend, ReplayInv
<1>8. CASE \E d \in net : RelayHandle(d)
  BY <1>1, <1>8, RelayHandleReplay
<1>9. CASE \E q \in Peers : RelayExpire(q)
  <2>1. UNCHANGED <<store, session, todo, net>>
    BY <1>9 DEF RelayExpire, memory
  <2> QED BY <1>1, <2>1, NetworkReplay
<1>10. CASE \E d \in net : Lose(d)
  <2>1. UNCHANGED <<store, session, todo>> /\ net' \subseteq net
    BY <1>10 DEF Lose, memory
  <2> QED BY <1>1, <2>1, NetworkReplay
<1>11. CASE \E p, q \in Peers : \E addr \in AddrsOf(p) \cup {NoAddr} : Advertise(p, q, addr)
  <2>1. UNCHANGED <<store, session, todo>> /\ \A d \in net' \ net : d.pkt.type = "Connect"
    BY <1>11 DEF Advertise, memory, Datagram, Connect
  <2>2. \A d \in net' \ net : d.pkt.type \notin SealedTypes
    BY <2>1 DEF SealedTypes
  <2> QED BY <1>1, <2>1, <2>2, NetworkReplay
<1>12. CASE UNCHANGED vars
  <2>1. UNCHANGED <<store, session, todo, net>>
    BY <1>12 DEF vars, memory
  <2> QED BY <1>1, <2>1, NetworkReplay
<1> QED
  BY <1>2, <1>3, <1>4, <1>5, <1>6, <1>7, <1>8, <1>9, <1>10, <1>11, <1>12 DEF Next

\* Every packet in flight or about to be sent has a counter its sender has used
\* up, a message travels under one counter, and what is left of a message that
\* was recorded is seen to be a replay (Session::encrypt_as, Session::decrypt).
THEOREM CopiesAreStale == SteadySpec => []ReplayInv
BY InitReplay, NextReplay, PTL DEF SteadySpec

\* A receiver never runs ahead of its peer, so that the next packet the peer
\* sends is not taken for a replay (Session::decrypt; restarts break this).
THEOREM CountersAgree == SteadySpec => []CountersInStep
<1>1. ReplayInv => CountersInStep
  BY DEF ReplayInv
<1> QED BY <1>1, InitReplay, NextReplay, PTL DEF SteadySpec

\* No message is recorded twice, whatever the network repeats, delays or passes on
\* through the relay as well (the replay check in Session::decrypt and
\* handle_message's append).
THEOREM NoDuplicates == SteadySpec => []RecordedOnce
<1>1. ReplayInv => RecordedOnce
  BY DEF ReplayInv
<1> QED BY <1>1, InitReplay, NextReplay, PTL DEF SteadySpec
=============================================================================

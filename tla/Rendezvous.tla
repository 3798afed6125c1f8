------------------------------ MODULE Rendezvous ------------------------------
(***************************************************************************)
(* The signaling client of one peer, `self` (libs/net/src/                 *)
(* signaling_client.cpp), and the signaling server, over a network that    *)
(* loses, delays, repeats and reorders.  The calls block: a call sends a    *)
(* request, takes datagrams off the socket it shares with the messaging     *)
(* engine until one has the type it expects, throws the others away, and    *)
(* starts again when its time is up.  Between calls the engine polls the    *)
(* socket.                                                                  *)
(*                                                                         *)
(* What can go wrong is counted in `faults`.  A call runs into its time-out *)
(* for free when nothing is on its way any more; a time-out that comes too  *)
(* early, because a datagram is late, is a fault like a lost one.           *)
(***************************************************************************)
EXTENDS SignalingServer, Bags

CONSTANTS
    self,
    SelfAddress,    \* the address the server sees self at
    Attempts,       \* kDefaultAttempts
    MaxCalls,       \* bound: calls of the client
    MaxFaults,      \* bound: faults of the network and of the socket
    MaxForeign      \* bound: challenges for, and CONNECTs from, the other peers

ASSUME RendezvousAssumption ==
    /\ self \in Peers /\ SelfAddress \in Addresses
    /\ Attempts \in Nat \ {0} /\ MaxCalls \in Nat /\ MaxFaults \in Nat /\ MaxForeign \in Nat

VARIABLES
    call,             \* the call that is running, and how far it is
    answer,           \* what the last call returned
    public_endpoint,  \* public_endpoint_: at most one address
    up,               \* datagrams on their way to the server
    down,             \* datagrams on their way to, or queued at, self's socket
    calls,            \* calls made
    faults,           \* faults so far
    forwarded         \* history: CONNECTs the server passed on to self

client == <<call, answer, public_endpoint, calls>>
allVars == <<vars, client, up, down, faults, forwarded>>

Others == Peers \ {self}
NoCall == [op |-> "none"]
Datagram(type, body) == [type |-> type, body |-> body]

RendezvousInit ==
    /\ Init
    /\ call = NoCall /\ answer = NoCall
    /\ public_endpoint = Empty
    /\ up = EmptyBag /\ down = EmptyBag
    /\ calls = 0 /\ faults = 0 /\ forwarded = 0

Without(bag, d) == bag (-) SetToBag({d})
With(bag, d) == bag (+) SetToBag({d})

GoesWrong == faults < MaxFaults /\ faults' = faults + 1

-----------------------------------------------------------------------------
(* The calls *)

\* Fault: the last attempt is never made.
OneAttemptLess(op) == IF op = "heartbeat" THEN 1 ELSE Attempts - 1

AttemptsOf(op) == IF op = "heartbeat" THEN 1 ELSE Attempts

\* Fault: the lookup names the asking peer.
RequestAboutSelf ==
    IF call.stage = "answer" THEN Datagram("Signed", call.challenge)
    ELSE CASE call.op = "register"  -> Datagram("Register", Empty)
           [] call.op = "discover"  -> Datagram("Discover", self)
           [] call.op = "heartbeat" -> Datagram("Heartbeat", Empty)

\* What the running call sends next.
Request ==
    IF call.stage = "answer" THEN Datagram("Signed", call.challenge)
    ELSE CASE call.op = "register"  -> Datagram("Register", Empty)
           [] call.op = "discover"  -> Datagram("Discover", call.target)
           [] call.op = "heartbeat" -> Datagram("Heartbeat", Empty)

\* The type the call waits for once that is sent.
Expected ==
    IF call.stage = "answer" THEN "Ack"
    ELSE CASE call.op = "register"  -> "Hello"
           [] call.op = "discover"  -> "Connect"
           [] call.op = "heartbeat" -> "Heartbeat"

Begin(op, target) ==
    /\ call = NoCall
    /\ calls < MaxCalls
    /\ calls' = calls + 1
    /\ call' = [op |-> op, target |-> target, attempt |-> 1, stage |-> "request",
                challenge |-> NoChallenge, sent |-> FALSE]
    /\ answer' = NoCall
    /\ UNCHANGED <<vars, public_endpoint, up, down, faults, forwarded>>

Return(result) == call' = NoCall /\ answer' = result

\* The next attempt of the loop, from its start; false after the last one.
Retry ==
    \/ /\ call.attempt < AttemptsOf(call.op)
       /\ call' = [call EXCEPT !.attempt = @ + 1, !.stage = "request", !.sent = FALSE]
       /\ UNCHANGED answer
    \/ /\ call.attempt = AttemptsOf(call.op)
       /\ Return([op |-> call.op, target |-> call.target, ok |-> FALSE])

\* send() hands the datagram to the socket, which may refuse it.
Send ==
    /\ call # NoCall /\ ~call.sent
    /\ \/ /\ up' = With(up, Request)
          /\ call' = [call EXCEPT !.sent = TRUE]
          /\ UNCHANGED <<answer, faults>>
       \/ Retry /\ GoesWrong /\ UNCHANGED up
    /\ UNCHANGED <<vars, public_endpoint, calls, down, forwarded>>

Waiting == call # NoCall /\ call.sent

\* What the awaited packet d makes of the call.
Proceed(d) ==
    \/ /\ Expected = "Hello"
       /\ call' = [call EXCEPT !.stage = "answer", !.challenge = d.body, !.sent = FALSE]
       /\ UNCHANGED <<answer, public_endpoint>>
    \/ /\ Expected = "Ack"
       /\ public_endpoint' = {d.body}
       /\ Return([op |-> "register", ok |-> TRUE])
    \/ /\ Expected = "Connect"
       /\ Return([op |-> "discover", target |-> call.target, ok |-> TRUE,
                  source |-> d.body.source, endpoint |-> d.body.endpoint])
       /\ UNCHANGED public_endpoint
    \/ /\ Expected = "Heartbeat"
       /\ Return([op |-> "heartbeat", ok |-> TRUE])
       /\ UNCHANGED public_endpoint

\* Fault: an answer to the signed challenge is not looked at.
AnythingAcknowledges(d) == d.type = Expected \/ Expected = "Ack"

\* await_packet looks at the type of a packet only.
IsExpected(d) == d.type = Expected

Receive(d) ==
    /\ Waiting
    /\ BagIn(d, down)
    /\ down' = Without(down, d)
    /\ \/ IsExpected(d) /\ Proceed(d)
       \/ ~IsExpected(d) /\ UNCHANGED <<call, answer, public_endpoint>>
    /\ UNCHANGED <<vars, calls, up, faults, forwarded>>

TimeOut ==
    /\ Waiting
    /\ \/ up = EmptyBag /\ down = EmptyBag /\ UNCHANGED faults
       \/ (up # EmptyBag \/ down # EmptyBag) /\ GoesWrong
    /\ Retry
    /\ UNCHANGED <<vars, public_endpoint, calls, up, down, forwarded>>

\* send_connect and disconnect wait for nothing.
Notify(d) ==
    /\ call = NoCall
    /\ calls < MaxCalls
    /\ calls' = calls + 1
    /\ up' = With(up, d)
    /\ UNCHANGED <<vars, call, answer, public_endpoint, down, faults, forwarded>>

send_connect(q) == public_endpoint # Empty /\ Notify(Datagram("Connect", q))
disconnect == Notify(Datagram("Disconnect", Empty))

\* The engine's poll() takes what comes between calls.
Poll(d) ==
    /\ call = NoCall
    /\ BagIn(d, down)
    /\ down' = Without(down, d)
    /\ UNCHANGED <<vars, client, up, faults, forwarded>>

-----------------------------------------------------------------------------
(* The server and the network *)

\* What the server's step sends to self's socket.
Replies == SetToBag({Datagram(out'[i].type, out'[i].body) :
                        i \in {j \in DOMAIN out' : out'[j].to = SelfAddress}})

HandleOf(d) ==
    \/ d.type = "Register" /\ HandleRegister(self, SelfAddress)
    \/ d.type = "Signed" /\ HandleSigned(self, SelfAddress, d.body)
    \/ d.type = "Discover" /\ HandleDiscover(d.body, SelfAddress)
    \/ d.type = "Connect" /\ HandleConnect(self, d.body, SelfAddress)
    \/ d.type = "Heartbeat" /\ HandleHeartbeat(self, SelfAddress)
    \/ d.type = "Disconnect" /\ HandleDisconnect(self)

ServerReceive(d) ==
    /\ BagIn(d, up)
    /\ HandleOf(d)
    /\ up' = Without(up, d)
    /\ down' = down (+) Replies
    /\ UNCHANGED <<client, faults, forwarded>>

\* The other peers use the server too; they ask self to connect.
OtherPeer(q, from) ==
    /\ \/ /\ Len(SelectSeq(issued, LAMBDA i : i.peer # self)) < MaxForeign
          /\ HandleRegister(q, from)
          /\ UNCHANGED forwarded
       \/ \E c \in Signable(q) : HandleSigned(q, from, c) /\ UNCHANGED forwarded
       \/ forwarded < MaxForeign /\ HandleConnect(q, self, from) /\ forwarded' = forwarded + 1
    /\ down' = down (+) Replies
    /\ UNCHANGED <<client, up, faults>>

\* The server's loop goes round; the clock stands still, for what happens here
\* takes seconds and the server's tables keep their entries for longer.
ServerLoop == (Idle \/ Sample) /\ UNCHANGED <<client, up, down, faults, forwarded>>

ServerDies ==
    /\ ServerRestart
    /\ GoesWrong
    /\ UNCHANGED <<client, up, down, forwarded>>

Lose(d) ==
    /\ GoesWrong
    /\ \/ BagIn(d, up) /\ up' = Without(up, d) /\ UNCHANGED down
       \/ BagIn(d, down) /\ down' = Without(down, d) /\ UNCHANGED up
    /\ UNCHANGED <<vars, client, forwarded>>

Repeat(d) ==
    /\ GoesWrong
    /\ \/ BagIn(d, up) /\ up' = With(up, d) /\ UNCHANGED down
       \/ BagIn(d, down) /\ down' = With(down, d) /\ UNCHANGED up
    /\ UNCHANGED <<vars, client, forwarded>>

\* A hole-punch probe of another peer's engine is a HELLO as well.
Probe ==
    /\ GoesWrong
    /\ down' = With(down, Datagram("Hello", NoChallenge))
    /\ UNCHANGED <<vars, client, up, forwarded>>

RendezvousNext ==
    \/ \E op \in {"register", "heartbeat"} : Begin(op, self)
    \/ \E q \in Others : Begin("discover", q) \/ send_connect(q)
    \/ disconnect
    \/ Send
    \/ TimeOut
    \/ \E d \in BagToSet(down) : Receive(d) \/ Poll(d)
    \/ \E d \in BagToSet(up) : ServerReceive(d)
    \/ \E q \in Others, from \in Addresses \ {SelfAddress} : OtherPeer(q, from)
    \/ ServerLoop
    \/ ServerDies
    \/ \E d \in BagToSet(up) \cup BagToSet(down) : Lose(d) \/ Repeat(d)
    \/ Probe

RendezvousSpec == RendezvousInit /\ [][RendezvousNext]_allVars

-----------------------------------------------------------------------------
(* Properties *)

\* register_self returns true only when the server has taken a proof of self's
\* at the address the client then advertises, whatever was late or repeated.
TrueMeansProven ==
    answer.op = "register" /\ answer.ok =>
        \E i \in DOMAIN proofs :
            proofs[i].peer = self /\ proofs[i].endpoint \in public_endpoint

\* register_self survives any one loss, delay, repetition, refused send, stray
\* probe or restart of the server: it gives up only after two of them.  One
\* late challenge costs two attempts, because signing it spends the fresh one.
LossTolerated ==
    answer.op = "register" /\ ~answer.ok => faults >= 2

\* discover's answer is about the peer that was asked for, unless a CONNECT of
\* another peer was passed on to self or an earlier answer came late: the
\* source of the packet is not compared.
FoundIsExplained ==
    answer.op = "discover" /\ answer.ok /\ answer.source # answer.target =>
        forwarded > 0 \/ faults > 0

-----------------------------------------------------------------------------
(* Strengthening that makes TrueMeansProven and FoundIsExplained inductive *)

Proven == \E i \in DOMAIN proofs : proofs[i].peer = self /\ proofs[i].endpoint = SelfAddress

\* What self's client puts on its way, and what comes back.
Asked ==
    [type : {"Register", "Heartbeat", "Disconnect"}, body : {Empty}]
    \cup [type : {"Signed"}, body : Signable(self)]
    \cup [type : {"Discover", "Connect"}, body : Others]

Found == [source : Peers, endpoint : SUBSET Addresses]
Told ==
    [type : {"Hello"}, body : Signable(self)]
    \cup [type : {"Ack"}, body : IF Proven THEN {SelfAddress} ELSE {}]
    \cup [type : {"Connect"}, body : Found]
    \cup [type : {"Heartbeat"}, body : {Empty}]

Calls ==
    {c \in [op : {"register", "discover", "heartbeat"}, target : Peers, attempt : Nat,
            stage : {"request", "answer"}, challenge : Signable(self), sent : BOOLEAN] :
        c.op = "discover" => c.target \in Others /\ c.stage = "request"}

\* An address is public, and a registration has succeeded, only once proven.
PublicIsProven ==
    /\ public_endpoint \subseteq {SelfAddress}
    /\ public_endpoint # Empty => Proven
    /\ answer.op = "register" /\ answer.ok => public_endpoint # Empty

\* The server knows the others at addresses that are not self's.
OthersElsewhere == \A q \in Others : Online(q) => registry[q].endpoint # SelfAddress

\* The running lookup is waiting for news of q.
LookingFor(q) == call.op = "discover" /\ call.sent /\ call.target = q

\* When nothing went wrong and nobody asked self to connect, a lookup and its
\* answer are never on their way at once, nor without the call that waits.
OneLookup ==
    faults = 0 /\ forwarded = 0 =>
        /\ \A d \in BagToSet(up) : d.type = "Discover" =>
              /\ LookingFor(d.body) /\ up[d] = 1
              /\ \A e \in BagToSet(down) : e.type # "Connect"
        /\ \A d \in BagToSet(down) : d.type = "Connect" =>
              /\ LookingFor(d.body.source) /\ down[d] = 1
              /\ \A e \in BagToSet(down) : e.type = "Connect" => e = d

\* Inductive, with the server's IInv.
RendezvousInv ==
    /\ call \in Calls \cup {NoCall}
    /\ faults \in Nat /\ forwarded \in Nat
    /\ BagToSet(up) \subseteq Asked
    /\ BagToSet(down) \subseteq Told
    /\ PublicIsProven
    /\ OthersElsewhere
    /\ OneLookup
    /\ FoundIsExplained

-----------------------------------------------------------------------------
(* Strengthening that makes LossTolerated inductive *)

IsHandshake(d) == d.type \in {"Register", "Signed", "Hello", "Ack"}
Handshakes(bag) == {d \in BagToSet(bag) : IsHandshake(d)}

\* The only handshake datagram in the bag is d, once.
Sole(bag, d) == Handshakes(bag) = {d} /\ bag[d] = 1

Quiet == Handshakes(up) = {} /\ Handshakes(down) = {}

\* The server would take self's signature of c.
Awaited(c) ==
    pending[self].active /\ pending[self].challenge = c /\ pending[self].endpoint = SelfAddress

\* The running attempt to register gets through if nothing goes wrong: nothing is
\* on its way but its own request or the answer to that.
OnTrack ==
    /\ ~call.sent => Quiet /\ (call.stage = "answer" => Awaited(call.challenge))
    /\ call.sent =>
          \/ /\ Sole(up, Request) /\ Handshakes(down) = {}
             /\ call.stage = "answer" => Awaited(call.challenge)
          \/ /\ Handshakes(up) = {}
             /\ \E d \in Told :
                   /\ Sole(down, d) /\ IsExpected(d)
                   /\ call.stage = "request" => Awaited(d.body)

\* The first fault costs an attempt, and what it leaves behind may cost the next
\* one; after that, nothing of it is left.
FirstFault ==
    /\ call.op = "register" /\ faults = 0 => call.attempt = 1 /\ OnTrack
    /\ call.op = "register" /\ faults = 1 =>
          call.attempt <= 3 /\ (call.attempt = 3 => OnTrack)
    /\ call.op # "register" /\ faults = 0 => Quiet

\* Inductive, with RendezvousInv and the server's IInv.
ToleranceInv ==
    /\ clock = 0 /\ now = 0
    /\ call.op \in {"discover", "heartbeat"} => call.stage = "request"
    /\ FirstFault
    /\ LossTolerated
=============================================================================

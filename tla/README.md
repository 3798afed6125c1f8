# OpenMesh Messenger: TLA+ verification project

This directory models the protocol core of OpenMesh Messenger, checks the models
with TLC on small instances and proves theorems about them with TLAPS. Paths are
relative to the repository.

## 1. The system

OpenMesh Messenger is a peer-to-peer messenger. A peer is an Ed25519 key pair. Peers
find each other through a signaling server, talk directly over UDP where hole
punching works, through a relay where it does not, and keep contacts, requests and
conversations in an encrypted file.

| part | state | operations | talks to |
|---|---|---|---|
| session (`libs/messaging/src/session.cpp`) | shared key, send counter, last counter received | `encrypt_as`, `decrypt` | called by the engine |
| engine (`libs/messaging/src/engine.cpp`) | sessions, endpoints, probes, incoming and outgoing requests | `send_contact_request`, `accept_contact`, `reject_contact`, `send`, `add_peer`, `set_nickname`, `connect`, `tick`, `announce_to`, `poll`, `open_store` | store, UDP socket, callbacks of the client |
| store (`libs/storage/src/store.cpp`, `blob.cpp`) | contacts with a trust status, messages, pending requests; one file | `open`, `upsert`, `append_message`, `add_request`, `remove_request`, each followed by `save` | the file system |
| signaling server (`servers/signaling/src`) | registry, pending challenges | REGISTER (two steps), DISCOVER, CONNECT, HEARTBEAT, DISCONNECT, expiry | datagrams |
| relay server (`servers/relay/src`) | route table | learn, forward, expire | datagrams |
| signaling client (`libs/net/src/signaling_client.cpp`) | public endpoint; retry loops | `register_self`, `discover`, `send_connect`, `heartbeat`, `disconnect` | shares the engine's socket |
| clients (`cli/src/main.cpp`, `tui.cpp`) | aliases, command queue, snapshot, selection, renewal timers | commands and keys on the main thread; a network thread that executes them, polls, ticks and renews | engine, signaling client |
| identity file (`libs/storage/src/identity_store.cpp`) | one file | `save_identity`, `load_identity` | called by `main` before the store is opened |
| packet codec (`libs/protocol/src/packet.cpp`) | none | `serialize`, `parse`, `associated_data` | everybody |
| crypto, core, graphical client, tools | none or a placeholder | | |

What is hard here: every exchange is a single unacknowledged datagram; a call of the
engine saves, sends and calls back in several steps and the process may end between
any two; counters and outgoing requests live in memory while trust and the shared
key outlive the process; four parties (two peers, signaling, relay) each keep an idea
of where a peer is; the servers decide with a clock they read before they waited; the
signaling client waits on a socket that also brings the engine's datagrams; two threads
share a queue, an engine and a flag to stop. `PROJECT.json` lists these hazards at their lines, each with the properties
that would catch it going wrong.

## 2. The modules

| module | models |
|---|---|
| `Session` | a session as a value: `encrypt_as`, `decrypt`, the replay check, what the associated data covers |
| `OrderedChannel` | abstract: an ordered channel per pair of peers that may lose items |
| `SessionLink` | sessions over a network that loses, repeats, reorders and damages packets; implements `OrderedChannel` |
| `SessionLink_proof` | its theorems |
| `Engine` | every peer's engine and store, the relay, the network |
| `EngineProperties` | what the engine promises |
| `Engine_proof` | its theorems, in four parts: types and consent; what the application is told lasts, through restarts; where traffic goes and which paths are confirmed; pending contacts, counters and repetitions while nobody restarts |
| `SignalingServer` | the signaling server's loop, handlers and expiry |
| `Rendezvous` | the signaling client's calls, with their attempts and time-outs, composed with `SignalingServer` over an unreliable network |
| `Signaling_proof` | the theorems about the server and about the composition |
| `Presence` | the clients' renewal timers against the two servers' times to live |
| `Presence_proof` | its theorems |
| `ClientThreads` | what the two faces of om-chat share: two threads, the queue, the flag, the engine as its callers see it |
| `LineClient`, `Terminal` | the line-based client with its commands and names; the full-screen client with its snapshot, selection and keys |
| `OmChat` | om-chat: one or the other, with the fairness of its threads |
| `OmChat_proof` | its theorems |
| `ByteFormat` | the big-endian numbers, length-prefixed fields and the bounds-checked reader that packets and files share |
| `ByteFormat_proof` | lemmas: what is written is read back, what is read is written in one way only |
| `PacketCodec` | `serialize`, `parse` and `associated_data` over a network that cuts, extends and changes datagrams |
| `PacketCodec_proof` | its theorems |
| `StoreFile` | the identity and store files: bytes, seal, passphrase, start of a client, saves and their failures |
| `StoreFile_proof` | its theorems |
| `MCSessionLink`, `MCEngine`, `MCSignaling`, `MCRendezvous`, `MCPresence`, `MCOmChat`, `MCPacketCodec`, `MCStoreFile` | instances for TLC |

Operators whose comment begins with "Fault" are plausible bugs of the definition that
follows them. Nothing uses them; they are put in its place to see that a property
notices.

### How the state corresponds to the code

**Session.** `send`, `have`, `last` are `send_counter_`, `have_received_`,
`last_received_`. The cipher is external: a sealed payload is the record of key, text
and associated data, and opens exactly under the same key and data. Both ends derive
the same key, so it is the set of the two peers. Counters are natural numbers (64 bits
in the code), bounded by `MaxCounter` in `SessionLink`.

**Engine.** `store[p]` is `contacts_` in memory: `trust` ("none" for no contact),
`requests`, `messages`. `disk[p]` is the file, `torn` the peers whose file cannot be
read, `detached` those that run with `persistent_` false. `incoming`, `outgoing`,
`session`, `endpoint`, `probe` are the members of that name; a missing entry of a map
is `NoAddr`, `NoProbe` or a fresh session. `route` is the relay's table.

The engine is single-threaded, so an action is a whole API call or a whole `poll()`.
It changes memory at once and puts what the outside can see (file writes, datagrams,
callbacks) into `todo[p]` in the code's order. `Effect` performs them one at a time,
no other call starts before `todo` is empty, and `Restart` may come at any point and
drops the rest. This is where a crash between two saves, or between a send and a save,
appears. `Restart` reloads the file, re-surfaces its requests, forgets the rest and,
for a relay user, announces the new address. A client ignores a failed `open_store`;
so does `Restart`, which then runs on an empty store that is never saved.

An address is a peer and a port; a peer outside `FixedPorts` gets a new port at each
start, as the clients do (they bind port 0). `net` is a set: datagrams may overtake
each other, `Lose` drops one, `Receive` may leave a copy. The relay is
`RelayHandle` and `RelayExpire`. The signaling server appears as `Advertise`: it
forwards a CONNECT, or its answer to a lookup arrives after the lookup gave up and
`poll()` gets it. What a lookup gives a client (`Found`) is an address some other peer has or
had, and not always the peer's that was looked up: `discover` takes the next CONNECT that arrives
for its answer (`Rendezvous` models how that happens). The client passes it to
`send_contact_request`, `add_peer` and `connect` all the same.

Left out of `Engine`: nicknames, greetings, timestamps and last-seen times (no decision
depends on them; the two saves that differ only in the nickname are one); malformed
packets and keys, on which `poll()` returns before it changes anything; the interval of
`tick` (any nonempty set of unfinished probes may be due); `Blocked`, which nothing sets.

`did`, `submitted` and `shown` are history variables: the users' decisions, the
messages `send()` took, the callbacks made.

**SignalingServer.** `registry` and `pending` are `peers_` and `pending_`. `now` is the
sample `run()` takes before it waits, `clock` the true time, which advances only while
the server waits, by at most `PollWindow`. Every handler ends in `Finish`, the `expire`
that ends `run_once`. Packets are not kept in a network: any packet a peer can have
sent may arrive at any time from any address, which covers every delay, repetition and
reordering. A signature is the challenge it was made for. Packets without an identity
and REGISTERs with a payload of another length have no effect and are part of `Idle`.

**Rendezvous.** `call` is the call that is running: which one, the attempt of its loop, the
half of the handshake, the challenge it signs, and whether its request is out. `Send`,
`Receive` and `TimeOut` are `send()`, one round of `await_packet` and its deadline;
`Retry` is the `continue` of the loops. `up` and `down` are bags of datagrams between
`self` and the server. While a call runs, what is not of the expected type is thrown away;
between calls the engine's `poll()` takes it. Every server step is an action of
`SignalingServer`, and what it sends to `SelfAddress` goes into `down`. The other peers
register and send CONNECTs. An ACK's or CONNECT's text is the address it spells. The clock
stands still: the calls take seconds, the server's tables keep entries for 30 and 120.

**Presence.** Time is kept as ages. `since` is the age of `last_heartbeat` and
`last_announce`, `lag` the age of the reading of the clock a server's `run()` took before it
waited, `age` that of the entry's `last_seen`. `Timers` is the end of a round of the client's
loop, `Deliver` and `Idle` a round of a server's. `Delay` counts from the reading of the
clock to the arrival, so that it includes the wait behind a heartbeat without an answer.

**ClientThreads, LineClient, Terminal, OmChat.** `ui` and `net` are the program counters of
the main and the network thread; a step ends where the other thread may come in: at the
queue's mutex, at `mtx_`, at `running_`, at a blocking read. `queue`, `batch`, `running` are
`queue_`, the deque it is swapped with, and `running_`. The engine is reduced to what the
clients ask of it: trust, pending and outgoing requests and the time of the newest message.
A client may start with contacts accepted earlier, from the store; the names of the line client are
not stored, and `name_of` shows such a peer under the start of its key. `stored`, the peers the
store had, is a history variable.
In `Terminal`, `mtx_` is held by the network thread exactly while `net = "exec"`. The main
thread reads `running_` and then waits for `mtx_`, so it may draw once more after the flag is
cleared. A word typed before Enter is one key. `typed`, `handled` and `drawn` are history
variables.

**PacketCodec, StoreFile.** Bytes are numbers below `Base` and integers have `U16`, `U32`
or `U64` of them, so that two-valued bytes and two-byte lengths reach every carry and
every boundary; nothing in the code depends on the real widths. A cast to a narrower
integer is the remainder `put_uint` takes. Writers and readers are written apart, as in
the code: the reader's cursor keeps what is left and the value read last, and stays failed.
A loop of the code is a recursive function from the number of its rounds to the state after
them (`Shifted`, `Values`, `PutElements`, `ReadElements`, `Without`).

In `PacketCodec` a packet is serialized, changed up to `MaxHarm` times one byte at a
time, and parsed; `out` is the receiver's packet and `result` what `parse` returned.
`Session` takes the associated data for the record of the envelope's fields;
`EnvelopeBound` is what entitles it to.

In `StoreFile` a file is its header (magic, version, salt) and a sealed plaintext, which
opens under the key of its passphrase and salt and with the header as associated data.
`phase` follows `main`: the identity is loaded, or created and saved; then the store is
opened; then it runs. A mutation and its `save` are one action, since a crash in
between leaves the file as it was. `save` has three outcomes: the file is replaced, the
write fails, or the short file replaces the good one. Strings and lists have any length: what
does not fit is written with the low bytes of its length or count, as `put_uint` does, and read
as whatever the bytes then say. `Fits` says which stores can be written. `written` (the file and
the value it was made from) and `misread` (a file whose value did not fit was loaded as another
store) are history variables. Timestamps are not negative. A file is also removed, damaged or
put in the other's place.

## 3. The runs

Bounds: `MaxCounter`, `MaxDamaged` in `SessionLink`; `Budgets`, sets of scenarios with one
number per kind of event a user, the network or a crash decides on, and `MaxProbes` in
`Engine`; `MaxClock`, `MaxChallenges`, `MaxRestarts` in `SignalingServer`; `MaxCalls`,
`MaxFaults`, `MaxForeign` in `Rendezvous`; `MaxLosses` in `Presence`, which is not only a
bound (see there); `MaxLines`, `MaxEvents` in `OmChat`; `MaxHarm` in `PacketCodec`;
`MaxMessages`, `MaxSalts` (files created), `MaxFaults`, `MaxHarm` in `StoreFile`. What the
code does in answer to an event is never bounded.

Why they are enough: two peers, where an engine's state about a peer is touched only by
that peer's packets and calls about it (a damaged envelope of `SessionLink` may name either).
Addresses are different, since a wrong lookup gives one peer's for another's: `failures` has
three peers, two of them with a relay, and symmetry between those two.
Scenarios are apart because the questions differ: `contacts` needs two restarts, `failures`
one of everything. Three changes of a datagram move the boundary between two fields and keep
it well-formed. In `rendezvous` two calls let the answer of the first reach the second, and
two faults are one more than registering promises to survive. In `om_chat` two commands are
in one batch or in two, two contacts change places in the list, and one event falls
between any two steps; the user may give a peer's name to the other peer, and the start of
one's key to the other. In `files` one contact's nickname is one byte too long, and its length
is written as zero. `presence` has the code's own numbers in units of five seconds.
Deadlock is checked in `rendezvous` and `presence`; elsewhere users may stop and budgets run
out.

| run | shows | distinct states |
|---|---|---|
| `session_link` | accepted counters strictly increase; what is decrypted was encrypted, under that counter and type; refinement of `OrderedChannel` | 11 thousand |
| `contacts` | a request is surfaced at most once and then stays answerable until it is answered, and a message that was shown is on disk, with two restarts inside any call, on disks that do not fail (`SavingSpec`) | 0.2 million |
| `failures` | with a loss, a repetition, a restart, a failed save and a forgotten route in one behaviour: contacts and recorded messages have both users' consent (with the inductive invariant of the proof); with lookups that give anybody's address, a direct path is confirmed only to an address of the peer, where it stays until the user calls, and only if the peer takes part | 763 thousand |
| `steady` | while nobody restarts and nothing is lost: a Pending contact can be resolved, no message is recorded twice, counters stay in step; liveness: an acceptance reaches the requester through the relay, and a path confirmed on one side is confirmed on both | 0.1 million |
| `signaling` | registered peers answered a challenge, issued to them at that address and not too long ago; no challenge counts twice; a peer is listed no longer than its time to live and two poll windows after it was last heard of | 1893 thousand |
| `rendezvous` | `register_self` returns true only if the server took a proof, at the address the client then advertises; it gives up only after two faults; a lookup's answer is about another peer only if a CONNECT was forwarded or an answer came late | 3.7 million |
| `presence` | a client whose loop runs is never forgotten by a server that runs, with two heartbeats or one announcement lost in a row; the relay has its route again soon after a restart | 0.1 million |
| `om_chat` | commands are handled in order and once, and only the last ones typed can be lost; a message or an answer reaches the peer that was drawn as selected; the name a peer is shown under leads back to it, or nowhere if only the store knows the peer; liveness: commands are handled and the program ends | 0.45 million |
| `packets` | a datagram that arrives unchanged gives the packet that was sent; a datagram that is accepted is the only serialization of the packet it gives; no beginning of one is accepted; two envelopes never have the same associated data | 205 thousand |
| `files` | an intact file, legacy or current, loads as what was in memory when it was saved if and only if everything in it fits; unless a file that does not fit was misread: every mutation is saved unless a write failed; nothing but the file last written at a path opens; keys stay unique; a client that could not read the file never replaces the history in it | 413 thousand |

Two of these say less than one might hope. `LossTolerated` needs two faults, and two can be
enough: a late challenge is signed in place of the fresh one, whose pending entry the server
then erases (`server.cpp:96`), so one delayed datagram costs two of the three attempts.
`FoundIsExplained` has no conclusion for a client that was sent a CONNECT: `discover` does
not compare the source of the packet with the peer it asked for (`signaling_client.cpp:107`).

Two runs end in a violation. Each states what a comment or a document says of the
code and shows a behaviour of the code that breaks it; `PROJECT.json` quotes the line.

| run | what the behaviour shows |
|---|---|
| `crossing` | two requests that cross are both ignored, and neither user is asked |
| `selection` | a message that arrives for another chat puts that chat under the cursor, and Enter sends there |

Other departures from the documents that came up while modelling, and that follow
from a line or two without a model:

- `handle_contact_request` saves the Pending contact before the request (`engine.cpp:362`)
  and `accept_contact` the removal of the request before the trust (`engine.cpp:247`). A
  process that ends in between leaves a Pending contact that can neither be answered nor
  ask again, although `engine.cpp:184` re-surfaces requests "so they can still be accepted".
  `PendingIsAnswerable` is therefore part of `steady` only; one restart breaks it.
- A restarted sender counts from 0 while the receiver remembers its last counter
  (`session.cpp:51`): its packets are refused until it has sent more than before.
  `engine.hpp:55` says that sessions are "re-established after a restart". `CountersInStep`
  is part of `steady` only for the same reason.
- A restarted receiver has forgotten the last counter while the shared key is the same
  (`session.cpp:51`): a datagram the network repeats is recorded again, although
  `docs/protocol/wire-format.md:119` asks for replay protection.
- `connect()` to a peer with a confirmed direct path puts the relay in its place and does
  not probe again (`engine.cpp:95`), while `has_direct_path` still says true.
- No caller limits a nickname (`tui.cpp:207`), and a length is cast to 16 bits (`blob.hpp:47`):
  a longer one is saved without an error and makes the store, with all its history, unreadable
  or readable as another one. `FileHoldsSaved` says that this is the only case.
- A lookup may give somebody else's address (`signaling_client.cpp:107`), and both clients use it
  (`main.cpp:299`, `tui.cpp:209`): a request or message then goes to the wrong socket, where it
  is not decrypted, and nothing tells the user. `DirectPathIsPeers` says that such an address is
  at least never confirmed as a direct path.
- The line client shows the messages of a peer that only the store knows under the first eight
  digits of its key (`main.cpp:216`), and `resolve` does not take them (`main.cpp:233`): "/msg"
  with the name on the screen is refused until the peer is added or asks again.
  `ShownNameResolves` states this exception and shows that there is no other.
- `set_nickname` for an unknown peer creates a Pending contact (`engine.cpp:174`), whose
  own request is then ignored as known.
- The answer to a request is sent once and never again (`engine.cpp:249`); if it is lost,
  one side is Accepted and the other Pending for good. The same holds of the one
  reply to a probe (`engine.cpp:130`).
- `outgoing_requests_` is not persisted (`engine.cpp:232`): an answer that arrives after
  a restart is taken for an unsolicited one.
- `send` transmits before it saves (`engine.cpp:275`): a message may be delivered and
  missing in the sender's own history.
- `write_blob` checks the stream before it is closed (`blob.cpp:66`): a short file can
  replace a good one.
- A heartbeat re-points a registry entry to its sender's address (`server.cpp:137`) with
  no challenge, and is echoed to a peer that has no entry (`server.cpp:140`). After a restart
  of the signaling server, or a late DISCONNECT, the client is not listed and nothing tells
  it; only `/register` helps. The relay has no such gap (`RouteComesBack`).
- What `await_packet` discards (`signaling_client.cpp:62`) is lost to the engine: a request or
  message that arrives during a heartbeat. The header says so.
- Lines still queued when the input ends are never handled (`main.cpp:515`), while
  `cli/README.md:5` offers line mode for scripting. `HandledAsTyped` says that they are the
  last ones.
- "/quit" with more on the line stops the network thread only; the main thread waits for
  another line (`main.cpp:508`). `Stops` leaves this case out.
- The terminal client's `/add` names the peer before it looks it up (`tui.cpp:207`). For a
  peer that is offline this makes a Pending contact, whose own request is then ignored.
- The status line is written without the lock that its comment names (`tui.cpp:546`).

**Fairness.** `FairSpec` (`steady`) assumes that a peer whose socket holds a
datagram eventually takes one, that a call that began ends, that probes that are due
are sent, and that the relay serves. The clients' loop justifies it: it calls `poll`
and `tick` in every round for as long as the program runs. Weak fairness of "take
some datagram" is enough since every datagram taken leaves the network, up to the
bounded number of copies. Nothing is assumed of users, of the network or of restarts.
The budgets of losses and restarts are zero: the code has no retransmission, and the
properties are false otherwise. `ChatSpec` (`om_chat`) assumes weak fairness of each of the
two threads, which is what an operating system gives them. `getch()` returns after 120 ms
without a key, so the main thread of the terminal client needs no user; `getline()` does
wait, and nothing is assumed of the user.

## 4. What is proved

For every value of the constants, with TLAPS:

**`SessionLink_proof`** (any peers, texts and bounds). `NoReplay`, `Authenticity`, and
`Refinement` of `OrderedChannel`. The invariant `IInv` adds to the two properties what
makes them inductive: a payload sealed in the network records the item that was sent
under its counter (`SealedWasSent`), and a receiver's `have` and `last` summarise the
counters it accepted. Without the first, `Authentic` says nothing of the next packet;
without the second, the replay check says nothing of the earlier ones. The refinement
maps a decrypt to the channel's delivery of the item at that counter, dropping those it
skips.

**`Engine_proof`** (any finite set of peers, any texts, relay users, fixed ports and
budgets). `TypeCorrect`, `Consent` (`AcceptedByBoth`) and `ReceivedAreConsented`
(`ReceivedWithConsent`). Neither is inductive: an answer in flight, a save not yet
performed, a file from before a failed save and a re-surfaced request all turn into
trust later. `ConsentInv` therefore types every place where a decision can be on its
way by what the users did: `MeantStores` for memory, file and pending saves,
`MeantDatagrams` for the network and pending sends, and the two request tables. These
sets grow with the histories `did` and `submitted` (`StoresGrow`, `DatagramsGrow`,
`StepsGrow`), so what an action leaves alone stays accounted for (`LeftAlone`); there
is one lemma per action for what it changes. `Accounted` is the invariant itself.

*Paths* (the same constants; lookups give any peer's address). `DirectPaths`
(`DirectPathIsPeers`) and `Mutual` (`ConfirmedIsMutual`). Nothing can be said of an endpoint that
a lookup gave. A confirmed path is different: it is the source address of a probe, so what has
to be shown is where datagrams come from. In `PathInv` every datagram in flight or in `todo` is
`Traceable`: it comes from an address of its source or, unless it is a probe, from the relay or
the signaling server, and a probe is one that the source's own hole punch accounts for, unless
it restarted. A probe that a wrong address leads to a third peer names another destination there
and is dropped. `PathsKnown` adds that routes lead to their peers, that no probe aims at the
relay, and that a confirmed path has an endpoint. `PeersAssumption` says that a peer is not one of the
names that stand for the relay, the server or nothing.

*What the application is told* (the same constants, `SavingSpec`). `OneRequest`
(`SurfacedOnce`), `StaysAnswerable` (`SurfacedIsAnswerable`), `StaysRecorded`
(`ShownIsRecorded`). A call changes memory at once and saves and calls back later, and a
restart may drop any rest of it. `NoticeInv` therefore says of each callback, made or
still in `todo`, that what it tells `Lasts`: it holds in memory, it holds in the file or a
save before the callback puts it there, and no later save takes it out. Any beginning of
`todo` keeps this, which is what a restart needs. `SavingSpec` has no failed saves, in any
number of restarts: the engine ignores the result of a save, and a callback whose save
failed is forgotten by the next start. The three properties are false otherwise.

*While nobody restarts* (the same constants, `SteadySpec`; losses, repetitions, failed saves and
forgotten routes are unbounded). `Awaited` (`PendingIsAwaited`), `Answerable`
(`PendingIsAnswerable`), `CountersAgree` (`CountersInStep`), `NoDuplicates` (`RecordedOnce`).
`AwaitInv` adds that a peer that was asked is a contact. `ReplayInv` follows a message through
the network: a counter under way was used up by its sender, all copies of a message have the
same counter, and that of a recorded message is no longer fresh. Section 3 says how a restart
breaks each of the four. `Answerable` also excludes `set_nickname`, which makes a Pending
contact of a peer that never asked; the budgets of `steady` do so too.

**`Signaling_proof`** (any peers, addresses, times to live and poll windows). Of the server:
`Soundness`, `SingleUse`, `Provenance`, `Freshness`. `IInv` adds that a pending challenge
was issued to that peer at that address and was never used (`PendingIsUnused`), that
the sample of the clock is at most a poll window old (`SampleIsRecent`), and that the
entries left by the last expiry were heard of within the time to live before it
(`EntriesSurvived`): the two poll windows of `EntryIsFresh` are the age of the sample
and the round that is answered before it expires.

Of the composition (any number of attempts, calls, faults and foreign registrations):
`ServerWithin` shows that `RendezvousSpec` implements the server's `Spec`, so that the four
theorems above hold of it: nothing the client's retries do is a step the server's
specification lacks. `SuccessIsProven` (`TrueMeansProven`) and `AnswersTheQuestion`
(`FoundIsExplained`) rest on `RendezvousInv`, which types the two bags of datagrams by what has
happened: an ACK is on its way only if the server took a proof of `self` at its address, and as
long as nothing went wrong and no CONNECT was forwarded, a lookup or its answer is on its way
once, and only for the call that waits for it (`OneLookup`).

`SurvivesOneFault` (`LossTolerated`, for three attempts or more, as in `kDefaultAttempts`). What
has to be shown is that one fault never costs more than two attempts. `ToleranceInv` says so
state by state: before any fault a registration is in its first attempt and on track
(`OnTrack`: the next step of the handshake is under way, or the call is about to send it); after
one fault it is in its third attempt at most, and if it is in the third it is on track again, with
nothing late left that could spoil it. With two attempts the property is false.

**`OmChat_proof`** (any contacts, names, lines and bounds, both clients). `InOrder`
(`HandledAsTyped`), `ReachesTheDrawn` (`ActsOnDrawn`), `NamesLeadBack` (`ShownNameResolves`).
`ChatInv` adds that what was handled, the batch and the queue together are what was typed
(`NothingSkipped`), that between drawing and a key the selection is what was drawn, and that a
command aimed at a peer carries the key that was drawn at that time (`AimIsKept`): the order
of the list may change before the network thread executes it. `NamesAreKnown` relates the two
maps to what the user typed: a name leads to a peer it was given to or whose key starts with it,
the name of a peer leads somewhere, and a peer without a name is one the engine has heard nothing
from, or one of the store's. `LineAssumption` says what `add` lines consist of and that the name
for nobody is not given to anybody, `ThreadsAssumption` the same of contacts.

**`Presence_proof`** (any periods, times to live, delays, windows and numbers of losses).
`StaysKnown` (`NeverExpires`) and `RouteReturns` (`RouteComesBack`). `IInv` adds that rounds,
waits and flights end in time (`InTime`) and that an entry is no older than the renewals lost
since its `last_seen`, and the one on its way, account for (`AgeIsCovered`): each covers one
interval of the client's timer. Without counting them, nothing relates the client's timers to
the age the server computes. `PresenceAssumption` is the inequality the numbers in the code
must satisfy; 30 against 120 and 20 against 60 seconds do, with two and one losses.

**`ByteFormat_proof`** (any base above 1, any widths). `PutGet` and `GetPut`: a number that fits
is read back from its bytes, and bytes are those of the number they give. These are inductions
over the bytes, as are the loops of the two formats. The library's induction theorems have an
operator as parameter; here an induction is over the set of the numbers at which a formula holds
(`Induction`, from the least number outside it), and a recursive function is unfolded with
`RecursiveForm`, which follows from its definition in the same way.

**`PacketCodec_proof`** (any base and widths, any packets whose fields fit, any number of
changes). `PacketsRoundTrip` (`RoundTrip`), `WireIsCanonical` (`CanonicalWire`), `CutsAreNoticed`
(`NoPrefixAccepted`), `EnvelopeIsBound` (`EnvelopeBound`). `CodecInv` only ties `result` and `out`
to the datagram; the content is in the lemmas about the codec itself, for arbitrary bytes:
`parse` accepts exactly the serializations, and both they and associated data fall into their
fields in one way, because every length is written before its field.

**`StoreFile_proof`** (contacts, messages and requests of any length and number, any identities
that fit, any base and widths, any number of files, failed writes and restarts). With any number
of harmed files: `SavedFilesLoad` (`FileHoldsSaved`). If everything fits, a list comes back from
its count and its elements (`ListBack`), hence a store (`StoreBack`), an identity and a
contacts-only file of an older version (`LegacyBack`), which is not mistaken for a current one
because its first byte is not the version. If something does not fit, the file cannot load as
what was saved, whatever the reader makes of its bytes, since all that `decode` accepts it makes
into a store that fits (`DecodedFits`): what a reader takes is as long as a length that was
written.

With at most one harmed file (`MaxHarm <= 1`): `OnlyTheWrittenOpens` (`OpensOnlyWritten`) and, as
long as nothing was misread, `EntriesAreUnique` (`OneEntryPerKey`), `AutosaveKeepsUp`
(`MutationsAreSaved`), `HistorySurvives` (`HistoryOnlyGrows`). `Guarded` adds that a
file is the last one written or opens under no passphrase (`Honest`), and that a process with a
persistent store has in memory at least the messages in the file (`InFile`), which a client that
opens the file needs `Honest` for, and that neither memory nor the last file has two entries for a
key (`Unique`): a load puts one into the other. The assumption is not for convenience: with two, an old store
can be copied away and copied back over its successor. It opens, since a seal does not say that it
is the last one, and `OpensOnlyWritten` is false.

Assumptions: those named above, and `EngineAssumption`, `SignalingAssumption`,
`RendezvousAssumption`, `FormatAssumption`, `PacketAssumption`, `StoreAssumption` and the ones of
`SessionLink`: types of the constants, finitely many peers, at least one attempt, packet fields
(`packet.cpp:23` asserts it) and identity keys whose lengths fit the integers they are written in.
The cipher is assumed in the form of `CanOpen`: a payload opens
only under its key and its associated data. Signatures likewise.

## 5. What is only model-checked

Liveness (`AcceptArrives`, `PathsConverge`, `LineHandled`, `Stops`), which the prover does not do.

Every invariant and action property of a passing run, and the refinement, is stated by a theorem;
those of `StoreFile` that need `MaxHarm <= 1` are checked with one harmed file as well.

## 6. What is not modelled

- Crypto (libsodium, external) and logging.
- The text of endpoints (`parse_endpoint`): an address stands for its text.
- The clients' output: the status line, scrolling, layout, notices and help. The line client's
  `direct_announced_` only keeps a notice from being printed twice.
- Command-line options, host names and socket options.
- `add_contact`, which no program calls, and two clients on one file.
- The graphical client, a placeholder, and the demonstration tools, which call the engine as
  the clients do.
- `stop()` of the servers from a signal handler: a signal that comes before `run()` sets
  `running_` is lost (`servers/relay/src/server.cpp:62`).

## 7. Plan

All components of the plan are modelled and all safety properties are proved. What would be next
is a proof of the four liveness properties, which needs a prover for fairness and `ENABLED`.

------------------------------- MODULE Session -------------------------------
(***************************************************************************)
(* The per-peer encrypted session (libs/messaging/src/session.cpp): one    *)
(* object of class Session per remote peer.  A session is a value, so that *)
(* the engine can keep one per peer; encrypt_as and decrypt are operators  *)
(* on it.                                                                  *)
(*                                                                         *)
(* The AEAD cipher and the key agreement are libsodium's (external).  A    *)
(* sealed payload is the record of what went into it: the key, the         *)
(* plaintext and the associated data; open gives the plaintext back exactly *)
(* when the same key and associated data are presented.  Both ends of a    *)
(* pair derive the same key, so the key of p with q is the set {p, q}.     *)
(***************************************************************************)
EXTENDS Naturals

\* shared_key_, send_counter_, have_received_, last_received_ of a session
\* just constructed from two well-formed keys (valid_ holds).
FreshSession == [send |-> 0, have |-> FALSE, last |-> 0]

SessionState == [send : Nat, have : BOOLEAN, last : Nat]

\* agree_shared_key: symmetric in the two parties.
SharedKey(p, q) == {p, q}

\* associated_data(packet): header and routing fields, never the payload.
associated_data(pkt) ==
    [type |-> pkt.type, encrypted |-> pkt.encrypted, counter |-> pkt.counter,
     source |-> pkt.source, destination |-> pkt.destination]

\* crypto::seal / crypto::open.
seal(key, text, aad) == [key |-> key, text |-> text, aad |-> aad]
CanOpen(key, payload, aad) == payload.key = key /\ payload.aad = aad

Envelope(p, q, type, counter) ==
    [type |-> type, encrypted |-> TRUE, counter |-> counter,
     source |-> p, destination |-> q]

WithPayload(e, payload) ==
    [type |-> e.type, encrypted |-> e.encrypted, counter |-> e.counter,
     source |-> e.source, destination |-> e.destination, payload |-> payload]

\* The packet Session::encrypt_as returns to p talking to q ...
encrypt_as(p, q, s, type, text) ==
    LET e == Envelope(p, q, type, s.send)
    IN  WithPayload(e, seal(SharedKey(p, q), text, e))

\* Fault: the counter stands still.
AfterEncryptStuck(s) == s

\* ... and the session it leaves: the counter moves on whether or not the
\* packet is ever sent.
AfterEncrypt(s) == [s EXCEPT !.send = @ + 1]

\* Faults: equal counters are let through; there is no check at all.
FreshCounterOrEqual(s, counter) == ~s.have \/ counter >= s.last
AnyCounter(s, counter) == TRUE

\* Replay/ordering check: the counter must strictly increase.
FreshCounter(s, counter) == ~s.have \/ counter > s.last

\* Fault: the envelope is not bound to the ciphertext.
CanDecryptUnbound(p, q, s, pkt) ==
    /\ pkt.encrypted
    /\ pkt.source = q /\ pkt.destination = p
    /\ FreshCounter(s, pkt.counter)
    /\ pkt.payload.key = SharedKey(p, q)

\* Session::decrypt of p's session with q succeeds.
CanDecrypt(p, q, s, pkt) ==
    /\ pkt.encrypted
    /\ pkt.source = q /\ pkt.destination = p
    /\ FreshCounter(s, pkt.counter)
    /\ CanOpen(SharedKey(p, q), pkt.payload, associated_data(pkt))

\* The session a successful decrypt leaves; a failed one changes nothing.
AfterDecrypt(s, pkt) == [s EXCEPT !.have = TRUE, !.last = pkt.counter]
=============================================================================

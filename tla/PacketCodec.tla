----------------------------- MODULE PacketCodec ----------------------------
(***************************************************************************)
(* The wire envelope (libs/protocol/src/packet.cpp): serialize, parse and  *)
(* the associated data of the cipher, over a network that cuts, extends    *)
(* and changes datagrams.                                                  *)
(***************************************************************************)
EXTENDS ByteFormat

CONSTANTS kMagic, kProtocolVersion,
          Types, Flags, Counters, Ids, Payloads,   \* what senders put in packets
          MaxHarm                                  \* changes made to a datagram

ASSUME PacketAssumption ==
    /\ kMagic \in 0 .. Limit[U16] - 1
    /\ kProtocolVersion \in Byte
    /\ Types \subseteq Byte /\ Flags \subseteq Byte
    /\ Counters \subseteq 0 .. Limit[U64] - 1
    /\ \A f \in Ids \cup Payloads : f \in Seq(Byte) /\ Len(f) < Limit[U16]
    /\ MaxHarm \in Nat

VARIABLES sent,     \* the packet that was serialized
          wire,     \* the datagram in the network
          harm,     \* how often the network changed it
          result,   \* what parse returned, "none" before the delivery
          out       \* the receiver's Packet variable

vars == <<sent, wire, harm, result, out>>

\* Packets as the senders fill them in.
Packets ==
    [version : {kProtocolVersion}, type : Types, flags : Flags,
     counter : Counters, source : Ids, destination : Ids, payload : Payloads]

\* The default-constructed Packet.
EmptyPacket ==
    [version |-> kProtocolVersion, type |-> 1, flags |-> 0, counter |-> 0,
     source |-> <<>>, destination |-> <<>>, payload |-> <<>>]

kHeaderSize == U16 + 3 + U64

\* put_field; its assertion is the assumption that fields are short enough.
put_field(f) == put_bytes(f)

write_header_and_routing(p) ==
    put_uint(U16, kMagic) \o <<p.version, p.type, p.flags>>
        \o put_uint(U64, p.counter) \o put_field(p.source)
        \o put_field(p.destination)

serialize(p) == write_header_and_routing(p) \o put_field(p.payload)

\* Fault: the associated data without the lengths of its fields.
AssociatedUnframed(p) ==
    put_uint(U16, kMagic) \o <<p.version, p.type, p.flags>>
        \o put_uint(U64, p.counter) \o p.source \o p.destination

associated_data(p) == write_header_and_routing(p)

\* The five numbers of the fixed header.
read_header(bytes) ==
    LET magic   == read_uint(U16, Reader(bytes))
        version == read_uint(1, magic)
        type    == read_uint(1, version)
        flags   == read_uint(1, type)
        counter == read_uint(U64, flags)
    IN  [magic |-> magic.value, version |-> version.value, type |-> type.value,
         flags |-> flags.value, counter |-> counter.value]

\* The three fields behind the header, and the cursor after them.
read_fields(bytes) ==
    LET source      == read_bytes(Reader(SubSeq(bytes, kHeaderSize + 1, Len(bytes))))
        destination == read_bytes(source)
        payload     == read_bytes(destination)
    IN  [source |-> source.value, destination |-> destination.value,
         payload |-> payload.value, end |-> payload]

\* Fault: bytes after the payload are let through.
AcceptTrailing(bytes) ==
    IF Len(bytes) < kHeaderSize THEN "TooShort"
    ELSE IF read_header(bytes).magic # kMagic THEN "BadMagic"
    ELSE IF read_header(bytes).version # kProtocolVersion THEN "UnsupportedVersion"
    ELSE IF ~read_fields(bytes).end.ok THEN "TruncatedField"
    ELSE "Ok"

\* What parse returns: the first check that fails.
parse(bytes) ==
    IF Len(bytes) < kHeaderSize THEN "TooShort"
    ELSE IF read_header(bytes).magic # kMagic THEN "BadMagic"
    ELSE IF read_header(bytes).version # kProtocolVersion THEN "UnsupportedVersion"
    ELSE IF ~read_fields(bytes).end.ok THEN "TruncatedField"
    ELSE IF ~done(read_fields(bytes).end) THEN "TrailingBytes"
    ELSE "Ok"

\* What parse assigns to its out parameter when it returns Ok.
Parsed(bytes) ==
    LET h == read_header(bytes)
        f == read_fields(bytes)
    IN  [version |-> h.version, type |-> h.type, flags |-> h.flags, counter |-> h.counter,
         source |-> f.source, destination |-> f.destination, payload |-> f.payload]

-----------------------------------------------------------------------------
Init ==
    /\ sent \in Packets
    /\ wire = serialize(sent)
    /\ harm = 0
    /\ result = "none"
    /\ out = EmptyPacket

\* The receiver parses what arrives; a refused datagram leaves out alone.
Deliver ==
    /\ result = "none"
    /\ result' = parse(wire)
    /\ out' = IF parse(wire) = "Ok" THEN Parsed(wire) ELSE out
    /\ UNCHANGED <<sent, wire, harm>>

\* Every way to cut, extend or change a datagram by one byte.
Changed(w) ==
    {SubSeq(w, 1, n) : n \in 0 .. Len(w) - 1}
        \cup {Append(w, b) : b \in Byte}
        \cup {[w EXCEPT ![i] = b] : i \in DOMAIN w, b \in Byte}

Harm ==
    /\ result = "none"
    /\ harm < MaxHarm
    /\ harm' = harm + 1
    /\ wire' \in Changed(wire) \ {wire}
    /\ UNCHANGED <<sent, result, out>>

Next == Deliver \/ Harm

Spec == Init /\ [][Next]_vars

-----------------------------------------------------------------------------
\* A datagram that arrives as it was sent gives the packet that was sent.
RoundTrip ==
    harm = 0 /\ result # "none" => result = "Ok" /\ out = sent

\* An accepted datagram, changed or not, is the one serialization of the packet
\* it gives: no two datagrams are read as the same packet.
CanonicalWire == result = "Ok" => serialize(out) = wire

\* Only a fully consumed datagram yields a packet: no beginning of an accepted
\* datagram is accepted, so a datagram that was cut short is noticed.
NoPrefixAccepted ==
    result = "Ok" =>
        \A n \in 0 .. Len(wire) - 1 : parse(SubSeq(wire, 1, n)) # "Ok"

\* The associated data tells any two envelopes apart: if the network changed the
\* header, the source or the destination and the datagram is still accepted,
\* the receiver computes other associated data than the sender sealed with.
EnvelopeBound ==
    result = "Ok" /\ associated_data(out) = associated_data(sent)
        => out = [sent EXCEPT !.payload = out.payload]
=============================================================================

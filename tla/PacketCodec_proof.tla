-------------------------- MODULE PacketCodec_proof --------------------------
(***************************************************************************)
(* Proofs about PacketCodec, for every base and width, every packet whose  *)
(* fields fit their lengths and any number of changes in the network.      *)
(***************************************************************************)
EXTENDS PacketCodec, ByteFormat_proof

-----------------------------------------------------------------------------
(* The datagram as the reader takes it apart *)

\* Packets that serialize may be given: no field is longer than its length says.
Writable ==
    [version : Byte, type : Byte, flags : Byte, counter : 0 .. Limit[U64] - 1,
     source : Strings, destination : Strings, payload : Strings]

\* The fields after the header, and what follows them.
Routed(p, t) ==
    Cat(put_bytes(p.source), Cat(put_bytes(p.destination), Cat(put_bytes(p.payload), t)))

\* The header and what follows it.
Headed(m, p, t) ==
    Cat(put_uint(U16, m), Cat(put_uint(1, p.version), Cat(put_uint(1, p.type),
        Cat(put_uint(1, p.flags), Cat(put_uint(U64, p.counter), t)))))

LEMMA ThreeBytes ==
    ASSUME NEW u \in Byte, NEW v \in Byte, NEW w \in Byte
    PROVE  /\ <<u, v, w>> \in Bytes
           /\ \A t \in Bytes :
                 Cat(<<u, v, w>>, t) = Cat(put_uint(1, u), Cat(put_uint(1, v), Cat(put_uint(1, w), t)))
<1> DEFINE a == <<u>>
           b == <<v>>
           c == <<w>>
<1>1. a = put_uint(1, u) /\ b = put_uint(1, v) /\ c = put_uint(1, w)
  BY OneByte
<1>2. a \in Bytes /\ b \in Bytes /\ c \in Bytes
  BY DEF Bytes
<1>3. Cat(Cat(a, b), c) = <<u, v, w>>
  <2> DEFINE x == a \o b
             y == x \o c
  <2>1. a \in Seq(Byte) /\ b \in Seq(Byte) /\ Len(a) = 1 /\ Len(b) = 1 /\ a[1] = u /\ b[1] = v
    OBVIOUS
  <2>2. c \in Seq(Byte) /\ Len(c) = 1 /\ c[1] = w
    OBVIOUS
  <2>3. Cat(Cat(a, b), c) = y
    BY DEF Cat
  <2> HIDE DEF a, b, c
  <2>4. /\ x \in Seq(Byte) /\ Len(x) = Len(a) + Len(b)
        /\ \A i \in 1 .. Len(a) + Len(b) : x[i] = IF i <= Len(a) THEN a[i] ELSE b[i - Len(a)]
    BY <2>1, ConcatProperties
  <2> HIDE DEF x
  <2>5. x \in Seq(Byte) /\ Len(x) = 2 /\ x[1] = u /\ x[2] = v
    BY <2>1, <2>4
  <2>6. /\ y \in Seq(Byte) /\ Len(y) = Len(x) + Len(c)
        /\ \A i \in 1 .. Len(x) + Len(c) : y[i] = IF i <= Len(x) THEN x[i] ELSE c[i - Len(x)]
    BY <2>2, <2>5, ConcatProperties
  <2> HIDE DEF y
  <2>7. y \in Seq(Byte) /\ Len(y) = 3 /\ y[1] = u /\ y[2] = v /\ y[3] = w
    BY <2>2, <2>5, <2>6
  <2>8. y = <<u, v, w>>
    BY <2>7
  <2> QED BY <2>3, <2>8
<1>4. <<u, v, w>> \in Bytes
  BY DEF Bytes
<1> HIDE DEF a, b, c
<1>5. ASSUME NEW t \in Bytes PROVE Cat(Cat(Cat(a, b), c), t) = Cat(a, Cat(b, Cat(c, t)))
  BY <1>2, CatBytes, CatAssociative
<1> QED BY <1>1, <1>3, <1>4, <1>5

\* What each part of a writable packet is.
LEMMA PartsAreBytes ==
    ASSUME NEW p \in Writable
    PROVE  /\ p.version \in Byte /\ p.type \in Byte /\ p.flags \in Byte
           /\ p.counter \in Nat /\ p.counter < Limit[U64]
           /\ p.source \in Strings /\ p.destination \in Strings /\ p.payload \in Strings
           /\ put_uint(U64, p.counter) \in Bytes /\ put_bytes(p.source) \in Bytes
           /\ put_bytes(p.destination) \in Bytes /\ put_bytes(p.payload) \in Bytes
<1>1. /\ p.version \in Byte /\ p.type \in Byte /\ p.flags \in Byte
      /\ p.counter \in 0 .. Limit[U64] - 1
      /\ p.source \in Strings /\ p.destination \in Strings /\ p.payload \in Strings
  BY DEF Writable
<1>2. p.counter \in Nat /\ p.counter < Limit[U64]
  BY <1>1, LimitPositive, Widths
<1>3. put_uint(U64, p.counter) \in Bytes
  BY <1>2, UintBytes, Widths
<1> QED BY <1>1, <1>2, <1>3, StringBytes

LEMMA MagicFits == kMagic \in Nat /\ kMagic < Limit[U16] /\ put_uint(U16, kMagic) \in Bytes
<1>1. kMagic \in Nat /\ kMagic < Limit[U16]
  BY PacketAssumption, LimitPositive, Widths
<1> QED BY <1>1, UintBytes, Widths

LEMMA SerializeIs ==
    ASSUME NEW p \in Writable, NEW t \in Bytes
    PROVE  /\ serialize(p) \in Bytes
           /\ Routed(p, t) \in Bytes
           /\ Cat(serialize(p), t) = Headed(kMagic, p, Routed(p, t))
<1> DEFINE a == put_uint(U16, kMagic)
           b == <<p.version, p.type, p.flags>>
           c == put_uint(U64, p.counter)
           d == put_bytes(p.source)
           e == put_bytes(p.destination)
           f == put_bytes(p.payload)
<1>1. /\ a \in Bytes /\ b \in Bytes /\ c \in Bytes
      /\ d \in Bytes /\ e \in Bytes /\ f \in Bytes
  BY PartsAreBytes, MagicFits, ThreeBytes
<1>2. serialize(p) = Cat(Cat(Cat(Cat(Cat(a, b), c), d), e), f)
  BY DEF serialize, write_header_and_routing, put_field, Cat
<1>3. Routed(p, t) = Cat(d, Cat(e, Cat(f, t)))
  BY DEF Routed
<1>4. ASSUME NEW x \in Bytes
      PROVE  Cat(b, x) = Cat(put_uint(1, p.version), Cat(put_uint(1, p.type), Cat(put_uint(1, p.flags), x)))
  BY PartsAreBytes, ThreeBytes
<1>5. Headed(kMagic, p, Routed(p, t))
        = Cat(a, Cat(put_uint(1, p.version), Cat(put_uint(1, p.type),
              Cat(put_uint(1, p.flags), Cat(c, Routed(p, t))))))
  BY DEF Headed
<1> HIDE DEF a, b, c, d, e, f
<1>6. Routed(p, t) \in Bytes /\ Cat(c, Routed(p, t)) \in Bytes
  BY <1>1, <1>3, CatBytes
<1>7. Cat(Cat(Cat(Cat(Cat(Cat(a, b), c), d), e), f), t)
         = Cat(a, Cat(b, Cat(c, Cat(d, Cat(e, Cat(f, t))))))
  <2> DEFINE ab == Cat(a, b)
             abc == Cat(ab, c)
             abcd == Cat(abc, d)
             abcde == Cat(abcd, e)
  <2>1. ab \in Bytes /\ abc \in Bytes /\ abcd \in Bytes /\ abcde \in Bytes
    BY <1>1, CatBytes
  <2>2. Cat(f, t) \in Bytes /\ Cat(e, Cat(f, t)) \in Bytes /\ Routed(p, t) \in Bytes
    BY <1>1, <1>3, CatBytes
  <2>3. Cat(Cat(abcde, f), t) = Cat(abcde, Cat(f, t))
    BY <1>1, <2>1, CatAssociative
  <2>4. Cat(Cat(abcd, e), Cat(f, t)) = Cat(abcd, Cat(e, Cat(f, t)))
    BY <1>1, <2>1, <2>2, CatAssociative
  <2>5. Cat(Cat(abc, d), Cat(e, Cat(f, t))) = Cat(abc, Cat(d, Cat(e, Cat(f, t))))
    BY <1>1, <2>1, <2>2, CatAssociative
  <2>6. Cat(Cat(ab, c), Routed(p, t)) = Cat(ab, Cat(c, Routed(p, t)))
    BY <1>1, <2>1, <2>2, CatAssociative
  <2>7. Cat(Cat(a, b), Cat(c, Routed(p, t))) = Cat(a, Cat(b, Cat(c, Routed(p, t))))
    BY <1>1, <1>6, CatAssociative
  <2> QED BY <1>3, <2>3, <2>4, <2>5, <2>6, <2>7
<1>8. serialize(p) \in Bytes
  BY <1>1, <1>2, CatBytes
<1> QED BY <1>2, <1>3, <1>4, <1>5, <1>6, <1>7, <1>8

-----------------------------------------------------------------------------
(* Reading what was written *)

\* All that the reader finds in a datagram that begins with a packet.
LEMMA HeaderReadBack ==
    ASSUME NEW p \in Writable, NEW t \in Bytes, NEW bytes, bytes = Headed(kMagic, p, t)
    PROVE  /\ bytes \in Bytes
           /\ Len(bytes) = kHeaderSize + Len(t)
           /\ SubSeq(bytes, kHeaderSize + 1, Len(bytes)) = t
           /\ read_header(bytes) = [magic |-> kMagic, version |-> p.version, type |-> p.type,
                                    flags |-> p.flags, counter |-> p.counter]
<1> DEFINE a == put_uint(U16, kMagic)
           v == put_uint(1, p.version)
           y == put_uint(1, p.type)
           f == put_uint(1, p.flags)
           c == put_uint(U64, p.counter)
           t4 == Cat(c, t)
           t3 == Cat(f, t4)
           t2 == Cat(y, t3)
           t1 == Cat(v, t2)
<1>1. 1 \in Nat /\ U16 \in Nat /\ U64 \in Nat
  BY Widths
<1>2. /\ p.version \in Nat /\ p.version < Limit[1] /\ p.type \in Nat /\ p.type < Limit[1]
      /\ p.flags \in Nat /\ p.flags < Limit[1] /\ p.counter \in Nat /\ p.counter < Limit[U64]
  BY PartsAreBytes, LimitOne, Widths DEF Byte
<1>3. /\ a \in Bytes /\ v \in Bytes /\ y \in Bytes /\ f \in Bytes /\ c \in Bytes
      /\ Len(a) = U16 /\ Len(v) = 1 /\ Len(y) = 1 /\ Len(f) = 1 /\ Len(c) = U64
  BY <1>1, <1>2, MagicFits, UintBytes
<1>4. t1 \in Bytes /\ t2 \in Bytes /\ t3 \in Bytes /\ t4 \in Bytes
  BY <1>3, CatBytes
<1>5. bytes = Cat(a, t1)
  BY DEF Headed
<1>6. bytes \in Bytes
  BY <1>3, <1>4, <1>5, CatBytes
<1>7. Len(bytes) = kHeaderSize + Len(t)
  <2>1. /\ Len(t4) = U64 + Len(t) /\ Len(t3) = 1 + Len(t4) /\ Len(t2) = 1 + Len(t3)
        /\ Len(t1) = 1 + Len(t2) /\ Len(bytes) = U16 + Len(t1)
    <3> HIDE DEF a, v, y, f, c
    <3>1. Len(Cat(c, t)) = Len(c) + Len(t)
      BY <1>3, CatLen
    <3>2. Len(Cat(f, t4)) = Len(f) + Len(t4)
      BY <1>3, <1>4, CatLen
    <3>3. Len(Cat(y, t3)) = Len(y) + Len(t3)
      BY <1>3, <1>4, CatLen
    <3>4. Len(Cat(v, t2)) = Len(v) + Len(t2)
      BY <1>3, <1>4, CatLen
    <3>5. Len(Cat(a, t1)) = Len(a) + Len(t1)
      BY <1>3, <1>4, CatLen
    <3> QED BY <1>3, <1>5, <3>1, <3>2, <3>3, <3>4, <3>5
  <2>2. Len(t) \in Nat /\ Len(t1) \in Nat /\ Len(t2) \in Nat /\ Len(t3) \in Nat /\ Len(t4) \in Nat
    BY <1>4, LenIsNat
  <2> HIDE DEF t1, t2, t3, t4
  <2> QED BY <1>1, <2>1, <2>2 DEF kHeaderSize
<1>8. SubSeq(bytes, kHeaderSize + 1, Len(bytes)) = t
  <2> DEFINE h == Cat(a, Cat(v, Cat(y, Cat(f, c))))
  <2>1. h \in Bytes
    BY <1>3, CatBytes
  <2>2. bytes = Cat(h, t)
    <3>1. Cat(f, c) \in Bytes /\ Cat(y, Cat(f, c)) \in Bytes /\ Cat(v, Cat(y, Cat(f, c))) \in Bytes
      BY <1>3, CatBytes
    <3>2. Cat(f, t4) = Cat(Cat(f, c), t)
      BY <1>3, CatAssociative
    <3>3. Cat(y, Cat(Cat(f, c), t)) = Cat(Cat(y, Cat(f, c)), t)
      BY <1>3, <3>1, CatAssociative
    <3>4. Cat(v, Cat(Cat(y, Cat(f, c)), t)) = Cat(Cat(v, Cat(y, Cat(f, c))), t)
      BY <1>3, <3>1, CatAssociative
    <3>5. Cat(a, Cat(Cat(v, Cat(y, Cat(f, c))), t)) = Cat(h, t)
      BY <1>3, <3>1, CatAssociative
    <3> QED BY <1>5, <3>2, <3>3, <3>4, <3>5
  <2> HIDE DEF h
  <2>3. Len(bytes) = Len(h) + Len(t)
    BY <2>1, <2>2, CatLen
  <2>4. Len(h) = kHeaderSize
    <3>1. Len(h) \in Nat /\ Len(t) \in Nat /\ kHeaderSize \in Nat
      BY <1>1, <2>1, LenIsNat DEF kHeaderSize
    <3> QED BY <1>7, <2>3, <3>1
  <2>5. SubSeq(bytes, Len(h) + 1, Len(bytes)) = t
    <3>1. h \in Seq(Byte) /\ t \in Seq(Byte) /\ bytes = h \o t
      BY <2>1, <2>2 DEF Bytes, Cat
    <3>2. SubSeq(h \o t, Len(h) + 1, Len(h \o t)) = t
      BY <3>1, Cut
    <3> QED BY <3>1, <3>2
  <2> QED BY <2>4, <2>5
<1>9. read_header(bytes) = [magic |-> kMagic, version |-> p.version, type |-> p.type,
                            flags |-> p.flags, counter |-> p.counter]
  <2> DEFINE r0 == Reader(bytes)
             r1 == [ok |-> TRUE, rest |-> t1, value |-> kMagic]
             r2 == [ok |-> TRUE, rest |-> t2, value |-> p.version]
             r3 == [ok |-> TRUE, rest |-> t3, value |-> p.type]
             r4 == [ok |-> TRUE, rest |-> t4, value |-> p.flags]
             r5 == [ok |-> TRUE, rest |-> t, value |-> p.counter]
  <2>1. r0.ok /\ r0.rest = Cat(a, t1)
    BY <1>5 DEF Reader
  <2>2. read_uint(U16, r0) = r1
    <3> HIDE DEF r0, t1
    <3> QED BY <1>1, <1>4, <2>1, MagicFits, ReadUint
  <2>3. r1.ok /\ r1.rest = Cat(v, t2) /\ r2.ok /\ r2.rest = Cat(y, t3)
    OBVIOUS
  <2>4. r3.ok /\ r3.rest = Cat(f, t4) /\ r4.ok /\ r4.rest = Cat(c, t)
    OBVIOUS
  <2>5. read_uint(1, r1) = r2
    <3> HIDE DEF r1, t2
    <3> QED BY <1>1, <1>2, <1>4, <2>3, ReadUint
  <2>6. read_uint(1, r2) = r3
    <3> HIDE DEF r2, t3
    <3> QED BY <1>1, <1>2, <1>4, <2>3, ReadUint
  <2>7. read_uint(1, r3) = r4
    <3> HIDE DEF r3, t4
    <3> QED BY <1>1, <1>2, <1>4, <2>4, ReadUint
  <2>8. read_uint(U64, r4) = r5
    <3> HIDE DEF r4
    <3> QED BY <1>1, <1>2, <2>4, ReadUint
  <2>9. r1.value = kMagic /\ r2.value = p.version /\ r3.value = p.type
        /\ r4.value = p.flags /\ r5.value = p.counter
    OBVIOUS
  <2> HIDE DEF r0, r1, r2, r3, r4, r5
  <2> QED BY <2>2, <2>5, <2>6, <2>7, <2>8, <2>9 DEF read_header, r0
<1> QED BY <1>6, <1>7, <1>8, <1>9

LEMMA FieldsReadBack ==
    ASSUME NEW p \in Writable, NEW t \in Bytes, NEW bytes,
           SubSeq(bytes, kHeaderSize + 1, Len(bytes)) = Routed(p, t)
    PROVE  read_fields(bytes)
               = [source |-> p.source, destination |-> p.destination, payload |-> p.payload,
                  end |-> [ok |-> TRUE, rest |-> t, value |-> p.payload]]
<1> DEFINE t2 == Cat(put_bytes(p.payload), t)
           t1 == Cat(put_bytes(p.destination), t2)
           r0 == Reader(SubSeq(bytes, kHeaderSize + 1, Len(bytes)))
           r1 == [ok |-> TRUE, rest |-> t1, value |-> p.source]
           r2 == [ok |-> TRUE, rest |-> t2, value |-> p.destination]
           r3 == [ok |-> TRUE, rest |-> t, value |-> p.payload]
<1>1. p.source \in Strings /\ p.destination \in Strings /\ p.payload \in Strings
  BY PartsAreBytes
<1>2. t1 \in Bytes /\ t2 \in Bytes
  BY PartsAreBytes, CatBytes
<1>3. r0.ok /\ r0.rest = Cat(put_bytes(p.source), t1)
  BY DEF Reader, Routed
<1>4. r1.ok /\ r1.rest = Cat(put_bytes(p.destination), t2) /\ r2.ok /\ r2.rest = Cat(put_bytes(p.payload), t)
  OBVIOUS
<1>5. read_bytes(r0) = r1
  <2> HIDE DEF r0, t1
  <2> QED BY <1>1, <1>2, <1>3, ReadBytes
<1>6. read_bytes(r1) = r2
  <2> HIDE DEF r1, t2
  <2> QED BY <1>1, <1>2, <1>4, ReadBytes
<1>7. read_bytes(r2) = r3
  <2> HIDE DEF r2
  <2> QED BY <1>1, <1>4, ReadBytes
<1>8. r1.value = p.source /\ r2.value = p.destination /\ r3.value = p.payload
  OBVIOUS
<1>9. read_fields(bytes) = [source |-> r1.value, destination |-> r2.value,
                            payload |-> r3.value, end |-> r3]
  <2> HIDE DEF r1, r2, r3
  <2> QED BY <1>5, <1>6, <1>7 DEF read_fields
<1> QED BY <1>8, <1>9

\* A datagram that begins with a packet gives that packet and what follows it.
LEMMA ReadBack ==
    ASSUME NEW p \in Writable, NEW t \in Bytes, NEW bytes, bytes = Cat(serialize(p), t)
    PROVE  /\ bytes \in Bytes
           /\ Len(bytes) >= kHeaderSize
           /\ read_header(bytes).magic = kMagic /\ read_header(bytes).version = p.version
           /\ read_fields(bytes).end.ok /\ read_fields(bytes).end.rest = t
           /\ Parsed(bytes) = p
<1>1. bytes = Headed(kMagic, p, Routed(p, t)) /\ Routed(p, t) \in Bytes
  BY SerializeIs
<1> DEFINE u == Routed(p, t)
<1>2. /\ bytes \in Bytes /\ Len(bytes) = kHeaderSize + Len(u)
      /\ SubSeq(bytes, kHeaderSize + 1, Len(bytes)) = u
      /\ read_header(bytes) = [magic |-> kMagic, version |-> p.version, type |-> p.type,
                               flags |-> p.flags, counter |-> p.counter]
  BY <1>1, HeaderReadBack
<1>3. read_fields(bytes)
        = [source |-> p.source, destination |-> p.destination, payload |-> p.payload,
           end |-> [ok |-> TRUE, rest |-> t, value |-> p.payload]]
  BY <1>2, FieldsReadBack
<1>4. Len(bytes) >= kHeaderSize
  <2>1. Len(u) \in Nat /\ kHeaderSize \in Nat
    BY <1>1, LenIsNat, Widths DEF kHeaderSize
  <2> HIDE DEF u
  <2> QED BY <1>2, <2>1
<1>5. Parsed(bytes) = p
  <2>1. Parsed(bytes) = [version |-> p.version, type |-> p.type, flags |-> p.flags,
                         counter |-> p.counter, source |-> p.source,
                         destination |-> p.destination, payload |-> p.payload]
    BY <1>2, <1>3 DEF Parsed
  <2> QED BY <2>1 DEF Writable
<1> QED BY <1>2, <1>3, <1>4, <1>5

-----------------------------------------------------------------------------
(* Nothing else is read *)

\* Whatever fills the fixed header is read as one header.
LEMMA HeaderRead ==
    ASSUME NEW bytes \in Bytes, Len(bytes) >= kHeaderSize
    PROVE  LET h == read_header(bytes)
               t == SubSeq(bytes, kHeaderSize + 1, Len(bytes))
           IN  /\ h.version \in Byte /\ h.type \in Byte /\ h.flags \in Byte
               /\ h.counter \in 0 .. Limit[U64] - 1
               /\ t \in Bytes
               /\ h.magic \in Nat
               /\ bytes = Headed(h.magic, h, t)
<1> DEFINE r0 == Reader(bytes)
           r1 == read_uint(U16, r0)
           r2 == read_uint(1, r1)
           r3 == read_uint(1, r2)
           r4 == read_uint(1, r3)
           r5 == read_uint(U64, r4)
           h == read_header(bytes)
           l == Len(bytes)
<1>1. 1 \in Nat /\ U16 \in Nat /\ U64 \in Nat /\ l \in Nat /\ l >= U16 + 3 + U64
  BY Widths, LenIsNat DEF kHeaderSize
<1>2. h = [magic |-> r1.value, version |-> r2.value, type |-> r3.value,
           flags |-> r4.value, counter |-> r5.value]
  BY DEF read_header
<1>3. r0.ok /\ r0.rest = bytes /\ Len(r0.rest) = l
  BY DEF Reader
<1>4. r1 = read_uint(U16, r0) /\ r2 = read_uint(1, r1) /\ r3 = read_uint(1, r2)
      /\ r4 = read_uint(1, r3) /\ r5 = read_uint(U64, r4)
  OBVIOUS
<1> HIDE DEF r0, r1, r2, r3, r4, r5, h, l
<1>5. /\ r1.ok /\ Len(r1.rest) = l - U16 /\ r1.rest \in Bytes
      /\ r1.value \in Nat /\ bytes = Cat(put_uint(U16, r1.value), r1.rest)
  <2>1. U16 <= Len(r0.rest) /\ r0.rest \in Bytes
    BY <1>1, <1>3
  <2>2. r1.ok /\ Len(r1.rest) = l - U16
    BY <1>1, <1>3, <1>4, <2>1, UintOk
  <2> QED BY <1>1, <1>3, <1>4, <2>1, <2>2, UintRead
<1>6. /\ r2.ok /\ Len(r2.rest) = l - U16 - 1 /\ r2.rest \in Bytes
      /\ r2.value \in Nat /\ r2.value < Limit[1] /\ r1.rest = Cat(put_uint(1, r2.value), r2.rest)
  <2>1. 1 <= Len(r1.rest)
    BY <1>1, <1>5
  <2>2. r2.ok /\ Len(r2.rest) = Len(r1.rest) - 1
    BY <1>1, <1>4, <1>5, <2>1, UintOk
  <2> QED BY <1>1, <1>4, <1>5, <2>2, UintRead
<1>7. /\ r3.ok /\ Len(r3.rest) = l - U16 - 2 /\ r3.rest \in Bytes
      /\ r3.value \in Nat /\ r3.value < Limit[1] /\ r2.rest = Cat(put_uint(1, r3.value), r3.rest)
  <2>1. 1 <= Len(r2.rest)
    BY <1>1, <1>6
  <2>2. r3.ok /\ Len(r3.rest) = Len(r2.rest) - 1
    BY <1>1, <1>4, <1>6, <2>1, UintOk
  <2>3. Len(r3.rest) = l - U16 - 2
    BY <1>1, <1>6, <2>2
  <2> QED BY <1>1, <1>4, <1>6, <2>2, <2>3, UintRead
<1>8. /\ r4.ok /\ Len(r4.rest) = l - U16 - 3 /\ r4.rest \in Bytes
      /\ r4.value \in Nat /\ r4.value < Limit[1] /\ r3.rest = Cat(put_uint(1, r4.value), r4.rest)
  <2>1. 1 <= Len(r3.rest)
    BY <1>1, <1>7
  <2>2. r4.ok /\ Len(r4.rest) = Len(r3.rest) - 1
    BY <1>1, <1>4, <1>7, <2>1, UintOk
  <2>3. Len(r4.rest) = l - U16 - 3
    BY <1>1, <1>7, <2>2
  <2> QED BY <1>1, <1>4, <1>7, <2>2, <2>3, UintRead
<1>9. /\ r5.ok /\ r5.rest \in Bytes /\ r5.value \in Nat /\ r5.value < Limit[U64]
      /\ Len(r5.rest) = l - kHeaderSize
      /\ r4.rest = Cat(put_uint(U64, r5.value), r5.rest)
  <2>1. U64 <= Len(r4.rest)
    BY <1>1, <1>8
  <2>2. r5.ok /\ Len(r5.rest) = Len(r4.rest) - U64
    BY <1>1, <1>4, <1>8, <2>1, UintOk
  <2>3. Len(r5.rest) = l - kHeaderSize
    BY <1>1, <1>8, <2>2 DEF kHeaderSize
  <2> QED BY <1>1, <1>4, <1>8, <2>2, <2>3, UintRead
<1>10. /\ h.magic \in Nat /\ h.version \in Byte /\ h.type \in Byte /\ h.flags \in Byte
       /\ h.counter \in 0 .. Limit[U64] - 1
  <2>1. \A x \in Nat : x < Limit[1] => x \in Byte
    BY LimitOne, Widths DEF Byte
  <2>2. \A x \in Nat : x < Limit[U64] => x \in 0 .. Limit[U64] - 1
    BY <1>1, LimitPositive
  <2>3. /\ r1.value \in Nat /\ r2.value \in Byte /\ r3.value \in Byte /\ r4.value \in Byte
        /\ r5.value \in 0 .. Limit[U64] - 1
    BY <1>5, <1>6, <1>7, <1>8, <1>9, <2>1, <2>2
  <2> QED BY <1>2, <2>3
<1>11. bytes = Headed(h.magic, h, r5.rest)
  BY <1>2, <1>5, <1>6, <1>7, <1>8, <1>9 DEF Headed
<1>12. SubSeq(bytes, kHeaderSize + 1, l) = r5.rest
  <2>1. \E a : a \in Bytes /\ Len(a) = kHeaderSize /\ bytes = Cat(a, r5.rest)
    <3> DEFINE b1 == put_uint(U16, r1.value)
               b2 == put_uint(1, r2.value)
               b3 == put_uint(1, r3.value)
               b4 == put_uint(1, r4.value)
               b5 == put_uint(U64, r5.value)
               a4 == Cat(b4, b5)
               a3 == Cat(b3, a4)
               a2 == Cat(b2, a3)
               a1 == Cat(b1, a2)
    <3>1. b1 \in Bytes /\ b2 \in Bytes /\ b3 \in Bytes /\ b4 \in Bytes /\ b5 \in Bytes
      BY <1>1, <1>5, <1>6, <1>7, <1>8, <1>9, UintBytes
    <3>2. /\ bytes = Cat(b1, r1.rest) /\ r1.rest = Cat(b2, r2.rest) /\ r2.rest = Cat(b3, r3.rest)
          /\ r3.rest = Cat(b4, r4.rest) /\ r4.rest = Cat(b5, r5.rest)
      BY <1>5, <1>6, <1>7, <1>8, <1>9
    <3> HIDE DEF b1, b2, b3, b4, b5
    <3>3. a4 \in Bytes /\ a3 \in Bytes /\ a2 \in Bytes /\ a1 \in Bytes
      BY <3>1, CatBytes
    <3>4. r3.rest = Cat(a4, r5.rest)
      BY <1>9, <3>1, <3>2, CatAssociative
    <3>5. r2.rest = Cat(a3, r5.rest)
      BY <1>9, <3>1, <3>2, <3>3, <3>4, CatAssociative
    <3>6. r1.rest = Cat(a2, r5.rest)
      BY <1>9, <3>1, <3>2, <3>3, <3>5, CatAssociative
    <3>7. bytes = Cat(a1, r5.rest)
      BY <1>9, <3>1, <3>2, <3>3, <3>6, CatAssociative
    <3> HIDE DEF a1
    <3>8. Len(bytes) = Len(a1) + Len(r5.rest) /\ Len(a1) \in Nat
      BY <1>9, <3>3, <3>7, CatLen, LenIsNat
    <3>9. Len(a1) = kHeaderSize
      BY <1>1, <1>9, <3>8, LenIsNat DEF l, kHeaderSize
    <3> QED BY <3>3, <3>7, <3>9
  <2>2. PICK x : x \in Bytes /\ Len(x) = kHeaderSize /\ bytes = Cat(x, r5.rest)
    BY <2>1
  <2>3. x \in Seq(Byte) /\ r5.rest \in Seq(Byte) /\ bytes = x \o r5.rest
    BY <1>9, <2>2 DEF Bytes, Cat
  <2>4. SubSeq(x \o r5.rest, Len(x) + 1, Len(x \o r5.rest)) = r5.rest
    BY <2>3, Cut
  <2> QED BY <2>2, <2>3, <2>4 DEF l
<1> QED BY <1>9, <1>10, <1>11, <1>12 DEF h, l

LEMMA FieldsRead ==
    ASSUME NEW bytes, SubSeq(bytes, kHeaderSize + 1, Len(bytes)) \in Bytes,
           read_fields(bytes).end.ok
    PROVE  LET f == read_fields(bytes)
           IN  /\ f.source \in Strings /\ f.destination \in Strings /\ f.payload \in Strings
               /\ f.end.rest \in Bytes
               /\ SubSeq(bytes, kHeaderSize + 1, Len(bytes)) = Routed(f, f.end.rest)
<1> DEFINE s == SubSeq(bytes, kHeaderSize + 1, Len(bytes))
           r0 == Reader(s)
           r1 == read_bytes(r0)
           r2 == read_bytes(r1)
           r3 == read_bytes(r2)
           f == read_fields(bytes)
<1>1. f = [source |-> r1.value, destination |-> r2.value, payload |-> r3.value, end |-> r3]
  BY DEF read_fields
<1>2. r0.rest = s /\ s \in Bytes /\ f.end.ok
  BY DEF Reader
<1>3. r1 = read_bytes(r0) /\ r2 = read_bytes(r1) /\ r3 = read_bytes(r2)
  OBVIOUS
<1> HIDE DEF s, r0, r1, r2, r3, f
<1>4. ASSUME NEW r
      PROVE  read_bytes(r).ok => r.ok
  BY DEF read_bytes, Failed, Taken
<1>5. r1.ok /\ r2.ok /\ r3.ok
  BY <1>1, <1>2, <1>3, <1>4
<1>6. r1.value \in Strings /\ r1.rest \in Bytes /\ s = Cat(put_bytes(r1.value), r1.rest)
  BY <1>2, <1>3, <1>5, BytesRead
<1>7. r2.value \in Strings /\ r2.rest \in Bytes /\ r1.rest = Cat(put_bytes(r2.value), r2.rest)
  BY <1>3, <1>5, <1>6, BytesRead
<1>8. r3.value \in Strings /\ r3.rest \in Bytes /\ r2.rest = Cat(put_bytes(r3.value), r3.rest)
  BY <1>3, <1>5, <1>7, BytesRead
<1>9. s = Routed(f, r3.rest)
  BY <1>1, <1>6, <1>7, <1>8 DEF Routed
<1> QED BY <1>1, <1>6, <1>7, <1>8, <1>9 DEF f, s

\* An accepted datagram is the serialization of the packet it gives.
LEMMA Accepted ==
    ASSUME NEW bytes \in Bytes, parse(bytes) = "Ok"
    PROVE  Parsed(bytes) \in Writable /\ serialize(Parsed(bytes)) = bytes
<1> DEFINE h == read_header(bytes)
           f == read_fields(bytes)
           p == Parsed(bytes)
           t == SubSeq(bytes, kHeaderSize + 1, Len(bytes))
<1>1. /\ ~(Len(bytes) < kHeaderSize) /\ h.magic = kMagic
      /\ f.end.ok /\ done(f.end)
  BY DEF parse
<1>2. f.end.rest = <<>>
  BY <1>1 DEF done
<1>3. Len(bytes) >= kHeaderSize
  <2>1. Len(bytes) \in Nat /\ kHeaderSize \in Nat
    BY LenIsNat, Widths DEF kHeaderSize
  <2> QED BY <1>1, <2>1
<1>4. /\ h.version \in Byte /\ h.type \in Byte /\ h.flags \in Byte
      /\ h.counter \in 0 .. Limit[U64] - 1
      /\ t \in Bytes /\ bytes = Headed(h.magic, h, t)
  BY <1>3, HeaderRead
<1>5. /\ f.source \in Strings /\ f.destination \in Strings /\ f.payload \in Strings
      /\ t = Routed(f, f.end.rest)
  BY <1>1, <1>4, FieldsRead
<1>6. p = [version |-> h.version, type |-> h.type, flags |-> h.flags, counter |-> h.counter,
           source |-> f.source, destination |-> f.destination, payload |-> f.payload]
  BY DEF Parsed
<1> HIDE DEF h, f, p, t
<1>7. p \in Writable
  BY <1>4, <1>5, <1>6 DEF Writable
<1>8. Headed(h.magic, h, t) = Headed(kMagic, p, t) /\ Routed(f, <<>>) = Routed(p, <<>>)
  BY <1>1, <1>6 DEF Headed, Routed
<1>9. Cat(serialize(p), <<>>) = bytes
  BY <1>2, <1>4, <1>5, <1>7, <1>8, SerializeIs, EmptyBytes
<1>10. serialize(p) = bytes
  BY <1>7, <1>9, SerializeIs, CatEmpty, EmptyBytes
<1> QED BY <1>7, <1>10 DEF p

LEMMA PacketsAreWritable ==
    ASSUME NEW p \in Packets
    PROVE  p \in Writable /\ p.version = kProtocolVersion
<1>1. Ids \subseteq Strings /\ Payloads \subseteq Strings
  BY PacketAssumption DEF Strings
<1>2. /\ kProtocolVersion \in Byte /\ Types \subseteq Byte /\ Flags \subseteq Byte
      /\ Counters \subseteq 0 .. Limit[U64] - 1
  BY PacketAssumption
<1> QED BY <1>1, <1>2 DEF Packets, Writable

-----------------------------------------------------------------------------
(* The network *)

\* Before the delivery only the datagram changes; after it, result and out are
\* what parse makes of the datagram.
CodecInv ==
    /\ sent \in Packets
    /\ wire \in Bytes
    /\ harm \in Nat
    /\ harm = 0 => wire = serialize(sent)
    /\ result = "none" \/ result = parse(wire)
    /\ result = "Ok" => out = Parsed(wire)

LEMMA ChangedBytes == ASSUME NEW w \in Bytes, NEW v \in Changed(w) PROVE v \in Bytes
<1>1. w \in Seq(Byte) /\ Len(w) \in Nat
  BY LenIsNat DEF Bytes
<1>2. CASE v \in {SubSeq(w, 1, n) : n \in 0 .. Len(w) - 1}
  <2>1. PICK n \in 0 .. Len(w) - 1 : v = SubSeq(w, 1, n)
    BY <1>2
  <2>2. n \in 0 .. Len(w)
    BY <1>1
  <2> QED BY <1>1, <2>1, <2>2, Joined DEF Bytes
<1>3. CASE v \in {Append(w, b) : b \in Byte}
  BY <1>1, <1>3, AppendProperties DEF Bytes
<1>4. CASE v \in {[w EXCEPT ![i] = b] : i \in DOMAIN w, b \in Byte}
  <2>1. PICK i \in DOMAIN w, b \in Byte : v = [w EXCEPT ![i] = b]
    BY <1>4
  <2>2. i \in 1 .. Len(w)
    BY <1>1, LenProperties
  <2> QED BY <1>1, <2>1, <2>2, ExceptSeq DEF Bytes
<1> QED BY <1>2, <1>3, <1>4 DEF Changed

LEMMA CodecInvariant == Spec => []CodecInv
<1>1. Init => CodecInv
  <2> SUFFICES ASSUME Init PROVE CodecInv
    OBVIOUS
  <2>1. sent \in Packets /\ wire = serialize(sent) /\ harm = 0 /\ result = "none"
    BY DEF Init
  <2>2. serialize(sent) \in Bytes
    BY <2>1, PacketsAreWritable, SerializeIs, EmptyBytes
  <2> QED BY <2>1, <2>2 DEF CodecInv
<1>2. CodecInv /\ [Next]_vars => CodecInv'
  <2> SUFFICES ASSUME CodecInv, [Next]_vars PROVE CodecInv'
    OBVIOUS
  <2> USE DEF CodecInv
  <2>1. CASE Deliver
    <3>1. /\ result' = parse(wire) /\ wire' = wire /\ sent' = sent /\ harm' = harm
          /\ out' = IF parse(wire) = "Ok" THEN Parsed(wire) ELSE out
      BY <2>1 DEF Deliver
    <3>2. result' = "Ok" => out' = Parsed(wire)
      BY <3>1
    <3> QED BY <3>1, <3>2
  <2>2. CASE Harm
    <3>1. /\ wire' \in Changed(wire) /\ harm' = harm + 1 /\ result = "none"
          /\ sent' = sent /\ result' = result /\ out' = out
      BY <2>2 DEF Harm
    <3>2. wire' \in Bytes
      BY <3>1, ChangedBytes
    <3> QED BY <3>1, <3>2
  <2>3. CASE UNCHANGED vars
    BY <2>3 DEF vars
  <2> QED BY <2>1, <2>2, <2>3 DEF Next
<1> QED BY <1>1, <1>2, PTL DEF Spec

\* A datagram that arrives as it was sent is accepted and gives the packet that
\* was serialized, whatever its fields hold.
THEOREM PacketsRoundTrip == Spec => []RoundTrip
<1>1. CodecInv => RoundTrip
  <2> SUFFICES ASSUME CodecInv, harm = 0, result # "none"
               PROVE  result = "Ok" /\ out = sent
    BY DEF RoundTrip
  <2>1. wire = serialize(sent) /\ wire \in Bytes /\ result = parse(wire) /\ sent \in Writable
        /\ sent.version = kProtocolVersion /\ (result = "Ok" => out = Parsed(wire))
    BY PacketsAreWritable DEF CodecInv
  <2>2. wire = Cat(serialize(sent), <<>>)
    BY <2>1, CatEmpty
  <2>3. /\ Len(wire) >= kHeaderSize
        /\ read_header(wire).magic = kMagic /\ read_header(wire).version = kProtocolVersion
        /\ read_fields(wire).end.ok /\ read_fields(wire).end.rest = <<>>
        /\ Parsed(wire) = sent
    BY <2>1, <2>2, ReadBack, EmptyBytes
  <2>4. ~(Len(wire) < kHeaderSize)
    <3>1. Len(wire) \in Nat /\ kHeaderSize \in Nat
      BY <2>1, LenIsNat, Widths DEF kHeaderSize
    <3> QED BY <2>3, <3>1
  <2>5. parse(wire) = "Ok"
    BY <2>3, <2>4 DEF parse, done
  <2> QED BY <2>1, <2>3, <2>5
<1> QED BY <1>1, CodecInvariant, PTL

\* However the network changed it, an accepted datagram is the serialization of
\* the packet that parse gives: no two datagrams are read alike.
THEOREM WireIsCanonical == Spec => []CanonicalWire
<1>1. CodecInv => CanonicalWire
  BY Accepted DEF CodecInv, CanonicalWire
<1> QED BY <1>1, CodecInvariant, PTL

\* No beginning of an accepted datagram is accepted: the cut would leave the
\* reader with bytes behind the shorter packet, which parse refuses.
THEOREM CutsAreNoticed == Spec => []NoPrefixAccepted
<1>1. CodecInv => NoPrefixAccepted
  <2> SUFFICES ASSUME CodecInv, result = "Ok", NEW n \in 0 .. Len(wire) - 1,
                      parse(SubSeq(wire, 1, n)) = "Ok"
               PROVE  FALSE
    BY DEF NoPrefixAccepted
  <2>1. wire \in Bytes /\ parse(wire) = "Ok" /\ Len(wire) \in Nat
    BY LenIsNat DEF CodecInv
  <2> DEFINE u == SubSeq(wire, 1, n)
             v == SubSeq(wire, n + 1, Len(wire))
             q == Parsed(u)
  <2>2. u \in Bytes /\ v \in Bytes /\ wire = Cat(u, v) /\ Len(v) = Len(wire) - n
    <3>1. wire \in Seq(Byte) /\ n \in 0 .. Len(wire)
      BY <2>1 DEF Bytes
    <3> QED BY <3>1, Joined DEF Bytes, Cat
  <2>3. parse(u) = "Ok"
    OBVIOUS
  <2> HIDE DEF u, v
  <2>4. q \in Writable /\ serialize(q) = u
    BY <2>2, <2>3, Accepted
  <2>5. read_fields(wire).end.rest = v
    BY <2>2, <2>4, ReadBack
  <2>6. v = <<>>
    BY <2>1, <2>5 DEF parse, done
  <2> QED BY <2>1, <2>2, <2>6, EmptyBytes
<1> QED BY <1>1, CodecInvariant, PTL

\* The associated data determines the header and the routing: two packets with
\* the same associated data differ at most in the payload.
THEOREM EnvelopeIsBound == Spec => []EnvelopeBound
<1>1. CodecInv => EnvelopeBound
  <2> SUFFICES ASSUME CodecInv, result = "Ok", associated_data(out) = associated_data(sent)
               PROVE  out = [sent EXCEPT !.payload = out.payload]
    BY DEF EnvelopeBound
  <2> DEFINE q == [sent EXCEPT !.payload = out.payload]
  <2>1. out \in Writable
    BY Accepted DEF CodecInv
  <2>2. sent \in Writable
    BY PacketsAreWritable DEF CodecInv
  <2>3. q \in Writable /\ q.payload = out.payload
    BY <2>1, <2>2 DEF Writable
  <2>4. associated_data(q) = associated_data(sent)
    BY <2>2 DEF associated_data, write_header_and_routing, Writable
  <2> HIDE DEF q
  <2>5. serialize(q) = serialize(out)
    BY <2>3, <2>4 DEF serialize, associated_data
  <2> DEFINE w == Cat(serialize(out), <<>>)
  <2>6. Parsed(w) = out
    BY <2>1, ReadBack, EmptyBytes
  <2>7. Parsed(w) = q
    BY <2>3, <2>5, ReadBack, EmptyBytes
  <2> QED BY <2>6, <2>7 DEF q
<1> QED BY <1>1, CodecInvariant, PTL
=============================================================================

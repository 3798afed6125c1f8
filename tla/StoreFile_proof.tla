--------------------------- MODULE StoreFile_proof ---------------------------
(***************************************************************************)
(* Proofs about StoreFile, for any contacts, messages and requests, with   *)
(* names and texts of any length, any number of restarts and failing       *)
(* writes, and at most one file harmed where the statement says so.        *)
(***************************************************************************)
EXTENDS StoreFile, ByteFormat_proof

-----------------------------------------------------------------------------
(* One contact, message or request *)

\* What a read of the value v from r leaves.
Leaves(t, v) == [ok |-> TRUE, rest |-> t, value |-> v]

LEMMA Leaving ==
    ASSUME NEW t, NEW v
    PROVE  Leaves(t, v).ok = TRUE /\ Leaves(t, v).rest = t /\ Leaves(t, v).value = v
BY DEF Leaves

\* The reads of ByteFormat_proof, one after the other.
LEMMA UintLeaves ==
    ASSUME NEW n \in Nat, NEW v \in Nat, v < Limit[n], NEW t \in Bytes, NEW r,
           r.ok, r.rest = Cat(put_uint(n, v), t)
    PROVE  read_uint(n, r) = Leaves(t, v)
BY ReadUint DEF Leaves

LEMMA BytesLeaves ==
    ASSUME NEW b \in Strings, NEW t \in Bytes, NEW r, r.ok, r.rest = Cat(put_bytes(b), t)
    PROVE  read_bytes(r) = Leaves(t, b)
BY ReadBytes DEF Leaves

LEMMA AnyStringBytes == \A b \in Bytes : put_bytes(b) \in Bytes
<1> SUFFICES ASSUME NEW b \in Bytes PROVE put_bytes(b) \in Bytes
  OBVIOUS
<1>1. put_uint(U16, Len(b)) \in Bytes
  BY LenIsNat, UintBytes, Widths
<1>2. put_bytes(b) = Cat(put_uint(U16, Len(b)), b)
  BY DEF put_bytes, Cat
<1> QED BY <1>1, <1>2, CatBytes

\* What may be in memory, with strings of any length.
KeptContacts ==
    [public_key : Bytes, nickname : Bytes, trust : Byte, last_seen : 0 .. Limit[U64] - 1]

KeptMessages ==
    [peer : Bytes, text : Bytes, outgoing : BOOLEAN, timestamp : 0 .. Limit[U64] - 1]

KeptRequests == [peer : Bytes, greeting : Bytes, timestamp : 0 .. Limit[U64] - 1]

\* The part of it that the lengths in a file can say.
FitContacts == {c \in KeptContacts : c.public_key \in Strings /\ c.nickname \in Strings}
FitMessages == {m \in KeptMessages : m.peer \in Strings /\ m.text \in Strings}
FitRequests == {q \in KeptRequests : q.peer \in Strings /\ q.greeting \in Strings}

LEMMA Given ==
    Contacts \subseteq KeptContacts /\ Messages \subseteq KeptMessages /\ Requests \subseteq KeptRequests
<1>1. \A t \in TrustStatus : t \in Byte
  BY StoreAssumption, Widths DEF TrustStatus, Byte
<1>2. Contacts \subseteq [public_key : Seq(Byte), nickname : Seq(Byte),
                          trust : TrustStatus, last_seen : 0 .. Limit[U64] - 1]
  BY StoreAssumption
<1>3. ASSUME NEW c \in Contacts PROVE c \in KeptContacts
  <2>1. c \in [public_key : Seq(Byte), nickname : Seq(Byte),
               trust : TrustStatus, last_seen : 0 .. Limit[U64] - 1]
    BY <1>2
  <2> HIDE DEF Byte, TrustStatus
  <2> QED BY <1>1, <2>1 DEF KeptContacts, Bytes
<1>4. Messages \subseteq KeptMessages /\ Requests \subseteq KeptRequests
  BY StoreAssumption DEF KeptMessages, KeptRequests, Bytes
<1> QED BY <1>3, <1>4

LEMMA Stored ==
    /\ \A c \in KeptContacts :
          /\ c = [public_key |-> c.public_key, nickname |-> c.nickname,
                  trust |-> c.trust, last_seen |-> c.last_seen]
          /\ c.public_key \in Bytes /\ c.nickname \in Bytes
          /\ c.trust \in Nat /\ c.trust < Limit[1]
          /\ c.last_seen \in Nat /\ c.last_seen < Limit[U64]
    /\ \A m \in KeptMessages :
          /\ m = [peer |-> m.peer, text |-> m.text, outgoing |-> m.outgoing,
                  timestamp |-> m.timestamp]
          /\ m.peer \in Bytes /\ m.text \in Bytes /\ m.outgoing \in BOOLEAN
          /\ m.timestamp \in Nat /\ m.timestamp < Limit[U64]
    /\ \A q \in KeptRequests :
          /\ q = [peer |-> q.peer, greeting |-> q.greeting, timestamp |-> q.timestamp]
          /\ q.peer \in Bytes /\ q.greeting \in Bytes
          /\ q.timestamp \in Nat /\ q.timestamp < Limit[U64]
<1>1. Limit[U64] \in Nat /\ Limit[1] = Base /\ Base \in Nat
  BY LimitPositive, LimitOne, Widths
<1>2. ASSUME NEW c \in KeptContacts
      PROVE  /\ c = [public_key |-> c.public_key, nickname |-> c.nickname,
                     trust |-> c.trust, last_seen |-> c.last_seen]
             /\ c.public_key \in Bytes /\ c.nickname \in Bytes
             /\ c.trust \in Nat /\ c.trust < Limit[1]
             /\ c.last_seen \in Nat /\ c.last_seen < Limit[U64]
  <2>1. c.trust \in 0 .. Base - 1 /\ c.last_seen \in 0 .. Limit[U64] - 1
    BY DEF KeptContacts, Byte
  <2> QED BY <1>1, <2>1 DEF KeptContacts
<1>3. ASSUME NEW m \in KeptMessages
      PROVE  /\ m = [peer |-> m.peer, text |-> m.text, outgoing |-> m.outgoing,
                     timestamp |-> m.timestamp]
             /\ m.peer \in Bytes /\ m.text \in Bytes /\ m.outgoing \in BOOLEAN
             /\ m.timestamp \in Nat /\ m.timestamp < Limit[U64]
  BY <1>1 DEF KeptMessages
<1>4. ASSUME NEW q \in KeptRequests
      PROVE  /\ q = [peer |-> q.peer, greeting |-> q.greeting, timestamp |-> q.timestamp]
             /\ q.peer \in Bytes /\ q.greeting \in Bytes
             /\ q.timestamp \in Nat /\ q.timestamp < Limit[U64]
  BY <1>1 DEF KeptRequests
<1> QED BY <1>2, <1>3, <1>4

LEMMA ContactBack ==
    ASSUME NEW c \in FitContacts
    PROVE  /\ PutContact(c) \in Bytes
           /\ \A t \in Bytes : \A r : r.ok /\ r.rest = Cat(PutContact(c), t)
                 => ReadContact(r) = Leaves(t, c)
<1> DEFINE k == put_bytes(c.public_key)
           n == put_bytes(c.nickname)
           u == put_uint(1, c.trust)
           s == put_uint(U64, c.last_seen)
<1>1. /\ c.public_key \in Strings /\ c.nickname \in Strings
      /\ c.trust \in Nat /\ c.trust < Limit[1] /\ c.last_seen \in Nat /\ c.last_seen < Limit[U64]
      /\ 1 \in Nat /\ U64 \in Nat
  BY Stored, Widths DEF FitContacts
<1>2. k \in Bytes /\ n \in Bytes /\ u \in Bytes /\ s \in Bytes
  BY <1>1, StringBytes, UintBytes
<1>3. PutContact(c) = Cat(Cat(Cat(k, n), u), s)
  BY DEF PutContact, Cat
<1> HIDE DEF k, n, u, s
<1>4. PutContact(c) \in Bytes
  BY <1>2, <1>3, CatBytes
<1>5. ASSUME NEW t \in Bytes, NEW r, r.ok, r.rest = Cat(PutContact(c), t)
      PROVE  ReadContact(r) = Leaves(t, c)
  <2> DEFINE t3 == Cat(s, t)
             t2 == Cat(u, t3)
             t1 == Cat(n, t2)
             r1 == Leaves(t1, c.public_key)
             r2 == Leaves(t2, c.nickname)
             r3 == Leaves(t3, c.trust)
             r4 == Leaves(t, c.last_seen)
  <2>1. t1 \in Bytes /\ t2 \in Bytes /\ t3 \in Bytes
    BY <1>2, CatBytes
  <2>2. r.rest = Cat(k, t1)
    <3>1. Cat(k, n) \in Bytes /\ Cat(Cat(k, n), u) \in Bytes
      BY <1>2, CatBytes
    <3>2. Cat(Cat(Cat(Cat(k, n), u), s), t) = Cat(Cat(Cat(k, n), u), t3)
      BY <1>2, <3>1, CatAssociative
    <3>3. Cat(Cat(Cat(k, n), u), t3) = Cat(Cat(k, n), t2)
      BY <1>2, <2>1, <3>1, CatAssociative
    <3>4. Cat(Cat(k, n), t2) = Cat(k, t1)
      BY <1>2, <2>1, CatAssociative
    <3> QED BY <1>3, <1>5, <3>2, <3>3, <3>4
  <2>3. /\ r1.ok /\ r1.rest = Cat(n, t2) /\ r2.ok /\ r2.rest = Cat(u, t3)
        /\ r3.ok /\ r3.rest = Cat(s, t)
    BY Leaving
  <2>4. /\ r1.value = c.public_key /\ r2.value = c.nickname /\ r3.value = c.trust
        /\ r4.value = c.last_seen /\ Made(r4, c) = Leaves(t, c)
    BY DEF Leaves, Made
  <2> HIDE DEF t1, t2, t3
  <2>5. read_bytes(r) = r1
    BY <1>1, <1>5, <2>1, <2>2, BytesLeaves DEF k
  <2> HIDE DEF r1
  <2>6. read_bytes(r1) = r2
    BY <1>1, <2>1, <2>3, BytesLeaves DEF n
  <2> HIDE DEF r2
  <2>7. read_uint(1, r2) = r3
    BY <1>1, <2>1, <2>3, UintLeaves DEF u
  <2> HIDE DEF r3
  <2>8. read_uint(U64, r3) = r4
    BY <1>1, <2>3, UintLeaves DEF s
  <2> HIDE DEF r4
  <2>9. c = [public_key |-> r1.value, nickname |-> r2.value,
             trust |-> r3.value, last_seen |-> r4.value]
    BY <2>4, Stored DEF FitContacts
  <2>10. ReadContact(r) = Made(r4, [public_key |-> r1.value, nickname |-> r2.value,
                                    trust |-> r3.value, last_seen |-> r4.value])
    BY <2>5, <2>6, <2>7, <2>8 DEF ReadContact
  <2> QED BY <2>4, <2>9, <2>10
<1> QED BY <1>4, <1>5

LEMMA MessageBack ==
    ASSUME NEW m \in FitMessages
    PROVE  /\ PutMessage(m) \in Bytes
           /\ \A t \in Bytes : \A r : r.ok /\ r.rest = Cat(PutMessage(m), t)
                 => ReadMessage(r) = Leaves(t, m)
<1> DEFINE o == IF m.outgoing THEN 1 ELSE 0
           k == put_bytes(m.peer)
           n == put_bytes(m.text)
           u == put_uint(1, o)
           s == put_uint(U64, m.timestamp)
<1>1. /\ m.peer \in Strings /\ m.text \in Strings
      /\ m.timestamp \in Nat /\ m.timestamp < Limit[U64]
      /\ 1 \in Nat /\ U64 \in Nat
  BY Stored, Widths DEF FitMessages
<1>2. o \in Nat /\ o < Limit[1] /\ (o # 0) = m.outgoing
  <2>1. Limit[1] \in Nat /\ Limit[1] > 1
    BY LimitPositive, LimitOne, Widths
  <2>2. m.outgoing \in BOOLEAN
    BY Stored DEF FitMessages
  <2>3. CASE m.outgoing = TRUE
    <3>1. o = 1
      BY <2>3
    <3> HIDE DEF o
    <3>2. o # 0 /\ o \in Nat /\ o < Limit[1]
      BY <2>1, <3>1
    <3>3. (o # 0) = m.outgoing
      BY <2>3, <3>2, Zenon
    <3> QED BY <3>2, <3>3
  <2>4. CASE m.outgoing = FALSE
    <3>1. o = 0
      BY <2>4
    <3> HIDE DEF o
    <3>2. ~(o # 0) /\ o \in Nat /\ o < Limit[1]
      BY <2>1, <3>1
    <3>3. (o # 0) = m.outgoing
      BY <2>4, <3>2, Zenon
    <3> QED BY <3>2, <3>3
  <2> QED BY <2>2, <2>3, <2>4
<1>3. PutMessage(m) = Cat(Cat(Cat(k, n), u), s)
  BY DEF PutMessage, Cat
<1> HIDE DEF o
<1>4. k \in Bytes /\ n \in Bytes /\ u \in Bytes /\ s \in Bytes
  BY <1>1, <1>2, StringBytes, UintBytes
<1> HIDE DEF k, n, u, s
<1>5. PutMessage(m) \in Bytes
  BY <1>3, <1>4, CatBytes
<1>6. ASSUME NEW t \in Bytes, NEW r, r.ok, r.rest = Cat(PutMessage(m), t)
      PROVE  ReadMessage(r) = Leaves(t, m)
  <2> DEFINE t3 == Cat(s, t)
             t2 == Cat(u, t3)
             t1 == Cat(n, t2)
             r1 == Leaves(t1, m.peer)
             r2 == Leaves(t2, m.text)
             r3 == Leaves(t3, o)
             r4 == Leaves(t, m.timestamp)
  <2>1. t1 \in Bytes /\ t2 \in Bytes /\ t3 \in Bytes
    BY <1>4, CatBytes
  <2>2. r.rest = Cat(k, t1)
    <3>1. Cat(k, n) \in Bytes /\ Cat(Cat(k, n), u) \in Bytes
      BY <1>4, CatBytes
    <3>2. Cat(Cat(Cat(Cat(k, n), u), s), t) = Cat(Cat(Cat(k, n), u), t3)
      BY <1>4, <3>1, CatAssociative
    <3>3. Cat(Cat(Cat(k, n), u), t3) = Cat(Cat(k, n), t2)
      BY <1>4, <2>1, <3>1, CatAssociative
    <3>4. Cat(Cat(k, n), t2) = Cat(k, t1)
      BY <1>4, <2>1, CatAssociative
    <3> QED BY <1>3, <1>6, <3>2, <3>3, <3>4
  <2>3. /\ r1.ok /\ r1.rest = Cat(n, t2) /\ r2.ok /\ r2.rest = Cat(u, t3)
        /\ r3.ok /\ r3.rest = Cat(s, t)
    BY Leaving
  <2>4. /\ r1.value = m.peer /\ r2.value = m.text /\ r3.value = o
        /\ r4.value = m.timestamp /\ Made(r4, m) = Leaves(t, m)
    BY DEF Leaves, Made
  <2> HIDE DEF t1, t2, t3
  <2>5. read_bytes(r) = r1
    BY <1>1, <1>6, <2>1, <2>2, BytesLeaves DEF k
  <2> HIDE DEF r1
  <2>6. read_bytes(r1) = r2
    BY <1>1, <2>1, <2>3, BytesLeaves DEF n
  <2> HIDE DEF r2
  <2>7. read_uint(1, r2) = r3
    BY <1>1, <1>2, <2>1, <2>3, UintLeaves DEF u
  <2> HIDE DEF r3
  <2>8. read_uint(U64, r3) = r4
    BY <1>1, <2>3, UintLeaves DEF s
  <2> HIDE DEF r4
  <2>9. m = [peer |-> r1.value, text |-> r2.value,
             outgoing |-> r3.value # 0, timestamp |-> r4.value]
    <3>1. (r3.value # 0) = m.outgoing
      BY <1>2, <2>4
    <3>2. m = [peer |-> m.peer, text |-> m.text, outgoing |-> m.outgoing,
               timestamp |-> m.timestamp]
      BY Stored DEF FitMessages
    <3> QED BY <2>4, <3>1, <3>2
  <2>10. ReadMessage(r) = Made(r4, [peer |-> r1.value, text |-> r2.value,
                                    outgoing |-> r3.value # 0, timestamp |-> r4.value])
    BY <2>5, <2>6, <2>7, <2>8 DEF ReadMessage
  <2> QED BY <2>4, <2>9, <2>10
<1> QED BY <1>5, <1>6

LEMMA RequestBack ==
    ASSUME NEW q \in FitRequests
    PROVE  /\ PutRequest(q) \in Bytes
           /\ \A t \in Bytes : \A r : r.ok /\ r.rest = Cat(PutRequest(q), t)
                 => ReadRequest(r) = Leaves(t, q)
<1> DEFINE k == put_bytes(q.peer)
           n == put_bytes(q.greeting)
           s == put_uint(U64, q.timestamp)
<1>1. /\ q.peer \in Strings /\ q.greeting \in Strings
      /\ q.timestamp \in Nat /\ q.timestamp < Limit[U64] /\ U64 \in Nat
  BY Stored, Widths DEF FitRequests
<1>2. k \in Bytes /\ n \in Bytes /\ s \in Bytes
  BY <1>1, StringBytes, UintBytes
<1>3. PutRequest(q) = Cat(Cat(k, n), s)
  BY DEF PutRequest, Cat
<1> HIDE DEF k, n, s
<1>4. PutRequest(q) \in Bytes
  BY <1>2, <1>3, CatBytes
<1>5. ASSUME NEW t \in Bytes, NEW r, r.ok, r.rest = Cat(PutRequest(q), t)
      PROVE  ReadRequest(r) = Leaves(t, q)
  <2> DEFINE t2 == Cat(s, t)
             t1 == Cat(n, t2)
             r1 == Leaves(t1, q.peer)
             r2 == Leaves(t2, q.greeting)
             r3 == Leaves(t, q.timestamp)
  <2>1. t1 \in Bytes /\ t2 \in Bytes
    BY <1>2, CatBytes
  <2>2. r.rest = Cat(k, t1)
    <3>1. Cat(k, n) \in Bytes
      BY <1>2, CatBytes
    <3>2. Cat(Cat(Cat(k, n), s), t) = Cat(Cat(k, n), t2)
      BY <1>2, <3>1, CatAssociative
    <3>3. Cat(Cat(k, n), t2) = Cat(k, t1)
      BY <1>2, <2>1, CatAssociative
    <3> QED BY <1>3, <1>5, <3>2, <3>3
  <2>3. r1.ok /\ r1.rest = Cat(n, t2) /\ r2.ok /\ r2.rest = Cat(s, t)
    BY Leaving
  <2>4. /\ r1.value = q.peer /\ r2.value = q.greeting /\ r3.value = q.timestamp
        /\ Made(r3, q) = Leaves(t, q)
    BY DEF Leaves, Made
  <2> HIDE DEF t1, t2
  <2>5. read_bytes(r) = r1
    BY <1>1, <1>5, <2>1, <2>2, BytesLeaves DEF k
  <2> HIDE DEF r1
  <2>6. read_bytes(r1) = r2
    BY <1>1, <2>1, <2>3, BytesLeaves DEF n
  <2> HIDE DEF r2
  <2>7. read_uint(U64, r2) = r3
    BY <1>1, <2>3, UintLeaves DEF s
  <2> HIDE DEF r3
  <2>8. q = [peer |-> r1.value, greeting |-> r2.value, timestamp |-> r3.value]
    BY <2>4, Stored DEF FitRequests
  <2>9. ReadRequest(r) = Made(r3, [peer |-> r1.value, greeting |-> r2.value,
                                   timestamp |-> r3.value])
    BY <2>5, <2>6, <2>7 DEF ReadRequest
  <2> QED BY <2>4, <2>8, <2>9
<1> QED BY <1>4, <1>5

LEMMA KeptBytes ==
    /\ \A c \in KeptContacts : PutContact(c) \in Bytes
    /\ \A m \in KeptMessages : PutMessage(m) \in Bytes
    /\ \A q \in KeptRequests : PutRequest(q) \in Bytes
<1>1. 1 \in Nat /\ U64 \in Nat
  BY Widths
<1>2. ASSUME NEW c \in KeptContacts PROVE PutContact(c) \in Bytes
  <2>1. /\ put_bytes(c.public_key) \in Bytes /\ put_bytes(c.nickname) \in Bytes
        /\ put_uint(1, c.trust) \in Bytes /\ put_uint(U64, c.last_seen) \in Bytes
    BY <1>1, Stored, AnyStringBytes, UintBytes
  <2>2. PutContact(c) = Cat(Cat(Cat(put_bytes(c.public_key), put_bytes(c.nickname)),
                                put_uint(1, c.trust)), put_uint(U64, c.last_seen))
    BY DEF PutContact, Cat
  <2> QED BY <2>1, <2>2, CatBytes
<1>3. ASSUME NEW m \in KeptMessages PROVE PutMessage(m) \in Bytes
  <2> DEFINE o == IF m.outgoing THEN 1 ELSE 0
  <2>1. o \in Nat
    OBVIOUS
  <2>2. PutMessage(m) = Cat(Cat(Cat(put_bytes(m.peer), put_bytes(m.text)),
                                put_uint(1, o)), put_uint(U64, m.timestamp))
    BY DEF PutMessage, Cat
  <2> HIDE DEF o
  <2>3. /\ put_bytes(m.peer) \in Bytes /\ put_bytes(m.text) \in Bytes
        /\ put_uint(1, o) \in Bytes /\ put_uint(U64, m.timestamp) \in Bytes
    BY <1>1, <2>1, Stored, AnyStringBytes, UintBytes
  <2> QED BY <2>2, <2>3, CatBytes
<1>4. ASSUME NEW q \in KeptRequests PROVE PutRequest(q) \in Bytes
  <2>1. /\ put_bytes(q.peer) \in Bytes /\ put_bytes(q.greeting) \in Bytes
        /\ put_uint(U64, q.timestamp) \in Bytes
    BY <1>1, Stored, AnyStringBytes, UintBytes
  <2>2. PutRequest(q) = Cat(Cat(put_bytes(q.peer), put_bytes(q.greeting)),
                            put_uint(U64, q.timestamp))
    BY DEF PutRequest, Cat
  <2> QED BY <2>1, <2>2, CatBytes
<1> QED BY <1>2, <1>3, <1>4

\* What the lists of each kind hold, and the part of it that fits.
Kept(kind) ==
    CASE kind = "contact" -> KeptContacts
      [] kind = "message" -> KeptMessages
      [] kind = "request" -> KeptRequests

Elements(kind) ==
    CASE kind = "contact" -> FitContacts
      [] kind = "message" -> FitMessages
      [] kind = "request" -> FitRequests

Kinds == {"contact", "message", "request"}

LEMMA ElementKept ==
    ASSUME NEW kind \in Kinds
    PROVE  /\ \A e \in Kept(kind) : PutElement(kind, e) \in Bytes
           /\ Elements(kind) \subseteq Kept(kind)
<1>1. CASE kind = "contact"
  <2>1. /\ Kept(kind) = KeptContacts /\ Elements(kind) = FitContacts
        /\ \A e : PutElement(kind, e) = PutContact(e)
    BY <1>1 DEF Elements, Kept, PutElement
  <2> QED BY <2>1, KeptBytes DEF FitContacts
<1>2. CASE kind = "message"
  <2>1. /\ Kept(kind) = KeptMessages /\ Elements(kind) = FitMessages
        /\ \A e : PutElement(kind, e) = PutMessage(e)
    BY <1>2 DEF Elements, Kept, PutElement
  <2> QED BY <2>1, KeptBytes DEF FitMessages
<1>3. CASE kind = "request"
  <2>1. /\ Kept(kind) = KeptRequests /\ Elements(kind) = FitRequests
        /\ \A e : PutElement(kind, e) = PutRequest(e)
    BY <1>3 DEF Elements, Kept, PutElement
  <2> QED BY <2>1, KeptBytes DEF FitRequests
<1> QED BY <1>1, <1>2, <1>3 DEF Kinds

LEMMA ElementBack ==
    ASSUME NEW kind \in Kinds, NEW e \in Elements(kind)
    PROVE  /\ PutElement(kind, e) \in Bytes
           /\ \A t \in Bytes : \A r : r.ok /\ r.rest = Cat(PutElement(kind, e), t)
                 => ReadElement(kind, r) = Leaves(t, e)
<1>1. CASE kind = "contact"
  <2>1. /\ e \in FitContacts /\ PutElement(kind, e) = PutContact(e)
        /\ \A r : ReadElement(kind, r) = ReadContact(r)
    BY <1>1 DEF Elements, PutElement, ReadElement
  <2> QED BY <2>1, ContactBack
<1>2. CASE kind = "message"
  <2>1. /\ e \in FitMessages /\ PutElement(kind, e) = PutMessage(e)
        /\ \A r : ReadElement(kind, r) = ReadMessage(r)
    BY <1>2 DEF Elements, PutElement, ReadElement
  <2> QED BY <2>1, MessageBack
<1>3. CASE kind = "request"
  <2>1. /\ e \in FitRequests /\ PutElement(kind, e) = PutRequest(e)
        /\ \A r : ReadElement(kind, r) = ReadRequest(r)
    BY <1>3 DEF Elements, PutElement, ReadElement
  <2> QED BY <2>1, RequestBack
<1> QED BY <1>1, <1>2, <1>3 DEF Kinds

-----------------------------------------------------------------------------
(* What one of them is when it was read, from whatever bytes *)

Cursor(r) == r.ok \in BOOLEAN /\ r.rest \in Bytes

\* The value of a failed read is 0.
LooseStrings == Bytes \cup {0}

LEMMA UintCursor ==
    ASSUME NEW n \in Nat, NEW r, Cursor(r)
    PROVE  /\ Cursor(read_uint(n, r)) /\ read_uint(n, r).value \in Nat
           /\ read_uint(n, r).ok => r.ok /\ read_uint(n, r).value < Limit[n]
<1> DEFINE a == read_uint(n, r)
<1>1. r.ok \in BOOLEAN /\ r.rest \in Bytes
  BY DEF Cursor
<1>2. CASE r.ok /\ n <= Len(r.rest)
  <2>1. a.ok = TRUE
    BY <1>2 DEF read_uint, Taken
  <2> QED BY <1>1, <2>1, UintRead DEF Cursor
<1>3. CASE ~(r.ok /\ n <= Len(r.rest))
  <2>1. a = [ok |-> FALSE, rest |-> r.rest, value |-> 0]
    BY <1>3 DEF read_uint, Failed
  <2> QED BY <1>1, <2>1 DEF Cursor
<1> QED BY <1>2, <1>3

LEMMA BytesCursor ==
    ASSUME NEW r, Cursor(r)
    PROVE  /\ Cursor(read_bytes(r)) /\ read_bytes(r).value \in LooseStrings
           /\ read_bytes(r).ok => r.ok /\ read_bytes(r).value \in Strings
<1> DEFINE n == get_uint(SubSeq(r.rest, 1, U16))
           a == read_bytes(r)
           C == r.ok /\ U16 <= Len(r.rest) /\ U16 + n <= Len(r.rest)
<1>1. r.ok \in BOOLEAN /\ r.rest \in Bytes
  BY DEF Cursor
<1>2. CASE C
  <2>1. a.ok = TRUE
    BY <1>2 DEF read_bytes, Taken
  <2>2. a.value \in Strings /\ a.rest \in Bytes /\ r.ok
    BY <1>1, <2>1, BytesRead
  <2> QED BY <2>1, <2>2 DEF Cursor, LooseStrings, Strings, Bytes
<1>3. CASE ~C
  <2>1. a = [ok |-> FALSE, rest |-> r.rest, value |-> 0]
    BY <1>3 DEF read_bytes, Failed
  <2> QED BY <1>1, <2>1 DEF Cursor, LooseStrings
<1> QED BY <1>2, <1>3

Loose(kind) ==
    CASE kind = "contact" -> [public_key : LooseStrings, nickname : LooseStrings,
                              trust : Nat, last_seen : Nat]
      [] kind = "message" -> [peer : LooseStrings, text : LooseStrings,
                              outgoing : BOOLEAN, timestamp : Nat]
      [] kind = "request" -> [peer : LooseStrings, greeting : LooseStrings, timestamp : Nat]

LEMMA Bounded ==
    /\ \A v \in Nat : v < Limit[1] => v \in Byte
    /\ \A v \in Nat : v < Limit[U64] => v \in 0 .. Limit[U64] - 1
    /\ \A b \in Strings : b \in Bytes
<1>1. Limit[1] = Base /\ Base \in Nat /\ Limit[U64] \in Nat
  BY LimitPositive, LimitOne, Widths
<1> QED BY <1>1 DEF Byte, Strings, Bytes

LEMMA MadeIs ==
    ASSUME NEW r, NEW v
    PROVE  Made(r, v).ok = r.ok /\ Made(r, v).rest = r.rest /\ Made(r, v).value = v
BY DEF Made

LEMMA ContactRead ==
    ASSUME NEW r, Cursor(r)
    PROVE  LET e == ReadContact(r)
           IN  /\ Cursor(e) /\ e.value \in Loose("contact")
               /\ e.ok => r.ok /\ e.value \in FitContacts
<1> DEFINE key == read_bytes(r)
           name == read_bytes(key)
           tr == read_uint(1, name)
           seen == read_uint(U64, tr)
           v == [public_key |-> key.value, nickname |-> name.value,
                 trust |-> tr.value, last_seen |-> seen.value]
           e == ReadContact(r)
<1>1. Cursor(key) /\ key.value \in LooseStrings /\ (key.ok => r.ok /\ key.value \in Strings)
  BY BytesCursor
<1>2. e = Made(seen, v)
  BY DEF ReadContact
<1> HIDE DEF key, e
<1>3. Cursor(name) /\ name.value \in LooseStrings /\ (name.ok => key.ok /\ name.value \in Strings)
  BY <1>1, BytesCursor
<1> HIDE DEF name
<1>4. Cursor(tr) /\ tr.value \in Nat /\ (tr.ok => name.ok /\ tr.value < Limit[1])
  BY <1>3, UintCursor
<1> HIDE DEF tr
<1>5. Cursor(seen) /\ seen.value \in Nat /\ (seen.ok => tr.ok /\ seen.value < Limit[U64])
  BY <1>4, UintCursor, Widths
<1> HIDE DEF seen
<1>6. v \in Loose("contact")
  BY <1>1, <1>3, <1>4, <1>5 DEF Loose
<1>7. ASSUME seen.ok PROVE r.ok /\ v \in FitContacts
  <2>1. /\ key.value \in Strings /\ name.value \in Strings /\ r.ok
        /\ key.value \in Bytes /\ name.value \in Bytes
        /\ tr.value \in Byte /\ seen.value \in 0 .. Limit[U64] - 1
    BY <1>1, <1>3, <1>4, <1>5, <1>7, Bounded
  <2> QED BY <2>1 DEF FitContacts, KeptContacts
<1> HIDE DEF v
<1>8. e.ok = seen.ok /\ e.rest = seen.rest /\ e.value = v
  BY <1>2, MadeIs
<1> QED BY <1>5, <1>6, <1>7, <1>8 DEF Cursor, e

LEMMA MessageRead ==
    ASSUME NEW r, Cursor(r)
    PROVE  LET e == ReadMessage(r)
           IN  /\ Cursor(e) /\ e.value \in Loose("message")
               /\ e.ok => r.ok /\ e.value \in FitMessages
<1> DEFINE peer == read_bytes(r)
           text == read_bytes(peer)
           og == read_uint(1, text)
           ts == read_uint(U64, og)
           out == og.value # 0
           v == [peer |-> peer.value, text |-> text.value,
                 outgoing |-> out, timestamp |-> ts.value]
           e == ReadMessage(r)
<1>1. Cursor(peer) /\ peer.value \in LooseStrings /\ (peer.ok => r.ok /\ peer.value \in Strings)
  BY BytesCursor
<1>2. e = Made(ts, v)
  BY DEF ReadMessage
<1> HIDE DEF peer, e
<1>3. Cursor(text) /\ text.value \in LooseStrings /\ (text.ok => peer.ok /\ text.value \in Strings)
  BY <1>1, BytesCursor
<1> HIDE DEF text
<1>4. Cursor(og) /\ (og.ok => text.ok)
  BY <1>3, UintCursor
<1>5. out \in BOOLEAN
  OBVIOUS
<1> HIDE DEF og, out
<1>6. Cursor(ts) /\ ts.value \in Nat /\ (ts.ok => og.ok /\ ts.value < Limit[U64])
  BY <1>4, UintCursor, Widths
<1> HIDE DEF ts
<1>7. v \in Loose("message")
  BY <1>1, <1>3, <1>5, <1>6 DEF Loose
<1>8. ASSUME ts.ok PROVE r.ok /\ v \in FitMessages
  <2>1. /\ peer.value \in Strings /\ text.value \in Strings /\ r.ok
        /\ peer.value \in Bytes /\ text.value \in Bytes
        /\ ts.value \in 0 .. Limit[U64] - 1
    BY <1>1, <1>3, <1>4, <1>6, <1>8, Bounded
  <2> QED BY <1>5, <2>1 DEF FitMessages, KeptMessages
<1> HIDE DEF v
<1>9. e.ok = ts.ok /\ e.rest = ts.rest /\ e.value = v
  BY <1>2, MadeIs
<1> QED BY <1>6, <1>7, <1>8, <1>9 DEF Cursor, e

LEMMA RequestRead ==
    ASSUME NEW r, Cursor(r)
    PROVE  LET e == ReadRequest(r)
           IN  /\ Cursor(e) /\ e.value \in Loose("request")
               /\ e.ok => r.ok /\ e.value \in FitRequests
<1> DEFINE peer == read_bytes(r)
           greet == read_bytes(peer)
           ts == read_uint(U64, greet)
           v == [peer |-> peer.value, greeting |-> greet.value, timestamp |-> ts.value]
           e == ReadRequest(r)
<1>1. Cursor(peer) /\ peer.value \in LooseStrings /\ (peer.ok => r.ok /\ peer.value \in Strings)
  BY BytesCursor
<1>2. e = Made(ts, v)
  BY DEF ReadRequest
<1> HIDE DEF peer, e
<1>3. Cursor(greet) /\ greet.value \in LooseStrings /\ (greet.ok => peer.ok /\ greet.value \in Strings)
  BY <1>1, BytesCursor
<1> HIDE DEF greet
<1>4. Cursor(ts) /\ ts.value \in Nat /\ (ts.ok => greet.ok /\ ts.value < Limit[U64])
  BY <1>3, UintCursor, Widths
<1> HIDE DEF ts
<1>5. v \in Loose("request")
  BY <1>1, <1>3, <1>4 DEF Loose
<1>6. ASSUME ts.ok PROVE r.ok /\ v \in FitRequests
  <2>1. /\ peer.value \in Strings /\ greet.value \in Strings /\ r.ok
        /\ peer.value \in Bytes /\ greet.value \in Bytes
        /\ ts.value \in 0 .. Limit[U64] - 1
    BY <1>1, <1>3, <1>4, <1>6, Bounded
  <2> QED BY <2>1 DEF FitRequests, KeptRequests
<1> HIDE DEF v
<1>7. e.ok = ts.ok /\ e.rest = ts.rest /\ e.value = v
  BY <1>2, MadeIs
<1> QED BY <1>4, <1>5, <1>6, <1>7 DEF Cursor, e

\* Whatever was read has strings as long as their lengths say, and no longer.
LEMMA ElementRead ==
    ASSUME NEW kind \in Kinds, NEW r, Cursor(r)
    PROVE  LET e == ReadElement(kind, r)
           IN  /\ Cursor(e) /\ e.value \in Loose(kind)
               /\ e.ok => r.ok /\ e.value \in Elements(kind)
<1>1. CASE kind = "contact"
  <2>1. Elements(kind) = FitContacts /\ ReadElement(kind, r) = ReadContact(r)
    BY <1>1 DEF Elements, ReadElement
  <2> QED BY <1>1, <2>1, ContactRead
<1>2. CASE kind = "message"
  <2>1. Elements(kind) = FitMessages /\ ReadElement(kind, r) = ReadMessage(r)
    BY <1>2 DEF Elements, ReadElement
  <2> QED BY <1>2, <2>1, MessageRead
<1>3. CASE kind = "request"
  <2>1. Elements(kind) = FitRequests /\ ReadElement(kind, r) = ReadRequest(r)
    BY <1>3 DEF Elements, ReadElement
  <2> QED BY <1>3, <2>1, RequestRead
<1> QED BY <1>1, <1>2, <1>3 DEF Kinds

-----------------------------------------------------------------------------
(* A list of them *)

LEMMA PutElementsFacts ==
    ASSUME NEW kind \in Kinds, NEW s \in Seq(Kept(kind))
    PROVE  LET P == PutElements(kind, s)
           IN  /\ \A n \in 0 .. Len(s) : P[n] \in Bytes
               /\ P[0] = <<>>
               /\ \A n \in Nat : n + 1 <= Len(s)
                     => P[n + 1] = Cat(P[n], PutElement(kind, s[n + 1]))
<1> DEFINE D == 0 .. Len(s)
           one == [n \in Nat |-> IF n + 1 <= Len(s) THEN PutElement(kind, s[n + 1]) ELSE <<>>]
           step == [n \in Nat |-> [x \in Bytes |-> Cat(x, one[n])]]
           Body(f, n) == IF n = 0 THEN <<>> ELSE f[n - 1] \o PutElement(kind, s[n])
           P == PutElements(kind, s)
<1>1. Len(s) \in Nat /\ D \subseteq Nat /\ 0 \in D /\ \A n \in D : n # 0 => n - 1 \in D
  BY LenProperties
<1>2. \A n \in 1 .. Len(s) : PutElement(kind, s[n]) \in Bytes
  <2>1. \A n \in 1 .. Len(s) : s[n] \in Kept(kind)
    BY ElementOfSeq
  <2> QED BY <2>1, ElementKept
<1>3. one \in [Nat -> Bytes]
  BY <1>1, <1>2, EmptyBytes
<1>4. \A n \in Nat : n + 1 <= Len(s) => one[n] = PutElement(kind, s[n + 1])
  OBVIOUS
<1> HIDE DEF one
<1>5. step \in [Nat -> [Bytes -> Bytes]] /\ \A n \in Nat : \A x \in Bytes : step[n][x] = Cat(x, one[n])
  BY <1>3, CatBytes
<1> HIDE DEF step
<1>6. PICK f : Unfolds(f, D, <<>>, step)
  <2> HIDE DEF D
  <2> QED BY <1>1, <1>5, RecursiveForm, EmptyBytes
<1>7. \A n \in D : f[n] \in Bytes
  <2> HIDE DEF D
  <2> QED BY <1>1, <1>5, <1>6, Unfolded, EmptyBytes
<1>8. f = [n \in D |-> Body(f, n)]
  <2>1. ASSUME NEW n \in D
        PROVE  (IF n = 0 THEN <<>> ELSE step[n - 1][f[n - 1]]) = Body(f, n)
    <3>1. CASE n = 0
      BY <3>1
    <3>2. CASE n # 0
      <4>1. n - 1 \in Nat /\ n - 1 \in D /\ (n - 1) + 1 = n /\ n <= Len(s)
        BY <1>1, <3>2
      <4>2. step[n - 1][f[n - 1]] = Cat(f[n - 1], one[n - 1])
        BY <1>5, <1>7, <4>1
      <4>3. one[n - 1] = PutElement(kind, s[n])
        BY <1>4, <4>1
      <4> QED BY <3>2, <4>2, <4>3 DEF Cat
    <3> QED BY <3>1, <3>2
  <2> HIDE DEF Body, D
  <2> QED BY <1>6, <2>1, Zenon DEF Unfolds
<1>9. P = [n \in D |-> Body(P, n)]
  BY <1>8, Zenon DEF PutElements
<1> HIDE DEF P
<1>10. \A n \in D : P[n] = Body(P, n)
  <2> HIDE DEF Body, D
  <2> QED BY <1>9, Zenon
<1>11. P[0] = <<>>
  BY <1>1, <1>10
<1>12. ASSUME NEW n \in Nat, n + 1 <= Len(s)
       PROVE  P[n + 1] = Cat(P[n], PutElement(kind, s[n + 1]))
  <2>1. n + 1 \in D /\ n + 1 # 0 /\ (n + 1) - 1 = n
    BY <1>1, <1>12
  <2>2. P[n + 1] = P[(n + 1) - 1] \o PutElement(kind, s[n + 1])
    BY <1>10, <2>1
  <2> QED BY <2>1, <2>2 DEF Cat
<1> DEFINE S == {n \in Nat : n <= Len(s) => P[n] \in Bytes}
<1>13. 0 \in S
  BY <1>11, EmptyBytes
<1>14. ASSUME NEW n \in Nat, n \in S PROVE n + 1 \in S
  <2> SUFFICES ASSUME n + 1 <= Len(s) PROVE P[n + 1] \in Bytes
    OBVIOUS
  <2>1. P[n] \in Bytes /\ n + 1 \in 1 .. Len(s)
    BY <1>1, <1>14
  <2> QED BY <1>2, <1>12, <2>1, CatBytes
<1> HIDE DEF S
<1>15. \A n \in Nat : n \in S
  BY <1>13, <1>14, Induction
<1> QED BY <1>1, <1>11, <1>12, <1>15 DEF S, P

\* What follows the first elements of a list, up to its end.
LEMMA Remainders ==
    ASSUME NEW kind \in Kinds, NEW s \in Seq(Kept(kind))
    PROVE  LET P == PutElements(kind, s)
           IN  \E T \in [0 .. Len(s) -> Bytes] :
                  /\ T[0] = P[Len(s)]
                  /\ T[Len(s)] = <<>>
                  /\ \A n \in Nat : n + 1 <= Len(s)
                        => T[n] = Cat(PutElement(kind, s[n + 1]), T[n + 1])
<1> DEFINE P == PutElements(kind, s)
           E(n) == PutElement(kind, s[n])
           l == Len(s)
           S == {j \in Nat : j <= l => \E x \in Bytes : P[l] = Cat(P[l - j], x)}
<1>1. l \in Nat /\ \A n \in 1 .. l : E(n) \in Bytes
  <2>1. \A n \in 1 .. l : s[n] \in Kept(kind)
    BY ElementOfSeq
  <2> QED BY <2>1, LenProperties, ElementKept
<1>2. /\ \A n \in 0 .. l : P[n] \in Bytes
      /\ P[0] = <<>>
      /\ \A n \in Nat : n + 1 <= l => P[n + 1] = Cat(P[n], E(n + 1))
  BY PutElementsFacts
<1> HIDE DEF P, E, l
<1>3. 0 \in S
  <2>1. l - 0 = l /\ P[l] \in Bytes
    BY <1>1, <1>2
  <2>2. P[l] = Cat(P[l], <<>>)
    BY <2>1, CatEmpty
  <2> QED BY <2>1, <2>2, EmptyBytes
<1>4. ASSUME NEW j \in Nat, j \in S PROVE j + 1 \in S
  <2> SUFFICES ASSUME j + 1 <= l PROVE \E x \in Bytes : P[l] = Cat(P[l - (j + 1)], x)
    OBVIOUS
  <2> DEFINE n == l - (j + 1)
  <2>1. /\ n \in Nat /\ n + 1 <= l /\ n + 1 = l - j /\ j <= l
        /\ n \in 0 .. l /\ n + 1 \in 1 .. l
    BY <1>1
  <2> HIDE DEF n
  <2>2. PICK x \in Bytes : P[l] = Cat(P[n + 1], x)
    BY <1>4, <2>1
  <2>3. P[n + 1] = Cat(P[n], E(n + 1)) /\ P[n] \in Bytes /\ E(n + 1) \in Bytes
    BY <1>1, <1>2, <2>1
  <2>4. P[l] = Cat(P[n], Cat(E(n + 1), x)) /\ Cat(E(n + 1), x) \in Bytes
    <3>1. \A a, b, c \in Bytes : Cat(Cat(a, b), c) = Cat(a, Cat(b, c)) /\ Cat(b, c) \in Bytes
      BY CatAssociative, CatBytes
    <3>2. Cat(Cat(P[n], E(n + 1)), x) = Cat(P[n], Cat(E(n + 1), x)) /\ Cat(E(n + 1), x) \in Bytes
      BY <2>3, <3>1
    <3> QED BY <2>2, <2>3, <3>2
  <2> QED BY <2>4 DEF n
<1>5. \A j \in Nat : j \in S
  <2> HIDE DEF S
  <2> QED BY <1>3, <1>4, Induction
<1>6. \A n \in 0 .. l : \E x \in Bytes : P[l] = Cat(P[n], x)
  <2> TAKE n \in 0 .. l
  <2>1. l - n \in Nat /\ l - n <= l /\ l - (l - n) = n
    BY <1>1
  <2> QED BY <1>5, <2>1
<1> HIDE DEF S
<1> DEFINE T == [n \in 0 .. l |-> CHOOSE x \in Bytes : P[l] = Cat(P[n], x)]
<1>7. \A n \in 0 .. l : T[n] \in Bytes /\ P[l] = Cat(P[n], T[n])
  BY <1>6
<1>8. T \in [0 .. l -> Bytes]
  BY <1>7
<1> HIDE DEF T
<1>9. T[0] = P[l]
  <2>1. 0 \in 0 .. l
    BY <1>1
  <2> QED BY <1>2, <1>7, <2>1, CatEmpty
<1>10. T[l] = <<>>
  <2>1. l \in 0 .. l
    BY <1>1
  <2>2. T[l] \in Bytes /\ P[l] \in Bytes /\ Cat(P[l], T[l]) = Cat(P[l], <<>>)
    BY <1>2, <1>7, <2>1, CatEmpty
  <2> QED BY <2>2, CatCancel, EmptyBytes
<1>11. ASSUME NEW n \in Nat, n + 1 <= l PROVE T[n] = Cat(E(n + 1), T[n + 1])
  <2>1. n \in 0 .. l /\ n + 1 \in 0 .. l /\ n + 1 \in 1 .. l
    BY <1>1, <1>11
  <2>2. /\ P[n] \in Bytes /\ E(n + 1) \in Bytes /\ T[n] \in Bytes /\ T[n + 1] \in Bytes
        /\ P[n + 1] = Cat(P[n], E(n + 1))
        /\ P[l] = Cat(P[n], T[n]) /\ P[l] = Cat(P[n + 1], T[n + 1])
    BY <1>1, <1>2, <1>7, <1>11, <2>1
  <2>3. Cat(P[n], T[n]) = Cat(P[n], Cat(E(n + 1), T[n + 1])) /\ Cat(E(n + 1), T[n + 1]) \in Bytes
    <3>1. \A a, b, c \in Bytes : Cat(Cat(a, b), c) = Cat(a, Cat(b, c)) /\ Cat(b, c) \in Bytes
      BY CatAssociative, CatBytes
    <3>2. /\ Cat(Cat(P[n], E(n + 1)), T[n + 1]) = Cat(P[n], Cat(E(n + 1), T[n + 1]))
          /\ Cat(E(n + 1), T[n + 1]) \in Bytes
      BY <2>2, <3>1
    <3> QED BY <2>2, <3>2
  <2> QED BY <2>2, <2>3, CatCancel
<1>12. \A n \in Nat : n + 1 <= l => T[n] = Cat(E(n + 1), T[n + 1])
  BY <1>11
<1> QED BY <1>8, <1>9, <1>10, <1>12 DEF P, l, E

\* The loop that reads as many elements as were written gives them and stops
\* behind them.
LEMMA ElementsBack ==
    ASSUME NEW kind \in Kinds, NEW s \in Seq(Kept(kind)),
           \A n \in 1 .. Len(s) : s[n] \in Elements(kind),
           NEW t \in Bytes, NEW r, r.ok = TRUE,
           r.rest = Cat(PutElements(kind, s)[Len(s)], t)
    PROVE  ReadElements(kind, r, Len(s))[Len(s)] = Leaves(t, s)
<1> DEFINE l == Len(s)
           D == 0 .. l
           E(n) == PutElement(kind, s[n])
           A == ReadElements(kind, r, l)
           Next1(c) == ReadNext(kind, c)
           Body(f, k) == IF k = 0 THEN Made(r, <<>>) ELSE Next1(f[k - 1])
<1>1. l \in Nat /\ \A n \in 1 .. l : s[n] \in Elements(kind)
  BY LenProperties
<1>2. PICK T \in [0 .. l -> Bytes] :
          /\ T[0] = PutElements(kind, s)[l]
          /\ T[l] = <<>>
          /\ \A n \in Nat : n + 1 <= l => T[n] = Cat(E(n + 1), T[n + 1])
  BY Remainders
<1> DEFINE W == [k \in D |-> Leaves(Cat(T[k], t), SubSeq(s, 1, k))]
<1>3. W = [k \in D |-> Body(W, k)]
  <2>1. ASSUME NEW k \in D PROVE W[k] = Body(W, k)
    <3>1. CASE k = 0
      <4>1. W[0] = Leaves(Cat(T[0], t), <<>>)
        <5>1. SubSeq(s, 1, 0) = <<>> /\ 0 \in D
          BY <1>1, SubSeqEmpty
        <5>2. W[0] = Leaves(Cat(T[0], t), SubSeq(s, 1, 0))
          BY <5>1
        <5> QED BY <5>1, <5>2
      <4>2. Made(r, <<>>) = Leaves(Cat(T[0], t), <<>>)
        BY <1>2 DEF Made, Leaves
      <4> QED BY <3>1, <4>1, <4>2
    <3>2. CASE k # 0
      <4> DEFINE j == k - 1
                 c == W[j]
                 rest == Cat(T[k], t)
      <4>1. j \in Nat /\ j + 1 = k /\ j + 1 <= l /\ k \in 1 .. l /\ j \in D /\ k \in D
        BY <1>1, <3>2
      <4>2. c = Leaves(Cat(T[j], t), SubSeq(s, 1, j))
        BY <4>1
      <4>3. W[k] = Leaves(rest, SubSeq(s, 1, k))
        OBVIOUS
      <4> HIDE DEF W, j
      <4>4. c.ok = TRUE /\ c.rest = Cat(T[j], t) /\ c.value = SubSeq(s, 1, j)
        <5> HIDE DEF c
        <5> QED BY <4>2, Leaving
      <4>5. T[j] = Cat(E(k), T[k]) /\ T[k] \in Bytes /\ E(k) \in Bytes /\ s[k] \in Elements(kind)
            /\ s[k] \in Kept(kind)
        BY <1>1, <1>2, <4>1, ElementBack, ElementKept
      <4>6. c.rest = Cat(E(k), rest) /\ rest \in Bytes
        BY <4>4, <4>5, CatAssociative, CatBytes
      <4> HIDE DEF c, rest
      <4>7. ReadElement(kind, c) = Leaves(rest, s[k])
        BY <4>4, <4>5, <4>6, ElementBack
      <4>8. Next1(c) = Leaves(rest, Append(SubSeq(s, 1, j), s[k]))
        BY <4>4, <4>7 DEF ReadNext, WithOne, Made, Leaves
      <4>9. Append(SubSeq(s, 1, j), s[k]) = SubSeq(s, 1, k)
        <5> DEFINE a == SubSeq(s, 1, j)
                   b == SubSeq(s, 1, k)
                   d == Append(a, s[k])
        <5>1. j \in Nat /\ k \in Nat /\ 1 <= j + 1 /\ 1 <= k + 1 /\ j <= Len(s) /\ k <= Len(s)
          BY <4>1, <1>1 DEF l
        <5>2. /\ a \in Seq(Kept(kind)) /\ Len(a) = j - 1 + 1
              /\ \A i \in 1 .. j - 1 + 1 : a[i] = s[1 + i - 1]
          BY <5>1, PartOf
        <5>3. /\ b \in Seq(Kept(kind)) /\ Len(b) = k - 1 + 1
              /\ \A i \in 1 .. k - 1 + 1 : b[i] = s[1 + i - 1]
          BY <5>1, PartOf
        <5> HIDE DEF a, b
        <5>4. /\ d \in Seq(Kept(kind)) /\ Len(d) = Len(a) + 1
              /\ \A i \in 1 .. Len(a) : d[i] = a[i]
              /\ d[Len(a) + 1] = s[k]
          BY <4>5, <5>2, AppendProperties
        <5> HIDE DEF d
        <5>5. Len(d) = k /\ Len(b) = k /\ Len(a) = j
          BY <4>1, <5>1, <5>2, <5>3, <5>4
        <5>6. ASSUME NEW i \in 1 .. k PROVE d[i] = b[i]
          <6>1. b[i] = s[i]
            BY <5>1, <5>3
          <6>2. CASE i = k
            BY <4>1, <5>4, <5>5, <6>1, <6>2
          <6>3. CASE i # k
            <7>1. i \in 1 .. j /\ i \in 1 .. j - 1 + 1 /\ 1 + i - 1 = i
              BY <4>1, <5>1, <6>3
            <7> QED BY <5>2, <5>4, <5>5, <6>1, <7>1
          <6> QED BY <6>2, <6>3
        <5>7. d = b
          BY <5>3, <5>4, <5>5, <5>6, SeqEqual
        <5> QED BY <5>7 DEF a, b, d
      <4>10. Body(W, k) = Next1(c)
        BY <3>2 DEF c, j
      <4> HIDE DEF Next1, Body
      <4> QED BY <4>3, <4>8, <4>9, <4>10
    <3> QED BY <3>1, <3>2
  <2>2. W = [k \in D |-> W[k]]
    OBVIOUS
  <2> HIDE DEF W, Body, D
  <2> QED BY <2>1, <2>2, Zenon
<1> HIDE DEF W
<1>4. A = [k \in D |-> Body(A, k)]
  BY <1>3, Zenon DEF ReadElements
<1> HIDE DEF A
<1>5. /\ \A k \in D : A[k] = Body(A, k)
      /\ \A k \in D : W[k] = Body(W, k)
  <2> HIDE DEF Body, D
  <2> QED BY <1>3, <1>4, Zenon
<1> DEFINE S == {k \in Nat : k \in D => A[k] = W[k]}
<1>6. 0 \in S
  BY <1>1, <1>5
<1>7. ASSUME NEW k \in Nat, k \in S PROVE k + 1 \in S
  <2> SUFFICES ASSUME k + 1 \in D PROVE A[k + 1] = W[k + 1]
    OBVIOUS
  <2>1. k \in D /\ (k + 1) - 1 = k /\ k + 1 # 0
    BY <1>1
  <2>2. A[k] = W[k]
    BY <1>7, <2>1
  <2>3. A[k + 1] = Next1(A[k]) /\ W[k + 1] = Next1(W[k])
    <3> HIDE DEF Next1, D
    <3> QED BY <1>5, <2>1
  <2> QED BY <2>2, <2>3
<1>8. \A k \in Nat : k \in S
  <2> HIDE DEF S
  <2> QED BY <1>6, <1>7, Induction
<1>9. l \in D
  BY <1>1
<1>10. A[l] = W[l]
  BY <1>1, <1>8, <1>9
<1>11. W[l] = Leaves(t, s)
  <2>1. W[l] = Leaves(Cat(T[l], t), SubSeq(s, 1, l))
    BY <1>9 DEF W
  <2> QED BY <1>2, <2>1, CatEmpty, SubSeqFull
<1> QED BY <1>10, <1>11 DEF A

Lists(kind) ==
    {s \in Seq(Kept(kind)) : Len(s) < Limit[U32] /\ \A i \in DOMAIN s : s[i] \in Elements(kind)}

LEMMA PutListBytes ==
    ASSUME NEW kind \in Kinds, NEW s \in Seq(Kept(kind))
    PROVE  /\ Len(s) \in Nat
           /\ put_uint(U32, Len(s)) \in Bytes
           /\ PutElements(kind, s)[Len(s)] \in Bytes
           /\ PutList(kind, s) = Cat(put_uint(U32, Len(s)), PutElements(kind, s)[Len(s)])
           /\ PutList(kind, s) \in Bytes
<1>1. Len(s) \in Nat
  BY LenProperties
<1>2. put_uint(U32, Len(s)) \in Bytes
  BY <1>1, UintBytes, Widths
<1>3. PutElements(kind, s)[Len(s)] \in Bytes
  <2>1. Len(s) \in 0 .. Len(s)
    BY <1>1
  <2> QED BY <1>1, <2>1, PutElementsFacts
<1>4. PutList(kind, s) = Cat(put_uint(U32, Len(s)), PutElements(kind, s)[Len(s)])
  BY DEF PutList, Cat
<1> QED BY <1>1, <1>2, <1>3, <1>4, CatBytes

LEMMA ListBack ==
    ASSUME NEW kind \in Kinds, NEW s \in Lists(kind),
           NEW t \in Bytes, NEW r, r.ok, r.rest = Cat(PutList(kind, s), t)
    PROVE  ReadList(kind, r) = Leaves(t, s)
<1> DEFINE l == Len(s)
           a == put_uint(U32, l)
           b == PutElements(kind, s)[l]
           count == Leaves(Cat(b, t), l)
<1>1. /\ s \in Seq(Kept(kind)) /\ l \in Nat /\ l < Limit[U32]
      /\ a \in Bytes /\ b \in Bytes /\ PutList(kind, s) = Cat(a, b)
      /\ \A n \in 1 .. l : s[n] \in Elements(kind)
  <2>1. s \in Seq(Kept(kind)) /\ l < Limit[U32] /\ DOMAIN s = 1 .. l
        /\ \A i \in DOMAIN s : s[i] \in Elements(kind)
    BY LenProperties DEF Lists
  <2> QED BY <2>1, PutListBytes
<1>2. r.rest = Cat(a, Cat(b, t)) /\ Cat(b, t) \in Bytes
  <2> HIDE DEF a, b, l
  <2> QED BY <1>1, CatAssociative, CatBytes
<1>3. read_uint(U32, r) = count
  <2> HIDE DEF b, l
  <2> QED BY <1>1, <1>2, UintLeaves, Widths
<1>4. count.ok = TRUE /\ count.rest = Cat(b, t) /\ count.value = l
  BY Leaving
<1> HIDE DEF count
<1>5. ReadElements(kind, count, l)[l] = Leaves(t, s)
  <2>1. s \in Seq(Kept(kind)) /\ count.ok = TRUE /\ count.rest = Cat(PutElements(kind, s)[Len(s)], t)
        /\ \A n \in 1 .. Len(s) : s[n] \in Elements(kind)
    BY <1>1, <1>4
  <2>2. ReadElements(kind, count, Len(s))[Len(s)] = Leaves(t, s)
    BY <2>1, ElementsBack
  <2> QED BY <2>2
<1> QED BY <1>3, <1>4, <1>5 DEF ReadList

\* The loop that reads n elements, from whatever bytes.
LEMMA ElementsRead ==
    ASSUME NEW kind \in Kinds, NEW r, Cursor(r), NEW n \in Nat
    PROVE  LET e == ReadElements(kind, r, n)[n]
           IN  /\ Cursor(e)
               /\ e.ok => /\ r.ok /\ e.value \in Seq(Kept(kind)) /\ Len(e.value) = n
                          /\ \A i \in 1 .. n : e.value[i] \in Elements(kind)
<1> DEFINE D == 0 .. n
           T == [ok : BOOLEAN, rest : Bytes, value : Seq(Loose(kind))]
           Next1(c) == ReadNext(kind, c)
           step == [k \in Nat |-> [c \in T |-> Next1(c)]]
           Body(f, k) == IF k = 0 THEN Made(r, <<>>) ELSE Next1(f[k - 1])
           A == ReadElements(kind, r, n)
<1>1. D \subseteq Nat /\ 0 \in D /\ n \in D /\ \A k \in D : k # 0 => k - 1 \in D
  OBVIOUS
<1>2. Made(r, <<>>) \in T
  BY EmptySeq DEF Cursor, Made
<1>3. ASSUME NEW c \in T
      PROVE  /\ Next1(c) \in T
             /\ Next1(c).value = Append(c.value, ReadElement(kind, c).value)
             /\ Next1(c).ok = ReadElement(kind, c).ok
             /\ Next1(c).ok => c.ok /\ ReadElement(kind, c).value \in Elements(kind)
  <2> DEFINE e == ReadElement(kind, c)
  <2>1. Cursor(c) /\ c.value \in Seq(Loose(kind))
    BY DEF Cursor
  <2>2. Cursor(e) /\ e.value \in Loose(kind) /\ (e.ok => c.ok /\ e.value \in Elements(kind))
    BY <2>1, ElementRead
  <2>3. Next1(c) = [ok |-> e.ok, rest |-> e.rest, value |-> Append(c.value, e.value)]
    BY DEF ReadNext, WithOne, Made
  <2> HIDE DEF e, Next1
  <2>4. Append(c.value, e.value) \in Seq(Loose(kind))
    BY <2>1, <2>2, AppendProperties
  <2>5. Next1(c) \in T
    BY <2>2, <2>3, <2>4 DEF Cursor
  <2>6. Next1(c).ok = e.ok /\ Next1(c).value = Append(c.value, e.value)
    BY <2>3
  <2> QED BY <2>2, <2>5, <2>6 DEF e
<1> HIDE DEF Next1, T
<1>4. step \in [Nat -> [T -> T]] /\ \A k \in Nat : \A c \in T : step[k][c] = Next1(c)
  BY <1>3
<1> HIDE DEF step
<1>5. PICK f : Unfolds(f, D, Made(r, <<>>), step)
  <2> HIDE DEF D
  <2> QED BY <1>1, <1>2, <1>4, RecursiveForm
<1>6. \A k \in D : f[k] \in T
  <2> HIDE DEF D
  <2> QED BY <1>1, <1>2, <1>4, <1>5, Unfolded
<1>7. f = [k \in D |-> Body(f, k)]
  <2>1. ASSUME NEW k \in D
        PROVE  (IF k = 0 THEN Made(r, <<>>) ELSE step[k - 1][f[k - 1]]) = Body(f, k)
    <3>1. CASE k = 0
      BY <3>1
    <3>2. CASE k # 0
      <4>1. k - 1 \in Nat /\ k - 1 \in D
        BY <1>1, <3>2
      <4> QED BY <1>4, <1>6, <3>2, <4>1
    <3> QED BY <3>1, <3>2
  <2> HIDE DEF Body, D
  <2> QED BY <1>5, <2>1, Zenon DEF Unfolds
<1>8. A = [k \in D |-> Body(A, k)]
  BY <1>7, Zenon DEF ReadElements, Next1
<1> HIDE DEF A
<1>9. \A k \in D : A[k] = Body(A, k)
  <2> HIDE DEF Body, D
  <2> QED BY <1>8, Zenon
<1> DEFINE Good(k) ==
             /\ A[k] \in T
             /\ A[k].ok => /\ r.ok /\ A[k].value \in Seq(Kept(kind)) /\ Len(A[k].value) = k
                           /\ \A i \in 1 .. k : A[k].value[i] \in Elements(kind)
           S == {k \in Nat : k <= n => Good(k)}
<1>10. 0 \in S
  <2>1. A[0] = Made(r, <<>>)
    BY <1>1, <1>9
  <2>2. A[0].ok = r.ok /\ A[0].value = <<>>
    BY <2>1, MadeIs
  <2>3. A[0] \in T /\ <<>> \in Seq(Kept(kind)) /\ Len(<<>>) = 0 /\ 1 .. 0 = {}
    BY <1>2, <2>1, EmptySeq
  <2>4. Good(0)
    BY <2>2, <2>3
  <2> QED BY <2>4
<1>11. ASSUME NEW k \in Nat, k \in S PROVE k + 1 \in S
  <2> SUFFICES ASSUME k + 1 <= n PROVE Good(k + 1)
    OBVIOUS
  <2> DEFINE c == A[k]
             d == A[k + 1]
             e == ReadElement(kind, c).value
  <2>1. k + 1 \in D /\ k + 1 # 0 /\ (k + 1) - 1 = k /\ k <= n
    OBVIOUS
  <2>2. d = Next1(c)
    BY <1>9, <2>1
  <2>3. /\ c \in T
        /\ c.ok => /\ r.ok /\ c.value \in Seq(Kept(kind)) /\ Len(c.value) = k
                   /\ \A i \in 1 .. k : c.value[i] \in Elements(kind)
    BY <1>11, <2>1
  <2>4. d \in T /\ d.value = Append(c.value, e) /\ (d.ok => c.ok /\ e \in Elements(kind))
    BY <1>3, <2>2, <2>3
  <2> HIDE DEF c, e
  <2>5. ASSUME d.ok
        PROVE  /\ r.ok /\ d.value \in Seq(Kept(kind)) /\ Len(d.value) = k + 1
               /\ \A i \in 1 .. k + 1 : d.value[i] \in Elements(kind)
    <3>1. c.ok /\ e \in Elements(kind) /\ e \in Kept(kind)
      BY <2>4, <2>5, ElementKept
    <3> DEFINE w == c.value
               u == d.value
    <3>2. r.ok /\ w \in Seq(Kept(kind)) /\ Len(w) = k /\ \A i \in 1 .. k : w[i] \in Elements(kind)
      BY <2>3, <3>1
    <3>3. u = Append(w, e)
      BY <2>4
    <3> HIDE DEF w, u
    <3>4. /\ u \in Seq(Kept(kind)) /\ Len(u) = k + 1
          /\ \A i \in 1 .. k : u[i] = w[i]
          /\ u[k + 1] = e
      BY <3>1, <3>2, <3>3, AppendProperties
    <3>5. \A i \in 1 .. k + 1 : u[i] \in Elements(kind)
      <4> TAKE i \in 1 .. k + 1
      <4>1. i \in 1 .. k \/ i = k + 1
        OBVIOUS
      <4> QED BY <3>1, <3>2, <3>4, <4>1
    <3> QED BY <3>2, <3>4, <3>5 DEF u
  <2> QED BY <2>4, <2>5
<1>12. Good(n)
  <2> HIDE DEF Good
  <2>1. 0 \in S /\ \A k \in Nat : k \in S => k + 1 \in S
    BY <1>10, <1>11
  <2> HIDE DEF S
  <2>2. n \in S
    BY <2>1, Induction
  <2> QED BY <2>2 DEF S
<1> QED BY <1>12 DEF A, T, Cursor

LEMMA ListRead ==
    ASSUME NEW kind \in Kinds, NEW r, Cursor(r)
    PROVE  LET e == ReadList(kind, r)
           IN  Cursor(e) /\ (e.ok => r.ok /\ e.value \in Lists(kind))
<1> DEFINE count == read_uint(U32, r)
           n == count.value
           e == ReadElements(kind, count, n)[n]
<1>1. Cursor(count) /\ n \in Nat /\ (count.ok => r.ok /\ n < Limit[U32])
  BY UintCursor, Widths
<1>2. ReadList(kind, r) = IF count.ok THEN e ELSE count
  BY DEF ReadList
<1> HIDE DEF count, n
<1>3. /\ Cursor(e)
      /\ e.ok => /\ count.ok /\ e.value \in Seq(Kept(kind)) /\ Len(e.value) = n
                 /\ \A i \in 1 .. n : e.value[i] \in Elements(kind)
  BY <1>1, ElementsRead
<1> HIDE DEF e
<1>4. ASSUME e.ok PROVE r.ok /\ e.value \in Lists(kind)
  <2> DEFINE v == e.value
  <2>1. /\ r.ok /\ v \in Seq(Kept(kind)) /\ Len(v) = n /\ n < Limit[U32]
        /\ \A i \in 1 .. n : v[i] \in Elements(kind)
    BY <1>1, <1>3, <1>4
  <2> HIDE DEF v
  <2>2. DOMAIN v = 1 .. n
    BY <2>1, LenProperties
  <2>3. v \in Lists(kind)
    BY <2>1, <2>2 DEF Lists
  <2> QED BY <2>1, <2>3 DEF v
<1> QED BY <1>1, <1>2, <1>3, <1>4

-----------------------------------------------------------------------------
(* The plaintext of the store and of the identity *)

\* What may be in memory, the part of it that fits, and what an older version may
\* have left.
Typed ==
    [contacts : Seq(KeptContacts), messages : Seq(KeptMessages), requests : Seq(KeptRequests)]

Writable ==
    [contacts : Lists("contact"), messages : Lists("message"), requests : Lists("request")]

Legacy == {<<>>} \cup {<<c>> : c \in Contacts}

LEMMA KindsAre ==
    /\ {"contact", "message", "request"} = Kinds
    /\ Kept("contact") = KeptContacts /\ Kept("message") = KeptMessages
    /\ Kept("request") = KeptRequests
    /\ Elements("contact") = FitContacts /\ Elements("message") = FitMessages
    /\ Elements("request") = FitRequests
BY DEF Kinds, Kept, Elements

LEMMA TypedParts ==
    ASSUME NEW st \in Typed
    PROVE  /\ st = [contacts |-> st.contacts, messages |-> st.messages, requests |-> st.requests]
           /\ st.contacts \in Seq(KeptContacts) /\ st.messages \in Seq(KeptMessages)
           /\ st.requests \in Seq(KeptRequests)
BY DEF Typed

LEMMA FitStrings == \A b \in Bytes : Short(b) <=> b \in Strings
BY DEF Short, Strings, Bytes

\* Fits says what it should: everything in the store is as short as its length.
LEMMA FittingIsWritable ==
    ASSUME NEW st \in Typed
    PROVE  Fits(st) <=> st \in Writable
<1> DEFINE c == st.contacts
           m == st.messages
           q == st.requests
<1>1. /\ st = [contacts |-> c, messages |-> m, requests |-> q]
      /\ c \in Seq(KeptContacts) /\ m \in Seq(KeptMessages) /\ q \in Seq(KeptRequests)
  BY TypedParts
<1>2. st \in Writable <=>
         c \in Lists("contact") /\ m \in Lists("message") /\ q \in Lists("request")
  BY <1>1 DEF Writable
<1>3. c \in Lists("contact") <=>
         Len(c) < Limit[U32] /\ \A i \in DOMAIN c : Short(c[i].public_key) /\ Short(c[i].nickname)
  <2> HIDE DEF c
  <2>1. DOMAIN c = 1 .. Len(c)
    BY <1>1, LenProperties
  <2>2. \A i \in DOMAIN c : c[i] \in KeptContacts
    BY <1>1, <2>1, ElementOfSeq
  <2>3. \A i \in DOMAIN c : c[i] \in FitContacts <=> Short(c[i].public_key) /\ Short(c[i].nickname)
    BY <2>2, Stored, FitStrings DEF FitContacts
  <2> QED BY <1>1, <2>3, KindsAre DEF Lists
<1>4. m \in Lists("message") <=>
         Len(m) < Limit[U32] /\ \A i \in DOMAIN m : Short(m[i].peer) /\ Short(m[i].text)
  <2> HIDE DEF m
  <2>1. DOMAIN m = 1 .. Len(m)
    BY <1>1, LenProperties
  <2>2. \A i \in DOMAIN m : m[i] \in KeptMessages
    BY <1>1, <2>1, ElementOfSeq
  <2>3. \A i \in DOMAIN m : m[i] \in FitMessages <=> Short(m[i].peer) /\ Short(m[i].text)
    BY <2>2, Stored, FitStrings DEF FitMessages
  <2> QED BY <1>1, <2>3, KindsAre DEF Lists
<1>5. q \in Lists("request") <=>
         Len(q) < Limit[U32] /\ \A i \in DOMAIN q : Short(q[i].peer) /\ Short(q[i].greeting)
  <2> HIDE DEF q
  <2>1. DOMAIN q = 1 .. Len(q)
    BY <1>1, LenProperties
  <2>2. \A i \in DOMAIN q : q[i] \in KeptRequests
    BY <1>1, <2>1, ElementOfSeq
  <2>3. \A i \in DOMAIN q : q[i] \in FitRequests <=> Short(q[i].peer) /\ Short(q[i].greeting)
    BY <2>2, Stored, FitStrings DEF FitRequests
  <2> QED BY <1>1, <2>3, KindsAre DEF Lists
<1> QED BY <1>2, <1>3, <1>4, <1>5 DEF Fits

LEMMA WritableIsTyped == Writable \subseteq Typed
BY KindsAre DEF Writable, Typed, Lists

LEMMA EncodedBytes ==
    /\ \A st \in Typed : encode(st) \in Bytes
    /\ \A c \in Seq(KeptContacts) : encode_contacts(c) \in Bytes
<1>1. \A c \in Seq(KeptContacts) : PutList("contact", c) \in Bytes
  BY KindsAre, PutListBytes
<1>2. ASSUME NEW st \in Typed PROVE encode(st) \in Bytes
  <2> DEFINE a == put_uint(1, kPayloadVersion)
             c == PutList("contact", st.contacts)
             m == PutList("message", st.messages)
             q == PutList("request", st.requests)
  <2>1. a \in Bytes
    BY UintBytes DEF kPayloadVersion
  <2>2. c \in Bytes /\ m \in Bytes /\ q \in Bytes
    BY TypedParts, KindsAre, PutListBytes
  <2>3. encode(st) = Cat(Cat(Cat(a, c), m), q)
    BY DEF encode, encode_contacts, Cat
  <2> HIDE DEF a, c, m, q
  <2> QED BY <2>1, <2>2, <2>3, CatBytes
<1> QED BY <1>1, <1>2 DEF encode_contacts

\* Whatever decode accepts, it makes a store of it that fits.
LEMMA DecodedFits ==
    ASSUME NEW text \in Bytes, CanDecode(text)
    PROVE  decode(text) \in Writable
<1>1. "contact" \in Kinds /\ "message" \in Kinds /\ "request" \in Kinds
  BY KindsAre
<1>2. Cursor(Reader(text))
  BY DEF Cursor, Reader
<1>3. CASE IsCurrent(text)
  <2> DEFINE r == read_uint(1, Reader(text))
             c == ReadList("contact", r)
             m == ReadList("message", c)
             q == ReadList("request", m)
  <2>1. Cursor(r)
    BY <1>2, UintCursor
  <2>2. ReadStore(text) = [end |-> q, store |-> [contacts |-> c.value, messages |-> m.value,
                                               requests |-> q.value]]
    BY <1>3 DEF ReadStore, ReadCurrent, ThenMessages, ThenRequests
  <2> HIDE DEF r
  <2>3. Cursor(c) /\ (c.ok => c.value \in Lists("contact"))
    BY <1>1, <2>1, ListRead
  <2> HIDE DEF c
  <2>4. Cursor(m) /\ (m.ok => c.ok /\ m.value \in Lists("message"))
    BY <1>1, <2>3, ListRead
  <2> HIDE DEF m
  <2>5. q.ok => m.ok /\ q.value \in Lists("request")
    BY <1>1, <2>4, ListRead
  <2> HIDE DEF q
  <2>6. q.ok
    BY <2>2 DEF CanDecode, done
  <2>7. decode(text) = [contacts |-> c.value, messages |-> m.value, requests |-> q.value]
    BY <2>2 DEF decode
  <2> QED BY <2>3, <2>4, <2>5, <2>6, <2>7 DEF Writable
<1>4. CASE ~IsCurrent(text)
  <2> DEFINE c == ReadList("contact", Reader(text))
  <2>1. c.ok => c.value \in Lists("contact")
    BY <1>1, <1>2, ListRead
  <2>2. ReadStore(text) = [end |-> c, store |-> [EmptyStore EXCEPT !.contacts = c.value]]
    BY <1>4 DEF ReadStore, ReadLegacy
  <2> HIDE DEF c
  <2>3. c.ok
    BY <2>2 DEF CanDecode, done
  <2>4. decode(text) = [contacts |-> c.value, messages |-> <<>>, requests |-> <<>>]
    BY <2>2 DEF decode, EmptyStore
  <2>5. <<>> \in Lists("message") /\ <<>> \in Lists("request")
    <3>1. Len(<<>>) = 0 /\ DOMAIN <<>> = {} /\ 0 < Limit[U32]
      BY LimitPositive, Widths, EmptySeq, LenProperties
    <3> QED BY <3>1, EmptySeq DEF Lists
  <2> QED BY <2>1, <2>3, <2>4, <2>5 DEF Writable
<1> QED BY <1>3, <1>4

LEMMA StoreBack ==
    ASSUME NEW st \in Writable
    PROVE  /\ encode(st) \in Bytes
           /\ CanDecode(encode(st))
           /\ decode(encode(st)) = st
<1> DEFINE a == put_uint(1, kPayloadVersion)
           c == PutList("contact", st.contacts)
           m == PutList("message", st.messages)
           q == PutList("request", st.requests)
           blob == encode(st)
           t2 == Cat(q, <<>>)
           t1 == Cat(m, t2)
           t0 == Cat(c, t1)
           r1 == Leaves(t0, kPayloadVersion)
           r2 == Leaves(t1, st.contacts)
           r3 == Leaves(t2, st.messages)
           r4 == Leaves(<<>>, st.requests)
<1>1. /\ st.contacts \in Lists("contact") /\ st.messages \in Lists("message")
      /\ st.requests \in Lists("request")
      /\ st = [contacts |-> st.contacts, messages |-> st.messages, requests |-> st.requests]
  BY DEF Writable
<1>2. /\ kPayloadVersion \in Byte /\ kPayloadVersion \in Nat /\ kPayloadVersion < Limit[1]
      /\ 1 \in Nat
  BY StoreAssumption, LimitOne, Widths DEF kPayloadVersion, Byte
<1>3. /\ a \in Bytes /\ c \in Bytes /\ m \in Bytes /\ q \in Bytes
      /\ a = <<kPayloadVersion>>
  <2>1. /\ st.contacts \in Seq(Kept("contact")) /\ st.messages \in Seq(Kept("message"))
        /\ st.requests \in Seq(Kept("request"))
    BY <1>1 DEF Lists
  <2> QED BY <1>2, <2>1, KindsAre, PutListBytes, UintBytes, OneByte
<1>4. blob = Cat(Cat(Cat(a, c), m), q)
  BY DEF encode, encode_contacts, Cat
<1> HIDE DEF a, c, m, q, blob
<1>5. blob \in Bytes
  BY <1>3, <1>4, CatBytes
<1>6. t0 \in Bytes /\ t1 \in Bytes /\ t2 \in Bytes
  BY <1>3, EmptyBytes, CatBytes
<1>7. blob = Cat(a, t0)
  <2>1. Cat(a, c) \in Bytes /\ Cat(Cat(a, c), m) \in Bytes /\ t2 = q
    BY <1>3, CatBytes, CatEmpty
  <2>2. Cat(Cat(Cat(a, c), m), q) = Cat(Cat(a, c), Cat(m, q))
    BY <1>3, <2>1, CatAssociative
  <2>3. Cat(Cat(a, c), t1) = Cat(a, t0)
    BY <1>3, <1>6, CatAssociative
  <2> QED BY <1>4, <2>1, <2>2, <2>3
<1>8. IsCurrent(blob)
  <2>1. a \in Seq(Byte) /\ t0 \in Seq(Byte) /\ blob = a \o t0 /\ Len(a) = 1 /\ a[1] = kPayloadVersion
    BY <1>3, <1>6, <1>7 DEF Bytes, Cat
  <2> HIDE DEF t0
  <2>2. Len(t0) \in Nat
    BY <2>1, LenProperties
  <2>3. /\ Len(a \o t0) = Len(a) + Len(t0)
        /\ \A i \in 1 .. Len(a) + Len(t0) :
              (a \o t0)[i] = IF i <= Len(a) THEN a[i] ELSE t0[i - Len(a)]
    BY <2>1, ConcatProperties
  <2>4. Len(blob) > 0 /\ blob[1] = kPayloadVersion
    BY <2>1, <2>2, <2>3
  <2>5. blob # <<>>
    BY <2>4, EmptyBytes
  <2> QED BY <2>4, <2>5 DEF IsCurrent
<1>9. Reader(blob).ok /\ Reader(blob).rest = Cat(a, t0)
  BY <1>7 DEF Reader
<1>10. /\ r1.ok /\ r1.rest = Cat(c, t1) /\ r2.ok /\ r2.rest = Cat(m, t2)
       /\ r3.ok /\ r3.rest = Cat(q, <<>>) /\ r4.ok /\ r4.rest = <<>>
  BY Leaving
<1>11. r2.value = st.contacts /\ r3.value = st.messages /\ r4.value = st.requests
  BY DEF Leaves
<1> HIDE DEF t0, t1, t2
<1>12. read_uint(1, Reader(blob)) = r1
  BY <1>2, <1>6, <1>9, UintLeaves DEF a
<1> HIDE DEF r1
<1>13. ReadList("contact", r1) = r2
  BY <1>1, <1>6, <1>10, ListBack, KindsAre DEF c
<1> HIDE DEF r2
<1>14. ReadList("message", r2) = r3
  BY <1>1, <1>6, <1>10, ListBack, KindsAre DEF m
<1> HIDE DEF r3
<1>15. ReadList("request", r3) = r4
  BY <1>1, <1>10, ListBack, EmptyBytes, KindsAre DEF q
<1> HIDE DEF r4
<1>16. ReadStore(blob) = [end |-> r4, store |-> [contacts |-> r2.value, messages |-> r3.value,
                                               requests |-> r4.value]]
  BY <1>8, <1>12, <1>13, <1>14, <1>15 DEF ReadStore, ReadCurrent, ThenMessages, ThenRequests
<1>17. CanDecode(blob)
  BY <1>10, <1>16 DEF CanDecode, done
<1>18. decode(blob) = st
  BY <1>1, <1>11, <1>16 DEF decode
<1> QED BY <1>5, <1>17, <1>18 DEF blob

LEMMA LegacyLists ==
    ASSUME NEW c \in Legacy
    PROVE  c \in Seq(KeptContacts) /\ Len(c) \in {0, 1}
<1>1. CASE c = <<>>
  BY <1>1, EmptySeq
<1>2. ASSUME NEW x \in Contacts, c = <<x>> PROVE c \in Seq(KeptContacts) /\ Len(c) \in {0, 1}
  <2>1. x \in KeptContacts
    BY Given
  <2> QED BY <1>2, <2>1
<1> QED BY <1>1, <1>2 DEF Legacy

\* The number of contacts that begins a legacy file is small, so that its first
\* byte is not the version of the current format.
LEMMA LegacyFirstByte ==
    ASSUME NEW v \in {0, 1}
    PROVE  put_uint(U32, v)[1] = 0
<1>1. v \in Nat /\ U32 \in Nat /\ U32 > 1
  BY Widths, StoreAssumption
<1> DEFINE k == U32 - 1
           f == Shifted(v)
           S == {j \in Nat : j >= 1 => f[j] = 0}
<1>2. /\ f[0] = v /\ \A n \in Nat : f[n + 1] = f[n] \div Base
  BY <1>1, ShiftedFacts
<1>3. put_uint(U32, v)[1] = f[k] % Base
  <2>1. 1 \in 1 .. U32
    BY <1>1
  <2> QED BY <1>1, <2>1, PutIsBytes
<1>4. k \in Nat /\ k >= 1
  BY <1>1
<1> HIDE DEF f, k
<1>5. 0 \div Base = 0 /\ 1 \div Base = 0 /\ 0 % Base = 0
  BY Widths
<1>6. 0 \in S
  OBVIOUS
<1>7. ASSUME NEW j \in Nat, j \in S PROVE j + 1 \in S
  <2>1. f[j + 1] = f[j] \div Base
    BY <1>2
  <2>2. CASE j = 0
    <3>1. f[j] \in {0, 1}
      BY <1>2, <2>2
    <3> QED BY <1>5, <2>1, <3>1
  <2>3. CASE j # 0
    <3>1. f[j] = 0
      BY <1>7, <2>3
    <3> QED BY <1>5, <2>1, <3>1
  <2> QED BY <2>2, <2>3
<1>8. \A j \in Nat : j \in S
  <2> HIDE DEF S
  <2> QED BY <1>6, <1>7, Induction
<1>9. f[k] = 0
  BY <1>4, <1>8
<1> QED BY <1>3, <1>5, <1>9

LEMMA LegacyBack ==
    ASSUME NEW c \in Legacy, c \in Lists("contact")
    PROVE  /\ CanDecode(encode_contacts(c))
           /\ decode(encode_contacts(c)) = [EmptyStore EXCEPT !.contacts = c]
<1> DEFINE a == put_uint(U32, Len(c))
           b == PutElements("contact", c)[Len(c)]
           blob == encode_contacts(c)
           r1 == Leaves(<<>>, c)
<1>1. c \in Lists("contact") /\ Len(c) \in {0, 1} /\ Len(c) \in Nat
  BY LegacyLists
<1>2. blob = PutList("contact", c)
  BY DEF encode_contacts
<1>3. a \in Bytes /\ b \in Bytes /\ blob = Cat(a, b) /\ blob \in Bytes
  <2>1. c \in Seq(Kept("contact")) /\ "contact" \in Kinds
    BY LegacyLists, KindsAre
  <2> QED BY <1>2, <2>1, PutListBytes
<1>4. Len(a) = U32 /\ a[1] = 0
  BY <1>1, UintBytes, LegacyFirstByte, Widths
<1> HIDE DEF a, b, blob
<1>5. ~IsCurrent(blob)
  <2>1. a \in Seq(Byte) /\ b \in Seq(Byte) /\ blob = a \o b
    BY <1>3 DEF Bytes, Cat
  <2>2. Len(b) \in Nat /\ U32 \in Nat /\ U32 > 0
    BY <2>1, LenProperties, Widths
  <2>3. \A i \in 1 .. Len(a) + Len(b) :
              (a \o b)[i] = IF i <= Len(a) THEN a[i] ELSE b[i - Len(a)]
    BY <2>1, ConcatProperties
  <2>4. blob[1] = 0
    BY <1>4, <2>1, <2>2, <2>3
  <2> QED BY <2>4 DEF IsCurrent, kPayloadVersion
<1>6. Reader(blob).ok /\ Reader(blob).rest = Cat(PutList("contact", c), <<>>)
  BY <1>2, <1>3, CatEmpty DEF Reader
<1>7. ReadList("contact", Reader(blob)) = r1
  BY <1>1, <1>6, ListBack, EmptyBytes, KindsAre
<1>8. r1.ok /\ r1.rest = <<>> /\ r1.value = c
  BY DEF Leaves
<1> HIDE DEF r1
<1>9. ReadStore(blob) = [end |-> r1, store |-> [EmptyStore EXCEPT !.contacts = r1.value]]
  BY <1>5, <1>7 DEF ReadStore, ReadLegacy
<1> QED BY <1>8, <1>9 DEF CanDecode, decode, done, blob

LEMMA IdentityBack ==
    ASSUME NEW i \in Identities
    PROVE  /\ done(ReadIdentity(PutIdentity(i)).end)
           /\ MadeIdentity(PutIdentity(i)) = i
           /\ valid(i)
<1> DEFINE a == put_bytes(i.public_key)
           b == put_bytes(i.secret_key)
           r0 == Reader(PutIdentity(i))
           t1 == Cat(b, <<>>)
           r1 == Leaves(t1, i.public_key)
           r2 == Leaves(<<>>, i.secret_key)
<1>1. /\ i = [public_key |-> i.public_key, secret_key |-> i.secret_key]
      /\ i.public_key \in Strings /\ i.secret_key \in Strings
      /\ Len(i.public_key) = PublicKeyBytes /\ Len(i.secret_key) = SecretKeyBytes
  <2>1. i \in [public_key : Seq(Byte), secret_key : Seq(Byte)]
    BY StoreAssumption
  <2>2. /\ Len(i.public_key) = PublicKeyBytes /\ Len(i.secret_key) = SecretKeyBytes
        /\ PublicKeyBytes < Limit[U16] /\ SecretKeyBytes < Limit[U16]
    BY StoreAssumption
  <2> QED BY <2>1, <2>2 DEF Strings
<1>2. a \in Bytes /\ b \in Bytes /\ t1 \in Bytes
  BY <1>1, StringBytes, EmptyBytes, CatBytes
<1>3. r0.ok /\ r0.rest = Cat(a, t1)
  BY <1>2, CatEmpty DEF Reader, PutIdentity, Cat
<1>4. r1.ok /\ r1.rest = Cat(b, <<>>) /\ r2.ok /\ r2.rest = <<>>
      /\ r1.value = i.public_key /\ r2.value = i.secret_key
  BY DEF Leaves
<1> HIDE DEF r0, t1
<1>5. read_bytes(r0) = r1
  BY <1>1, <1>2, <1>3, BytesLeaves
<1> HIDE DEF r1
<1>6. read_bytes(r1) = r2
  BY <1>1, <1>4, BytesLeaves, EmptyBytes
<1> HIDE DEF r2
<1>7. ReadIdentity(PutIdentity(i))
        = [end |-> r2, identity |-> [public_key |-> r1.value, secret_key |-> r2.value]]
  BY <1>5, <1>6 DEF ReadIdentity, r0
<1> QED BY <1>1, <1>4, <1>7 DEF done, MadeIdentity, valid
-----------------------------------------------------------------------------
(* What is in memory, after any operation on it *)

\* OneEntryPerKey, of a store.
DistinctKeys(c) == \A i, j \in DOMAIN c : c[i].public_key = c[j].public_key => i = j
DistinctPeers(q) == \A i, j \in DOMAIN q : q[i].peer = q[j].peer => i = j

Distinct(st) == DistinctKeys(st.contacts) /\ DistinctPeers(st.requests)

\* What an operation on st may make of it.
Stays(st, new) == new \in Typed /\ (Distinct(st) => Distinct(new))

LEMMA StoreChanged ==
    ASSUME NEW st, NEW x,
           st = [contacts |-> st.contacts, messages |-> st.messages, requests |-> st.requests]
    PROVE  /\ [st EXCEPT !.contacts = x]
                = [contacts |-> x, messages |-> st.messages, requests |-> st.requests]
           /\ [st EXCEPT !.messages = x]
                = [contacts |-> st.contacts, messages |-> x, requests |-> st.requests]
           /\ [st EXCEPT !.requests = x]
                = [contacts |-> st.contacts, messages |-> st.messages, requests |-> x]
OBVIOUS

LEMMA StoreMade ==
    ASSUME NEW st \in Typed,
           NEW c \in Seq(KeptContacts), NEW m \in Seq(KeptMessages), NEW q \in Seq(KeptRequests),
           Distinct(st) => DistinctKeys(c) /\ DistinctPeers(q)
    PROVE  Stays(st, [contacts |-> c, messages |-> m, requests |-> q])
<1> DEFINE new == [contacts |-> c, messages |-> m, requests |-> q]
<1>1. new \in Typed /\ new.contacts = c /\ new.requests = q
  BY DEF Typed
<1> HIDE DEF new
<1>2. Stays(st, new)
  BY <1>1 DEF Stays, Distinct
<1> QED BY <1>2 DEF new

LEMMA EmptyIsStore == EmptyStore \in Typed /\ Distinct(EmptyStore)
<1>1. /\ EmptyStore.contacts = <<>> /\ EmptyStore.requests = <<>> /\ DOMAIN <<>> = {}
      /\ EmptyStore \in Typed
  BY EmptySeq DEF EmptyStore, Typed
<1> QED BY <1>1 DEF Distinct, DistinctKeys, DistinctPeers

\* Upsert.
LEMMA Appended ==
    ASSUME NEW S, NEW s \in Seq(S), NEW e \in S
    PROVE  /\ Append(s, e) \in Seq(S)
           /\ DOMAIN Append(s, e) = DOMAIN s \cup {Len(s) + 1}
           /\ Len(s) + 1 \notin DOMAIN s
           /\ Append(s, e)[Len(s) + 1] = e
           /\ \A i \in DOMAIN s : Append(s, e)[i] = s[i]
<1>1. Len(s) \in Nat /\ DOMAIN s = 1 .. Len(s)
  BY LenProperties
<1>2. /\ Append(s, e) \in Seq(S) /\ Len(Append(s, e)) = Len(s) + 1
      /\ \A i \in 1 .. Len(s) : Append(s, e)[i] = s[i]
      /\ Append(s, e)[Len(s) + 1] = e
  BY AppendProperties
<1>3. DOMAIN Append(s, e) = 1 .. Len(s) + 1
  BY <1>2, LenProperties
<1> QED BY <1>1, <1>2, <1>3

LEMMA FirstKnown ==
    ASSUME NEW S, S \subseteq Nat, S # {}
    PROVE  Min(S) \in S
<1>1. PICK n \in S : \A m \in Nat : m < n => m \notin S
  BY Least
<1>2. \A y \in S : n =< y
  BY <1>1
<1> QED BY <1>2 DEF Min

LEMMA Upserted ==
    ASSUME NEW st \in Typed, NEW c \in Contacts, NEW K,
           K = {i \in DOMAIN st.contacts : st.contacts[i].public_key = c.public_key}
    PROVE  Stays(st, IF K = {} THEN [st EXCEPT !.contacts = Append(@, c)]
                               ELSE [st EXCEPT !.contacts[Min(K)] = c])
<1> DEFINE s == st.contacts
<1>1. /\ st = [contacts |-> st.contacts, messages |-> st.messages, requests |-> st.requests]
      /\ s \in Seq(KeptContacts) /\ st.messages \in Seq(KeptMessages)
      /\ st.requests \in Seq(KeptRequests)
      /\ c \in KeptContacts
      /\ Distinct(st) => DistinctKeys(s) /\ DistinctPeers(st.requests)
  BY TypedParts, Given DEF Distinct
<1>2. CASE K = {}
  <2> DEFINE t == Append(s, c)
  <2>1. /\ t \in Seq(KeptContacts) /\ DOMAIN t = DOMAIN s \cup {Len(s) + 1}
        /\ Len(s) + 1 \notin DOMAIN s
        /\ t[Len(s) + 1] = c /\ \A i \in DOMAIN s : t[i] = s[i]
    BY <1>1, Appended
  <2>2. \A i \in DOMAIN s : s[i].public_key # c.public_key
    BY <1>2
  <2> HIDE DEF t, s
  <2>3. DistinctKeys(s) => DistinctKeys(t)
    BY <2>1, <2>2 DEF DistinctKeys
  <2>4. Stays(st, [contacts |-> t, messages |-> st.messages, requests |-> st.requests])
    BY <1>1, <2>1, <2>3, StoreMade
  <2>5. [st EXCEPT !.contacts = Append(@, c)]
          = [contacts |-> t, messages |-> st.messages, requests |-> st.requests]
    <3>1. [st EXCEPT !.contacts = Append(@, c)] = [st EXCEPT !.contacts = t]
      BY DEF t, s
    <3> QED BY <1>1, <3>1, StoreChanged
  <2> QED BY <1>2, <2>4, <2>5
<1>3. CASE K # {}
  <2> DEFINE k == Min(K)
             t == [s EXCEPT ![k] = c]
  <2>1. Len(s) \in Nat /\ DOMAIN s = 1 .. Len(s)
    BY <1>1, LenProperties
  <2>2. k \in DOMAIN s /\ s[k].public_key = c.public_key
    <3>1. K \subseteq Nat
      BY <2>1
    <3>2. k \in K
      BY <1>3, <3>1, FirstKnown
    <3> QED BY <3>2
  <2> HIDE DEF k
  <2>3. /\ t \in Seq(KeptContacts) /\ DOMAIN t = DOMAIN s /\ t[k] = c
        /\ \A i \in DOMAIN s : i # k => t[i] = s[i]
    <3>1. t \in Seq(KeptContacts)
      BY <1>1, <2>1, <2>2, ExceptSeq
    <3> HIDE DEF s
    <3> QED BY <2>2, <3>1
  <2>4. \A i \in DOMAIN s : t[i].public_key = s[i].public_key
    <3> HIDE DEF t, s
    <3> QED BY <2>2, <2>3
  <2> HIDE DEF t, s
  <2>5. DistinctKeys(s) => DistinctKeys(t)
    BY <2>3, <2>4 DEF DistinctKeys
  <2>6. Stays(st, [contacts |-> t, messages |-> st.messages, requests |-> st.requests])
    BY <1>1, <2>3, <2>5, StoreMade
  <2>7. [st EXCEPT !.contacts[k] = c]
          = [contacts |-> t, messages |-> st.messages, requests |-> st.requests]
    <3>1. [st EXCEPT !.contacts[k] = c] = [st EXCEPT !.contacts = t]
      BY DEF t, s
    <3> QED BY <1>1, <3>1, StoreChanged
  <2> QED BY <1>3, <2>6, <2>7 DEF k
<1> QED BY <1>2, <1>3

LEMMA MessageAppended ==
    ASSUME NEW st \in Typed, NEW m \in Messages
    PROVE  Stays(st, [st EXCEPT !.messages = Append(@, m)])
<1> DEFINE t == Append(st.messages, m)
<1>1. /\ st = [contacts |-> st.contacts, messages |-> st.messages, requests |-> st.requests]
      /\ st.contacts \in Seq(KeptContacts) /\ st.messages \in Seq(KeptMessages)
      /\ st.requests \in Seq(KeptRequests) /\ m \in KeptMessages
      /\ Distinct(st) => DistinctKeys(st.contacts) /\ DistinctPeers(st.requests)
  BY TypedParts, Given DEF Distinct
<1>2. t \in Seq(KeptMessages)
  BY <1>1, AppendProperties
<1> HIDE DEF t
<1>3. Stays(st, [contacts |-> st.contacts, messages |-> t, requests |-> st.requests])
  BY <1>1, <1>2, StoreMade
<1>4. [st EXCEPT !.messages = Append(@, m)]
        = [contacts |-> st.contacts, messages |-> t, requests |-> st.requests]
  <2>1. [st EXCEPT !.messages = Append(@, m)] = [st EXCEPT !.messages = t]
    BY DEF t
  <2> QED BY <1>1, <2>1, StoreChanged
<1> QED BY <1>3, <1>4

LEMMA RequestsReplaced ==
    ASSUME NEW st \in Typed, NEW q \in Seq(KeptRequests),
           DistinctPeers(st.requests) => DistinctPeers(q)
    PROVE  Stays(st, [st EXCEPT !.requests = q])
<1>1. /\ st = [contacts |-> st.contacts, messages |-> st.messages, requests |-> st.requests]
      /\ st.contacts \in Seq(KeptContacts) /\ st.messages \in Seq(KeptMessages)
      /\ Distinct(st) => DistinctKeys(st.contacts) /\ DistinctPeers(q)
  BY TypedParts DEF Distinct
<1>2. Stays(st, [contacts |-> st.contacts, messages |-> st.messages, requests |-> q])
  BY <1>1, StoreMade
<1>3. [st EXCEPT !.requests = q]
        = [contacts |-> st.contacts, messages |-> st.messages, requests |-> q]
  BY <1>1, StoreChanged
<1> QED BY <1>2, <1>3

LEMMA RequestAppended ==
    ASSUME NEW st \in Typed, NEW q \in Requests,
           \A i \in DOMAIN st.requests : st.requests[i].peer # q.peer
    PROVE  Stays(st, [st EXCEPT !.requests = Append(@, q)])
<1> DEFINE s == st.requests
           t == Append(s, q)
<1>1. s \in Seq(KeptRequests) /\ q \in KeptRequests
  BY TypedParts, Given
<1>2. /\ t \in Seq(KeptRequests) /\ DOMAIN t = DOMAIN s \cup {Len(s) + 1}
      /\ Len(s) + 1 \notin DOMAIN s
      /\ t[Len(s) + 1] = q /\ \A i \in DOMAIN s : t[i] = s[i]
  BY <1>1, Appended
<1> HIDE DEF t
<1>3. DistinctPeers(s) => DistinctPeers(t)
  BY <1>2 DEF DistinctPeers
<1>4. Stays(st, [st EXCEPT !.requests = t])
  BY <1>2, <1>3, RequestsReplaced
<1>5. [st EXCEPT !.requests = Append(@, q)] = [st EXCEPT !.requests = t]
  BY DEF t
<1> QED BY <1>4, <1>5

\* remove_request.
LEMMA WithoutFacts ==
    ASSUME NEW S, NEW s \in Seq(S), NEW peer
    PROVE  LET K == Without(s, peer)
           IN  /\ K[0] = <<>>
               /\ \A n \in Nat : n + 1 <= Len(s)
                     => K[n + 1] = IF s[n + 1].peer = peer THEN K[n]
                                                          ELSE Append(K[n], s[n + 1])
<1> DEFINE D == 0 .. Len(s)
           Next1(x, n) == IF s[n].peer = peer THEN x ELSE Append(x, s[n])
           step == [n \in Nat |-> [x \in Seq(S) |-> IF n + 1 <= Len(s) THEN Next1(x, n + 1)
                                                                      ELSE x]]
           Body(f, n) == IF n = 0 THEN <<>>
                         ELSE IF s[n].peer = peer THEN f[n - 1] ELSE Append(f[n - 1], s[n])
           K == Without(s, peer)
<1>1. Len(s) \in Nat /\ D \subseteq Nat /\ 0 \in D /\ \A n \in D : n # 0 => n - 1 \in D
  BY LenProperties
<1>2. \A n \in 1 .. Len(s) : s[n] \in S
  BY ElementOfSeq
<1>3. \A n \in 1 .. Len(s) : \A x \in Seq(S) : Next1(x, n) \in Seq(S)
  <2> SUFFICES ASSUME NEW n \in 1 .. Len(s), NEW x \in Seq(S) PROVE Next1(x, n) \in Seq(S)
    OBVIOUS
  <2>1. Append(x, s[n]) \in Seq(S)
    BY <1>2, AppendProperties
  <2> QED BY <2>1
<1> HIDE DEF Next1
<1>4. step \in [Nat -> [Seq(S) -> Seq(S)]]
  BY <1>1, <1>3
<1>5. \A n \in Nat : \A x \in Seq(S) : n + 1 <= Len(s) => step[n][x] = Next1(x, n + 1)
  OBVIOUS
<1> HIDE DEF step
<1>6. PICK f : Unfolds(f, D, <<>>, step)
  <2> HIDE DEF D
  <2> QED BY <1>1, <1>4, RecursiveForm, EmptySeq
<1>7. \A n \in D : f[n] \in Seq(S)
  <2> HIDE DEF D
  <2> QED BY <1>1, <1>4, <1>6, Unfolded, EmptySeq
<1>8. f = [n \in D |-> Body(f, n)]
  <2>1. ASSUME NEW n \in D
        PROVE  (IF n = 0 THEN <<>> ELSE step[n - 1][f[n - 1]]) = Body(f, n)
    <3>1. CASE n = 0
      BY <3>1
    <3>2. CASE n # 0
      <4>1. n - 1 \in Nat /\ n - 1 \in D /\ (n - 1) + 1 = n /\ n <= Len(s)
        BY <1>1, <3>2
      <4>2. step[n - 1][f[n - 1]] = Next1(f[n - 1], n)
        BY <1>5, <1>7, <4>1
      <4> QED BY <3>2, <4>2 DEF Next1
    <3> QED BY <3>1, <3>2
  <2> HIDE DEF Body, D
  <2> QED BY <1>6, <2>1, Zenon DEF Unfolds
<1>9. K = [n \in D |-> Body(K, n)]
  BY <1>8, Zenon DEF Without
<1> HIDE DEF K
<1>10. \A n \in D : K[n] = Body(K, n)
  <2> HIDE DEF Body, D
  <2> QED BY <1>9, Zenon
<1>11. K[0] = <<>>
  BY <1>1, <1>10
<1>12. ASSUME NEW n \in Nat, n + 1 <= Len(s)
       PROVE  K[n + 1] = IF s[n + 1].peer = peer THEN K[n] ELSE Append(K[n], s[n + 1])
  <2>1. n + 1 \in D /\ n + 1 # 0 /\ (n + 1) - 1 = n
    BY <1>1, <1>12
  <2> QED BY <1>10, <2>1
<1> QED BY <1>11, <1>12 DEF K

LEMMA RequestRemoved ==
    ASSUME NEW st \in Typed, NEW peer
    PROVE  Stays(st, [st EXCEPT !.requests = Without(@, peer)[Len(@)]])
<1> DEFINE s == st.requests
           K == Without(s, peer)
           Left(n) == /\ K[n] \in Seq(KeptRequests)
                      /\ \A i \in DOMAIN K[n] : \E j \in 1 .. n : K[n][i] = s[j]
                      /\ DistinctPeers(s) => DistinctPeers(K[n])
           T == {n \in Nat : n <= Len(s) => Left(n)}
<1>1. /\ s \in Seq(KeptRequests) /\ Len(s) \in Nat
      /\ DistinctPeers(s) <=> \A i, j \in 1 .. Len(s) : s[i].peer = s[j].peer => i = j
      /\ \A n \in 1 .. Len(s) : s[n] \in KeptRequests
  <2>1. s \in Seq(KeptRequests)
    BY TypedParts
  <2> HIDE DEF s
  <2>2. Len(s) \in Nat /\ DOMAIN s = 1 .. Len(s)
    BY <2>1, LenProperties
  <2> QED BY <2>1, <2>2, ElementOfSeq DEF DistinctPeers
<1> HIDE DEF s
<1>2. /\ K[0] = <<>>
      /\ \A n \in Nat : n + 1 <= Len(s)
            => K[n + 1] = IF s[n + 1].peer = peer THEN K[n] ELSE Append(K[n], s[n + 1])
  BY <1>1, WithoutFacts
<1> HIDE DEF K
<1>3. 0 \in T
  <2>1. <<>> \in Seq(KeptRequests) /\ DOMAIN <<>> = {} /\ DistinctPeers(<<>>)
    BY EmptySeq, LenProperties DEF DistinctPeers
  <2> QED BY <1>2, <2>1
<1>4. ASSUME NEW n \in Nat, n \in T PROVE n + 1 \in T
  <2> SUFFICES ASSUME n + 1 <= Len(s) PROVE Left(n + 1)
    OBVIOUS
  <2>1. Left(n)
    BY <1>1, <1>4
  <2>2. CASE s[n + 1].peer = peer
    <3>1. K[n + 1] = K[n]
      BY <1>2, <2>2
    <3> DEFINE a == K[n]
    <3>2. /\ a \in Seq(KeptRequests)
          /\ \A i \in DOMAIN a : \E j \in 1 .. n : a[i] = s[j]
          /\ DistinctPeers(s) => DistinctPeers(a)
      BY <2>1
    <3> HIDE DEF a
    <3>3. \A i \in DOMAIN a : \E j \in 1 .. n + 1 : a[i] = s[j]
      BY <3>2
    <3>4. K[n + 1] = a
      BY <3>1 DEF a
    <3> QED BY <3>2, <3>3, <3>4
  <2>3. CASE s[n + 1].peer # peer
    <3> DEFINE a == K[n]
               e == s[n + 1]
    <3>1. K[n + 1] = Append(a, e) /\ e \in KeptRequests /\ a \in Seq(KeptRequests)
      <4>1. K[n + 1] = Append(a, e)
        BY <1>2, <2>3
      <4>2. n + 1 \in 1 .. Len(s)
        BY <1>1
      <4> QED BY <1>1, <2>1, <4>1, <4>2
    <3>2. /\ \A i \in DOMAIN a : \E j \in 1 .. n : a[i] = s[j]
          /\ DistinctPeers(s) => DistinctPeers(a)
      BY <2>1
    <3>3. DistinctPeers(s) => \A i \in DOMAIN a : a[i].peer # e.peer
      <4> SUFFICES ASSUME DistinctPeers(s), NEW i \in DOMAIN a PROVE a[i].peer # e.peer
        OBVIOUS
      <4>1. PICK j \in 1 .. n : a[i] = s[j]
        BY <3>2
      <4>2. j \in 1 .. Len(s) /\ n + 1 \in 1 .. Len(s) /\ j # n + 1
        BY <1>1
      <4> QED BY <1>1, <4>1, <4>2
    <3> HIDE DEF a
    <3>4. \A i \in DOMAIN a : \E j \in 1 .. n + 1 : a[i] = s[j]
      BY <3>2
    <3>5. e = s[n + 1] /\ n + 1 \in 1 .. n + 1
      OBVIOUS
    <3> HIDE DEF e
    <3> DEFINE b == Append(a, e)
    <3>6. /\ b \in Seq(KeptRequests) /\ DOMAIN b = DOMAIN a \cup {Len(a) + 1}
          /\ Len(a) + 1 \notin DOMAIN a
          /\ b[Len(a) + 1] = e /\ \A i \in DOMAIN a : b[i] = a[i]
      BY <3>1, Appended
    <3> HIDE DEF b
    <3>7. \A i \in DOMAIN b : \E j \in 1 .. n + 1 : b[i] = s[j]
      BY <3>4, <3>5, <3>6
    <3>8. DistinctPeers(s) => DistinctPeers(b)
      BY <3>2, <3>3, <3>6 DEF DistinctPeers
    <3> QED BY <3>1, <3>6, <3>7, <3>8 DEF b
  <2> QED BY <2>2, <2>3
<1>5. Left(Len(s))
  <2> HIDE DEF T
  <2>1. Len(s) \in T
    BY <1>1, <1>3, <1>4, Induction
  <2> QED BY <1>1, <2>1 DEF T
<1> DEFINE q == K[Len(s)]
<1>6. q \in Seq(KeptRequests) /\ (DistinctPeers(s) => DistinctPeers(q))
  BY <1>5
<1> HIDE DEF q
<1>7. Stays(st, [st EXCEPT !.requests = q])
  BY <1>6, RequestsReplaced DEF s
<1>8. [st EXCEPT !.requests = Without(@, peer)[Len(@)]] = [st EXCEPT !.requests = q]
  BY DEF q, K, s
<1> QED BY <1>7, <1>8

-----------------------------------------------------------------------------
(* What is in the files *)

Paths == {"identity", "store"}

IsFile(f) ==
    f = [magic |-> f.magic, version |-> f.version, salt |-> f.salt, sealed |-> f.sealed]

Genuine(f) == f.sealed.text \in Bytes

\* FileHoldsSaved, of the files written last and the values they were made from.
IdentityKept(w) ==
    w.file # NoFile =>
        /\ CanLoadIdentity(w.file, w.file.sealed.key[1])
        /\ MadeIdentity(w.file.sealed.text) = w.value

StoreKept(w) ==
    /\ w.value \in Typed
    /\ w.file # NoFile =>
          /\ CanUnseal(w.file, Magic["store"], w.file.sealed.key[1])
          /\ Genuine(w.file)
          /\ Fits(w.value) => /\ CanDecode(w.file.sealed.text)
                              /\ decode(w.file.sealed.text) = w.value

Files(d, w) ==
    /\ d = [p \in Paths |-> d[p]]
    /\ w = [p \in Paths |-> w[p]]
    /\ \A p \in Paths : IsFile(d[p]) /\ Genuine(d[p])
    /\ IdentityKept(w["identity"])
    /\ StoreKept(w["store"])

LEMMA AtPath ==
    ASSUME NEW d, d = [p \in Paths |-> d[p]], NEW path \in Paths, NEW f
    PROVE  LET e == [d EXCEPT ![path] = f]
           IN  /\ e = [p \in Paths |-> e[p]]
               /\ e[path] = f
               /\ \A p \in Paths : p # path => e[p] = d[p]
OBVIOUS

LEMMA HeaderFacts ==
    /\ \A f, g : Header(f) = Header(g)
                 => f.magic = g.magic /\ f.version = g.version /\ f.salt = g.salt
    /\ \A f : Header(f) # <<>>
<1>1. ASSUME NEW f, NEW g, Header(f) = Header(g)
      PROVE  f.magic = g.magic /\ f.version = g.version /\ f.salt = g.salt
  BY <1>1 DEF Header
<1>2. ASSUME NEW f PROVE Header(f) # <<>>
  BY DEF Header
<1> QED BY <1>1, <1>2

LEMMA SealedFacts ==
    ASSUME NEW p \in Paths, NEW s, NEW phrase, NEW text, NEW f,
           f = Sealed(Magic[p], s, phrase, text)
    PROVE  /\ IsFile(f) /\ f # NoFile /\ f.magic = Magic[p]
           /\ CanUnseal(f, Magic[p], f.sealed.key[1])
           /\ f.sealed.text = text
           /\ f.sealed.aad = Header(f)
<1> DEFINE x == [key |-> derive_key(phrase, s), aad |-> <<Magic[p], kFileVersion, s>>,
                 text |-> text]
<1>1. f = [magic |-> Magic[p], version |-> kFileVersion, salt |-> s, sealed |-> x]
  BY DEF Sealed
<1>2. /\ x.key = <<phrase, s>> /\ x.key[1] = phrase /\ x.text = text
      /\ x.aad = <<Magic[p], kFileVersion, s>>
  BY DEF derive_key
<1> HIDE DEF x
<1>3. /\ f.magic = Magic[p] /\ f.version = kFileVersion /\ f.salt = s /\ f.sealed = x
      /\ IsFile(f)
  BY <1>1 DEF IsFile
<1>4. f # NoFile
  BY <1>3 DEF NoFile, kFileVersion
<1>5. CanUnseal(f, Magic[p], f.sealed.key[1])
  BY <1>2, <1>3 DEF CanUnseal, valid_header, Header, derive_key
<1>6. f.sealed.aad = Header(f)
  BY <1>2, <1>3 DEF Header
<1> QED BY <1>2, <1>3, <1>4, <1>5, <1>6

LEMMA MagicsDiffer ==
    /\ Magic["identity"] = "OMID" /\ Magic["store"] = "OMDB"
    /\ Magic.identity = "OMID" /\ Magic.store = "OMDB"
BY DEF Magic

LEMMA StoreWritten ==
    ASSUME NEW st \in Typed, NEW s, NEW phrase, NEW f,
           f = Sealed(Magic.store, s, phrase, encode(st))
    PROVE  /\ IsFile(f) /\ Genuine(f) /\ f # NoFile
           /\ StoreKept([file |-> f, value |-> st])
<1>1. Magic.store = Magic["store"] /\ "store" \in Paths
  BY MagicsDiffer DEF Paths
<1>2. /\ IsFile(f) /\ f # NoFile /\ CanUnseal(f, Magic["store"], f.sealed.key[1])
      /\ f.sealed.text = encode(st)
  BY <1>1, SealedFacts
<1>3. Fits(st) => CanDecode(encode(st)) /\ decode(encode(st)) = st
  BY FittingIsWritable, StoreBack
<1>4. Genuine(f)
  BY <1>2, EncodedBytes DEF Genuine
<1> DEFINE x == [file |-> f, value |-> st]
<1>5. x.file = f /\ x.value = st
  OBVIOUS
<1> HIDE DEF x
<1>6. StoreKept(x)
  BY <1>2, <1>3, <1>4, <1>5 DEF StoreKept
<1> QED BY <1>2, <1>4, <1>6 DEF x

LEMMA LegacyStore ==
    ASSUME NEW c \in Legacy
    PROVE  LET st == [EmptyStore EXCEPT !.contacts = c]
           IN  st \in Typed /\ Distinct(st) /\ (Fits(st) => c \in Lists("contact"))
<1> DEFINE st == [EmptyStore EXCEPT !.contacts = c]
<1>1. c \in Seq(KeptContacts) /\ DOMAIN c = 1 .. Len(c) /\ Len(c) \in {0, 1}
  BY LegacyLists, LenProperties
<1>2. DistinctKeys(c) /\ DistinctPeers(<<>>)
  BY <1>1 DEF DistinctKeys, DistinctPeers
<1>3. st = [contacts |-> c, messages |-> <<>>, requests |-> <<>>]
  BY DEF EmptyStore
<1>4. st.contacts = c /\ st.requests = <<>> /\ st \in Typed
  BY <1>1, <1>3, EmptySeq DEF Typed
<1> HIDE DEF st
<1>5. Fits(st) => c \in Lists("contact")
  <2>1. Fits(st) => st \in Writable
    BY <1>4, FittingIsWritable
  <2> QED BY <1>4, <2>1 DEF Writable
<1> QED BY <1>2, <1>4, <1>5 DEF Distinct, st

LEMMA LegacyWritten ==
    ASSUME NEW c \in Legacy, NEW s, NEW phrase, NEW f,
           f = Sealed(Magic.store, s, phrase, encode_contacts(c))
    PROVE  /\ IsFile(f) /\ Genuine(f)
           /\ StoreKept([file |-> f, value |-> [EmptyStore EXCEPT !.contacts = c]])
<1>1. Magic.store = Magic["store"] /\ "store" \in Paths
  BY MagicsDiffer DEF Paths
<1>2. /\ IsFile(f) /\ CanUnseal(f, Magic["store"], f.sealed.key[1])
      /\ f.sealed.text = encode_contacts(c)
  BY <1>1, SealedFacts
<1> DEFINE st == [EmptyStore EXCEPT !.contacts = c]
           x == [file |-> f, value |-> st]
<1>3. /\ st \in Typed
      /\ Fits(st) => CanDecode(encode_contacts(c)) /\ decode(encode_contacts(c)) = st
  BY LegacyBack, LegacyStore
<1>4. Genuine(f)
  BY <1>2, LegacyLists, EncodedBytes DEF Genuine
<1>5. x.file = f /\ x.value = st
  OBVIOUS
<1> HIDE DEF st, x
<1>6. StoreKept(x)
  BY <1>2, <1>3, <1>4, <1>5 DEF StoreKept
<1> QED BY <1>2, <1>4, <1>6 DEF st, x

LEMMA IdentityWritten ==
    ASSUME NEW i \in Identities, NEW s, NEW phrase, NEW f,
           f = Sealed(Magic.identity, s, phrase, PutIdentity(i))
    PROVE  /\ IsFile(f) /\ Genuine(f) /\ f # NoFile
           /\ IdentityKept([file |-> f, value |-> i])
<1>1. Magic.identity = Magic["identity"] /\ "identity" \in Paths
  BY MagicsDiffer DEF Paths
<1>2. /\ IsFile(f) /\ f # NoFile /\ CanUnseal(f, Magic["identity"], f.sealed.key[1])
      /\ f.sealed.text = PutIdentity(i)
      /\ f.sealed.aad = Header(f) /\ f.magic = Magic["identity"]
  BY <1>1, SealedFacts
<1>3. /\ done(ReadIdentity(PutIdentity(i)).end)
      /\ MadeIdentity(PutIdentity(i)) = i
      /\ valid(i)
  BY IdentityBack
<1>4. Genuine(f)
  <2>1. put_bytes(i.public_key) \in Bytes /\ put_bytes(i.secret_key) \in Bytes
    <3>1. i.public_key \in Bytes /\ i.secret_key \in Bytes
      BY StoreAssumption DEF Bytes
    <3> QED BY <3>1, AnyStringBytes
  <2>2. PutIdentity(i) = Cat(put_bytes(i.public_key), put_bytes(i.secret_key))
    BY DEF PutIdentity, Cat
  <2> QED BY <1>2, <2>1, <2>2, CatBytes DEF Genuine
<1> QED BY <1>1, <1>2, <1>3, <1>4 DEF IdentityKept, CanLoadIdentity

LEMMA Nothing ==
    /\ IsFile(NoFile) /\ Genuine(NoFile) /\ IsFile(ShortFile) /\ Genuine(ShortFile)
    /\ IdentityKept(Absent["identity"]) /\ StoreKept(Absent["store"])
    /\ NoFile.magic = "none" /\ ShortFile.magic = "short" /\ ShortFile # NoFile
    /\ Absent = [p \in Paths |-> Absent[p]]
    /\ \A p \in Paths : Absent[p].file = NoFile
<1>1. /\ IsFile(NoFile) /\ NoFile.magic = "none" /\ NoFile.sealed.text = <<>>
  BY DEF IsFile, NoFile, NoSeal
<1>2. /\ IsFile(ShortFile) /\ ShortFile.magic = "short" /\ ShortFile.sealed.text = <<>>
      /\ ShortFile # NoFile
  BY DEF IsFile, NoFile, NoSeal, ShortFile
<1>4. Genuine(NoFile) /\ Genuine(ShortFile)
  BY <1>1, <1>2, EmptyBytes DEF Genuine
<1>5. Absent = [p \in Paths |-> Absent[p]] /\ \A p \in Paths : Absent[p].file = NoFile
  BY DEF Absent, Paths
<1>6. StoreKept(Absent["store"])
  BY <1>5, EmptyIsStore DEF StoreKept, Paths, Absent
<1> QED BY <1>1, <1>2, <1>4, <1>5, <1>6 DEF IdentityKept, Paths

\* What an operation on the files leaves: a file written, or not quite, or harmed.
LEMMA FilesChanged ==
    ASSUME NEW d, NEW w, Files(d, w), NEW path \in Paths, NEW f, IsFile(f), Genuine(f)
    PROVE  /\ Files([d EXCEPT ![path] = f], w)
           /\ \A x : (path = "identity" => IdentityKept(x)) /\ (path = "store" => StoreKept(x))
                 => Files([d EXCEPT ![path] = f], [w EXCEPT ![path] = x])
<1> DEFINE e == [d EXCEPT ![path] = f]
<1>1. /\ d = [p \in Paths |-> d[p]] /\ w = [p \in Paths |-> w[p]]
      /\ \A p \in Paths : IsFile(d[p]) /\ Genuine(d[p])
      /\ IdentityKept(w["identity"]) /\ StoreKept(w["store"])
  BY DEF Files
<1>2. /\ e = [p \in Paths |-> e[p]]
      /\ \A p \in Paths : IsFile(e[p]) /\ Genuine(e[p])
  <2>1. e = [p \in Paths |-> e[p]] /\ e[path] = f /\ \A p \in Paths : p # path => e[p] = d[p]
    BY <1>1, AtPath
  <2> HIDE DEF e
  <2> QED BY <1>1, <2>1
<1> HIDE DEF e
<1>3. Files(e, w)
  BY <1>1, <1>2 DEF Files
<1>4. ASSUME NEW x, path = "identity" => IdentityKept(x), path = "store" => StoreKept(x)
      PROVE  Files(e, [w EXCEPT ![path] = x])
  <2> DEFINE v == [w EXCEPT ![path] = x]
  <2>1. v = [p \in Paths |-> v[p]] /\ v[path] = x /\ \A p \in Paths : p # path => v[p] = w[p]
    BY <1>1, AtPath
  <2> HIDE DEF v
  <2>2. path = "identity" \/ path = "store"
    BY DEF Paths
  <2>3. "identity" \in Paths /\ "store" \in Paths /\ "identity" # "store"
    BY DEF Paths
  <2>4. IdentityKept(v["identity"]) /\ StoreKept(v["store"])
    <3>1. CASE path = "identity"
      BY <1>1, <1>4, <2>1, <2>3, <3>1
    <3>2. CASE path = "store"
      BY <1>1, <1>4, <2>1, <2>3, <3>2
    <3> QED BY <2>2, <3>1, <3>2
  <2>5. Files(e, v)
    BY <1>2, <2>1, <2>4 DEF Files
  <2> QED BY <2>5 DEF v
<1> QED BY <1>3, <1>4 DEF e

LEMMA HarmedFile ==
    ASSUME NEW f, NEW g, IsFile(f), Genuine(f), IsFile(g), Genuine(g), NEW h \in Harmed(f, g)
    PROVE  IsFile(h) /\ Genuine(h)
<1>1. CASE h = NoFile
  BY <1>1, Nothing
<1>2. CASE h = g
  BY <1>2
<1>3. CASE h = [f EXCEPT !.version = 0]
  <2>1. h = [magic |-> f.magic, version |-> 0, salt |-> f.salt, sealed |-> f.sealed]
    BY <1>3 DEF IsFile
  <2>2. h.sealed = f.sealed /\ IsFile(h)
    BY <2>1 DEF IsFile
  <2> QED BY <2>2 DEF Genuine
<1>4. CASE h = [f EXCEPT !.sealed = NoSeal]
  <2>1. h = [magic |-> f.magic, version |-> f.version, salt |-> f.salt, sealed |-> NoSeal]
    BY <1>4 DEF IsFile
  <2>2. h.sealed = NoSeal /\ IsFile(h)
    BY <2>1 DEF IsFile
  <2>3. NoSeal.text = <<>>
    BY DEF NoSeal
  <2> QED BY <2>2, <2>3, EmptyBytes DEF Genuine
<1>5. CASE h = [f EXCEPT !.magic = g.magic]
  <2>1. h = [magic |-> g.magic, version |-> f.version, salt |-> f.salt, sealed |-> f.sealed]
    BY <1>5 DEF IsFile
  <2>2. h.sealed = f.sealed /\ IsFile(h)
    BY <2>1 DEF IsFile
  <2> QED BY <2>2 DEF Genuine
<1>6. CASE h = [f EXCEPT !.salt = g.salt]
  <2>1. h = [magic |-> f.magic, version |-> f.version, salt |-> g.salt, sealed |-> f.sealed]
    BY <1>6 DEF IsFile
  <2>2. h.sealed = f.sealed /\ IsFile(h)
    BY <2>1 DEF IsFile
  <2> QED BY <2>2 DEF Genuine
<1> QED BY <1>1, <1>2, <1>3, <1>4, <1>5, <1>6 DEF Harmed

\* What a call of save does.
LEMMA Saved ==
    ASSUME Files(disk, written), NEW st \in Typed, NEW s, NEW phrase, save(s, st, phrase)
    PROVE  Files(disk', written')
<1>1. "store" \in Paths /\ "store" # "identity"
  BY DEF Paths
<1>2. CASE Replaced("store", Sealed(Magic.store, s, phrase, encode(st)), st)
  <2> DEFINE f == Sealed(Magic.store, s, phrase, encode(st))
             x == [file |-> f, value |-> st]
  <2>1. IsFile(f) /\ Genuine(f) /\ StoreKept(x)
    BY StoreWritten
  <2>2. disk' = [disk EXCEPT !["store"] = f] /\ written' = [written EXCEPT !["store"] = x]
    BY <1>2 DEF Replaced
  <2> HIDE DEF f, x
  <2> QED BY <1>1, <2>1, <2>2, FilesChanged
<1>3. CASE WriteFails
  BY <1>3 DEF WriteFails
<1>4. CASE WriteFallsShort("store")
  <2>1. disk' = [disk EXCEPT !["store"] = ShortFile] /\ written' = written
    BY <1>4 DEF WriteFallsShort
  <2> QED BY <1>1, <2>1, Nothing, FilesChanged
<1> QED BY <1>2, <1>3, <1>4 DEF save

LEMMA AutoSaved ==
    ASSUME Files(disk, written), store' \in Typed, AutoSave
    PROVE  Files(disk', written')
<1>1. CASE persistent /\ save(salt, store', pass)
  BY <1>1, Saved
<1>2. CASE UNCHANGED <<disk, written, faults>>
  BY <1>2
<1> QED BY <1>1, <1>2 DEF AutoSave

FilesInv == Files(disk, written) /\ store \in Typed

LEMMA FilesInitially == Init => FilesInv
<1> SUFFICES ASSUME Init PROVE FilesInv
  OBVIOUS
<1>1. store \in Typed
  BY EmptyIsStore DEF Init
<1>2. CASE written = Absent
  <2>1. \A p \in Paths : written[p].file = NoFile
    BY <1>2, Nothing
  <2>2. written = [p \in Paths |-> written[p]] /\ DOMAIN written = Paths
    BY <1>2 DEF Absent, Paths
  <2>3. disk = [p \in Paths |-> disk[p]] /\ \A p \in Paths : disk[p] = NoFile
    BY <2>1, <2>2 DEF Init
  <2> QED BY <1>1, <1>2, <2>2, <2>3, Nothing DEF FilesInv, Files
<1>3. ASSUME NEW phrase \in Passphrases, NEW i \in Identities, NEW c \in Legacy,
             written = LegacyFiles(phrase, i, c)
      PROVE  FilesInv
  <2> DEFINE f == Sealed(Magic.identity, 1, phrase, PutIdentity(i))
             g == Sealed(Magic.store, 2, phrase, encode_contacts(c))
             st == [EmptyStore EXCEPT !.contacts = c]
             x == [file |-> f, value |-> i]
             y == [file |-> g, value |-> st]
  <2>1. IsFile(f) /\ Genuine(f) /\ IdentityKept(x)
    BY IdentityWritten
  <2>2. IsFile(g) /\ Genuine(g) /\ StoreKept(y)
    BY LegacyWritten
  <2>3. x.file = f /\ y.file = g
    OBVIOUS
  <2>4. written = [identity |-> x, store |-> y]
    BY <1>3 DEF LegacyFiles
  <2> HIDE DEF f, g, st, x, y
  <2>5. written = [p \in Paths |-> written[p]] /\ DOMAIN written = Paths
        /\ written["identity"] = x /\ written["store"] = y
    BY <2>4 DEF Paths
  <2>6. disk = [p \in Paths |-> disk[p]] /\ disk["identity"] = f /\ disk["store"] = g
    <3>1. disk = [p \in Paths |-> written[p].file]
      BY <2>5 DEF Init
    <3> QED BY <2>3, <2>5, <3>1 DEF Paths
  <2>7. \A p \in Paths : IsFile(disk[p]) /\ Genuine(disk[p])
    BY <2>1, <2>2, <2>6 DEF Paths
  <2> QED BY <1>1, <2>1, <2>2, <2>5, <2>6, <2>7 DEF FilesInv, Files
<1> QED BY <1>2, <1>3 DEF Init, Legacy

LEMMA FilesStep == FilesInv /\ [Next]_vars => FilesInv'
<1> SUFFICES ASSUME FilesInv, [Next]_vars PROVE FilesInv'
  OBVIOUS
<1>1. Files(disk, written) /\ store \in Typed
  BY DEF FilesInv
<1> SUFFICES Files(disk', written') /\ store' \in Typed
  BY DEF FilesInv, Files, IsFile, Genuine, IdentityKept, StoreKept
<1>2. ASSUME NEW phrase \in Passphrases, LoadIdentity(phrase)
      PROVE  Files(disk', written') /\ store' \in Typed
  BY <1>1, <1>2 DEF LoadIdentity
<1>3. ASSUME NEW phrase \in Passphrases, NEW i \in Identities, CreateIdentity(phrase, i)
      PROVE  Files(disk', written') /\ store' \in Typed
  <2> DEFINE f == Sealed(Magic.identity, salts', phrase, PutIdentity(i))
             x == [file |-> f, value |-> i]
  <2>1. /\ store' = store
        /\ Replaced("identity", f, i) \/ WriteFallsShort("identity") \/ WriteFails
    BY <1>3 DEF CreateIdentity
  <2>2. IsFile(f) /\ Genuine(f) /\ IdentityKept(x)
    BY IdentityWritten
  <2>3. Replaced("identity", f, i) => /\ disk' = [disk EXCEPT !["identity"] = f]
                                     /\ written' = [written EXCEPT !["identity"] = x]
    BY DEF Replaced
  <2> HIDE DEF f, x
  <2>4. "identity" \in Paths /\ "identity" # "store"
    BY DEF Paths
  <2>5. CASE Replaced("identity", f, i)
    BY <1>1, <2>1, <2>2, <2>3, <2>4, <2>5, FilesChanged
  <2>6. CASE WriteFallsShort("identity")
    <3>1. disk' = [disk EXCEPT !["identity"] = ShortFile] /\ written' = written
      BY <2>6 DEF WriteFallsShort
    <3> QED BY <1>1, <2>1, <2>4, <3>1, Nothing, FilesChanged
  <2>7. CASE WriteFails
    BY <1>1, <2>1, <2>7 DEF WriteFails
  <2> QED BY <2>1, <2>5, <2>6, <2>7
<1>4. ASSUME OpenStore PROVE Files(disk', written') /\ store' \in Typed
  <2>1. disk' = disk /\ written' = written
    BY <1>4 DEF OpenStore
  <2>2. CASE CanLoadStore(disk["store"], pass) /\ store' = decode(disk["store"].sealed.text)
    <3>1. disk["store"].sealed.text \in Bytes
      BY <1>1 DEF Files, Paths, Genuine
    <3>2. store' \in Typed
      BY <2>2, <3>1, DecodedFits, WritableIsTyped DEF CanLoadStore
    <3> QED BY <1>1, <2>1, <3>2
  <2>3. CASE RefuseStore
    BY <1>1, <2>1, <2>3, EmptyIsStore DEF RefuseStore
  <2> QED BY <1>4, <2>2, <2>3 DEF OpenStore
<1>5. ASSUME CreateStore PROVE Files(disk', written') /\ store' \in Typed
  <2>1. store' \in Typed /\ save(salt', store', pass)
    BY <1>5, EmptyIsStore DEF CreateStore
  <2> QED BY <1>1, <2>1, Saved
<1>6. ASSUME NEW c \in Contacts, Upsert(c) PROVE Files(disk', written') /\ store' \in Typed
  <2>1. store' \in Typed /\ AutoSave
    BY <1>1, <1>6, Upserted DEF Stays, Upsert, Known
  <2> QED BY <1>1, <2>1, AutoSaved
<1>7. ASSUME NEW m \in Messages, AppendMessage(m) PROVE Files(disk', written') /\ store' \in Typed
  <2>1. store' \in Typed /\ AutoSave
    BY <1>1, <1>7, MessageAppended DEF Stays, AppendMessage
  <2> QED BY <1>1, <2>1, AutoSaved
<1>8. ASSUME NEW q \in Requests, AddRequest(q) PROVE Files(disk', written') /\ store' \in Typed
  <2>1. store' \in Typed /\ AutoSave
    BY <1>1, <1>8, RequestAppended DEF Stays, AddRequest
  <2> QED BY <1>1, <2>1, AutoSaved
<1>9. ASSUME NEW peer, RemoveRequest(peer) PROVE Files(disk', written') /\ store' \in Typed
  <2>1. store' \in Typed /\ AutoSave
    BY <1>1, <1>9, RequestRemoved DEF Stays, RemoveRequest
  <2> QED BY <1>1, <2>1, AutoSaved
<1>10. ASSUME Exit PROVE Files(disk', written') /\ store' \in Typed
  BY <1>1, <1>10, EmptyIsStore DEF Exit
<1>11. ASSUME Harm PROVE Files(disk', written') /\ store' \in Typed
  <2>1. store' = store
    BY <1>11 DEF Harm, memory
  <2>2. DOMAIN disk = Paths
    BY <1>1 DEF Files
  <2>3. PICK p, o \in Paths : \E f \in Harmed(disk[p], disk[o]) :
           /\ disk' = [disk EXCEPT ![p] = f]
           /\ written' = IF f = NoFile THEN [written EXCEPT ![p] = Absent[p]] ELSE written
    BY <1>11, <2>2 DEF Harm
  <2>4. PICK f \in Harmed(disk[p], disk[o]) :
           /\ disk' = [disk EXCEPT ![p] = f]
           /\ written' = IF f = NoFile THEN [written EXCEPT ![p] = Absent[p]] ELSE written
    BY <2>3
  <2>5. IsFile(f) /\ Genuine(f)
    BY <1>1, HarmedFile DEF Files
  <2>6. p = "identity" => IdentityKept(Absent[p])
    BY Nothing
  <2>7. p = "store" => StoreKept(Absent[p])
    BY Nothing
  <2> QED BY <1>1, <2>1, <2>4, <2>5, <2>6, <2>7, FilesChanged
<1>12. CASE UNCHANGED vars
  BY <1>1, <1>12 DEF vars, memory
<1> QED BY <1>2, <1>3, <1>4, <1>5, <1>6, <1>7, <1>8, <1>9, <1>10, <1>11, <1>12 DEF Next

LEMMA FilesAlways == Spec => []FilesInv
BY FilesInitially, FilesStep, PTL DEF Spec

\* What was saved loads as it was exactly when every name, text and list of it is
\* as short as its length and count can say (encode and decode, store.cpp; put_str,
\* blob.hpp), whatever happened to the files before.  A longer one is cut nowhere:
\* whatever decode makes of the file, it is another store.
THEOREM SavedFilesLoad == Spec => []FileHoldsSaved
<1>1. FilesInv => FileHoldsSaved
  <2> SUFFICES ASSUME FilesInv PROVE FileHoldsSaved
    OBVIOUS
  <2>1. IdentityKept(written["identity"]) /\ StoreKept(written["store"])
    BY DEF FilesInv, Files
  <2> DEFINE w == written["store"]
             text == w.file.sealed.text
             Back == CanLoadStore(w.file, w.file.sealed.key[1]) /\ decode(text) = w.value
  <2>2. ASSUME w.file # NoFile PROVE Fits(w.value) <=> Back
    <3>1. /\ w.value \in Typed /\ CanUnseal(w.file, Magic["store"], w.file.sealed.key[1])
          /\ text \in Bytes
          /\ Fits(w.value) => CanDecode(text) /\ decode(text) = w.value
      BY <2>1, <2>2 DEF StoreKept, Genuine
    <3>2. CanLoadStore(w.file, w.file.sealed.key[1]) <=> CanDecode(text)
      BY <3>1, MagicsDiffer DEF CanLoadStore
    <3>3. CanDecode(text) => decode(text) \in Writable
      BY <3>1, DecodedFits
    <3>4. w.value \in Writable => Fits(w.value)
      BY <3>1, FittingIsWritable
    <3> QED BY <3>1, <3>2, <3>3, <3>4
  <2>3. disk["store"] = w.file => (disk["store"] # NoFile => (Fits(w.value) <=>
            CanLoadStore(disk["store"], disk["store"].sealed.key[1])
              /\ decode(disk["store"].sealed.text) = w.value))
    BY <2>2
  <2> HIDE DEF w
  <2> QED BY <2>1, <2>3 DEF FileHoldsSaved, IdentityKept, w
<1> QED BY <1>1, FilesAlways, PTL

-----------------------------------------------------------------------------
(* At most one file harmed.  With two, an old store may be copied to the   *)
(* other path and copied back over its successor.  It opens: a seal does   *)
(* not say that it is the last one, and OpensOnlyWritten is false.         *)

Unopenable(p, f) == \A phrase : ~CanUnseal(f, Magic[p], phrase)

\* Unless it was harmed, a file is the last one written to its path or a short
\* one; harmed, it is removed, unchanged or opens under no passphrase at all.
Honest(d, w, h) ==
    /\ h \in Nat
    /\ \A p \in Paths :
          /\ d[p] = w[p].file \/ Unopenable(p, d[p])
          /\ d[p] = NoFile => w[p] = Absent[p]
          /\ h = 0 => d[p] \in {w[p].file, ShortFile}

LEMMA WrongHeader ==
    ASSUME NEW p \in Paths, NEW f,
           f.magic # Magic[p] \/ f.version # kFileVersion \/ f.sealed.aad # Header(f)
    PROVE  Unopenable(p, f)
BY DEF Unopenable, CanUnseal, valid_header

LEMMA HonestWrite ==
    ASSUME NEW d, NEW w, NEW h, Files(d, w), Honest(d, w, h),
           NEW path \in Paths, NEW f, f # NoFile, NEW v
    PROVE  Honest([d EXCEPT ![path] = f], [w EXCEPT ![path] = [file |-> f, value |-> v]], h)
<1> DEFINE e == [d EXCEPT ![path] = f]
           x == [file |-> f, value |-> v]
           u == [w EXCEPT ![path] = x]
<1>1. e[path] = f /\ \A p \in Paths : p # path => e[p] = d[p]
  BY AtPath DEF Files
<1>2. u[path] = x /\ \A p \in Paths : p # path => u[p] = w[p]
  BY AtPath DEF Files
<1>3. x.file = f
  OBVIOUS
<1> HIDE DEF e, x, u
<1>4. Honest(e, u, h)
  BY <1>1, <1>2, <1>3 DEF Honest
<1> QED BY <1>4 DEF e, x, u

LEMMA HonestShort ==
    ASSUME NEW d, NEW w, NEW h, Files(d, w), Honest(d, w, h), NEW path \in Paths
    PROVE  Honest([d EXCEPT ![path] = ShortFile], w, h)
<1> DEFINE e == [d EXCEPT ![path] = ShortFile]
<1>1. e[path] = ShortFile /\ \A p \in Paths : p # path => e[p] = d[p]
  BY AtPath DEF Files
<1>2. ShortFile # NoFile /\ Unopenable(path, ShortFile)
  <2>1. ShortFile.magic # Magic[path]
    BY Nothing, MagicsDiffer DEF Paths
  <2> QED BY <2>1, WrongHeader, Nothing
<1> HIDE DEF e
<1>3. Honest(e, w, h)
  BY <1>1, <1>2 DEF Honest
<1> QED BY <1>3 DEF e

\* What the program wrote has the magic of its path and is bound to its header.
LEMMA WrittenHeader ==
    ASSUME NEW d, NEW w, Files(d, w), NEW p \in Paths, w[p].file # NoFile
    PROVE  w[p].file.magic = Magic[p] /\ w[p].file.sealed.aad = Header(w[p].file)
<1>1. CanUnseal(w[p].file, Magic[p], w[p].file.sealed.key[1])
  <2>1. CASE p = "identity"
    BY <2>1, MagicsDiffer DEF Files, IdentityKept, CanLoadIdentity
  <2>2. CASE p = "store"
    BY <2>2, MagicsDiffer DEF Files, StoreKept
  <2> QED BY <2>1, <2>2 DEF Paths
<1> QED BY <1>1 DEF CanUnseal, valid_header

\* A file of either path that was not harmed, seen from the other one.
LEMMA OthersMagic ==
    ASSUME NEW d, NEW w, Files(d, w), Honest(d, w, 0), NEW p \in Paths, NEW o \in Paths, p # o
    PROVE  d[o].magic # Magic[p]
<1>1. d[o] \in {w[o].file, ShortFile}
  BY DEF Honest
<1>2. d[o].magic \in {"none", "short", Magic[o]}
  BY <1>1, WrittenHeader, Nothing
<1>3. Magic[o] # Magic[p]
  BY MagicsDiffer DEF Paths
<1> QED BY <1>2, <1>3, MagicsDiffer DEF Paths

LEMMA HarmedIsUnopenable ==
    ASSUME NEW d, NEW w, Files(d, w), Honest(d, w, 0), NEW p \in Paths, NEW o \in Paths, p # o,
           d[p] # NoFile, NEW f \in Harmed(d[p], d[o]) \ {d[p]}, f # NoFile
    PROVE  Unopenable(p, f)
<1>1. IsFile(d[p]) /\ d[o].magic # Magic[p]
  BY OthersMagic DEF Files
<1> DEFINE a == d[p]
           b == d[o]
<1>2. a = [magic |-> a.magic, version |-> a.version, salt |-> a.salt, sealed |-> a.sealed]
  BY <1>1 DEF IsFile
<1>3. a.magic = Magic[p] => a.sealed.aad = Header(a)
  <2>1. a \in {w[p].file, ShortFile}
    BY DEF Honest
  <2>2. ShortFile.magic # Magic[p]
    BY Nothing, MagicsDiffer DEF Paths
  <2> QED BY <2>1, <2>2, WrittenHeader
<1>4. b.magic # Magic[p] /\ f \in Harmed(a, b) /\ f # a
  BY <1>1
<1> HIDE DEF a, b
<1>5. CASE f = b
  BY <1>4, <1>5, WrongHeader
<1>6. CASE f = [a EXCEPT !.version = 0]
  <2>1. f.version = 0
    BY <1>2, <1>6
  <2> QED BY <2>1, WrongHeader DEF kFileVersion
<1>7. CASE f = [a EXCEPT !.sealed = NoSeal]
  <2>1. f.sealed = NoSeal /\ NoSeal.aad = <<>>
    BY <1>2, <1>7 DEF NoSeal
  <2> QED BY <2>1, WrongHeader, HeaderFacts
<1>8. CASE f = [a EXCEPT !.magic = b.magic]
  <2>1. f.magic = b.magic
    BY <1>2, <1>8
  <2> QED BY <1>4, <2>1, WrongHeader
<1>9. CASE f = [a EXCEPT !.salt = b.salt]
  <2>1. f = [magic |-> a.magic, version |-> a.version, salt |-> b.salt, sealed |-> a.sealed]
    BY <1>2, <1>9
  <2>2. f.magic = a.magic /\ f.salt = b.salt /\ f.sealed = a.sealed
    BY <2>1
  <2>3. CASE f.magic # Magic[p]
    BY <2>3, WrongHeader
  <2>4. CASE f.magic = Magic[p]
    <3>1. a.sealed.aad = Header(a)
      BY <1>3, <2>2, <2>4
    <3>2. f.salt # a.salt
      BY <1>2, <1>4, <2>1, <2>2
    <3>3. f.sealed.aad # Header(f)
      BY <2>2, <3>1, <3>2, HeaderFacts
    <3> QED BY <3>3, WrongHeader
  <2> QED BY <2>3, <2>4
<1> QED BY <1>4, <1>5, <1>6, <1>7, <1>8, <1>9 DEF Harmed

LEMMA HonestHarm ==
    ASSUME NEW d, NEW w, Files(d, w), Honest(d, w, 0), NEW p \in Paths, NEW o \in Paths, p # o,
           d[p] # NoFile, NEW f \in Harmed(d[p], d[o]) \ {d[p]}
    PROVE  Honest([d EXCEPT ![p] = f],
                  IF f = NoFile THEN [w EXCEPT ![p] = Absent[p]] ELSE w, 1)
<1> DEFINE e == [d EXCEPT ![p] = f]
           u == [w EXCEPT ![p] = Absent[p]]
<1>1. e[p] = f /\ \A x \in Paths : x # p => e[x] = d[x]
  BY AtPath DEF Files
<1>2. u[p] = Absent[p] /\ \A x \in Paths : x # p => u[x] = w[x]
  BY AtPath DEF Files
<1>3. f # NoFile => Unopenable(p, f)
  BY HarmedIsUnopenable
<1> HIDE DEF e, u
<1>4. CASE f = NoFile
  <2>1. Absent[p].file = NoFile
    BY Nothing
  <2>2. Honest(e, u, 1)
    BY <1>1, <1>2, <1>4, <2>1 DEF Honest
  <2> QED BY <1>4, <2>2 DEF e, u
<1>5. CASE f # NoFile
  <2>1. Honest(e, w, 1)
    BY <1>1, <1>3, <1>5 DEF Honest
  <2> QED BY <1>5, <2>1 DEF e
<1> QED BY <1>4, <1>5

\* What a process with a persistent store has, against what is on disk.
InFile ==
    phase = "running" /\ persistent /\ ~misread =>
        /\ IsPrefix(written["store"].value.messages, store.messages)
        /\ faults = 0 /\ written["store"].file # NoFile => written["store"].value = store

\* Neither memory nor the last file has two entries for a key.
Unique == ~misread => Distinct(store) /\ Distinct(written["store"].value)

Guarded == Honest(disk, written, harm) /\ faults \in Nat /\ InFile /\ Unique

LEMMA StaysPrefix ==
    ASSUME NEW S, NEW s \in Seq(S), NEW t \in Seq(S)
    PROVE  /\ IsPrefix(s, s) /\ IsPrefix(<<>>, s)
           /\ \A e \in S : IsPrefix(s, t) => IsPrefix(s, Append(t, e))
<1>1. Len(s) \in Nat /\ Len(t) \in Nat /\ Len(<<>>) = 0
  BY LenProperties, EmptySeq
<1>2. IsPrefix(s, s)
  BY <1>1 DEF IsPrefix
<1>3. IsPrefix(<<>>, s)
  <2>1. \A u \in {<<>>, s} : SubSeq(u, 1, 0) = <<>>
    BY EmptySeq, SubSeqProperties, <1>1
  <2> QED BY <1>1, <2>1 DEF IsPrefix
<1>4. ASSUME NEW e \in S, IsPrefix(s, t) PROVE IsPrefix(s, Append(t, e))
  <2> DEFINE u == Append(t, e)
             n == Len(s)
  <2>1. /\ u \in Seq(S) /\ Len(u) = Len(t) + 1
        /\ \A i \in 1 .. Len(t) : u[i] = t[i]
    BY AppendProperties
  <2>2. n <= Len(t) /\ SubSeq(s, 1, n) = SubSeq(t, 1, n) /\ n \in Nat
    BY <1>1, <1>4 DEF IsPrefix
  <2> HIDE DEF u, n
  <2> DEFINE a == SubSeq(t, 1, n)
             b == SubSeq(u, 1, n)
  <2>3. a \in Seq(S) /\ Len(a) = n /\ \A i \in 1 .. n : a[i] = t[i]
    <3>1. n - 1 + 1 = n /\ \A i \in 1 .. n : 1 + i - 1 = i
      BY <2>2
    <3> QED BY <1>1, <2>2, <3>1, PartOf
  <2>4. b \in Seq(S) /\ Len(b) = n /\ \A i \in 1 .. n : b[i] = u[i]
    <3>1. n <= Len(u) /\ 1 <= n + 1 /\ 1 \in Nat
      BY <1>1, <2>1, <2>2
    <3>2. /\ b \in Seq(S) /\ Len(b) = n - 1 + 1
          /\ \A i \in 1 .. n - 1 + 1 : b[i] = u[1 + i - 1]
      <4>1. u \in Seq(S) /\ n \in Nat
        BY <2>1, <2>2
      <4> QED BY <3>1, <4>1, PartOf
    <3> HIDE DEF b
    <3> QED BY <2>2, <3>2
  <2> HIDE DEF a, b
  <2>5. \A i \in 1 .. n : a[i] = b[i]
    <3>1. Len(t) \in Nat
      BY <1>1
    <3>2. \A i \in 1 .. n : i \in 1 .. Len(t)
      BY <2>2, <3>1
    <3> QED BY <2>1, <2>3, <2>4, <3>2
  <2>6. a = b
    BY <2>3, <2>4, <2>5, SeqEqual
  <2>7. n <= Len(u) /\ SubSeq(s, 1, n) = SubSeq(u, 1, n)
    BY <1>1, <2>1, <2>2, <2>6 DEF a, b
  <2> QED BY <2>7 DEF IsPrefix, n, u
<1> QED BY <1>2, <1>3, <1>4

\* What a call of save does to the history, and that it spoils no file.
LEMMA SavedHonestly ==
    ASSUME FilesInv, Guarded, NEW st \in Typed, NEW s, NEW phrase, save(s, st, phrase)
    PROVE  /\ Honest(disk', written', harm)
           /\ faults' \in Nat
           /\ \/ written'["store"].value = st
              \/ written' = written /\ faults' # 0
<1>1. "store" \in Paths /\ Files(disk, written) /\ Honest(disk, written, harm) /\ faults \in Nat
  BY DEF Paths, FilesInv, Guarded
<1>2. CASE Replaced("store", Sealed(Magic.store, s, phrase, encode(st)), st)
  <2> DEFINE f == Sealed(Magic.store, s, phrase, encode(st))
             x == [file |-> f, value |-> st]
  <2>1. f # NoFile
    BY StoreWritten
  <2>2. /\ disk' = [disk EXCEPT !["store"] = f] /\ written' = [written EXCEPT !["store"] = x]
        /\ faults' = faults
    BY <1>2 DEF Replaced
  <2> HIDE DEF f
  <2>3. Honest(disk', written', harm)
    BY <1>1, <2>1, <2>2, HonestWrite
  <2>4. x.value = st
    OBVIOUS
  <2> HIDE DEF x
  <2>5. written'["store"] = x
    BY <1>1, <2>2, AtPath DEF Files
  <2> QED BY <1>1, <2>2, <2>3, <2>4, <2>5
<1>3. CASE WriteFails
  BY <1>1, <1>3 DEF WriteFails
<1>4. CASE WriteFallsShort("store")
  <2>1. disk' = [disk EXCEPT !["store"] = ShortFile] /\ written' = written /\ faults' = faults + 1
    BY <1>4 DEF WriteFallsShort
  <2>2. Honest(disk', written', harm)
    BY <1>1, <2>1, HonestShort
  <2> QED BY <1>1, <2>1, <2>2
<1> QED BY <1>2, <1>3, <1>4 DEF save

\* What an operation on the store must leave, with its save.
LEMMA OperationIsGuarded ==
    ASSUME FilesInv, Guarded, phase = "running", AutoSave, Stays(store, store'),
           store'.messages = store.messages
              \/ \E m \in Messages : store'.messages = Append(store.messages, m)
    PROVE  Guarded' /\ (written'["store"] # written["store"] /\ ~misread =>
              IsPrefix(written["store"].value.messages, written'["store"].value.messages))
<1>1. phase' = phase /\ persistent' = persistent /\ harm' = harm /\ misread' = misread
  BY DEF AutoSave
<1>2. /\ written["store"].value \in Typed /\ written["store"].value.messages \in Seq(KeptMessages)
      /\ store.messages \in Seq(KeptMessages)
      /\ store' \in Typed /\ store'.messages \in Seq(KeptMessages)
      /\ Messages \subseteq KeptMessages
  <2>1. written["store"].value \in Typed /\ store \in Typed /\ store' \in Typed
    BY DEF FilesInv, Files, StoreKept, Stays
  <2> QED BY <2>1, TypedParts, Given
<1>3. ~misread => Distinct(store') /\ Distinct(written["store"].value)
  BY DEF Guarded, Unique, Stays
<1>4. CASE persistent /\ save(salt, store', pass)
  <2>1. /\ Honest(disk', written', harm)
        /\ faults' \in Nat
        /\ written'["store"].value = store' \/ (written' = written /\ faults' # 0)
    BY <1>2, <1>4, SavedHonestly
  <2>2. ~misread => IsPrefix(written["store"].value.messages, store.messages)
    BY <1>4 DEF Guarded, InFile
  <2>3. ~misread => IsPrefix(written["store"].value.messages, store'.messages)
    BY <1>2, <2>2, StaysPrefix
  <2>4. IsPrefix(store'.messages, store'.messages)
    BY <1>2, StaysPrefix
  <2>5. InFile'
    BY <1>1, <2>1, <2>3, <2>4 DEF InFile
  <2>6. Unique'
    <3>1. ~misread => Distinct(written'["store"].value)
      BY <1>3, <2>1
    <3> QED BY <1>1, <1>3, <3>1 DEF Unique, Distinct, DistinctKeys, DistinctPeers
  <2> QED BY <1>1, <2>1, <2>3, <2>5, <2>6 DEF Guarded
<1>5. CASE ~persistent /\ UNCHANGED <<disk, written, faults>>
  <2>1. InFile'
    BY <1>1, <1>5 DEF InFile
  <2>2. Unique'
    BY <1>1, <1>3, <1>5 DEF Unique, Distinct, DistinctKeys, DistinctPeers
  <2> QED BY <1>1, <1>5, <2>1, <2>2 DEF Guarded
<1> QED BY <1>4, <1>5 DEF AutoSave

LEMMA GuardedInitially == Init => Guarded
<1> SUFFICES ASSUME Init PROVE Guarded
  OBVIOUS
<1>1. FilesInv
  BY FilesInitially
<1>2. \A p \in Paths : disk[p] = written[p].file
  <2>1. DOMAIN written = Paths
    BY <1>1 DEF FilesInv, Files
  <2> QED BY <2>1 DEF Init
<1>3. \A p \in Paths : written[p].file = NoFile => written[p] = Absent[p]
  <2>1. CASE written = Absent
    BY <2>1
  <2>2. ASSUME NEW phrase, NEW i, NEW c, written = LegacyFiles(phrase, i, c)
        PROVE  \A p \in Paths : written[p].file # NoFile
    <3> DEFINE f == Sealed(Magic.identity, 1, phrase, PutIdentity(i))
               g == Sealed(Magic.store, 2, phrase, encode_contacts(c))
    <3>1. written["identity"].file = f /\ written["store"].file = g
      BY <2>2 DEF LegacyFiles
    <3>2. f.version = kFileVersion /\ g.version = kFileVersion
      BY DEF Sealed
    <3>3. NoFile.version = 0 /\ kFileVersion = 1
      BY DEF NoFile, kFileVersion
    <3> HIDE DEF f, g
    <3> QED BY <3>1, <3>2, <3>3 DEF Paths
  <2> QED BY <2>1, <2>2 DEF Init
<1>4. harm \in Nat /\ faults \in Nat /\ phase # "running"
  BY DEF Init
<1>5. Distinct(store) /\ Distinct(written["store"].value)
  <2>1. store = EmptyStore /\ Absent["store"].value = EmptyStore
    BY DEF Init, Absent
  <2>2. CASE written = Absent
    BY <2>1, <2>2, EmptyIsStore
  <2>3. ASSUME NEW phrase, NEW i, NEW c \in Legacy, written = LegacyFiles(phrase, i, c)
        PROVE  Distinct(written["store"].value)
    <3>1. written["store"].value = [EmptyStore EXCEPT !.contacts = c]
      BY <2>3 DEF LegacyFiles
    <3> QED BY <3>1, LegacyStore
  <2> QED BY <2>1, <2>2, <2>3, EmptyIsStore DEF Init, Legacy
<1> QED BY <1>2, <1>3, <1>4, <1>5 DEF Guarded, Honest, InFile, Unique

\* HistoryOnlyGrows, of one step.
HistoryGrows ==
    written'["store"] # written["store"] /\ disk["store"] # NoFile /\ disk'["store"] # NoFile
        /\ ~misread
        => IsPrefix(written["store"].value.messages, written'["store"].value.messages)

LEMMA GuardedStep ==
    ASSUME MaxHarm <= 1
    PROVE  FilesInv /\ Guarded /\ [Next]_vars => Guarded' /\ HistoryGrows
<1> SUFFICES ASSUME FilesInv, Guarded, [Next]_vars PROVE Guarded' /\ HistoryGrows
  OBVIOUS
<1>1. /\ Files(disk, written) /\ Honest(disk, written, harm) /\ faults \in Nat
      /\ store \in Typed /\ store.messages \in Seq(KeptMessages)
      /\ "store" \in Paths /\ "identity" \in Paths /\ "store" # "identity"
  BY TypedParts DEF FilesInv, Guarded, Paths
<1>2. store' \in Typed /\ store'.messages \in Seq(KeptMessages)
  <2>1. store' \in Typed
    BY FilesStep DEF FilesInv
  <2> QED BY <2>1, TypedParts
<1>3. ASSUME NEW phrase, LoadIdentity(phrase) PROVE Guarded' /\ HistoryGrows
  <2>1. phase' = "started" /\ UNCHANGED <<disk, written, harm, faults, store, misread>>
    BY <1>3 DEF LoadIdentity
  <2> QED BY <1>1, <2>1 DEF Guarded, InFile, Unique, HistoryGrows
<1>4. ASSUME NEW phrase, NEW i \in Identities, CreateIdentity(phrase, i)
      PROVE  Guarded' /\ HistoryGrows
  <2> DEFINE f == Sealed(Magic.identity, salts', phrase, PutIdentity(i))
  <2>1. /\ harm' = harm /\ phase' # "running" /\ store' = store /\ misread' = misread
        /\ Replaced("identity", f, i) \/ WriteFallsShort("identity") \/ WriteFails
    BY <1>4 DEF CreateIdentity
  <2>2. f # NoFile
    BY IdentityWritten
  <2>3. Replaced("identity", f, i) =>
           /\ disk' = [disk EXCEPT !["identity"] = f] /\ faults' = faults
           /\ written' = [written EXCEPT !["identity"] = [file |-> f, value |-> i]]
    BY DEF Replaced
  <2> HIDE DEF f
  <2>4. Files(disk, written) /\ Honest(disk, written, harm) /\ "identity" \in Paths
    BY <1>1
  <2>5. CASE Replaced("identity", f, i)
    <3>1. Honest(disk', written', harm)
      BY <2>2, <2>3, <2>5, <2>4, HonestWrite
    <3>2. written'["store"] = written["store"]
      BY <1>1, <2>3, <2>5, AtPath DEF Files
    <3> QED BY <1>1, <2>1, <2>3, <2>5, <3>1, <3>2 DEF Guarded, InFile, Unique, HistoryGrows
  <2>6. CASE WriteFallsShort("identity")
    <3>1. disk' = [disk EXCEPT !["identity"] = ShortFile] /\ written' = written /\ faults' = faults + 1
      BY <2>6 DEF WriteFallsShort
    <3>2. Honest(disk', written', harm) /\ faults' \in Nat
      <4>1. Honest(disk', written', harm)
        BY <2>4, <3>1, HonestShort
      <4> QED BY <1>1, <3>1, <4>1
    <3> QED BY <2>1, <3>1, <3>2 DEF Guarded, InFile, Unique, HistoryGrows
  <2>7. CASE WriteFails
    <3>1. disk' = disk /\ written' = written /\ faults' \in Nat
      BY <1>1, <2>7 DEF WriteFails
    <3> QED BY <1>1, <2>1, <3>1 DEF Guarded, InFile, Unique, HistoryGrows
  <2> QED BY <2>1, <2>5, <2>6, <2>7
<1>5. ASSUME OpenStore PROVE Guarded' /\ HistoryGrows
  <2>1. disk' = disk /\ written' = written /\ harm' = harm /\ faults' = faults
    BY <1>5 DEF OpenStore
  <2>2. CASE /\ CanLoadStore(disk["store"], pass) /\ disk["store"] # NoFile
             /\ store' = decode(disk["store"].sealed.text)
             /\ misread' = (misread \/ ~Fits(written["store"].value))
    <3>1. CanUnseal(disk["store"], Magic["store"], pass)
      BY <2>2, MagicsDiffer DEF CanLoadStore
    <3>2. disk["store"] = written["store"].file
      BY <1>1, <3>1 DEF Honest, Unopenable
    <3>3. Fits(written["store"].value)
            => decode(written["store"].file.sealed.text) = written["store"].value
      BY <1>1, <2>2, <3>2 DEF Files, StoreKept
    <3>4. ~misread' => ~misread /\ store' = written["store"].value
      BY <2>2, <3>2, <3>3
    <3>5. IsPrefix(store'.messages, store'.messages)
      BY <1>2, StaysPrefix
    <3>6. InFile'
      BY <2>1, <3>4, <3>5 DEF InFile
    <3>7. Unique'
      <4>1. ~misread => Distinct(written["store"].value)
        BY DEF Guarded, Unique
      <4>2. ~misread' => Distinct(store') /\ Distinct(written'["store"].value)
        BY <2>1, <3>4, <4>1
      <4> QED BY <4>2 DEF Unique, Distinct, DistinctKeys, DistinctPeers
    <3> QED BY <1>1, <2>1, <3>6, <3>7 DEF Guarded, HistoryGrows
  <2>3. CASE RefuseStore /\ misread' = misread
    <3>1. InFile'
      BY <2>3 DEF RefuseStore, InFile
    <3>2. Unique'
      <4>1. store' = EmptyStore
        BY <2>3 DEF RefuseStore
      <4>2. ~misread' => Distinct(store') /\ Distinct(written'["store"].value)
        BY <2>1, <2>3, <4>1, EmptyIsStore DEF Guarded, Unique
      <4> QED BY <4>2 DEF Unique, Distinct, DistinctKeys, DistinctPeers
    <3> QED BY <1>1, <2>1, <3>1, <3>2 DEF Guarded, HistoryGrows
  <2> QED BY <1>5, <2>2, <2>3 DEF OpenStore
<1>6. ASSUME CreateStore PROVE Guarded' /\ HistoryGrows
  <2>1. /\ disk["store"] = NoFile /\ harm' = harm /\ store' = EmptyStore
        /\ save(salt', store', pass)
    BY <1>6 DEF CreateStore
  <2>2. written["store"] = Absent["store"]
    BY <1>1, <2>1 DEF Honest
  <2>3. written["store"].value = EmptyStore
    BY <2>2 DEF Absent
  <2>4. /\ Honest(disk', written', harm) /\ faults' \in Nat
        /\ written'["store"].value = store' \/ (written' = written /\ faults' # 0)
    BY <1>2, <2>1, SavedHonestly
  <2>5. written'["store"].value = store'
    BY <2>1, <2>3, <2>4
  <2>6. IsPrefix(store'.messages, store'.messages)
    BY <1>2, StaysPrefix
  <2>7. InFile'
    BY <2>5, <2>6 DEF InFile
  <2>8. Unique'
    <3>1. Distinct(store') /\ Distinct(written'["store"].value)
      BY <2>1, <2>5, EmptyIsStore
    <3> QED BY <3>1 DEF Unique, Distinct, DistinctKeys, DistinctPeers
  <2> QED BY <2>1, <2>4, <2>7, <2>8 DEF Guarded, HistoryGrows
<1>7. ASSUME NEW c \in Contacts, Upsert(c) PROVE Guarded' /\ HistoryGrows
  <2>1. phase = "running" /\ AutoSave
    BY <1>7 DEF Upsert
  <2>2. store'.messages = store.messages
    <3>1. store = [contacts |-> store.contacts, messages |-> store.messages,
                   requests |-> store.requests]
      BY <1>1, TypedParts
    <3>2. \E x : store' = [store EXCEPT !.contacts = x]
      BY <1>7 DEF Upsert
    <3> QED BY <3>1, <3>2
  <2>3. Stays(store, store')
    BY <1>1, <1>7, Upserted DEF Upsert, Known
  <2>4. /\ Guarded'
        /\ written'["store"] # written["store"] /\ ~misread =>
              IsPrefix(written["store"].value.messages, written'["store"].value.messages)
    BY <1>1, <2>1, <2>2, <2>3, OperationIsGuarded
  <2> QED BY <2>4 DEF HistoryGrows
<1>8. ASSUME NEW m \in Messages, AppendMessage(m) PROVE Guarded' /\ HistoryGrows
  <2>1. phase = "running" /\ AutoSave
    BY <1>8 DEF AppendMessage
  <2>2. store'.messages = Append(store.messages, m)
    <3>1. store = [contacts |-> store.contacts, messages |-> store.messages,
                   requests |-> store.requests]
      BY <1>1, TypedParts
    <3>2. store' = [store EXCEPT !.messages = Append(store.messages, m)]
      BY <1>8 DEF AppendMessage
    <3> QED BY <3>1, <3>2
  <2>3. Stays(store, store')
    BY <1>1, <1>8, MessageAppended DEF AppendMessage
  <2>4. /\ Guarded'
        /\ written'["store"] # written["store"] /\ ~misread =>
              IsPrefix(written["store"].value.messages, written'["store"].value.messages)
    BY <1>1, <2>1, <2>2, <2>3, OperationIsGuarded
  <2> QED BY <2>4 DEF HistoryGrows
<1>9. ASSUME NEW q \in Requests, NEW peer, AddRequest(q) \/ RemoveRequest(peer) PROVE Guarded' /\ HistoryGrows
  <2>1. phase = "running" /\ AutoSave
    BY <1>9 DEF AddRequest, RemoveRequest
  <2>2. store'.messages = store.messages
    <3>1. store = [contacts |-> store.contacts, messages |-> store.messages,
                   requests |-> store.requests]
      BY <1>1, TypedParts
    <3>2. \E x : store' = [store EXCEPT !.requests = x]
      BY <1>9 DEF AddRequest, RemoveRequest
    <3> QED BY <3>1, <3>2
  <2>3. Stays(store, store')
    BY <1>1, <1>9, RequestAppended, RequestRemoved DEF AddRequest, RemoveRequest
  <2>4. /\ Guarded'
        /\ written'["store"] # written["store"] /\ ~misread =>
              IsPrefix(written["store"].value.messages, written'["store"].value.messages)
    BY <1>1, <2>1, <2>2, <2>3, OperationIsGuarded
  <2> QED BY <2>4 DEF HistoryGrows
<1>10. ASSUME Exit PROVE Guarded' /\ HistoryGrows
  <2>1. phase' = "stopped" /\ store' = EmptyStore
        /\ UNCHANGED <<disk, written, harm, faults, misread>>
    BY <1>10 DEF Exit
  <2>2. Unique'
    <3>1. ~misread' => Distinct(store') /\ Distinct(written'["store"].value)
      BY <2>1, EmptyIsStore DEF Guarded, Unique
    <3> QED BY <3>1 DEF Unique, Distinct, DistinctKeys, DistinctPeers
  <2> QED BY <1>1, <2>1, <2>2 DEF Guarded, InFile, HistoryGrows
<1>11. ASSUME Harm PROVE Guarded' /\ HistoryGrows
  <2>1. /\ harm = 0 /\ harm' = 1 /\ faults' = faults
        /\ phase' = phase /\ persistent' = persistent /\ store' = store
        /\ misread' = misread
    <3>1. harm \in Nat /\ harm < MaxHarm /\ harm' = harm + 1 /\ MaxHarm \in Nat
      BY <1>1, <1>11, StoreAssumption DEF Honest, Harm
    <3> QED BY <1>11, <3>1 DEF Harm, memory
  <2>2. DOMAIN disk = Paths
    BY <1>1 DEF Files
  <2>3. PICK p, o \in Paths :
           /\ p # o /\ disk[p] # NoFile
           /\ \E f \in Harmed(disk[p], disk[o]) \ {disk[p]} :
                /\ disk' = [disk EXCEPT ![p] = f]
                /\ written' = IF f = NoFile THEN [written EXCEPT ![p] = Absent[p]] ELSE written
    BY <1>11, <2>2 DEF Harm
  <2>4. PICK f \in Harmed(disk[p], disk[o]) \ {disk[p]} :
           /\ disk' = [disk EXCEPT ![p] = f]
           /\ written' = IF f = NoFile THEN [written EXCEPT ![p] = Absent[p]] ELSE written
    BY <2>3
  <2>5. Honest(disk', written', harm')
    <3>1. Honest(disk, written, 0)
      BY <1>1, <2>1
    <3>2. Honest(disk', written', 1)
      BY <1>1, <2>3, <2>4, <3>1, HonestHarm
    <3> QED BY <2>1, <3>2
  <2>6. CASE written'["store"] = written["store"]
    BY <1>1, <2>1, <2>5, <2>6 DEF Guarded, InFile, Unique, HistoryGrows
  <2>7. CASE written'["store"] # written["store"]
    <3>1. p = "store" /\ f = NoFile
      <4>1. f = NoFile
        BY <2>4, <2>7
      <4>2. p # "store" => [written EXCEPT ![p] = Absent[p]]["store"] = written["store"]
        BY <1>1, AtPath DEF Files
      <4> QED BY <2>4, <2>7, <4>1, <4>2
    <3>2. written'["store"] = Absent["store"] /\ disk'["store"] = NoFile
      <4>1. /\ [disk EXCEPT !["store"] = f]["store"] = f
            /\ [written EXCEPT !["store"] = Absent["store"]]["store"] = Absent["store"]
        BY <1>1, AtPath DEF Files
      <4> QED BY <2>4, <3>1, <4>1
    <3>3. Absent["store"].value = EmptyStore /\ Absent["store"].file = NoFile
          /\ EmptyStore.messages = <<>>
      BY DEF Absent, EmptyStore
    <3>4. IsPrefix(<<>>, store.messages)
      BY <1>1, StaysPrefix
    <3>5. InFile'
      BY <2>1, <3>2, <3>3, <3>4 DEF InFile
    <3>6. Unique'
      <4>1. ~misread' => Distinct(store') /\ Distinct(written'["store"].value)
        BY <2>1, <3>2, <3>3, EmptyIsStore DEF Guarded, Unique
      <4> QED BY <4>1 DEF Unique, Distinct, DistinctKeys, DistinctPeers
    <3> QED BY <1>1, <2>1, <2>5, <3>2, <3>5, <3>6 DEF Guarded, HistoryGrows
  <2> QED BY <2>6, <2>7
<1>12. CASE UNCHANGED vars
  BY <1>1, <1>12 DEF vars, memory, Guarded, InFile, Unique, HistoryGrows
<1> QED BY <1>3, <1>4, <1>5, <1>6, <1>7, <1>8, <1>9, <1>10, <1>11, <1>12 DEF Next

LEMMA GuardedAlways ==
    ASSUME MaxHarm <= 1
    PROVE  Spec => [](FilesInv /\ Guarded)
<1>1. FilesInv /\ Guarded /\ [Next]_vars => (FilesInv /\ Guarded)'
  BY FilesStep, GuardedStep
<1> QED BY FilesInitially, GuardedInitially, <1>1, PTL DEF Spec

\* Neither a damaged file nor the client's other file opens, under any passphrase:
\* read_blob authenticates the header it derived the key from (blob.cpp).
THEOREM OnlyTheWrittenOpens ==
    ASSUME MaxHarm <= 1
    PROVE  Spec => []OpensOnlyWritten
<1>1. FilesInv /\ Guarded => OpensOnlyWritten
  <2> SUFFICES ASSUME FilesInv, Guarded, NEW p \in DOMAIN disk, NEW phrase \in Passphrases,
                      CanUnseal(disk[p], Magic[p], phrase)
               PROVE  disk[p] = written[p].file
    BY DEF OpensOnlyWritten
  <2>1. p \in Paths
    BY DEF FilesInv, Files
  <2> QED BY <2>1 DEF Guarded, Honest, Unopenable
<1> QED BY <1>1, GuardedAlways, PTL

\* One contact per key and one request per peer (upsert, add_request and
\* remove_request, store.cpp), also when they come back from a file, of any lengths
\* and numbers, unless a file with too long a name was read as something else.
THEOREM EntriesAreUnique ==
    ASSUME MaxHarm <= 1
    PROVE  Spec => []OneEntryPerKey
<1>1. FilesInv /\ Guarded => OneEntryPerKey
  BY DEF Guarded, Unique, Distinct, DistinctKeys, DistinctPeers, OneEntryPerKey
<1> QED BY <1>1, GuardedAlways, PTL

\* As long as no write fails and no file is misread, the store's file was made from
\* what is in memory after every operation (autosave, store.cpp), also in a process
\* that opened the file.
THEOREM AutosaveKeepsUp ==
    ASSUME MaxHarm <= 1
    PROVE  Spec => []MutationsAreSaved
<1>1. FilesInv /\ Guarded => MutationsAreSaved
  BY DEF Guarded, InFile, MutationsAreSaved
<1> QED BY <1>1, GuardedAlways, PTL

\* No restart, failed write, damage or unreadable name makes a client replace the
\* history in its file by a shorter one (Store::open makes only a store it could
\* read, or a new one, persistent: store.cpp), unless a file was misread.
THEOREM HistorySurvives ==
    ASSUME MaxHarm <= 1
    PROVE  Spec => HistoryOnlyGrows
<1>1. FilesInv /\ Guarded /\ [Next]_vars
        => [written'.store # written.store /\ disk.store # NoFile /\ disk'.store # NoFile
              /\ ~misread
              => IsPrefix(written.store.value.messages, written'.store.value.messages)]_vars
  BY GuardedStep DEF HistoryGrows
<1> QED BY <1>1, GuardedAlways, PTL DEF Spec, HistoryOnlyGrows
=============================================================================

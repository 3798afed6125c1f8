----------------------------- MODULE ByteFormat -----------------------------
(***************************************************************************)
(* The big-endian byte formats that packets and files are written in       *)
(* (libs/protocol/src/packet.cpp, libs/storage/src/blob.hpp).  A byte is a *)
(* number below Base, 256 in the code, and an integer is U16, U32 or U64   *)
(* bytes wide, 2, 4 and 8 in the code: the formats do not depend on these  *)
(* numbers, and small ones let short values reach every boundary.          *)
(***************************************************************************)
EXTENDS Integers, Sequences

CONSTANTS Base, U16, U32, U64

ASSUME FormatAssumption ==
    /\ Base \in Nat \ {0, 1}
    /\ {U16, U32, U64} \subseteq Nat \ {0}

Byte == 0 .. Base - 1

\* The first number that n bytes cannot hold.
Limit[n \in Nat] == IF n = 0 THEN 1 ELSE Limit[n - 1] * Base

\* v >> 8k, for every k.
Shifted(v) == LET S[k \in Nat] == IF k = 0 THEN v ELSE S[k - 1] \div Base IN S

\* Fault: the bytes of a number in the opposite order.
PutLowFirst(n, v) == [i \in 1 .. n |-> Shifted(v)[i - 1] % Base]

\* put_u8, put_u16, put_u32, put_u64: the cast keeps the low n bytes of v.
put_uint(n, v) == [i \in 1 .. n |-> Shifted(v)[n - i] % Base]

\* The number in the first k bytes of s, for every k: v << 8 | b in a loop.
Values(s) == LET V[k \in 0 .. Len(s)] == IF k = 0 THEN 0 ELSE V[k - 1] * Base + s[k] IN V

\* get_u16, get_u64.
get_uint(s) == Values(s)[Len(s)]

\* put_bytes and put_str: a length and the bytes.
put_bytes(b) == put_uint(U16, Len(b)) \o b

(* The bounds-checked cursor *)

\* What is left to read and the value read last; after a failure nothing is read.
Reader(b) == [ok |-> TRUE, rest |-> b, value |-> 0]

Failed(r) == [ok |-> FALSE, rest |-> r.rest, value |-> 0]

Taken(r, n, v) == [ok |-> TRUE, rest |-> SubSeq(r.rest, n + 1, Len(r.rest)), value |-> v]

\* Reader::u8, u16, u32, u64.
read_uint(n, r) ==
    IF r.ok /\ n <= Len(r.rest)
    THEN Taken(r, n, get_uint(SubSeq(r.rest, 1, n)))
    ELSE Failed(r)

\* Fault: a length that runs past the end is cut to what is there.
ReadClipped(r) ==
    IF r.ok /\ U16 <= Len(r.rest)
    THEN LET body == SubSeq(r.rest, U16 + 1, Len(r.rest))
             len  == get_uint(SubSeq(r.rest, 1, U16))
             n    == IF len < Len(body) THEN len ELSE Len(body)
         IN  Taken(r, U16 + n, SubSeq(body, 1, n))
    ELSE Failed(r)

\* Reader::bytes, Reader::str.
read_bytes(r) ==
    LET n == get_uint(SubSeq(r.rest, 1, U16))
    IN  IF r.ok /\ U16 <= Len(r.rest) /\ U16 + n <= Len(r.rest)
        THEN Taken(r, U16 + n, SubSeq(r.rest, U16 + 1, U16 + n))
        ELSE Failed(r)

\* Reader::done, for a reading that has not failed.
done(r) == r.ok /\ r.rest = <<>>
=============================================================================

--------------------------- MODULE ByteFormat_proof ---------------------------
(***************************************************************************)
(* Proofs about ByteFormat, for bytes of any base and integers of any      *)
(* width: what is written is read back, and what is read is written in one *)
(* way only.                                                               *)
(***************************************************************************)
EXTENDS ByteFormat, SequenceTheorems, NaturalsInduction, WellFoundedInduction, TLAPS

-----------------------------------------------------------------------------
(* Cutting and joining *)

\* A part of a sequence, empty ones included.
LEMMA PartOf ==
    ASSUME NEW S, NEW s \in Seq(S), NEW m \in Nat, NEW n \in Nat,
           1 <= m, m <= n + 1, n <= Len(s)
    PROVE  /\ SubSeq(s, m, n) \in Seq(S)
           /\ Len(SubSeq(s, m, n)) = n - m + 1
           /\ \A i \in 1 .. n - m + 1 : SubSeq(s, m, n)[i] = s[m + i - 1]
<1>1. \A i \in m .. n : s[i] \in S
  <2> TAKE i \in m .. n
  <2>1. i \in 1 .. Len(s)
    BY LenProperties
  <2> QED BY <2>1, ElementOfSeq
<1> QED BY <1>1, SubSeqProperties

LEMMA Cut ==
    ASSUME NEW S, NEW s \in Seq(S), NEW t \in Seq(S)
    PROVE  /\ s \o t \in Seq(S)
           /\ Len(s \o t) = Len(s) + Len(t)
           /\ SubSeq(s \o t, 1, Len(s)) = s
           /\ SubSeq(s \o t, Len(s) + 1, Len(s \o t)) = t
<1> DEFINE w == s \o t
           l == Len(s)
           k == Len(t)
<1>1. l \in Nat /\ k \in Nat
  BY LenProperties
<1>2. /\ w \in Seq(S) /\ Len(w) = l + k
      /\ \A i \in 1 .. l + k : w[i] = IF i <= l THEN s[i] ELSE t[i - l]
  BY ConcatProperties
<1> HIDE DEF w, l, k
<1> DEFINE a == SubSeq(w, 1, l)
           b == SubSeq(w, l + 1, l + k)
<1>3. a \in Seq(S) /\ Len(a) = l /\ \A i \in 1 .. l : a[i] = w[i]
  <2>1. /\ a \in Seq(S) /\ Len(a) = l - 1 + 1
        /\ \A i \in 1 .. l - 1 + 1 : a[i] = w[1 + i - 1]
    BY <1>1, <1>2, PartOf
  <2> HIDE DEF a
  <2> QED BY <1>1, <2>1
<1>4. b \in Seq(S) /\ Len(b) = k /\ \A i \in 1 .. k : b[i] = w[l + i]
  <2>1. l + 1 \in Nat /\ l + k \in Nat /\ 1 <= l + 1 /\ l + 1 <= (l + k) + 1 /\ l + k <= Len(w)
    BY <1>1, <1>2
  <2>2. /\ b \in Seq(S) /\ Len(b) = (l + k) - (l + 1) + 1
        /\ \A i \in 1 .. (l + k) - (l + 1) + 1 : b[i] = w[(l + 1) + i - 1]
    BY <1>2, <2>1, PartOf
  <2> HIDE DEF b
  <2> QED BY <1>1, <2>2
<1> HIDE DEF a, b
<1>5. a = s
  <2>1. \A i \in 1 .. Len(a) : a[i] = s[i]
    BY <1>1, <1>2, <1>3
  <2> QED BY <1>3, <2>1, SeqEqual DEF l
<1>6. b = t
  <2>1. \A i \in 1 .. Len(b) : b[i] = t[i]
    BY <1>1, <1>2, <1>4
  <2> QED BY <1>4, <2>1, SeqEqual DEF k
<1> QED BY <1>2, <1>5, <1>6 DEF w, l, k, a, b

LEMMA Joined ==
    ASSUME NEW S, NEW s \in Seq(S), NEW n \in 0 .. Len(s)
    PROVE  /\ SubSeq(s, 1, n) \in Seq(S) /\ Len(SubSeq(s, 1, n)) = n
           /\ SubSeq(s, n + 1, Len(s)) \in Seq(S)
           /\ Len(SubSeq(s, n + 1, Len(s))) = Len(s) - n
           /\ s = SubSeq(s, 1, n) \o SubSeq(s, n + 1, Len(s))
<1>1. n \in Nat /\ n <= Len(s) /\ Len(s) \in Nat
  BY LenProperties
<1>2. SubSeq(s, 1, n) \in Seq(S) /\ Len(SubSeq(s, 1, n)) = n
  BY <1>1, PartOf
<1>3. /\ SubSeq(s, n + 1, Len(s)) \in Seq(S)
      /\ Len(SubSeq(s, n + 1, Len(s))) = Len(s) - n
  <2> DEFINE l == Len(s)
             b == SubSeq(s, n + 1, l)
  <2>1. l \in Nat /\ l <= Len(s)
    BY <1>1
  <2> HIDE DEF l
  <2>2. n + 1 \in Nat /\ 1 <= n + 1 /\ n + 1 <= l + 1
    BY <1>1, <2>1 DEF l
  <2>3. b \in Seq(S) /\ Len(b) = l - (n + 1) + 1
    BY <2>1, <2>2, PartOf
  <2> HIDE DEF b
  <2>4. Len(b) = l - n
    BY <1>1, <2>1, <2>3
  <2> QED BY <2>3, <2>4 DEF b, l
<1>4. 1 \in 1 .. Len(s) + 1 /\ n \in 1 - 1 .. Len(s) /\ Len(s) \in n .. Len(s)
  BY <1>1
<1>5. SubSeq(s, 1, n) \o SubSeq(s, n + 1, Len(s)) = SubSeq(s, 1, Len(s))
  BY <1>4, ConcatAdjacentSubSeq
<1> QED BY <1>2, <1>3, <1>5, SubSeqFull

LEMMA Associative ==
    ASSUME NEW S, NEW s \in Seq(S), NEW t \in Seq(S), NEW u \in Seq(S)
    PROVE  (s \o t) \o u = s \o (t \o u)
BY ConcatAssociative, SMT

\* A sequence in three parts, and each of them cut out of it.
LEMMA Parts ==
    ASSUME NEW S, NEW w \in Seq(S), NEW b \in Seq(S), NEW t \in Seq(S)
    PROVE  LET s == (w \o b) \o t
               m == Len(w)
               n == Len(w) + Len(b)
           IN  /\ s \in Seq(S) /\ Len(s) = n + Len(t)
               /\ SubSeq(s, 1, m) = w
               /\ SubSeq(s, m + 1, n) = b
               /\ SubSeq(s, n + 1, Len(s)) = t
<1> DEFINE h == w \o b
           s == h \o t
           m == Len(w)
           l == Len(b)
           n == m + l
           x == SubSeq(s, m + 1, n)
<1>1. m \in Nat /\ l \in Nat /\ Len(t) \in Nat /\ n = m + l
  BY LenProperties
<1>2. /\ h \in Seq(S) /\ Len(h) = n
      /\ \A i \in 1 .. n : h[i] = IF i <= m THEN w[i] ELSE b[i - m]
  BY ConcatProperties
<1>3. b \o t \in Seq(S)
  BY Cut
<1>4. SubSeq(w \o (b \o t), 1, m) = w
  BY <1>3, Cut
<1>5. s = w \o (b \o t)
  BY Associative
<1> HIDE DEF h, n
<1>6. /\ s \in Seq(S) /\ Len(s) = n + Len(t) /\ SubSeq(s, n + 1, Len(s)) = t
  <2>1. h \in Seq(S)
    BY <1>2
  <2>2. /\ h \o t \in Seq(S) /\ Len(h \o t) = Len(h) + Len(t)
        /\ SubSeq(h \o t, Len(h) + 1, Len(h \o t)) = t
    BY <2>1, Cut
  <2> QED BY <1>2, <2>2
<1>7. \A i \in 1 .. n + Len(t) : s[i] = IF i <= n THEN h[i] ELSE t[i - n]
  BY <1>2, ConcatProperties
<1> HIDE DEF s, m, l
<1>8. /\ x \in Seq(S) /\ Len(x) = n - (m + 1) + 1
      /\ \A i \in 1 .. n - (m + 1) + 1 : x[i] = s[(m + 1) + i - 1]
  <2>1. n \in Nat /\ m + 1 \in Nat /\ 1 <= m + 1 /\ m + 1 <= n + 1 /\ n <= Len(s)
    BY <1>1, <1>6
  <2> QED BY <1>6, <2>1, PartOf
<1> HIDE DEF x
<1>9. Len(x) = l /\ \A i \in 1 .. l : x[i] = b[i]
  <2>1. n - (m + 1) + 1 = l
    BY <1>1
  <2>2. ASSUME NEW i \in 1 .. l PROVE x[i] = b[i]
    <3>1. /\ (m + 1) + i - 1 = m + i /\ m + i \in 1 .. n + Len(t) /\ m + i \in 1 .. n
          /\ m + i <= n /\ ~(m + i <= m) /\ (m + i) - m = i
      BY <1>1
    <3>2. x[i] = s[m + i]
      BY <1>8, <2>1, <3>1
    <3>3. s[m + i] = h[m + i]
      BY <1>7, <3>1
    <3>4. h[m + i] = b[i]
      BY <1>2, <3>1
    <3> QED BY <3>2, <3>3, <3>4
  <2> QED BY <1>8, <2>1, <2>2
<1>10. x = b
  BY <1>8, <1>9, SeqEqual DEF l
<1> QED BY <1>4, <1>5, <1>6, <1>10 DEF h, s, m, l, n, x

\* What comes after a common beginning is the same.
LEMMA Cancel ==
    ASSUME NEW S, NEW s \in Seq(S), NEW t \in Seq(S), NEW u \in Seq(S), s \o t = s \o u
    PROVE  t = u
<1>1. SubSeq(s \o t, Len(s) + 1, Len(s \o t)) = t
  BY Cut
<1>2. SubSeq(s \o u, Len(s) + 1, Len(s \o u)) = u
  BY Cut
<1> QED BY <1>1, <1>2

-----------------------------------------------------------------------------
(* Induction and recursion over the natural numbers *)

LEMMA Least ==
    ASSUME NEW S, S \subseteq Nat, S # {}
    PROVE  \E n \in S : \A m \in Nat : m < n => m \notin S
<1> DEFINE R == {ss \in Nat \X Nat : ss[1] < ss[2]}
<1>1. IsWellFoundedOn(R, Nat)
  BY NatLessThanWellFounded DEF OpToRel
<1>2. \A m, k \in Nat : m < k => <<m, k>> \in R
  OBVIOUS
<1> HIDE DEF R
<1>3. PICK n \in S : \A y \in S : ~(<<y, n>> \in R)
  BY <1>1, WFMin
<1>4. n \in Nat
  OBVIOUS
<1>5. ASSUME NEW m \in Nat, m < n PROVE m \notin S
  BY <1>2, <1>3, <1>4, <1>5
<1> QED BY <1>4, <1>5

LEMMA Induction ==
    ASSUME NEW S, 0 \in S, \A n \in Nat : n \in S => n + 1 \in S
    PROVE  \A n \in Nat : n \in S
<1> SUFFICES ASSUME Nat \ S # {} PROVE FALSE
  OBVIOUS
<1>1. PICK n \in Nat \ S : \A m \in Nat : m < n => m \notin Nat \ S
  BY Least
<1>2. n # 0
  OBVIOUS
<1>3. n - 1 \in Nat /\ n - 1 < n /\ (n - 1) + 1 = n
  BY <1>2
<1>4. n - 1 \in S
  BY <1>1, <1>3
<1> QED BY <1>3, <1>4

\* f is a at 0 and goes on by steps.
Iterates(f, a, step) == f[0] = a /\ \A n \in Nat : f[n + 1] = step[n][f[n]]

\* A function on the natural numbers may be defined by what it is at 0 and by
\* what a step makes of it.
LEMMA Recursion ==
    ASSUME NEW T, NEW a \in T, NEW step \in [Nat -> [T -> T]]
    PROVE  \E f \in [Nat -> T] : Iterates(f, a, step)
<1> DEFINE Begun(n, g) == g[0] = a /\ \A i \in 0 .. n - 1 : g[i + 1] = step[i][g[i]]
           Upto(n) == {g \in [0 .. n -> T] : Begun(n, g)}
           S == {n \in Nat : Upto(n) # {}}
           U == {n \in Nat : \A k, m \in Nat : n <= k /\ n <= m =>
                                \A g \in Upto(k), h \in Upto(m) : g[n] = h[n]}
<1>1. \A n \in Nat : n \in S
  <2>1. 0 \in S
    <3>1. [i \in 0 .. 0 |-> a] \in Upto(0)
      OBVIOUS
    <3> QED BY <3>1
  <2>2. ASSUME NEW n \in Nat, n \in S PROVE n + 1 \in S
    <3>1. PICK g \in [0 .. n -> T] : Begun(n, g)
      BY <2>2
    <3> DEFINE h == [i \in 0 .. n + 1 |-> IF i = n + 1 THEN step[n][g[n]] ELSE g[i]]
    <3>2. step[n][g[n]] \in T
      BY <3>1
    <3>3. h \in [0 .. n + 1 -> T]
      BY <3>1, <3>2
    <3>4. \A i \in 0 .. n : h[i] = g[i]
      OBVIOUS
    <3>5. h[n + 1] = step[n][g[n]]
      OBVIOUS
    <3> HIDE DEF h
    <3>6. Begun(n + 1, h)
      <4>1. h[0] = a
        BY <3>1, <3>4
      <4>2. ASSUME NEW i \in 0 .. n PROVE h[i + 1] = step[i][h[i]]
        <5>1. CASE i = n
          BY <3>4, <3>5, <5>1
        <5>2. CASE i # n
          BY <3>1, <3>4, <5>2
        <5> QED BY <5>1, <5>2
      <4> QED BY <4>1, <4>2
    <3>7. h \in Upto(n + 1)
      BY <3>3, <3>6
    <3> QED BY <3>7
  <2> HIDE DEF S
  <2> QED BY <2>1, <2>2, Induction
<1>2. \A k \in Nat : \A g \in Upto(k) :
         g[0] = a /\ \A i \in Nat : i < k => g[i + 1] = step[i][g[i]]
  OBVIOUS
<1>3. \A n \in Nat : Upto(n) # {}
  BY <1>1
<1> HIDE DEF Upto
<1>4. \A n \in Nat : n \in U
  <2>1. 0 \in U
    BY <1>2
  <2>2. ASSUME NEW n \in Nat, n \in U PROVE n + 1 \in U
    <3> SUFFICES ASSUME NEW k \in Nat, NEW m \in Nat, n + 1 <= k, n + 1 <= m,
                        NEW g \in Upto(k), NEW h \in Upto(m)
                 PROVE  g[n + 1] = h[n + 1]
      OBVIOUS
    <3>1. n <= k /\ n <= m /\ n < k /\ n < m
      OBVIOUS
    <3>2. g[n] = h[n]
      BY <2>2, <3>1
    <3>3. g[n + 1] = step[n][g[n]] /\ h[n + 1] = step[n][h[n]]
      BY <1>2, <3>1
    <3> QED BY <3>2, <3>3
  <2> HIDE DEF U
  <2> QED BY <2>1, <2>2, Induction
<1> DEFINE G(n) == CHOOSE g \in Upto(n) : TRUE
           f == [n \in Nat |-> G(n)[n]]
<1>5. \A n \in Nat : G(n) \in Upto(n)
  BY <1>3
<1> HIDE DEF G
<1>6. f \in [Nat -> T]
  <2>1. \A n \in Nat : G(n) \in [0 .. n -> T]
    BY <1>5 DEF Upto
  <2> QED BY <2>1
<1>7. f[0] = a
  BY <1>5, <1>2
<1>8. ASSUME NEW n \in Nat PROVE f[n + 1] = step[n][f[n]]
  <2>1. n + 1 \in Nat /\ n < n + 1 /\ n <= n + 1 /\ n <= n
    OBVIOUS
  <2>2. G(n + 1)[n + 1] = step[n][G(n + 1)[n]]
    BY <1>5, <1>2, <2>1
  <2>3. G(n + 1)[n] = G(n)[n]
    BY <1>4, <1>5, <2>1
  <2> QED BY <2>1, <2>2, <2>3
<1> HIDE DEF f
<1> QED BY <1>6, <1>7, <1>8 DEF Iterates

\* The form that a definition by recursion has, on the first numbers.
Unfolds(f, D, a, step) == f = [n \in D |-> IF n = 0 THEN a ELSE step[n - 1][f[n - 1]]]

LEMMA RecursiveForm ==
    ASSUME NEW T, NEW a \in T, NEW step \in [Nat -> [T -> T]], NEW D, D \subseteq Nat,
           \A n \in D : n # 0 => n - 1 \in D
    PROVE  \E f : Unfolds(f, D, a, step)
<1>1. PICK g \in [Nat -> T] : Iterates(g, a, step)
  BY Recursion
<1>2. g[0] = a /\ \A n \in Nat : g[n + 1] = step[n][g[n]]
  BY <1>1 DEF Iterates
<1> DEFINE f == [n \in D |-> g[n]]
           h == [n \in D |-> IF n = 0 THEN a ELSE step[n - 1][f[n - 1]]]
<1>3. ASSUME NEW n \in D PROVE f[n] = h[n]
  <2>1. CASE n = 0
    BY <1>2, <2>1
  <2>2. CASE n # 0
    <3>1. n - 1 \in Nat /\ (n - 1) + 1 = n /\ n - 1 \in D
      BY <2>2
    <3>2. f[n] = g[n] /\ f[n - 1] = g[n - 1]
      BY <3>1
    <3> HIDE DEF f
    <3>3. h[n] = step[n - 1][f[n - 1]]
      BY <2>2
    <3> QED BY <1>2, <3>1, <3>2, <3>3
  <2> QED BY <2>1, <2>2
<1>4. f = h
  BY <1>3
<1> HIDE DEF f
<1> QED BY <1>4, Zenon DEF Unfolds

-----------------------------------------------------------------------------
(* Numbers *)

USE FormatAssumption

LEMMA Division ==
    ASSUME NEW v \in Nat
    PROVE  /\ v \div Base \in Nat /\ v % Base \in Byte
           /\ v = (v \div Base) * Base + (v % Base)
BY DEF Byte

LEMMA DivisionOf ==
    ASSUME NEW q \in Nat, NEW r \in Byte
    PROVE  (q * Base + r) \div Base = q /\ (q * Base + r) % Base = r
<1>1. q * Base + r \in Nat
  BY DEF Byte
<1> QED BY <1>1, Division DEF Byte

LEMMA Below ==
    ASSUME NEW v \in Nat, NEW l \in Nat, v < l * Base
    PROVE  v \div Base < l
BY Division DEF Byte

\* What a recursive definition over D says, point by point.
LEMMA Unfolded ==
    ASSUME NEW T, NEW a \in T, NEW step \in [Nat -> [T -> T]], NEW D, D \subseteq Nat,
           \A n \in D : n # 0 => n - 1 \in D, NEW f, Unfolds(f, D, a, step)
    PROVE  /\ DOMAIN f = D
           /\ 0 \in D => f[0] = a
           /\ \A n \in Nat : n + 1 \in D => f[n + 1] = step[n][f[n]]
           /\ \A n \in D : f[n] \in T
<1> DEFINE E(n) == IF n = 0 THEN a ELSE step[n - 1][f[n - 1]]
<1>1. DOMAIN f = D /\ \A n \in D : f[n] = E(n)
  <2>1. f = [n \in D |-> E(n)]
    BY DEF Unfolds
  <2> HIDE DEF E
  <2> QED BY <2>1, Zenon
<1>2. 0 \in D => f[0] = a
  BY <1>1
<1>3. ASSUME NEW n \in Nat, n + 1 \in D PROVE f[n + 1] = step[n][f[n]]
  <2>1. n + 1 # 0 /\ (n + 1) - 1 = n
    OBVIOUS
  <2>2. f[n + 1] = E(n + 1)
    BY <1>1, <1>3
  <2> QED BY <2>1, <2>2
<1> DEFINE S == {n \in Nat : n \in D => f[n] \in T}
<1>4. 0 \in S
  BY <1>2
<1>5. ASSUME NEW n \in Nat, n \in S PROVE n + 1 \in S
  <2> SUFFICES ASSUME n + 1 \in D PROVE f[n + 1] \in T
    OBVIOUS
  <2>1. n + 1 # 0 /\ (n + 1) - 1 = n
    OBVIOUS
  <2>2. n \in D
    BY <2>1
  <2>3. f[n] \in T
    BY <1>5, <2>2
  <2> QED BY <1>3, <2>3
<1> HIDE DEF S
<1>6. \A n \in Nat : n \in S
  BY <1>4, <1>5, Induction
<1> QED BY <1>1, <1>2, <1>3, <1>6 DEF S

LEMMA LimitFacts ==
    /\ \A n \in Nat : Limit[n] \in Nat
    /\ Limit[0] = 1
    /\ \A n \in Nat : Limit[n + 1] = Limit[n] * Base
<1> DEFINE step == [n \in Nat |-> [x \in Nat |-> x * Base]]
           Body(f, n) == IF n = 0 THEN 1 ELSE f[n - 1] * Base
<1>1. /\ step \in [Nat -> [Nat -> Nat]]
      /\ \A n \in Nat : n # 0 => n - 1 \in Nat
      /\ \A n, x \in Nat : step[n][x] = x * Base
  OBVIOUS
<1> HIDE DEF step
<1>2. PICK f : Unfolds(f, Nat, 1, step)
  BY <1>1, RecursiveForm
<1>3. f = [n \in Nat |-> Body(f, n)]
  <2>1. \A n \in Nat : f[n] \in Nat
    BY <1>1, <1>2, Unfolded
  <2>2. \A n \in Nat : (IF n = 0 THEN 1 ELSE step[n - 1][f[n - 1]]) = Body(f, n)
    BY <1>1, <2>1
  <2> HIDE DEF Body
  <2> QED BY <1>2, <2>2, Zenon DEF Unfolds
<1>4. Limit = [n \in Nat |-> Body(Limit, n)]
  BY <1>3, Zenon DEF Limit
<1>5. \A n \in Nat : Limit[n] = Body(Limit, n)
  <2> HIDE DEF Body
  <2> QED BY <1>4, Zenon
<1>6. Limit[0] = 1 /\ \A n \in Nat : Limit[n + 1] = Limit[n] * Base
  BY <1>5
<1> DEFINE S == {n \in Nat : Limit[n] \in Nat}
<1>7. 0 \in S /\ \A n \in Nat : n \in S => n + 1 \in S
  BY <1>6
<1> HIDE DEF S
<1>8. \A n \in Nat : n \in S
  BY <1>7, Induction
<1> QED BY <1>6, <1>8 DEF S

LEMMA LimitPositive == \A n \in Nat : Limit[n] \in Nat /\ Limit[n] > 0
<1> DEFINE S == {n \in Nat : Limit[n] > 0}
<1>1. 0 \in S
  BY LimitFacts
<1>2. ASSUME NEW n \in Nat, n \in S PROVE n + 1 \in S
  <2>1. Limit[n] \in Nat /\ Limit[n] > 0 /\ Limit[n + 1] = Limit[n] * Base
    BY <1>2, LimitFacts
  <2> QED BY <2>1
<1> HIDE DEF S
<1>3. \A n \in Nat : n \in S
  BY <1>1, <1>2, Induction
<1> QED BY <1>3, LimitFacts DEF S

LEMMA LimitOne == Limit[1] = Base
<1>1. Limit[0 + 1] = Limit[0] * Base
  BY LimitFacts
<1> QED BY <1>1, LimitFacts

LEMMA ShiftedFacts ==
    ASSUME NEW v \in Nat
    PROVE  /\ \A n \in Nat : Shifted(v)[n] \in Nat
           /\ Shifted(v)[0] = v
           /\ \A n \in Nat : Shifted(v)[n + 1] = Shifted(v)[n] \div Base
<1> DEFINE step == [n \in Nat |-> [x \in Nat |-> x \div Base]]
           Body(f, n) == IF n = 0 THEN v ELSE f[n - 1] \div Base
           F == Shifted(v)
<1>1. /\ step \in [Nat -> [Nat -> Nat]]
      /\ \A n \in Nat : n # 0 => n - 1 \in Nat
      /\ \A n, x \in Nat : step[n][x] = x \div Base
  BY Division
<1> HIDE DEF step
<1>2. PICK f : Unfolds(f, Nat, v, step)
  BY <1>1, RecursiveForm
<1>3. f = [n \in Nat |-> Body(f, n)]
  <2>1. \A n \in Nat : f[n] \in Nat
    BY <1>1, <1>2, Unfolded
  <2>2. \A n \in Nat : (IF n = 0 THEN v ELSE step[n - 1][f[n - 1]]) = Body(f, n)
    BY <1>1, <2>1
  <2> HIDE DEF Body
  <2> QED BY <1>2, <2>2, Zenon DEF Unfolds
<1>4. F = [n \in Nat |-> Body(F, n)]
  BY <1>3, Zenon DEF Shifted
<1> HIDE DEF F
<1>5. \A n \in Nat : F[n] = Body(F, n)
  <2> HIDE DEF Body
  <2> QED BY <1>4, Zenon
<1>6. F[0] = v /\ \A n \in Nat : F[n + 1] = F[n] \div Base
  BY <1>5
<1> DEFINE S == {n \in Nat : F[n] \in Nat}
<1>7. 0 \in S /\ \A n \in Nat : n \in S => n + 1 \in S
  <2>1. \A x \in Nat : x \div Base \in Nat
    BY Division
  <2> QED BY <1>6, <2>1
<1> HIDE DEF S
<1>8. \A n \in Nat : n \in S
  BY <1>7, Induction
<1> QED BY <1>6, <1>8 DEF S, F

\* A number of n bytes is gone after n shifts.
LEMMA ShiftedOut ==
    ASSUME NEW v \in Nat, NEW n \in Nat, v < Limit[n]
    PROVE  Shifted(v)[n] = 0
<1> DEFINE S == {k \in Nat : k <= n => Shifted(v)[k] < Limit[n - k]}
<1>1. 0 \in S
  BY ShiftedFacts
<1>2. ASSUME NEW k \in Nat, k \in S PROVE k + 1 \in S
  <2> SUFFICES ASSUME k + 1 <= n PROVE Shifted(v)[k + 1] < Limit[n - (k + 1)]
    OBVIOUS
  <2> DEFINE m == n - (k + 1)
  <2>1. m \in Nat /\ m + 1 = n - k /\ k <= n
    OBVIOUS
  <2>2. Shifted(v)[k] < Limit[m + 1]
    BY <1>2, <2>1
  <2> HIDE DEF m
  <2>3. Limit[m + 1] = Limit[m] * Base /\ Limit[m] \in Nat
    BY <2>1, LimitFacts
  <2>4. Shifted(v)[k] \in Nat /\ Shifted(v)[k + 1] = Shifted(v)[k] \div Base
    BY ShiftedFacts
  <2> QED BY <2>2, <2>3, <2>4, Below DEF m
<1> HIDE DEF S
<1>3. n \in S
  BY <1>1, <1>2, Induction
<1>4. Shifted(v)[n] < Limit[n - n] /\ n - n = 0
  BY <1>3 DEF S
<1>5. Limit[0] = 1 /\ Shifted(v)[n] \in Nat
  BY LimitFacts, ShiftedFacts
<1> QED BY <1>4, <1>5

LEMMA ValuesFacts ==
    ASSUME NEW s \in Seq(Byte)
    PROVE  /\ \A n \in 0 .. Len(s) : Values(s)[n] \in Nat
           /\ Values(s)[0] = 0
           /\ \A n \in Nat : n + 1 <= Len(s) => Values(s)[n + 1] = Values(s)[n] * Base + s[n + 1]
<1> DEFINE D == 0 .. Len(s)
           digit == [n \in Nat |-> IF n + 1 <= Len(s) THEN s[n + 1] ELSE 0]
           step == [n \in Nat |-> [x \in Nat |-> x * Base + digit[n]]]
           Body(f, n) == IF n = 0 THEN 0 ELSE f[n - 1] * Base + s[n]
           F == Values(s)
<1>1. Len(s) \in Nat /\ D \subseteq Nat /\ 0 \in D /\ \A n \in D : n # 0 => n - 1 \in D
  OBVIOUS
<1>2. \A n \in 1 .. Len(s) : s[n] \in Nat
  BY DEF Byte
<1>3. digit \in [Nat -> Nat]
  BY <1>2
<1>4. \A n \in Nat : n + 1 <= Len(s) => digit[n] = s[n + 1]
  OBVIOUS
<1> HIDE DEF digit
<1>5. step \in [Nat -> [Nat -> Nat]] /\ \A n, x \in Nat : step[n][x] = x * Base + digit[n]
  <2>1. \A x, d \in Nat : x * Base + d \in Nat
    OBVIOUS
  <2>2. \A n, x \in Nat : x * Base + digit[n] \in Nat
    BY <1>3, <2>1
  <2> QED BY <2>2
<1> HIDE DEF step
<1>6. PICK f : Unfolds(f, D, 0, step)
  <2> HIDE DEF D
  <2> QED BY <1>1, <1>5, RecursiveForm
<1>7. f = [n \in D |-> Body(f, n)]
  <2>1. \A n \in D : f[n] \in Nat
    <3> HIDE DEF D
    <3> QED BY <1>1, <1>5, <1>6, Unfolded
  <2>2. ASSUME NEW n \in D
        PROVE  (IF n = 0 THEN 0 ELSE step[n - 1][f[n - 1]]) = Body(f, n)
    <3>1. CASE n = 0
      BY <3>1
    <3>2. CASE n # 0
      <4>1. n - 1 \in Nat /\ n - 1 \in D /\ (n - 1) + 1 = n /\ n <= Len(s)
        BY <3>2
      <4>2. step[n - 1][f[n - 1]] = f[n - 1] * Base + digit[n - 1]
        BY <1>5, <2>1, <4>1
      <4>3. digit[n - 1] = s[n]
        BY <1>4, <4>1
      <4> QED BY <3>2, <4>2, <4>3
    <3> QED BY <3>1, <3>2
  <2> HIDE DEF Body, D
  <2> QED BY <1>6, <2>2, Zenon DEF Unfolds
<1>8. F = [n \in D |-> Body(F, n)]
  BY <1>7, Zenon DEF Values
<1> HIDE DEF F
<1>9. \A n \in D : F[n] = Body(F, n)
  <2> HIDE DEF Body, D
  <2> QED BY <1>8, Zenon
<1>10. F[0] = 0 /\ \A n \in Nat : n + 1 <= Len(s) => F[n + 1] = F[n] * Base + s[n + 1]
  BY <1>1, <1>9
<1> DEFINE S == {n \in Nat : n <= Len(s) => F[n] \in Nat}
<1>11. 0 \in S
  BY <1>10
<1>12. ASSUME NEW n \in Nat, n \in S PROVE n + 1 \in S
  <2> SUFFICES ASSUME n + 1 <= Len(s) PROVE F[n + 1] \in Nat
    OBVIOUS
  <2>1. F[n] \in Nat /\ s[n + 1] \in Nat
    BY <1>1, <1>2, <1>12
  <2>2. F[n + 1] = F[n] * Base + s[n + 1]
    BY <1>10
  <2>3. \A x, d \in Nat : x * Base + d \in Nat
    OBVIOUS
  <2> QED BY <2>1, <2>2, <2>3
<1> HIDE DEF S
<1>13. \A n \in Nat : n \in S
  BY <1>11, <1>12, Induction
<1> QED BY <1>1, <1>10, <1>13 DEF S, F

-----------------------------------------------------------------------------
(* put_uint and get_uint are inverse to each other *)

LEMMA PutIsBytes ==
    ASSUME NEW n \in Nat, NEW v \in Nat
    PROVE  /\ put_uint(n, v) \in Seq(Byte)
           /\ Len(put_uint(n, v)) = n
           /\ \A i \in 1 .. n : put_uint(n, v)[i] = Shifted(v)[n - i] % Base
<1>1. \A i \in 1 .. n : Shifted(v)[n - i] % Base \in Byte
  <2> SUFFICES ASSUME NEW i \in 1 .. n PROVE Shifted(v)[n - i] % Base \in Byte
    OBVIOUS
  <2>1. n - i \in Nat
    OBVIOUS
  <2>2. Shifted(v)[n - i] \in Nat
    BY <2>1, ShiftedFacts
  <2> QED BY <2>2, Division
<1> DEFINE e(i) == Shifted(v)[n - i] % Base
<1>2. put_uint(n, v) = [i \in 1 .. n |-> e(i)]
  BY DEF put_uint
<1>3. \A i \in 1 .. n : e(i) \in Byte
  BY <1>1
<1> HIDE DEF e
<1>4. put_uint(n, v) \in Seq(Byte) /\ Len(put_uint(n, v)) = n /\ \A i \in 1 .. n : put_uint(n, v)[i] = e(i)
  BY <1>2, <1>3
<1> QED BY <1>4 DEF e

LEMMA GetPut ==
    ASSUME NEW n \in Nat, NEW v \in Nat, v < Limit[n]
    PROVE  get_uint(put_uint(n, v)) = v
<1> DEFINE s == put_uint(n, v)
           S == {k \in Nat : k <= n => Values(s)[k] = Shifted(v)[n - k]}
<1>1. s \in Seq(Byte) /\ Len(s) = n /\ \A i \in 1 .. n : s[i] = Shifted(v)[n - i] % Base
  BY PutIsBytes
<1> HIDE DEF s
<1>2. 0 \in S
  BY <1>1, ShiftedOut, ValuesFacts
<1>3. ASSUME NEW k \in Nat, k \in S PROVE k + 1 \in S
  <2> SUFFICES ASSUME k + 1 <= n PROVE Values(s)[k + 1] = Shifted(v)[n - (k + 1)]
    OBVIOUS
  <2> DEFINE m == n - (k + 1)
  <2>1. m \in Nat /\ m + 1 = n - k /\ k <= n /\ k + 1 \in 1 .. n
    OBVIOUS
  <2>2. Values(s)[k] = Shifted(v)[m + 1]
    BY <1>3, <2>1
  <2>3. s[k + 1] = Shifted(v)[m] % Base
    BY <1>1, <2>1
  <2> HIDE DEF m
  <2>4. Values(s)[k + 1] = Values(s)[k] * Base + s[k + 1]
    BY <1>1, ValuesFacts
  <2>5. Shifted(v)[m] \in Nat /\ Shifted(v)[m + 1] = Shifted(v)[m] \div Base
    BY <2>1, ShiftedFacts
  <2>6. Shifted(v)[m] = (Shifted(v)[m] \div Base) * Base + (Shifted(v)[m] % Base)
    BY <2>5, Division
  <2> QED BY <2>2, <2>3, <2>4, <2>5, <2>6 DEF m
<1> HIDE DEF S
<1>4. n \in S
  BY <1>2, <1>3, Induction
<1>5. Values(s)[n] = Shifted(v)[n - n] /\ n - n = 0
  BY <1>4 DEF S
<1>6. Shifted(v)[0] = v
  BY ShiftedFacts
<1> QED BY <1>1, <1>5, <1>6 DEF get_uint, s

LEMMA GetIsBounded ==
    ASSUME NEW s \in Seq(Byte)
    PROVE  get_uint(s) \in Nat /\ get_uint(s) < Limit[Len(s)]
<1> DEFINE S == {k \in Nat : k <= Len(s) => Values(s)[k] < Limit[k]}
<1>1. Len(s) \in Nat /\ Len(s) \in 0 .. Len(s)
  OBVIOUS
<1>2. 0 \in S
  <2>1. Values(s)[0] = 0 /\ Limit[0] = 1
    BY ValuesFacts, LimitFacts
  <2> QED BY <2>1
<1>3. ASSUME NEW k \in Nat, k \in S PROVE k + 1 \in S
  <2> SUFFICES ASSUME k + 1 <= Len(s) PROVE Values(s)[k + 1] < Limit[k + 1]
    OBVIOUS
  <2>1. k \in 0 .. Len(s) /\ k + 1 \in 1 .. Len(s)
    OBVIOUS
  <2>2. Values(s)[k] \in Nat /\ Values(s)[k] < Limit[k]
    BY <1>3, <2>1, ValuesFacts
  <2>3. s[k + 1] \in Byte
    BY <2>1
  <2>4. Limit[k] \in Nat /\ Limit[k + 1] = Limit[k] * Base
    BY LimitFacts
  <2>5. Values(s)[k + 1] = Values(s)[k] * Base + s[k + 1]
    BY ValuesFacts
  <2>6. \A x, l \in Nat : \A b \in Byte : x < l => x * Base + b < l * Base
    <3> SUFFICES ASSUME NEW x \in Nat, NEW l \in Nat, NEW b \in Byte, x < l
                 PROVE  x * Base + b < l * Base
      OBVIOUS
    <3>1. x + 1 <= l
      OBVIOUS
    <3>2. (x + 1) * Base <= l * Base
      BY <3>1
    <3>3. (x + 1) * Base = x * Base + Base
      OBVIOUS
    <3> QED BY <3>2, <3>3 DEF Byte
  <2> QED BY <2>2, <2>3, <2>4, <2>5, <2>6
<1> HIDE DEF S
<1>4. Len(s) \in S
  BY <1>1, <1>2, <1>3, Induction
<1> QED BY <1>1, <1>4, ValuesFacts DEF S, get_uint

LEMMA PutGet ==
    ASSUME NEW s \in Seq(Byte)
    PROVE  put_uint(Len(s), get_uint(s)) = s
<1> DEFINE n == Len(s)
           v == get_uint(s)
           S == {j \in Nat : j <= n => Shifted(v)[j] = Values(s)[n - j]}
<1>1. n \in Nat /\ v \in Nat /\ v = Values(s)[n]
  BY GetIsBounded DEF get_uint
<1> HIDE DEF v, n
<1>2. 0 \in S
  <2>1. n - 0 = n
    BY <1>1
  <2>2. v \in Nat
    BY <1>1
  <2>3. Shifted(v)[0] = v
    BY <2>2, ShiftedFacts
  <2> QED BY <1>1, <2>1, <2>3
<1>3. ASSUME NEW k \in Nat, k + 1 <= n
      PROVE  /\ Values(s)[k + 1] \div Base = Values(s)[k]
             /\ Values(s)[k + 1] % Base = s[k + 1]
  <2>1. k \in 0 .. Len(s) /\ k + 1 \in 1 .. Len(s) /\ k + 1 <= Len(s)
    BY <1>3 DEF n
  <2>2. Values(s)[k] \in Nat /\ s[k + 1] \in Byte
    BY <2>1, ValuesFacts
  <2>3. Values(s)[k + 1] = Values(s)[k] * Base + s[k + 1]
    BY <2>1, ValuesFacts
  <2> QED BY <2>2, <2>3, DivisionOf
<1>4. ASSUME NEW j \in Nat, j \in S PROVE j + 1 \in S
  <2> SUFFICES ASSUME j + 1 <= n PROVE Shifted(v)[j + 1] = Values(s)[n - (j + 1)]
    OBVIOUS
  <2> DEFINE k == n - (j + 1)
  <2>1. k \in Nat /\ k + 1 = n - j /\ k + 1 <= n /\ j <= n
    BY <1>1
  <2>2. Shifted(v)[j] = Values(s)[k + 1]
    BY <1>4, <2>1
  <2> HIDE DEF k
  <2>3. Shifted(v)[j + 1] = Shifted(v)[j] \div Base
    BY <1>1, ShiftedFacts
  <2>4. Values(s)[k + 1] \div Base = Values(s)[k]
    BY <1>3, <2>1
  <2> QED BY <2>2, <2>3, <2>4 DEF k
<1> HIDE DEF S
<1>5. \A j \in Nat : j \in S
  BY <1>2, <1>4, Induction
<1>6. ASSUME NEW i \in 1 .. n PROVE put_uint(n, v)[i] = s[i]
  <2> DEFINE k == i - 1
  <2>1. /\ n - i \in Nat /\ n - i <= n /\ n - (n - i) = i
        /\ k \in Nat /\ k + 1 = i /\ k + 1 <= n
    BY <1>1
  <2>2. Shifted(v)[n - i] = Values(s)[i]
    BY <1>5, <2>1 DEF S
  <2>3. put_uint(n, v)[i] = Shifted(v)[n - i] % Base
    BY <1>1, PutIsBytes
  <2> HIDE DEF k
  <2> QED BY <1>3, <2>1, <2>2, <2>3
<1>7. put_uint(n, v) \in Seq(Byte) /\ Len(put_uint(n, v)) = n
  BY <1>1, PutIsBytes
<1> HIDE DEF v
<1> DEFINE w == put_uint(n, v)
<1>8. w \in Seq(Byte) /\ Len(w) = Len(s) /\ \A i \in 1 .. Len(s) : w[i] = s[i]
  BY <1>6, <1>7 DEF n
<1> HIDE DEF w
<1>9. w = s
  BY <1>8, SeqEqual
<1> QED BY <1>9 DEF w, n, v

-----------------------------------------------------------------------------
(* The cursor reads what was written, and nothing else *)

HIDE FormatAssumption

\* What a u16 counts.
Strings == {s \in Seq(Byte) : Len(s) < Limit[U16]}

LEMMA Widths ==
    /\ Base \in Nat /\ Base > 1
    /\ U16 \in Nat /\ U16 > 0 /\ U32 \in Nat /\ U32 > 0 /\ U64 \in Nat /\ U64 > 0
BY FormatAssumption

LEMMA OneByte == ASSUME NEW v \in Byte PROVE put_uint(1, v) = <<v>>
<1> DEFINE w == put_uint(1, v)
<1>1. v \in Nat /\ v < Base /\ 1 \in Nat
  BY Widths DEF Byte
<1>2. w \in Seq(Byte) /\ Len(w) = 1 /\ w[1] = Shifted(v)[0] % Base
  <2>1. /\ put_uint(1, v) \in Seq(Byte) /\ Len(put_uint(1, v)) = 1
        /\ \A i \in 1 .. 1 : put_uint(1, v)[i] = Shifted(v)[1 - i] % Base
    BY <1>1, PutIsBytes
  <2>2. 1 \in 1 .. 1 /\ 1 - 1 = 0
    OBVIOUS
  <2> QED BY <2>1, <2>2
<1>3. Shifted(v)[0] = v
  BY <1>1, ShiftedFacts
<1>4. w[1] = v
  <2>1. v % Base = v
    BY <1>1, Widths
  <2> QED BY <1>2, <1>3, <2>1
<1> HIDE DEF w
<1>5. w = <<v>>
  BY <1>2, <1>4
<1> QED BY <1>5 DEF w

LEMMA PutBytes ==
    ASSUME NEW b \in Strings
    PROVE  put_bytes(b) \in Seq(Byte) /\ Len(put_bytes(b)) = U16 + Len(b)
<1> DEFINE w == put_uint(U16, Len(b))
<1>1. b \in Seq(Byte) /\ Len(b) \in Nat
  BY LenProperties DEF Strings
<1>2. w \in Seq(Byte) /\ Len(w) = U16
  BY <1>1, PutIsBytes, Widths
<1>3. put_bytes(b) = w \o b
  BY DEF put_bytes
<1> HIDE DEF w
<1> QED BY <1>1, <1>2, <1>3, ConcatProperties

\* Byte strings and their concatenation, for proofs that need no more of them
\* than the next five facts.
Bytes == Seq(Byte)
Cat(s, t) == s \o t

LEMMA CatBytes == \A s, t \in Bytes : Cat(s, t) \in Bytes
BY Cut DEF Bytes, Cat

LEMMA CatLen == \A s, t \in Bytes : Len(Cat(s, t)) = Len(s) + Len(t)
BY Cut DEF Bytes, Cat

LEMMA CatAssociative == \A s, t, u \in Bytes : Cat(Cat(s, t), u) = Cat(s, Cat(t, u))
BY Associative DEF Bytes, Cat

LEMMA CatEmpty == \A s \in Bytes : Cat(s, <<>>) = s /\ Cat(<<>>, s) = s
BY ConcatEmptySeq DEF Bytes, Cat

LEMMA CatCancel == \A s, t, u \in Bytes : Cat(s, t) = Cat(s, u) => t = u
BY Cancel DEF Bytes, Cat

LEMMA LenIsNat == \A s \in Bytes : Len(s) \in Nat
BY LenProperties DEF Bytes

LEMMA EmptyBytes == <<>> \in Bytes /\ Len(<<>>) = 0 /\ \A s \in Bytes : Len(s) = 0 => s = <<>>
BY EmptySeq DEF Bytes

LEMMA UintBytes ==
    \A n \in Nat : \A v \in Nat : put_uint(n, v) \in Bytes /\ Len(put_uint(n, v)) = n
BY PutIsBytes DEF Bytes

LEMMA StringBytes ==
    \A b \in Strings : put_bytes(b) \in Bytes /\ b \in Bytes /\ Len(b) < Limit[U16]
<1> SUFFICES ASSUME NEW b \in Strings
             PROVE  put_bytes(b) \in Bytes /\ b \in Bytes /\ Len(b) < Limit[U16]
  OBVIOUS
<1>1. put_bytes(b) \in Bytes
  BY PutBytes DEF Bytes
<1> QED BY <1>1 DEF Strings, Bytes

LEMMA ReadUint ==
    ASSUME NEW n \in Nat, NEW v \in Nat, v < Limit[n], NEW t \in Bytes, NEW r,
           r.ok, r.rest = Cat(put_uint(n, v), t)
    PROVE  read_uint(n, r) = [ok |-> TRUE, rest |-> t, value |-> v]
<1> DEFINE w == put_uint(n, v)
           s == r.rest
<1>1. w \in Seq(Byte) /\ Len(w) = n /\ get_uint(w) = v
  BY PutIsBytes, GetPut
<1>2. s = w \o t /\ t \in Seq(Byte)
  BY DEF Cat, Bytes
<1>3. read_uint(n, r) = IF n <= Len(s)
                        THEN [ok |-> TRUE, rest |-> SubSeq(s, n + 1, Len(s)),
                              value |-> get_uint(SubSeq(s, 1, n))]
                        ELSE Failed(r)
  BY DEF read_uint, Taken
<1> HIDE DEF w, s
<1>4. Len(s) = n + Len(t) /\ SubSeq(s, 1, n) = w /\ SubSeq(s, n + 1, Len(s)) = t
  BY <1>1, <1>2, Cut
<1>5. n <= Len(s)
  BY <1>4, LenProperties
<1> QED BY <1>1, <1>3, <1>4, <1>5

LEMMA UintRead ==
    ASSUME NEW n \in Nat, NEW r, r.rest \in Bytes, read_uint(n, r).ok
    PROVE  /\ r.ok
           /\ read_uint(n, r).value \in Nat /\ read_uint(n, r).value < Limit[n]
           /\ read_uint(n, r).rest \in Bytes
           /\ r.rest = Cat(put_uint(n, read_uint(n, r).value), read_uint(n, r).rest)
<1> DEFINE s == r.rest
           w == SubSeq(s, 1, n)
           t == SubSeq(s, n + 1, Len(s))
           a == read_uint(n, r)
<1>1. Failed(r).ok = FALSE
  BY DEF Failed
<1>2. r.ok /\ n <= Len(s)
  BY <1>1 DEF read_uint
<1>3. a.value = get_uint(w) /\ a.rest = t
  BY <1>2 DEF read_uint, Taken
<1>4. s \in Seq(Byte)
  BY DEF Bytes
<1> HIDE DEF s, a
<1>5. n \in 0 .. Len(s)
  BY <1>2, <1>4, LenProperties
<1>6. w \in Seq(Byte) /\ Len(w) = n /\ t \in Seq(Byte) /\ s = w \o t
  BY <1>4, <1>5, Joined
<1> HIDE DEF w, t
<1>7. get_uint(w) \in Nat /\ get_uint(w) < Limit[n] /\ put_uint(n, get_uint(w)) = w
  BY <1>6, GetIsBounded, PutGet
<1>8. t \in Bytes /\ s = Cat(w, t)
  BY <1>6 DEF Bytes, Cat
<1> QED BY <1>2, <1>3, <1>7, <1>8 DEF s, a

LEMMA UintOk ==
    ASSUME NEW n \in Nat, NEW r, r.ok, r.rest \in Bytes, n <= Len(r.rest)
    PROVE  read_uint(n, r).ok /\ Len(read_uint(n, r).rest) = Len(r.rest) - n
<1> DEFINE s == r.rest
           t == SubSeq(s, n + 1, Len(s))
<1>1. read_uint(n, r).ok /\ read_uint(n, r).rest = t
  BY DEF read_uint, Taken
<1>2. s \in Seq(Byte) /\ n <= Len(s)
  BY DEF Bytes
<1> HIDE DEF s
<1>3. n \in 0 .. Len(s)
  BY <1>2, LenProperties
<1>4. Len(t) = Len(s) - n
  BY <1>2, <1>3, Joined
<1> QED BY <1>1, <1>4 DEF s

LEMMA ReadBytes ==
    ASSUME NEW b \in Strings, NEW t \in Bytes, NEW r, r.ok, r.rest = Cat(put_bytes(b), t)
    PROVE  read_bytes(r) = [ok |-> TRUE, rest |-> t, value |-> b]
<1> DEFINE l == Len(b)
           w == put_uint(U16, l)
           s == r.rest
           e == U16 + l
<1>1. b \in Seq(Byte) /\ l \in Nat /\ l < Limit[U16]
  BY LenProperties DEF Strings
<1>2. w \in Seq(Byte) /\ Len(w) = U16 /\ get_uint(w) = l
  BY <1>1, PutIsBytes, GetPut, Widths
<1>3. s = (w \o b) \o t /\ t \in Seq(Byte)
  BY DEF put_bytes, Cat, Bytes
<1>4. ASSUME get_uint(SubSeq(s, 1, U16)) = l, e <= Len(s), U16 <= Len(s)
      PROVE  read_bytes(r) = [ok |-> TRUE, rest |-> SubSeq(s, e + 1, Len(s)),
                              value |-> SubSeq(s, U16 + 1, e)]
  BY <1>4 DEF read_bytes, Taken
<1> HIDE DEF w, s
<1>5. /\ s \in Seq(Byte) /\ Len(s) = e + Len(t) /\ SubSeq(s, 1, U16) = w
      /\ SubSeq(s, U16 + 1, e) = b /\ SubSeq(s, e + 1, Len(s)) = t
  <2> DEFINE u == (w \o b) \o t
             n == Len(w) + Len(b)
  <2>1. b \in Seq(Byte) /\ w \in Seq(Byte) /\ t \in Seq(Byte)
    BY <1>1, <1>2, <1>3
  <2>2. /\ u \in Seq(Byte) /\ Len(u) = n + Len(t) /\ SubSeq(u, 1, Len(w)) = w
        /\ SubSeq(u, Len(w) + 1, n) = b /\ SubSeq(u, n + 1, Len(u)) = t
    BY <2>1, Parts
  <2> HIDE DEF u
  <2>3. s = u /\ n = e /\ Len(w) = U16
    BY <1>2, <1>3 DEF u
  <2> HIDE DEF n, e
  <2> QED BY <2>2, <2>3
<1>6. e <= Len(s) /\ U16 <= Len(s)
  BY <1>1, <1>5, LenProperties, Widths
<1> QED BY <1>2, <1>4, <1>5, <1>6

LEMMA BytesRead ==
    ASSUME NEW r, r.rest \in Bytes, read_bytes(r).ok
    PROVE  /\ r.ok
           /\ read_bytes(r).value \in Strings
           /\ read_bytes(r).rest \in Bytes
           /\ r.rest = Cat(put_bytes(read_bytes(r).value), read_bytes(r).rest)
<1> DEFINE s == r.rest
           w == SubSeq(s, 1, U16)
           n == get_uint(w)
           e == U16 + n
           h == SubSeq(s, 1, e)
           b == SubSeq(s, U16 + 1, e)
           t == SubSeq(s, e + 1, Len(s))
           a == read_bytes(r)
<1>1. Failed(r).ok = FALSE
  BY DEF Failed
<1>2. r.ok /\ U16 <= Len(s) /\ e <= Len(s)
  BY <1>1 DEF read_bytes
<1>3. a = Taken(r, e, b)
  BY <1>2 DEF read_bytes
<1>4. a.value = b /\ a.rest = t
  <2> HIDE DEF e, a, b
  <2> QED BY <1>3 DEF Taken
<1>5. s \in Seq(Byte) /\ Len(s) \in Nat
  BY LenProperties DEF Bytes
<1> HIDE DEF s, a
<1>6. U16 \in 0 .. Len(s)
  BY <1>2, <1>5, Widths
<1>7. w \in Seq(Byte) /\ Len(w) = U16
  BY <1>5, <1>6, Joined
<1>8. SubSeq(s, 1, U16) = w /\ e = U16 + n
  OBVIOUS
<1> HIDE DEF w
<1>9. n \in Nat /\ n < Limit[U16] /\ put_uint(U16, n) = w
  BY <1>7, GetIsBounded, PutGet, Widths
<1> HIDE DEF n, e
<1>10. e \in 0 .. Len(s)
  BY <1>2, <1>5, <1>8, <1>9, Widths
<1>11. h \in Seq(Byte) /\ t \in Seq(Byte) /\ s = h \o t
  BY <1>5, <1>10, Joined
<1>12. b \in Seq(Byte) /\ Len(b) = n
  <2>1. /\ U16 + 1 \in Nat /\ e \in Nat /\ 1 <= U16 + 1 /\ U16 + 1 <= e + 1
        /\ e <= Len(s) /\ e - (U16 + 1) + 1 = n
    BY <1>8, <1>9, <1>10, Widths
  <2> QED BY <1>5, <2>1, PartOf
<1>13. h = w \o b
  <2>1. 1 \in 1 .. Len(s) + 1 /\ U16 \in 1 - 1 .. Len(s) /\ e \in U16 .. Len(s)
    BY <1>5, <1>6, <1>8, <1>9, <1>10, Widths
  <2>2. SubSeq(s, 1, U16) \o SubSeq(s, U16 + 1, e) = SubSeq(s, 1, e)
    BY <1>5, <2>1, ConcatAdjacentSubSeq
  <2> QED BY <1>8, <2>2
<1> HIDE DEF h, b, t
<1>14. put_bytes(b) = h /\ b \in Strings
  BY <1>9, <1>12, <1>13 DEF put_bytes, Strings
<1>15. t \in Bytes /\ s = Cat(h, t)
  BY <1>11 DEF Bytes, Cat
<1> QED BY <1>2, <1>4, <1>14, <1>15 DEF s, a
=============================================================================

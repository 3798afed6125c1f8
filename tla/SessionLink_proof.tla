------------------------- MODULE SessionLink_proof -------------------------
(***************************************************************************)
(* Proofs about SessionLink: the replay check and the authenticated        *)
(* envelope make every pair of sessions a lossy ordered channel, for every *)
(* set of peers, types and plaintexts and every bound.                     *)
(***************************************************************************)
EXTENDS SessionLink, SequenceTheorems, TLAPS

\* Updating one entry of a table of pairs.
LEMMA PerPairUpdate ==
    ASSUME NEW S, NEW f \in PerPair(S), NEW p \in Peers, NEW q \in Peers, NEW v \in S
    PROVE  LET g == [f EXCEPT ![p][q] = v]
           IN  /\ g \in PerPair(S)
               /\ g[p][q] = v
               /\ \A a, b \in Peers : ~(a = p /\ b = q) => g[a][b] = f[a][b]
BY DEF PerPair

\* What Append does to a sequence over an arbitrary set.
LEMMA AppendFacts ==
    \A S : \A s \in Seq(S) : \A x \in S :
        /\ Append(s, x) # <<>>
        /\ Len(Append(s, x)) = Len(s) + 1
        /\ \A i \in 1 .. Len(s) : Append(s, x)[i] = s[i]
        /\ Append(s, x)[Len(s) + 1] = x
BY AppendProperties

\* The histories of a pair are sequences.
LEMMA HistoryType ==
    ASSUME TypeOK, NEW p \in Peers, NEW q \in Peers
    PROVE  /\ accepted[p][q] \in Seq(Nat)
           /\ received[p][q] \in Seq(Items)
           /\ sent[p][q] \in Seq(Items)
           /\ \A i \in 1 .. Len(accepted[p][q]) : accepted[p][q][i] \in Nat
<1>1. /\ accepted[p][q] \in Seq(Nat)
      /\ received[p][q] \in Seq(Items)
      /\ sent[p][q] \in Seq(Items)
  BY DEF TypeOK, PerPair
<1> QED
  BY <1>1, ElementOfSeq

\* The session operators keep a session well-formed.
LEMMA FreshSessionType == FreshSession \in SessionState
BY DEF FreshSession, SessionState

LEMMA AfterEncryptType ==
    ASSUME NEW s \in SessionState
    PROVE  /\ AfterEncrypt(s) \in SessionState
           /\ AfterEncrypt(s).send = s.send + 1
           /\ AfterEncrypt(s).have = s.have
           /\ AfterEncrypt(s).last = s.last
BY DEF AfterEncrypt, SessionState

LEMMA AfterDecryptType ==
    ASSUME NEW s \in SessionState, NEW pkt \in Packets
    PROVE  /\ AfterDecrypt(s, pkt) \in SessionState
           /\ AfterDecrypt(s, pkt).send = s.send
           /\ AfterDecrypt(s, pkt).have
           /\ AfterDecrypt(s, pkt).last = pkt.counter
BY DEF AfterDecrypt, SessionState, Packets

\* The packet encrypt_as makes: its envelope, and a payload sealed to it.
LEMMA EncryptAsType ==
    ASSUME NEW p \in Peers, NEW q \in Peers, NEW s \in SessionState,
           NEW type \in Types, NEW text \in Texts
    PROVE  /\ encrypt_as(p, q, s, type, text) \in Packets
           /\ encrypt_as(p, q, s, type, text).payload
                 = [key |-> {p, q}, text |-> text, aad |-> Envelope(p, q, type, s.send)]
BY DEF encrypt_as, WithPayload, Envelope, seal, SharedKey, Packets, Payloads,
       Envelopes, SessionState

\* Damage keeps a packet well-formed and never forges a sealed payload.
LEMMA DamagedCopyFacts ==
    ASSUME NEW pkt \in Packets, NEW bad \in DamagedCopies(pkt)
    PROVE  /\ bad \in Packets
           /\ \/ bad.payload = pkt.payload
              \/ bad.payload.key = {}
<1>1. CASE \/ \E t \in Types : bad = [pkt EXCEPT !.type = t]
           \/ bad = [pkt EXCEPT !.encrypted = FALSE]
           \/ \E c \in 0 .. MaxCounter : bad = [pkt EXCEPT !.counter = c]
           \/ \E r \in Peers : bad = [pkt EXCEPT !.source = r]
           \/ \E r \in Peers : bad = [pkt EXCEPT !.destination = r]
  <2>1. 0 .. MaxCounter \subseteq Nat
    BY BoundsAssumption
  <2>2. CASE \/ bad = [pkt EXCEPT !.encrypted = FALSE]
             \/ \E c \in Nat : bad = [pkt EXCEPT !.counter = c]
    BY <2>2 DEF Packets
  <2>3. CASE \/ \E t \in Types : bad = [pkt EXCEPT !.type = t]
             \/ \E r \in Peers : bad = [pkt EXCEPT !.source = r]
             \/ \E r \in Peers : bad = [pkt EXCEPT !.destination = r]
    BY <2>3 DEF Packets
  <2> QED
    BY <1>1, <2>1, <2>2, <2>3
<1>2. CASE bad = [pkt EXCEPT !.payload.key = {}]
  <2>1. [pkt.payload EXCEPT !.key = {}] \in Payloads
    BY DEF Packets, Payloads
  <2>2. bad = [pkt EXCEPT !.payload = [pkt.payload EXCEPT !.key = {}]]
    BY <1>2
  <2>3. bad \in Packets /\ bad.payload = [pkt.payload EXCEPT !.key = {}]
    BY <2>1, <2>2 DEF Packets
  <2> QED
    BY <2>3 DEF Packets, Payloads
<1> QED
  BY <1>1, <1>2 DEF DamagedCopies

-----------------------------------------------------------------------------
\* The packets Session::decrypt accepts carry the authenticated envelope and a
\* counter above every one accepted before.
LEMMA DecryptFacts ==
    ASSUME TypeOK, SealedWasSent, NEW p \in Peers, NEW q \in Peers,
           NEW pkt \in net, CanDecrypt(p, q, session[p][q], pkt)
    PROVE  /\ pkt \in Packets
           /\ pkt.counter \in Nat
           /\ pkt.counter < Len(sent[q][p])
           /\ sent[q][p][pkt.counter + 1]
                 = [type |-> pkt.type, text |-> pkt.payload.text]
           /\ [type |-> pkt.type, text |-> pkt.payload.text] \in Items
           /\ session[p][q].have => pkt.counter > session[p][q].last
<1>1. pkt \in Packets
  BY DEF TypeOK
<1>2. /\ pkt.source = q /\ pkt.destination = p
      /\ pkt.payload.key = {p, q}
      /\ pkt.payload.aad = associated_data(pkt)
      /\ session[p][q].have => pkt.counter > session[p][q].last
  BY DEF CanDecrypt, CanOpen, SharedKey, FreshCounter
<1>3. /\ pkt.payload.aad.counter = pkt.counter
      /\ pkt.payload.aad.type = pkt.type
      /\ pkt.payload.aad.source = q
      /\ pkt.payload.aad.destination = p
  BY <1>2 DEF associated_data
<1>4. pkt.payload.key # {}
  BY <1>2
<1>5. /\ pkt.counter < Len(sent[q][p])
      /\ sent[q][p][pkt.counter + 1]
            = [type |-> pkt.type, text |-> pkt.payload.text]
  BY <1>3, <1>4 DEF SealedWasSent
<1>6. [type |-> pkt.type, text |-> pkt.payload.text] \in Items
  BY <1>1 DEF Packets, Payloads, Items
<1> QED
  BY <1>1, <1>2, <1>5, <1>6 DEF Packets

LEMMA InitIInv == Init => IInv
<1> SUFFICES ASSUME Init PROVE IInv
  OBVIOUS
<1>1. TypeOK
  BY FreshSessionType DEF Init, TypeOK, PerPair
<1>2. SealedWasSent
  BY DEF Init, SealedWasSent
<1>3. CountersTrackHistory
  BY DEF Init, CountersTrackHistory, FreshSession
<1>4. StrictlyIncreasing /\ Authentic
  BY DEF Init, StrictlyIncreasing, Authentic
<1> QED
  BY <1>1, <1>2, <1>3, <1>4 DEF IInv

-----------------------------------------------------------------------------
LEMMA EncryptIInv ==
    ASSUME IInv, NEW p \in Peers, NEW q \in Peers, NEW item \in Items,
           Encrypt(p, q, item)
    PROVE  IInv'
<1> DEFINE s == session[p][q]
           pkt == encrypt_as(p, q, s, item.type, item.text)
<1>0. s \in SessionState
  BY DEF IInv, TypeOK, PerPair
<1>2. /\ net' = net \cup {pkt}
      /\ session' = [session EXCEPT ![p][q] = AfterEncrypt(s)]
      /\ sent' = [sent EXCEPT ![p][q] = Append(sent[p][q], item)]
      /\ UNCHANGED <<received, accepted, damaged>>
  BY DEF Encrypt
<1>11. pkt = encrypt_as(p, q, s, item.type, item.text)
  OBVIOUS
<1> HIDE DEF pkt, s
<1>1. /\ pkt \in Packets
      /\ pkt.payload.aad = Envelope(p, q, item.type, s.send)
      /\ pkt.payload.key = {p, q}
      /\ pkt.payload.text = item.text
  <2>1. item.type \in Types /\ item.text \in Texts
    BY DEF Items
  <2>2. /\ pkt \in Packets
        /\ pkt.payload = [key |-> {p, q}, text |-> item.text,
                          aad |-> Envelope(p, q, item.type, s.send)]
    BY <1>0, <1>11, <2>1, EncryptAsType
  <2> QED
    BY <2>2
<1>3. /\ AfterEncrypt(s) \in SessionState
      /\ AfterEncrypt(s).send = s.send + 1
      /\ AfterEncrypt(s).have = s.have
      /\ AfterEncrypt(s).last = s.last
  BY <1>0, AfterEncryptType
<1>4. TypeOK'
  <2>1. Append(sent[p][q], item) \in Seq(Items)
    BY DEF IInv, TypeOK, PerPair
  <2>2. session' \in PerPair(SessionState) /\ sent' \in PerPair(Seq(Items))
    BY <1>2, <1>3, <2>1, PerPairUpdate DEF IInv, TypeOK
  <2> QED
    BY <1>1, <1>2, <2>2 DEF IInv, TypeOK
\* Old positions keep their items and the new one is the item just sent.
<1>5. /\ s.send = Len(sent[p][q])
      /\ s.send \in Nat
      /\ sent'[p][q][s.send + 1] = item
      /\ Len(sent'[p][q]) = s.send + 1
  BY <1>2 DEF IInv, TypeOK, PerPair, CountersTrackHistory, s, SessionState
<1>6. ASSUME NEW a \in Peers, NEW b \in Peers, NEW n \in Nat, n < Len(sent[a][b])
      PROVE  n < Len(sent'[a][b]) /\ sent'[a][b][n + 1] = sent[a][b][n + 1]
  <2>1. sent[a][b] \in Seq(Items)
    BY DEF IInv, TypeOK, PerPair
  <2>2. CASE a = p /\ b = q
    <3>1. sent'[a][b] = Append(sent[a][b], item)
      BY <1>2, <2>2 DEF IInv, TypeOK, PerPair
    <3> QED
      BY <1>6, <2>1, <3>1
  <2>3. CASE ~(a = p /\ b = q)
    <3>1. sent'[a][b] = sent[a][b]
      BY <1>2, <2>3 DEF IInv, TypeOK, PerPair
    <3> QED
      BY <1>6, <3>1
  <2> QED
    BY <2>2, <2>3
<1>7. SealedWasSent'
  <2> SUFFICES ASSUME NEW k \in net', k.payload.key # {}
               PROVE  LET e == k.payload.aad
                      IN  /\ e.encrypted
                          /\ k.payload.key = SharedKey(e.source, e.destination)
                          /\ e.counter < Len(sent'[e.source][e.destination])
                          /\ sent'[e.source][e.destination][e.counter + 1]
                                = [type |-> e.type, text |-> k.payload.text]
    BY DEF SealedWasSent
  <2>1. CASE k \in net
    <3> DEFINE e == k.payload.aad
    <3>1. e.source \in Peers /\ e.destination \in Peers /\ e.counter \in Nat
      BY <2>1 DEF IInv, TypeOK, Packets, Payloads, Envelopes
    <3>2. /\ e.encrypted
          /\ k.payload.key = SharedKey(e.source, e.destination)
          /\ e.counter < Len(sent[e.source][e.destination])
          /\ sent[e.source][e.destination][e.counter + 1]
                = [type |-> e.type, text |-> k.payload.text]
      BY <2>1 DEF IInv, SealedWasSent
    <3> QED
      BY <3>1, <3>2, <1>6
  <2>2. CASE k = pkt
    <3>1. k.payload.aad = Envelope(p, q, item.type, s.send)
      BY <1>1, <2>2
    <3>2. item = [type |-> item.type, text |-> item.text]
      BY DEF Items
    <3>3. s.send < Len(sent'[p][q])
      BY <1>5
    <3>4. /\ k.payload.aad.encrypted
          /\ k.payload.aad.source = p /\ k.payload.aad.destination = q
          /\ k.payload.aad.counter = s.send /\ k.payload.aad.type = item.type
      BY <3>1 DEF Envelope
    <3> QED
      BY <1>1, <1>5, <2>2, <3>2, <3>3, <3>4 DEF SharedKey
  <2> QED
    BY <1>2, <2>1, <2>2
<1>8. CountersTrackHistory'
  <2> SUFFICES ASSUME NEW a \in Peers, NEW b \in Peers
               PROVE  /\ session'[a][b].send = Len(sent'[a][b])
                      /\ session'[a][b].have <=> accepted[b][a] # <<>>
                      /\ \A i \in 1 .. Len(accepted[b][a]) :
                            accepted[b][a][i] <= session'[a][b].last
    BY <1>2 DEF CountersTrackHistory
  <2>1. CASE a = p /\ b = q
    <3>1. session'[a][b] = AfterEncrypt(s)
      BY <1>2, <2>1 DEF IInv, TypeOK, PerPair
    <3> QED
      BY <1>3, <1>5, <2>1, <3>1 DEF IInv, CountersTrackHistory, s
  <2>2. CASE ~(a = p /\ b = q)
    <3>1. session'[a][b] = session[a][b] /\ sent'[a][b] = sent[a][b]
      BY <1>2, <2>2 DEF IInv, TypeOK, PerPair
    <3> QED
      BY <3>1 DEF IInv, CountersTrackHistory
  <2> QED
    BY <2>1, <2>2
<1>9. StrictlyIncreasing'
  BY <1>2 DEF IInv, StrictlyIncreasing
<1>10. Authentic'
  <2> SUFFICES ASSUME NEW a \in Peers, NEW b \in Peers,
                      NEW i \in 1 .. Len(accepted[a][b])
               PROVE  /\ accepted[a][b][i] < Len(sent'[a][b])
                      /\ received[a][b][i] = sent'[a][b][accepted[a][b][i] + 1]
    <3>1. received' = received /\ accepted' = accepted
      BY <1>2
    <3> QED
      BY <3>1 DEF IInv, Authentic
  <2>1. accepted[a][b][i] \in Nat
    BY HistoryType DEF IInv
  <2>2. /\ accepted[a][b][i] < Len(sent[a][b])
        /\ received[a][b][i] = sent[a][b][accepted[a][b][i] + 1]
    BY DEF IInv, Authentic
  <2> QED
    BY <1>6, <2>1, <2>2
<1> QED
  BY <1>4, <1>7, <1>8, <1>9, <1>10 DEF IInv
-----------------------------------------------------------------------------
LEMMA DecryptIInv ==
    ASSUME IInv, NEW p \in Peers, NEW q \in Peers, NEW pkt \in net,
           Decrypt(p, q, pkt)
    PROVE  IInv'
<1> DEFINE s == session[p][q]
           item == [type |-> pkt.type, text |-> pkt.payload.text]
<1>1. /\ pkt \in Packets
      /\ pkt.counter \in Nat
      /\ pkt.counter < Len(sent[q][p])
      /\ sent[q][p][pkt.counter + 1] = item
      /\ item \in Items
      /\ s.have => pkt.counter > s.last
  BY DecryptFacts DEF IInv, Decrypt
<1>2. /\ session' = [session EXCEPT ![p][q] = AfterDecrypt(s, pkt)]
      /\ received' = [received EXCEPT ![q][p] = Append(received[q][p], item)]
      /\ accepted' = [accepted EXCEPT ![q][p] = Append(accepted[q][p], pkt.counter)]
      /\ UNCHANGED <<net, sent, damaged>>
  BY DEF Decrypt
<1>3. s \in SessionState
  BY DEF IInv, TypeOK, PerPair
<1> HIDE DEF s, item
<1>4. /\ AfterDecrypt(s, pkt) \in SessionState
      /\ AfterDecrypt(s, pkt).send = s.send
      /\ AfterDecrypt(s, pkt).have
      /\ AfterDecrypt(s, pkt).last = pkt.counter
  BY <1>1, <1>3, AfterDecryptType
<1>5. TypeOK'
  <2>1. /\ Append(accepted[q][p], pkt.counter) \in Seq(Nat)
        /\ Append(received[q][p], item) \in Seq(Items)
    BY <1>1 DEF IInv, TypeOK, PerPair
  <2>2. /\ session' \in PerPair(SessionState)
        /\ accepted' \in PerPair(Seq(Nat))
        /\ received' \in PerPair(Seq(Items))
    BY <1>2, <1>4, <2>1, PerPairUpdate DEF IInv, TypeOK
  <2> QED
    BY <1>2, <2>2 DEF IInv, TypeOK
<1>6. SealedWasSent'
  BY <1>2 DEF IInv, SealedWasSent
\* The one pair of histories that grows.
<1>7. /\ accepted'[q][p] = Append(accepted[q][p], pkt.counter)
      /\ received'[q][p] = Append(received[q][p], item)
      /\ session'[p][q] = AfterDecrypt(s, pkt)
  BY <1>2 DEF IInv, TypeOK, PerPair
<1> DEFINE n == Len(accepted[q][p])
<1>13. /\ accepted[q][p] \in Seq(Nat)
       /\ n \in Nat
       /\ \A i \in 1 .. n : accepted[q][p][i] \in Nat
       /\ accepted'[q][p] # <<>>
       /\ Len(accepted'[q][p]) = n + 1
       /\ \A i \in 1 .. n : accepted'[q][p][i] = accepted[q][p][i]
       /\ accepted'[q][p][n + 1] = pkt.counter
  <2>1. /\ accepted[q][p] \in Seq(Nat)
        /\ \A i \in 1 .. n : accepted[q][p][i] \in Nat
    BY HistoryType DEF IInv
  <2>2. n \in Nat
    BY <2>1, LenProperties
  <2> QED
    <3> DEFINE h == Append(accepted[q][p], pkt.counter)
    <3>1. /\ h # <<>>
          /\ Len(h) = n + 1
          /\ \A i \in 1 .. n : h[i] = accepted[q][p][i]
          /\ h[n + 1] = pkt.counter
      BY <1>1, <2>1, AppendFacts
    <3>2. accepted'[q][p] = h
      BY <1>7
    <3> HIDE DEF h, n
    <3> QED
      BY <2>1, <2>2, <3>1, <3>2
<1>14. /\ Len(received[q][p]) = n
       /\ Len(received'[q][p]) = n + 1
       /\ \A i \in 1 .. n : received'[q][p][i] = received[q][p][i]
       /\ received'[q][p][n + 1] = item
  <2>1. Len(received[q][p]) = n
    BY DEF IInv, Authentic
  <2>2. received[q][p] \in Seq(Items)
    BY HistoryType DEF IInv
  <2> DEFINE h == Append(received[q][p], item)
  <2>3. /\ Len(h) = n + 1
        /\ \A i \in 1 .. n : h[i] = received[q][p][i]
        /\ h[n + 1] = item
    <3> HIDE DEF n
    <3> QED
      BY <1>1, <2>1, <2>2, AppendFacts
  <2>4. received'[q][p] = h
    BY <1>7
  <2> HIDE DEF h, n
  <2> QED
    BY <2>1, <2>3, <2>4
<1> HIDE DEF n
<1>15. \A i \in 1 .. (n + 1) : i \in 1 .. n \/ i = n + 1
  BY <1>13
<1>8. \A a, b \in Peers : ~(a = q /\ b = p) =>
          /\ accepted'[a][b] = accepted[a][b]
          /\ received'[a][b] = received[a][b]
          /\ session'[b][a] = session[b][a]
  BY <1>2 DEF IInv, TypeOK, PerPair
\* Every counter accepted earlier is below the new one.
<1>9. \A i \in 1 .. n : accepted[q][p][i] < pkt.counter
  <2> SUFFICES ASSUME NEW i \in 1 .. n
               PROVE  accepted[q][p][i] < pkt.counter
    OBVIOUS
  <2>1. accepted[q][p] # <<>>
    BY <1>13, EmptySeq DEF n
  <2>2. s.have /\ accepted[q][p][i] <= s.last
    BY <2>1 DEF IInv, CountersTrackHistory, s, n
  <2>3. accepted[q][p][i] \in Nat /\ s.last \in Nat
    BY <1>3, <1>13 DEF SessionState
  <2> QED
    BY <1>1, <2>2, <2>3
<1>10. CountersTrackHistory'
  <2> SUFFICES ASSUME NEW a \in Peers, NEW b \in Peers
               PROVE  /\ session'[a][b].send = Len(sent[a][b])
                      /\ session'[a][b].have <=> accepted'[b][a] # <<>>
                      /\ \A i \in 1 .. Len(accepted'[b][a]) :
                            accepted'[b][a][i] <= session'[a][b].last
    BY <1>2 DEF CountersTrackHistory
  <2>1. CASE a = p /\ b = q
    <3>1. session'[a][b].send = Len(sent[a][b])
      BY <1>4, <1>7, <2>1 DEF IInv, CountersTrackHistory, s
    <3>2. session'[a][b].have /\ accepted'[b][a] # <<>>
      BY <1>4, <1>7, <1>13, <2>1
    <3>3. \A i \in 1 .. (n + 1) : accepted'[q][p][i] <= pkt.counter
      <4> SUFFICES ASSUME NEW i \in 1 .. (n + 1)
                   PROVE  accepted'[q][p][i] <= pkt.counter
        OBVIOUS
      <4>1. CASE i = n + 1
        BY <1>1, <1>13, <4>1
      <4>2. CASE i \in 1 .. n
        BY <1>1, <1>9, <1>13, <4>2
      <4> QED
        BY <1>15, <4>1, <4>2
    <3> QED
      BY <1>4, <1>7, <1>13, <2>1, <3>1, <3>2, <3>3
  <2>2. CASE ~(a = p /\ b = q)
    <3>1. /\ accepted'[b][a] = accepted[b][a]
          /\ session'[a][b] = session[a][b]
      BY <1>8, <2>2
    <3> QED
      BY <3>1 DEF IInv, CountersTrackHistory
  <2> QED
    BY <2>1, <2>2
<1>11. StrictlyIncreasing'
  <2> SUFFICES ASSUME NEW a \in Peers, NEW b \in Peers,
                      NEW i \in 1 .. Len(accepted'[a][b]),
                      NEW j \in 1 .. Len(accepted'[a][b]), i < j
               PROVE  accepted'[a][b][i] < accepted'[a][b][j]
    BY DEF StrictlyIncreasing
  <2>1. CASE a = q /\ b = p
    <3>1. \A l, m \in 1 .. n :
              l < m => accepted[q][p][l] < accepted[q][p][m]
      BY DEF IInv, StrictlyIncreasing, n
    <3>2. i \in 1 .. (n + 1) /\ j \in 1 .. (n + 1)
      BY <1>13, <2>1
    <3>3. i \in 1 .. n
      BY <1>13, <3>2
    <3>4. CASE j \in 1 .. n
      BY <1>13, <2>1, <3>1, <3>3, <3>4
    <3>5. CASE j = n + 1
      BY <1>9, <1>13, <2>1, <3>3, <3>5
    <3> QED
      BY <1>15, <3>2, <3>4, <3>5
  <2>2. CASE ~(a = q /\ b = p)
    BY <1>8, <2>2 DEF IInv, StrictlyIncreasing
  <2> QED
    BY <2>1, <2>2
<1>12. Authentic'
  <2>1. sent' = sent
    BY <1>2
  <2> SUFFICES ASSUME NEW a \in Peers, NEW b \in Peers
               PROVE  /\ Len(received'[a][b]) = Len(accepted'[a][b])
                      /\ \A i \in 1 .. Len(accepted'[a][b]) :
                            /\ accepted'[a][b][i] < Len(sent[a][b])
                            /\ received'[a][b][i] = sent[a][b][accepted'[a][b][i] + 1]
    BY <2>1 DEF Authentic
  <2>2. CASE a = q /\ b = p
    <3>1. \A i \in 1 .. n :
             /\ accepted[q][p][i] < Len(sent[q][p])
             /\ received[q][p][i] = sent[q][p][accepted[q][p][i] + 1]
      BY DEF IInv, Authentic, n
    <3>2. ASSUME NEW i \in 1 .. (n + 1)
          PROVE  /\ accepted'[q][p][i] < Len(sent[q][p])
                 /\ received'[q][p][i] = sent[q][p][accepted'[q][p][i] + 1]
      <4>1. CASE i = n + 1
        BY <1>1, <1>13, <1>14, <4>1
      <4>2. CASE i \in 1 .. n
        BY <1>13, <1>14, <3>1, <4>2
      <4> QED
        BY <1>15, <4>1, <4>2
    <3> QED
      BY <1>13, <1>14, <2>2, <3>2
  <2>3. CASE ~(a = q /\ b = p)
    <3>1. accepted'[a][b] = accepted[a][b] /\ received'[a][b] = received[a][b]
      BY <1>8, <2>3
    <3> QED
      BY <3>1 DEF IInv, Authentic
  <2> QED
    BY <2>2, <2>3
<1> QED
  BY <1>5, <1>6, <1>10, <1>11, <1>12 DEF IInv

LEMMA DamageIInv ==
    ASSUME IInv, NEW pkt \in net, Damage(pkt)
    PROVE  IInv'
<1>1. PICK bad \in DamagedCopies(pkt) : net' = net \cup {bad}
  BY DEF Damage
<1>2. /\ UNCHANGED <<session, sent, received, accepted>>
      /\ damaged' = damaged + 1
  BY DEF Damage
<1>3. pkt \in Packets
  BY DEF IInv, TypeOK
<1>4. /\ bad \in Packets
      /\ \/ bad.payload = pkt.payload
         \/ bad.payload.key = {}
  BY <1>3, DamagedCopyFacts
<1>5. TypeOK'
  BY <1>1, <1>2, <1>4 DEF IInv, TypeOK
<1>6. SealedWasSent'
  BY <1>1, <1>2, <1>4 DEF IInv, SealedWasSent
<1>7. CountersTrackHistory' /\ StrictlyIncreasing' /\ Authentic'
  BY <1>2 DEF IInv, CountersTrackHistory, StrictlyIncreasing, Authentic
<1> QED
  BY <1>5, <1>6, <1>7 DEF IInv

LEMMA NextIInv == IInv /\ [Next]_vars => IInv'
<1> SUFFICES ASSUME IInv, [Next]_vars PROVE IInv'
  OBVIOUS
<1>1. CASE Next
  BY <1>1, EncryptIInv, DecryptIInv, DamageIInv DEF Next
<1>2. CASE UNCHANGED vars
  BY <1>2 DEF vars, IInv, TypeOK, SealedWasSent, CountersTrackHistory,
              StrictlyIncreasing, Authentic
<1> QED
  BY <1>1, <1>2

\* The inductive invariant of the session link: histories, counters and the
\* packets in the network agree.
THEOREM Invariance == Spec => []IInv
<1> QED
  BY InitIInv, NextIInv, PTL DEF Spec

\* Session::decrypt never accepts a packet twice, nor one older than a packet
\* it has accepted, whatever the network does.
THEOREM NoReplay == Spec => []StrictlyIncreasing
<1>1. IInv => StrictlyIncreasing
  BY DEF IInv
<1> QED
  BY Invariance, <1>1, PTL

\* Session::decrypt returns only what the peer's encrypt_as was given, under
\* the type and counter it was given for, although packets are damaged.
THEOREM Authenticity == Spec => []Authentic
<1>1. IInv => Authentic
  BY DEF IInv
<1> QED
  BY Invariance, <1>1, PTL

-----------------------------------------------------------------------------
(* Refinement: the session link implements the lossy ordered channel. *)

LEMMA InitRefines == Init => Channel!Init
BY DEF Init, Channel!Init, NextPosition, FreshSession

LEMMA EncryptRefines ==
    ASSUME IInv, NEW p \in Peers, NEW q \in Peers, NEW item \in Items,
           Encrypt(p, q, item)
    PROVE  Channel!Send(p, q, item)
<1>1. /\ session' = [session EXCEPT ![p][q] = AfterEncrypt(session[p][q])]
      /\ sent' = [sent EXCEPT ![p][q] = Append(sent[p][q], item)]
      /\ received' = received
  BY DEF Encrypt
<1>2. \A a, b \in Peers : /\ session'[a][b].have = session[a][b].have
                          /\ session'[a][b].last = session[a][b].last
  BY <1>1, AfterEncryptType DEF IInv, TypeOK, PerPair
<1>3. NextPosition' = NextPosition
  BY <1>2 DEF NextPosition
<1> QED
  BY <1>1, <1>3 DEF Channel!Send

LEMMA DecryptRefines ==
    ASSUME IInv, NEW p \in Peers, NEW q \in Peers, NEW pkt \in net,
           Decrypt(p, q, pkt)
    PROVE  Channel!Deliver(q, p, pkt.counter + 1) /\ pkt.counter + 1 \in DOMAIN sent[q][p]
<1> DEFINE s == session[p][q]
           item == [type |-> pkt.type, text |-> pkt.payload.text]
<1>1. /\ pkt \in Packets
      /\ pkt.counter \in Nat
      /\ pkt.counter < Len(sent[q][p])
      /\ sent[q][p][pkt.counter + 1] = item
      /\ s.have => pkt.counter > s.last
  BY DecryptFacts DEF IInv, Decrypt
<1>2. /\ session' = [session EXCEPT ![p][q] = AfterDecrypt(s, pkt)]
      /\ received' = [received EXCEPT ![q][p] = Append(received[q][p], item)]
      /\ sent' = sent
  BY DEF Decrypt
<1>3. s \in SessionState
  BY DEF IInv, TypeOK, PerPair
<1>4. /\ session \in PerPair(SessionState)
      /\ sent[q][p] \in Seq(Items)
  BY DEF IInv, TypeOK, PerPair
<1>5. NextPosition[q][p] = IF s.have THEN s.last + 2 ELSE 1
  BY DEF NextPosition
<1> HIDE DEF s, item
<1>6. /\ AfterDecrypt(s, pkt).have
      /\ AfterDecrypt(s, pkt).last = pkt.counter
  BY <1>1, <1>3, AfterDecryptType
<1>7. pkt.counter + 1 >= NextPosition[q][p]
  BY <1>1, <1>3, <1>5 DEF SessionState
<1>8. NextPosition' = [NextPosition EXCEPT ![q][p] = pkt.counter + 1 + 1]
  <2>1. session'[p][q] = AfterDecrypt(s, pkt)
    BY <1>2, <1>4 DEF PerPair
  <2>2. \A a, b \in Peers : ~(a = p /\ b = q) => session'[a][b] = session[a][b]
    BY <1>2, <1>4 DEF PerPair
  <2>3. pkt.counter + 2 = pkt.counter + 1 + 1
    BY <1>1
  <2>4. NextPosition \in [Peers -> [Peers -> Nat]]
    <3>1. session \in PerPair(SessionState)
      BY <1>4
    <3> QED
      BY <3>1 DEF NextPosition, PerPair, SessionState
  <2>5. NextPosition'[q][p] = pkt.counter + 1 + 1
    BY <1>6, <2>1, <2>3 DEF NextPosition
  <2>6. \A a, b \in Peers : ~(a = q /\ b = p) => NextPosition'[a][b] = NextPosition[a][b]
    BY <2>2 DEF NextPosition
  <2>7. NextPosition' \in [Peers -> [Peers -> Nat]]
    <3>1. session' \in PerPair(SessionState)
      BY <1>1, <1>2, <1>3, <1>4, AfterDecryptType, PerPairUpdate
    <3> QED
      BY <3>1 DEF NextPosition, PerPair, SessionState
  <2> DEFINE f == NextPosition
             g == NextPosition'
  <2> HIDE DEF f, g
  <2>8. /\ f \in [Peers -> [Peers -> Nat]] /\ g \in [Peers -> [Peers -> Nat]]
        /\ g[q][p] = pkt.counter + 1 + 1
        /\ \A a, b \in Peers : ~(a = q /\ b = p) => g[a][b] = f[a][b]
    BY <2>4, <2>5, <2>6, <2>7 DEF f, g
  <2>9. g = [f EXCEPT ![q][p] = pkt.counter + 1 + 1]
    BY <2>8
  <2> QED
    BY <2>9 DEF f, g
<1>9. pkt.counter + 1 \in DOMAIN sent[q][p]
  BY <1>1, <1>4
<1> QED
  BY <1>1, <1>2, <1>7, <1>8, <1>9 DEF Channel!Deliver

LEMMA NextRefines == IInv /\ [Next]_vars => [Channel!Next]_(Channel!vars)
<1> SUFFICES ASSUME IInv, [Next]_vars
             PROVE  Channel!Next \/ UNCHANGED <<sent, received, NextPosition>>
  BY DEF Channel!vars
<1>1. ASSUME NEW p \in Peers, NEW q \in Peers, NEW item \in Items,
             Encrypt(p, q, item)
      PROVE  Channel!Next
  BY <1>1, EncryptRefines DEF Channel!Next
<1>2. ASSUME NEW p \in Peers, NEW q \in Peers, NEW pkt \in net,
             Decrypt(p, q, pkt)
      PROVE  Channel!Next
  BY <1>2, DecryptRefines DEF Channel!Next
<1>3. ASSUME NEW pkt \in net, Damage(pkt)
      PROVE  UNCHANGED <<sent, received, NextPosition>>
  BY <1>3 DEF Damage, NextPosition
<1>4. CASE UNCHANGED vars
  BY <1>4 DEF vars, NextPosition
<1> QED
  BY <1>1, <1>2, <1>3, <1>4 DEF Next

\* Two sessions over a network that loses, repeats, reorders and damages
\* packets implement the lossy ordered channel.
THEOREM Refinement == Spec => ImplementsChannel
<1> QED
  BY Invariance, InitRefines, NextRefines, PTL DEF Spec, Channel!Spec, ImplementsChannel
=============================================================================

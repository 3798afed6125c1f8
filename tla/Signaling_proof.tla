---------------------------- MODULE Signaling_proof ----------------------------
(***************************************************************************)
(* Proofs about SignalingServer and Rendezvous, for every set of peers and  *)
(* addresses and every time to live, poll window, number of attempts and    *)
(* bound: what the registry holds was proven and is fresh, no challenge     *)
(* counts twice, and the client's calls are not mistaken about a success.   *)
(***************************************************************************)
EXTENDS Rendezvous, SequenceTheorems, TLAPS

USE SignalingAssumption

\* What Append does to a sequence over an arbitrary set.
LEMMA AppendFacts ==
    \A S : \A s \in Seq(S) : \A x \in S :
        /\ Append(s, x) \in Seq(S)
        /\ DOMAIN Append(s, x) = 1 .. (Len(s) + 1)
        /\ \A i \in 1 .. Len(s) : Append(s, x)[i] = s[i]
        /\ Append(s, x)[Len(s) + 1] = x
BY AppendProperties

LEMMA SeqDomain == \A S : \A s \in Seq(S) : DOMAIN s = 1 .. Len(s) /\ Len(s) \in Nat
OBVIOUS

\* The entries that are there.
LiveEntries == [online : {TRUE}, endpoint : Addresses, last_seen : Nat]
LiveChallenges == [active : {TRUE}, challenge : Nat, endpoint : Addresses, expiry : Nat]

LEMMA EntryShape ==
    ASSUME NEW e \in RegistryEntries
    PROVE  /\ e.online <=> e \in LiveEntries
           /\ e.online => e.last_seen \in Nat /\ e.endpoint \in Addresses
<1>1. Unregistered.online = FALSE
  BY DEF Unregistered
<1>2. ASSUME e \in LiveEntries
      PROVE  e.online = TRUE /\ e.last_seen \in Nat /\ e.endpoint \in Addresses
  BY <1>2 DEF LiveEntries
<1>3. e = Unregistered \/ e \in LiveEntries
  BY DEF RegistryEntries, LiveEntries
<1> QED
  BY <1>1, <1>2, <1>3, Zenon

LEMMA ChallengeShape ==
    ASSUME NEW e \in PendingEntries
    PROVE  /\ e.active <=> e \in LiveChallenges
           /\ e.active => e.challenge \in Nat /\ e.endpoint \in Addresses /\ e.expiry \in Nat
<1>1. NoPending.active = FALSE
  BY DEF NoPending
<1>2. ASSUME e \in LiveChallenges
      PROVE  e.active = TRUE /\ e.challenge \in Nat /\ e.endpoint \in Addresses /\ e.expiry \in Nat
  BY <1>2 DEF LiveChallenges
<1>3. e = NoPending \/ e \in LiveChallenges
  BY DEF PendingEntries, LiveChallenges
<1> QED
  BY <1>1, <1>2, <1>3, Zenon

-----------------------------------------------------------------------------
(* Finish: expiry only removes entries, and removes every one out of date. *)

LEMMA FinishRegistry ==
    ASSUME NEW reg \in [Peers -> RegistryEntries], NEW pend, now \in Nat, Finish(reg, pend)
    PROVE  /\ registry' \in [Peers -> RegistryEntries]
           /\ \A p \in Peers : registry'[p].online =>
                 /\ registry'[p] = reg[p]
                 /\ reg[p].online
                 /\ now <= reg[p].last_seen + PeerTtl
<1>1. registry' = ExpirePeers(reg, now)
  BY DEF Finish
<1>2. \A p \in Peers : registry'[p] = IF reg[p].online /\ reg[p].last_seen + PeerTtl < now
                                     THEN Unregistered ELSE reg[p]
  BY <1>1 DEF ExpirePeers
<1>3. Unregistered \in RegistryEntries /\ ~Unregistered.online
  BY DEF RegistryEntries, Unregistered
<1>4. registry' \in [Peers -> RegistryEntries]
  BY <1>1, <1>3 DEF ExpirePeers
<1>5. ASSUME NEW p \in Peers, registry'[p].online
      PROVE  registry'[p] = reg[p] /\ reg[p].online /\ ~(reg[p].last_seen + PeerTtl < now)
  BY <1>2, <1>3, <1>5, Zenon
<1>6. ASSUME NEW p \in Peers, registry'[p].online
      PROVE  now <= reg[p].last_seen + PeerTtl
  <2>1. reg[p].last_seen \in Nat
    BY <1>5, <1>6, EntryShape
  <2> QED
    BY <1>5, <1>6, <2>1
<1> QED
  BY <1>4, <1>5, <1>6

LEMMA FinishPending ==
    ASSUME NEW reg, NEW pend \in [Peers -> PendingEntries], Finish(reg, pend)
    PROVE  /\ pending' \in [Peers -> PendingEntries]
           /\ \A p \in Peers : pending'[p].active => pending'[p] = pend[p] /\ pend[p].active
<1>1. pending' = ExpireChallenges(pend, now)
  BY DEF Finish
<1>2. \A p \in Peers : pending'[p] = IF pend[p].active /\ pend[p].expiry < now
                                    THEN NoPending ELSE pend[p]
  BY <1>1 DEF ExpireChallenges
<1>3. NoPending \in PendingEntries /\ ~NoPending.active
  BY DEF PendingEntries, NoPending
<1>4. pending' \in [Peers -> PendingEntries]
  BY <1>1, <1>3 DEF ExpireChallenges
<1> QED
  BY <1>2, <1>3, <1>4, Zenon

\* The parts of the invariant that every round keeps, given what its handler
\* left in the registry: old entries, or an entry made now for a peer heard of
\* now.
LEMMA FinishKeepsEntries ==
    ASSUME IInv, NEW reg \in [Peers -> RegistryEntries], NEW pend, Finish(reg, pend),
           heard' \in [Peers -> Nat],
           \A p \in Peers : reg[p].online => reg[p].last_seen <= heard'[p]
    PROVE  SampleIsRecent' /\ EntriesSurvived'
<1>1. now \in Nat /\ clock \in Nat
  BY DEF IInv, TypeOK
<1>2. SampleIsRecent'
  BY DEF IInv, SampleIsRecent, Finish
<1>3. polling' = FALSE /\ now' = now
  BY DEF Finish
<1>4. ASSUME NEW p \in Peers, registry'[p].online
      PROVE  /\ registry'[p].last_seen <= heard'[p]
             /\ now' <= registry'[p].last_seen + PeerTtl + 0
  <2>1. registry'[p] = reg[p] /\ reg[p].online /\ now <= reg[p].last_seen + PeerTtl
    BY <1>1, <1>4, FinishRegistry, Zenon
  <2>2. reg[p].last_seen \in Nat
    BY <2>1, EntryShape
  <2> QED
    BY <1>3, <2>1, <2>2
<1>5. EntriesSurvived'
  BY <1>3, <1>4 DEF EntriesSurvived, Online
<1> QED
  BY <1>2, <1>5

\* A round that issues no challenge and completes no registration.
LEMMA RoundKeepsIInv ==
    ASSUME IInv,
           NEW reg \in [Peers -> RegistryEntries], NEW pend \in [Peers -> PendingEntries],
           Finish(reg, pend), issued' = issued, proofs' = proofs, heard' \in [Peers -> Nat],
           \A p \in Peers : reg[p].online => registry[p].online /\ reg[p].last_seen <= heard'[p],
           \A p \in Peers : pend[p].active => pend[p] = pending[p]
    PROVE  IInv'
<1>1. SampleIsRecent' /\ EntriesSurvived'
  BY FinishKeepsEntries
<1>2. now \in Nat
  BY DEF IInv, TypeOK
<1>3. TypeOK'
  BY <1>2, FinishRegistry, FinishPending DEF IInv, TypeOK, Finish
<1>4. ProofIsSound' /\ ChallengeUsedOnce'
  BY DEF IInv, ProofIsSound, ChallengeUsedOnce
<1>5. PendingIsUnused'
  <2>1. \A p \in Peers : pending'[p].active => pending'[p] = pending[p] /\ pending[p].active
    BY FinishPending, Zenon
  <2>2. ASSUME NEW p \in Peers, pending'[p].active
        PROVE  LET c == pending'[p].challenge IN
               /\ c \in DOMAIN issued'
               /\ issued'[c].peer = p
               /\ issued'[c].endpoint = pending'[p].endpoint
               /\ pending'[p].expiry <= issued'[c].at + ChallengeTtl
               /\ \A i \in DOMAIN proofs' : proofs'[i].challenge # c
    <3>1. pending'[p] = pending[p] /\ pending[p].active
      BY <2>1, <2>2
    <3>2. PendingIsUnused
      BY DEF IInv
    <3> QED
      BY <3>1, <3>2 DEF PendingIsUnused
  <2> QED
    BY <2>2 DEF PendingIsUnused
<1>6. OnlineIsProven'
  <2>1. \A p \in Peers : registry'[p].online => registry[p].online
    BY <1>2, FinishRegistry, Zenon
  <2> QED
    BY <2>1, Zenon DEF IInv, OnlineIsProven, Online
<1> QED
  BY <1>1, <1>3, <1>4, <1>5, <1>6 DEF IInv

-----------------------------------------------------------------------------
(* One lemma per handler *)

LEMMA EmptyEntries ==
    /\ Unregistered \in RegistryEntries /\ ~Unregistered.online
    /\ NoPending \in PendingEntries /\ ~NoPending.active
BY DEF RegistryEntries, PendingEntries, Unregistered, NoPending

LEMMA EntryFacts ==
    ASSUME NEW addr \in Addresses, NEW t \in Nat
    PROVE  /\ Entry(addr, t) \in RegistryEntries
           /\ Entry(addr, t).online = TRUE
           /\ Entry(addr, t).last_seen = t
           /\ Entry(addr, t).endpoint = addr
BY DEF Entry, RegistryEntries

\* The registry as it is.
LEMMA OldEntries ==
    ASSUME IInv
    PROVE  /\ registry \in [Peers -> RegistryEntries]
           /\ pending \in [Peers -> PendingEntries]
           /\ heard \in [Peers -> Nat]
           /\ \A p \in Peers : registry[p].online => registry[p].last_seen <= heard[p]
BY DEF IInv, TypeOK, EntriesSurvived, Online

\* The rounds that change neither table before expiry.
LEMMA QuietRound ==
    ASSUME IInv, Finish(registry, pending), UNCHANGED <<issued, proofs, heard>>
    PROVE  IInv'
<1>1. heard' = heard /\ issued' = issued /\ proofs' = proofs
  OBVIOUS
<1> QED
  BY <1>1, OldEntries, RoundKeepsIInv

LEMMA DisconnectKeepsIInv ==
    ASSUME IInv, NEW p \in Peers, HandleDisconnect(p)
    PROVE  IInv'
<1> DEFINE reg == [registry EXCEPT ![p] = Unregistered]
<1>1. reg \in [Peers -> RegistryEntries]
  BY OldEntries, EmptyEntries
<1>2. \A r \in Peers : reg[r] = IF r = p THEN Unregistered ELSE registry[r]
  BY OldEntries
<1>3. Finish(reg, pending) /\ issued' = issued /\ proofs' = proofs /\ heard' = heard
  BY DEF HandleDisconnect
<1>4. \A r \in Peers : reg[r].online => registry[r].online /\ reg[r].last_seen <= heard'[r]
  BY <1>2, <1>3, OldEntries, EmptyEntries, Zenon
<1> HIDE DEF reg
<1> QED
  BY <1>1, <1>3, <1>4, OldEntries, RoundKeepsIInv

LEMMA HeartbeatKeepsIInv ==
    ASSUME IInv, NEW p \in Peers, NEW from \in Addresses, HandleHeartbeat(p, from)
    PROVE  IInv'
<1> DEFINE reg == [registry EXCEPT ![p] = HeartbeatEntry(p, from)]
<1>1. /\ now \in Nat /\ clock \in Nat /\ now <= clock
      /\ heard \in [Peers -> Nat]
  BY DEF IInv, TypeOK, SampleIsRecent
<1>2. Finish(reg, pending) /\ issued' = issued /\ proofs' = proofs
      /\ heard' = [heard EXCEPT ![p] = IF Online(p) THEN clock ELSE @]
  BY DEF HandleHeartbeat
<1>3. CASE registry[p].online
  <2>1. /\ reg \in [Peers -> RegistryEntries]
        /\ \A r \in Peers : reg[r] = IF r = p THEN Entry(from, now) ELSE registry[r]
    BY <1>1, <1>3, OldEntries, EntryFacts DEF HeartbeatEntry, Online
  <2> HIDE DEF reg
  <2>2. /\ heard' \in [Peers -> Nat]
        /\ \A r \in Peers : heard'[r] = IF r = p THEN clock ELSE heard[r]
    BY <1>1, <1>2, <1>3 DEF Online
  <2>3. ASSUME NEW r \in Peers, reg[r].online
        PROVE  registry[r].online /\ reg[r].last_seen <= heard'[r]
    <3>1. CASE r = p
      <4>1. registry[r].online
        BY <1>3, <3>1, Zenon
      <4>2. reg[r].last_seen = now /\ heard'[r] = clock
        BY <1>1, <2>1, <2>2, <3>1 DEF Entry
      <4> QED
        BY <1>1, <4>1, <4>2
    <3>2. CASE r # p
      BY <2>1, <2>2, <2>3, <3>2, OldEntries
    <3> QED
      BY <3>1, <3>2
  <2> QED
    BY <1>2, <2>1, <2>2, <2>3, OldEntries, RoundKeepsIInv
<1>4. CASE ~registry[p].online
  <2>1. reg = registry
    BY <1>4, OldEntries DEF HeartbeatEntry, Online
  <2>2. heard' = heard
    BY <1>1, <1>2, <1>4 DEF Online
  <2> QED
    BY <1>2, <2>1, <2>2, QuietRound
<1> QED
  BY <1>3, <1>4

\* Step 1 of the handshake: the new challenge has registered nobody.
LEMMA RegisterKeepsIInv ==
    ASSUME IInv, NEW p \in Peers, NEW from \in Addresses, HandleRegister(p, from)
    PROVE  IInv'
<1> DEFINE c == Len(issued) + 1
           entry == Challenged(c, from, now + ChallengeTtl)
           pend == [pending EXCEPT ![p] = entry]
           record == [peer |-> p, endpoint |-> from, at |-> clock]
           Records == [peer : Peers, endpoint : Addresses, at : Nat]
<1>1. /\ now \in Nat /\ clock \in Nat /\ now <= clock
      /\ issued \in Seq(Records) /\ record \in Records
  BY DEF IInv, TypeOK, SampleIsRecent
<1>2. /\ Finish(registry, pend) /\ issued' = Append(issued, record)
      /\ proofs' = proofs /\ heard' = heard
  BY DEF HandleRegister
<1>3. /\ issued' \in Seq(Records) /\ Len(issued) \in Nat
      /\ DOMAIN issued = 1 .. Len(issued) /\ DOMAIN issued' = 1 .. c
      /\ \A i \in DOMAIN issued : issued'[i] = issued[i]
      /\ issued'[c] = record
  <2> HIDE DEF Records, record
  <2> QED
    BY <1>1, <1>2, AppendFacts, SeqDomain
<1>4. /\ entry \in PendingEntries /\ entry.challenge = c /\ entry.endpoint = from
      /\ entry.expiry = now + ChallengeTtl
  BY <1>1, <1>3 DEF Challenged, PendingEntries
<1>5. /\ pend \in [Peers -> PendingEntries]
      /\ \A r \in Peers : pend[r] = IF r = p THEN entry ELSE pending[r]
  <2> HIDE DEF entry
  <2> QED
    BY <1>4, OldEntries
<1>6. record.peer = p /\ record.endpoint = from /\ record.at = clock
  OBVIOUS
<1> HIDE DEF c, entry, pend, record
<1>7. SampleIsRecent' /\ EntriesSurvived'
  BY <1>2, OldEntries, FinishKeepsEntries
<1>8. TypeOK'
  BY <1>1, <1>2, <1>3, <1>5, OldEntries, FinishRegistry, FinishPending
     DEF IInv, TypeOK, Finish
<1>9. ChallengeUsedOnce'
  BY <1>2 DEF IInv, ChallengeUsedOnce
<1>10. ProofIsSound'
  <2>1. \A i \in DOMAIN proofs : proofs[i].challenge \in DOMAIN issued
    BY DEF IInv, ProofIsSound
  <2>2. DOMAIN issued \subseteq DOMAIN issued'
    BY <1>3 DEF c
  <2> QED
    BY <1>2, <1>3, <2>1, <2>2 DEF IInv, ProofIsSound
<1>11. PendingIsUnused'
  <2>1. ASSUME NEW r \in Peers, pending'[r].active
        PROVE  LET d == pending'[r].challenge IN
               /\ d \in DOMAIN issued'
               /\ issued'[d].peer = r
               /\ issued'[d].endpoint = pending'[r].endpoint
               /\ pending'[r].expiry <= issued'[d].at + ChallengeTtl
               /\ \A i \in DOMAIN proofs' : proofs'[i].challenge # d
    <3>1. pending'[r] = pend[r] /\ pend[r].active
      BY <1>2, <1>5, <2>1, FinishPending
    <3>2. CASE r = p
      <4>1. pending'[r] = entry
        BY <1>5, <3>1, <3>2
      <4>2. \A i \in DOMAIN proofs : proofs[i].challenge \in 1 .. Len(issued)
        BY <1>3 DEF IInv, ProofIsSound
      <4>3. c \in DOMAIN issued' /\ \A i \in DOMAIN proofs' : proofs'[i].challenge # c
        BY <1>2, <1>3, <4>2 DEF c
      <4> QED
        BY <1>1, <1>3, <1>4, <1>6, <3>2, <4>1, <4>3
    <3>3. CASE r # p
      <4>1. pending'[r] = pending[r] /\ pending[r].active
        BY <1>5, <3>1, <3>3
      <4>2. PendingIsUnused
        BY DEF IInv
      <4>3. DOMAIN issued \subseteq DOMAIN issued'
        BY <1>3 DEF c
      <4> QED
        BY <1>2, <1>3, <4>1, <4>2, <4>3 DEF PendingIsUnused
    <3> QED
      BY <3>2, <3>3
  <2> QED
    BY <2>1 DEF PendingIsUnused
<1>12. OnlineIsProven'
  <2>1. \A r \in Peers : registry'[r].online => registry[r].online
    BY <1>1, <1>2, OldEntries, FinishRegistry, Zenon
  <2> QED
    BY <1>2, <2>1, Zenon DEF IInv, OnlineIsProven, Online
<1> QED
  BY <1>7, <1>8, <1>9, <1>10, <1>11, <1>12 DEF IInv

\* The challenge leaves the table whether or not the signature is good.
LEMMA SpendFacts ==
    ASSUME IInv, NEW p \in Peers
    PROVE  /\ SpendChallenge(p) \in [Peers -> PendingEntries]
           /\ \A r \in Peers : SpendChallenge(p)[r].active =>
                 r # p /\ SpendChallenge(p)[r] = pending[r]
<1>1. \A r \in Peers : SpendChallenge(p)[r] = IF r = p THEN NoPending ELSE pending[r]
  BY OldEntries DEF SpendChallenge
<1>2. SpendChallenge(p) \in [Peers -> PendingEntries]
  BY OldEntries, EmptyEntries DEF SpendChallenge
<1> QED
  BY <1>1, <1>2, EmptyEntries, Zenon

\* Step 2 with a good signature: the challenge was issued to this peer at this
\* address, in time, and counts now for the first time.
LEMMA ProofKeepsIInv ==
    ASSUME IInv, NEW p \in Peers, NEW from \in Addresses, NEW c,
           Answerable(p, from), verify_detached(p, c),
           Finish([registry EXCEPT ![p] = Entry(from, now)], SpendChallenge(p)),
           proofs' = Append(proofs,
                         [peer |-> p, challenge |-> c, endpoint |-> from, at |-> clock]),
           heard' = [heard EXCEPT ![p] = clock],
           issued' = issued
    PROVE  IInv'
<1> DEFINE reg == [registry EXCEPT ![p] = Entry(from, now)]
           pend == SpendChallenge(p)
           record == [peer |-> p, challenge |-> c, endpoint |-> from, at |-> clock]
           Records == [peer : Peers, challenge : Nat, endpoint : Addresses, at : Nat]
<1>1. /\ now \in Nat /\ clock \in Nat /\ now <= clock /\ clock <= now + PollWindow
      /\ proofs \in Seq(Records)
      /\ issued \in Seq([peer : Peers, endpoint : Addresses, at : Nat])
  BY DEF IInv, TypeOK, SampleIsRecent
<1>2. /\ pending[p].active /\ pending[p].challenge = c /\ pending[p].endpoint = from
      /\ now <= pending[p].expiry /\ c \in Nat /\ pending[p].expiry \in Nat
  <2>1. pending[p].active /\ pending[p] \in PendingEntries
    BY OldEntries DEF Answerable
  <2>2. pending[p].challenge \in Nat /\ pending[p].expiry \in Nat
    BY <2>1, ChallengeShape
  <2> QED
    BY <1>1, <2>1, <2>2 DEF Answerable, verify_detached
<1>3. /\ c \in DOMAIN issued /\ issued[c].peer = p /\ issued[c].endpoint = from
      /\ pending[p].expiry <= issued[c].at + ChallengeTtl
      /\ \A i \in DOMAIN proofs : proofs[i].challenge # c
  <2>1. PendingIsUnused
    BY DEF IInv
  <2> QED
    BY <1>2, <2>1 DEF PendingIsUnused
<1>4. issued[c].at \in Nat
  <2> DEFINE Issued == [peer : Peers, endpoint : Addresses, at : Nat]
  <2>1. issued[c] \in Issued
    <3> HIDE DEF Issued
    <3>1. issued \in Seq(Issued)
      BY <1>1 DEF Issued
    <3> QED
      BY <1>3, <3>1
  <2> QED
    BY <2>1
<1>5. /\ record \in Records /\ record.peer = p /\ record.challenge = c
      /\ record.endpoint = from /\ record.at = clock
  BY <1>1, <1>2
<1>6. /\ reg \in [Peers -> RegistryEntries]
      /\ \A r \in Peers : reg[r] = IF r = p THEN Entry(from, now) ELSE registry[r]
  BY <1>1, OldEntries, EntryFacts
<1>7. /\ heard' \in [Peers -> Nat]
      /\ \A r \in Peers : heard'[r] = IF r = p THEN clock ELSE heard[r]
  BY <1>1, OldEntries
<1>8. /\ pend \in [Peers -> PendingEntries]
      /\ \A r \in Peers : pend[r].active => r # p /\ pend[r] = pending[r]
  BY SpendFacts
<1>9. Finish(reg, pend) /\ proofs' = Append(proofs, record)
  OBVIOUS
<1> HIDE DEF reg, pend, record, Records
<1>10. /\ proofs' \in Seq(Records) /\ Len(proofs) \in Nat
       /\ DOMAIN proofs = 1 .. Len(proofs) /\ DOMAIN proofs' = 1 .. (Len(proofs) + 1)
       /\ \A i \in DOMAIN proofs : proofs'[i] = proofs[i]
       /\ proofs'[Len(proofs) + 1] = record
  BY <1>1, <1>5, <1>9, AppendFacts, SeqDomain
<1>11. \A i \in DOMAIN proofs' : i \in DOMAIN proofs \/ proofs'[i] = record
  BY <1>10
<1>12. SampleIsRecent' /\ EntriesSurvived'
  <2>1. ASSUME NEW r \in Peers, reg[r].online
        PROVE  reg[r].last_seen <= heard'[r]
    <3>1. CASE r = p
      BY <1>1, <1>6, <1>7, <3>1 DEF Entry
    <3>2. CASE r # p
      BY <1>6, <1>7, <2>1, <3>2, OldEntries
    <3> QED
      BY <3>1, <3>2
  <2> QED
    BY <1>6, <1>7, <1>9, <2>1, FinishKeepsEntries
<1>13. TypeOK'
  BY <1>1, <1>6, <1>7, <1>8, <1>9, <1>10, FinishRegistry, FinishPending
     DEF IInv, TypeOK, Finish, Records
<1>14. ChallengeUsedOnce'
  <2>1. ChallengeUsedOnce
    BY DEF IInv
  <2> QED
    BY <1>3, <1>5, <1>10, <2>1 DEF ChallengeUsedOnce
<1>15. ProofIsSound'
  <2>1. clock <= issued[c].at + ChallengeTtl + PollWindow
    <3> DEFINE expiry == pending[p].expiry
               at == issued[c].at
    <3>1. /\ now \in Nat /\ clock \in Nat /\ clock <= now + PollWindow
      BY <1>1
    <3>2. expiry \in Nat /\ now <= expiry
      BY <1>2
    <3>3. at \in Nat /\ expiry <= at + ChallengeTtl
      BY <1>3, <1>4
    <3> HIDE DEF expiry, at
    <3>4. clock <= at + ChallengeTtl + PollWindow
      BY <3>1, <3>2, <3>3
    <3> QED
      BY <3>4 DEF at
  <2>2. ProofIsSound
    BY DEF IInv
  <2> QED
    BY <1>3, <1>5, <1>10, <1>11, <2>1, <2>2 DEF ProofIsSound
<1>16. PendingIsUnused'
  <2>1. ASSUME NEW r \in Peers, pending'[r].active
        PROVE  LET d == pending'[r].challenge IN
               /\ d \in DOMAIN issued'
               /\ issued'[d].peer = r
               /\ issued'[d].endpoint = pending'[r].endpoint
               /\ pending'[r].expiry <= issued'[d].at + ChallengeTtl
               /\ \A i \in DOMAIN proofs' : proofs'[i].challenge # d
    <3>1. pending'[r] = pend[r] /\ pend[r].active
      BY <1>8, <1>9, <2>1, FinishPending
    <3>2. r # p /\ pending'[r] = pending[r] /\ pending[r].active
      BY <1>8, <3>1
    <3>3. /\ pending[r].challenge \in DOMAIN issued
          /\ issued[pending[r].challenge].peer = r
          /\ issued[pending[r].challenge].endpoint = pending[r].endpoint
          /\ pending[r].expiry <= issued[pending[r].challenge].at + ChallengeTtl
          /\ \A i \in DOMAIN proofs : proofs[i].challenge # pending[r].challenge
      BY <3>2 DEF IInv, PendingIsUnused
    <3>4. pending[r].challenge # c
      BY <1>3, <3>2, <3>3
    <3> QED
      BY <1>5, <1>10, <1>11, <3>2, <3>3, <3>4
  <2> QED
    BY <2>1 DEF PendingIsUnused
<1>17. OnlineIsProven'
  <2>1. ASSUME NEW r \in Peers, registry'[r].online
        PROVE  \E i \in DOMAIN proofs' : proofs'[i].peer = r
    <3>1. CASE r = p
      <4>1. Len(proofs) + 1 \in DOMAIN proofs'
        BY <1>10
      <4> QED
        BY <1>5, <1>10, <3>1, <4>1
    <3>2. CASE r # p
      <4>1. registry'[r] = reg[r] /\ reg[r].online
        BY <1>1, <1>6, <1>9, <2>1, FinishRegistry
      <4>2. registry[r].online
        BY <1>6, <3>2, <4>1
      <4>3. PICK i \in DOMAIN proofs : proofs[i].peer = r
        BY <4>2 DEF IInv, OnlineIsProven, Online
      <4> QED
        BY <1>10, <4>3
    <3> QED
      BY <3>1, <3>2
  <2> QED
    BY <2>1 DEF OnlineIsProven, Online
<1> QED
  BY <1>12, <1>13, <1>14, <1>15, <1>16, <1>17 DEF IInv

LEMMA SignedKeepsIInv ==
    ASSUME IInv, NEW p \in Peers, NEW from \in Addresses, NEW c, HandleSigned(p, from, c)
    PROVE  IInv'
<1>1. CASE Finish(registry, pending) /\ UNCHANGED <<issued, proofs, heard>>
  BY <1>1, QuietRound
<1>2. CASE Finish(registry, SpendChallenge(p)) /\ UNCHANGED <<issued, proofs, heard>>
  <2>1. heard' = heard /\ issued' = issued /\ proofs' = proofs
    BY <1>2
  <2>2. \A r \in Peers : SpendChallenge(p)[r].active => SpendChallenge(p)[r] = pending[r]
    BY SpendFacts
  <2> QED
    BY <1>2, <2>1, <2>2, OldEntries, SpendFacts, RoundKeepsIInv
<1>3. CASE /\ Answerable(p, from) /\ verify_detached(p, c)
           /\ Finish([registry EXCEPT ![p] = Entry(from, now)], SpendChallenge(p))
           /\ proofs' = Append(proofs,
                 [peer |-> p, challenge |-> c, endpoint |-> from, at |-> clock])
           /\ heard' = [heard EXCEPT ![p] = clock]
           /\ issued' = issued
  BY <1>3, ProofKeepsIInv
<1> QED
  BY <1>1, <1>2, <1>3 DEF HandleSigned

-----------------------------------------------------------------------------
(* The loop *)

LEMMA SampleKeepsIInv ==
    ASSUME IInv, Sample
    PROVE  IInv'
<1>1. /\ now \in Nat /\ clock \in Nat /\ now <= clock /\ clock <= now + PollWindow
      /\ polling = FALSE
  BY DEF IInv, TypeOK, SampleIsRecent, Sample
<1>2. /\ now' = clock /\ clock' = clock /\ polling' = TRUE /\ restarts' = restarts
      /\ registry' = registry /\ pending' = pending /\ heard' = heard
      /\ issued' = issued /\ proofs' = proofs
  BY DEF Sample
<1>3. ASSUME NEW p \in Peers, registry'[p].online
      PROVE  /\ registry'[p].last_seen <= heard'[p]
             /\ now' <= registry'[p].last_seen + PeerTtl + PollWindow
  <2>1. /\ registry[p].last_seen <= heard[p]
        /\ now <= registry[p].last_seen + PeerTtl + 0
    BY <1>1, <1>2, <1>3 DEF IInv, EntriesSurvived, Online
  <2>2. registry[p].last_seen \in Nat
    BY <1>2, <1>3, OldEntries, EntryShape
  <2> QED
    BY <1>1, <1>2, <2>1, <2>2
<1>4. EntriesSurvived' /\ SampleIsRecent'
  BY <1>1, <1>2, <1>3 DEF EntriesSurvived, Online, SampleIsRecent
<1>5. TypeOK' /\ PendingIsUnused' /\ ProofIsSound' /\ ChallengeUsedOnce' /\ OnlineIsProven'
  BY <1>1, <1>2 DEF IInv, TypeOK, PendingIsUnused, ProofIsSound, ChallengeUsedOnce,
                    OnlineIsProven, Online
<1> QED
  BY <1>4, <1>5 DEF IInv

LEMMA TickKeepsIInv ==
    ASSUME IInv, Tick
    PROVE  IInv'
<1>1. now \in Nat /\ clock \in Nat /\ now <= clock
  BY DEF IInv, TypeOK, SampleIsRecent
<1>2. /\ clock < now + PollWindow /\ clock' = clock + 1
      /\ UNCHANGED <<registry, pending, now, polling, issued, proofs, heard, restarts>>
  BY DEF Tick
<1>3. SampleIsRecent' /\ TypeOK'
  BY <1>1, <1>2 DEF IInv, SampleIsRecent, TypeOK
<1>4. EntriesSurvived' /\ PendingIsUnused' /\ ProofIsSound' /\ ChallengeUsedOnce'
      /\ OnlineIsProven'
  BY <1>2 DEF IInv, EntriesSurvived, PendingIsUnused, ProofIsSound, ChallengeUsedOnce,
              OnlineIsProven, Online
<1> QED
  BY <1>3, <1>4 DEF IInv

LEMMA RestartKeepsIInv ==
    ASSUME IInv, ServerRestart
    PROVE  IInv'
<1>1. /\ registry' = [p \in Peers |-> Unregistered] /\ pending' = [p \in Peers |-> NoPending]
      /\ polling' = FALSE /\ restarts' = restarts + 1
      /\ UNCHANGED <<now, clock, issued, proofs, heard>>
  BY DEF ServerRestart
<1>2. \A p \in Peers : ~registry'[p].online /\ ~pending'[p].active
  BY <1>1, EmptyEntries
<1>3. registry' \in [Peers -> RegistryEntries] /\ pending' \in [Peers -> PendingEntries]
  BY <1>1, EmptyEntries
<1>4. EntriesSurvived' /\ PendingIsUnused' /\ OnlineIsProven'
  BY <1>2 DEF EntriesSurvived, PendingIsUnused, OnlineIsProven, Online
<1>5. restarts' \in Nat /\ polling' \in BOOLEAN
  <2>1. restarts \in Nat
    BY DEF IInv, TypeOK
  <2>2. polling' \in BOOLEAN
    BY <1>1, Zenon
  <2> QED
    BY <1>1, <2>1, <2>2
<1>6. TypeOK'
  BY <1>1, <1>3, <1>5 DEF IInv, TypeOK
<1>7. SampleIsRecent' /\ ProofIsSound' /\ ChallengeUsedOnce'
  BY <1>1 DEF IInv, SampleIsRecent, ProofIsSound, ChallengeUsedOnce
<1> QED
  BY <1>4, <1>6, <1>7 DEF IInv

LEMMA InitIInv == Init => IInv
<1> SUFFICES ASSUME Init PROVE IInv
  OBVIOUS
<1>1. \A p \in Peers : ~registry[p].online /\ ~pending[p].active
  BY EmptyEntries DEF Init
<1>2. EntriesSurvived /\ PendingIsUnused /\ OnlineIsProven
  BY <1>1 DEF EntriesSurvived, PendingIsUnused, OnlineIsProven, Online
<1>3. issued = <<>> /\ proofs = <<>> /\ now = 0 /\ clock = 0
  BY DEF Init
<1>4. SampleIsRecent /\ ProofIsSound /\ ChallengeUsedOnce
  BY <1>3 DEF SampleIsRecent, ProofIsSound, ChallengeUsedOnce
<1>5. TypeOK
  <2>1. registry \in [Peers -> RegistryEntries] /\ pending \in [Peers -> PendingEntries]
    BY EmptyEntries DEF Init
  <2>2. /\ issued \in Seq([peer : Peers, endpoint : Addresses, at : Nat])
        /\ proofs \in Seq([peer : Peers, challenge : Nat, endpoint : Addresses, at : Nat])
    BY <1>3
  <2>3. polling \in BOOLEAN /\ restarts \in Nat /\ heard \in [Peers -> Nat]
    BY DEF Init
  <2> QED
    BY <1>3, <2>1, <2>2, <2>3 DEF TypeOK
<1> QED
  BY <1>2, <1>4, <1>5 DEF IInv

LEMMA NextKeepsIInv == IInv /\ [Next]_vars => IInv'
<1> SUFFICES ASSUME IInv, [Next]_vars PROVE IInv'
  OBVIOUS
<1>1. ASSUME NEW p \in Peers, NEW from \in Addresses, HandleRegister(p, from)
      PROVE  IInv'
  BY <1>1, RegisterKeepsIInv
<1>2. ASSUME NEW p \in Peers, NEW from \in Addresses, NEW c \in Signable(p),
             HandleSigned(p, from, c)
      PROVE  IInv'
  BY <1>2, SignedKeepsIInv
<1>3. ASSUME NEW p \in Peers, NEW from \in Addresses, HandleDiscover(p, from)
      PROVE  IInv'
  BY <1>3, QuietRound DEF HandleDiscover
<1>4. ASSUME NEW p \in Peers, NEW from \in Addresses, NEW q \in Peers, HandleConnect(p, q, from)
      PROVE  IInv'
  BY <1>4, QuietRound DEF HandleConnect
<1>5. ASSUME NEW p \in Peers, NEW from \in Addresses, HandleHeartbeat(p, from)
      PROVE  IInv'
  BY <1>5, HeartbeatKeepsIInv
<1>6. ASSUME NEW p \in Peers, HandleDisconnect(p)
      PROVE  IInv'
  BY <1>6, DisconnectKeepsIInv
<1>7. CASE Idle
  BY <1>7, QuietRound DEF Idle
<1>8. CASE Sample
  BY <1>8, SampleKeepsIInv
<1>9. CASE Tick
  BY <1>9, TickKeepsIInv
<1>10. CASE ServerRestart
  BY <1>10, RestartKeepsIInv
<1>11. CASE UNCHANGED vars
  BY <1>11 DEF vars, IInv, TypeOK, SampleIsRecent, EntriesSurvived, PendingIsUnused,
               ProofIsSound, ChallengeUsedOnce, OnlineIsProven, Online
<1> QED
  BY <1>1, <1>2, <1>3, <1>4, <1>5, <1>6, <1>7, <1>8, <1>9, <1>10, <1>11 DEF Next

-----------------------------------------------------------------------------
\* The inductive invariant: tables, sample and history agree.
THEOREM Invariance == Spec => []IInv
BY InitIInv, NextKeepsIInv, PTL DEF Spec

\* A completed registration answers a challenge issued to that peer at that
\* address within the challenge's lifetime and a poll window (handle_register).
THEOREM Soundness == Spec => []ProofIsSound
<1>1. IInv => ProofIsSound
  BY DEF IInv
<1> QED
  BY <1>1, Invariance, PTL

\* No challenge registers anybody twice (handle_register).
THEOREM SingleUse == Spec => []ChallengeUsedOnce
<1>1. IInv => ChallengeUsedOnce
  BY DEF IInv
<1> QED
  BY <1>1, Invariance, PTL

\* Only peers that completed the handshake are registered (handle_heartbeat
\* refreshes, and never adds, an entry).
THEOREM Provenance == Spec => []OnlineIsProven
<1>1. IInv => OnlineIsProven
  BY DEF IInv
<1> QED
  BY <1>1, Invariance, PTL

\* A registered peer was heard of no longer ago than its time to live and two
\* poll windows (run, run_once, expire).
THEOREM Freshness == Spec => []EntryIsFresh
<1>1. IInv => EntryIsFresh
  <2> SUFFICES ASSUME IInv, NEW p \in Peers, Online(p)
               PROVE  clock <= heard[p] + PeerTtl + 2 * PollWindow
    BY DEF EntryIsFresh
  <2>1. /\ registry[p].last_seen <= heard[p]
        /\ now <= registry[p].last_seen + PeerTtl + (IF polling THEN PollWindow ELSE 0)
    BY DEF IInv, EntriesSurvived
  <2>2. (IF polling THEN PollWindow ELSE 0) \in 0 .. PollWindow
    OBVIOUS
  <2>3. registry[p].last_seen \in Nat /\ heard[p] \in Nat
    BY OldEntries, EntryShape DEF Online
  <2>4. clock \in Nat /\ now \in Nat /\ clock <= now + PollWindow
    BY DEF IInv, TypeOK, SampleIsRecent
  <2> QED
    BY <2>1, <2>2, <2>3, <2>4
<1> QED
  BY <1>1, Invariance, PTL

-----------------------------------------------------------------------------
(* Bags of datagrams *)

LEMMA Put ==
    ASSUME NEW b, NEW d
    PROVE  /\ BagToSet(With(b, d)) = BagToSet(b) \cup {d}
           /\ \A e \in BagToSet(b) \ {d} : b[e] = 1 => With(b, d)[e] = 1
           /\ d \notin BagToSet(b) => With(b, d)[d] = 1
BY DEF With, (+), SetToBag, BagToSet

LEMMA Taken ==
    ASSUME NEW b, NEW d
    PROVE  /\ BagToSet(Without(b, d)) \subseteq BagToSet(b)
           /\ \A e \in BagToSet(Without(b, d)) \ {d} : Without(b, d)[e] = b[e]
           /\ b[d] = 1 => d \notin BagToSet(Without(b, d))
BY DEF Without, (-), SetToBag, BagToSet

LEMMA Poured ==
    ASSUME NEW b, NEW c
    PROVE  /\ BagToSet(b (+) c) = BagToSet(b) \cup BagToSet(c)
           /\ \A e \in BagToSet(b) \ BagToSet(c) : b[e] = 1 => (b (+) c)[e] = 1
           /\ \A e \in BagToSet(c) \ BagToSet(b) : c[e] = 1 => (b (+) c)[e] = 1
BY DEF (+), BagToSet

\* What the server's step sends to self.
LEMMA RepliesAre ==
    ASSUME NEW to, NEW type, NEW body
    PROVE  /\ out' = <<>> => BagToSet(Replies) = {}
           /\ out' = Reply(to, type, body) /\ to # SelfAddress => BagToSet(Replies) = {}
           /\ out' = Reply(to, type, body) /\ to = SelfAddress =>
                 BagToSet(Replies) = {Datagram(type, body)}
           /\ \A e \in BagToSet(Replies) : Replies[e] = 1
<1> DEFINE S == {Datagram(out'[i].type, out'[i].body) :
                     i \in {j \in DOMAIN out' : out'[j].to = SelfAddress}}
<1>1. BagToSet(Replies) = S /\ \A e \in S : Replies[e] = 1
  BY DEF Replies, SetToBag, BagToSet
<1>2. out' = <<>> => S = {}
  OBVIOUS
<1>3. ASSUME out' = Reply(to, type, body)
      PROVE  /\ DOMAIN out' = {1} /\ out'[1].to = to /\ out'[1].type = type
             /\ out'[1].body = body
  BY <1>3 DEF Reply
<1>4. out' = Reply(to, type, body) /\ to # SelfAddress => S = {}
  BY <1>3
<1>5. out' = Reply(to, type, body) /\ to = SelfAddress => S = {Datagram(type, body)}
  BY <1>3
<1> HIDE DEF S
<1> QED BY <1>1, <1>2, <1>4, <1>5

-----------------------------------------------------------------------------
(* What a step leaves alone *)

LEMMA CallFacts ==
    ASSUME RendezvousInv, call # NoCall
    PROVE  /\ call \in Calls
           /\ call.op \in {"register", "discover", "heartbeat"}
           /\ call.challenge \in Signable(self)
           /\ call.op = "discover" => call.target \in Others /\ call.stage = "request"
           /\ Expected = "Connect" <=> call.op = "discover"
<1>1. call \in Calls
  BY DEF RendezvousInv
<1>2. /\ call.op \in {"register", "discover", "heartbeat"}
      /\ call.stage \in {"request", "answer"}
      /\ call.challenge \in Signable(self)
      /\ call.op = "discover" => call.target \in Others /\ call.stage = "request"
  BY <1>1 DEF Calls
<1>3. CASE call.stage = "answer"
  BY <1>1, <1>2, <1>3 DEF Expected
<1>4. CASE call.stage = "request" /\ call.op = "register"
  BY <1>1, <1>2, <1>4 DEF Expected
<1>5. CASE call.stage = "request" /\ call.op = "discover"
  BY <1>1, <1>2, <1>5 DEF Expected
<1>6. CASE call.stage = "request" /\ call.op = "heartbeat"
  BY <1>1, <1>2, <1>6 DEF Expected
<1> QED BY <1>2, <1>3, <1>4, <1>5, <1>6

LEMMA SameServer ==
    ASSUME UNCHANGED vars
    PROVE  /\ Asked' = Asked /\ Told' = Told /\ Calls' = Calls
           /\ Proven' <=> Proven
           /\ OthersElsewhere => OthersElsewhere'
<1>1. UNCHANGED <<registry, issued, proofs>>
  BY DEF vars
<1>2. Signable(self)' = Signable(self)
  BY <1>1 DEF Signable
<1>3. Proven' <=> Proven
  BY <1>1 DEF Proven
<1> QED BY <1>1, <1>2, <1>3 DEF Asked, Told, Calls, OthersElsewhere, Online

\* In quiet times only a lookup has anything under way.
LEMMA NoLookup ==
    ASSUME RendezvousInv, call.op # "discover" \/ ~call.sent, faults = 0, forwarded = 0
    PROVE  /\ \A d \in BagToSet(up) : d.type # "Discover"
           /\ \A d \in BagToSet(down) : d.type # "Connect"
BY DEF RendezvousInv, OneLookup, LookingFor

\* A step of the client or of the network: the server stands still.
LEMMA ClientStep ==
    ASSUME RendezvousInv, UNCHANGED vars, call' \in Calls \cup {NoCall},
           faults' \in Nat, forwarded' \in Nat,
           BagToSet(up') \subseteq Asked, BagToSet(down') \subseteq Told,
           PublicIsProven', OneLookup', FoundIsExplained'
    PROVE  RendezvousInv'
BY SameServer DEF RendezvousInv

LEMMA Wrong ==
    ASSUME RendezvousInv, GoesWrong
    PROVE  faults' \in Nat /\ OneLookup' /\ FoundIsExplained'
<1>1. faults' \in Nat /\ faults' > 0
  BY DEF GoesWrong, RendezvousInv
<1> QED BY <1>1 DEF OneLookup, FoundIsExplained

LEMMA SamePublic ==
    ASSUME RendezvousInv, UNCHANGED vars, UNCHANGED public_endpoint,
           UNCHANGED answer \/ ~(answer'.op = "register" /\ answer'.ok)
    PROVE  PublicIsProven'
BY SameServer DEF RendezvousInv, PublicIsProven

LEMMA SameFound ==
    ASSUME RendezvousInv, UNCHANGED <<faults, forwarded>>,
           UNCHANGED answer \/ ~(answer'.op = "discover" /\ answer'.ok)
    PROVE  FoundIsExplained'
BY DEF RendezvousInv, FoundIsExplained

\* Nothing is under way for a lookup, before and after.
LEMMA StillNoLookup ==
    ASSUME RendezvousInv, call.op # "discover" \/ ~call.sent, UNCHANGED <<faults, forwarded>>,
           \A d \in BagToSet(up') : d.type = "Discover" => d \in BagToSet(up),
           \A d \in BagToSet(down') : d.type = "Connect" => d \in BagToSet(down)
    PROVE  OneLookup'
BY NoLookup DEF OneLookup

-----------------------------------------------------------------------------
(* The client *)

LEMMA BeginKeeps ==
    ASSUME RendezvousInv, NEW op \in {"register", "discover", "heartbeat"}, NEW q \in Peers,
           op = "discover" => q \in Others, Begin(op, q)
    PROVE  RendezvousInv'
<1>1. /\ call = NoCall /\ answer' = NoCall
      /\ UNCHANGED vars /\ UNCHANGED <<public_endpoint, up, down, faults, forwarded>>
      /\ call' = [op |-> op, target |-> q, attempt |-> 1, stage |-> "request",
                  challenge |-> NoChallenge, sent |-> FALSE]
  BY DEF Begin
<1>2. call' \in Calls
  BY <1>1 DEF Calls, Signable
<1>3. call.op # "discover" /\ answer'.op = "none"
  BY <1>1 DEF NoCall
<1>4. OneLookup'
  BY <1>1, <1>3, StillNoLookup
<1>5. PublicIsProven' /\ FoundIsExplained'
  BY <1>1, <1>3, SamePublic, SameFound
<1> QED BY <1>1, <1>2, <1>4, <1>5, ClientStep DEF RendezvousInv

LEMMA RetryFacts ==
    ASSUME RendezvousInv, call # NoCall, Retry
    PROVE  /\ call' \in Calls \cup {NoCall}
           /\ UNCHANGED answer \/ ~answer'.ok
<1>1. call \in Calls
  BY CallFacts
<1>2. CASE /\ call' = [call EXCEPT !.attempt = @ + 1, !.stage = "request", !.sent = FALSE]
           /\ UNCHANGED answer
  <2> DEFINE R == [op : {"register", "discover", "heartbeat"}, target : Peers, attempt : Nat,
                   stage : {"request", "answer"}, challenge : Signable(self), sent : BOOLEAN]
  <2>1. call \in R /\ (call.op = "discover" => call.target \in Others)
    BY <1>1 DEF Calls
  <2>2. /\ call' \in R /\ call'.op = call.op /\ call'.target = call.target
        /\ call'.stage = "request"
    <3> DEFINE n == call.attempt + 1
    <3>1. n \in Nat
      BY <2>1
    <3>2. call' = [call EXCEPT !.attempt = n, !.stage = "request", !.sent = FALSE]
      BY <1>2
    <3> HIDE DEF n
    <3>3. call' = [op |-> call.op, target |-> call.target, attempt |-> n, stage |-> "request",
                   challenge |-> call.challenge, sent |-> FALSE]
      BY <2>1, <3>2
    <3> QED BY <2>1, <3>1, <3>3
  <2>3. call' \in Calls
    BY <2>1, <2>2 DEF Calls
  <2> QED BY <1>2, <2>3
<1>3. CASE call' = NoCall /\ answer' = [op |-> call.op, target |-> call.target, ok |-> FALSE]
  BY <1>3
<1> QED BY <1>2, <1>3 DEF Retry, Return

LEMMA RequestFacts ==
    ASSUME RendezvousInv, call # NoCall
    PROVE  /\ Request \in Asked
           /\ Request.type = "Discover" => call.op = "discover" /\ Request.body = call.target
           /\ call.op = "discover" => Request = Datagram("Discover", call.target)
<1>1. /\ call.op \in {"register", "discover", "heartbeat"}
      /\ call.challenge \in Signable(self)
      /\ call.op = "discover" => call.target \in Others /\ call.stage = "request"
  BY CallFacts
<1>2. CASE call.stage = "answer"
  BY <1>1, <1>2 DEF Request, Datagram, Asked
<1>3. CASE call.stage # "answer" /\ call.op = "register"
  BY <1>3 DEF Request, Datagram, Asked
<1>4. CASE call.stage # "answer" /\ call.op = "discover"
  BY <1>1, <1>4 DEF Request, Datagram, Asked
<1>5. CASE call.stage # "answer" /\ call.op = "heartbeat"
  BY <1>5 DEF Request, Datagram, Asked
<1> QED BY <1>1, <1>2, <1>3, <1>4, <1>5

LEMMA SendKeeps ==
    ASSUME RendezvousInv, Send
    PROVE  RendezvousInv'
<1>1. /\ call # NoCall /\ ~call.sent
      /\ UNCHANGED vars /\ UNCHANGED <<public_endpoint, down, forwarded>>
  BY DEF Send
<1>2. CASE /\ up' = With(up, Request) /\ call' = [call EXCEPT !.sent = TRUE]
           /\ UNCHANGED <<answer, faults>>
  <2>1. call' \in Calls /\ call'.op = call.op /\ call'.sent = TRUE /\ call'.target = call.target
    <3>1. call \in Calls
      BY <1>1, CallFacts
    <3> QED BY <1>2, <3>1 DEF Calls
  <2>2. BagToSet(up') = BagToSet(up) \cup {Request} /\ Request \in Asked
    BY <1>1, <1>2, Put, RequestFacts
  <2>3. OneLookup'
    <3> SUFFICES ASSUME faults = 0, forwarded = 0
                 PROVE  /\ \A d \in BagToSet(up') : d.type = "Discover" =>
                               LookingFor(d.body)' /\ up'[d] = 1
                        /\ \A d \in BagToSet(down') : d.type # "Connect"
      BY <1>1, <1>2 DEF OneLookup
    <3>1. /\ \A d \in BagToSet(up) : d.type # "Discover"
          /\ \A d \in BagToSet(down) : d.type # "Connect"
      BY <1>1, NoLookup
    <3>2. ASSUME NEW d \in BagToSet(up'), d.type = "Discover"
          PROVE  LookingFor(d.body)' /\ up'[d] = 1
      <4>1. d = Request /\ d \notin BagToSet(up)
        BY <2>2, <3>1, <3>2
      <4>2. up'[d] = 1
        BY <1>2, <4>1, Put
      <4>3. call.op = "discover" /\ d.body = call.target
        BY <1>1, <3>2, <4>1, RequestFacts
      <4> QED BY <2>1, <4>2, <4>3 DEF LookingFor
    <3> QED BY <1>1, <3>1, <3>2
  <2>4. PublicIsProven' /\ FoundIsExplained'
    BY <1>1, <1>2, SamePublic, SameFound
  <2> QED BY <1>1, <1>2, <2>1, <2>2, <2>3, <2>4, ClientStep DEF RendezvousInv
<1>3. CASE Retry /\ GoesWrong /\ UNCHANGED up
  <2>1. PublicIsProven'
    BY <1>1, <1>3, RetryFacts, SamePublic
  <2> QED BY <1>1, <1>3, <2>1, RetryFacts, Wrong, ClientStep DEF RendezvousInv
<1> QED BY <1>2, <1>3 DEF Send

\* What self is told, by kind.
LEMMA ToldFacts ==
    ASSUME NEW d \in Told
    PROVE  /\ d.type = "Hello" => d.body \in Signable(self)
           /\ d.type = "Ack" => Proven /\ d.body = SelfAddress
BY DEF Told

\* The awaited packet is taken by a call other than a lookup.
LEMMA ProceedOther ==
    ASSUME RendezvousInv, call # NoCall, UNCHANGED vars, UNCHANGED <<faults, forwarded>>,
           NEW d \in Told, d.type = Expected, Expected # "Connect", Proceed(d)
    PROVE  call' \in Calls \cup {NoCall} /\ PublicIsProven' /\ FoundIsExplained'
<1>1. CASE /\ Expected = "Hello"
           /\ call' = [call EXCEPT !.stage = "answer", !.challenge = d.body, !.sent = FALSE]
           /\ UNCHANGED <<answer, public_endpoint>>
  <2> DEFINE R == [op : {"register", "discover", "heartbeat"}, target : Peers, attempt : Nat,
                   stage : {"request", "answer"}, challenge : Signable(self), sent : BOOLEAN]
             c == d.body
  <2>1. call \in Calls /\ call.op # "discover"
    BY CallFacts
  <2>2. call \in R
    BY <2>1 DEF Calls
  <2>3. c \in Signable(self)
    BY <1>1, ToldFacts
  <2>4. call' = [call EXCEPT !.stage = "answer", !.challenge = c, !.sent = FALSE]
    BY <1>1
  <2> HIDE DEF c
  <2>5. call' = [op |-> call.op, target |-> call.target, attempt |-> call.attempt,
                 stage |-> "answer", challenge |-> c, sent |-> FALSE]
    BY <2>2, <2>4
  <2>6. call' \in R /\ call'.op = call.op
    BY <2>2, <2>3, <2>5
  <2>7. call' \in Calls
    BY <2>1, <2>6 DEF Calls
  <2> QED BY <1>1, <2>7, SamePublic, SameFound
<1>2. CASE /\ Expected = "Ack" /\ public_endpoint' = {d.body}
           /\ call' = NoCall /\ answer' = [op |-> "register", ok |-> TRUE]
  <2>1. Proven /\ d.body = SelfAddress
    BY <1>2, ToldFacts
  <2>2. PublicIsProven'
    BY <1>2, <2>1, SameServer DEF PublicIsProven, Empty
  <2>3. answer'.op = "register"
    BY <1>2
  <2> QED BY <1>2, <2>2, <2>3, SameFound
<1>3. CASE /\ Expected = "Heartbeat" /\ UNCHANGED public_endpoint
           /\ call' = NoCall /\ answer' = [op |-> "heartbeat", ok |-> TRUE]
  <2>1. answer'.op = "heartbeat"
    BY <1>3
  <2> QED BY <1>3, <2>1, SamePublic, SameFound
<1> QED BY <1>1, <1>2, <1>3 DEF Proceed, Return

LEMMA ReceiveKeeps ==
    ASSUME RendezvousInv, NEW d \in BagToSet(down), Receive(d)
    PROVE  RendezvousInv'
<1>1. /\ call # NoCall /\ call.sent
      /\ UNCHANGED vars /\ UNCHANGED <<up, faults, forwarded>>
      /\ down' = Without(down, d)
      /\ \/ d.type = Expected /\ Proceed(d)
         \/ d.type # Expected /\ UNCHANGED <<call, answer, public_endpoint>>
  BY DEF Receive, Waiting, IsExpected
<1>2. /\ BagToSet(down') \subseteq BagToSet(down)
      /\ \A e \in BagToSet(down') \ {d} : down'[e] = down[e]
      /\ down[d] = 1 => d \notin BagToSet(down')
  BY <1>1, Taken
<1>3. /\ BagToSet(up') \subseteq Asked /\ BagToSet(down') \subseteq Told /\ d \in Told
      /\ faults' \in Nat /\ forwarded' \in Nat
  BY <1>1, <1>2 DEF RendezvousInv
<1>4. Expected = "Connect" <=> call.op = "discover"
  BY <1>1, CallFacts
<1>5. CASE d.type = Expected /\ Proceed(d) /\ Expected # "Connect"
  <2>1. OneLookup'
    BY <1>1, <1>2, <1>4, <1>5, StillNoLookup
  <2> QED BY <1>1, <1>3, <1>5, <2>1, ProceedOther, ClientStep
<1>6. CASE d.type = Expected /\ Proceed(d) /\ Expected = "Connect"
  <2>1. /\ call' = NoCall /\ UNCHANGED public_endpoint
        /\ answer' = [op |-> "discover", target |-> call.target, ok |-> TRUE,
                      source |-> d.body.source, endpoint |-> d.body.endpoint]
    BY <1>6 DEF Proceed, Return
  <2>2. faults = 0 /\ forwarded = 0 =>
           /\ LookingFor(d.body.source) /\ down[d] = 1
           /\ \A e \in BagToSet(down) : e.type = "Connect" => e = d
           /\ \A e \in BagToSet(up) : e.type # "Discover"
    BY <1>6 DEF RendezvousInv, OneLookup
  <2>3. OneLookup'
    BY <1>1, <1>2, <2>2 DEF OneLookup
  <2>4. FoundIsExplained'
    <3>1. answer'.source = d.body.source /\ answer'.target = call.target
      BY <2>1
    <3>2. faults \in Nat /\ forwarded \in Nat
      BY DEF RendezvousInv
    <3> QED BY <1>1, <2>2, <3>1, <3>2 DEF FoundIsExplained, LookingFor
  <2>5. PublicIsProven'
    <3>1. answer'.op = "discover"
      BY <2>1
    <3> QED BY <1>1, <2>1, <3>1, SamePublic
  <2> QED BY <1>1, <1>3, <2>1, <2>3, <2>4, <2>5, ClientStep
<1>7. CASE d.type # Expected /\ UNCHANGED <<call, answer, public_endpoint>>
  <2>1. OneLookup'
    <3>1. CASE call.op # "discover"
      BY <1>1, <1>2, <3>1, StillNoLookup
    <3>2. CASE call.op = "discover"
      <4>1. d.type # "Connect"
        BY <1>4, <1>7, <3>2
      <4>2. \A q : LookingFor(q)' <=> LookingFor(q)
        BY <1>7 DEF LookingFor
      <4> QED BY <1>1, <1>2, <4>1, <4>2 DEF RendezvousInv, OneLookup
    <3> QED BY <3>1, <3>2
  <2>2. call' \in Calls \cup {NoCall}
    BY <1>7 DEF RendezvousInv
  <2> QED BY <1>1, <1>3, <1>7, <2>1, <2>2, SamePublic, SameFound, ClientStep
<1> QED BY <1>1, <1>5, <1>6, <1>7

LEMMA TimeOutKeeps ==
    ASSUME RendezvousInv, TimeOut
    PROVE  RendezvousInv'
<1>1. /\ call # NoCall /\ Retry
      /\ UNCHANGED vars /\ UNCHANGED <<public_endpoint, up, down, forwarded>>
  BY DEF TimeOut, Waiting
<1>2. PublicIsProven'
  BY <1>1, RetryFacts, SamePublic
<1>3. CASE up = EmptyBag /\ down = EmptyBag /\ UNCHANGED faults
  <2>1. BagToSet(up') = {} /\ BagToSet(down') = {}
    BY <1>1, <1>3 DEF EmptyBag, SetToBag, BagToSet
  <2>2. OneLookup'
    BY <2>1 DEF OneLookup
  <2>3. FoundIsExplained'
    BY <1>1, <1>3, RetryFacts, SameFound
  <2> QED BY <1>1, <1>2, <1>3, <2>2, <2>3, RetryFacts, ClientStep DEF RendezvousInv
<1>4. CASE GoesWrong
  BY <1>1, <1>2, <1>4, RetryFacts, Wrong, ClientStep DEF RendezvousInv
<1> QED BY <1>3, <1>4 DEF TimeOut

\* send_connect and disconnect.
LEMMA NotifyKeeps ==
    ASSUME RendezvousInv, NEW d \in Asked, d.type # "Discover", Notify(d)
    PROVE  RendezvousInv'
<1>1. /\ call = NoCall /\ up' = With(up, d)
      /\ UNCHANGED vars /\ UNCHANGED <<call, answer, public_endpoint, down, faults, forwarded>>
  BY DEF Notify
<1>2. BagToSet(up') = BagToSet(up) \cup {d}
  BY <1>1, Put
<1>3. call.op # "discover"
  BY <1>1 DEF NoCall
<1>4. OneLookup'
  BY <1>1, <1>2, <1>3, StillNoLookup
<1>5. PublicIsProven' /\ FoundIsExplained'
  BY <1>1, SamePublic, SameFound
<1> QED BY <1>1, <1>2, <1>4, <1>5, ClientStep DEF RendezvousInv

LEMMA PollKeeps ==
    ASSUME RendezvousInv, NEW d, Poll(d)
    PROVE  RendezvousInv'
<1>1. /\ call = NoCall /\ down' = Without(down, d)
      /\ UNCHANGED vars /\ UNCHANGED <<call, answer, public_endpoint, up, faults, forwarded>>
  BY DEF Poll, client
<1>2. BagToSet(down') \subseteq BagToSet(down)
  BY <1>1, Taken
<1>3. call.op # "discover"
  BY <1>1 DEF NoCall
<1>4. OneLookup'
  BY <1>1, <1>2, <1>3, StillNoLookup
<1>5. PublicIsProven' /\ FoundIsExplained'
  BY <1>1, SamePublic, SameFound
<1> QED BY <1>1, <1>2, <1>4, <1>5, ClientStep DEF RendezvousInv

\* Losses, repetitions and stray probes.
LEMMA NetworkKeeps ==
    ASSUME RendezvousInv, (\E d \in BagToSet(up) \cup BagToSet(down) : Lose(d) \/ Repeat(d)) \/ Probe
    PROVE  RendezvousInv'
<1>1. GoesWrong /\ UNCHANGED vars /\ UNCHANGED <<call, answer, public_endpoint, forwarded>>
  BY DEF Lose, Repeat, Probe, client
<1>2. BagToSet(up') \subseteq Asked /\ BagToSet(down') \subseteq Told
  <2>1. BagToSet(up) \subseteq Asked /\ BagToSet(down) \subseteq Told
    BY DEF RendezvousInv
  <2>2. ASSUME NEW d, Lose(d) \/ Repeat(d)
        PROVE  BagToSet(up') \subseteq BagToSet(up) /\ BagToSet(down') \subseteq BagToSet(down)
    BY <2>2, Put, Taken DEF Lose, Repeat, BagIn
  <2>3. ASSUME Probe
        PROVE  up' = up /\ BagToSet(down') \subseteq Told
    <3>1. Datagram("Hello", NoChallenge) \in Told
      BY DEF Datagram, Told, Signable
    <3> QED BY <2>1, <2>3, <3>1, Put DEF Probe
  <2> QED BY <2>1, <2>2, <2>3
<1>3. PublicIsProven'
  BY <1>1, SamePublic
<1> QED BY <1>1, <1>2, <1>3, Wrong, ClientStep DEF RendezvousInv

-----------------------------------------------------------------------------
(* The server *)

\* The histories only grow, so what was signable and proven stays so.
Grown == Signable(self) \subseteq Signable(self)' /\ (Proven => Proven')

LEMMA Growing ==
    ASSUME IInv,
           \/ UNCHANGED issued
           \/ \E x \in [peer : Peers, endpoint : Addresses, at : Nat] : issued' = Append(issued, x),
           \/ UNCHANGED proofs
           \/ \E x \in [peer : Peers, challenge : Nat, endpoint : Addresses, at : Nat] :
                 proofs' = Append(proofs, x)
    PROVE  Grown
<1> DEFINE I == [peer : Peers, endpoint : Addresses, at : Nat]
           P == [peer : Peers, challenge : Nat, endpoint : Addresses, at : Nat]
<1>1. issued \in Seq(I) /\ proofs \in Seq(P)
  BY DEF IInv, TypeOK
<1>2. /\ UNCHANGED issued \/ \E x \in I : issued' = Append(issued, x)
      /\ UNCHANGED proofs \/ \E x \in P : proofs' = Append(proofs, x)
  OBVIOUS
<1> HIDE DEF I, P
<1>3. /\ \A i \in DOMAIN issued : i \in DOMAIN issued' /\ issued'[i] = issued[i]
      /\ \A i \in DOMAIN proofs : i \in DOMAIN proofs' /\ proofs'[i] = proofs[i]
  <2>1. ASSUME NEW x \in I, issued' = Append(issued, x)
        PROVE  \A i \in DOMAIN issued : i \in DOMAIN issued' /\ issued'[i] = issued[i]
    BY <1>1, <2>1, AppendFacts, SeqDomain
  <2>2. ASSUME NEW x \in P, proofs' = Append(proofs, x)
        PROVE  \A i \in DOMAIN proofs : i \in DOMAIN proofs' /\ proofs'[i] = proofs[i]
    BY <1>1, <2>2, AppendFacts, SeqDomain
  <2> QED BY <1>2, <2>1, <2>2
<1>4. Signable(self) \subseteq Signable(self)'
  BY <1>3 DEF Signable
<1>5. Proven => Proven'
  BY <1>3 DEF Proven
<1> QED BY <1>4, <1>5 DEF Grown

LEMMA GrownSets ==
    ASSUME Grown
    PROVE  Asked \subseteq Asked' /\ Told \subseteq Told' /\ Calls \subseteq Calls'
<1>1. Asked \subseteq Asked'
  BY DEF Grown, Asked
<1>2. Told \subseteq Told'
  BY DEF Grown, Told
<1>3. Calls \subseteq Calls'
  BY DEF Grown, Calls
<1> QED BY <1>1, <1>2, <1>3

\* A round leaves the others where they were, or puts them somewhere else.
LEMMA StillElsewhere ==
    ASSUME OthersElsewhere, NEW reg, NEW pend, Finish(reg, pend),
           \A q \in Others : reg[q].online => reg[q] = registry[q] \/ reg[q].endpoint # SelfAddress
    PROVE  OthersElsewhere'
<1> SUFFICES ASSUME NEW q \in Others, registry'[q].online
             PROVE  registry'[q].endpoint # SelfAddress
  BY DEF OthersElsewhere, Online
<1>1. q \in Peers
  BY DEF Others
<1>2. registry'[q] = IF reg[q].online /\ reg[q].last_seen + PeerTtl < now
                     THEN Unregistered ELSE reg[q]
  BY <1>1 DEF Finish, ExpirePeers
<1>3. ~Unregistered.online
  BY DEF Unregistered
<1>4. registry'[q] = reg[q]
  BY <1>2, <1>3
<1> QED BY <1>4 DEF OthersElsewhere, Online

\* A step of the server: the client stands still.
LEMMA ServerStep ==
    ASSUME RendezvousInv, Grown, OthersElsewhere', UNCHANGED client, UNCHANGED faults,
           forwarded' \in Nat, forwarded' >= forwarded,
           BagToSet(up') \subseteq BagToSet(up), BagToSet(down') \subseteq BagToSet(down) \cup Told',
           OneLookup'
    PROVE  RendezvousInv'
<1>1. UNCHANGED <<call, answer, public_endpoint>>
  BY DEF client
<1>2. Asked \subseteq Asked' /\ Told \subseteq Told' /\ Calls \subseteq Calls'
  BY GrownSets
<1>3. /\ call' \in Calls' \cup {NoCall} /\ faults' \in Nat
      /\ BagToSet(up') \subseteq Asked' /\ BagToSet(down') \subseteq Told'
  BY <1>1, <1>2 DEF RendezvousInv
<1>4. PublicIsProven'
  BY <1>1 DEF RendezvousInv, PublicIsProven, Grown
<1>5. FoundIsExplained'
  BY <1>1 DEF RendezvousInv, FoundIsExplained
<1> QED BY <1>3, <1>4, <1>5 DEF RendezvousInv

\* The server's answer to a request of self's: a challenge, an acknowledgement of
\* a proof, an echo, or the answer to a lookup.
Answers(d) ==
    /\ BagToSet(Replies) \subseteq Told'
    /\ \A e \in BagToSet(Replies) :
          /\ e.type = "Connect" => d.type = "Discover" /\ e.body.source = d.body
          /\ \A f \in BagToSet(Replies) : e = f

LEMMA OneAnswer ==
    ASSUME NEW d, NEW type, NEW body, Datagram(type, body) \in Told',
           type = "Connect" => d.type = "Discover" /\ body.source = d.body,
           out' = Reply(SelfAddress, type, body)
    PROVE  Answers(d)
<1>1. BagToSet(Replies) = {Datagram(type, body)}
  BY RepliesAre
<1>2. Datagram(type, body).type = type /\ Datagram(type, body).body = body
  BY DEF Datagram
<1> QED BY <1>1, <1>2 DEF Answers

LEMMA NoAnswer ==
    ASSUME NEW d, BagToSet(Replies) = {}
    PROVE  Answers(d)
BY DEF Answers

\* Every step leaves to the server a step of its own specification.
Served == Grown /\ OthersElsewhere' /\ Next

LEMMA RegisterServed ==
    ASSUME IInv, RendezvousInv, NEW q \in Peers, NEW from \in Addresses, HandleRegister(q, from)
    PROVE  Served /\ (q = self => Len(issued) + 1 \in Signable(self)')
<1> DEFINE x == [peer |-> q, endpoint |-> from, at |-> clock]
           S == [peer : Peers, endpoint : Addresses, at : Nat]
<1>1. /\ issued' = Append(issued, x) /\ UNCHANGED proofs
      /\ Finish(registry, [pending EXCEPT ![q] = Challenged(Len(issued) + 1, from, now + ChallengeTtl)])
  BY DEF HandleRegister
<1>2. x \in S /\ issued \in Seq(S)
  BY DEF IInv, TypeOK
<1>3. Grown
  BY <1>1, <1>2, Growing
<1>4. OthersElsewhere'
  BY <1>1, StillElsewhere DEF RendezvousInv
<1>5. Next
  BY DEF Next
<1>6. Len(issued) + 1 \in DOMAIN issued' /\ issued'[Len(issued) + 1] = x
  <2> HIDE DEF x, S
  <2> QED BY <1>1, <1>2, AppendFacts, SeqDomain
<1>7. q = self => Len(issued) + 1 \in Signable(self)'
  BY <1>6 DEF Signable
<1> QED BY <1>3, <1>4, <1>5, <1>7 DEF Served

LEMMA SignedServed ==
    ASSUME IInv, RendezvousInv, NEW q \in Peers, NEW from \in Addresses, NEW c \in Signable(q),
           HandleSigned(q, from, c), q = self \/ from # SelfAddress
    PROVE  /\ Served
           /\ \/ out' = <<>>
              \/ /\ out' = Reply(from, "Ack", from)
                 /\ q = self /\ from = SelfAddress => Proven'
<1>1. Next
  BY DEF Next
<1>2. CASE /\ out' = <<>> /\ UNCHANGED <<issued, proofs>>
           /\ \E pend : Finish(registry, pend)
  <2>1. Grown
    BY <1>2, Growing
  <2>2. OthersElsewhere'
    BY <1>2, StillElsewhere DEF RendezvousInv
  <2> QED BY <1>1, <1>2, <2>1, <2>2 DEF Served
<1>3. CASE /\ out' = Reply(from, "Ack", from) /\ UNCHANGED issued
           /\ \E pend : Finish([registry EXCEPT ![q] = Entry(from, now)], pend)
           /\ proofs' = Append(proofs, [peer |-> q, challenge |-> c, endpoint |-> from, at |-> clock])
  <2> DEFINE x == [peer |-> q, challenge |-> c, endpoint |-> from, at |-> clock]
             S == [peer : Peers, challenge : Nat, endpoint : Addresses, at : Nat]
             reg == [registry EXCEPT ![q] = Entry(from, now)]
  <2>1. c \in Nat /\ clock \in Nat /\ proofs \in Seq(S) /\ registry \in [Peers -> RegistryEntries]
    <3>1. issued \in Seq([peer : Peers, endpoint : Addresses, at : Nat])
      BY DEF IInv, TypeOK
    <3>2. c \in Nat
      BY <3>1, SeqDomain DEF Signable, NoChallenge
    <3> QED BY <3>2 DEF IInv, TypeOK
  <2>2. x \in S
    BY <2>1
  <2>3. Grown
    BY <1>3, <2>2, Growing
  <2>4. \A r \in Others : reg[r].online => reg[r] = registry[r] \/ reg[r].endpoint # SelfAddress
    BY <2>1 DEF Others, Entry
  <2>5. OthersElsewhere'
    <3>1. PICK pend : Finish(reg, pend)
      BY <1>3
    <3> HIDE DEF reg
    <3> QED BY <2>4, <3>1, StillElsewhere DEF RendezvousInv
  <2>6. Len(proofs) + 1 \in DOMAIN proofs' /\ proofs'[Len(proofs) + 1] = x
    <3>1. proofs' = Append(proofs, x)
      BY <1>3
    <3> HIDE DEF x, S
    <3> QED BY <2>1, <2>2, <3>1, AppendFacts, SeqDomain
  <2>7. q = self /\ from = SelfAddress => Proven'
    BY <2>6 DEF Proven
  <2> QED BY <1>1, <1>3, <2>3, <2>5, <2>7 DEF Served
<1> QED BY <1>2, <1>3 DEF HandleSigned

\* The rounds that issue and prove nothing.
LEMMA QuietServed ==
    ASSUME IInv, RendezvousInv, Next, UNCHANGED <<issued, proofs>>, NEW reg, NEW pend,
           Finish(reg, pend),
           \A q \in Others : reg[q].online => reg[q] = registry[q]
    PROVE  Served
<1>1. Grown
  BY Growing
<1>2. OthersElsewhere'
  BY StillElsewhere DEF RendezvousInv
<1> QED BY <1>1, <1>2 DEF Served

LEMMA AskedFacts ==
    ASSUME RendezvousInv, NEW d \in BagToSet(up)
    PROVE  /\ d.type = "Signed" => d.body \in Signable(self)
           /\ d.type \in {"Discover", "Connect"} => d.body \in Others
           /\ d = [type |-> d.type, body |-> d.body]
<1>1. d \in Asked
  BY DEF RendezvousInv
<1> QED BY <1>1 DEF Asked

LEMMA HandledServed ==
    ASSUME IInv, RendezvousInv, NEW d \in BagToSet(up), HandleOf(d)
    PROVE  Served /\ Answers(d)
<1> USE RendezvousAssumption
<1>1. registry \in [Peers -> RegistryEntries]
  BY DEF IInv, TypeOK
<1>2. CASE d.type = "Register" /\ HandleRegister(self, SelfAddress)
  <2> DEFINE c == Len(issued) + 1
  <2>1. Served /\ c \in Signable(self)'
    BY <1>2, RegisterServed
  <2>2. out' = Reply(SelfAddress, "Hello", c)
    BY <1>2 DEF HandleRegister
  <2> HIDE DEF c
  <2>3. Datagram("Hello", c) \in Told'
    BY <2>1 DEF Datagram, Told
  <2> QED BY <2>1, <2>2, <2>3, OneAnswer
<1>3. CASE d.type = "Signed" /\ HandleSigned(self, SelfAddress, d.body)
  <2>1. d.body \in Signable(self)
    BY <1>3, AskedFacts
  <2>2. /\ Served
        /\ out' = <<>> \/ (out' = Reply(SelfAddress, "Ack", SelfAddress) /\ Proven')
    BY <1>3, <2>1, SignedServed
  <2>3. CASE out' = <<>>
    BY <2>2, <2>3, RepliesAre, NoAnswer
  <2>4. CASE out' = Reply(SelfAddress, "Ack", SelfAddress) /\ Proven'
    <3>1. Datagram("Ack", SelfAddress) \in Told'
      BY <2>4 DEF Datagram, Told
    <3> QED BY <2>2, <2>4, <3>1, OneAnswer
  <2> QED BY <2>2, <2>3, <2>4
<1>4. CASE d.type = "Discover" /\ HandleDiscover(d.body, SelfAddress)
  <2> DEFINE q == d.body
             body == [source |-> q,
                      endpoint |-> IF Online(q) THEN {registry[q].endpoint} ELSE Empty]
  <2>1. q \in Others /\ q \in Peers
    BY <1>4, AskedFacts DEF Others
  <2>2. /\ out' = Reply(SelfAddress, "Connect", body)
        /\ Finish(registry, pending) /\ UNCHANGED <<issued, proofs>> /\ Next
    BY <1>4, <2>1 DEF HandleDiscover, Next
  <2>3. Served
    BY <2>2, QuietServed
  <2>4. body \in Found /\ body.source = q
    BY <1>1, <2>1, EntryShape DEF Found, Online, Empty
  <2> HIDE DEF body
  <2>5. Datagram("Connect", body) \in Told'
    BY <2>4 DEF Datagram, Told, Found
  <2> QED BY <1>4, <2>2, <2>3, <2>4, <2>5, OneAnswer
<1>5. CASE d.type = "Connect" /\ HandleConnect(self, d.body, SelfAddress)
  <2> DEFINE q == d.body
  <2>1. q \in Others /\ q \in Peers
    BY <1>5, AskedFacts DEF Others
  <2>2. /\ out' = IF Online(q)
                  THEN Reply(registry[q].endpoint, "Connect", [source |-> self, endpoint |-> {SelfAddress}])
                  ELSE <<>>
        /\ Finish(registry, pending) /\ UNCHANGED <<issued, proofs>> /\ Next
    BY <1>5, <2>1 DEF HandleConnect, Next
  <2>3. Online(q) => registry[q].endpoint # SelfAddress
    BY <2>1 DEF RendezvousInv, OthersElsewhere
  <2>4. BagToSet(Replies) = {}
    BY <2>2, <2>3, RepliesAre
  <2> QED BY <2>2, <2>4, QuietServed, NoAnswer
<1>6. CASE d.type = "Heartbeat" /\ HandleHeartbeat(self, SelfAddress)
  <2> DEFINE reg == [registry EXCEPT ![self] = HeartbeatEntry(self, SelfAddress)]
  <2>1. /\ out' = Reply(SelfAddress, "Heartbeat", Empty)
        /\ Finish(reg, pending) /\ UNCHANGED <<issued, proofs>> /\ Next
    BY <1>6 DEF HandleHeartbeat, Next
  <2>2. \A q \in Others : reg[q] = registry[q]
    BY <1>1 DEF Others
  <2> HIDE DEF reg
  <2>3. Datagram("Heartbeat", Empty) \in Told'
    BY DEF Datagram, Told
  <2> QED BY <2>1, <2>2, <2>3, QuietServed, OneAnswer
<1>7. CASE d.type = "Disconnect" /\ HandleDisconnect(self)
  <2> DEFINE reg == [registry EXCEPT ![self] = Unregistered]
  <2>1. /\ out' = <<>>
        /\ Finish(reg, pending) /\ UNCHANGED <<issued, proofs>> /\ Next
    BY <1>7 DEF HandleDisconnect, Next
  <2>2. \A q \in Others : reg[q] = registry[q]
    BY <1>1 DEF Others
  <2> HIDE DEF reg
  <2> QED BY <2>1, <2>2, QuietServed, RepliesAre, NoAnswer
<1> QED BY <1>2, <1>3, <1>4, <1>5, <1>6, <1>7 DEF HandleOf

LEMMA ServerReceiveKeeps ==
    ASSUME IInv, RendezvousInv, NEW d \in BagToSet(up), ServerReceive(d)
    PROVE  RendezvousInv' /\ Next
<1>1. /\ HandleOf(d) /\ up' = Without(up, d) /\ down' = down (+) Replies
      /\ UNCHANGED client /\ UNCHANGED <<faults, forwarded>>
  BY DEF ServerReceive
<1>2. Served /\ Answers(d)
  BY <1>1, HandledServed
<1>3. /\ BagToSet(up') \subseteq BagToSet(up)
      /\ \A e \in BagToSet(up') \ {d} : up'[e] = up[e]
      /\ up[d] = 1 => d \notin BagToSet(up')
  BY <1>1, Taken
<1>4. /\ BagToSet(down') = BagToSet(down) \cup BagToSet(Replies)
      /\ \A e \in BagToSet(down) \ BagToSet(Replies) : down[e] = 1 => down'[e] = 1
      /\ \A e \in BagToSet(Replies) \ BagToSet(down) : down'[e] = 1
  BY <1>1, Poured, RepliesAre
<1>5. OneLookup'
  <2> SUFFICES ASSUME faults = 0, forwarded = 0
               PROVE  /\ \A e \in BagToSet(up') : e.type = "Discover" =>
                            /\ LookingFor(e.body)' /\ up'[e] = 1
                            /\ \A f \in BagToSet(down') : f.type # "Connect"
                      /\ \A e \in BagToSet(down') : e.type = "Connect" =>
                            /\ LookingFor(e.body.source)' /\ down'[e] = 1
                            /\ \A f \in BagToSet(down') : f.type = "Connect" => f = e
    BY <1>1 DEF OneLookup
  <2>1. \A q : LookingFor(q)' <=> LookingFor(q)
    BY <1>1 DEF LookingFor, client
  <2>2. /\ \A e \in BagToSet(up) : e.type = "Discover" =>
              /\ LookingFor(e.body) /\ up[e] = 1
              /\ \A f \in BagToSet(down) : f.type # "Connect"
        /\ \A e \in BagToSet(down) : e.type = "Connect" =>
              /\ LookingFor(e.body.source) /\ down[e] = 1
              /\ \A f \in BagToSet(down) : f.type = "Connect" => f = e
    BY DEF RendezvousInv, OneLookup
  <2>3. CASE d.type = "Discover"
    <3>1. \A e \in BagToSet(up') : e.type # "Discover"
      <4> SUFFICES ASSUME NEW e \in BagToSet(up'), e.type = "Discover" PROVE FALSE
        OBVIOUS
      <4>1. e \in BagToSet(up) /\ e.body = d.body
        BY <1>3, <2>2, <2>3 DEF LookingFor
      <4>2. e = d
        BY <2>3, <4>1, AskedFacts
      <4> QED BY <1>3, <2>2, <2>3, <4>2
    <3>2. \A e \in BagToSet(down) : e.type # "Connect"
      BY <2>2, <2>3
    <3>3. \A e \in BagToSet(down') : e.type = "Connect" =>
              e \in BagToSet(Replies) /\ e \notin BagToSet(down)
      BY <1>4, <3>2
    <3>4. \A e \in BagToSet(Replies) : e.type = "Connect" => LookingFor(e.body.source)
      BY <1>2, <2>2, <2>3 DEF Answers
    <3> QED BY <1>2, <1>4, <2>1, <3>1, <3>3, <3>4 DEF Answers
  <2>4. CASE d.type # "Discover"
    <3>1. \A e \in BagToSet(Replies) : e.type # "Connect"
      BY <1>2, <2>4 DEF Answers
    <3>2. \A e \in BagToSet(down') : e.type = "Connect" =>
              e \in BagToSet(down) /\ e \notin BagToSet(Replies)
      BY <1>4, <3>1
    <3>3. \A e \in BagToSet(up') : e.type = "Discover" => e \in BagToSet(up) /\ e # d
      BY <1>3, <2>4
    <3> QED BY <1>3, <1>4, <2>1, <2>2, <3>2, <3>3
  <2> QED BY <2>3, <2>4
<1>6. forwarded \in Nat
  BY DEF RendezvousInv
<1>7. BagToSet(down') \subseteq BagToSet(down) \cup Told'
  BY <1>2, <1>4 DEF Answers
<1> QED BY <1>1, <1>2, <1>3, <1>5, <1>6, <1>7, ServerStep DEF Served

LEMMA OtherPeerKeeps ==
    ASSUME IInv, RendezvousInv, NEW q \in Others, NEW from \in Addresses \ {SelfAddress},
           OtherPeer(q, from)
    PROVE  RendezvousInv' /\ Next
<1> USE RendezvousAssumption
<1>1. q \in Peers /\ forwarded \in Nat
  BY DEF Others, RendezvousInv
<1>2. /\ down' = down (+) Replies /\ UNCHANGED client /\ UNCHANGED <<up, faults>>
      /\ \/ HandleRegister(q, from) /\ UNCHANGED forwarded
         \/ \E c \in Signable(q) : HandleSigned(q, from, c) /\ UNCHANGED forwarded
         \/ HandleConnect(q, self, from) /\ forwarded' = forwarded + 1
  BY DEF OtherPeer
<1>3. /\ BagToSet(down') = BagToSet(down) \cup BagToSet(Replies)
      /\ \A e \in BagToSet(down) \ BagToSet(Replies) : down[e] = 1 => down'[e] = 1
  BY <1>2, Poured
<1>4. ASSUME Served, BagToSet(Replies) = {}, UNCHANGED forwarded
      PROVE  RendezvousInv' /\ Next
  <2>1. OneLookup'
    <3>1. \A r : LookingFor(r)' <=> LookingFor(r)
      BY <1>2 DEF LookingFor, client
    <3> QED BY <1>2, <1>3, <1>4, <3>1 DEF RendezvousInv, OneLookup
  <2> QED BY <1>1, <1>2, <1>3, <1>4, <2>1, ServerStep DEF Served
<1>5. CASE HandleRegister(q, from) /\ UNCHANGED forwarded
  <2>1. out' = Reply(from, "Hello", Len(issued) + 1)
    BY <1>5 DEF HandleRegister
  <2>2. BagToSet(Replies) = {}
    BY <2>1, RepliesAre
  <2> QED BY <1>1, <1>4, <1>5, <2>2, RegisterServed
<1>6. CASE \E c \in Signable(q) : HandleSigned(q, from, c) /\ UNCHANGED forwarded
  <2>1. Served /\ (out' = <<>> \/ out' = Reply(from, "Ack", from))
    BY <1>1, <1>6, SignedServed
  <2>2. BagToSet(Replies) = {}
    BY <2>1, RepliesAre
  <2> QED BY <1>4, <1>6, <2>1, <2>2
<1>7. CASE HandleConnect(q, self, from) /\ forwarded' = forwarded + 1
  <2> DEFINE body == [source |-> q, endpoint |-> {from}]
  <2>1. /\ Finish(registry, pending) /\ UNCHANGED <<issued, proofs>> /\ Next
        /\ \/ out' = <<>>
           \/ out' = Reply(registry[self].endpoint, "Connect", body)
    BY <1>1, <1>7 DEF HandleConnect, Next
  <2>2. Served
    BY <2>1, QuietServed
  <2>3. Datagram("Connect", body) \in Told'
    BY <1>1 DEF Datagram, Told, Found
  <2> HIDE DEF body
  <2>4. BagToSet(Replies) \subseteq Told'
    BY <2>1, <2>3, RepliesAre
  <2>5. forwarded' \in Nat /\ forwarded' > 0 /\ forwarded' >= forwarded
    BY <1>1, <1>7
  <2>6. OneLookup'
    BY <2>5 DEF OneLookup
  <2> QED BY <1>2, <1>3, <2>1, <2>2, <2>4, <2>5, <2>6, ServerStep DEF Served
<1> QED BY <1>2, <1>5, <1>6, <1>7

\* Rounds of the server, and its restart, that send self nothing.
LEMMA LoopKeeps ==
    ASSUME IInv, RendezvousInv, ServerLoop
    PROVE  RendezvousInv' /\ Next
<1>1. Idle \/ Sample
  BY DEF ServerLoop
<1>2. UNCHANGED client /\ UNCHANGED <<up, down, faults, forwarded>>
  BY DEF ServerLoop
<1>3. Next /\ UNCHANGED <<issued, proofs>>
  BY <1>1 DEF Idle, Sample, Next
<1>4. Grown
  BY <1>3, Growing
<1>5. OthersElsewhere'
  <2>1. CASE Idle
    BY <2>1, StillElsewhere DEF Idle, RendezvousInv
  <2>2. CASE Sample
    BY <2>2 DEF Sample, RendezvousInv, OthersElsewhere, Online
  <2> QED BY <1>1, <2>1, <2>2
<1>6. OneLookup'
  BY <1>2 DEF RendezvousInv, OneLookup, LookingFor, client
<1>7. forwarded \in Nat
  BY DEF RendezvousInv
<1> QED BY <1>2, <1>3, <1>4, <1>5, <1>6, <1>7, ServerStep

LEMMA DiesKeeps ==
    ASSUME IInv, RendezvousInv, ServerDies
    PROVE  RendezvousInv' /\ Next
<1>1. /\ ServerRestart /\ GoesWrong
      /\ UNCHANGED <<call, answer, public_endpoint, up, down, forwarded>>
  BY DEF ServerDies, client
<1>2. Next /\ UNCHANGED <<issued, proofs>> /\ registry' = [p \in Peers |-> Unregistered]
  BY <1>1 DEF ServerRestart, Next
<1>3. Grown
  BY <1>2, Growing
<1>4. OthersElsewhere'
  BY <1>2 DEF OthersElsewhere, Online, Others, Unregistered
<1>5. Asked \subseteq Asked' /\ Told \subseteq Told' /\ Calls \subseteq Calls'
  BY <1>3, GrownSets
<1>6. /\ call' \in Calls' \cup {NoCall} /\ forwarded' \in Nat
      /\ BagToSet(up') \subseteq Asked' /\ BagToSet(down') \subseteq Told'
  BY <1>1, <1>5 DEF RendezvousInv
<1>7. PublicIsProven'
  BY <1>1, <1>3 DEF RendezvousInv, PublicIsProven, Grown
<1>8. faults' \in Nat /\ OneLookup' /\ FoundIsExplained'
  BY <1>1, Wrong
<1> QED BY <1>2, <1>4, <1>6, <1>7, <1>8 DEF RendezvousInv

-----------------------------------------------------------------------------
(* The composition *)

LEMMA InitRendezvous == RendezvousInit => IInv /\ RendezvousInv
<1> SUFFICES ASSUME RendezvousInit PROVE RendezvousInv
  BY InitIInv DEF RendezvousInit
<1>1. /\ call = NoCall /\ answer = NoCall /\ public_endpoint = {}
      /\ BagToSet(up) = {} /\ BagToSet(down) = {} /\ faults = 0 /\ forwarded = 0
  BY DEF RendezvousInit, Empty, EmptyBag, SetToBag, BagToSet
<1>2. answer.op = "none"
  BY <1>1 DEF NoCall
<1>3. PublicIsProven /\ OneLookup /\ FoundIsExplained
  BY <1>1, <1>2 DEF PublicIsProven, OneLookup, FoundIsExplained, Empty
<1>4. OthersElsewhere
  BY DEF RendezvousInit, Init, OthersElsewhere, Online, Others, Unregistered
<1> QED BY <1>1, <1>3, <1>4 DEF RendezvousInv

LEMMA StepRendezvous ==
    ASSUME IInv, RendezvousInv, [RendezvousNext]_allVars
    PROVE  RendezvousInv' /\ [Next]_vars
<1> USE RendezvousAssumption
<1>1. ASSUME NEW op \in {"register", "heartbeat"}, Begin(op, self)
      PROVE  RendezvousInv' /\ UNCHANGED vars
  BY <1>1, BeginKeeps DEF Begin
<1>2. ASSUME NEW q \in Others, Begin("discover", q)
      PROVE  RendezvousInv' /\ UNCHANGED vars
  BY <1>2, BeginKeeps DEF Begin, Others
<1>3. ASSUME NEW q \in Others, send_connect(q)
      PROVE  RendezvousInv' /\ UNCHANGED vars
  <2>1. Datagram("Connect", q) \in Asked /\ Datagram("Connect", q).type # "Discover"
    BY DEF Datagram, Asked
  <2> QED BY <1>3, <2>1, NotifyKeeps DEF send_connect, Notify
<1>4. ASSUME disconnect
      PROVE  RendezvousInv' /\ UNCHANGED vars
  <2>1. Datagram("Disconnect", Empty) \in Asked /\ Datagram("Disconnect", Empty).type # "Discover"
    BY DEF Datagram, Asked
  <2> QED BY <1>4, <2>1, NotifyKeeps DEF disconnect, Notify
<1>5. Send => RendezvousInv' /\ UNCHANGED vars
  BY SendKeeps DEF Send
<1>6. TimeOut => RendezvousInv' /\ UNCHANGED vars
  BY TimeOutKeeps DEF TimeOut
<1>7. ASSUME NEW d \in BagToSet(down), Receive(d)
      PROVE  RendezvousInv' /\ UNCHANGED vars
  BY <1>7, ReceiveKeeps DEF Receive
<1>8. ASSUME NEW d \in BagToSet(down), Poll(d)
      PROVE  RendezvousInv' /\ UNCHANGED vars
  BY <1>8, PollKeeps DEF Poll
<1>9. ASSUME (\E d \in BagToSet(up) \cup BagToSet(down) : Lose(d) \/ Repeat(d)) \/ Probe
      PROVE  RendezvousInv' /\ UNCHANGED vars
  BY <1>9, NetworkKeeps DEF Lose, Repeat, Probe
<1>10. ASSUME UNCHANGED allVars
       PROVE  RendezvousInv' /\ UNCHANGED vars
  <2>1. UNCHANGED vars /\ UNCHANGED <<call, answer, public_endpoint, up, down, faults, forwarded>>
    BY <1>10 DEF allVars, client
  <2>2. PublicIsProven' /\ FoundIsExplained'
    BY <2>1, SamePublic, SameFound
  <2>3. OneLookup'
    BY <2>1 DEF RendezvousInv, OneLookup, LookingFor
  <2> QED BY <2>1, <2>2, <2>3, ClientStep DEF RendezvousInv
<1> QED
  BY <1>1, <1>2, <1>3, <1>4, <1>5, <1>6, <1>7, <1>8, <1>9, <1>10, ServerReceiveKeeps,
     OtherPeerKeeps, LoopKeeps, DiesKeeps
  DEF RendezvousNext

LEMMA NextRendezvous ==
    IInv /\ RendezvousInv /\ [RendezvousNext]_allVars => IInv' /\ RendezvousInv'
BY StepRendezvous, NextKeepsIInv

\* The server among clients and on such a network does nothing that the server
\* alone does not: what is proved of the server holds of the composition
\* (register_self signs nothing but challenges it was sent).
THEOREM ServerWithin == RendezvousSpec => Spec
<1>1. RendezvousInit => Init
  BY DEF RendezvousInit
<1>2. IInv /\ RendezvousInv /\ [RendezvousNext]_allVars => [Next]_vars
  BY StepRendezvous
<1> QED BY <1>1, <1>2, InitRendezvous, NextRendezvous, PTL DEF RendezvousSpec, Spec

\* Everything self has under way and waits for is what its calls asked for
\* (await_packet, register_self, discover, handle_register).
THEOREM Exchanges == RendezvousSpec => []RendezvousInv
BY InitRendezvous, NextRendezvous, PTL DEF RendezvousSpec

\* register_self is never wrong about a success, whatever the network does and
\* whenever the server restarts.
THEOREM SuccessIsProven == RendezvousSpec => []TrueMeansProven
<1>1. RendezvousInv => TrueMeansProven
  BY DEF RendezvousInv, PublicIsProven, TrueMeansProven, Proven, Empty
<1> QED BY <1>1, InitRendezvous, NextRendezvous, PTL DEF RendezvousSpec

\* discover answers for another peer only when a CONNECT was passed on to self or
\* something went wrong: in quiet times a lookup and its answer are the only
\* ones under way.
THEOREM AnswersTheQuestion == RendezvousSpec => []FoundIsExplained
<1>1. RendezvousInv => FoundIsExplained
  BY DEF RendezvousInv
<1> QED BY <1>1, InitRendezvous, NextRendezvous, PTL DEF RendezvousSpec

-----------------------------------------------------------------------------
(* One fault: what is on its way for a registration *)

LEMMA LeftAlone ==
    ASSUME NEW b, NEW d, NEW e \in BagToSet(b), e # d, b[e] = 1
    PROVE  e \in BagToSet(Without(b, d)) /\ Without(b, d)[e] = 1
BY DEF Without, (-), SetToBag, BagToSet

\* From b to c nothing of a handshake comes or goes.
Undisturbed(b, c) ==
    /\ Handshakes(b) = {} => Handshakes(c) = {}
    /\ \A e : Sole(b, e) => Sole(c, e)

LEMMA UndisturbedSame == \A b : Undisturbed(b, b)
BY DEF Undisturbed

LEMMA PutOther ==
    ASSUME NEW b, NEW d, ~IsHandshake(d)
    PROVE  Undisturbed(b, With(b, d))
<1>1. Handshakes(With(b, d)) = Handshakes(b)
  BY Put DEF Handshakes
<1>2. ASSUME NEW e, Sole(b, e) PROVE With(b, d)[e] = 1
  <2>1. e \in BagToSet(b) /\ e # d /\ b[e] = 1
    BY <1>2 DEF Sole, Handshakes
  <2> QED BY <2>1, Put
<1> QED BY <1>1, <1>2 DEF Undisturbed, Sole

LEMMA PutFirst ==
    ASSUME NEW b, NEW d, IsHandshake(d), Handshakes(b) = {}
    PROVE  Sole(With(b, d), d)
<1>1. d \notin BagToSet(b)
  BY DEF Handshakes
<1> QED BY <1>1, Put DEF Sole, Handshakes

LEMMA TakenOther ==
    ASSUME NEW b, NEW d, ~IsHandshake(d)
    PROVE  Undisturbed(b, Without(b, d))
<1>1. Handshakes(Without(b, d)) \subseteq Handshakes(b)
  BY Taken DEF Handshakes
<1>2. ASSUME NEW e, Sole(b, e) PROVE Sole(Without(b, d), e)
  <2>1. e \in BagToSet(b) /\ e # d /\ b[e] = 1 /\ IsHandshake(e)
    BY <1>2 DEF Sole, Handshakes
  <2>2. e \in BagToSet(Without(b, d)) /\ Without(b, d)[e] = 1
    BY <2>1, LeftAlone
  <2> QED BY <1>1, <1>2, <2>1, <2>2 DEF Sole, Handshakes
<1> QED BY <1>1, <1>2 DEF Undisturbed

LEMMA TakenLast ==
    ASSUME NEW b, NEW d, Sole(b, d)
    PROVE  Handshakes(Without(b, d)) = {}
BY Taken DEF Sole, Handshakes

LEMMA PouredOther ==
    ASSUME NEW b, NEW c, \A e \in BagToSet(c) : ~IsHandshake(e)
    PROVE  Undisturbed(b, b (+) c)
<1>1. Handshakes(b (+) c) = Handshakes(b)
  BY Poured DEF Handshakes
<1>2. ASSUME NEW e, Sole(b, e) PROVE (b (+) c)[e] = 1
  <2>1. e \in BagToSet(b) /\ e \notin BagToSet(c) /\ b[e] = 1
    BY <1>2 DEF Sole, Handshakes
  <2> QED BY <2>1, Poured
<1> QED BY <1>1, <1>2 DEF Undisturbed, Sole

LEMMA PouredFirst ==
    ASSUME NEW b, NEW c, NEW d, Handshakes(b) = {}, BagToSet(c) = {d}, c[d] = 1, IsHandshake(d)
    PROVE  Sole(b (+) c, d)
<1>1. d \notin BagToSet(b)
  BY DEF Handshakes
<1> QED BY <1>1, Poured DEF Sole, Handshakes

-----------------------------------------------------------------------------
(* One fault: the steps *)

\* With the clock at rest, a round of the server forgets no challenge.
LEMMA NothingExpires ==
    ASSUME NEW reg, NEW pend \in [Peers -> PendingEntries], Finish(reg, pend), now = 0
    PROVE  \A p \in Peers : pending'[p] = pend[p]
<1> SUFFICES ASSUME NEW p \in Peers PROVE pending'[p] = pend[p]
  OBVIOUS
<1>1. pending'[p] = IF pend[p].active /\ pend[p].expiry < now THEN NoPending ELSE pend[p]
  BY DEF Finish, ExpireChallenges
<1>2. pend[p].active => pend[p].expiry \in Nat
  BY ChallengeShape
<1>3. ~(pend[p].active /\ pend[p].expiry < now)
  BY <1>2
<1> QED BY <1>1, <1>3

LEMMA StillQuiet ==
    ASSUME Quiet, Undisturbed(up, up'), Undisturbed(down, down')
    PROVE  Quiet'
BY DEF Quiet, Undisturbed

LEMMA StillOnTrack ==
    ASSUME OnTrack, UNCHANGED call, pending'[self] = pending[self], Told \subseteq Told',
           Undisturbed(up, up'), Undisturbed(down, down')
    PROVE  OnTrack'
<1>1. Request' = Request /\ Expected' = Expected
  BY DEF Request, Expected
<1>2. \A c : Awaited(c)' <=> Awaited(c)
  BY DEF Awaited
<1>3. CASE ~call.sent
  <2>1. Quiet' /\ (call.stage = "answer" => Awaited(call.challenge))
    BY <1>3, StillQuiet DEF OnTrack
  <2> QED BY <1>2, <1>3, <2>1 DEF OnTrack
<1>4. CASE call.sent /\ Sole(up, Request) /\ Handshakes(down) = {}
           /\ (call.stage = "answer" => Awaited(call.challenge))
  <2>1. Sole(up', Request) /\ Handshakes(down') = {}
    BY <1>4 DEF Undisturbed
  <2> QED BY <1>1, <1>2, <1>4, <2>1 DEF OnTrack
<1>5. CASE call.sent /\ Handshakes(up) = {}
           /\ \E d \in Told : Sole(down, d) /\ IsExpected(d) /\ (call.stage = "request" => Awaited(d.body))
  <2>1. PICK d \in Told : Sole(down, d) /\ IsExpected(d) /\ (call.stage = "request" => Awaited(d.body))
    BY <1>5
  <2>2. Handshakes(up') = {} /\ Sole(down', d) /\ d \in Told'
    BY <1>5, <2>1 DEF Undisturbed
  <2>3. IsExpected(d)' /\ (call'.stage = "request" => Awaited(d.body)')
    BY <1>1, <1>2, <2>1 DEF IsExpected
  <2> QED BY <1>5, <2>2, <2>3 DEF OnTrack
<1> QED BY <1>3, <1>4, <1>5 DEF OnTrack

\* A step that nothing under way for a registration notices.
LEMMA Unnoticed ==
    ASSUME ToleranceInv, UNCHANGED <<call, answer, faults, clock, now>>,
           pending'[self] = pending[self], Told \subseteq Told',
           Undisturbed(up, up'), Undisturbed(down, down')
    PROVE  ToleranceInv'
<1>1. OnTrack => OnTrack'
  BY StillOnTrack
<1>2. Quiet => Quiet'
  BY StillQuiet
<1>3. FirstFault'
  BY <1>1, <1>2 DEF ToleranceInv, FirstFault
<1> QED BY <1>3 DEF ToleranceInv, LossTolerated

LEMMA RetryCall ==
    ASSUME RendezvousInv, call # NoCall, Retry
    PROVE  \/ /\ call'.op = call.op /\ call'.attempt = call.attempt + 1
              /\ call'.stage = "request" /\ ~call'.sent /\ UNCHANGED answer
              /\ call.attempt < AttemptsOf(call.op)
           \/ /\ call' = NoCall /\ answer'.op = call.op /\ ~answer'.ok
              /\ call.attempt = AttemptsOf(call.op)
<1>1. call \in Calls
  BY CallFacts
<1>2. CASE /\ call' = [call EXCEPT !.attempt = @ + 1, !.stage = "request", !.sent = FALSE]
           /\ UNCHANGED answer /\ call.attempt < AttemptsOf(call.op)
  <2>1. call \in [op : {"register", "discover", "heartbeat"}, target : Peers, attempt : Nat,
                  stage : {"request", "answer"}, challenge : Signable(self), sent : BOOLEAN]
    BY <1>1 DEF Calls
  <2>2. /\ call'.op = call.op /\ call'.attempt = call.attempt + 1
        /\ call'.stage = "request" /\ call'.sent = FALSE
    BY <1>2, <2>1
  <2> QED BY <1>2, <2>2
<1>3. CASE /\ call' = NoCall /\ answer' = [op |-> call.op, target |-> call.target, ok |-> FALSE]
           /\ call.attempt = AttemptsOf(call.op)
  BY <1>3
<1> QED BY <1>2, <1>3 DEF Retry, Return

LEMMA NoCallFacts == NoCall.op = "none"
BY DEF NoCall

\* A fault: the first one costs an attempt at most, and later ones are counted.
LEMMA FaultTolerated ==
    ASSUME RendezvousInv, ToleranceInv, Attempts >= 3, GoesWrong, UNCHANGED <<clock, now>>,
           UNCHANGED <<call, answer>> \/ (call # NoCall /\ Retry)
    PROVE  ToleranceInv'
<1> USE RendezvousAssumption
<1>1. faults \in Nat /\ faults' = faults + 1
  BY DEF RendezvousInv, GoesWrong
<1>2. call # NoCall => call.attempt \in Nat
  BY CallFacts DEF Calls
<1>3. call'.op \in {"discover", "heartbeat"} => call'.stage = "request"
  BY RetryCall, NoCallFacts DEF ToleranceInv
<1>4. CASE faults = 0
  <2>1. call.op = "register" => call.attempt = 1
    BY <1>4 DEF ToleranceInv, FirstFault
  <2>2. AttemptsOf("register") = Attempts
    BY DEF AttemptsOf
  <2>3. call'.op = "register" => call'.attempt <= 2
    <3>1. CASE UNCHANGED call
      BY <2>1, <3>1
    <3>2. CASE call # NoCall /\ Retry
      BY <2>1, <3>2, RetryCall, NoCallFacts
    <3> QED BY <3>1, <3>2
  <2>4. call'.op = "register" => call'.attempt \in Nat
    <3>1. CASE UNCHANGED call
      BY <1>2, <3>1, NoCallFacts
    <3>2. CASE call # NoCall /\ Retry
      BY <1>2, <3>2, RetryCall, NoCallFacts
    <3> QED BY <3>1, <3>2
  <2>5. FirstFault'
    BY <1>1, <1>4, <2>3, <2>4 DEF FirstFault
  <2>6. answer'.op = "register" => answer'.ok
    <3>1. answer.op = "register" => answer.ok
      BY <1>4 DEF ToleranceInv, LossTolerated
    <3>2. CASE UNCHANGED answer
      BY <3>1, <3>2
    <3>3. CASE call # NoCall /\ Retry /\ answer' # answer
      BY <2>1, <2>2, <3>3, RetryCall
    <3> QED BY <3>2, <3>3
  <2> QED BY <1>3, <2>5, <2>6 DEF ToleranceInv, LossTolerated
<1>5. CASE faults # 0
  <2>1. faults' >= 2
    BY <1>1, <1>5
  <2>2. FirstFault' /\ LossTolerated'
    BY <2>1 DEF FirstFault, LossTolerated
  <2> QED BY <1>3, <2>2 DEF ToleranceInv
<1> QED BY <1>4, <1>5

LEMMA BeginTolerates ==
    ASSUME RendezvousInv, ToleranceInv, NEW op \in {"register", "discover", "heartbeat"}, NEW q,
           Begin(op, q)
    PROVE  ToleranceInv'
<1>1. /\ call = NoCall /\ answer' = NoCall
      /\ UNCHANGED vars /\ UNCHANGED <<up, down, faults>>
      /\ call' = [op |-> op, target |-> q, attempt |-> 1, stage |-> "request",
                  challenge |-> NoChallenge, sent |-> FALSE]
  BY DEF Begin
<1>2. /\ call.op = "none" /\ answer'.op = "none"
      /\ call'.op = op /\ call'.attempt = 1 /\ call'.stage = "request" /\ ~call'.sent
  BY <1>1, NoCallFacts
<1>3. faults = 0 => Quiet
  BY <1>2 DEF ToleranceInv, FirstFault
<1>4. Quiet => Quiet' /\ OnTrack'
  BY <1>1, <1>2 DEF Quiet, OnTrack
<1>5. FirstFault'
  BY <1>1, <1>2, <1>3, <1>4 DEF FirstFault
<1> QED BY <1>1, <1>2, <1>5 DEF ToleranceInv, LossTolerated, vars

\* What a registration sends and waits for is part of the handshake.
LEMMA HandshakeFacts ==
    ASSUME RendezvousInv, ToleranceInv, call # NoCall
    PROVE  /\ call.op = "register" => IsHandshake(Request) /\ \A d : IsExpected(d) => IsHandshake(d)
           /\ call.op # "register" => ~IsHandshake(Request) /\ \A d : IsExpected(d) => ~IsHandshake(d)
           /\ call.stage = "answer" => Request = Datagram("Signed", call.challenge) /\ Expected = "Ack"
           /\ call.op = "register" /\ call.stage # "answer" =>
                 Request = Datagram("Register", Empty) /\ Expected = "Hello"
           /\ call.op \in {"register", "discover", "heartbeat"}
           /\ call.stage \in {"request", "answer"} /\ call.attempt \in Nat
<1>1. /\ call.op \in {"register", "discover", "heartbeat"}
      /\ call.stage \in {"request", "answer"} /\ call.attempt \in Nat
  BY CallFacts DEF Calls
<1>2. call.op # "register" => call.stage = "request"
  BY <1>1 DEF ToleranceInv
<1>3. \A type, body : Datagram(type, body).type = type
  BY DEF Datagram
<1>4. CASE call.stage = "answer"
  <2>1. Request = Datagram("Signed", call.challenge) /\ Expected = "Ack" /\ call.op = "register"
    BY <1>1, <1>2, <1>4 DEF Request, Expected
  <2> QED BY <1>1, <1>3, <1>4, <2>1 DEF IsHandshake, IsExpected
<1>5. CASE call.stage # "answer" /\ call.op = "register"
  <2>1. Request = Datagram("Register", Empty) /\ Expected = "Hello"
    BY <1>5 DEF Request, Expected
  <2> QED BY <1>1, <1>3, <1>5, <2>1 DEF IsHandshake, IsExpected
<1>6. CASE call.stage # "answer" /\ call.op = "discover"
  <2>1. Request = Datagram("Discover", call.target) /\ Expected = "Connect"
    BY <1>6 DEF Request, Expected
  <2> QED BY <1>1, <1>3, <1>6, <2>1 DEF IsHandshake, IsExpected
<1>7. CASE call.stage # "answer" /\ call.op = "heartbeat"
  <2>1. Request = Datagram("Heartbeat", Empty) /\ Expected = "Heartbeat"
    BY <1>7 DEF Request, Expected
  <2> QED BY <1>1, <1>3, <1>7, <2>1 DEF IsHandshake, IsExpected
<1> QED BY <1>1, <1>4, <1>5, <1>6, <1>7

LEMMA SendTolerated ==
    ASSUME RendezvousInv, ToleranceInv, Attempts >= 3, Send
    PROVE  ToleranceInv'
<1>1. call # NoCall /\ ~call.sent /\ UNCHANGED vars /\ UNCHANGED down
  BY DEF Send
<1>2. UNCHANGED <<clock, now, pending>> /\ Told' = Told
  BY <1>1, SameServer DEF vars
<1>3. CASE /\ up' = With(up, Request) /\ call' = [call EXCEPT !.sent = TRUE]
           /\ UNCHANGED <<answer, faults>>
  <2>1. /\ call'.op = call.op /\ call'.attempt = call.attempt /\ call'.stage = call.stage
        /\ call'.challenge = call.challenge /\ call'.target = call.target /\ call'.sent = TRUE
    <3>1. call \in Calls
      BY <1>1, CallFacts
    <3> QED BY <1>3, <3>1 DEF Calls
  <2>2. Request' = Request
    BY <2>1 DEF Request
  <2>3. call.op = "register" /\ OnTrack => OnTrack'
    <3> SUFFICES ASSUME call.op = "register", OnTrack PROVE OnTrack'
      OBVIOUS
    <3>1. Quiet /\ (call.stage = "answer" => Awaited(call.challenge))
      BY <1>1 DEF OnTrack
    <3>2. Sole(up', Request) /\ Handshakes(down') = {}
      BY <1>1, <1>3, <3>1, PutFirst, HandshakeFacts DEF Quiet
    <3>3. (call.stage = "answer" => Awaited(call.challenge))'
      BY <1>2, <2>1, <3>1 DEF Awaited
    <3> QED BY <2>1, <2>2, <3>2, <3>3 DEF OnTrack
  <2>4. call.op # "register" /\ Quiet => Quiet'
    BY <1>1, <1>3, PutOther, UndisturbedSame, StillQuiet, HandshakeFacts
  <2>5. FirstFault'
    BY <1>3, <2>1, <2>3, <2>4 DEF ToleranceInv, FirstFault
  <2> QED BY <1>2, <1>3, <2>1, <2>5 DEF ToleranceInv, LossTolerated
<1>4. CASE Retry /\ GoesWrong
  BY <1>1, <1>2, <1>4, FaultTolerated
<1> QED BY <1>3, <1>4 DEF Send

\* A time-out that comes for free means that the attempt was not on track, and
\* the next one is.
LEMMA TimeOutTolerated ==
    ASSUME RendezvousInv, ToleranceInv, Attempts >= 3, TimeOut
    PROVE  ToleranceInv'
<1> USE RendezvousAssumption
<1>1. call # NoCall /\ call.sent /\ Retry /\ UNCHANGED vars /\ UNCHANGED <<up, down>>
  BY DEF TimeOut, Waiting
<1>2. UNCHANGED <<clock, now>>
  BY <1>1 DEF vars
<1>3. CASE up = EmptyBag /\ down = EmptyBag /\ UNCHANGED faults
  <2>1. BagToSet(up) = {} /\ BagToSet(down) = {}
    BY <1>3 DEF EmptyBag, SetToBag, BagToSet
  <2>2. Quiet' /\ ~OnTrack
    BY <1>1, <2>1 DEF OnTrack, Sole, Quiet, Handshakes
  <2>3. call.op = "register" => faults # 0 /\ (faults = 1 => call.attempt < 3)
    <3>1. call.attempt \in Nat
      BY <1>1, HandshakeFacts
    <3> QED BY <2>2, <3>1 DEF ToleranceInv, FirstFault
  <2>4. CASE /\ call'.op = call.op /\ call'.attempt = call.attempt + 1
             /\ call'.stage = "request" /\ ~call'.sent /\ UNCHANGED answer
    <3>1. OnTrack'
      BY <2>2, <2>4 DEF OnTrack
    <3>2. call.attempt \in Nat
      BY <1>1, HandshakeFacts
    <3>3. call'.op = "register" /\ faults' = 1 => call'.attempt <= 3
      BY <1>3, <2>3, <2>4, <3>2
    <3>4. FirstFault'
      BY <1>3, <2>2, <2>3, <2>4, <3>1, <3>3 DEF FirstFault
    <3> QED BY <1>2, <1>3, <2>4, <3>4 DEF ToleranceInv, LossTolerated
  <2>5. CASE call' = NoCall /\ answer'.op = call.op /\ call.attempt = AttemptsOf(call.op)
    <3>1. faults \in Nat
      BY DEF RendezvousInv
    <3>2. call.op = "register" => faults >= 2
      BY <2>3, <2>5, <3>1 DEF AttemptsOf
    <3>3. FirstFault'
      BY <2>2, <2>5, NoCallFacts DEF FirstFault
    <3> QED BY <1>2, <1>3, <2>5, <3>2, <3>3, NoCallFacts DEF ToleranceInv, LossTolerated
  <2> QED BY <1>1, <2>4, <2>5, RetryCall
<1>4. CASE GoesWrong
  BY <1>1, <1>2, <1>4, FaultTolerated
<1> QED BY <1>3, <1>4 DEF TimeOut

\* The awaited packet comes while the attempt is on track.
LEMMA ProceedOnTrack ==
    ASSUME RendezvousInv, ToleranceInv, call # NoCall, call.op = "register", call.sent,
           OnTrack, NEW d \in BagToSet(down), IsExpected(d), Proceed(d),
           UNCHANGED <<vars, up>>, down' = Without(down, d)
    PROVE  /\ Quiet'
           /\ \/ call' = NoCall /\ answer'.ok
              \/ /\ call'.op = "register" /\ call'.attempt = call.attempt
                 /\ UNCHANGED answer /\ OnTrack'
<1>1. IsHandshake(d)
  BY HandshakeFacts
<1>2. d \in Handshakes(down)
  BY <1>1 DEF Handshakes
<1>3. /\ Handshakes(up) = {} /\ Sole(down, d)
      /\ call.stage = "request" => Awaited(d.body)
  BY <1>2 DEF OnTrack, Sole
<1>4. Quiet'
  BY <1>3, TakenLast DEF Quiet
<1>5. CASE Expected = "Hello"
  <2> DEFINE c == d.body
  <2>1. /\ call' = [call EXCEPT !.stage = "answer", !.challenge = c, !.sent = FALSE]
        /\ UNCHANGED answer
    BY <1>5 DEF Proceed
  <2>2. call.stage = "request"
    BY <1>5, HandshakeFacts
  <2> HIDE DEF c
  <2>3. call \in [op : {"register", "discover", "heartbeat"}, target : Peers, attempt : Nat,
                  stage : {"request", "answer"}, challenge : Signable(self), sent : BOOLEAN]
    BY CallFacts DEF Calls
  <2>4. /\ call'.op = call.op /\ call'.attempt = call.attempt /\ call'.stage = "answer"
        /\ call'.challenge = c /\ call'.sent = FALSE
    BY <2>1, <2>3
  <2>5. Awaited(c)'
    BY <1>3, <2>2 DEF Awaited, vars, c
  <2>6. OnTrack'
    BY <1>4, <2>4, <2>5 DEF OnTrack
  <2> QED BY <1>4, <2>1, <2>4, <2>6
<1>6. CASE Expected = "Ack"
  BY <1>4, <1>6 DEF Proceed, Return
<1> QED BY <1>5, <1>6, HandshakeFacts

LEMMA ProceedCall ==
    ASSUME RendezvousInv, ToleranceInv, call # NoCall, NEW d, Proceed(d)
    PROVE  \/ call' = NoCall /\ answer'.ok
           \/ /\ call'.op = "register" /\ call.op = "register" /\ call'.attempt = call.attempt
              /\ UNCHANGED answer
<1>1. CASE Expected = "Hello" /\ UNCHANGED answer
           /\ call' = [call EXCEPT !.stage = "answer", !.challenge = d.body, !.sent = FALSE]
  <2>1. call.op = "register"
    <3>1. CASE call.op = "discover"
      BY <1>1, <3>1, CallFacts
    <3>2. CASE call.op = "heartbeat"
      BY <1>1, <3>2 DEF ToleranceInv, Expected
    <3> QED BY <3>1, <3>2, CallFacts
  <2>2. call \in [op : {"register", "discover", "heartbeat"}, target : Peers, attempt : Nat,
                  stage : {"request", "answer"}, challenge : Signable(self), sent : BOOLEAN]
    BY CallFacts DEF Calls
  <2> QED BY <1>1, <2>1, <2>2
<1>2. CASE call' = NoCall /\ (\/ answer' = [op |-> "register", ok |-> TRUE]
                              \/ answer' = [op |-> "heartbeat", ok |-> TRUE]
                              \/ answer' = [op |-> "discover", target |-> call.target, ok |-> TRUE,
                                            source |-> d.body.source, endpoint |-> d.body.endpoint])
  BY <1>2
<1> QED BY <1>1, <1>2 DEF Proceed, Return

LEMMA ReceiveTolerated ==
    ASSUME RendezvousInv, ToleranceInv, NEW d \in BagToSet(down), Receive(d)
    PROVE  ToleranceInv'
<1>1. /\ call # NoCall /\ call.sent
      /\ UNCHANGED vars /\ UNCHANGED <<up, faults>>
      /\ down' = Without(down, d)
      /\ \/ IsExpected(d) /\ Proceed(d)
         \/ ~IsExpected(d) /\ UNCHANGED <<call, answer>>
  BY DEF Receive, Waiting
<1>2. UNCHANGED <<clock, now, pending>> /\ Told' = Told /\ faults \in Nat
  BY <1>1, SameServer DEF vars, RendezvousInv
<1>3. CASE ~IsExpected(d) /\ UNCHANGED <<call, answer>>
  <2>1. CASE ~IsHandshake(d)
    BY <1>1, <1>2, <1>3, <2>1, TakenOther, UndisturbedSame, Unnoticed
  <2>2. CASE IsHandshake(d)
    <3>1. d \in Handshakes(down)
      BY <2>2 DEF Handshakes
    <3>2. ~Quiet /\ ~OnTrack
      BY <1>1, <1>3, <3>1 DEF Quiet, OnTrack, Sole
    <3>3. FirstFault'
      BY <1>1, <1>3, <3>2 DEF ToleranceInv, FirstFault
    <3> QED BY <1>1, <1>2, <1>3, <3>3 DEF ToleranceInv, LossTolerated
  <2> QED BY <2>1, <2>2
<1>4. CASE IsExpected(d) /\ Proceed(d)
  <2>1. \/ call' = NoCall /\ answer'.ok
        \/ /\ call'.op = "register" /\ call.op = "register" /\ call'.attempt = call.attempt
           /\ UNCHANGED answer
    BY <1>1, <1>4, ProceedCall
  <2>2. call.op = "register" /\ OnTrack => Quiet' /\ (call'.op = "register" => OnTrack')
    BY <1>1, <1>4, ProceedOnTrack, NoCallFacts
  <2>3. Quiet => Quiet'
    BY <1>1, Taken DEF Quiet, Handshakes
  <2>4. FirstFault'
    BY <1>1, <2>1, <2>2, <2>3, NoCallFacts DEF ToleranceInv, FirstFault
  <2>5. LossTolerated'
    BY <1>1, <2>1 DEF ToleranceInv, LossTolerated
  <2> QED BY <1>2, <2>1, <2>4, <2>5, NoCallFacts DEF ToleranceInv
<1> QED BY <1>1, <1>3, <1>4

LEMMA NotifyTolerated ==
    ASSUME RendezvousInv, ToleranceInv, NEW d, ~IsHandshake(d), Notify(d)
    PROVE  ToleranceInv'
<1>1. UNCHANGED vars /\ UNCHANGED <<call, answer, down, faults>> /\ up' = With(up, d)
  BY DEF Notify
<1>2. UNCHANGED <<clock, now, pending>> /\ Told' = Told
  BY <1>1, SameServer DEF vars
<1> QED BY <1>1, <1>2, PutOther, UndisturbedSame, Unnoticed

LEMMA PollTolerated ==
    ASSUME ToleranceInv, NEW d, Poll(d)
    PROVE  ToleranceInv'
<1>1. /\ call = NoCall /\ down' = Without(down, d)
      /\ UNCHANGED vars /\ UNCHANGED <<call, answer, up, faults>>
  BY DEF Poll, client
<1>2. Quiet => Quiet'
  BY <1>1, Taken DEF Quiet, Handshakes
<1>3. FirstFault'
  BY <1>1, <1>2, NoCallFacts DEF ToleranceInv, FirstFault
<1> QED BY <1>1, <1>3 DEF ToleranceInv, LossTolerated, vars

LEMMA NetworkTolerated ==
    ASSUME RendezvousInv, ToleranceInv, Attempts >= 3,
           (\E d \in BagToSet(up) \cup BagToSet(down) : Lose(d) \/ Repeat(d)) \/ Probe
    PROVE  ToleranceInv'
<1>1. GoesWrong /\ UNCHANGED vars /\ UNCHANGED <<call, answer>>
  BY DEF Lose, Repeat, Probe, client
<1> QED BY <1>1, FaultTolerated DEF vars

LEMMA DiesTolerated ==
    ASSUME RendezvousInv, ToleranceInv, Attempts >= 3, ServerDies
    PROVE  ToleranceInv'
BY FaultTolerated DEF ServerDies, ServerRestart, client

-----------------------------------------------------------------------------
(* One fault: the server *)

\* What is no part of a handshake leaves self's challenge alone.
LEMMA OtherHandled ==
    ASSUME IInv, RendezvousInv, now = 0, NEW d \in BagToSet(up), ~IsHandshake(d), HandleOf(d)
    PROVE  /\ pending'[self] = pending[self]
           /\ \A e \in BagToSet(Replies) : ~IsHandshake(e)
           /\ UNCHANGED <<now, clock>>
<1> USE RendezvousAssumption
<1>1. /\ \E reg : Finish(reg, pending)
      /\ \/ out' = <<>>
         \/ \E to, body : out' = Reply(to, "Connect", body) \/ out' = Reply(to, "Heartbeat", body)
  <2>1. CASE HandleDiscover(d.body, SelfAddress)
    BY <2>1 DEF HandleDiscover
  <2>2. CASE HandleConnect(self, d.body, SelfAddress)
    BY <2>2 DEF HandleConnect
  <2>3. CASE HandleHeartbeat(self, SelfAddress)
    BY <2>3 DEF HandleHeartbeat
  <2>4. CASE HandleDisconnect(self)
    BY <2>4 DEF HandleDisconnect
  <2> QED BY <2>1, <2>2, <2>3, <2>4 DEF HandleOf, IsHandshake
<1>2. pending \in [Peers -> PendingEntries]
  BY DEF IInv, TypeOK
<1>3. pending'[self] = pending[self] /\ UNCHANGED <<now, clock>>
  BY <1>1, <1>2, NothingExpires DEF Finish
<1>4. \A type, body : Datagram(type, body).type = type
  BY DEF Datagram
<1>5. \A e \in BagToSet(Replies) : ~IsHandshake(e)
  BY <1>1, <1>4, RepliesAre DEF IsHandshake
<1> QED BY <1>3, <1>5

\* The request of an attempt that is on track is answered, and the answer is the
\* only thing on its way.
LEMMA AnsweredOnTrack ==
    ASSUME IInv, RendezvousInv, ToleranceInv, call.op = "register", OnTrack,
           NEW d \in BagToSet(up), IsHandshake(d), HandleOf(d), UNCHANGED call,
           up' = Without(up, d), down' = down (+) Replies
    PROVE  OnTrack'
<1> USE RendezvousAssumption
<1>1. d \in Handshakes(up) /\ call # NoCall
  BY NoCallFacts DEF Handshakes
<1>2. /\ call.sent /\ Sole(up, Request) /\ Handshakes(down) = {}
      /\ call.stage = "answer" => Awaited(call.challenge)
  BY <1>1 DEF OnTrack, Quiet
<1>3. d = Request /\ Handshakes(up') = {}
  BY <1>1, <1>2, TakenLast DEF Sole
<1>4. Expected' = Expected
  BY DEF Expected
<1>5. now = 0 /\ pending \in [Peers -> PendingEntries] /\ Len(issued) \in Nat
  BY SeqDomain DEF ToleranceInv, IInv, TypeOK
<1>6. ASSUME NEW type, NEW body, out' = Reply(SelfAddress, type, body), type = Expected,
             Datagram(type, body) \in Told', call.stage = "request" => Awaited(body)'
      PROVE  OnTrack'
  <2> DEFINE e == Datagram(type, body)
  <2>1. e.type = type /\ e.body = body
    BY DEF Datagram
  <2>2. BagToSet(Replies) = {e} /\ Replies[e] = 1
    BY <1>6, RepliesAre
  <2>3. IsHandshake(e)
    BY <1>1, <1>6, <2>1, HandshakeFacts DEF IsExpected
  <2>4. Sole(down', e)
    BY <1>2, <2>2, <2>3, PouredFirst
  <2>5. e \in Told' /\ IsExpected(e)' /\ (call'.stage = "request" => Awaited(e.body)')
    BY <1>4, <1>6, <2>1 DEF IsExpected
  <2> HIDE DEF e
  <2> QED BY <1>2, <1>3, <2>4, <2>5 DEF OnTrack
<1>7. CASE call.stage # "answer"
  <2> PICK c : c = Len(issued) + 1
    OBVIOUS
  <2> DEFINE pend == [pending EXCEPT ![self] = Challenged(c, SelfAddress, now + ChallengeTtl)]
  <2>1. d = Datagram("Register", Empty) /\ Expected = "Hello"
    BY <1>1, <1>3, <1>7, HandshakeFacts
  <2>2. d.type = "Register"
    BY <2>1 DEF Datagram
  <2>3. HandleRegister(self, SelfAddress)
    BY <2>2 DEF HandleOf
  <2>4. out' = Reply(SelfAddress, "Hello", c) /\ Finish(registry, pend)
    BY <2>3 DEF HandleRegister
  <2>5. Challenged(c, SelfAddress, now + ChallengeTtl) \in PendingEntries
    BY <1>5 DEF Challenged, PendingEntries
  <2>6. pend \in [Peers -> PendingEntries] /\ pend[self] = Challenged(c, SelfAddress, now + ChallengeTtl)
    BY <1>5, <2>5
  <2>7. c \in Signable(self)'
    BY <2>3, RegisterServed
  <2> HIDE DEF pend
  <2>8. Awaited(c)'
    BY <1>5, <2>4, <2>6, NothingExpires DEF Awaited, Challenged
  <2>9. Datagram("Hello", c) \in Told'
    BY <2>7 DEF Datagram, Told
  <2> QED BY <1>6, <2>1, <2>4, <2>8, <2>9
<1>8. CASE call.stage = "answer"
  <2>1. d = Datagram("Signed", call.challenge) /\ Expected = "Ack"
    BY <1>1, <1>3, <1>8, HandshakeFacts
  <2>2. d.type = "Signed" /\ d.body = call.challenge
    BY <2>1 DEF Datagram
  <2>3. HandleSigned(self, SelfAddress, call.challenge)
    BY <2>2 DEF HandleOf
  <2>4. Answerable(self, SelfAddress) /\ verify_detached(self, call.challenge)
    <3>1. /\ pending[self].active /\ pending[self].challenge = call.challenge
          /\ pending[self].endpoint = SelfAddress
      BY <1>2, <1>8 DEF Awaited
    <3>2. pending[self].expiry \in Nat
      BY <1>5, <3>1, ChallengeShape
    <3> QED BY <1>5, <3>1, <3>2 DEF Answerable, verify_detached
  <2>5. out' = Reply(SelfAddress, "Ack", SelfAddress)
    BY <2>3, <2>4 DEF HandleSigned
  <2>6. Proven'
    <3>1. call.challenge \in Signable(self)
      BY <1>1, CallFacts
    <3>2. out' # <<>>
      BY <2>5 DEF Reply
    <3> QED BY <2>3, <3>1, <3>2, SignedServed
  <2>7. Datagram("Ack", SelfAddress) \in Told'
    BY <2>6 DEF Datagram, Told
  <2> QED BY <1>6, <1>8, <2>1, <2>5, <2>7
<1> QED BY <1>7, <1>8

LEMMA ServerReceiveTolerated ==
    ASSUME IInv, RendezvousInv, ToleranceInv, NEW d \in BagToSet(up), ServerReceive(d)
    PROVE  ToleranceInv'
<1>1. /\ HandleOf(d) /\ up' = Without(up, d) /\ down' = down (+) Replies
      /\ UNCHANGED <<call, answer, faults>>
  BY DEF ServerReceive, client
<1>2. Told \subseteq Told' /\ now = 0
  BY <1>1, HandledServed, GrownSets DEF Served, ToleranceInv
<1>3. CASE ~IsHandshake(d)
  BY <1>1, <1>2, <1>3, OtherHandled, TakenOther, PouredOther, Unnoticed
<1>4. CASE IsHandshake(d)
  <2>1. ~Quiet
    BY <1>4 DEF Quiet, Handshakes
  <2>2. call.op = "register" /\ OnTrack => OnTrack'
    BY <1>1, <1>4, AnsweredOnTrack
  <2>3. FirstFault'
    BY <1>1, <2>1, <2>2 DEF ToleranceInv, FirstFault
  <2>4. UNCHANGED <<now, clock>>
    BY <1>1 DEF HandleOf, HandleRegister, HandleSigned, HandleDiscover, HandleConnect,
                HandleHeartbeat, HandleDisconnect, Finish
  <2> QED BY <1>1, <2>3, <2>4 DEF ToleranceInv, LossTolerated
<1> QED BY <1>3, <1>4

\* What the others do neither spends self's challenge nor answers self.
LEMMA OtherPeerTolerated ==
    ASSUME IInv, RendezvousInv, ToleranceInv, NEW q \in Others,
           NEW from \in Addresses \ {SelfAddress}, OtherPeer(q, from)
    PROVE  ToleranceInv'
<1> USE RendezvousAssumption
<1>1. /\ down' = down (+) Replies /\ UNCHANGED <<call, answer, faults, up>>
      /\ \/ HandleRegister(q, from)
         \/ \E c : HandleSigned(q, from, c)
         \/ HandleConnect(q, self, from)
  BY DEF OtherPeer, client
<1>2. q \in Peers /\ q # self /\ now = 0 /\ pending \in [Peers -> PendingEntries]
  BY DEF Others, ToleranceInv, IInv, TypeOK
<1>3. Told \subseteq Told'
  <2>1. RendezvousInv' /\ Next
    BY OtherPeerKeeps
  <2>2. CASE HandleRegister(q, from)
    BY <1>2, <2>2, RegisterServed, GrownSets DEF Served
  <2>3. CASE \E c \in Signable(q) : HandleSigned(q, from, c)
    BY <1>2, <2>3, SignedServed, GrownSets DEF Served
  <2>4. CASE HandleConnect(q, self, from)
    <3>1. UNCHANGED <<issued, proofs>>
      BY <2>4 DEF HandleConnect
    <3> QED BY <3>1, Growing, GrownSets
  <2> QED BY <2>2, <2>3, <2>4 DEF OtherPeer
<1>4. ASSUME NEW reg, NEW pend \in [Peers -> PendingEntries], Finish(reg, pend),
             pend[self] = pending[self], \A e \in BagToSet(Replies) : ~IsHandshake(e)
      PROVE  ToleranceInv'
  <2>1. pending'[self] = pending[self] /\ UNCHANGED <<clock, now>>
    BY <1>2, <1>4, NothingExpires DEF Finish
  <2> QED BY <1>1, <1>3, <1>4, <2>1, PouredOther, UndisturbedSame, Unnoticed
<1>5. CASE HandleRegister(q, from)
  <2> DEFINE c == Len(issued) + 1
             pend == [pending EXCEPT ![q] = Challenged(c, from, now + ChallengeTtl)]
  <2>1. out' = Reply(from, "Hello", c) /\ Finish(registry, pend)
    BY <1>5 DEF HandleRegister
  <2>2. c \in Nat
    BY SeqDomain DEF IInv, TypeOK
  <2>3. Challenged(c, from, now + ChallengeTtl) \in PendingEntries
    BY <1>2, <2>2 DEF Challenged, PendingEntries
  <2>4. pend \in [Peers -> PendingEntries] /\ pend[self] = pending[self]
    BY <1>2, <2>3
  <2> HIDE DEF pend, c
  <2>5. BagToSet(Replies) = {}
    BY <2>1, RepliesAre
  <2> QED BY <1>4, <2>1, <2>4, <2>5
<1>6. CASE \E c : HandleSigned(q, from, c)
  <2>1. /\ \E reg : Finish(reg, pending) \/ Finish(reg, SpendChallenge(q))
        /\ out' = <<>> \/ out' = Reply(from, "Ack", from)
    BY <1>6 DEF HandleSigned
  <2>2. SpendChallenge(q) \in [Peers -> PendingEntries] /\ SpendChallenge(q)[self] = pending[self]
    BY <1>2, SpendFacts DEF SpendChallenge
  <2>3. BagToSet(Replies) = {}
    BY <2>1, RepliesAre
  <2> QED BY <1>2, <1>4, <2>1, <2>2, <2>3
<1>7. CASE HandleConnect(q, self, from)
  <2>1. /\ Finish(registry, pending)
        /\ out' = <<>> \/ out' = Reply(registry[self].endpoint, "Connect", [source |-> q, endpoint |-> {from}])
    BY <1>7 DEF HandleConnect
  <2>2. \A type, body : Datagram(type, body).type = type
    BY DEF Datagram
  <2>3. \A e \in BagToSet(Replies) : ~IsHandshake(e)
    BY <2>1, <2>2, RepliesAre DEF IsHandshake
  <2> QED BY <1>2, <1>4, <2>1, <2>3
<1> QED BY <1>1, <1>5, <1>6, <1>7

LEMMA LoopTolerated ==
    ASSUME IInv, RendezvousInv, ToleranceInv, ServerLoop
    PROVE  ToleranceInv'
<1> USE RendezvousAssumption
<1>1. UNCHANGED <<call, answer, faults, up, down>>
  BY DEF ServerLoop, client
<1>2. clock = 0 /\ now = 0 /\ pending \in [Peers -> PendingEntries]
  BY DEF ToleranceInv, IInv, TypeOK
<1>3. /\ UNCHANGED <<issued, proofs, clock>> /\ now' = now
      /\ pending'[self] = pending[self]
  <2>1. CASE Idle
    BY <1>2, <2>1, NothingExpires DEF Idle, Finish
  <2>2. CASE Sample
    BY <1>2, <2>2 DEF Sample
  <2> QED BY <2>1, <2>2 DEF ServerLoop
<1>4. Told \subseteq Told'
  BY <1>3, Growing, GrownSets
<1> QED BY <1>1, <1>3, <1>4, UndisturbedSame, Unnoticed

LEMMA InitTolerated == RendezvousInit => ToleranceInv
<1> SUFFICES ASSUME RendezvousInit PROVE ToleranceInv
  OBVIOUS
<1>1. /\ call = NoCall /\ answer = NoCall /\ clock = 0 /\ now = 0
      /\ BagToSet(up) = {} /\ BagToSet(down) = {}
  BY DEF RendezvousInit, Init, EmptyBag, SetToBag, BagToSet
<1>2. Quiet
  BY <1>1 DEF Quiet, Handshakes
<1> QED BY <1>1, <1>2, NoCallFacts DEF ToleranceInv, FirstFault, LossTolerated

LEMMA StepTolerated ==
    ASSUME IInv, RendezvousInv, ToleranceInv, Attempts >= 3, [RendezvousNext]_allVars
    PROVE  ToleranceInv'
<1>1. \A type, body : Datagram(type, body).type = type
  BY DEF Datagram
<1>2. ASSUME NEW q, send_connect(q) PROVE ToleranceInv'
  <2>1. ~IsHandshake(Datagram("Connect", q))
    BY <1>1 DEF IsHandshake
  <2> QED BY <1>2, <2>1, NotifyTolerated DEF send_connect
<1>3. ASSUME disconnect PROVE ToleranceInv'
  <2>1. ~IsHandshake(Datagram("Disconnect", Empty))
    BY <1>1 DEF IsHandshake
  <2> QED BY <1>3, <2>1, NotifyTolerated DEF disconnect
<1>4. ASSUME UNCHANGED allVars PROVE ToleranceInv'
  <2>1. UNCHANGED vars /\ UNCHANGED <<call, answer, faults, up, down>>
    BY <1>4 DEF allVars, client
  <2>2. UNCHANGED <<clock, now, pending>> /\ Told' = Told
    BY <2>1, SameServer DEF vars
  <2> QED BY <2>1, <2>2, UndisturbedSame, Unnoticed
<1> QED
  BY <1>2, <1>3, <1>4, BeginTolerates, SendTolerated, TimeOutTolerated, ReceiveTolerated,
     PollTolerated, ServerReceiveTolerated, OtherPeerTolerated, LoopTolerated, DiesTolerated,
     NetworkTolerated
  DEF RendezvousNext

\* register_self gives up only after two faults of the network, the socket or the
\* server, with kDefaultAttempts or more: a lost, late or repeated datagram, a
\* refused send, a stray probe or a restart alone never makes it fail.
THEOREM SurvivesOneFault ==
    ASSUME Attempts >= 3
    PROVE  RendezvousSpec => []LossTolerated
<1>1. IInv /\ RendezvousInv /\ ToleranceInv /\ [RendezvousNext]_allVars => ToleranceInv'
  BY StepTolerated
<1>2. ToleranceInv => LossTolerated
  BY DEF ToleranceInv
<1> QED BY <1>1, <1>2, InitTolerated, InitRendezvous, NextRendezvous, PTL DEF RendezvousSpec
=============================================================================

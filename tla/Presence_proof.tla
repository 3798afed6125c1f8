---------------------------- MODULE Presence_proof ----------------------------
(***************************************************************************)
(* Theorems about Presence, for all periods, times to live, delays and     *)
(* numbers of losses that satisfy PresenceAssumption.                      *)
(***************************************************************************)
EXTENDS Presence, TLAPS

LEMMA ProductType ==
    ASSUME NEW m \in Nat, NEW n \in Nat
    PROVE  m * n \in Nat
BY SMT

LEMMA OneMore ==
    ASSUME NEW m \in Nat, NEW n \in Nat
    PROVE  (m + 1) * n = m * n + n
BY SMT

LEMMA ProductMonotone ==
    ASSUME NEW m \in Nat, NEW k \in Nat, NEW n \in Nat, m <= k
    PROVE  m * n <= k * n
<1>1. PICK d \in Nat : k = m + d
  BY SMT
<1>2. k * n = m * n + d * n
  BY <1>1, SMT
<1>3. m * n \in Nat /\ d * n \in Nat
  BY ProductType
<1> QED BY <1>2, <1>3, SMT

LEMMA ConstantTypes ==
    ASSUME NEW s \in Services
    PROVE  /\ Period[s] \in Nat /\ Ttl[s] \in Nat /\ MaxLosses[s] \in Nat
           /\ Round \in Nat /\ Delay \in Nat /\ Window \in Nat
           /\ Interval(s) \in Nat
           /\ Delay <= Period[s] /\ Silence(s) + Window <= Ttl[s]
BY PresenceAssumption DEF Interval

\* The renewals that can be lost cover no more than the longest silence.
LEMMA CoveredTime ==
    ASSUME IInv, NEW s \in Services, Followed(s)
    PROVE  age[s] <= Silence(s) + (IF listed[s] THEN Window ELSE 0)
<1> DEFINE I == Interval(s)
           r == Renewals(s)
           w == IF listed[s] THEN Window ELSE 0
<1>1. /\ I \in Nat /\ Delay \in Nat /\ MaxLosses[s] \in Nat /\ w \in Nat
      /\ Period[s] \in Nat /\ Round \in Nat /\ I = Period[s] + Round
  BY ConstantTypes DEF Interval
<1>2. /\ lost[s] \in Nat /\ since[s] \in Nat /\ age[s] \in Nat /\ round \in Nat
      /\ round <= Round /\ since[s] <= Period[s] + round /\ lost[s] <= MaxLosses[s]
      /\ flying[s] => since[s] <= Delay
      /\ age[s] <= r * I + since[s] + w
  BY DEF IInv, TypeOK, InTime, AgeIsCovered
<1>3. Silence(s) = MaxLosses[s] * I + I + Delay
  BY <1>1, OneMore DEF Silence
<1>4. lost[s] * I <= MaxLosses[s] * I /\ lost[s] * I \in Nat /\ MaxLosses[s] * I \in Nat
  BY <1>1, <1>2, ProductMonotone, ProductType
<1>5. CASE flying[s]
  <2>1. r * I = lost[s] * I + I
    BY <1>1, <1>2, <1>5, OneMore DEF Renewals
  <2> HIDE DEF I, r, w
  <2> QED BY <1>1, <1>2, <1>3, <1>4, <1>5, <2>1, SMT DEF w
<1>6. CASE ~flying[s]
  <2>1. r * I = lost[s] * I
    BY <1>6 DEF Renewals
  <2>2. since[s] <= I
    BY <1>1, <1>2, SMT
  <2> HIDE DEF I, r, w
  <2> QED BY <1>1, <1>2, <1>3, <1>4, <2>1, <2>2, SMT DEF w
<1> QED BY <1>5, <1>6

-----------------------------------------------------------------------------
LEMMA InitInv == Init => IInv
<1> SUFFICES ASSUME Init PROVE IInv
  OBVIOUS
<1>1. TypeOK
  BY DEF Init, TypeOK
<1>2. InTime
  BY PresenceAssumption DEF Init, InTime
<1>3. AgeIsCovered
  <2> SUFFICES ASSUME NEW s \in Services
               PROVE  age[s] <= Renewals(s) * Interval(s) + since[s]
                                 + (IF listed[s] THEN Window ELSE 0)
    BY DEF AgeIsCovered
  <2>1. Renewals(s) = 0 /\ age[s] = 0 /\ since[s] = 0
    BY DEF Init, Renewals
  <2>2. Interval(s) \in Nat /\ Window \in Nat
    BY ConstantTypes
  <2> QED BY <2>1, <2>2, SMT
<1> QED BY <1>1, <1>2, <1>3 DEF IInv

-----------------------------------------------------------------------------
(* One lemma per conjunct. *)

LEMMA TypeStep == IInv /\ [Next]_vars => TypeOK'
<1> SUFFICES ASSUME IInv, [Next]_vars PROVE TypeOK'
  OBVIOUS
<1> USE DEF IInv, TypeOK
<1>1. CASE Timers
  BY <1>1 DEF Timers, Due, server
<1>2. ASSUME NEW s \in Services, Deliver(s) PROVE TypeOK'
  BY <1>2 DEF Deliver, Recorded, client
<1>3. ASSUME NEW s \in Services, Idle(s) PROVE TypeOK'
  BY <1>3 DEF Idle, client
<1>4. ASSUME NEW s \in Services, ServerRestart(s) PROVE TypeOK'
  BY <1>4 DEF ServerRestart, client
<1>5. ASSUME NEW s \in Services, Lose(s) PROVE TypeOK'
  BY <1>5 DEF Lose, client, server
<1>6. CASE Tick
  BY <1>6 DEF Tick, Older
<1>7. CASE UNCHANGED vars
  BY <1>7 DEF vars, client, server
<1> QED BY <1>1, <1>2, <1>3, <1>4, <1>5, <1>6, <1>7 DEF Next

LEMMA InTimeStep == IInv /\ [Next]_vars => InTime'
<1> SUFFICES ASSUME IInv, [Next]_vars,
                    NEW s \in Services
             PROVE  /\ round' <= Round
                    /\ since'[s] <= Period[s] + round'
                    /\ flying'[s] => since'[s] <= Delay
                    /\ lag'[s] <= Window
                    /\ lost'[s] <= MaxLosses[s]
  BY DEF InTime, Services
<1>0. /\ Period[s] \in Nat /\ MaxLosses[s] \in Nat
      /\ Round \in Nat /\ Delay \in Nat /\ Window \in Nat /\ Delay <= Period[s]
  BY ConstantTypes
<1> USE DEF IInv, TypeOK, InTime
<1>1. CASE Timers
  BY <1>0, <1>1 DEF Timers, Due, server
<1>2. ASSUME NEW t \in Services, Deliver(t)
      PROVE  /\ since' = since /\ round' = round /\ (flying'[s] => flying[s])
             /\ lag'[s] <= Window /\ lost'[s] <= MaxLosses[s]
  BY <1>0, <1>2 DEF Deliver, client
<1>3. ASSUME NEW t \in Services, Idle(t) \/ ServerRestart(t)
      PROVE  UNCHANGED <<since, round, flying, lost>> /\ lag'[s] <= Window
  BY <1>0, <1>3 DEF Idle, ServerRestart, client
<1>4. ASSUME NEW t \in Services, Lose(t)
      PROVE  /\ UNCHANGED <<since, round, lag>> /\ (flying'[s] => flying[s])
             /\ lost'[s] <= MaxLosses[s]
  BY <1>0, <1>4 DEF Lose, client, server
<1>5. CASE Tick
  BY <1>0, <1>5 DEF Tick
<1>6. CASE UNCHANGED vars
  BY <1>6 DEF vars, client, server
<1> QED BY <1>1, <1>2, <1>3, <1>4, <1>5, <1>6 DEF Next

LEMMA AgeStep == IInv /\ [Next]_vars => AgeIsCovered'
<1> SUFFICES ASSUME IInv, [Next]_vars,
                    NEW s \in Services, Followed(s)'
             PROVE  age'[s] <= Renewals(s)' * Interval(s) + since'[s]
                                + (IF listed'[s] THEN Window ELSE 0)
  BY DEF AgeIsCovered, Interval
<1> DEFINE I == Interval(s)
           w(b) == IF b THEN Window ELSE 0
<1>0. /\ I \in Nat /\ Window \in Nat /\ Period[s] \in Nat /\ Round \in Nat
      /\ I = Period[s] + Round
  BY ConstantTypes DEF Interval
<1>1. /\ lost[s] \in Nat /\ since[s] \in Nat /\ age[s] \in Nat /\ lag[s] \in Nat
      /\ round \in Nat /\ flying[s] \in BOOLEAN /\ listed[s] \in BOOLEAN
      /\ Followed(s) => age[s] <= Renewals(s) * I + since[s] + w(listed[s])
      /\ since[s] <= I /\ lag[s] <= Window
      /\ flying[s] => since[s] <= Period[s]
  <2>1. /\ since[s] \in Nat /\ round \in Nat /\ round <= Round
        /\ since[s] <= Period[s] + round
        /\ flying[s] => since[s] <= Delay
        /\ Delay \in Nat /\ Delay <= Period[s]
    BY ConstantTypes DEF IInv, TypeOK, InTime
  <2>2. since[s] <= I /\ (flying[s] => since[s] <= Period[s])
    <3> HIDE DEF I
    <3> QED BY <1>0, <2>1, SMT
  <2> QED BY <2>1, <2>2 DEF IInv, TypeOK, InTime, AgeIsCovered
<1>2. /\ lost[s] * I \in Nat /\ (lost[s] + 1) * I = lost[s] * I + I
      /\ Renewals(s) * I = IF flying[s] THEN lost[s] * I + I ELSE lost[s] * I
  BY <1>0, <1>1, ProductType, OneMore DEF Renewals
<1> HIDE DEF I
<1> SUFFICES age'[s] <= Renewals(s)' * I + since'[s] + w(listed'[s])
  BY DEF I
<1>3. CASE Timers
  <2>1. /\ age' = age /\ listed' = listed /\ lost' = lost
        /\ since'[s] = IF Due(s) THEN 0 ELSE since[s]
        /\ flying'[s] = (flying[s] \/ Due(s))
        /\ Followed(s)
    BY <1>3 DEF Timers, server, Followed
  <2>2. CASE Due(s)
    <3>1. ~flying[s]
      BY <1>0, <1>1, <2>2, SMT DEF Due
    <3>2. Renewals(s)' = lost[s] + 1 /\ since'[s] = 0
      BY <2>1, <2>2 DEF Renewals
    <3> QED BY <1>0, <1>1, <1>2, <2>1, <3>1, <3>2, SMT
  <2>3. CASE ~Due(s)
    <3>1. Renewals(s)' = Renewals(s) /\ since'[s] = since[s]
      BY <1>1, <2>1, <2>3 DEF Renewals
    <3> QED BY <1>1, <2>1, <3>1
  <2> QED BY <2>2, <2>3
<1>4. ASSUME NEW t \in Services, Deliver(t), t = s
      PROVE  age'[s] <= Renewals(s)' * I + since'[s] + w(listed'[s])
  <2>1. since' = since /\ lost'[s] = 0 /\ flying'[s] = FALSE
    BY <1>4 DEF Deliver, client, IInv, TypeOK
  <2>2. Recorded(s) /\ listed'[s] = TRUE /\ age'[s] = lag[s]
    BY <1>4 DEF Deliver, Recorded, Followed, IInv, TypeOK
  <2>3. Renewals(s)' = 0 /\ 0 * I = 0
    BY <1>0, <2>1, SMT DEF Renewals
  <2> QED BY <1>0, <1>1, <2>1, <2>2, <2>3, SMT
<1>5. ASSUME NEW t \in Services, Deliver(t) \/ Idle(t) \/ ServerRestart(t) \/ Lose(t), t # s
      PROVE  age'[s] <= Renewals(s)' * I + since'[s] + w(listed'[s])
  <2>1. /\ since' = since /\ lost'[s] = lost[s] /\ flying'[s] = flying[s]
        /\ age'[s] = age[s] /\ listed'[s] = listed[s]
    BY <1>5 DEF Deliver, Idle, ServerRestart, Lose, client, server, IInv, TypeOK
  <2>2. Renewals(s)' = Renewals(s) /\ Followed(s)
    BY <2>1 DEF Renewals, Followed
  <2> QED BY <1>1, <2>1, <2>2
<1>6. ASSUME NEW t \in Services, Idle(t) \/ ServerRestart(t), t = s
      PROVE  age'[s] <= Renewals(s)' * I + since'[s] + w(listed'[s])
  <2>1. since' = since /\ lost' = lost /\ flying' = flying /\ Renewals(s)' = Renewals(s)
    BY <1>6 DEF Idle, ServerRestart, client, Renewals
  <2>2. Renewals(s) * I \in Nat
    BY <1>0, <1>1, <1>2
  <2>3. CASE age'[s] = 0
    BY <1>0, <1>1, <2>1, <2>2, <2>3, SMT
  <2>4. CASE age'[s] # 0
    <3>1. age'[s] = age[s] /\ listed'[s] = listed[s] /\ Followed(s)
      BY <1>6, <2>4 DEF Idle, ServerRestart, Followed, IInv, TypeOK
    <3> QED BY <1>1, <2>1, <3>1
  <2> QED BY <2>3, <2>4
<1>7. ASSUME NEW t \in Services, Lose(t), t = s
      PROVE  age'[s] <= Renewals(s)' * I + since'[s] + w(listed'[s])
  <2>1. /\ since' = since /\ age' = age /\ listed' = listed /\ flying[s]
        /\ lost'[s] = lost[s] + 1 /\ flying'[s] = FALSE
    BY <1>7 DEF Lose, client, server, IInv, TypeOK
  <2>2. Renewals(s)' = lost[s] + 1 /\ Renewals(s) = lost[s] + 1 /\ Followed(s)
    BY <2>1 DEF Renewals, Followed
  <2> QED BY <1>1, <2>1, <2>2
<1>8. CASE Tick
  <2>1. /\ since'[s] = since[s] + 1 /\ lost' = lost /\ flying' = flying
        /\ listed' = listed /\ Followed(s) /\ age'[s] = age[s] + 1
    BY <1>8 DEF Tick, Older, Followed
  <2>2. Renewals(s)' = Renewals(s) /\ Renewals(s) * I \in Nat
    BY <1>0, <1>1, <1>2, <2>1 DEF Renewals
  <2> QED BY <1>0, <1>1, <2>1, <2>2, SMT
<1>9. CASE UNCHANGED vars
  <2>1. since' = since /\ age' = age /\ listed' = listed /\ Renewals(s)' = Renewals(s)
    BY <1>9 DEF vars, client, server, Renewals
  <2> QED BY <1>1, <2>1 DEF Followed
<1> QED BY <1>3, <1>4, <1>5, <1>6, <1>7, <1>8, <1>9 DEF Next

-----------------------------------------------------------------------------
\* The invariant behind the two theorems below: the age of an entry is covered
\* by the renewals lost since (the timers of run and net_loop).
THEOREM Covered == Spec => []IInv
<1>1. IInv /\ [Next]_vars => IInv'
  BY TypeStep, InTimeStep, AgeStep DEF IInv
<1> QED BY InitInv, <1>1, PTL DEF Spec

\* For all periods, delays and numbers of losses that the time to live allows
\* for, a client whose loop runs is never expired by a server.
THEOREM StaysKnown == Spec => []NeverExpires
<1>1. IInv => NeverExpires
  <2> SUFFICES ASSUME IInv, NEW s \in Services, listed[s] PROVE ~Expired(s)
    BY DEF NeverExpires
  <2>1. age[s] <= Silence(s) + Window
    BY CoveredTime DEF Followed
  <2>2. age[s] \in Nat /\ lag[s] \in Nat
    BY DEF IInv, TypeOK
  <2>3. Silence(s) + Window <= Ttl[s] /\ Ttl[s] \in Nat /\ Silence(s) \in Nat /\ Window \in Nat
    <3>1. MaxLosses[s] + 1 \in Nat /\ Interval(s) \in Nat /\ Delay \in Nat
      BY ConstantTypes
    <3>2. Silence(s) \in Nat
      BY <3>1, ProductType DEF Silence
    <3> QED BY <3>2, ConstantTypes
  <2> QED BY <2>1, <2>2, <2>3, SMT DEF Expired
<1> QED BY Covered, <1>1, PTL

\* After a restart of the relay, the route is back within the longest silence.
THEOREM RouteReturns == Spec => []RouteComesBack
<1>1. IInv => RouteComesBack
  <2> SUFFICES ASSUME IInv, ~listed["relay"] PROVE age["relay"] <= Silence("relay")
    BY DEF RouteComesBack
  <2>1. "relay" \in Services /\ Followed("relay")
    BY DEF Services, Followed
  <2>2. age["relay"] <= Silence("relay") + 0
    BY <2>1, CoveredTime
  <2>3. Silence("relay") \in Nat
    <3>1. MaxLosses["relay"] + 1 \in Nat /\ Interval("relay") \in Nat /\ Delay \in Nat
      BY <2>1, ConstantTypes
    <3> QED BY <3>1, ProductType DEF Silence
  <2> QED BY <2>2, <2>3, SMT
<1> QED BY Covered, <1>1, PTL
=============================================================================

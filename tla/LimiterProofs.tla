--------------------------- MODULE LimiterProofs ----------------------------
(***************************************************************************)
(* Proof that the rate limiter admits no more than its burst and its rate  *)
(* allow, in any period, and that refused calls cost a client nothing, for *)
(* every rate, burst and number of clients.                                *)
(***************************************************************************)
EXTENDS Limiter, TLAPS

LEMMA ConstantsAreNat ==
    Rate \in Nat /\ Burst \in Nat /\ Cost \in Nat /\ Cost >= 1 /\ Cost <= Burst /\ MaxClock \in Nat
  BY LimiterAssumption

\* One tick brings Rate.
LEMMA OneTick ==
    ASSUME NEW a \in Int, NEW b \in Int
    PROVE  /\ \A c \in Int : c = a + 1 => /\ Rate * (c - b) = Rate * (a - b) + Rate
                                         /\ (c - b) * Rate = (a - b) * Rate + Rate
           /\ Rate * (a - b) \in Int /\ (a - b) * Rate \in Int
           /\ Rate * (a - a) = 0 /\ (a - a) * Rate = 0
           /\ a >= b => Rate * (a - b) >= 0 /\ (a - b) * Rate >= 0
  BY ConstantsAreNat

\* The same, ready to be instantiated without arithmetic.
LEMMA TickProduct ==
    \A a, b, c \in Int : c = a + 1 => /\ (c - b) * Rate = (a - b) * Rate + Rate
                                      /\ Rate * (c - b) = Rate * (a - b) + Rate
<1> SUFFICES ASSUME NEW a \in Int, NEW b \in Int
             PROVE  \A c \in Int : c = a + 1 => /\ (c - b) * Rate = (a - b) * Rate + Rate
                                               /\ Rate * (c - b) = Rate * (a - b) + Rate
  OBVIOUS
<1> QED
  BY ConstantsAreNat

\* What the type invariant says of one key.
LEMMA KeyTypes ==
    ASSUME LimiterIInv, NEW k \in Keys
    PROVE  /\ clock \in Int /\ from[k] \in Int /\ lastGrant[k] \in Int /\ spent[k] \in Nat
           /\ from[k] <= clock /\ lastGrant[k] <= clock
           /\ buckets[k] # NoBucket => /\ buckets[k].tokens \in 0..Burst
                                       /\ buckets[k].last \in 0..MaxClock
                                       /\ buckets[k].last <= clock
  BY ConstantsAreNat DEF LimiterIInv, LimiterTypeOK, ClocksBehind

\* A refilled bucket is between empty and full.
LEMMA RefilledBounds ==
    ASSUME LimiterIInv, NEW k \in Keys
    PROVE  Refilled(k) \in 0..Burst
<1>1. CASE buckets[k] = NoBucket
  BY <1>1, ConstantsAreNat DEF Refilled
<1>2. CASE buckets[k] # NoBucket
  <2> DEFINE in == (clock - buckets[k].last) * Rate
  <2>1. in \in Int /\ in >= 0
    BY <1>2, KeyTypes, OneTick, ConstantsAreNat
  <2>2. buckets[k].tokens \in 0..Burst
    BY <1>2, KeyTypes
  <2>3. Refilled(k) = Least(Burst, buckets[k].tokens + in)
    BY <1>2 DEF Refilled
  <2> HIDE DEF in
  <2> QED
    BY <2>1, <2>2, <2>3, ConstantsAreNat DEF Least
<1> QED
  BY <1>1, <1>2

\* Right after a call the bucket of k holds what the call left in it.
LEMMA RefilledAfterCall ==
    ASSUME LimiterIInv, NEW k \in Keys, NEW n \in 0..Burst, clock' = clock,
           buckets' = [buckets EXCEPT ![k] = [tokens |-> n, last |-> clock]]
    PROVE  /\ Refilled(k)' = n
           /\ \A j \in Keys : j # k => Refilled(j)' = Refilled(j)
           /\ buckets' \in [Keys -> [tokens : 0..Burst, last : 0..MaxClock] \cup {NoBucket}]
           /\ \A j \in Keys : buckets'[j].last <= clock
<1> DEFINE b == [tokens |-> n, last |-> clock]
<1>1. buckets'[k] = b /\ \A j \in Keys : j # k => buckets'[j] = buckets[j]
  BY DEF LimiterIInv, LimiterTypeOK
<1>2. b # NoBucket /\ b \in [tokens : 0..Burst, last : 0..MaxClock]
  BY DEF NoBucket, LimiterIInv, LimiterTypeOK
<1>3. Refilled(k)' = Least(Burst, n + (clock - clock) * Rate)
  BY <1>1, <1>2 DEF Refilled
<1>4. (clock - clock) * Rate = 0 /\ clock \in Int
  BY KeyTypes, OneTick
<1>5. Refilled(k)' = n
  BY <1>3, <1>4, ConstantsAreNat DEF Least
<1>6. \A j \in Keys : j # k => Refilled(j)' = Refilled(j)
  BY <1>1 DEF Refilled
<1> QED
  BY <1>1, <1>2, <1>4, <1>5, <1>6 DEF LimiterIInv, LimiterTypeOK, ClocksBehind

LEMMA InitHolds == LimiterInit => LimiterIInv
  BY ConstantsAreNat DEF LimiterInit, LimiterIInv, LimiterTypeOK, ClocksBehind, Conserved, Accumulated, Refilled, NoBucket, Least

LEMMA GrantedKeepsInv ==
    ASSUME LimiterIInv, NEW k \in Keys, Granted(k), UNCHANGED <<clock, from>>
    PROVE  LimiterIInv'
<1> DEFINE n == Refilled(k) - Cost
<1>1. n \in 0..Burst /\ Refilled(k) \in 0..Burst
  BY RefilledBounds, ConstantsAreNat DEF Granted
<1>2. /\ buckets' = [buckets EXCEPT ![k] = [tokens |-> n, last |-> clock]]
      /\ spent' = [spent EXCEPT ![k] = @ + Cost]
      /\ lastGrant' = [lastGrant EXCEPT ![k] = clock]
      /\ clock' = clock /\ from' = from
  BY DEF Granted
<1>3. /\ Refilled(k)' = n
      /\ \A j \in Keys : j # k => Refilled(j)' = Refilled(j)
      /\ buckets' \in [Keys -> [tokens : 0..Burst, last : 0..MaxClock] \cup {NoBucket}]
      /\ \A j \in Keys : buckets'[j].last <= clock
  BY <1>1, <1>2, RefilledAfterCall
<1>4. /\ spent'[k] = spent[k] + Cost /\ \A j \in Keys : j # k => spent'[j] = spent[j]
      /\ lastGrant'[k] = clock /\ \A j \in Keys : j # k => lastGrant'[j] = lastGrant[j]
  BY <1>2 DEF LimiterIInv, LimiterTypeOK
<1>5. LimiterTypeOK' /\ ClocksBehind'
  BY <1>2, <1>3, <1>4, KeyTypes, ConstantsAreNat DEF LimiterIInv, LimiterTypeOK, ClocksBehind
<1>6. Conserved'
  <2> SUFFICES ASSUME NEW j \in Keys
               PROVE  spent'[j] + Refilled(j)' <= Burst + Rate * (clock - from[j])
    BY <1>2 DEF Conserved
  <2>1. CASE j = k
    <3>1. spent[k] + Refilled(k) <= Burst + Rate * (clock - from[k])
      BY DEF LimiterIInv, Conserved
    <3>2. spent'[k] + Refilled(k)' = spent[k] + Refilled(k)
      BY <1>1, <1>3, <1>4, KeyTypes, ConstantsAreNat
    <3> QED
      BY <2>1, <3>1, <3>2
  <2>2. CASE j # k
    BY <1>3, <1>4, <2>2 DEF LimiterIInv, Conserved
  <2> QED
    BY <2>1, <2>2
<1>7. Accumulated'
  <2> SUFFICES ASSUME NEW j \in Keys
               PROVE  Refilled(j)' >= Least(Burst, Rate * (clock - lastGrant'[j]))
    BY <1>2 DEF Accumulated, Least
  <2>1. CASE j = k
    <3>1. Rate * (clock - lastGrant'[j]) = 0
      BY <1>4, <2>1, KeyTypes, OneTick
    <3> QED
      BY <1>1, <1>3, <2>1, <3>1, ConstantsAreNat DEF Least
  <2>2. CASE j # k
    BY <1>3, <1>4, <2>2 DEF LimiterIInv, Accumulated
  <2> QED
    BY <2>1, <2>2
<1> QED
  BY <1>5, <1>6, <1>7 DEF LimiterIInv

LEMMA RefusedKeepsInv ==
    ASSUME LimiterIInv, NEW k \in Keys, Refused(k), UNCHANGED <<clock, from>>
    PROVE  LimiterIInv'
<1>1. Refilled(k) \in 0..Burst
  BY RefilledBounds
<1>2. /\ buckets' = [buckets EXCEPT ![k] = [tokens |-> Refilled(k), last |-> clock]]
      /\ spent' = spent /\ lastGrant' = lastGrant /\ clock' = clock /\ from' = from
  BY DEF Refused
<1>3. /\ \A j \in Keys : Refilled(j)' = Refilled(j)
      /\ buckets' \in [Keys -> [tokens : 0..Burst, last : 0..MaxClock] \cup {NoBucket}]
      /\ \A j \in Keys : buckets'[j].last <= clock
  BY <1>1, <1>2, RefilledAfterCall
<1>4. LimiterTypeOK' /\ ClocksBehind'
  BY <1>2, <1>3 DEF LimiterIInv, LimiterTypeOK, ClocksBehind
<1>5. Conserved'
  BY <1>2, <1>3 DEF LimiterIInv, Conserved
<1>6. Accumulated'
  BY <1>2, <1>3 DEF LimiterIInv, Accumulated
<1> QED
  BY <1>4, <1>5, <1>6 DEF LimiterIInv

LEMMA ObserveKeepsInv ==
    ASSUME LimiterIInv, NEW k \in Keys, Observe(k)
    PROVE  LimiterIInv'
<1>1. /\ from' = [from EXCEPT ![k] = clock] /\ spent' = [spent EXCEPT ![k] = 0]
      /\ clock' = clock /\ buckets' = buckets /\ lastGrant' = lastGrant
  BY DEF Observe
<1>2. /\ spent'[k] = 0 /\ \A j \in Keys : j # k => spent'[j] = spent[j]
      /\ from'[k] = clock /\ \A j \in Keys : j # k => from'[j] = from[j]
  BY <1>1 DEF LimiterIInv, LimiterTypeOK
<1>3. \A j \in Keys : Refilled(j)' = Refilled(j)
  BY <1>1 DEF Refilled
<1>4. LimiterTypeOK' /\ ClocksBehind'
  BY <1>1, <1>2, KeyTypes DEF LimiterIInv, LimiterTypeOK, ClocksBehind
<1>5. Accumulated'
  BY <1>1, <1>3 DEF LimiterIInv, Accumulated
<1>6. Conserved'
  <2> SUFFICES ASSUME NEW j \in Keys
               PROVE  spent'[j] + Refilled(j) <= Burst + Rate * (clock - from'[j])
    BY <1>1, <1>3 DEF Conserved
  <2>1. CASE j = k
    <3>1. Rate * (clock - from'[j]) = 0
      BY <1>2, <2>1, KeyTypes, OneTick
    <3>2. Refilled(j) \in 0..Burst
      BY RefilledBounds
    <3> QED
      BY <1>2, <2>1, <3>1, <3>2, ConstantsAreNat
  <2>2. CASE j # k
    BY <1>2, <2>2 DEF LimiterIInv, Conserved
  <2> QED
    BY <2>1, <2>2
<1> QED
  BY <1>4, <1>5, <1>6 DEF LimiterIInv

\* In a tick a bucket gains at most Rate, and Rate unless it is full.
LEMMA RefilledAfterTick ==
    ASSUME LimiterIInv, LimiterTick, NEW k \in Keys
    PROVE  /\ Refilled(k)' \in Int
           /\ Refilled(k)' <= Refilled(k) + Rate
           /\ Refilled(k)' = Burst \/ Refilled(k)' = Refilled(k) + Rate
<1>1. clock' = clock + 1 /\ buckets' = buckets
  BY DEF LimiterTick
<1>2. Refilled(k) \in 0..Burst
  BY RefilledBounds
<1>3. CASE buckets[k] = NoBucket
  <2>1. Refilled(k)' = Burst /\ Refilled(k) = Burst
    BY <1>1, <1>3 DEF Refilled
  <2> QED
    BY <2>1, ConstantsAreNat
<1>4. CASE buckets[k] # NoBucket
  <2> DEFINE in == (clock - buckets[k].last) * Rate
             t == buckets[k].tokens
  <2>1. in \in Int /\ in >= 0
    BY <1>4, KeyTypes, OneTick, ConstantsAreNat
  <2>2. t \in 0..Burst
    BY <1>4, KeyTypes
  <2>3. Refilled(k) = Least(Burst, t + in)
    BY <1>4 DEF Refilled
  <2>4. Refilled(k)' = Least(Burst, t + (in + Rate))
    <3>1. Refilled(k)' = Least(Burst, t + (clock' - buckets[k].last) * Rate)
      BY <1>1, <1>4 DEF Refilled
    <3>2. clock \in Int /\ clock' \in Int /\ clock' = clock + 1 /\ buckets[k].last \in Int
      BY <1>1, <1>4, KeyTypes, ConstantsAreNat
    <3>3. (clock' - buckets[k].last) * Rate = (clock - buckets[k].last) * Rate + Rate
      BY <3>2, TickProduct, Zenon
    <3> QED
      BY <3>1, <3>3
  <2> HIDE DEF in, t
  <2> QED
    BY <2>1, <2>2, <2>3, <2>4, ConstantsAreNat DEF Least
<1> QED
  BY <1>3, <1>4

LEMMA TickKeepsInv ==
    ASSUME LimiterIInv, LimiterTick
    PROVE  LimiterIInv'
<1>1. /\ clock < MaxClock /\ clock' = clock + 1
      /\ buckets' = buckets /\ from' = from /\ spent' = spent /\ lastGrant' = lastGrant
  BY DEF LimiterTick
<1>2. clock \in 0..MaxClock
  BY DEF LimiterIInv, LimiterTypeOK
<1>3. LimiterTypeOK'
  BY <1>1, <1>2, ConstantsAreNat DEF LimiterIInv, LimiterTypeOK
<1>4. ClocksBehind'
  <2> SUFFICES ASSUME NEW j \in Keys
               PROVE  buckets[j].last <= clock + 1 /\ from[j] <= clock + 1 /\ lastGrant[j] <= clock + 1
    BY <1>1 DEF ClocksBehind
  <2>1. buckets[j].last \in Int
    BY KeyTypes, ConstantsAreNat DEF NoBucket
  <2> QED
    BY <1>2, <2>1, KeyTypes, ConstantsAreNat DEF LimiterIInv, ClocksBehind
<1>5. Conserved'
  <2> SUFFICES ASSUME NEW j \in Keys
               PROVE  spent'[j] + Refilled(j)' <= Burst + Rate * (clock' - from'[j])
    BY DEF Conserved
  <2> DEFINE in == Rate * (clock - from[j])
  <2>1. in \in Int /\ Rate * (clock' - from'[j]) = in + Rate /\ spent'[j] = spent[j]
    <3>1. clock' \in Int /\ clock' = clock + 1 /\ from'[j] = from[j]
      BY <1>1, KeyTypes
    <3>2. Rate * (clock' - from[j]) = in + Rate
      BY <3>1, KeyTypes, OneTick
    <3> QED
      BY <1>1, <3>1, <3>2, KeyTypes, OneTick
  <2>2. spent[j] + Refilled(j) <= Burst + in
    BY DEF LimiterIInv, Conserved
  <2>3. Refilled(j) \in 0..Burst /\ Refilled(j)' \in Int /\ Refilled(j)' <= Refilled(j) + Rate
        /\ spent[j] \in Nat
    BY RefilledBounds, RefilledAfterTick, KeyTypes
  <2> HIDE DEF in
  <2> QED
    BY <2>1, <2>2, <2>3, ConstantsAreNat
<1>6. Accumulated'
  <2> SUFFICES ASSUME NEW j \in Keys
               PROVE  Refilled(j)' >= Least(Burst, Rate * (clock' - lastGrant'[j]))
    BY DEF Accumulated, Least
  <2> DEFINE in == Rate * (clock - lastGrant[j])
  <2>1. in \in Int /\ Rate * (clock' - lastGrant'[j]) = in + Rate
    <3>1. clock' \in Int /\ clock' = clock + 1 /\ lastGrant'[j] = lastGrant[j]
      BY <1>1, KeyTypes
    <3>2. Rate * (clock' - lastGrant[j]) = in + Rate
      BY <3>1, KeyTypes, OneTick
    <3> QED
      BY <1>1, <3>1, <3>2, KeyTypes, OneTick
  <2>2. Refilled(j) >= Least(Burst, in)
    BY DEF LimiterIInv, Accumulated
  <2>3. Refilled(j) \in 0..Burst /\ Refilled(j)' \in Int
        /\ (Refilled(j)' = Burst \/ Refilled(j)' = Refilled(j) + Rate)
    BY RefilledBounds, RefilledAfterTick
  <2> HIDE DEF in
  <2> QED
    BY <2>1, <2>2, <2>3, ConstantsAreNat DEF Least
<1> QED
  BY <1>3, <1>4, <1>5, <1>6 DEF LimiterIInv

LEMMA StutterKeepsInv ==
    ASSUME LimiterIInv, UNCHANGED limiterVars
    PROVE  LimiterIInv'
  BY DEF LimiterIInv, limiterVars, LimiterTypeOK, ClocksBehind, Conserved, Accumulated, Refilled, Least

\* Every reachable state satisfies the inductive invariant.
THEOREM LimiterInvariant == LimiterSpec => []LimiterIInv
<1>1. LimiterIInv /\ [LimiterNext]_limiterVars => LimiterIInv'
  BY GrantedKeepsInv, RefusedKeepsInv, ObserveKeepsInv, TickKeepsInv, StutterKeepsInv
     DEF LimiterNext, Allow
<1> QED
  BY InitHolds, <1>1, PTL DEF LimiterSpec

\* Allow never grants a key more than the burst and the rate allow, whatever
\* the period, the calls made in it and their timing.
THEOREM LimiterNeverOverAdmits == LimiterSpec => []NeverOverAdmits
<1>1. LimiterIInv => NeverOverAdmits
  <2> SUFFICES ASSUME LimiterIInv, NEW k \in Keys
               PROVE  spent[k] <= Burst + Rate * (clock - from[k])
    BY DEF NeverOverAdmits
  <2>1. Refilled(k) \in 0..Burst /\ spent[k] \in Nat
    BY RefilledBounds, KeyTypes
  <2>2. Rate * (clock - from[k]) \in Int
    BY KeyTypes, OneTick
  <2> DEFINE in == Rate * (clock - from[k])
  <2>3. spent[k] + Refilled(k) <= Burst + in
    BY DEF LimiterIInv, Conserved
  <2>4. in \in Int
    BY <2>2
  <2> HIDE DEF in
  <2>5. spent[k] <= Burst + in
    BY <2>1, <2>3, <2>4, ConstantsAreNat
  <2> QED
    BY <2>5 DEF in
<1> QED
  BY LimiterInvariant, <1>1, PTL

\* Allow grants the call of a key that was granted none for as long as a token
\* takes to flow in, however many of its calls were refused since.
THEOREM LimiterRefusalsAreFree == LimiterSpec => []RefusalsAreFree
<1>1. LimiterIInv => RefusalsAreFree
  <2> SUFFICES ASSUME LimiterIInv, NEW k \in Keys, Rate * (clock - lastGrant[k]) >= Cost
               PROVE  Refilled(k) >= Cost
    BY DEF RefusalsAreFree
  <2> DEFINE in == Rate * (clock - lastGrant[k])
  <2>1. in \in Int /\ in >= Cost /\ Refilled(k) \in 0..Burst
    BY KeyTypes, OneTick, RefilledBounds
  <2>2. Refilled(k) >= Least(Burst, in)
    BY DEF LimiterIInv, Accumulated
  <2> HIDE DEF in
  <2> QED
    BY <2>1, <2>2, ConstantsAreNat DEF Least
<1> QED
  BY LimiterInvariant, <1>1, PTL
=============================================================================

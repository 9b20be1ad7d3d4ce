------------------------------ MODULE Limiter -------------------------------
(***************************************************************************)
(* The token-bucket rate limiter in front of login, enrollment, ingestion, *)
(* the SSH console and first-boot setup: type Limiter of                   *)
(* apps/api/internal/httpx/middleware.go.                                  *)
(*                                                                         *)
(* Allow holds l.mu from start to end, so a call is one step.  Tokens are  *)
(* floats in the code; here they are counted in whole grains, of which a   *)
(* request costs Cost, the bucket holds Burst and Rate flow in per tick.   *)
(* Buckets are kept for ever: the map has no eviction.                     *)
(***************************************************************************)
EXTENDS Integers

CONSTANTS Keys,      \* the clients, by address
          Rate,      \* l.rate: grains per tick
          Burst,     \* l.burst: grains a full bucket holds
          Cost,      \* grains a request costs: the 1 in the code
          MaxClock   \* bound: when the clock stops

ASSUME LimiterAssumption ==
    /\ {Rate, Burst, MaxClock} \subseteq Nat
    /\ Cost \in 1..Burst

NoBucket == [tokens |-> -1, last |-> 0]

VARIABLES clock,    \* the clock
          buckets,  \* l.buckets: tokens and last of each key, or NoBucket
          from,     \* history: the start of a period of observation, per key
          spent,    \* history: grains each key was granted in its period
          lastGrant \* history: when each key was last granted a request (0: never)

limiterVars == <<clock, buckets, from, spent, lastGrant>>

LimiterTypeOK ==
    /\ clock \in 0..MaxClock
    /\ buckets \in [Keys -> [tokens : 0..Burst, last : 0..MaxClock] \cup {NoBucket}]
    /\ from \in [Keys -> 0..MaxClock]
    /\ spent \in [Keys -> Nat]
    /\ lastGrant \in [Keys -> 0..MaxClock]

-----------------------------------------------------------------------------
Least(a, b) == IF a <= b THEN a ELSE b

\* Mutant of Refilled: the bucket has no ceiling.
RefilledUncapped(k) ==
    IF buckets[k] = NoBucket THEN Burst
    ELSE buckets[k].tokens + (clock - buckets[k].last) * Rate

\* What Allow finds in the bucket of k once it has refilled it.
Refilled(k) ==
    IF buckets[k] = NoBucket THEN Burst
    ELSE Least(Burst, buckets[k].tokens + (clock - buckets[k].last) * Rate)

\* Mutant of Granted: the time of the refill is not noted.
GrantedClockStands(k) ==
    /\ Refilled(k) >= Cost
    /\ buckets' = [buckets EXCEPT ![k] = [tokens |-> Refilled(k) - Cost, last |-> @.last]]
    /\ spent' = [spent EXCEPT ![k] = @ + Cost]
    /\ lastGrant' = [lastGrant EXCEPT ![k] = clock]

\* Allow returns true: for a new key, or when a whole token is there.
Granted(k) ==
    /\ Refilled(k) >= Cost
    /\ buckets' = [buckets EXCEPT ![k] = [tokens |-> Refilled(k) - Cost, last |-> clock]]
    /\ spent' = [spent EXCEPT ![k] = @ + Cost]
    /\ lastGrant' = [lastGrant EXCEPT ![k] = clock]

\* Mutant of Refused: the time is noted but the refill is not kept.
RefusedLosesRefill(k) ==
    /\ Refilled(k) < Cost
    /\ buckets' = [buckets EXCEPT ![k].last = clock]
    /\ UNCHANGED <<spent, lastGrant>>

\* Allow returns false: the refill is kept and the clock of the bucket moves.
Refused(k) ==
    /\ Refilled(k) < Cost
    /\ buckets' = [buckets EXCEPT ![k] = [tokens |-> Refilled(k), last |-> clock]]
    /\ UNCHANGED <<spent, lastGrant>>

Allow(k) ==
    /\ Granted(k) \/ Refused(k)
    /\ UNCHANGED <<clock, from>>

LimiterTick ==
    /\ clock < MaxClock
    /\ clock' = clock + 1
    /\ UNCHANGED <<buckets, from, spent, lastGrant>>

\* An observer starts to count what key k is granted.
Observe(k) ==
    /\ from' = [from EXCEPT ![k] = clock]
    /\ spent' = [spent EXCEPT ![k] = 0]
    /\ UNCHANGED <<clock, buckets, lastGrant>>

LimiterInit ==
    /\ clock = 0
    /\ buckets = [k \in Keys |-> NoBucket]
    /\ from = [k \in Keys |-> 0]
    /\ spent = [k \in Keys |-> 0]
    /\ lastGrant = [k \in Keys |-> 0]

LimiterNext ==
    \/ \E k \in Keys : Allow(k) \/ Observe(k)
    \/ LimiterTick

LimiterSpec == LimiterInit /\ [][LimiterNext]_limiterVars

-----------------------------------------------------------------------------
(* Properties. *)

\* In every period, whenever it starts, a key is granted at most a burst and
\* what flows in meanwhile: no sequence of calls, refused ones included, buys
\* more ("~5 attempts then 1 / 5s", server.go).
NeverOverAdmits ==
    \A k \in Keys : spent[k] <= Burst + Rate * (clock - from[k])

\* A refused call costs nothing: a key that was granted nothing for as long as
\* a token takes to flow in is granted the next call, however often it asked in
\* between.
RefusalsAreFree ==
    \A k \in Keys : Rate * (clock - lastGrant[k]) >= Cost => Refilled(k) >= Cost

\* The strengthenings that are inductive: what was granted and what is left
\* together never exceed the allowance, ...
Conserved ==
    \A k \in Keys : spent[k] + Refilled(k) <= Burst + Rate * (clock - from[k])

\* ... and what has flowed in since the last grant is there.
Accumulated ==
    \A k \in Keys : Refilled(k) >= Least(Burst, Rate * (clock - lastGrant[k]))

\* Clocks of buckets and observers are not in the future.
ClocksBehind ==
    \A k \in Keys : buckets[k].last <= clock /\ from[k] <= clock /\ lastGrant[k] <= clock

LimiterIInv == LimiterTypeOK /\ ClocksBehind /\ Conserved /\ Accumulated
=============================================================================

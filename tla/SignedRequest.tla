--------------------------- MODULE SignedRequest ----------------------------
(***************************************************************************)
(* The single-use check on signed agent requests: verifySignedRequest and  *)
(* nonceCache.checkAndStore of apps/api/internal/httpx/handlers_agents.go, *)
(* and signRequest of the agent's protocol client.                         *)
(*                                                                         *)
(* Client.Send signs every attempt anew (fresh timestamp, fresh random     *)
(* nonce), so a request is known by its nonce.  What reaches the API is a  *)
(* copy of it: a proxy may deliver a request late, or more than once, or   *)
(* damaged.  A verification reads the clock twice, first for the timestamp *)
(* window and then, under the lock of the cache, for the nonce's age; in   *)
(* between it may have to wait, for the lock or for the processor.         *)
(***************************************************************************)
EXTENDS Integers

CONSTANTS Requests,   \* the signed requests, each with a nonce of its own
          Verifiers,  \* handler goroutines
          Window,     \* the timestamp window, 60 s
          Retention,  \* how long a nonce is kept, 2 min
          Ahead,      \* how far an agent's clock may be ahead of the API's
          Stall,      \* how long a verification may wait between its two reads
          MinDuration,\* the least time.Duration, some 292 years back: its own negation
          MaxTime     \* bound: when the clock stops

\* Skewed clocks and stalled verifiers together eat up at most the margin the
\* code leaves between the two windows, and no agent's clock is so far ahead
\* that the difference overflows.
ASSUME SignedAssumption ==
    /\ {Window, Retention, Ahead, Stall, MaxTime} \subseteq Nat
    /\ Ahead + Stall + Window <= Retention
    /\ MinDuration \in Int /\ MinDuration < -Ahead

Never == -1

VARIABLES now,       \* the API's clock
          ts,        \* X-Pulse-Timestamp of each request, or Never: not signed yet
          checking,  \* the copy each verifier is between its two clock reads with
          seen,      \* nonceCache.seen: when each nonce was recorded, or Never
          accepted   \* history: how many copies of each request this process accepted

vars == <<now, ts, checking, seen, accepted>>

Idle == [state |-> "idle"]

\* A verification under way: the request, whether the copy is intact, and when
\* the timestamp was found in the window.
Check == [state : {"checked"}, req : Requests, intact : BOOLEAN, at : 0..MaxTime]

TypeOK ==
    /\ now \in 0..MaxTime
    /\ ts \in [Requests -> {Never} \cup 0..(MaxTime + Ahead)]
    /\ checking \in [Verifiers -> Check \cup {Idle}]
    /\ seen \in [Requests -> {Never} \cup 0..MaxTime]
    /\ accepted \in [Requests -> Nat]

-----------------------------------------------------------------------------
\* time.Since, which saturates.
Since(t) == IF now - t < MinDuration THEN MinDuration ELSE now - t

\* absDuration: the least duration stays negative.
AbsDuration(d) == IF d < 0 /\ d # MinDuration THEN -d ELSE d

InWindow(r) == AbsDuration(Since(ts[r])) <= Window

\* Mutant of Prune: nonces are kept for the timestamp window only.
PruneEarly(table) == [r \in Requests |-> IF table[r] # Never /\ now - table[r] > Window
                                         THEN Never ELSE table[r]]

\* checkAndStore drops what is older than the retention before it records.
Prune(table) == [r \in Requests |-> IF table[r] # Never /\ now - table[r] > Retention
                                    THEN Never ELSE table[r]]

\* The agent signs request r by its own clock.
Sign(r) ==
    /\ ts[r] = Never
    /\ \E t \in 0..(now + Ahead) : ts' = [ts EXCEPT ![r] = t]
    /\ UNCHANGED <<now, checking, seen, accepted>>

\* A copy of r arrives: the headers are read and the timestamp is checked.  A
\* copy outside the window is refused and leaves no trace.
CheckTimestamp(v, r, intact) ==
    /\ checking[v] = Idle
    /\ ts[r] # Never
    /\ InWindow(r)
    /\ checking' = [checking EXCEPT ![v] =
           [state |-> "checked", req |-> r, intact |-> intact, at |-> now]]
    /\ UNCHANGED <<now, ts, seen, accepted>>

\* Mutant of CheckAndStore: the nonce is checked and not recorded.
CheckWithoutStore(v) ==
    /\ checking[v] # Idle
    /\ LET r == checking[v].req
       IN  \/ seen[r] # Never /\ UNCHANGED <<seen, accepted>>
           \/ /\ seen[r] = Never
              /\ seen' = Prune(seen)
              /\ accepted' = IF checking[v].intact THEN [accepted EXCEPT ![r] = @ + 1]
                                                   ELSE accepted
    /\ checking' = [checking EXCEPT ![v] = Idle]
    /\ UNCHANGED <<now, ts>>

\* checkAndStore, then the signature over the bytes received.  A nonce that was
\* seen is a replay; one that was not is recorded, also when the signature then
\* turns out to be wrong.
CheckAndStore(v) ==
    /\ checking[v] # Idle
    /\ LET r == checking[v].req
       IN  \/ /\ seen[r] # Never
              /\ UNCHANGED <<seen, accepted>>
           \/ /\ seen[r] = Never
              /\ seen' = [Prune(seen) EXCEPT ![r] = now]
              /\ accepted' = IF checking[v].intact THEN [accepted EXCEPT ![r] = @ + 1]
                                                   ELSE accepted
    /\ checking' = [checking EXCEPT ![v] = Idle]
    /\ UNCHANGED <<now, ts>>

\* Time passes; no verification waits longer than Stall.
Tick ==
    /\ now < MaxTime
    /\ \A v \in Verifiers : checking[v] # Idle => now < checking[v].at + Stall
    /\ now' = now + 1
    /\ UNCHANGED <<ts, checking, seen, accepted>>

\* The API restarts: the cache is memory only, and handlers end.
ApiRestart ==
    /\ checking' = [v \in Verifiers |-> Idle]
    /\ seen' = [r \in Requests |-> Never]
    /\ accepted' = [r \in Requests |-> 0]
    /\ UNCHANGED <<now, ts>>

Init ==
    /\ now = 0
    /\ ts = [r \in Requests |-> Never]
    /\ checking = [v \in Verifiers |-> Idle]
    /\ seen = [r \in Requests |-> Never]
    /\ accepted = [r \in Requests |-> 0]

Next ==
    \/ \E r \in Requests : Sign(r)
    \/ \E v \in Verifiers, r \in Requests, intact \in BOOLEAN : CheckTimestamp(v, r, intact)
    \/ \E v \in Verifiers : CheckAndStore(v)
    \/ Tick
    \/ ApiRestart

Spec == Init /\ [][Next]_vars

-----------------------------------------------------------------------------
(* Properties. *)

\* One process accepts a signed request at most once, however often, however
\* late and by however many handlers at a time its copies are verified: a nonce
\* is only forgotten when no copy of its request can pass the timestamp window
\* any more, even one that already has passed it and was held up.
AcceptedOnce == \A r \in Requests : accepted[r] <= 1

\* Why it holds.  A nonce on record was recorded at most Ahead before the
\* timestamp of its request...
RecordedInTime ==
    \A r \in Requests : seen[r] # Never => ts[r] # Never /\ ts[r] - Ahead <= seen[r] /\ seen[r] <= now

\* ... one that was accepted and is no longer on record is out of reach ...
ForgottenLate ==
    \A r \in Requests :
        accepted[r] > 0 => /\ ts[r] # Never
                           /\ seen[r] = Never => now > ts[r] - Ahead + Retention

\* ... of every verification under way.
ChecksAreFresh ==
    \A v \in Verifiers :
        checking[v] # Idle => LET c == checking[v]
                              IN  /\ ts[c.req] # Never
                                  /\ c.at - ts[c.req] <= Window
                                  /\ now <= c.at + Stall

\* Timestamps are at most Ahead in the future.
TimestampsBounded == \A r \in Requests : ts[r] <= now + Ahead

\* The inductive invariant.
IInv ==
    /\ TypeOK
    /\ TimestampsBounded
    /\ RecordedInTime
    /\ ForgottenLate
    /\ ChecksAreFresh
    /\ AcceptedOnce
=============================================================================

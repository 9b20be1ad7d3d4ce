----------------------------- MODULE IngestProofs ---------------------------
(***************************************************************************)
(* Two halves of handleIngest, which share no state.                       *)
(*                                                                         *)
(* At its door, for every number of requests and verifiers and all window  *)
(* lengths that leave the margin SignedAssumption asks for: the nonce      *)
(* cache accepts every signed request at most once.                        *)
(*                                                                         *)
(* Behind it, for any number of hosts, changes, faults and deletions: the  *)
(* memory store keeps no data without its server's row, except while a     *)
(* report that brings the row back is being handled.                       *)
(***************************************************************************)
EXTENDS SignedRequest, Inventory, TLAPS

-----------------------------------------------------------------------------
(* Signed requests.                                                        *)
-----------------------------------------------------------------------------
\* The constants are natural numbers: SignedAssumption, one by one.
LEMMA ConstantsAreNat ==
    /\ Window \in Nat /\ Retention \in Nat /\ Ahead \in Nat /\ Stall \in Nat /\ MaxTime \in Nat
    /\ Ahead + Stall + Window <= Retention
    /\ MinDuration \in Int /\ MinDuration < -Ahead
  BY SignedAssumption

\* Idle is no verification under way.
LEMMA CheckFields ==
    ASSUME NEW c \in Check \cup {Idle}, c # Idle
    PROVE  c \in Check /\ c.req \in Requests /\ c.intact \in BOOLEAN /\ c.at \in 0..MaxTime
  BY DEF Check, Idle

LEMMA InitHolds == Init => IInv
  BY ConstantsAreNat DEF Init, IInv, TypeOK, TimestampsBounded, RecordedInTime, ForgottenLate,
     ChecksAreFresh, AcceptedOnce, Never

\* The heart of the argument: a verification under way whose nonce is not on
\* record belongs to a request that was not accepted yet.
LEMMA UnseenIsUnaccepted ==
    ASSUME IInv, NEW v \in Verifiers, checking[v] # Idle, seen[checking[v].req] = Never
    PROVE  accepted[checking[v].req] = 0
<1> DEFINE c == checking[v]
           r == c.req
<1>1. c \in Check /\ r \in Requests /\ c.at \in 0..MaxTime
  BY CheckFields DEF IInv, TypeOK
<1>2. ts[r] \in Int /\ ts[r] # Never /\ c.at - ts[r] <= Window /\ now <= c.at + Stall /\ now \in Int
  BY <1>1, ConstantsAreNat DEF IInv, TypeOK, ChecksAreFresh, Never
<1>3. now <= ts[r] - Ahead + Retention
  BY <1>1, <1>2, ConstantsAreNat
<1>4. ~(accepted[r] > 0)
  BY <1>1, <1>2, <1>3, ConstantsAreNat DEF IInv, ForgottenLate
<1>5. accepted[r] \in Nat
  BY <1>1 DEF IInv, TypeOK
<1> QED
  BY <1>4, <1>5

LEMMA SignKeepsInv ==
    ASSUME IInv, NEW r \in Requests, Sign(r)
    PROVE  IInv'
<1>1. PICK t \in 0..(now + Ahead) : ts' = [ts EXCEPT ![r] = t]
  BY DEF Sign
<1>2. ts[r] = Never /\ now' = now /\ checking' = checking /\ seen' = seen /\ accepted' = accepted
  BY DEF Sign
<1>3. now \in 0..MaxTime /\ t \in 0..(MaxTime + Ahead) /\ t # Never /\ t <= now + Ahead
  BY <1>1, ConstantsAreNat DEF IInv, TypeOK, Never
<1>4. seen[r] = Never /\ ~(accepted[r] > 0)
  BY <1>2 DEF IInv, RecordedInTime, ForgottenLate
<1>5. \A q \in Requests : q # r => ts'[q] = ts[q]
  BY <1>1
<1>6. ts'[r] = t
  BY <1>1 DEF IInv, TypeOK
<1>7. TypeOK'
  BY <1>1, <1>2, <1>3 DEF IInv, TypeOK
<1>8. TimestampsBounded'
  BY <1>2, <1>3, <1>5, <1>6 DEF IInv, TimestampsBounded
<1>9. RecordedInTime' /\ ForgottenLate'
  BY <1>2, <1>4, <1>5 DEF IInv, RecordedInTime, ForgottenLate
<1>10. ChecksAreFresh'
  <2> SUFFICES ASSUME NEW v \in Verifiers, checking[v] # Idle
               PROVE  /\ ts'[checking[v].req] # Never
                      /\ checking[v].at - ts'[checking[v].req] <= Window
                      /\ now <= checking[v].at + Stall
    BY <1>2 DEF ChecksAreFresh
  <2>1. checking[v].req \in Requests
    BY CheckFields DEF IInv, TypeOK
  <2>2. ts[checking[v].req] # Never
    BY DEF IInv, ChecksAreFresh
  <2>3. ts'[checking[v].req] = ts[checking[v].req]
    BY <1>2, <1>5, <2>1, <2>2
  <2> QED
    BY <2>3 DEF IInv, ChecksAreFresh
<1> QED
  BY <1>2, <1>7, <1>8, <1>9, <1>10 DEF IInv, AcceptedOnce

LEMMA CheckTimestampKeepsInv ==
    ASSUME IInv, NEW v \in Verifiers, NEW r \in Requests, NEW intact \in BOOLEAN,
           CheckTimestamp(v, r, intact)
    PROVE  IInv'
<1> DEFINE new == [state |-> "checked", req |-> r, intact |-> intact, at |-> now]
<1>1. /\ ts[r] # Never /\ InWindow(r)
      /\ checking' = [checking EXCEPT ![v] = new]
      /\ now' = now /\ ts' = ts /\ seen' = seen /\ accepted' = accepted
  BY DEF CheckTimestamp
<1>2. now \in 0..MaxTime /\ ts[r] \in Int
  BY ConstantsAreNat DEF IInv, TypeOK, Never
<1>3. now - ts[r] <= Window
  BY <1>1, <1>2, ConstantsAreNat DEF InWindow, AbsDuration, Since, IInv, TimestampsBounded
<1>4. new \in Check
  BY <1>2 DEF Check
<1>5. TypeOK'
  BY <1>1, <1>4 DEF IInv, TypeOK
<1>6. ChecksAreFresh'
  <2> SUFFICES ASSUME NEW w \in Verifiers, checking'[w] # Idle
               PROVE  /\ ts[checking'[w].req] # Never
                      /\ checking'[w].at - ts[checking'[w].req] <= Window
                      /\ now <= checking'[w].at + Stall
    BY <1>1 DEF ChecksAreFresh
  <2>1. CASE w = v
    <3>1. checking'[w] = new
      BY <1>1, <2>1 DEF IInv, TypeOK
    <3> QED
      BY <1>1, <1>2, <1>3, <3>1, ConstantsAreNat
  <2>2. CASE w # v
    <3>1. checking'[w] = checking[w]
      BY <1>1, <2>2 DEF IInv, TypeOK
    <3> QED
      BY <3>1 DEF IInv, ChecksAreFresh
  <2> QED
    BY <2>1, <2>2
<1> QED
  BY <1>1, <1>5, <1>6 DEF IInv, TimestampsBounded, RecordedInTime, ForgottenLate, AcceptedOnce

LEMMA CheckAndStoreKeepsInv ==
    ASSUME IInv, NEW v \in Verifiers, CheckAndStore(v)
    PROVE  IInv'
<1> DEFINE r == checking[v].req
<1>1. /\ checking[v] # Idle
      /\ checking' = [checking EXCEPT ![v] = Idle]
      /\ now' = now /\ ts' = ts
  BY DEF CheckAndStore
<1>2. r \in Requests /\ checking[v].intact \in BOOLEAN
  BY <1>1, CheckFields DEF IInv, TypeOK
<1>3. now \in 0..MaxTime /\ now \in Int
  BY ConstantsAreNat DEF IInv, TypeOK
<1>4. ts[r] # Never /\ ts[r] - Ahead <= now
  <2>1. ts[r] \in Int /\ ts[r] <= now + Ahead
    BY <1>2, ConstantsAreNat DEF IInv, TypeOK, TimestampsBounded, Never
  <2> QED
    BY <1>1, <1>3, <2>1, ConstantsAreNat DEF IInv, ChecksAreFresh
<1>5. \A w \in Verifiers : checking'[w] # Idle => checking'[w] = checking[w]
  BY <1>1 DEF IInv, TypeOK
<1>6. checking' \in [Verifiers -> Check \cup {Idle}] /\ ChecksAreFresh' /\ TimestampsBounded'
  BY <1>1, <1>5 DEF IInv, TypeOK, ChecksAreFresh, TimestampsBounded
<1>7. CASE seen[r] # Never
  <2>1. seen' = seen /\ accepted' = accepted
    BY <1>7 DEF CheckAndStore
  <2> QED
    BY <1>1, <1>6, <2>1 DEF IInv, TypeOK, RecordedInTime, ForgottenLate, AcceptedOnce
<1>8. CASE seen[r] = Never
  <2>1. /\ seen' = [Prune(seen) EXCEPT ![r] = now]
        /\ accepted' = IF checking[v].intact THEN [accepted EXCEPT ![r] = @ + 1] ELSE accepted
    BY <1>8 DEF CheckAndStore
  <2>2. accepted[r] = 0
    BY <1>1, <1>8, UnseenIsUnaccepted
  <2>3. accepted' \in [Requests -> Nat] /\ accepted'[r] <= 1
    BY <1>2, <2>1, <2>2 DEF IInv, TypeOK
  <2>4. \A q \in Requests : q # r => accepted'[q] = accepted[q]
    BY <2>1
  <2>5. seen'[r] = now /\ \A q \in Requests : q # r => seen'[q] = Prune(seen)[q]
    BY <1>2, <2>1 DEF Prune
  <2>6. seen' \in [Requests -> {Never} \cup 0..MaxTime]
    BY <1>2, <1>3, <2>1 DEF IInv, TypeOK, Prune
  <2>7. RecordedInTime'
    <3> SUFFICES ASSUME NEW q \in Requests, seen'[q] # Never
                 PROVE  ts[q] # Never /\ ts[q] - Ahead <= seen'[q] /\ seen'[q] <= now
      BY <1>1 DEF RecordedInTime
    <3>1. CASE q = r
      BY <1>3, <1>4, <2>5, <3>1
    <3>2. CASE q # r
      BY <2>5, <3>2 DEF Prune, IInv, RecordedInTime
    <3> QED
      BY <3>1, <3>2
  <2>8. ForgottenLate'
    <3> SUFFICES ASSUME NEW q \in Requests, accepted'[q] > 0
                 PROVE  ts[q] # Never /\ (seen'[q] = Never => now > ts[q] - Ahead + Retention)
      BY <1>1 DEF ForgottenLate
    <3>1. CASE q = r
      BY <1>3, <1>4, <2>5, <3>1 DEF Never
    <3>2. CASE q # r
      <4>1. accepted[q] > 0 /\ ts[q] # Never
        BY <2>4, <3>2 DEF IInv, ForgottenLate
      <4>2. CASE seen[q] = Never
        BY <4>1, <4>2 DEF IInv, ForgottenLate
      <4>3. CASE seen[q] # Never
        <5>1. ts[q] - Ahead <= seen[q] /\ seen[q] \in Int /\ ts[q] \in Int
          BY <4>3, ConstantsAreNat DEF IInv, TypeOK, RecordedInTime, Never
        <5>2. seen'[q] = Never => now - seen[q] > Retention
          BY <2>5, <3>2, <4>3 DEF Prune
        <5> QED
          BY <1>3, <4>1, <5>1, <5>2, ConstantsAreNat
      <4> QED
        BY <4>2, <4>3
    <3> QED
      BY <3>1, <3>2
  <2> QED
    BY <1>1, <1>6, <2>3, <2>4, <2>6, <2>7, <2>8 DEF IInv, TypeOK, AcceptedOnce
<1> QED
  BY <1>7, <1>8

LEMMA TickKeepsInv ==
    ASSUME IInv, Tick
    PROVE  IInv'
<1>1. /\ now < MaxTime /\ now' = now + 1
      /\ ts' = ts /\ checking' = checking /\ seen' = seen /\ accepted' = accepted
      /\ \A v \in Verifiers : checking[v] # Idle => now < checking[v].at + Stall
  BY DEF Tick
<1>2. now \in 0..MaxTime
  BY DEF IInv, TypeOK
<1>3. TypeOK' /\ AcceptedOnce'
  BY <1>1, <1>2, ConstantsAreNat DEF IInv, TypeOK, AcceptedOnce
<1>4. TimestampsBounded'
  <2> SUFFICES ASSUME NEW r \in Requests
               PROVE  ts[r] <= now + 1 + Ahead
    BY <1>1 DEF TimestampsBounded
  <2>1. ts[r] \in Int /\ ts[r] <= now + Ahead
    BY ConstantsAreNat DEF IInv, TypeOK, TimestampsBounded, Never
  <2> QED
    BY <1>2, <2>1, ConstantsAreNat
<1>5. RecordedInTime' /\ ForgottenLate'
  <2> SUFFICES ASSUME NEW r \in Requests
               PROVE  /\ seen[r] # Never => ts[r] # Never /\ ts[r] - Ahead <= seen[r] /\ seen[r] <= now + 1
                      /\ accepted[r] > 0 => /\ ts[r] # Never
                                            /\ seen[r] = Never => now + 1 > ts[r] - Ahead + Retention
    BY <1>1 DEF RecordedInTime, ForgottenLate
  <2>1. seen[r] \in Int /\ ts[r] \in Int
    BY ConstantsAreNat DEF IInv, TypeOK, Never
  <2> QED
    BY <1>2, <2>1, ConstantsAreNat DEF IInv, RecordedInTime, ForgottenLate
<1>6. ChecksAreFresh'
  <2> SUFFICES ASSUME NEW v \in Verifiers, checking[v] # Idle
               PROVE  /\ ts[checking[v].req] # Never
                      /\ checking[v].at - ts[checking[v].req] <= Window
                      /\ now + 1 <= checking[v].at + Stall
    BY <1>1 DEF ChecksAreFresh
  <2>1. checking[v].at \in Int
    BY CheckFields DEF IInv, TypeOK
  <2> QED
    BY <1>1, <1>2, <2>1, ConstantsAreNat DEF IInv, ChecksAreFresh
<1> QED
  BY <1>3, <1>4, <1>5, <1>6 DEF IInv

LEMMA RestartKeepsInv ==
    ASSUME IInv, ApiRestart
    PROVE  IInv'
  BY DEF IInv, ApiRestart, TypeOK, TimestampsBounded, RecordedInTime, ForgottenLate,
     ChecksAreFresh, AcceptedOnce, Never, Idle

LEMMA StutterKeepsInv ==
    ASSUME IInv, UNCHANGED vars
    PROVE  IInv'
  BY DEF IInv, vars, TypeOK, TimestampsBounded, RecordedInTime, ForgottenLate,
     ChecksAreFresh, AcceptedOnce, InWindow

\* Every reachable state satisfies the inductive invariant.
THEOREM SignedRequestInvariant == Spec => []IInv
<1>1. IInv /\ [Next]_vars => IInv'
  BY SignKeepsInv, CheckTimestampKeepsInv, CheckAndStoreKeepsInv, TickKeepsInv,
     RestartKeepsInv, StutterKeepsInv DEF Next
<1> QED
  BY InitHolds, <1>1, PTL DEF Spec

\* verifySignedRequest accepts every signed request at most once in the life
\* of a process, as long as an agent's clock is not ahead, and a verification
\* not held up, by more than the minute between the timestamp window and the
\* retention of a nonce.
THEOREM SignedRequestAcceptedOnce == Spec => []AcceptedOnce
<1>1. IInv => AcceptedOnce
  BY DEF IInv
<1> QED
  BY SignedRequestInvariant, <1>1, PTL

-----------------------------------------------------------------------------
(* The server's row and its data.                                          *)
-----------------------------------------------------------------------------
Writers == {"awaited", "late"}

\* The calls a handler may still have to make: whatever it writes, the server's row
\* comes last.
RestOfCalls == {<< >>, <<"EnsureServer">>,
                <<"SaveDiscovery", "EnsureServer">>,
                <<"SaveMetrics", "AppendMetricSample", "EnsureServer">>,
                <<"AppendMetricSample", "EnsureServer">>,
                <<"SaveLogs", "EnsureServer">>}

ReportTypes == {"discovery", "metrics", "logs", "heartbeat"}

Handling == [type : {"none"} \cup ReportTypes, calls : RestOfCalls,
             body : Snapshots \cup {NoSnapshot}]

\* A handler at work has a report in hand.
RowComesLast ==
    /\ handlers \in [Writers -> Handling]
    /\ \A w \in Writers : AtWork(w) => handlers[w].type \in ReportTypes

\* The inductive invariant of the server's data.
InventoryInv == InventoryTypeOK /\ RowComesLast /\ NoOrphanData

-----------------------------------------------------------------------------
LEMMA StorageIsADetector ==
    /\ "storage" \in DetectorNames
    /\ NoSnapshot \in [DetectorNames -> Observed \cup {Failed, Pending}]
<1>1. DetectorList[2] = "storage" /\ 2 \in DOMAIN DetectorList
  BY DEF DetectorList
<1>2. "storage" \in DetectorNames
  BY <1>1 DEF DetectorNames, ToSet
<1> QED
  BY <1>2 DEF NoSnapshot

LEMMA FaultsAreCounted ==
    ASSUME InventoryTypeOK, Fault \/ UNCHANGED faults
    PROVE  faults' \in Nat
<1>1. faults \in Nat
  BY DEF InventoryTypeOK
<1> QED
  BY <1>1 DEF Fault

LEMMA HostIsObserved ==
    ASSUME InventoryTypeOK, NEW h \in during, NEW stats \in BOOLEAN
    PROVE  Seen(h, stats) \in Observed
  BY DEF InventoryTypeOK, Observed

LEMMA HandlerFields ==
    ASSUME NEW type \in ReportTypes, NEW body \in Snapshots \cup {NoSnapshot}
    PROVE  /\ Handler(type, body) \in Handling /\ Handler(type, body).type \in ReportTypes
           /\ Handler(type, body).calls # << >>
<1>1. Calls(type) \in RestOfCalls /\ Calls(type) # << >>
  BY DEF Calls, RestOfCalls, ReportTypes
<1> QED
  BY <1>1 DEF Handler, Handling

LEMMA NoHandlerFields == NoHandler \in Handling /\ NoHandler.calls = << >>
  BY DEF NoHandler, Handling, RestOfCalls

\* What is left after one call, and what the call was.
LEMMA NextCall ==
    ASSUME NEW calls \in RestOfCalls, calls # << >>
    PROVE  /\ Tail(calls) \in RestOfCalls
           /\ Tail(calls) = << >> <=> Head(calls) = "EnsureServer"
<1>1. CASE calls = <<"EnsureServer">>
  <2>1. Tail(calls) = << >> /\ Head(calls) = "EnsureServer"
    BY <1>1
  <2> QED
    BY <2>1 DEF RestOfCalls
<1>2. ASSUME NEW a \in {"SaveDiscovery", "AppendMetricSample", "SaveLogs"},
             calls = <<a, "EnsureServer">>
      PROVE  Tail(calls) = <<"EnsureServer">> /\ Head(calls) = a
  BY <1>2
<1>3. CASE calls = <<"SaveMetrics", "AppendMetricSample", "EnsureServer">>
  <2>1. Tail(calls) = <<"AppendMetricSample", "EnsureServer">> /\ Head(calls) = "SaveMetrics"
    BY <1>3
  <2> QED
    BY <2>1 DEF RestOfCalls
<1>4. CASE \E a \in {"SaveDiscovery", "AppendMetricSample", "SaveLogs"} : calls = <<a, "EnsureServer">>
  <2>1. Tail(calls) = <<"EnsureServer">> /\ Head(calls) # "EnsureServer"
    BY <1>2, <1>4
  <2> QED
    BY <2>1 DEF RestOfCalls
<1> QED
  BY <1>1, <1>3, <1>4 DEF RestOfCalls

LEMMA InventoryInitHolds == InventoryInit => InventoryInv
<1> SUFFICES ASSUME InventoryInit PROVE InventoryInv
  OBVIOUS
<1>1. RowComesLast
  BY NoHandlerFields DEF InventoryInit, RowComesLast, Writers, AtWork
<1>2. InventoryTypeOK
  BY <1>1, StorageIsADetector, InventoryAssumption
     DEF InventoryInit, InventoryTypeOK, RowComesLast, Handling, Writers
<1> QED
  BY <1>1, <1>2 DEF InventoryInit, InventoryInv, NoOrphanData

\* The host and the detectors do not touch the data.
LEMMA DetectionKeepsInv ==
    ASSUME InventoryInv,
           \/ HostChanges \/ StartRun \/ UseCachedScan \/ ScanAgain \/ CommandHangs \/ CommandReturns
           \/ \E d \in DetectorNames : RunDetector(d)
    PROVE  InventoryInv'
<1> USE DEF agent, data, bounds
<1>1. UNCHANGED <<store, handlers, row, discovery, tables>>
  BY DEF HostChanges, StartRun, UseCachedScan, ScanAgain, CommandHangs, CommandReturns, RunDetector
<1>2. RowComesLast' /\ NoOrphanData'
  BY <1>1 DEF InventoryInv, RowComesLast, NoOrphanData, AtWork
<1>3. \A h \in during : Seen(h, TRUE) \in Observed /\ Seen(h, FALSE) \in Observed
  BY HostIsObserved DEF InventoryInv
<1>4. InventoryTypeOK'
  <2> USE DEF InventoryInv, InventoryTypeOK
  <2>1. CASE HostChanges
    BY <2>1, InventoryAssumption DEF HostChanges
  <2>2. CASE StartRun
    BY <2>2, StorageIsADetector DEF StartRun
  <2>3. CASE UseCachedScan
    BY <2>3 DEF UseCachedScan, Returns
  <2>4. CASE ScanAgain
    <3>1. /\ \/ results' = [results EXCEPT !["storage"] = cache'] /\ \E h \in during : cache' = Seen(h, TRUE)
             \/ results' = [results EXCEPT !["storage"] = Failed] /\ cache' = cache
          /\ UNCHANGED <<store, host, loop, during, handlers, row, discovery, tables, changes, deletes>>
      BY <2>4, Zenon DEF ScanAgain, Returns
    <3>2. faults' \in Nat
      BY <2>4, FaultsAreCounted, Zenon DEF ScanAgain
    <3>3. cache' \in Observed \/ (cache' = cache /\ results' = [results EXCEPT !["storage"] = Failed])
      BY <1>3, <3>1, Zenon
    <3>4. results' \in [DetectorNames -> Observed \cup {Failed, Pending}]
      <4>1. CASE cache' \in Observed
        <5>1. \/ results' = [results EXCEPT !["storage"] = cache']
              \/ results' = [results EXCEPT !["storage"] = Failed]
          BY <3>1
        <5> QED
          BY <4>1, <5>1
      <4>2. CASE results' = [results EXCEPT !["storage"] = Failed]
        BY <4>2
      <4> QED
        BY <3>3, <4>1, <4>2
    <3> QED
      BY <3>1, <3>2, <3>3, <3>4
  <2>5. ASSUME NEW d \in DetectorNames, RunDetector(d) PROVE InventoryTypeOK'
    <3>1. /\ \/ \E h \in during : results' = [results EXCEPT ![d] = Seen(h, TRUE)]
             \/ \E h \in during : results' = [results EXCEPT ![d] = Seen(h, FALSE)]
             \/ results' = [results EXCEPT ![d] = Failed]
          /\ UNCHANGED <<store, host, loop, during, cache, handlers, row, discovery, tables, changes, deletes>>
      BY <2>5, Zenon DEF RunDetector, Returns
    <3>2. faults' \in Nat
      BY <2>5, FaultsAreCounted, Zenon DEF RunDetector
    <3>3. results' \in [DetectorNames -> Observed \cup {Failed, Pending}]
      BY <1>3, <3>1
    <3> QED
      BY <3>1, <3>2, <3>3
  <2>6. CASE CommandHangs
    <3>1. faults' \in Nat
      BY <2>6, FaultsAreCounted DEF CommandHangs
    <3> QED
      BY <2>6, <3>1 DEF CommandHangs
  <2>7. CASE CommandReturns
    BY <2>7 DEF CommandReturns
  <2> QED
    BY <2>1, <2>2, <2>3, <2>4, <2>5, <2>6, <2>7
<1> QED
  BY <1>2, <1>4 DEF InventoryInv

\* A report that is sent has a handler at work.
LEMMA SendKeepsInv ==
    ASSUME InventoryInv, SendDiscovery \/ \E type \in Others : SendOther(type)
    PROVE  InventoryInv'
<1> DEFINE Sent ==
      /\ UNCHANGED <<store, host, cache, row, discovery, tables, changes, deletes>>
      /\ faults' \in Nat /\ loop' \in {"idle", "sending"}
      /\ results' \in {results, NoSnapshot} /\ during' \in {during, {}}
      /\ \/ UNCHANGED handlers
         \/ \E type \in ReportTypes : \E body \in Snapshots \cup {NoSnapshot} :
               handlers' = [handlers EXCEPT !["awaited"] = Handler(type, body)]
<1>1. Sent
  <2>1. CASE SendDiscovery
    <3>1. results \in Snapshots
      BY <2>1 DEF SendDiscovery, Snapshots, InventoryInv, InventoryTypeOK
    <3> QED
      BY <2>1, <3>1, InventoryAssumption
         DEF SendDiscovery, Fault, data, ReportTypes, InventoryInv, InventoryTypeOK
  <2>2. ASSUME NEW type \in Others, SendOther(type) PROVE Sent
    BY <2>2, InventoryAssumption DEF SendOther, data, bounds, ReportTypes, InventoryInv, InventoryTypeOK
  <2> QED
    BY <2>1, <2>2
<1>2. RowComesLast' /\ (UNCHANGED handlers \/ AtWork("awaited")')
  BY <1>1, HandlerFields DEF InventoryInv, RowComesLast, Writers, AtWork
<1>3. InventoryTypeOK'
  BY <1>1, <1>2, StorageIsADetector DEF InventoryInv, InventoryTypeOK, RowComesLast, Handling, Writers
<1>4. NoOrphanData'
  BY <1>1, <1>2 DEF InventoryInv, NoOrphanData, RowComesLast, Writers, AtWork
<1> QED
  BY <1>2, <1>3, <1>4 DEF InventoryInv

\* A table is written by a handler that goes on to write the row.
LEMMA HandlerStepKeepsInv ==
    ASSUME InventoryInv, NEW w \in Writers, HandlerStep(w)
    PROVE  InventoryInv'
<1> DEFINE calls == handlers[w].calls
           call == Head(calls)
           body == handlers[w].body
<1>1. /\ handlers[w] \in Handling /\ calls \in RestOfCalls /\ calls # << >>
      /\ body \in Snapshots \cup {NoSnapshot} /\ handlers[w].type \in ReportTypes
  BY DEF HandlerStep, AtWork, InventoryInv, RowComesLast, Handling
<1>2. /\ Tail(calls) \in RestOfCalls
      /\ Tail(calls) = << >> <=> call = "EnsureServer"
  BY <1>1, NextCall
<1>3. /\ UNCHANGED <<store, host, during, results, cache, changes, deletes>>
      /\ faults' \in Nat /\ loop' \in {"idle", loop}
      /\ handlers' = [handlers EXCEPT ![w] = IF Tail(calls) = << >> THEN NoHandler
                                             ELSE [@ EXCEPT !.calls = Tail(calls)]]
      /\ \/ Written(call, body)
         \/ store = "postgres" /\ UNCHANGED <<row, discovery, tables>>
  BY InventoryAssumption DEF HandlerStep, Fault, data, InventoryInv, InventoryTypeOK
<1>4. [handlers[w] EXCEPT !.calls = Tail(calls)] \in Handling
  BY <1>1, <1>2 DEF Handling
<1>5. /\ RowComesLast'
      /\ call # "EnsureServer" => AtWork(w)'
  BY <1>1, <1>2, <1>3, <1>4, NoHandlerFields DEF InventoryInv, RowComesLast, AtWork, Handling
<1>6. /\ row' \in {"absent", "null", "empty", "proper"}
      /\ discovery' \in Snapshots \cup {NoSnapshot} /\ tables' \subseteq {"metrics", "history", "logs"}
      /\ store = "memory" /\ call = "EnsureServer" => row' # "absent"
  BY <1>1, <1>3 DEF Written, EnsureServer, EnsureInMemory, EnsureInPostgres, TableOf,
     InventoryInv, InventoryTypeOK
<1>7. InventoryTypeOK'
  BY <1>3, <1>5, <1>6 DEF InventoryInv, InventoryTypeOK, RowComesLast, Handling
<1>8. NoOrphanData'
  BY <1>3, <1>5, <1>6 DEF NoOrphanData, RowComesLast
<1> QED
  BY <1>5, <1>7, <1>8 DEF InventoryInv

\* A handler the agent gave up on goes on.
LEMMA StopsWaitingKeepsInv ==
    ASSUME InventoryInv, AgentStopsWaiting
    PROVE  InventoryInv'
<1> DEFINE first == handlers["awaited"]
<1>1. first \in Handling /\ first.calls # << >> /\ first.type \in ReportTypes
      /\ first.body \in Snapshots \cup {NoSnapshot}
  BY DEF AgentStopsWaiting, AtWork, InventoryInv, RowComesLast, Handling, Writers
<1>2. /\ UNCHANGED <<store, host, during, results, cache, row, discovery, tables, changes, deletes>>
      /\ loop' \in {"idle", loop}
      /\ \E again \in {NoHandler, Handler(first.type, first.body)} :
            handlers' = [handlers EXCEPT !["late"] = first, !["awaited"] = again]
      /\ Fault
  BY Zenon DEF AgentStopsWaiting, data
<1>3. Handler(first.type, first.body) \in Handling /\ Handler(first.type, first.body).type \in ReportTypes
  BY <1>1, HandlerFields
<1>4. RowComesLast' /\ AtWork("late")'
  BY <1>1, <1>2, <1>3, NoHandlerFields DEF InventoryInv, RowComesLast, AtWork, Writers
<1>5. InventoryTypeOK'
  <2>1. faults' \in Nat
    BY <1>2, FaultsAreCounted DEF InventoryInv
  <2> QED
    BY <1>2, <1>4, <2>1 DEF InventoryInv, InventoryTypeOK, RowComesLast, Handling
<1>6. NoOrphanData'
  BY <1>4 DEF NoOrphanData, RowComesLast, Writers
<1> QED
  BY <1>4, <1>5, <1>6 DEF InventoryInv

LEMMA DeleteServerKeepsInv ==
    ASSUME InventoryInv, DeleteServer
    PROVE  InventoryInv'
<1>1. /\ UNCHANGED <<store, host, loop, during, results, cache, handlers, changes, faults>>
      /\ row' = "absent"
      /\ tables' \in {tables, {}} /\ discovery' \in {discovery, NoSnapshot}
      /\ store = "memory" => tables' = {} /\ discovery' = NoSnapshot
  BY Zenon DEF DeleteServer, KeptByDelete, agent
<1>2. deletes' \in Nat
  BY InventoryAssumption DEF DeleteServer, InventoryInv, InventoryTypeOK
<1>3. InventoryTypeOK' /\ RowComesLast' /\ NoOrphanData'
  BY <1>1, <1>2 DEF InventoryInv, InventoryTypeOK, RowComesLast, AtWork, NoOrphanData
<1> QED
  BY <1>3 DEF InventoryInv

LEMMA InventoryNextKeepsInv == InventoryInv /\ [InventoryNext]_inventoryVars => InventoryInv'
<1> SUFFICES ASSUME InventoryInv, [InventoryNext]_inventoryVars PROVE InventoryInv'
  OBVIOUS
<1>1. CASE UNCHANGED inventoryVars
  BY <1>1 DEF inventoryVars, InventoryInv, InventoryTypeOK, RowComesLast, AtWork, NoOrphanData
<1>2. CASE InventoryNext
  BY <1>2, DetectionKeepsInv, SendKeepsInv, HandlerStepKeepsInv, StopsWaitingKeepsInv,
     DeleteServerKeepsInv DEF InventoryNext, Writers
<1> QED
  BY <1>1, <1>2

\* Type correctness of the registry, and that every handler which has yet to write
\* something writes the server's row last.
THEOREM InventoryInvariant == InventorySpec => []InventoryInv
  BY InventoryInitHolds, InventoryNextKeepsInv, PTL DEF InventorySpec

\* NoOrphanData for every instance: on the memory store, data without a server is only
\* there while a report that brings the row back is being handled, however many
\* deletions, lost reports and late handlers there are.
THEOREM InventoryHasNoOrphanData == InventorySpec => []NoOrphanData
<1>1. InventoryInv => NoOrphanData
  BY DEF InventoryInv
<1> QED
  BY <1>1, InventoryInvariant, PTL
=============================================================================

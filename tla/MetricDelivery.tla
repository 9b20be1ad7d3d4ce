--------------------------- MODULE MetricDelivery ---------------------------
(***************************************************************************)
(* The path of a metrics sample from the agent's main loop to the control  *)
(* plane's store: the metricsTicker case and flushBuffer of                *)
(* agent/cmd/pulse-agent/main.go, the retry loop of protocol.Client.Send,  *)
(* the offline buffer (module Cache), and the metrics case of handleIngest *)
(* with the two store calls that keep the sample, each of which may fail   *)
(* without the agent hearing of it (module MetricHistory has what the      *)
(* dashboard makes of them).                                               *)
(*                                                                         *)
(* The agent is one goroutine: it is idle in its select, or inside one     *)
(* enrol.send.  A send is up to MaxAttempts signed requests; each request  *)
(* may be lost, answered, handled with its answer lost, or still be        *)
(* handled after the agent has given up on it (the 20 s client timeout     *)
(* does not stop the handler).  A refusal (401) ends the send unless the   *)
(* credential can be repaired at once, and then the message is sent once   *)
(* more; how the repair goes is the business of AgentCredential.           *)
(*                                                                         *)
(* One sendCtx of 25 s covers the fresh sample and the whole flush, and    *)
(* ingestLimiter grants an address a burst of requests and then a rate: a  *)
(* cycle has room for Room requests; beyond them, requests may meet the    *)
(* deadline or a 429 although nothing is wrong.                            *)
(*                                                                         *)
(* Samples are numbered in the order Sample() took them.                   *)
(***************************************************************************)
EXTENDS Cache, FiniteSets

CONSTANTS MaxSamples,   \* bound: how many samples the agent takes
          MaxAttempts,  \* maxAttempts of Client.Send
          Room,         \* how many requests a cycle has time and tokens for
          MaxFaults,    \* bound: how many requests or store calls go wrong
          MaxCrashes    \* bound: how often the agent process restarts

ASSUME BoundsAssumption ==
    /\ MaxSamples \in Nat
    /\ MaxAttempts \in Nat \ {0}
    /\ Room \in Nat \ {0}
    /\ MaxFaults \in Nat
    /\ MaxCrashes \in Nat

Sample == 1..MaxSamples

NoSample == 0

\* cache.PriorityHistorical: the only priority the agent pushes with.
PriorityHistorical == 0

Item == [prio : {PriorityHistorical}, id : Sample]

VARIABLES
    taken,     \* how many samples collector.Sample has returned
    buffer,    \* cache.RingBuffer.items
    mode,      \* where the main loop is: idle, sending the fresh sample, flushing
    cur,       \* the sample the send in progress carries
    attempt,   \* which request of Client.Send's loop is under way
    resent,    \* is this the second Client.Send, after a repaired credential
    rest,      \* flushBuffer: drained items not sent yet
    sent,      \* requests of this cycle so far, up to Room
    late,      \* requests the agent gave up on that the API may still handle
    latest,    \* store: metrics[server], what SaveMetrics wrote last
    stored,    \* store: the samples AppendMetricSample recorded
    unstored,  \* history: the samples AppendMetricSample failed to record
    lost,      \* history: how each sample that no longer exists was lost
    faults,    \* bound bookkeeping: requests that went wrong so far
    crashes    \* bound bookkeeping: agent restarts so far

agentVars == <<taken, buffer, mode, cur, attempt, resent, rest, sent>>
storeVars == <<latest, stored, unstored>>
boundVars == <<faults, crashes>>
vars == <<agentVars, late, storeVars, lost, boundVars>>

\* The ways a sample can be gone from the agent for good.
LossKind == {"evicted", "abandoned", "crashed"}

TypeOK ==
    /\ taken \in 0..MaxSamples
    /\ buffer \in Seq(Item)
    /\ Len(buffer) <= BufferCap
    /\ mode \in {"idle", "fresh", "flush"}
    /\ cur \in Sample \cup {NoSample}
    /\ attempt \in 0..MaxAttempts
    /\ resent \in BOOLEAN
    /\ rest \in Seq(Item)
    /\ sent \in 0..Room
    /\ late \in [Sample -> 0..MaxFaults]
    /\ latest \in Sample \cup {NoSample}
    /\ stored \in SUBSET Sample
    /\ unstored \in SUBSET Sample
    /\ lost \in [LossKind -> SUBSET Sample]
    /\ faults \in 0..MaxFaults
    /\ crashes \in 0..MaxCrashes

-----------------------------------------------------------------------------
(* Helpers. *)

\* The samples a sequence of items carries.
Ids(items) == {items[i].id : i \in 1..Len(items)}

ItemOf(s) == [prio |-> PriorityHistorical, id |-> s]

\* The metrics case of handleIngest: SaveMetrics overwrites the latest sample,
\* AppendMetricSample adds to the history, whatever they held.  Their errors are
\* discarded: the answer is 202 in any case.
Ingest(s, saved, appended) ==
    /\ latest' = IF saved THEN s ELSE latest
    /\ stored' = IF appended THEN stored \cup {s} ELSE stored
    /\ unstored' = IF appended THEN unstored ELSE unstored \cup {s}

\* The loop is back in its select.
GoIdle ==
    /\ mode' = "idle"
    /\ cur' = NoSample
    /\ attempt' = 0
    /\ resent' = FALSE
    /\ rest' = << >>
    /\ sent' = 0

\* enrol.send starts on sample s: the first request of Client.Send.
StartSend(m, s) ==
    /\ mode' = m
    /\ cur' = s
    /\ attempt' = 1
    /\ resent' = FALSE

\* Push an item, and record what the push gave up.
PushAndRecord(it) ==
    /\ buffer' = PushItem(buffer, it)
    /\ lost' = [lost EXCEPT !["evicted"] =
                    @ \cup ((Ids(buffer) \cup {it.id}) \ Ids(PushItem(buffer, it)))]

Fault ==
    /\ faults < MaxFaults
    /\ faults' = faults + 1

\* One more request of this cycle.
CountRequest == sent' = IF sent < Room THEN sent + 1 ELSE sent

\* A request brings no answer, or one that is no success: a fault, or, once the
\* cycle has had its room, the deadline of sendCtx or the limiter.
GoesWrong == Fault \/ (sent = Room /\ UNCHANGED faults)

-----------------------------------------------------------------------------
(* How one enrol.send ends, seen from its caller in the main loop. *)

\* Mutant of SendSucceeded: the buffer is not flushed.
SendSucceededNoFlush ==
    /\ GoIdle
    /\ UNCHANGED <<buffer, lost>>

\* Mutant of SendSucceeded: the flush copies the buffer and leaves it full.
SendSucceededNoDrain ==
    LET queue == IF mode = "fresh" THEN buffer ELSE rest
    IN  /\ IF queue = << >>
           THEN GoIdle
           ELSE /\ StartSend("flush", Head(queue).id)
                /\ rest' = Tail(queue)
                /\ CountRequest
        /\ UNCHANGED <<buffer, lost>>

\* send returned nil.  After the fresh sample, flushBuffer drains the buffer;
\* the flush goes on with the next drained item or is done.
SendSucceeded ==
    LET queue == IF mode = "fresh" THEN buffer ELSE rest
    IN  /\ IF queue = << >>
           THEN GoIdle
           ELSE /\ StartSend("flush", Head(queue).id)
                /\ rest' = Tail(queue)
                /\ CountRequest
        /\ buffer' = IF mode = "fresh" THEN DrainItems ELSE buffer
        /\ UNCHANGED lost

\* The fresh sample could not be sent: it is buffered.
BufferFresh ==
    /\ mode = "fresh"
    /\ PushAndRecord(ItemOf(cur))

\* Mutant of InterruptFlush: the item is not put back.
InterruptFlushDropped ==
    /\ mode = "flush"
    /\ lost' = [lost EXCEPT !["abandoned"] = @ \cup Ids(rest)]
    /\ UNCHANGED buffer

\* A flushed item could not be sent: flushBuffer pushes that item back and
\* returns; the drained items behind it are in no buffer any more.
InterruptFlush ==
    /\ mode = "flush"
    /\ buffer' = PushItem(buffer, ItemOf(cur))
    /\ lost' = [lost EXCEPT !["abandoned"] = @ \cup Ids(rest)]

\* send returned an error.
SendFailed ==
    /\ BufferFresh \/ InterruptFlush
    /\ GoIdle

-----------------------------------------------------------------------------
(* The steps of the agent. *)

\* case <-metricsTicker.C: take a sample and start sending it.
MetricsTick ==
    /\ mode = "idle"
    /\ taken < MaxSamples
    /\ taken' = taken + 1
    /\ StartSend("fresh", taken + 1)
    /\ UNCHANGED <<buffer, rest, sent, late, storeVars, lost, boundVars>>

\* doSigned: the request was handled and the 202 came back.
RequestAccepted ==
    /\ mode # "idle"
    /\ \E saved, appended \in BOOLEAN :
          /\ Ingest(cur, saved, appended)
          /\ IF saved /\ appended THEN UNCHANGED faults ELSE Fault
    /\ SendSucceeded
    /\ UNCHANGED <<taken, late, crashes>>

\* What becomes of a request that brings no answer (or a 5xx, or a 429): it
\* never got to the handler, it was handled and only the answer was lost, or it
\* is still on its way.
RequestFate ==
    \/ GoesWrong /\ UNCHANGED <<storeVars, late>>
    \/ /\ GoesWrong /\ UNCHANGED late
       /\ \E saved, appended \in BOOLEAN : Ingest(cur, saved, appended)
    \/ Fault /\ late' = [late EXCEPT ![cur] = @ + 1] /\ UNCHANGED storeVars

\* Client.Send tries again after its backoff.
RequestRetried ==
    /\ mode # "idle"
    /\ attempt < MaxAttempts
    /\ RequestFate
    /\ CountRequest
    /\ attempt' = attempt + 1
    /\ UNCHANGED <<taken, buffer, mode, cur, resent, rest, lost, crashes>>

\* Client.Send gives up: that was the last attempt, or the 25 s of sendCtx are
\* over and sleepBackoff returns the context's error.
RequestGivenUp ==
    /\ mode # "idle"
    /\ RequestFate
    /\ SendFailed
    /\ UNCHANGED <<taken, crashes>>

\* 401/403: enrol.send repairs the credential and sends the message again.
RefusedAndRepaired ==
    /\ mode # "idle"
    /\ ~resent
    /\ Fault
    /\ attempt' = 1
    /\ resent' = TRUE
    /\ CountRequest
    /\ UNCHANGED <<taken, buffer, mode, cur, rest, late, storeVars, lost, crashes>>

\* 401/403, and no repair is due, or it failed, or this was already the second
\* send.
RefusedAndFailed ==
    /\ mode # "idle"
    /\ Fault
    /\ SendFailed
    /\ UNCHANGED <<taken, late, storeVars, crashes>>

\* The process dies and is started again: the buffer is memory only.
AgentRestart ==
    /\ crashes < MaxCrashes
    /\ crashes' = crashes + 1
    /\ LET gone == Ids(buffer) \cup Ids(rest) \cup ({cur} \ {NoSample})
       IN  lost' = [lost EXCEPT !["crashed"] = @ \cup gone]
    /\ buffer' = DrainItems
    /\ GoIdle
    /\ UNCHANGED <<taken, late, storeVars, faults>>

\* The API gets to a request the agent stopped waiting for.
LateIngest(s) ==
    /\ late[s] > 0
    /\ late' = [late EXCEPT ![s] = @ - 1]
    /\ \E saved, appended \in BOOLEAN : Ingest(s, saved, appended)
    /\ UNCHANGED <<agentVars, lost, boundVars>>

-----------------------------------------------------------------------------
Init ==
    /\ taken = 0
    /\ buffer = << >>
    /\ mode = "idle"
    /\ cur = NoSample
    /\ attempt = 0
    /\ resent = FALSE
    /\ rest = << >>
    /\ sent = 0
    /\ late = [s \in Sample |-> 0]
    /\ latest = NoSample
    /\ stored = {}
    /\ unstored = {}
    /\ lost = [k \in LossKind |-> {}]
    /\ faults = 0
    /\ crashes = 0

AgentStep ==
    \/ RequestAccepted
    \/ RequestRetried
    \/ RequestGivenUp
    \/ RefusedAndRepaired
    \/ RefusedAndFailed

Next ==
    \/ MetricsTick
    \/ AgentStep
    \/ AgentRestart
    \/ \E s \in Sample : LateIngest(s)

Spec == Init /\ [][Next]_vars

\* The ticker keeps firing and a send always ends (every request has a
\* timeout, every loop a bound); a crash and a late handler owe nothing.
Fairness ==
    /\ WF_vars(MetricsTick)
    /\ WF_vars(AgentStep)

FairSpec == Spec /\ Fairness

-----------------------------------------------------------------------------
(* Properties. *)

\* Samples the agent still holds somewhere.
Held == Ids(buffer) \cup Ids(rest) \cup ({cur} \ {NoSample})

\* No sample vanishes in a way that is not listed here: each one the agent took
\* was stored, is still held, may still be stored by a request under way, met a
\* store that failed behind a 202, or was evicted from a full buffer, left behind
\* by an interrupted flush or gone with the process.
EverySampleAccountedFor ==
    \A s \in 1..taken :
        \/ s \in stored \cup unstored \cup Held
        \/ late[s] > 0
        \/ \E k \in LossKind : s \in lost[k]

\* What the comment in flushBuffer says of an interrupted flush ("Put it back and
\* stop; try again next cycle"): what was drained and not sent is sent again, so
\* that it is in the buffer, or was stored.
InterruptedFlushIsPutBack == lost["abandoned"] \subseteq Held \cup stored

\* The backlog leaves the agent oldest first: the buffer is in sampling order,
\* the fresh sample is newer than all of it, a flushed item is older than what
\* waits behind it, and nothing is in the buffer while a flush is under way.
BacklogInOrder ==
    /\ \A i, j \in 1..Len(buffer) : i < j => buffer[i].id < buffer[j].id
    /\ \A i, j \in 1..Len(rest) : i < j => rest[i].id < rest[j].id
    /\ mode = "fresh" => \A s \in Ids(buffer) : s < cur
    /\ mode = "flush" => buffer = << >> /\ \A s \in Ids(rest) : cur < s
    /\ mode # "flush" => rest = << >>

\* The oldest part of the backlog reaches the store: once nothing goes wrong any
\* more, the next cycle brings what it has room for behind its own sample ("the
\* buffered metrics flush once it is back", docs/TROUBLESHOOTING.md).  What is
\* buffered behind that may be left behind when the cycle's time is over.
BacklogDelivered ==
    \A s \in Sample :
        (/\ mode = "idle" /\ taken < MaxSamples
         /\ \E i \in 1..Len(buffer) : i < Room /\ buffer[i].id = s
         /\ faults = MaxFaults /\ crashes = MaxCrashes)
        ~> s \in stored
=============================================================================

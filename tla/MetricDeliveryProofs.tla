------------------------ MODULE MetricDeliveryProofs ------------------------
(***************************************************************************)
(* For any buffer capacity, any number of samples and attempts, and any    *)
(* number of lost requests and restarts: no sample vanishes unnoticed, the *)
(* backlog leaves the agent oldest first, and the chart of a counter keeps *)
(* its ends and counts the traffic of a sample once.                       *)
(***************************************************************************)
EXTENDS MetricDelivery, MetricHistory, SequenceTheorems, FiniteSetTheorems,
        WellFoundedInduction, TLAPS

\* The samples of the agent were taken, and it carries one exactly when it sends.
CarriesTaken ==
    /\ Ids(buffer) \subseteq 1..taken
    /\ Ids(rest) \subseteq 1..taken
    /\ mode = "idle" => cur = NoSample
    /\ mode # "idle" => cur \in 1..taken

\* Every request that is still on its way is one that went wrong.
LateCounted == \A s \in Sample : late[s] <= faults

\* The inductive invariant.
IInv ==
    TypeOK /\ CarriesTaken /\ LateCounted /\ EverySampleAccountedFor /\ BacklogInOrder

-----------------------------------------------------------------------------
(* Sequences of items. *)

LEMMA Constants ==
    /\ MaxSamples \in Nat /\ MaxAttempts \in Nat /\ MaxAttempts >= 1
    /\ MaxFaults \in Nat /\ MaxCrashes \in Nat /\ Room \in Nat /\ Room >= 1
    /\ BufferCap \in Nat /\ BufferCap >= 1
  BY BoundsAssumption, CapAssumption DEF BufferCap

LEMMA ItemFields ==
    ASSUME NEW x \in Item
    PROVE  x.prio = 0 /\ x.id \in Sample
  BY DEF Item, PriorityHistorical

LEMMA ItemOfFields ==
    ASSUME NEW s \in Sample
    PROVE  ItemOf(s) \in Item /\ ItemOf(s).id = s /\ ItemOf(s).prio = 0
  BY DEF ItemOf, Item, PriorityHistorical

\* A sequence of items is in sampling order.
InOrder(items) == \A i, j \in 1..Len(items) : i < j => items[i].id < items[j].id

LEMMA EmptyItems ==
    << >> \in Seq(Item) /\ Len(<< >>) = 0 /\ Ids(<< >>) = {} /\ InOrder(<< >>)
  BY DEF Ids, InOrder

LEMMA IdsAreSamples ==
    ASSUME NEW items \in Seq(Item)
    PROVE  Ids(items) \subseteq Sample
<1>1. \A i \in 1..Len(items) : items[i] \in Item
  OBVIOUS
<1> QED
  BY <1>1, ItemFields DEF Ids

\* What flushBuffer does with a queue: the head is sent, the tail waits.
LEMMA HeadAndTail ==
    ASSUME NEW items \in Seq(Item), items # << >>, InOrder(items)
    PROVE  /\ Head(items).id \in Ids(items)
           /\ Tail(items) \in Seq(Item) /\ InOrder(Tail(items))
           /\ Ids(items) = {Head(items).id} \cup Ids(Tail(items))
           /\ \A s \in Ids(Tail(items)) : Head(items).id < s
<1>1. /\ Len(items) \in Nat /\ Len(items) >= 1 /\ Head(items) = items[1]
      /\ Tail(items) \in Seq(Item) /\ Len(Tail(items)) = Len(items) - 1
      /\ \A i \in 1..(Len(items) - 1) : Tail(items)[i] = items[i + 1]
  BY HeadTailProperties, LenProperties
<1>2. /\ 1 \in 1..Len(items)
      /\ \A i \in 1..(Len(items) - 1) : i + 1 \in 1..Len(items) /\ 1 < i + 1
      /\ \A i \in 1..Len(items) : i = 1 \/ (i - 1 \in 1..(Len(items) - 1) /\ (i - 1) + 1 = i)
  BY <1>1
<1>3. InOrder(Tail(items))
  <2>1. ASSUME NEW i \in 1..(Len(items) - 1), NEW j \in 1..(Len(items) - 1), i < j
        PROVE  i + 1 < j + 1
    BY <2>1
  <2> QED
    BY <1>1, <1>2, <2>1 DEF InOrder
<1>4. \A s \in Ids(Tail(items)) : Head(items).id < s
  BY <1>1, <1>2 DEF Ids, InOrder
<1>5. Ids(items) = {Head(items).id} \cup Ids(Tail(items))
  <2>1. ASSUME NEW s \in Ids(items) PROVE s \in {Head(items).id} \cup Ids(Tail(items))
    <3>1. PICK i \in 1..Len(items) : s = items[i].id
      BY DEF Ids
    <3>2. CASE i = 1
      BY <1>1, <3>1, <3>2
    <3>3. CASE i # 1
      BY <1>1, <1>2, <3>1, <3>3 DEF Ids
    <3> QED
      BY <3>2, <3>3
  <2>2. ASSUME NEW s \in {Head(items).id} \cup Ids(Tail(items)) PROVE s \in Ids(items)
    BY <1>1, <1>2 DEF Ids
  <2> QED
    BY <2>1, <2>2
<1> QED
  BY <1>1, <1>3, <1>4, <1>5

\* All items have one priority, so that a full buffer gives up its oldest item.
LEMMA OldestIsEvictable ==
    ASSUME NEW items \in Seq(Item), Len(items) >= 1
    PROVE  (CHOOSE e \in 1..Len(items) : IsEvictable(items, e)) = 1
<1>1. \A i \in 1..Len(items) : items[i].prio = 0
  <2>1. \A i \in 1..Len(items) : items[i] \in Item
    OBVIOUS
  <2> QED
    BY <2>1, ItemFields
<1>2. Len(items) \in Nat /\ 1 \in 1..Len(items)
  OBVIOUS
<1>3. IsEvictable(items, 1)
  BY <1>1, <1>2 DEF IsEvictable
<1>4. ASSUME NEW e \in 1..Len(items), IsEvictable(items, e) PROVE e = 1
  <2>1. ~(1 < e)
    BY <1>1, <1>2, <1>4 DEF IsEvictable
  <2> QED
    BY <1>2, <2>1
<1> QED
  BY <1>2, <1>3, <1>4

\* Push keeps the buffer within its capacity and in order, when the new item is newer
\* than all it holds.
LEMMA PushItemInOrder ==
    ASSUME NEW items \in Seq(Item), Len(items) <= BufferCap, InOrder(items),
           NEW it \in Item, \A s \in Ids(items) : s < it.id
    PROVE  /\ PushItem(items, it) \in Seq(Item) /\ Len(PushItem(items, it)) <= BufferCap
           /\ InOrder(PushItem(items, it))
           /\ Ids(PushItem(items, it)) \subseteq Ids(items) \cup {it.id}
<1> DEFINE p == PushItem(items, it)
           n == Len(items)
<1>0. /\ n \in Nat /\ BufferCap \in Nat /\ BufferCap >= 1
      /\ \A i \in 1..n : items[i] \in Item /\ items[i].id < it.id /\ items[i].id \in Ids(items)
  BY Constants DEF Ids
<1>1. CASE n < BufferCap
  <2>1. /\ p = Append(items, it) /\ p \in Seq(Item) /\ Len(p) = n + 1
        /\ \A i \in 1..n : p[i] = items[i]
        /\ p[n + 1] = it
    BY <1>1 DEF PushItem
  <2>2. n + 1 <= BufferCap
    BY <1>0, <1>1
  <2>3. \A i \in 1..(n + 1) : i \in 1..n \/ i = n + 1
    BY <1>0
  <2> HIDE DEF p
  <2>4. \A i \in 1..Len(p) : p[i].id \in Ids(items) \cup {it.id}
    BY <1>0, <2>1, <2>3
  <2>5. ASSUME NEW i \in 1..Len(p), NEW j \in 1..Len(p), i < j PROVE p[i].id < p[j].id
    <3>1. i \in 1..n
      BY <1>0, <2>1, <2>5
    <3>2. CASE j \in 1..n
      BY <2>1, <2>5, <3>1, <3>2 DEF InOrder
    <3>3. CASE j = n + 1
      BY <1>0, <2>1, <3>1, <3>3
    <3> QED
      BY <2>1, <2>3, <3>2, <3>3
  <2> QED
    BY <2>1, <2>2, <2>4, <2>5 DEF p, Ids, InOrder
<1>2. CASE ~(n < BufferCap)
  <2>1. n = BufferCap /\ n >= 1
    BY <1>0, <1>2
  <2>2. items[1].prio = 0 /\ it.prio = 0
    BY <1>0, <2>1, ItemFields
  <2>3. p = EvictAndAppend(items, 1, it)
    <3> DEFINE e == CHOOSE e \in 1..Len(items) : IsEvictable(items, e)
    <3>1. e = 1
      BY <2>1, OldestIsEvictable
    <3>2. p = IF items[e].prio <= it.prio THEN EvictAndAppend(items, e, it) ELSE items
      BY <1>2 DEF PushItem, PushFull
    <3> HIDE DEF e
    <3> QED
      BY <2>2, <3>1, <3>2
  <2>4. /\ p \in [1..n -> Item]
        /\ \A i \in 1..n : i < n => i + 1 \in 1..n /\ p[i] = items[i + 1]
        /\ p[n] = it
    BY <1>0, <2>1, <2>3 DEF EvictAndAppend
  <2>5. p \in Seq(Item) /\ Len(p) = n
    BY <1>0, <2>4
  <2> HIDE DEF p
  <2>6. \A i \in 1..Len(p) : p[i].id \in Ids(items) \cup {it.id}
    <3>1. \A i \in 1..n : i < n \/ i = n
      BY <1>0
    <3> QED
      BY <1>0, <2>4, <2>5, <3>1
  <2>7. ASSUME NEW i \in 1..Len(p), NEW j \in 1..Len(p), i < j PROVE p[i].id < p[j].id
    <3>1. i \in 1..n /\ j \in 1..n /\ i < n /\ i + 1 \in 1..n /\ (j < n \/ j = n)
      BY <1>0, <2>5, <2>7
    <3>2. CASE j < n
      <4>1. j + 1 \in 1..n /\ i + 1 < j + 1
        BY <2>7, <3>1, <3>2, <1>0
      <4> QED
        BY <2>4, <3>1, <3>2, <4>1 DEF InOrder
    <3>3. CASE j = n
      BY <1>0, <2>4, <3>1, <3>3
    <3> QED
      BY <3>1, <3>2, <3>3
  <2> QED
    BY <1>0, <2>1, <2>5, <2>6, <2>7 DEF p, Ids, InOrder
<1> QED
  BY <1>1, <1>2

\* A push on the empty buffer keeps the item: there is room for one.
LEMMA PushOnEmpty ==
    ASSUME NEW it \in Item
    PROVE  Ids(PushItem(<< >>, it)) = {it.id}
<1>1. PushItem(<< >>, it) = <<it>>
  BY Constants DEF PushItem
<1> QED
  BY <1>1 DEF Ids

-----------------------------------------------------------------------------
(* What a step must show. *)

\* The agent's half of the type invariant, and the store's.
AgentType ==
    /\ buffer \in Seq(Item) /\ Len(buffer) <= BufferCap
    /\ mode \in {"idle", "fresh", "flush"} /\ cur \in Sample \cup {NoSample}
    /\ attempt \in 0..MaxAttempts /\ resent \in BOOLEAN /\ rest \in Seq(Item)
    /\ sent \in 0..Room /\ lost \in [LossKind -> SUBSET Sample]

StoreType ==
    /\ late \in [Sample -> 0..MaxFaults] /\ latest \in Sample \cup {NoSample}
    /\ stored \in SUBSET Sample /\ unstored \in SUBSET Sample

LEMMA TypeParts ==
    TypeOK <=> /\ taken \in 0..MaxSamples /\ AgentType /\ StoreType
               /\ faults \in 0..MaxFaults /\ crashes \in 0..MaxCrashes
  BY DEF TypeOK, AgentType, StoreType

\* The samples the agent answers for.
Lost == UNION {lost[k] : k \in LossKind}

\* The store forgets no sample, and a request stays on its way until it is handled.
StoreKeeps ==
    /\ stored \subseteq stored' /\ unstored \subseteq unstored'
    /\ \A s \in Sample : late[s] > 0 => late'[s] > 0 \/ s \in stored' \cup unstored'

\* Accounting is split between the agent and the store: a sample may leave the agent
\* only for the API or one of the three losses.
LEMMA AccountingByParts ==
    ASSUME IInv, UNCHANGED taken, StoreKeeps,
           \A s \in Held \cup Lost : s \in Held' \cup Lost' \cup stored' \cup unstored'
    PROVE  EverySampleAccountedFor'
<1>1. \A s : s \in Lost <=> \E k \in LossKind : s \in lost[k]
  BY DEF Lost
<1>2. \A s : s \in Lost' <=> \E k \in LossKind : s \in lost'[k]
  BY DEF Lost
<1>3. 1..taken \subseteq Sample
  BY Constants DEF IInv, TypeOK, Sample
<1> QED
  BY <1>1, <1>2, <1>3 DEF IInv, EverySampleAccountedFor, StoreKeeps

LEMMA InitHolds == Init => IInv
<1> SUFFICES ASSUME Init PROVE IInv
  OBVIOUS
<1>1. AgentType
  <2>1. Len(buffer) <= BufferCap /\ attempt \in 0..MaxAttempts /\ sent \in 0..Room
    BY Constants, EmptyItems DEF Init
  <2>2. buffer \in Seq(Item) /\ rest \in Seq(Item) /\ lost \in [LossKind -> SUBSET Sample]
    BY EmptyItems DEF Init
  <2> QED
    BY <2>1, <2>2 DEF Init, AgentType
<1>2. StoreType /\ LateCounted
  BY Constants, EmptyItems DEF Init, StoreType, NoSample, LateCounted
<1>3. TypeOK
  BY <1>1, <1>2, TypeParts, Constants DEF Init
<1>4. CarriesTaken
  BY EmptyItems DEF Init, CarriesTaken
<1>5. EverySampleAccountedFor
  BY DEF Init, EverySampleAccountedFor
<1>6. BacklogInOrder
  BY EmptyItems DEF Init, BacklogInOrder, InOrder
<1> QED
  BY <1>2, <1>3, <1>4, <1>5, <1>6 DEF IInv

-----------------------------------------------------------------------------
(* The store's part of a step. *)

LEMMA IngestStores ==
    ASSUME TypeOK, NEW s \in Sample, NEW saved \in BOOLEAN, NEW appended \in BOOLEAN,
           Ingest(s, saved, appended)
    PROVE  /\ latest' \in Sample \cup {NoSample}
           /\ stored' \in SUBSET Sample /\ unstored' \in SUBSET Sample
           /\ stored \subseteq stored' /\ unstored \subseteq unstored'
           /\ s \in stored' \cup unstored'
<1>1. CASE appended
  BY <1>1 DEF TypeOK, Ingest
<1>2. CASE ~appended
  BY <1>2 DEF TypeOK, Ingest
<1> QED
  BY <1>1, <1>2

\* One request goes wrong, in one of the three ways.
LEMMA FateOfARequest ==
    ASSUME IInv, cur \in Sample, RequestFate
    PROVE  /\ StoreType' /\ LateCounted' /\ StoreKeeps /\ faults' \in 0..MaxFaults
<1>1. /\ faults \in Nat /\ faults <= MaxFaults
      /\ late \in [Sample -> 0..MaxFaults] /\ \A s \in Sample : late[s] \in Nat /\ late[s] <= faults
  BY Constants DEF IInv, TypeOK, LateCounted
<1>2. /\ faults' \in 0..MaxFaults
      /\ \A s \in Sample : late[s] <= faults'
  <2>1. faults' = faults \/ (faults' = faults + 1 /\ faults < MaxFaults)
    BY DEF RequestFate, GoesWrong, Fault
  <2> QED
    BY <1>1, <2>1, Constants
<1>3. CASE UNCHANGED <<storeVars, late>>
  BY <1>1, <1>2, <1>3 DEF IInv, TypeOK, StoreType, LateCounted, StoreKeeps, storeVars
<1>4. CASE /\ UNCHANGED late
           /\ \E saved, appended \in BOOLEAN : Ingest(cur, saved, appended)
  BY <1>1, <1>2, <1>4, IngestStores DEF IInv, StoreType, LateCounted, StoreKeeps
<1>5. CASE Fault /\ late' = [late EXCEPT ![cur] = @ + 1] /\ UNCHANGED storeVars
  <2>0. \A s \in Sample : late[s] + 1 <= faults' /\ late[s] + 1 \in 0..MaxFaults /\ late[s] + 1 > 0
    BY <1>1, <1>5, Constants DEF Fault
  <2>1. /\ late' \in [Sample -> 0..MaxFaults]
        /\ \A s \in Sample : late'[s] = IF s = cur THEN late[s] + 1 ELSE late[s]
    BY <1>1, <1>5, <2>0
  <2>2. LateCounted' /\ StoreKeeps
    BY <1>2, <1>5, <2>0, <2>1 DEF LateCounted, StoreKeeps, storeVars
  <2> QED
    BY <1>2, <1>5, <2>1, <2>2 DEF IInv, TypeOK, StoreType, storeVars
<1> QED
  BY <1>3, <1>4, <1>5 DEF RequestFate

\* A request goes wrong and the store hears nothing of it.
LEMMA FaultAlone ==
    ASSUME IInv, Fault, UNCHANGED <<late, storeVars>>
    PROVE  /\ StoreType' /\ LateCounted' /\ StoreKeeps /\ faults' \in 0..MaxFaults
<1>1. /\ faults \in Nat /\ faults' = faults + 1 /\ faults' \in 0..MaxFaults
      /\ late \in [Sample -> 0..MaxFaults] /\ \A s \in Sample : late[s] <= faults
  BY Constants DEF IInv, TypeOK, Fault, LateCounted
<1>2. \A s \in Sample : late[s] <= faults'
  BY <1>1, Constants
<1> QED
  BY <1>1, <1>2 DEF IInv, TypeOK, StoreType, LateCounted, StoreKeeps, storeVars

-----------------------------------------------------------------------------
(* The agent's part of a step. *)

LEMMA SendersCarry ==
    ASSUME IInv, mode # "idle"
    PROVE  /\ cur \in Sample /\ cur \in 1..taken /\ cur # NoSample
           /\ ItemOf(cur) \in Item /\ ItemOf(cur).id = cur
           /\ 1..taken \subseteq Sample /\ taken \in Nat
<1>1. cur \in 1..taken /\ taken \in 0..MaxSamples
  BY DEF IInv, CarriesTaken, TypeOK
<1>2. /\ cur \in Sample /\ cur # NoSample /\ 1..taken \subseteq Sample /\ taken \in Nat
  BY <1>1, Constants DEF Sample, NoSample
<1> QED
  BY <1>1, <1>2, ItemOfFields

\* The send failed: its sample, and what waited behind it, is buffered or lost on
\* the record.
LEMMA SendFailedParts ==
    ASSUME IInv, mode # "idle", SendFailed, UNCHANGED taken
    PROVE  /\ AgentType' /\ CarriesTaken' /\ BacklogInOrder'
           /\ \A s \in Held \cup Lost : s \in Held' \cup Lost'
<1> DEFINE it == ItemOf(cur)
           p == PushItem(buffer, it)
<1>1. /\ it \in Item /\ it.id = cur /\ cur \in 1..taken /\ cur \in Sample
      /\ cur # NoSample /\ 1..taken \subseteq Sample
  BY SendersCarry
<1>2. /\ buffer \in Seq(Item) /\ Len(buffer) <= BufferCap /\ InOrder(buffer)
      /\ rest \in Seq(Item) /\ lost \in [LossKind -> SUBSET Sample]
      /\ Ids(buffer) \subseteq 1..taken /\ Ids(rest) \subseteq 1..taken
      /\ mode \in {"fresh", "flush"}
  BY DEF IInv, TypeOK, BacklogInOrder, InOrder, CarriesTaken
<1>3. /\ mode' = "idle" /\ cur' = NoSample /\ attempt' = 0 /\ resent' = FALSE /\ rest' = << >>
      /\ sent' = 0 /\ buffer' = p
  BY DEF SendFailed, GoIdle, BufferFresh, InterruptFlush, PushAndRecord
<1>4. \A s \in Ids(buffer) : s < it.id
  <2>1. CASE mode = "fresh"
    BY <1>1, <2>1 DEF IInv, BacklogInOrder
  <2>2. CASE mode = "flush"
    BY <2>2, EmptyItems DEF IInv, BacklogInOrder
  <2> QED
    BY <1>2, <2>1, <2>2
<1>5. /\ p \in Seq(Item) /\ Len(p) <= BufferCap /\ InOrder(p)
      /\ Ids(p) \subseteq Ids(buffer) \cup {cur}
  BY <1>1, <1>2, <1>4, PushItemInOrder
<1>6. /\ mode = "fresh" => /\ rest = << >>
                          /\ lost' = [lost EXCEPT !["evicted"] =
                                          @ \cup ((Ids(buffer) \cup {it.id}) \ Ids(p))]
      /\ mode = "flush" => /\ buffer = << >>
                          /\ lost' = [lost EXCEPT !["abandoned"] = @ \cup Ids(rest)]
  BY DEF IInv, BacklogInOrder, SendFailed, BufferFresh, InterruptFlush, PushAndRecord
<1>7. mode = "flush" => cur \in Ids(p)
  BY <1>1, <1>6, PushOnEmpty
<1>8. Ids(rest) \subseteq Sample /\ Ids(buffer) \subseteq Sample
  BY <1>2, IdsAreSamples
<1> HIDE DEF it, p
<1>9. lost' \in [LossKind -> SUBSET Sample] /\ \A k \in LossKind : lost[k] \subseteq lost'[k]
  BY <1>1, <1>2, <1>6, <1>8 DEF LossKind
<1>10. AgentType'
  <2>1. 0 \in 0..MaxAttempts /\ 0 \in 0..Room /\ << >> \in Seq(Item)
    BY Constants, EmptyItems
  <2> QED
    BY <1>3, <1>5, <1>9, <2>1 DEF AgentType
<1>11. CarriesTaken'
  BY <1>1, <1>2, <1>3, <1>5, EmptyItems DEF CarriesTaken
<1>12. BacklogInOrder'
  BY <1>3, <1>5, EmptyItems DEF BacklogInOrder, InOrder
<1>13. ASSUME NEW s \in Held \cup Lost PROVE s \in Held' \cup Lost'
  <2>1. CASE s \in Lost
    BY <1>9, <2>1 DEF Lost
  <2>2. CASE s \in Held /\ mode = "fresh"
    <3>1. s \in Ids(buffer) \cup {cur}
      BY <1>6, <2>2, EmptyItems DEF Held
    <3>2. s \in Ids(p) \/ s \in lost'["evicted"]
      BY <1>1, <1>2, <1>6, <2>2, <3>1 DEF LossKind
    <3> QED
      BY <1>3, <3>2 DEF Held, Lost, LossKind
  <2>3. CASE s \in Held /\ mode = "flush"
    <3>1. s \in Ids(rest) \cup {cur}
      BY <1>6, <2>3, EmptyItems DEF Held
    <3>2. s \in Ids(p) \/ s \in lost'["abandoned"]
      BY <1>2, <1>6, <1>7, <2>3, <3>1 DEF LossKind
    <3> QED
      BY <1>3, <3>2 DEF Held, Lost, LossKind
  <2> QED
    BY <1>2, <2>1, <2>2, <2>3
<1> QED
  BY <1>10, <1>11, <1>12, <1>13

LEMMA CountedType ==
    ASSUME IInv, CountRequest
    PROVE  sent' \in 0..Room
<1>1. sent \in 0..Room /\ Room \in Nat
  BY Constants DEF IInv, TypeOK
<1> QED
  BY <1>1 DEF CountRequest

\* The send succeeded: flushBuffer goes on with the oldest item it has.
LEMMA SendSucceededParts ==
    ASSUME IInv, mode # "idle", SendSucceeded, UNCHANGED taken
    PROVE  /\ AgentType' /\ CarriesTaken' /\ BacklogInOrder'
           /\ \A s \in Held \cup Lost : s \in Held' \cup Lost' \cup {cur}
<1> DEFINE queue == IF mode = "fresh" THEN buffer ELSE rest
<1>1. /\ buffer \in Seq(Item) /\ Len(buffer) <= BufferCap /\ rest \in Seq(Item)
      /\ lost \in [LossKind -> SUBSET Sample] /\ mode \in {"fresh", "flush"}
  BY DEF IInv, TypeOK
<1>2. /\ queue \in Seq(Item) /\ InOrder(queue) /\ Ids(queue) \subseteq 1..taken
      /\ Held = Ids(queue) \cup {cur}
  <2>1. /\ mode = "fresh" => rest = << >>
        /\ mode = "flush" => buffer = << >>
        /\ InOrder(buffer) /\ InOrder(rest)
        /\ Ids(buffer) \subseteq 1..taken /\ Ids(rest) \subseteq 1..taken
    BY DEF IInv, BacklogInOrder, InOrder, CarriesTaken
  <2>2. cur # NoSample
    BY SendersCarry
  <2> QED
    BY <1>1, <2>1, <2>2, EmptyItems DEF Held
<1>3. /\ buffer' = << >> /\ lost' = lost
      /\ \/ queue = << >> /\ GoIdle
         \/ /\ queue # << >> /\ StartSend("flush", Head(queue).id) /\ rest' = Tail(queue)
            /\ CountRequest
  <2>1. mode = "flush" => buffer = << >>
    BY DEF IInv, BacklogInOrder
  <2> QED
    BY <1>1, <2>1 DEF SendSucceeded, DrainItems
<1> HIDE DEF queue
<1>4. /\ 0 \in 0..MaxAttempts /\ 1 \in 0..MaxAttempts /\ 0 <= BufferCap /\ 0 \in 0..Room
      /\ << >> \in Seq(Item) /\ Len(<< >>) = 0 /\ Ids(<< >>) = {} /\ InOrder(<< >>)
      /\ 1..taken \subseteq Sample
  BY Constants, EmptyItems, SendersCarry
<1>5. CASE queue = << >> /\ GoIdle
  <2>1. AgentType'
    BY <1>1, <1>3, <1>4, <1>5 DEF AgentType, GoIdle
  <2>2. CarriesTaken' /\ BacklogInOrder'
    BY <1>3, <1>4, <1>5 DEF CarriesTaken, BacklogInOrder, InOrder, GoIdle
  <2>3. \A s \in Held \cup Lost : s \in Lost' \cup {cur}
    BY <1>2, <1>3, <1>4, <1>5 DEF Lost
  <2> QED
    BY <2>1, <2>2, <2>3
<1>6. CASE /\ queue # << >> /\ StartSend("flush", Head(queue).id) /\ rest' = Tail(queue)
           /\ CountRequest
  <2>1. /\ Head(queue).id \in Ids(queue)
        /\ Tail(queue) \in Seq(Item) /\ InOrder(Tail(queue))
        /\ Ids(queue) = {Head(queue).id} \cup Ids(Tail(queue))
        /\ \A s \in Ids(Tail(queue)) : Head(queue).id < s
    BY <1>2, <1>6, HeadAndTail
  <2>2. /\ mode' = "flush" /\ cur' = Head(queue).id /\ attempt' = 1 /\ resent' = FALSE
        /\ rest' = Tail(queue)
    BY <1>6 DEF StartSend
  <2>3. AgentType'
    BY <1>1, <1>2, <1>3, <1>4, <1>6, <2>1, <2>2, CountedType DEF AgentType
  <2>4. CarriesTaken'
    BY <1>2, <1>3, <1>4, <2>1, <2>2 DEF CarriesTaken
  <2>5. BacklogInOrder'
    BY <1>3, <1>4, <2>1, <2>2 DEF BacklogInOrder, InOrder
  <2>6. cur' # NoSample
    BY <1>2, <1>4, <2>1, <2>2, Constants DEF Sample, NoSample
  <2>7. \A s \in Held \cup Lost : s \in Held' \cup Lost' \cup {cur}
    BY <1>2, <1>3, <2>1, <2>2, <2>6 DEF Held, Lost
  <2> QED
    BY <2>3, <2>4, <2>5, <2>7
<1> QED
  BY <1>3, <1>5, <1>6

-----------------------------------------------------------------------------
(* The steps. *)

\* The parts of a step put together.
LEMMA PartsKeepInv ==
    ASSUME IInv, UNCHANGED taken, AgentType', StoreType', CarriesTaken', BacklogInOrder',
           LateCounted', StoreKeeps,
           faults' \in 0..MaxFaults, crashes' \in 0..MaxCrashes,
           \A s \in Held \cup Lost : s \in Held' \cup Lost' \cup stored' \cup unstored'
    PROVE  IInv'
<1>1. EverySampleAccountedFor'
  BY AccountingByParts
<1>2. taken' \in 0..MaxSamples
  BY DEF IInv, TypeOK
<1>3. TypeOK'
  BY <1>2 DEF TypeOK, AgentType, StoreType
<1> QED
  BY <1>1, <1>3 DEF IInv

\* collector.Sample: the new sample is newer than all that is buffered.
LEMMA MetricsTickKeepsInv ==
    ASSUME IInv, MetricsTick
    PROVE  IInv'
<1>1. /\ mode = "idle" /\ cur = NoSample /\ rest = << >> /\ taken \in Nat /\ taken < MaxSamples
      /\ Ids(buffer) \subseteq 1..taken /\ Ids(rest) \subseteq 1..taken
  BY Constants DEF IInv, MetricsTick, BacklogInOrder, CarriesTaken, TypeOK
<1>2. /\ taken' = taken + 1 /\ mode' = "fresh" /\ cur' = taken + 1 /\ attempt' = 1
      /\ resent' = FALSE
      /\ UNCHANGED <<buffer, rest, sent, late, latest, stored, unstored, lost, faults, crashes>>
  BY DEF MetricsTick, StartSend, storeVars, boundVars
<1>3. /\ taken + 1 \in 0..MaxSamples /\ taken + 1 \in Sample /\ 1 \in 0..MaxAttempts
      /\ 1..taken \subseteq 1..(taken + 1) /\ taken + 1 \in 1..(taken + 1)
      /\ \A s \in 1..taken : s < taken + 1
      /\ \A s \in 1..(taken + 1) : s \in 1..taken \/ s = taken + 1
      /\ taken + 1 # NoSample
  BY <1>1, Constants DEF Sample, NoSample
<1>4. TypeOK'
  BY <1>2, <1>3 DEF IInv, TypeOK
<1>5. CarriesTaken'
  BY <1>1, <1>2, <1>3 DEF CarriesTaken
<1>6. LateCounted'
  BY <1>2 DEF IInv, LateCounted
<1>7. BacklogInOrder'
  BY <1>1, <1>2, <1>3 DEF IInv, BacklogInOrder
<1>8. EverySampleAccountedFor'
  BY <1>1, <1>2, <1>3 DEF IInv, EverySampleAccountedFor, Held
<1> QED
  BY <1>4, <1>5, <1>6, <1>7, <1>8 DEF IInv

LEMMA RequestAcceptedKeepsInv ==
    ASSUME IInv, RequestAccepted
    PROVE  IInv'
<1>1. /\ mode # "idle" /\ SendSucceeded /\ UNCHANGED <<taken, late, crashes>>
      /\ \E saved, appended \in BOOLEAN : Ingest(cur, saved, appended)
      /\ faults' = faults \/ Fault
  BY DEF RequestAccepted
<1>2. cur \in Sample
  BY <1>1, SendersCarry
<1>3. /\ latest' \in Sample \cup {NoSample}
      /\ stored' \in SUBSET Sample /\ unstored' \in SUBSET Sample
      /\ stored \subseteq stored' /\ unstored \subseteq unstored'
      /\ cur \in stored' \cup unstored'
  BY <1>1, <1>2, IngestStores DEF IInv
<1>4. /\ AgentType' /\ CarriesTaken' /\ BacklogInOrder'
      /\ \A s \in Held \cup Lost : s \in Held' \cup Lost' \cup {cur}
  BY <1>1, SendSucceededParts
<1>5. /\ faults' \in 0..MaxFaults /\ crashes' \in 0..MaxCrashes
      /\ \A s \in Sample : late[s] <= faults'
  <2>1. /\ faults \in 0..MaxFaults /\ crashes \in 0..MaxCrashes
        /\ \A s \in Sample : late[s] \in Nat /\ late[s] <= faults
    BY DEF IInv, TypeOK, LateCounted
  <2>2. faults' = faults \/ (faults < MaxFaults /\ faults' = faults + 1)
    BY <1>1 DEF Fault
  <2> QED
    BY <1>1, <2>1, <2>2, Constants
<1>6. StoreType' /\ LateCounted' /\ StoreKeeps
  BY <1>1, <1>3, <1>5 DEF IInv, TypeOK, StoreType, LateCounted, StoreKeeps
<1>7. \A s \in Held \cup Lost : s \in Held' \cup Lost' \cup stored' \cup unstored'
  BY <1>3, <1>4
<1> QED
  BY <1>1, <1>4, <1>5, <1>6, <1>7, PartsKeepInv

\* A request went wrong and the send goes on: the agent carries what it carried.
LEMMA SendGoesOnKeepsInv ==
    ASSUME IInv, RequestRetried \/ RefusedAndRepaired
    PROVE  IInv'
<1>1. /\ mode # "idle" /\ CountRequest
      /\ UNCHANGED <<taken, buffer, mode, cur, rest, lost, crashes>>
  BY DEF RequestRetried, RefusedAndRepaired
<1>2. attempt' \in 0..MaxAttempts /\ resent' \in BOOLEAN
  <2>1. /\ attempt \in 0..MaxAttempts /\ resent \in BOOLEAN /\ resent' \in {resent, TRUE}
        /\ (attempt < MaxAttempts /\ attempt' = attempt + 1) \/ attempt' = 1
    BY DEF IInv, TypeOK, RequestRetried, RefusedAndRepaired
  <2>2. attempt' \in 0..MaxAttempts
    BY <2>1, Constants
  <2> QED
    BY <2>1, <2>2
<1>3. AgentType'
  BY <1>1, <1>2, CountedType DEF IInv, TypeOK, AgentType
<1>4. StoreType' /\ LateCounted' /\ StoreKeeps /\ faults' \in 0..MaxFaults
  <2>1. CASE RequestRetried
    BY <1>1, <2>1, SendersCarry, FateOfARequest DEF RequestRetried
  <2>2. CASE RefusedAndRepaired
    BY <1>1, <2>2, FaultAlone DEF RefusedAndRepaired
  <2> QED
    BY <2>1, <2>2
<1>5. CarriesTaken' /\ BacklogInOrder'
  BY <1>1 DEF IInv, CarriesTaken, BacklogInOrder
<1>6. crashes' \in 0..MaxCrashes /\ \A s \in Held \cup Lost : s \in Held' \cup Lost'
  BY <1>1 DEF IInv, TypeOK, Held, Lost
<1> QED
  BY <1>1, <1>3, <1>4, <1>5, <1>6, PartsKeepInv

LEMMA SendEndsKeepsInv ==
    ASSUME IInv, RequestGivenUp \/ RefusedAndFailed
    PROVE  IInv'
<1>1. mode # "idle" /\ SendFailed /\ UNCHANGED <<taken, crashes>>
  BY DEF RequestGivenUp, RefusedAndFailed
<1>2. /\ AgentType' /\ CarriesTaken' /\ BacklogInOrder'
      /\ \A s \in Held \cup Lost : s \in Held' \cup Lost'
  BY <1>1, SendFailedParts
<1>3. StoreType' /\ LateCounted' /\ StoreKeeps /\ faults' \in 0..MaxFaults
  <2>1. CASE RequestGivenUp
    BY <1>1, <2>1, SendersCarry, FateOfARequest DEF RequestGivenUp
  <2>2. CASE RefusedAndFailed
    BY <1>1, <2>2, FaultAlone DEF RefusedAndFailed
  <2> QED
    BY <2>1, <2>2
<1>4. crashes' \in 0..MaxCrashes
  BY <1>1 DEF IInv, TypeOK
<1> QED
  BY <1>1, <1>2, <1>3, <1>4, PartsKeepInv

\* What was in memory is gone, on the record.
LEMMA AgentRestartKeepsInv ==
    ASSUME IInv, AgentRestart
    PROVE  IInv'
<1>1. /\ crashes < MaxCrashes /\ crashes' = crashes + 1
      /\ lost' = [lost EXCEPT !["crashed"] = @ \cup Held]
      /\ buffer' = << >> /\ mode' = "idle" /\ cur' = NoSample /\ attempt' = 0
      /\ resent' = FALSE /\ rest' = << >> /\ sent' = 0
      /\ UNCHANGED <<taken, late, latest, stored, unstored, faults>>
  BY DEF AgentRestart, GoIdle, DrainItems, Held, storeVars
<1>2. /\ 0 \in 0..MaxAttempts /\ 0 \in 0..Room /\ 0 <= BufferCap /\ << >> \in Seq(Item)
      /\ Len(<< >>) = 0 /\ Ids(<< >>) = {} /\ InOrder(<< >>)
  BY Constants, EmptyItems
<1>3. Held \subseteq Sample
  BY IdsAreSamples DEF IInv, TypeOK, Held
<1>4. /\ lost' \in [LossKind -> SUBSET Sample] /\ Held \subseteq lost'["crashed"]
      /\ \A k \in LossKind : lost[k] \subseteq lost'[k]
  BY <1>1, <1>3 DEF IInv, TypeOK, LossKind
<1>5. AgentType'
  BY <1>1, <1>2, <1>4 DEF AgentType
<1>6. StoreType' /\ LateCounted' /\ StoreKeeps
  BY <1>1 DEF IInv, TypeOK, StoreType, LateCounted, StoreKeeps
<1>7. CarriesTaken' /\ BacklogInOrder'
  BY <1>1, <1>2 DEF CarriesTaken, BacklogInOrder, InOrder
<1>8. \A s \in Held \cup Lost : s \in Lost'
  BY <1>4 DEF Lost, LossKind
<1>9. faults' \in 0..MaxFaults
  BY <1>1 DEF IInv, TypeOK
<1>10. crashes' \in 0..MaxCrashes
  BY <1>1, Constants DEF IInv, TypeOK
<1> QED
  BY <1>1, <1>5, <1>6, <1>7, <1>8, <1>9, <1>10, PartsKeepInv

LEMMA LateIngestKeepsInv ==
    ASSUME IInv, NEW s \in Sample, LateIngest(s)
    PROVE  IInv'
<1>1. /\ late[s] > 0 /\ late' = [late EXCEPT ![s] = @ - 1]
      /\ \E saved, appended \in BOOLEAN : Ingest(s, saved, appended)
      /\ UNCHANGED <<taken, buffer, mode, cur, attempt, resent, rest, sent, lost, faults, crashes>>
  BY DEF LateIngest, agentVars, boundVars
<1>2. /\ latest' \in Sample \cup {NoSample}
      /\ stored' \in SUBSET Sample /\ unstored' \in SUBSET Sample
      /\ stored \subseteq stored' /\ unstored \subseteq unstored'
      /\ s \in stored' \cup unstored'
  BY <1>1, IngestStores DEF IInv
<1>3. /\ late \in [Sample -> 0..MaxFaults] /\ faults \in 0..MaxFaults
      /\ \A r \in Sample : late[r] <= faults
  BY DEF IInv, TypeOK, LateCounted
<1>4. /\ \A r \in Sample : late'[r] = IF r = s THEN late[r] - 1 ELSE late[r]
      /\ late[s] - 1 \in 0..MaxFaults /\ late[s] - 1 <= faults
  BY <1>1, <1>3, Constants
<1>5. late' \in [Sample -> 0..MaxFaults]
  BY <1>1, <1>3, <1>4
<1>6. StoreType' /\ LateCounted' /\ StoreKeeps
  BY <1>1, <1>2, <1>3, <1>4, <1>5 DEF StoreType, LateCounted, StoreKeeps
<1>7. AgentType' /\ faults' \in 0..MaxFaults /\ crashes' \in 0..MaxCrashes
  BY <1>1 DEF IInv, TypeOK, AgentType
<1>8. CarriesTaken' /\ BacklogInOrder'
  BY <1>1 DEF IInv, CarriesTaken, BacklogInOrder
<1>9. \A r \in Held \cup Lost : r \in Held' \cup Lost'
  BY <1>1 DEF Held, Lost
<1> QED
  BY <1>1, <1>6, <1>7, <1>8, <1>9, PartsKeepInv

LEMMA StutterKeepsInv ==
    ASSUME IInv, UNCHANGED vars
    PROVE  IInv'
  BY DEF IInv, TypeOK, CarriesTaken, LateCounted, EverySampleAccountedFor, BacklogInOrder, Held,
         vars, agentVars, storeVars, boundVars

LEMMA NextKeepsInv == IInv /\ [Next]_vars => IInv'
  BY StutterKeepsInv, MetricsTickKeepsInv, RequestAcceptedKeepsInv, SendGoesOnKeepsInv,
     SendEndsKeepsInv, AgentRestartKeepsInv, LateIngestKeepsInv DEF Next, AgentStep

-----------------------------------------------------------------------------
(* The chart. *)

\* What historySeries has in hand: the base, and the points so far.
Point == [at : Nat, rise : Nat]
InHand == [prev : Nat, prevT : Nat, points : Seq(Point)]

\* A point is later than the one before it.
Chronological(points) == \A i, j \in 1..Len(points) : i < j => points[i].at < points[j].at

\* Every set of naturals has a least element, so that what holds of none of its
\* smaller ones is impossible.
LEMMA LeastElement ==
    ASSUME NEW T \in SUBSET Nat, T # {}
    PROVE  \E m \in T : \A k \in T : m <= k
<1>1. PICK m \in T : \A k \in T : ~(<<k, m>> \in OpToRel(<, Nat))
  BY NatLessThanWellFounded, WFMin
<1>2. ASSUME NEW k \in T PROVE m <= k
  <2>1. ~(k < m)
    BY <1>1 DEF OpToRel
  <2> QED
    BY <2>1
<1> QED
  BY <1>2

LEMMA CountersAreNat ==
    ASSUME NEW s \in Taken
    PROVE  Counter[s] \in Nat
  BY HistoryAssumption DEF Taken

LEMMA RowFields ==
    ASSUME NEW table \in Seq(Row), NEW i \in 1..Len(table)
    PROVE  /\ table[i].sample \in Taken /\ table[i].ts \in Nat
           /\ Counter[table[i].sample] \in Nat
<1>1. table[i] \in Row
  OBVIOUS
<1>2. table[i].sample \in Taken /\ table[i].ts \in Nat
  BY <1>1, HistoryAssumption DEF Row
<1> QED
  BY <1>2, CountersAreNat

\* One row more.
LEMMA RateStepType ==
    ASSUME NEW table \in Seq(Row), NEW i \in 1..Len(table), NEW acc \in InHand
    PROVE  /\ RateStep(table, acc, i) \in InHand
           /\ \A n \in Nat : (n < i /\ Chronological(acc.points)
                              /\ \A k \in 1..Len(acc.points) : acc.points[k].at <= n)
                 => LET next == RateStep(table, acc, i).points
                    IN  Chronological(next) /\ \A k \in 1..Len(next) : next[k].at <= i
<1> DEFINE c == Counter[table[i].sample]
           x == [at |-> i, rise |-> c - acc.prev]
           later == table[i].ts > acc.prevT
           next == RateStep(table, acc, i).points
<1>1. /\ c \in Nat /\ acc.prev \in Nat /\ acc.points \in Seq(Point) /\ i \in Nat
      /\ table[i].ts \in Nat
  BY RowFields DEF InHand
<1>2. RateStep(table, acc, i) = [prev |-> c, prevT |-> table[i].ts, points |-> next]
  BY DEF RateStep
<1>3. CASE later /\ c >= acc.prev
  <2>1. x \in Point /\ x.at = i
    BY <1>1, <1>3 DEF Point
  <2>2. next = Append(acc.points, x)
    BY <1>3 DEF RateStep
  <2> HIDE DEF next, x, c
  <2> DEFINE l == Len(acc.points)
  <2>3. /\ next \in Seq(Point) /\ l \in Nat /\ Len(next) = l + 1
        /\ \A k \in 1..l : next[k] = acc.points[k]
        /\ next[l + 1] = x
    BY <1>1, <2>1, <2>2
  <2>4. ASSUME NEW n \in Nat, n < i, Chronological(acc.points),
               \A k \in 1..Len(acc.points) : acc.points[k].at <= n
        PROVE  Chronological(next) /\ \A k \in 1..Len(next) : next[k].at <= i
    <3>1. \A k \in 1..l : acc.points[k].at \in Nat /\ acc.points[k].at < i
      <4>1. \A k \in 1..l : acc.points[k] \in Point
        BY <1>1
      <4> QED
        BY <1>1, <2>4, <4>1 DEF Point
    <3>2. \A k \in 1..(l + 1) : k \in 1..l \/ k = l + 1
      BY <2>3
    <3>3. ASSUME NEW k \in 1..Len(next) PROVE next[k].at <= i
      BY <1>1, <2>1, <2>3, <3>1, <3>2
    <3>4. ASSUME NEW k \in 1..Len(next), NEW j \in 1..Len(next), k < j
          PROVE  next[k].at < next[j].at
      <4>1. k \in 1..l
        BY <2>3, <3>4
      <4>2. CASE j \in 1..l
        BY <2>3, <2>4, <3>4, <4>1, <4>2 DEF Chronological
      <4>3. CASE j = l + 1
        BY <2>1, <2>3, <3>1, <4>1, <4>3
      <4> QED
        BY <2>3, <3>2, <4>2, <4>3
    <3> QED
      BY <3>3, <3>4 DEF Chronological
  <2> QED
    BY <1>1, <1>2, <2>3, <2>4 DEF InHand
<1>4. CASE ~(later /\ c >= acc.prev)
  <2>1. next = acc.points
    BY <1>4 DEF RateStep
  <2> HIDE DEF next, c
  <2>2. ASSUME NEW n \in Nat, n < i, \A k \in 1..Len(acc.points) : acc.points[k].at <= n
        PROVE  \A k \in 1..Len(next) : next[k].at <= i
    <3>1. \A k \in 1..Len(acc.points) : acc.points[k] \in Point
      BY <1>1
    <3> QED
      BY <1>1, <2>1, <2>2, <3>1 DEF Point
  <2> QED
    BY <1>1, <1>2, <2>1, <2>2 DEF InHand
<1> QED
  BY <1>3, <1>4

\* The loop, as one equation.
LEMMA RateLoopUnfolds ==
    ASSUME NEW table \in Seq(Row), table # << >>
    PROVE  RateLoop(table) =
             [i \in 1..Len(table) |->
                 IF i = 1 THEN [prev |-> Counter[table[1].sample], prevT |-> table[1].ts, points |-> << >>]
                 ELSE RateStep(table, RateLoop(table)[i - 1], i)]
<1> DEFINE N == Len(table)
           start == [prev |-> Counter[table[1].sample], prevT |-> table[1].ts, points |-> << >>]
           Is(g, m) == \A i \in 1..m : g[i] = IF i = 1 THEN start ELSE RateStep(table, g[i - 1], i)
           Bad == {m \in 1..N : ~ \E g \in [1..m -> InHand] : Is(g, m)}
<1>1. N \in Nat /\ N >= 1
  OBVIOUS
<1>2. start \in InHand
  BY <1>1, RowFields DEF InHand
<1> HIDE DEF start
<1>3. Bad = {}
  <2>1. SUFFICES ASSUME Bad # {} PROVE FALSE
    OBVIOUS
  <2>2. PICK m \in Bad : \A k \in Bad : m <= k
    <3>1. Bad \in SUBSET Nat
      BY <1>1
    <3> HIDE DEF Bad
    <3> QED
      BY <2>1, <3>1, LeastElement
  <2>3. m \in 1..N
    OBVIOUS
  <2>4. CASE m = 1
    <3>1. [i \in 1..1 |-> start] \in [1..m -> InHand]
      BY <1>2, <2>4
    <3>2. Is([i \in 1..1 |-> start], m)
      BY <2>4
    <3> QED
      BY <3>1, <3>2
  <2>5. CASE m # 1
    <3>1. m - 1 \in 1..N /\ ~(m <= m - 1)
      BY <1>1, <2>3, <2>5
    <3>2. PICK g \in [1..(m - 1) -> InHand] : Is(g, m - 1)
      <4> HIDE DEF Is
      <4> QED
        BY <2>2, <3>1
    <3> DEFINE h == [i \in 1..m |-> IF i = m THEN RateStep(table, g[m - 1], m) ELSE g[i]]
    <3>3. \A i \in 1..m : i # m => i \in 1..(m - 1)
      BY <2>3
    <3>4. g[m - 1] \in InHand
      BY <2>3, <2>5, <3>2
    <3>5. RateStep(table, g[m - 1], m) \in InHand
      BY <2>3, <3>4, RateStepType
    <3>6. h \in [1..m -> InHand]
      BY <3>2, <3>3, <3>5
    <3>7. Is(h, m)
      <4>1. \A i \in 1..m : i # 1 => i - 1 \in 1..m /\ i - 1 # m /\ h[i - 1] = g[i - 1]
        BY <2>3
      <4> QED
        BY <2>5, <3>2, <3>3, <4>1
    <3> QED
      BY <3>6, <3>7
  <2> QED
    BY <2>4, <2>5
<1>4. PICK g \in [1..N -> InHand] : Is(g, N)
  BY <1>1, <1>3
<1>5. g = [i \in 1..N |-> IF i = 1 THEN start ELSE RateStep(table, g[i - 1], i)]
  BY <1>4
<1> QED
  BY <1>5 DEF RateLoop, start

\* The points of a counter come in the order of the rows.
LEMMA SeriesIsChronological ==
    ASSUME NEW table \in Seq(Row)
    PROVE  RateSeries(table) \in Seq(Point) /\ Chronological(RateSeries(table))
<1>1. CASE table = << >>
  BY <1>1 DEF RateSeries, Chronological
<1>2. CASE table # << >>
  <2> DEFINE N == Len(table)
             f == RateLoop(table)
             Good(m) == /\ f[m] \in InHand /\ Chronological(f[m].points)
                        /\ \A k \in 1..Len(f[m].points) : f[m].points[k].at <= m
             Bad == {m \in 1..N : ~Good(m)}
  <2>1. N \in Nat /\ N >= 1
    BY <1>2
  <2>2. f = [i \in 1..N |->
                 IF i = 1 THEN [prev |-> Counter[table[1].sample], prevT |-> table[1].ts, points |-> << >>]
                 ELSE RateStep(table, f[i - 1], i)]
    BY <1>2, RateLoopUnfolds
  <2> HIDE DEF f
  <2>3. Good(1)
    <3>1. f[1] = [prev |-> Counter[table[1].sample], prevT |-> table[1].ts, points |-> << >>]
      BY <2>1, <2>2
    <3>2. Counter[table[1].sample] \in Nat /\ table[1].ts \in Nat
      BY <2>1, RowFields
    <3> QED
      BY <3>1, <3>2 DEF InHand, Chronological
  <2>4. ASSUME NEW m \in 1..N, m # 1, Good(m - 1) PROVE Good(m)
    <3>1. f[m] = RateStep(table, f[m - 1], m)
      BY <2>2, <2>4
    <3>2. m - 1 \in Nat /\ m - 1 < m
      BY <2>4
    <3> QED
      BY <2>4, <3>1, <3>2, RateStepType
  <2> HIDE DEF Good
  <2>5. Bad = {}
    <3>1. SUFFICES ASSUME Bad # {} PROVE FALSE
      OBVIOUS
    <3>2. PICK m \in Bad : \A k \in Bad : m <= k
      <4>1. Bad \in SUBSET Nat
        BY <2>1
      <4> HIDE DEF Bad
      <4> QED
        BY <3>1, <4>1, LeastElement
    <3>3. m \in 1..N /\ m # 1
      BY <2>3
    <3>4. m - 1 \in 1..N /\ ~(m <= m - 1)
      BY <2>1, <3>3
    <3> QED
      BY <2>4, <3>2, <3>3, <3>4
  <2>6. Good(N)
    BY <2>1, <2>5
  <2> QED
    BY <1>2, <2>6 DEF Good, f, RateSeries, InHand
<1> QED
  BY <1>1, <1>2

\* Division rounds down, so that a dividend that grows by the divisor has a quotient
\* that grows.
LEMMA QuotientIs ==
    ASSUME NEW d \in Nat, d > 0, NEW q \in Nat, NEW r \in Nat, r < d
    PROVE  (d * q + r) \div d = q
  OBVIOUS

LEMMA QuotientGrows ==
    ASSUME NEW d \in Nat, d > 0, NEW a \in Nat, NEW b \in Nat, a + d <= b
    PROVE  a \div d \in Nat /\ b \div d \in Nat /\ a \div d < b \div d
  OBVIOUS

LEMMA ProductGrows ==
    ASSUME NEW i \in Nat, NEW j \in Nat, NEW n \in Nat, i < j
    PROVE  i * n \in Nat /\ j * n \in Nat /\ i * n + n <= j * n
  OBVIOUS

\* decimate's stride starts at the first point, ends at the last, and never takes a
\* point twice nor turns back, for every length and every limit.
LEMMA StrideIndexGrows ==
    ASSUME NEW n \in Nat, NEW max \in Nat, max >= 2, n > max
    PROVE  /\ StrideIndex(n, max, 0) = 0 /\ StrideIndex(n, max, max - 1) = n - 1
           /\ \A i \in 0..(max - 1) : StrideIndex(n, max, i) \in 0..(n - 1)
           /\ \A i, j \in 0..(max - 1) : i < j => StrideIndex(n, max, i) < StrideIndex(n, max, j)
<1> DEFINE m == max - 1
           d == 2 * m
           R(i) == (2 * i * (n - 1) + m) \div d
<1>1. m \in Nat /\ m >= 1 /\ d \in Nat /\ d > 0 /\ m < d /\ n - 1 \in Nat /\ n - 1 > m
  OBVIOUS
<1>2. R(0) = 0
  <2>1. 2 * 0 * (n - 1) + m = d * 0 + m
    BY <1>1
  <2> QED
    BY <1>1, <2>1, QuotientIs
<1>3. R(m) = n - 1
  <2>1. 2 * m * (n - 1) + m = d * (n - 1) + m
    BY <1>1
  <2> QED
    BY <1>1, <2>1, QuotientIs
<1>4. ASSUME NEW i \in 0..m, NEW j \in 0..m, i < j PROVE R(i) \in Nat /\ R(j) \in Nat /\ R(i) < R(j)
  <2> DEFINE a == i * (n - 1)
             b == j * (n - 1)
  <2>1. a \in Nat /\ b \in Nat /\ a + (n - 1) <= b
    BY <1>1, <1>4, ProductGrows
  <2>2. 2 * i * (n - 1) = 2 * a /\ 2 * j * (n - 1) = 2 * b
    BY <1>1
  <2> HIDE DEF a, b
  <2>3. 2 * a + m \in Nat /\ 2 * b + m \in Nat /\ (2 * a + m) + d <= 2 * b + m
    BY <1>1, <2>1
  <2> HIDE DEF d, m
  <2> QED
    BY <1>1, <2>2, <2>3, QuotientGrows
<1>5. \A i \in 0..m : R(i) \in Nat /\ R(i) <= n - 1
  <2> SUFFICES ASSUME NEW i \in 0..m PROVE R(i) \in Nat /\ R(i) <= n - 1
    OBVIOUS
  <2>1. m \in 0..m
    BY <1>1
  <2> HIDE DEF R, m
  <2>2. CASE i = m
    BY <1>1, <1>3, <2>2
  <2>3. CASE i # m
    <3>1. i < m
      BY <1>1, <2>3
    <3> QED
      BY <1>1, <1>3, <1>4, <2>1, <3>1
  <2> QED
    BY <2>2, <2>3
<1>6. \A i \in 0..m : StrideIndex(n, max, i) = IF R(i) >= n THEN n - 1 ELSE R(i)
  BY DEF StrideIndex
<1> HIDE DEF R
<1>7. \A i \in 0..m : StrideIndex(n, max, i) = R(i)
  BY <1>1, <1>5, <1>6
<1> QED
  BY <1>1, <1>2, <1>3, <1>4, <1>5, <1>7

\* What decimate makes of any series that is in order.
LEMMA DecimateKeepsEnds ==
    ASSUME NEW points \in Seq(Point), Chronological(points), NEW max \in Nat, max >= 2
    PROVE  LET chart == Decimate(points, max)
           IN  /\ chart \in Seq(Point) /\ Chronological(chart)
               /\ Len(chart) = IF Len(points) <= max THEN Len(points) ELSE max
               /\ points # << >> => chart[1] = points[1] /\ chart[Len(chart)] = points[Len(points)]
               /\ \A i \in 1..Len(chart) : \E j \in 1..Len(points) : chart[i] = points[j]
<1> DEFINE n == Len(points)
           chart == Decimate(points, max)
           ix(k) == 1 + StrideIndex(n, max, k - 1)
<1>1. n \in Nat
  OBVIOUS
<1>2. CASE n <= max
  BY <1>2 DEF Decimate
<1>3. CASE ~(n <= max)
  <2>1. n > max
    BY <1>1, <1>3
  <2>2. \A k \in 1..max : k - 1 \in 0..(max - 1)
    OBVIOUS
  <2>3. /\ ix(1) = 1 /\ ix(max) = n
        /\ \A k \in 1..max : ix(k) \in 1..n
    BY <1>1, <2>1, <2>2, StrideIndexGrows
  <2>4. ASSUME NEW i \in 1..max, NEW j \in 1..max, i < j PROVE ix(i) < ix(j)
    <3>1. i - 1 < j - 1
      BY <2>4
    <3>2. StrideIndex(n, max, i - 1) < StrideIndex(n, max, j - 1)
      BY <1>1, <2>1, <2>2, <3>1, StrideIndexGrows
    <3>3. StrideIndex(n, max, i - 1) \in Int /\ StrideIndex(n, max, j - 1) \in Int
      BY <1>1, <2>1, <2>2, StrideIndexGrows
    <3> QED
      BY <3>2, <3>3
  <2>5. chart = [k \in 1..max |-> points[ix(k)]]
    BY <1>3 DEF Decimate
  <2> HIDE DEF ix, chart
  <2>6. chart \in [1..max -> Point] /\ \A k \in 1..max : chart[k] = points[ix(k)]
    BY <2>3, <2>5
  <2>7. chart \in Seq(Point) /\ Len(chart) = max
    BY <2>6
  <2>8. Chronological(chart)
    BY <2>3, <2>4, <2>6, <2>7 DEF Chronological
  <2> QED
    BY <1>3, <2>3, <2>6, <2>7, <2>8 DEF chart
<1> QED
  BY <1>2, <1>3

\* The smaller of two numbers, as Min finds it.
LEMMA MinOfTwo ==
    ASSUME NEW a \in Nat, NEW b \in Nat
    PROVE  Min({a, b}) = IF a <= b THEN a ELSE b
  BY DEF Min

-----------------------------------------------------------------------------
(* The traffic. *)

\* Induction up to a bound: a set that holds zero, and with a number the next, holds
\* all of them.
LEMMA UpTo ==
    ASSUME NEW n \in Nat, NEW T, 0 \in T, \A k \in 0..n : k < n /\ k \in T => k + 1 \in T
    PROVE  \A k \in 0..n : k \in T
<1> DEFINE Bad == {k \in 0..n : k \notin T}
<1>1. SUFFICES ASSUME Bad # {} PROVE FALSE
  OBVIOUS
<1>2. PICK m \in Bad : \A k \in Bad : m <= k
  <2>1. Bad \in SUBSET Nat
    OBVIOUS
  <2> HIDE DEF Bad
  <2> QED
    BY <1>1, <2>1, LeastElement
<1>3. m \in 0..n /\ m # 0 /\ m \notin T
  OBVIOUS
<1>4. m - 1 \in 0..n /\ m - 1 < n /\ ~(m <= m - 1) /\ (m - 1) + 1 = m
  BY <1>3
<1>5. m - 1 \in T
  BY <1>2, <1>4
<1> QED
  BY <1>3, <1>4, <1>5

\* The sums of the beginnings of f.
Sums(f, n) == CHOOSE sum : sum = [k \in 0..n |-> IF k = 0 THEN 0 ELSE sum[k - 1] + f[k]]

LEMMA SumsUnfold ==
    ASSUME NEW n \in Nat, NEW f \in [1..n -> Nat]
    PROVE  /\ Sums(f, n) = [k \in 0..n |-> IF k = 0 THEN 0 ELSE Sums(f, n)[k - 1] + f[k]]
           /\ SumTo(f, n) = Sums(f, n)[n]
<1> DEFINE Is(g, m) == \A k \in 0..m : g[k] = IF k = 0 THEN 0 ELSE g[k - 1] + f[k]
           T == {m \in 0..n : \E g \in [0..m -> Nat] : Is(g, m)}
<1>1. 0 \in T
  <2>1. [k \in 0..0 |-> 0] \in [0..0 -> Nat] /\ Is([k \in 0..0 |-> 0], 0)
    OBVIOUS
  <2>2. 0 \in 0..n
    OBVIOUS
  <2> HIDE DEF Is
  <2> QED
    BY <2>1, <2>2
<1>2. ASSUME NEW m \in 0..n, m < n, m \in T PROVE m + 1 \in T
  <2>1. PICK g \in [0..m -> Nat] : Is(g, m)
    BY <1>2
  <2> DEFINE h == [k \in 0..(m + 1) |-> IF k = m + 1 THEN g[m] + f[m + 1] ELSE g[k]]
  <2>2. m + 1 \in 1..n /\ m \in 0..m /\ f[m + 1] \in Nat
    BY <1>2
  <2>3. \A k \in 0..(m + 1) : k # m + 1 => k \in 0..m
    BY <1>2
  <2>4. h \in [0..(m + 1) -> Nat]
    BY <2>1, <2>2, <2>3
  <2>5. ASSUME NEW k \in 0..(m + 1)
        PROVE  h[k] = IF k = 0 THEN 0 ELSE h[k - 1] + f[k]
    <3>1. k # 0 => k - 1 \in 0..(m + 1) /\ k - 1 # m + 1
      BY <1>2
    <3>2. CASE k = m + 1
      BY <2>2, <3>1, <3>2
    <3>3. CASE k # m + 1
      BY <2>1, <2>3, <3>1, <3>3
    <3> QED
      BY <3>2, <3>3
  <2> HIDE DEF h
  <2>6. Is(h, m + 1) /\ m + 1 \in 0..n
    BY <1>2, <2>5
  <2> HIDE DEF Is
  <2> QED
    BY <2>4, <2>6
<1>3. n \in T
  <2>1. n \in 0..n
    OBVIOUS
  <2> HIDE DEF T
  <2>2. \A k \in 0..n : k < n /\ k \in T => k + 1 \in T
    BY <1>2
  <2> QED
    BY <1>1, <2>1, <2>2, UpTo
<1>4. PICK g \in [0..n -> Nat] : Is(g, n)
  BY <1>3
<1>5. g = [k \in 0..n |-> IF k = 0 THEN 0 ELSE g[k - 1] + f[k]]
  BY <1>4
<1> QED
  BY <1>5 DEF Sums, SumTo

LEMMA SumsStep ==
    ASSUME NEW n \in Nat, NEW f \in [1..n -> Nat]
    PROVE  /\ Sums(f, n)[0] = 0
           /\ \A k \in 0..n : k < n => Sums(f, n)[k + 1] = Sums(f, n)[k] + f[k + 1]
           /\ \A k \in 0..n : Sums(f, n)[k] \in Nat
           /\ SumTo(f, n) = Sums(f, n)[n]
<1> DEFINE S == Sums(f, n)
           T == {k \in 0..n : S[k] \in Nat}
<1>1. /\ S = [k \in 0..n |-> IF k = 0 THEN 0 ELSE S[k - 1] + f[k]]
      /\ SumTo(f, n) = S[n]
  BY SumsUnfold
<1> HIDE DEF S
<1>2. S[0] = 0
  BY <1>1
<1>3. ASSUME NEW k \in 0..n, k < n PROVE S[k + 1] = S[k] + f[k + 1] /\ f[k + 1] \in Nat
  BY <1>1, <1>3
<1>4. \A k \in 0..n : k \in T
  <2>1. 0 \in T
    BY <1>2
  <2>2. \A k \in 0..n : k < n /\ k \in T => k + 1 \in T
    BY <1>3
  <2> HIDE DEF T
  <2> QED
    BY <2>1, <2>2, UpTo
<1> QED
  BY <1>1, <1>2, <1>3, <1>4 DEF S

\* Two functions that differ in one place have sums that differ by as much.
LEMMA SumsDiffer ==
    ASSUME NEW n \in Nat, NEW f \in [1..n -> Nat], NEW g \in [1..n -> Nat],
           NEW s \in 1..n, NEW d \in Nat, g[s] = f[s] + d,
           \A k \in 1..n : k # s => g[k] = f[k]
    PROVE  SumTo(g, n) = SumTo(f, n) + d
<1> DEFINE F == Sums(f, n)
           G == Sums(g, n)
           T == {k \in 0..n : G[k] = F[k] + (IF k < s THEN 0 ELSE d)}
<1>1. /\ F[0] = 0 /\ \A k \in 0..n : k < n => F[k + 1] = F[k] + f[k + 1]
      /\ \A k \in 0..n : F[k] \in Nat
      /\ SumTo(f, n) = F[n]
  BY SumsStep
<1>2. /\ G[0] = 0 /\ \A k \in 0..n : k < n => G[k + 1] = G[k] + g[k + 1]
      /\ \A k \in 0..n : G[k] \in Nat
      /\ SumTo(g, n) = G[n]
  BY SumsStep
<1> HIDE DEF F, G
<1>3. 0 \in T
  BY <1>1, <1>2
<1>4. ASSUME NEW k \in 0..n, k < n, k \in T PROVE k + 1 \in T
  <2>1. k + 1 \in 1..n /\ f[k + 1] \in Nat /\ F[k] \in Nat
    BY <1>1, <1>4
  <2>2. G[k + 1] = G[k] + g[k + 1] /\ F[k + 1] = F[k] + f[k + 1] /\ G[k] \in Nat
    BY <1>1, <1>2, <1>4
  <2>3. CASE k + 1 = s
    <3>1. k < s /\ ~(k + 1 < s) /\ g[k + 1] = f[k + 1] + d
      BY <2>3
    <3>2. G[k] = F[k]
      BY <1>4, <2>1, <3>1
    <3> QED
      BY <1>4, <2>1, <2>2, <3>1, <3>2
  <2>4. CASE k + 1 # s
    BY <1>4, <2>1, <2>2, <2>4
  <2> QED
    BY <2>3, <2>4
<1>5. n \in T
  <2>1. n \in 0..n
    OBVIOUS
  <2> HIDE DEF T
  <2>2. \A k \in 0..n : k < n /\ k \in T => k + 1 \in T
    BY <1>4
  <2> QED
    BY <1>3, <2>1, <2>2, UpTo
<1> QED
  BY <1>1, <1>2, <1>5

\* A sum over a beginning does not see what follows.
LEMMA SumOfOneMore ==
    ASSUME NEW n \in Nat, NEW f \in [1..n -> Nat], NEW g \in [1..(n + 1) -> Nat],
           \A k \in 1..n : g[k] = f[k]
    PROVE  SumTo(g, n + 1) = SumTo(f, n) + g[n + 1]
<1> DEFINE F == Sums(f, n)
           G == Sums(g, n + 1)
           T == {k \in 0..n : G[k] = F[k]}
<1>1. /\ F[0] = 0 /\ \A k \in 0..n : k < n => F[k + 1] = F[k] + f[k + 1]
      /\ SumTo(f, n) = F[n]
  BY SumsStep
<1>2. /\ G[0] = 0 /\ \A k \in 0..(n + 1) : k < n + 1 => G[k + 1] = G[k] + g[k + 1]
      /\ SumTo(g, n + 1) = G[n + 1]
  <2>1. n + 1 \in Nat
    OBVIOUS
  <2> QED
    BY <2>1, SumsStep
<1> HIDE DEF F, G
<1>3. 0 \in T
  BY <1>1, <1>2
<1>4. ASSUME NEW k \in 0..n, k < n, k \in T PROVE k + 1 \in T
  BY <1>1, <1>2, <1>4
<1>5. n \in T
  <2>1. n \in 0..n
    OBVIOUS
  <2> HIDE DEF T
  <2>2. \A k \in 0..n : k < n /\ k \in T => k + 1 \in T
    BY <1>4
  <2> QED
    BY <1>3, <2>1, <2>2, UpTo
<1> QED
  BY <1>1, <1>2, <1>5

LEMMA SumOfZeros ==
    ASSUME NEW n \in Nat, NEW f \in [1..n -> Nat], \A k \in 1..n : f[k] = 0
    PROVE  SumTo(f, n) = 0
<1> DEFINE F == Sums(f, n)
           T == {k \in 0..n : F[k] = 0}
<1>1. /\ F[0] = 0 /\ \A k \in 0..n : k < n => F[k + 1] = F[k] + f[k + 1]
      /\ SumTo(f, n) = F[n]
  BY SumsStep
<1> HIDE DEF F
<1>2. 0 \in T /\ n \in 0..n
  BY <1>1
<1>3. \A k \in 0..n : k < n /\ k \in T => k + 1 \in T
  BY <1>1
<1>4. n \in T
  <2> HIDE DEF T
  <2> QED
    BY <1>2, <1>3, UpTo
<1> QED
  BY <1>1, <1>4

\* The traffic that a series shows.
RiseOf(points) == [k \in 1..Len(points) |-> points[k].rise]
Shown(points) == SumTo(RiseOf(points), Len(points))

LEMMA ShownType ==
    ASSUME NEW points \in Seq(Point)
    PROVE  /\ Len(points) \in Nat /\ RiseOf(points) \in [1..Len(points) -> Nat]
           /\ Shown(points) \in Nat
<1>1. Len(points) \in Nat /\ \A k \in 1..Len(points) : points[k] \in Point
  OBVIOUS
<1>2. RiseOf(points) \in [1..Len(points) -> Nat]
  BY <1>1 DEF RiseOf, Point
<1>3. Len(points) \in 0..Len(points)
  BY <1>1
<1> QED
  BY <1>1, <1>2, <1>3, SumsStep DEF Shown

\* What a row adds to it.
LEMMA ShownGrows ==
    ASSUME NEW table \in Seq(Row), NEW i \in 1..Len(table), NEW acc \in InHand
    PROVE  LET c == Counter[table[i].sample]
           IN  /\ RateStep(table, acc, i).prev = c
               /\ RateStep(table, acc, i).prevT = table[i].ts
               /\ Shown(RateStep(table, acc, i).points)
                    = Shown(acc.points) + (IF table[i].ts > acc.prevT /\ c >= acc.prev
                                           THEN c - acc.prev ELSE 0)
<1> DEFINE c == Counter[table[i].sample]
           x == [at |-> i, rise |-> c - acc.prev]
           later == table[i].ts > acc.prevT
           next == RateStep(table, acc, i).points
           l == Len(acc.points)
<1>1. c \in Nat /\ acc.prev \in Nat /\ acc.points \in Seq(Point) /\ i \in Nat
  BY RowFields DEF InHand
<1>2. RateStep(table, acc, i).prev = c /\ RateStep(table, acc, i).prevT = table[i].ts
  BY DEF RateStep
<1>3. Shown(acc.points) \in Nat /\ l \in Nat /\ RiseOf(acc.points) \in [1..l -> Nat]
  BY <1>1, ShownType
<1>4. CASE later /\ c >= acc.prev
  <2>1. x \in Point /\ x.rise = c - acc.prev
    BY <1>1, <1>4 DEF Point
  <2>2. next = Append(acc.points, x)
    BY <1>4 DEF RateStep
  <2> HIDE DEF next, x, c
  <2>3. /\ next \in Seq(Point) /\ Len(next) = l + 1
        /\ \A k \in 1..l : next[k] = acc.points[k]
        /\ next[l + 1] = x
    BY <1>1, <1>3, <2>1, <2>2
  <2>4. RiseOf(next) \in [1..(l + 1) -> Nat]
    BY <2>3, ShownType
  <2>5. /\ \A k \in 1..l : RiseOf(next)[k] = RiseOf(acc.points)[k]
        /\ RiseOf(next)[l + 1] = c - acc.prev
    BY <1>3, <2>1, <2>3 DEF RiseOf
  <2>6. SumTo(RiseOf(next), l + 1) = SumTo(RiseOf(acc.points), l) + RiseOf(next)[l + 1]
    BY <1>3, <2>4, <2>5, SumOfOneMore
  <2>7. Shown(next) = Shown(acc.points) + (c - acc.prev)
    BY <2>3, <2>5, <2>6 DEF Shown
  <2> QED
    BY <1>2, <1>4, <2>7 DEF next, c
<1>5. CASE ~(later /\ c >= acc.prev)
  <2>1. next = acc.points
    BY <1>5 DEF RateStep
  <2> QED
    BY <1>2, <1>3, <1>5, <2>1
<1> QED
  BY <1>4, <1>5

\* The traffic shown after each of the rows.
ShownAfter(table, m) == Shown(RateLoop(table)[m].points)

LEMMA ShownAfterRows ==
    ASSUME NEW table \in Seq(Row), table # << >>
    PROVE  /\ ShownAfter(table, 1) = 0
           /\ \A m \in 1..Len(table) : ShownAfter(table, m) \in Nat
           /\ \A m \in 1..Len(table) : m < Len(table) =>
                ShownAfter(table, m + 1) = ShownAfter(table, m)
                    + (IF /\ table[m + 1].ts > table[m].ts
                          /\ Counter[table[m + 1].sample] >= Counter[table[m].sample]
                       THEN Counter[table[m + 1].sample] - Counter[table[m].sample] ELSE 0)
<1> DEFINE N == Len(table)
           f == RateLoop(table)
           Good(m) == /\ f[m] \in InHand /\ f[m].prev = Counter[table[m].sample]
                      /\ f[m].prevT = table[m].ts
           T == {k \in 0..(N - 1) : Good(k + 1)}
<1>1. N \in Nat /\ N >= 1 /\ N - 1 \in Nat
  OBVIOUS
<1>2. f = [i \in 1..N |->
               IF i = 1 THEN [prev |-> Counter[table[1].sample], prevT |-> table[1].ts, points |-> << >>]
               ELSE RateStep(table, f[i - 1], i)]
  BY RateLoopUnfolds
<1> HIDE DEF f
<1>3. f[1] = [prev |-> Counter[table[1].sample], prevT |-> table[1].ts, points |-> << >>]
  BY <1>1, <1>2
<1>4. ASSUME NEW m \in 1..N, m < N
      PROVE  m + 1 \in 1..N /\ f[m + 1] = RateStep(table, f[m], m + 1)
  <2>1. m + 1 \in 1..N /\ m + 1 # 1 /\ (m + 1) - 1 = m
    BY <1>1, <1>4
  <2> QED
    BY <1>2, <2>1
<1>5. Good(1)
  <2>1. Counter[table[1].sample] \in Nat /\ table[1].ts \in Nat
    BY <1>1, RowFields
  <2> QED
    BY <1>3, <2>1 DEF InHand
<1>6. ASSUME NEW m \in 1..N, m < N, Good(m) PROVE Good(m + 1)
  BY <1>4, <1>6, RateStepType, ShownGrows
<1> HIDE DEF Good
<1>7. \A k \in 0..(N - 1) : k \in T
  <2>1. 0 \in T
    BY <1>1, <1>5
  <2>2. ASSUME NEW k \in 0..(N - 1), k < N - 1, k \in T PROVE k + 1 \in T
    <3>1. k + 1 \in 1..N /\ k + 1 < N /\ Good(k + 1) /\ k + 1 \in 0..(N - 1)
      BY <1>1, <2>2
    <3> QED
      BY <1>6, <3>1
  <2>3. \A k \in 0..(N - 1) : k < N - 1 /\ k \in T => k + 1 \in T
    BY <2>2
  <2> HIDE DEF T
  <2> QED
    BY <1>1, <2>1, <2>3, UpTo
<1>8. ASSUME NEW m \in 1..N PROVE Good(m)
  <2>1. m - 1 \in 0..(N - 1) /\ (m - 1) + 1 = m
    BY <1>1
  <2> QED
    BY <1>7, <2>1
<1>9. \A m \in 1..N : ShownAfter(table, m) \in Nat
  BY <1>8, ShownType DEF Good, InHand, ShownAfter, f
<1>10. ShownAfter(table, 1) = 0
  <2>1. f[1].points = << >>
    BY <1>3
  <2>2. RiseOf(<< >>) \in [1..0 -> Nat] /\ Len(<< >>) = 0
    BY DEF RiseOf
  <2>3. \A k \in 1..0 : RiseOf(<< >>)[k] = 0
    OBVIOUS
  <2>4. SumTo(RiseOf(<< >>), 0) = 0
    BY <2>2, <2>3, SumOfZeros
  <2> QED
    BY <2>1, <2>2, <2>4 DEF ShownAfter, Shown, f
<1>11. ASSUME NEW m \in 1..N, m < N
       PROVE  ShownAfter(table, m + 1) = ShownAfter(table, m)
                    + (IF /\ table[m + 1].ts > table[m].ts
                          /\ Counter[table[m + 1].sample] >= Counter[table[m].sample]
                       THEN Counter[table[m + 1].sample] - Counter[table[m].sample] ELSE 0)
  <2>1. /\ f[m] \in InHand /\ f[m].prev = Counter[table[m].sample]
        /\ f[m].prevT = table[m].ts
    BY <1>8 DEF Good
  <2> QED
    BY <1>4, <1>11, <2>1, ShownGrows DEF ShownAfter, f
<1> QED
  BY <1>9, <1>10, <1>11

LEMMA MaxIs ==
    ASSUME NEW S \in SUBSET Nat, NEW m \in S, \A y \in S : y <= m
    PROVE  Max(S) = m
<1>1. \A x \in S : (\A y \in S : x >= y) => x = m
  OBVIOUS
<1>2. \A y \in S : m >= y
  OBVIOUS
<1> QED
  BY <1>1, <1>2 DEF Max

LEMMA GreatestElement ==
    ASSUME NEW n \in Nat, NEW S \in SUBSET (1..n), S # {}
    PROVE  \E m \in S : \A y \in S : y <= m
<1> DEFINE U == {b \in Nat : \A y \in S : y <= b}
<1>1. n \in U
  OBVIOUS
<1>2. PICK m \in U : \A b \in U : m <= b
  <2>1. U \in SUBSET Nat /\ U # {}
    BY <1>1
  <2> HIDE DEF U
  <2> QED
    BY <2>1, LeastElement
<1>3. m \in S
  <2>1. SUFFICES ASSUME m \notin S PROVE FALSE
    OBVIOUS
  <2>2. \A y \in S : y < m
    BY <2>1
  <2>3. m - 1 \in U
    <3>1. PICK x \in S : TRUE
      OBVIOUS
    <3>2. m \in Nat /\ x \in Nat /\ x < m
      BY <2>2, <3>1
    <3>3. m - 1 \in Nat
      BY <3>2
    <3>4. \A y \in S : y \in Nat /\ y <= m - 1
      BY <2>2, <3>2
    <3> QED
      BY <3>3, <3>4
  <2> QED
    BY <1>2, <2>3
<1> QED
  BY <1>3

LEMMA RiseType ==
    ASSUME NEW S \in SUBSET Taken
    PROVE  /\ Rise(S) \in [1..Len(Counter) -> Nat] /\ Len(Counter) \in Nat
           /\ \A s \in Taken : s \notin S => Rise(S)[s] = 0
<1>1. Len(Counter) \in Nat /\ Taken = 1..Len(Counter)
  BY HistoryAssumption DEF Taken
<1>2. ASSUME NEW s \in Taken PROVE Rise(S)[s] \in Nat
  <2> DEFINE before == {r \in S : r < s}
  <2>1. CASE s \in S /\ before # {} /\ Counter[s] >= Counter[Max(before)]
    <3>1. before \in SUBSET (1..Len(Counter)) /\ before \in SUBSET Nat
      <4>1. \A r \in before : r \in 1..Len(Counter) /\ r \in Nat
        BY <1>1
      <4> HIDE DEF before
      <4> QED
        BY <4>1
    <3>2. PICK m \in before : \A y \in before : y <= m
      <4> HIDE DEF before
      <4> QED
        BY <1>1, <2>1, <3>1, GreatestElement
    <3>3. Max(before) = m
      <4> HIDE DEF before
      <4> QED
        BY <3>1, <3>2, MaxIs
    <3>4. Counter[s] \in Nat /\ Counter[m] \in Nat
      BY CountersAreNat
    <3>5. Rise(S)[s] = Counter[s] - Counter[Max(before)]
      BY <2>1 DEF Rise
    <3> QED
      BY <2>1, <3>3, <3>4, <3>5
  <2>2. CASE ~(s \in S /\ before # {} /\ Counter[s] >= Counter[Max(before)])
    BY <2>2 DEF Rise
  <2> QED
    BY <2>1, <2>2
<1> QED
  BY <1>1, <1>2 DEF Rise

\* A sample that is newer than all of a set adds what the counter rose by since the
\* newest of them.
LEMMA TrafficOfOneMore ==
    ASSUME NEW S \in SUBSET Taken, NEW m \in S, \A y \in S : y <= m,
           NEW s \in Taken, m < s
    PROVE  Traffic(S \cup {s}) =
             Traffic(S) + (IF Counter[s] >= Counter[m] THEN Counter[s] - Counter[m] ELSE 0)
<1> DEFINE R == S \cup {s}
           d == IF Counter[s] >= Counter[m] THEN Counter[s] - Counter[m] ELSE 0
           f == Rise(S)
           g == Rise(R)
           before(S0, k) == {r \in S0 : r < k}
<1>1. Taken = 1..Len(Counter) /\ Taken \subseteq Nat
  BY HistoryAssumption DEF Taken
<1>2. R \in SUBSET Taken /\ s \notin S
  BY <1>1
<1>3. /\ f \in [1..Len(Counter) -> Nat] /\ g \in [1..Len(Counter) -> Nat] /\ Len(Counter) \in Nat
      /\ \A k \in Taken : (k \notin S => f[k] = 0) /\ (k \notin R => g[k] = 0)
  BY <1>2, RiseType, Zenon
<1>4. Counter[s] \in Nat /\ Counter[m] \in Nat
  BY CountersAreNat
<1>5. g[s] = d
  <2>1. before(R, s) = S
    <3>1. \A y \in S : y \in Nat /\ y < s
      BY <1>1
    <3>2. ~(s < s)
      BY <1>1
    <3> QED
      BY <3>1, <3>2
  <2>2. Max(S) = m
    BY <1>1, MaxIs
  <2> QED
    BY <2>1, <2>2 DEF Rise
<1>6. ASSUME NEW k \in Taken, k # s PROVE g[k] = f[k]
  <2>1. CASE k < s
    <3>1. before(R, k) = before(S, k) /\ (k \in R <=> k \in S)
      BY <1>1, <1>6, <2>1
    <3> QED
      BY <3>1 DEF Rise
  <2>2. CASE ~(k < s)
    <3>1. k \notin R
      BY <1>1, <1>6, <2>2
    <3> QED
      BY <1>3, <3>1
  <2> QED
    BY <2>1, <2>2
<1>7. d \in Nat /\ f[s] = 0
  BY <1>2, <1>3, <1>4
<1> HIDE DEF d, f, g, R
<1>8. g[s] = f[s] + d
  BY <1>5, <1>7
<1>9. SumTo(g, Len(Counter)) = SumTo(f, Len(Counter)) + d
  BY <1>1, <1>3, <1>6, <1>7, <1>8, SumsDiffer
<1> QED
  BY <1>9 DEF Traffic, d, f, g, R

LEMMA TrafficType ==
    ASSUME NEW S \in SUBSET Taken
    PROVE  Traffic(S) \in Nat
<1>1. Rise(S) \in [1..Len(Counter) -> Nat] /\ Len(Counter) \in Nat
  BY RiseType
<1>2. Len(Counter) \in 0..Len(Counter)
  BY <1>1
<1> QED
  BY <1>1, <1>2, SumsStep DEF Traffic

\* Rows in the order the samples were taken in show no more than the traffic of those
\* samples, a sample that comes twice in a row once; all of it, where times rise.
LEMMA ShownIsTraffic ==
    ASSUME NEW table \in Seq(Row), table # << >>,
           \A i, j \in 1..Len(table) : i < j => table[i].sample <= table[j].sample
    PROVE  LET shown == ShownAfter(table, Len(table))
               traffic == Traffic({table[i].sample : i \in 1..Len(table)})
           IN  /\ shown <= traffic
               /\ (\A i, j \in 1..Len(table) : i < j => table[i].ts < table[j].ts)
                    => shown = traffic
<1> DEFINE N == Len(table)
           Rising == \A i, j \in 1..N : i < j => table[i].ts < table[j].ts
           A(m) == ShownAfter(table, m)
           S(m) == {table[i].sample : i \in 1..m}
           Good(m) == A(m) <= Traffic(S(m)) /\ (Rising => A(m) = Traffic(S(m)))
           T == {k \in 0..(N - 1) : Good(k + 1)}
<1>1. N \in Nat /\ N >= 1 /\ N - 1 \in Nat /\ 0 \in 0..(N - 1) /\ 1 \in 1..N
  OBVIOUS
<1>2. \A m \in 1..N : /\ table[m].sample \in Taken /\ Counter[table[m].sample] \in Nat
                      /\ table[m].ts \in Nat
  BY RowFields
<1>3. Taken = 1..Len(Counter) /\ Taken \subseteq Nat /\ Len(Counter) \in Nat
  BY HistoryAssumption DEF Taken
<1>4. /\ A(1) = 0 /\ \A m \in 1..N : A(m) \in Nat
      /\ \A m \in 1..N : m < N =>
           A(m + 1) = A(m) + (IF /\ table[m + 1].ts > table[m].ts
                                 /\ Counter[table[m + 1].sample] >= Counter[table[m].sample]
                              THEN Counter[table[m + 1].sample] - Counter[table[m].sample] ELSE 0)
  BY ShownAfterRows
<1>5. \A m \in 1..N : S(m) \in SUBSET Taken
  <2>1. \A m \in 1..N : \A i \in 1..m : i \in 1..N
    BY <1>1
  <2> QED
    BY <1>2, <2>1
<1>6. \A m \in 1..N : Traffic(S(m)) \in Nat
  <2> HIDE DEF S
  <2> QED
    BY <1>5, TrafficType
<1> HIDE DEF A
<1>7. Good(1)
  <2>1. S(1) = {table[1].sample} /\ S(1) \in SUBSET Taken
    BY <1>1, <1>2
  <2>2. ASSUME NEW k \in Taken PROVE Rise(S(1))[k] = 0
    <3>1. k \in S(1) => {r \in S(1) : r < k} = {}
      BY <1>3, <2>1
    <3> HIDE DEF S
    <3> QED
      BY <3>1 DEF Rise
  <2>3. Traffic(S(1)) = 0
    <3> HIDE DEF S
    <3>1. Rise(S(1)) \in [1..Len(Counter) -> Nat]
      BY <2>1, RiseType
    <3> QED
      BY <1>3, <2>2, <3>1, SumOfZeros DEF Traffic
  <2> HIDE DEF S
  <2> QED
    BY <1>4, <2>3
<1>8. ASSUME NEW m \in 1..N, m < N, Good(m) PROVE Good(m + 1)
  <2> DEFINE n == m + 1
             s == table[n].sample
             w == table[m].sample
             add == IF Counter[s] >= Counter[w] THEN Counter[s] - Counter[w] ELSE 0
  <2>1. n \in 1..N /\ m < n /\ m \in 1..m /\ n \in 1..n
    BY <1>1, <1>8
  <2>2. S(n) = S(m) \cup {s}
    <3>1. \A i \in 1..n : i \in 1..m \/ i = n
      BY <1>8
    <3>2. \A i \in 1..m : i \in 1..n
      BY <1>8
    <3> HIDE DEF n
    <3> QED
      BY <2>1, <3>1, <3>2
  <2>3. S(m) \in SUBSET Taken /\ w \in S(m) /\ s \in Taken /\ w \in Taken
    <3> HIDE DEF n
    <3> QED
      BY <1>2, <1>5, <2>1
  <2>4. ASSUME NEW y \in S(m) PROVE y <= w
    <3>1. PICK i \in 1..m : y = table[i].sample
      OBVIOUS
    <3>2. i \in 1..N /\ (i < m \/ i = m)
      BY <1>1
    <3>3. w \in Nat
      BY <1>3, <2>3
    <3> QED
      BY <3>1, <3>2, <3>3
  <2>5. w <= s
    <3> HIDE DEF n
    <3> QED
      BY <2>1
  <2>6. A(n) = A(m) + (IF table[n].ts > table[m].ts THEN add ELSE 0)
    BY <1>4, <1>8
  <2>7. Rising => table[n].ts > table[m].ts
    <3> HIDE DEF n
    <3>1. table[n].ts \in Nat /\ table[m].ts \in Nat
      BY <1>2, <2>1
    <3> QED
      BY <2>1, <3>1
  <2>8. Counter[s] \in Nat /\ Counter[w] \in Nat
    BY <2>3, CountersAreNat
  <2>9. add \in Nat /\ (w = s => add = 0)
    BY <2>8
  <2>10. Traffic(S(n)) = Traffic(S(m)) + add
    <3> HIDE DEF n, S
    <3>1. Traffic(S(m)) \in Nat
      BY <1>6
    <3>2. CASE w = s
      <4>1. S(n) = S(m)
        BY <2>2, <2>3, <3>2
      <4> HIDE DEF add, s, w
      <4> QED
        BY <2>9, <3>1, <3>2, <4>1
    <3>3. CASE w # s
      <4>1. w < s
        BY <1>3, <2>3, <2>5, <3>3
      <4>2. Traffic(S(m) \cup {s}) = Traffic(S(m)) + add
        BY <2>3, <2>4, <4>1, TrafficOfOneMore
      <4> QED
        BY <2>2, <4>2
    <3> QED
      BY <3>2, <3>3
  <2> HIDE DEF add, s, w, S, Rising
  <2>11. A(m) \in Nat /\ A(n) \in Nat /\ Traffic(S(m)) \in Nat /\ Traffic(S(n)) \in Nat
    BY <1>4, <1>6, <2>1
  <2> QED
    BY <1>8, <2>6, <2>7, <2>9, <2>10, <2>11
<1> HIDE DEF S, Good
<1>9. N - 1 \in T
  <2>1. ASSUME NEW k \in 0..(N - 1), k < N - 1, k \in T PROVE k + 1 \in T
    <3>1. k + 1 \in 1..N /\ k + 1 < N /\ k + 1 \in 0..(N - 1)
      BY <1>1, <2>1
    <3> QED
      BY <1>8, <2>1, <3>1
  <2>2. N - 1 \in 0..(N - 1)
    BY <1>1
  <2>3. 0 \in T
    BY <1>1, <1>7
  <2> HIDE DEF T
  <2> QED
    BY <1>1, <2>1, <2>2, <2>3, UpTo
<1>10. Good(N)
  <2>1. (N - 1) + 1 = N
    BY <1>1
  <2> QED
    BY <1>9, <2>1
<1> QED
  BY <1>10 DEF A, S, Good

-----------------------------------------------------------------------------
(* The history. *)

\* The memory store keeps a suffix.
LEMMA AppendInMemoryType ==
    ASSUME NEW table \in Seq(Row), NEW row \in Row
    PROVE  AppendInMemory(table, row) \in Seq(Row)
<1> DEFINE h == Append(table, row)
           f == 1 + IF Len(h) > MaxRows THEN Len(h) - MaxRows ELSE 0
<1>1. h \in Seq(Row) /\ Len(h) \in Nat /\ Len(h) >= 1
  OBVIOUS
<1>2. f \in 1..(Len(h) + 1)
  <2> HIDE DEF h
  <2> QED
    BY <1>1, HistoryAssumption
<1>3. AppendInMemory(table, row) = SubSeq(h, f, Len(h))
  BY DEF AppendInMemory
<1> HIDE DEF h, f
<1> QED
  BY <1>1, <1>2, <1>3, SubSeqProperties

\* Postgres puts a row in its place.
LEMMA AppendInPostgresType ==
    ASSUME NEW table \in Seq(Row), NEW row \in Row
    PROVE  AppendInPostgres(table, row) \in Seq(Row)
<1> DEFINE n == Len(table)
           earlier == {i \in 1..n : table[i].ts < row.ts}
           k == Cardinality(earlier)
<1>1. n \in Nat
  OBVIOUS
<1>2. IsFiniteSet(1..n) /\ Cardinality(1..n) = n
  <2>1. 1..n = 1..n /\ (1 > n => n = 0)
    BY <1>1
  <2> QED
    BY <1>1, <2>1, FS_Interval
<1>3. IsFiniteSet(earlier) /\ k <= n /\ k \in Nat
  <2>1. earlier \in SUBSET (1..n)
    OBVIOUS
  <2> HIDE DEF earlier
  <2> QED
    BY <1>2, <2>1, FS_Subset, FS_CardinalityType
<1> HIDE DEF k, n
<1>4. CASE AppendInPostgres(table, row) = table
  BY <1>4
<1>5. CASE AppendInPostgres(table, row) # table
  <2>1. AppendInPostgres(table, row) = SubSeq(table, 1, k) \o <<row>> \o SubSeq(table, k + 1, n)
    <3>1. AppendInPostgres(table, row) = InsertAt(table, 1 + k, row)
      BY <1>5 DEF AppendInPostgres, k, n
    <3>2. (1 + k) - 1 = k /\ 1 + k = k + 1
      BY <1>3
    <3> QED
      BY <3>1, <3>2 DEF InsertAt, n
  <2>2. SubSeq(table, 1, k) \in Seq(Row)
    <3>1. 1 \in 1..(n + 1) /\ k \in 0..n
      BY <1>1, <1>3
    <3> QED
      BY <3>1, SubSeqProperties DEF n
  <2>3. SubSeq(table, k + 1, n) \in Seq(Row)
    <3>1. k + 1 \in 1..(n + 1) /\ n \in k..n
      BY <1>1, <1>3
    <3> QED
      BY <3>1, SubSeqProperties DEF n
  <2>4. <<row>> \in Seq(Row)
    OBVIOUS
  <2> QED
    BY <2>1, <2>2, <2>3, <2>4
<1> QED
  BY <1>4, <1>5

LEMMA HistoryTypes == HistorySpec => []HistoryTypeOK
<1>1. HistoryInit => HistoryTypeOK
  BY HistoryAssumption DEF HistoryInit, HistoryTypeOK
<1>2. HistoryTypeOK /\ [HistoryNext]_historyVars => HistoryTypeOK'
  <2> SUFFICES ASSUME HistoryTypeOK, [HistoryNext]_historyVars PROVE HistoryTypeOK'
    OBVIOUS
  <2>1. CASE UNCHANGED historyVars
    BY <2>1 DEF historyVars, HistoryTypeOK
  <2>2. ASSUME NEW h \in Ingesters, NEW s \in Taken, IngestBegins(h, s) PROVE HistoryTypeOK'
    <3>1. [sample |-> s, ts |-> instant] \in Row
      BY DEF HistoryTypeOK, Row
    <3>2. arrivals' \in 0..MaxArrivals
      BY <2>2, HistoryAssumption DEF HistoryTypeOK, IngestBegins
    <3> QED
      BY <2>2, <3>1, <3>2 DEF HistoryTypeOK, IngestBegins
  <2>3. ASSUME NEW h \in Ingesters, IngestAppends(h) PROVE HistoryTypeOK'
    <3>1. ingesting[h] \in Row
      BY <2>3 DEF HistoryTypeOK, IngestAppends
    <3>2. rows' \in Seq(Row)
      BY <2>3, <3>1, AppendInMemoryType, AppendInPostgresType
         DEF HistoryTypeOK, IngestAppends, AppendMetricSample
    <3> QED
      BY <2>3, <3>2 DEF HistoryTypeOK, IngestAppends
  <2>4. CASE InstantPasses
    <3>1. instant' \in 0..MaxInstant
      BY <2>4, HistoryAssumption DEF HistoryTypeOK, InstantPasses
    <3> QED
      BY <2>4, <3>1 DEF HistoryTypeOK, InstantPasses
  <2> QED
    BY <2>1, <2>2, <2>3, <2>4 DEF HistoryNext
<1> QED
  BY <1>1, <1>2, PTL DEF HistorySpec

-----------------------------------------------------------------------------
(* The theorems. *)

\* The inductive invariant of the delivery of samples: with the types, what the agent
\* carries, what it has lost and what the store has, sample by sample.
THEOREM DeliveryInvariant == Spec => []IInv
  BY InitHolds, NextKeepsInv, PTL DEF Spec

\* EverySampleAccountedFor for every instance: whatever requests are lost, answered
\* late or refused, and however often the agent restarts, a sample that was taken is
\* stored, met a store that failed behind a 202, is held, on its way or in one of the
\* three recorded losses.
THEOREM DeliveryAccountsForEverySample == Spec => []EverySampleAccountedFor
<1>1. IInv => EverySampleAccountedFor
  BY DEF IInv
<1> QED
  BY <1>1, DeliveryInvariant, PTL

\* BacklogInOrder for every instance: the backlog of an outage leaves the agent oldest
\* first, through overflow of the buffer and interrupted flushes.
THEOREM DeliveryInOrder == Spec => []BacklogInOrder
<1>1. IInv => BacklogInOrder
  BY DEF IInv
<1> QED
  BY <1>1, DeliveryInvariant, PTL

\* ChartKeepsItsEnds for every instance: any counter, history, limit and order of
\* arrival.
THEOREM DeliveryChartKeepsItsEnds == HistorySpec => []ChartKeepsItsEnds
<1>1. HistoryTypeOK => ChartKeepsItsEnds
  <2> SUFFICES ASSUME HistoryTypeOK PROVE ChartKeepsItsEnds
    OBVIOUS
  <2> DEFINE points == RateSeries(rows)
             chart == Chart(rows)
  <2>1. points \in Seq(Point) /\ Chronological(points)
    BY SeriesIsChronological DEF HistoryTypeOK
  <2>2. MaxChart \in Nat /\ MaxChart >= 2
    BY HistoryAssumption
  <2>3. /\ chart \in Seq(Point) /\ Chronological(chart)
        /\ Len(chart) = IF Len(points) <= MaxChart THEN Len(points) ELSE MaxChart
        /\ points # << >> => chart[1] = points[1] /\ chart[Len(chart)] = points[Len(points)]
        /\ \A i \in 1..Len(chart) : \E j \in 1..Len(points) : chart[i] = points[j]
    BY <2>1, <2>2, DecimateKeepsEnds DEF Chart
  <2> HIDE DEF points, chart
  <2>4. Len(points) \in Nat
    BY <2>1
  <2>5. Len(chart) = Min({Len(points), MaxChart})
    <3> DEFINE a == Len(points)
    <3> HIDE DEF a
    <3>1. a \in Nat /\ Len(chart) = IF a <= MaxChart THEN a ELSE MaxChart
      BY <2>3, <2>4 DEF a
    <3>2. Min({a, MaxChart}) = IF a <= MaxChart THEN a ELSE MaxChart
      BY <3>1, <2>2, MinOfTwo
    <3> QED
      BY <3>1, <3>2 DEF a
  <2>6. DOMAIN chart = 1..Len(chart) /\ DOMAIN points = 1..Len(points)
    BY <2>1, <2>3
  <2>7. ToSet(chart) \subseteq ToSet(points)
    <3>1. ASSUME NEW v \in ToSet(chart) PROVE v \in ToSet(points)
      <4>1. PICK i \in DOMAIN chart : v = chart[i]
        BY Zenon DEF ToSet
      <4>2. PICK j \in 1..Len(points) : chart[i] = points[j]
        BY <2>3, <2>6, <4>1
      <4>3. j \in DOMAIN points /\ v = points[j]
        BY <2>6, <4>1, <4>2
      <4> QED
        BY <4>3, Zenon DEF ToSet
    <3> QED
      BY <3>1
  <2>8. \A i, j \in 1..Len(chart) : i < j => chart[i].at < chart[j].at
    BY <2>3 DEF Chronological
  <2>9. points # << >> => chart[1] = points[1] /\ Last(chart) = Last(points)
    BY <2>3 DEF Last
  <2> QED
    BY <2>5, <2>7, <2>8, <2>9, Zenon DEF ChartKeepsItsEnds, points, chart
<1> QED
  BY <1>1, HistoryTypes, PTL

\* ChartCountsOnce for every instance: any counter, any history, any duplicates and
\* late arrivals, handlers that overlap, and either store.
THEOREM DeliveryChartCountsOnce == HistorySpec => []ChartCountsOnce
<1>1. HistoryTypeOK => ChartCountsOnce
  <2> SUFFICES ASSUME HistoryTypeOK PROVE ChartCountsOnce
    OBVIOUS
  <2> DEFINE points == RateSeries(rows)
             taken0 == {rows[i].sample : i \in 1..Len(rows)}
             Sorted == \A i, j \in 1..Len(rows) : i < j => rows[i].sample <= rows[j].sample
             Rising == \A i, j \in 1..Len(rows) : i < j => rows[i].ts < rows[j].ts
  <2>1. rows \in Seq(Row)
    BY DEF HistoryTypeOK
  <2>2. Sorted => /\ Shown(points) <= Traffic(taken0)
                  /\ Rising => Shown(points) = Traffic(taken0)
    <3>1. CASE rows = << >>
      <4>1. Len(rows) = 0 /\ points = << >> /\ Len(points) = 0 /\ taken0 = {}
        BY <3>1 DEF RateSeries
      <4>2. SumTo(RiseOf(<< >>), 0) = 0
        <5>1. RiseOf(<< >>) \in [1..0 -> Nat] /\ \A k \in 1..0 : RiseOf(<< >>)[k] = 0
          BY DEF RiseOf
        <5> QED
          BY <5>1, SumOfZeros
      <4>3. Traffic({}) = 0
        <5>1. /\ Rise({}) \in [1..Len(Counter) -> Nat] /\ Len(Counter) \in Nat
              /\ \A k \in Taken : Rise({})[k] = 0
          BY RiseType
        <5> QED
          BY <5>1, SumOfZeros DEF Traffic, Taken
      <4>4. Shown(points) = 0 /\ Traffic(taken0) = 0
        BY <4>1, <4>2, <4>3, Zenon DEF Shown
      <4> HIDE DEF points, taken0
      <4> QED
        BY <4>4
    <3>2. CASE rows # << >>
      <4>1. points = RateLoop(rows)[Len(rows)].points
        BY <3>2 DEF RateSeries
      <4> QED
        BY <2>1, <3>2, <4>1, ShownIsTraffic DEF ShownAfter
    <3> QED
      BY <3>1, <3>2
  <2> QED
    BY <2>2, Zenon DEF ChartCountsOnce, Shown, RiseOf
<1> QED
  BY <1>1, HistoryTypes, PTL
=============================================================================

------------------------------- MODULE Cache --------------------------------
(***************************************************************************)
(* The operations of the agent's offline buffer (package cache,            *)
(* agent/internal/cache/cache.go) on the sequence r.items: a bounded FIFO  *)
(* that, when full, gives up the oldest of its least important items, and  *)
(* refuses a new item that is less important than everything it holds.     *)
(* Items are records with a field prio; what else they carry is the        *)
(* business of the module that extends this one.                           *)
(***************************************************************************)
EXTENDS Naturals, Sequences

CONSTANT Cap   \* the capacity New is called with (4096 in main.go)

ASSUME CapAssumption == Cap \in Nat

\* New clamps a capacity below one to one.
BufferCap == IF Cap < 1 THEN 1 ELSE Cap

\* Mutant of IsEvictable: the scan compares with <= and ends with the newest.
IsEvictableNewest(items, e) ==
    /\ e \in 1..Len(items)
    /\ \A i \in 1..Len(items) : items[e].prio <= items[i].prio
    /\ \A i \in 1..Len(items) : i > e => items[e].prio < items[i].prio

\* The oldest of the items that have the lowest priority: the index the scan
\* in Push ends with (`<` keeps the first of equals).
IsEvictable(items, e) ==
    /\ e \in 1..Len(items)
    /\ \A i \in 1..Len(items) : items[e].prio <= items[i].prio
    /\ \A i \in 1..Len(items) : i < e => items[e].prio < items[i].prio

\* Mutant of EvictAndAppend: the new item takes the place of the old one.
EvictInPlace(items, e, it) == [items EXCEPT ![e] = it]

\* Drop position e, close the gap, put it at the end.
EvictAndAppend(items, e, it) ==
    [i \in 1..Len(items) |->
        IF i < e THEN items[i]
        ELSE IF i < Len(items) THEN items[i + 1]
        ELSE it]

\* (*RingBuffer).Push, at capacity: evict the oldest lowest-priority item
\* unless it outranks the new one, which is then dropped.
PushFull(items, it) ==
    LET e == CHOOSE e \in 1..Len(items) : IsEvictable(items, e)
    IN  IF items[e].prio <= it.prio THEN EvictAndAppend(items, e, it) ELSE items

\* Mutant of PushItem: the capacity test is off by one.
PushItemOffByOne(items, it) ==
    IF Len(items) <= BufferCap THEN Append(items, it) ELSE PushFull(items, it)

\* (*RingBuffer).Push.
PushItem(items, it) ==
    IF Len(items) < BufferCap THEN Append(items, it) ELSE PushFull(items, it)

\* (*RingBuffer).Drain hands out everything and leaves this.
DrainItems == << >>

=============================================================================

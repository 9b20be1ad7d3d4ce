----------------------------- MODULE RingBuffer -----------------------------
(***************************************************************************)
(* Every use of the agent's offline buffer (type RingBuffer of package     *)
(* cache): all sequences of pushes and drains, with a record of what was   *)
(* pushed since the last drain, so that what the buffer keeps can be       *)
(* compared with what it was given.  Each method holds r.mu from start to  *)
(* end, so one method is one step.                                         *)
(***************************************************************************)
EXTENDS Cache

CONSTANTS Priorities, \* PriorityHistorical < PriorityHealth < PriorityCritical
          MaxPushes   \* bound: how many items are ever pushed

ASSUME PrioritiesAssumption == Priorities \subseteq 0..2

ASSUME MaxPushesAssumption == MaxPushes \in Nat

\* An item is its priority and its payload; the payload is abstracted to the
\* number of the push that brought it, which is all the properties compare.
Item == [prio : Priorities, id : 1..MaxPushes]

-----------------------------------------------------------------------------
(* Every use of the buffer. *)

VARIABLES items,   \* r.items
          pushed   \* history: everything pushed since the last Drain

ringVars == <<items, pushed>>

\* How many items were pushed since the last Drain: the number of the next one.
Pushes == Len(pushed)

RingInit ==
    /\ items = << >>
    /\ pushed = << >>

Push(p) ==
    /\ Pushes < MaxPushes
    /\ LET it == [prio |-> p, id |-> Pushes + 1]
       IN  /\ items' = PushItem(items, it)
           /\ pushed' = Append(pushed, it)

Drain ==
    /\ items # << >>
    /\ items' = DrainItems
    /\ pushed' = << >>

RingNext ==
    \/ \E p \in Priorities : Push(p)
    \/ Drain

RingSpec == RingInit /\ [][RingNext]_ringVars

-----------------------------------------------------------------------------
(* Properties. *)

RingTypeOK ==
    /\ items \in Seq(Item)
    /\ pushed \in Seq(Item)
    /\ Len(items) <= BufferCap

\* Everything kept was pushed, and in the order it was pushed: the flush of
\* the agent sends the samples of an outage oldest first.
KeptInPushOrder ==
    /\ \A i \in 1..Len(items) : /\ items[i].id \in 1..Len(pushed)
                                /\ pushed[items[i].id] = items[i]
    /\ \A i, j \in 1..Len(items) : i < j => items[i].id < items[j].id

\* Item a is worth keeping over item b: more important, or as important and
\* newer.
Outranks(a, b) == a.prio > b.prio \/ (a.prio = b.prio /\ a.id > b.id)

\* Is push number n still in the buffer.
Kept(n) == \E i \in 1..Len(items) : items[i].id = n

\* What the buffer holds is exactly the best of what it was given since the
\* last Drain: nothing is lost before it is full, and whatever was lost is
\* outranked by everything that was kept ("dropping the OLDEST low-priority
\* items first", cache.go; "Never drop a more-important item to make room for
\* a less-important one").
KeepsTheBest ==
    \A n \in 1..Len(pushed) :
        ~Kept(n) => /\ Len(items) = BufferCap
                    /\ \A i \in 1..Len(items) : Outranks(items[i], pushed[n])
=============================================================================

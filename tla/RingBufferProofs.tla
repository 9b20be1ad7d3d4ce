-------------------------- MODULE RingBufferProofs --------------------------
(***************************************************************************)
(* The buffer keeps the best of what it is given, for every capacity and   *)
(* every sequence of pushes and drains.                                    *)
(***************************************************************************)
EXTENDS RingBuffer, TLAPS, WellFoundedInduction

\* Every nonempty set of naturals has a least element.
LEMMA LeastNatural ==
    ASSUME NEW T, T \subseteq Nat, T # {}
    PROVE  \E m \in T : \A k \in T : m <= k
<1>1. \E m \in T : \A k \in T : ~(<<k, m>> \in OpToRel(<, Nat))
    BY NatLessThanWellFounded, WFMin
<1>2. ASSUME NEW m \in T, NEW k \in T, ~(<<k, m>> \in OpToRel(<, Nat))
      PROVE  m <= k
    <2>1. ~(k < m)
        BY <1>2 DEF OpToRel
    <2>. QED
        BY <2>1
<1>. QED
    BY <1>1, <1>2

\* What is known of an item: its priority and its number are naturals.
LEMMA ItemFields ==
    ASSUME NEW x \in Item
    PROVE  x.prio \in Nat /\ x.id \in Nat
<1>1. x.prio \in Priorities /\ x.id \in 1..MaxPushes
    BY DEF Item
<1>2. \A p \in Priorities : p \in Nat
    BY PrioritiesAssumption
<1>. QED
    BY <1>1, <1>2, MaxPushesAssumption

\* A nonempty buffer has an oldest item of lowest priority: the scan in Push
\* always ends with an index, never with the initial -1.
LEMMA EvictableExists ==
    ASSUME NEW s \in Seq(Item), Len(s) > 0
    PROVE  \E e \in 1..Len(s) : IsEvictable(s, e)
<1> DEFINE P == {s[i].prio : i \in 1..Len(s)}
<1>1. P \subseteq Nat /\ P # {}
    <2>1. \A i \in 1..Len(s) : s[i] \in Item
        OBVIOUS
    <2>2. \A i \in 1..Len(s) : s[i].prio \in Nat
        BY <2>1, ItemFields
    <2>3. 1 \in 1..Len(s)
        OBVIOUS
    <2>. QED
        BY <2>2, <2>3
<1>2. PICK p \in P : \A q \in P : p <= q
    BY <1>1, LeastNatural
<1> DEFINE I == {i \in 1..Len(s) : s[i].prio = p}
<1>3. I \subseteq Nat /\ I # {}
    BY <1>2
<1>4. PICK e \in I : \A i \in I : e <= i
    BY <1>3, LeastNatural
<1>5. IsEvictable(s, e)
    <2>1. \A i \in 1..Len(s) : s[e].prio <= s[i].prio
        BY <1>2, <1>4
    <2>2. ASSUME NEW i \in 1..Len(s), i < e
          PROVE  s[e].prio < s[i].prio
        <3>1. i \notin I
            BY <1>4, <2>2
        <3>2. s[i].prio # s[e].prio
            BY <3>1, <1>4
        <3>3. s[i].prio \in Nat /\ s[e].prio \in Nat
            BY <1>1, <1>4
        <3>. QED
            BY <2>1, <3>2, <3>3
    <2>. QED
        BY <1>4, <2>1, <2>2 DEF IsEvictable
<1>. QED
    BY <1>4, <1>5

-----------------------------------------------------------------------------
\* Pushes are numbered in order.
PushesNumbered == \A n \in 1..Len(pushed) : pushed[n].id = n

\* The inductive invariant: the invariants of the runs together, and the
\* numbering that makes "newer" mean "pushed later".
IInv == RingTypeOK /\ PushesNumbered /\ KeptInPushOrder /\ KeepsTheBest

\* The shape of a step of Push: the three ways Push can end.
LEMMA PushCases ==
    ASSUME RingTypeOK, NEW it
    PROVE  \/ Len(items) < BufferCap /\ PushItem(items, it) = Append(items, it)
           \/ /\ Len(items) = BufferCap
              /\ \E e \in 1..Len(items) :
                    /\ IsEvictable(items, e)
                    /\ \/ /\ items[e].prio <= it.prio
                          /\ PushItem(items, it) = EvictAndAppend(items, e, it)
                       \/ /\ ~(items[e].prio <= it.prio)
                          /\ PushItem(items, it) = items
<1>1. BufferCap \in Nat /\ BufferCap > 0
    BY CapAssumption DEF BufferCap
<1>2. CASE Len(items) < BufferCap
    BY <1>2 DEF PushItem
<1>3. CASE ~(Len(items) < BufferCap)
    <2>1. Len(items) \in Nat /\ Len(items) = BufferCap
        BY <1>1, <1>3 DEF RingTypeOK
    <2>2. \E e \in 1..Len(items) : IsEvictable(items, e)
        BY <1>1, <2>1, EvictableExists DEF RingTypeOK
    <2> DEFINE e == CHOOSE e \in 1..Len(items) : IsEvictable(items, e)
    <2>3. e \in 1..Len(items) /\ IsEvictable(items, e)
        BY <2>2
    <2>4. PushItem(items, it) = IF items[e].prio <= it.prio
                                THEN EvictAndAppend(items, e, it) ELSE items
        BY <1>3 DEF PushItem, PushFull
    <2> HIDE DEF e
    <2>. QED
        BY <2>1, <2>3, <2>4
<1>. QED
    BY <1>2, <1>3

\* Push keeps the invariant while there is room.
LEMMA AppendKeepsInv ==
    ASSUME IInv, NEW it \in Item, it.id = Len(pushed) + 1,
           Len(items) < BufferCap,
           items' = Append(items, it), pushed' = Append(pushed, it)
    PROVE  IInv'
<1> USE DEF IInv
<1>1. /\ BufferCap \in Nat
      /\ Len(items') = Len(items) + 1 /\ Len(pushed') = Len(pushed) + 1
      /\ Len(items) \in Nat /\ Len(pushed) \in Nat
    BY CapAssumption DEF BufferCap, RingTypeOK
<1>2. RingTypeOK'
    BY <1>1 DEF RingTypeOK
<1>3. /\ \A i \in 1..Len(items) : items'[i] = items[i]
      /\ items'[Len(items) + 1] = it
      /\ \A n \in 1..Len(pushed) : pushed'[n] = pushed[n]
      /\ pushed'[Len(pushed) + 1] = it
    BY <1>1 DEF RingTypeOK
<1>31. PushesNumbered'
    BY <1>1, <1>3 DEF PushesNumbered
<1>4. KeptInPushOrder'
    BY <1>1, <1>3 DEF KeptInPushOrder
<1>5. KeepsTheBest'
    <2>1. ASSUME NEW n \in 1..Len(pushed'), ~Kept(n)' PROVE FALSE
        <3>1. \A i \in 1..(Len(items) + 1) : items'[i].id # n
            BY <1>1, <2>1 DEF Kept
        <3>2. n \in 1..Len(pushed)
            BY <1>1, <1>3, <3>1
        <3>3. ~Kept(n)
            BY <1>1, <1>3, <3>1 DEF Kept
        <3>. QED
            BY <3>2, <3>3 DEF KeepsTheBest
    <2>. QED
        BY <2>1 DEF KeepsTheBest
<1>. QED
    BY <1>2, <1>31, <1>4, <1>5

\* Push keeps the invariant when it evicts.
LEMMA EvictKeepsInv ==
    ASSUME IInv, NEW it \in Item, it.id = Len(pushed) + 1,
           Len(items) = BufferCap,
           NEW e \in 1..Len(items), IsEvictable(items, e),
           items[e].prio <= it.prio,
           items' = EvictAndAppend(items, e, it), pushed' = Append(pushed, it)
    PROVE  IInv'
<1> DEFINE L == Len(items)
           M == Len(pushed)
<1>1. /\ L \in Nat /\ M \in Nat /\ e \in 1..L
      /\ Len(pushed') = M + 1
      /\ \A n \in 1..M : pushed'[n] = pushed[n]
      /\ pushed'[M + 1] = it
      /\ pushed' \in Seq(Item)
    BY DEF IInv, RingTypeOK
<1>2. items' \in [1..L -> Item]
    BY <1>1 DEF EvictAndAppend, RingTypeOK, IInv
<1>3. items' \in Seq(Item) /\ Len(items') = L
    BY <1>1, <1>2
<1>4. /\ \A i \in 1..L : i < e => items'[i] = items[i]
      /\ \A i \in 1..L : ~(i < e) /\ i < L => items'[i] = items[i + 1]
      /\ items'[L] = it
    BY <1>1 DEF EvictAndAppend
<1>5. /\ \A i \in 1..L : items[i] \in Item
      /\ \A n \in 1..M : pushed[n] \in Item /\ pushed[n].id = n
    BY DEF IInv, RingTypeOK, PushesNumbered
<1>6. /\ \A i \in 1..L : items[i].id \in 1..M /\ pushed[items[i].id] = items[i]
      /\ \A i, j \in 1..L : i < j => items[i].id < items[j].id
    BY DEF IInv, KeptInPushOrder
<1>7. \A n \in 1..M : ~Kept(n) => \A i \in 1..L : Outranks(items[i], pushed[n])
    BY DEF IInv, KeepsTheBest
<1>8. /\ \A i \in 1..L : items[e].prio <= items[i].prio
      /\ \A i \in 1..L : i < e => items[e].prio < items[i].prio
    BY DEF IsEvictable
<1>9. it.id = M + 1 /\ it.prio \in Nat /\ items[e].prio <= it.prio
    BY ItemFields
<1>10. Kept(items[e].id) /\ \A n \in Nat : Kept(n) <=> \E i \in 1..L : items[i].id = n
    BY <1>1 DEF Kept
<1>11. \A n \in Nat : Kept(n)' <=> \E i \in 1..L : items'[i].id = n
    BY <1>3 DEF Kept
<1>12. L = BufferCap /\ L <= BufferCap
    BY <1>1
<1> HIDE DEF L, M
<1>13. ASSUME NEW i \in 1..L, i < L
       PROVE  \E j \in 1..L : j # e /\ items'[i] = items[j]
    <2>1. CASE i < e
        BY <1>1, <1>4, <1>13, <2>1
    <2>2. CASE ~(i < e)
        <3>1. i + 1 \in 1..L /\ i + 1 # e
            BY <1>1, <1>13, <2>2
        <3>. QED
            BY <1>4, <1>13, <2>2, <3>1
    <2>. QED
        BY <2>1, <2>2
<1>14. ASSUME NEW j \in 1..L, j # e
       PROVE  \E i \in 1..L : items'[i] = items[j]
    <2>1. CASE j < e
        BY <1>4, <1>14, <2>1
    <2>2. CASE j > e
        <3>1. j - 1 \in 1..L /\ ~(j - 1 < e) /\ j - 1 < L /\ (j - 1) + 1 = j
            BY <1>1, <1>14, <2>2
        <3>. QED
            BY <1>4, <3>1
    <2>. QED
        BY <1>1, <1>14, <2>1, <2>2
<1>15. RingTypeOK'
    BY <1>1, <1>3, <1>12 DEF RingTypeOK, BufferCap
<1>16. PushesNumbered'
    BY <1>1, <1>5, <1>9 DEF PushesNumbered
<1>17. KeptInPushOrder'
    <2>1. ASSUME NEW i \in 1..L
          PROVE  items'[i].id \in 1..(M + 1) /\ pushed'[items'[i].id] = items'[i]
        <3>1. CASE i < L
            <4>1. PICK j \in 1..L : items'[i] = items[j]
                BY <1>13, <3>1
            <4>. QED
                BY <1>1, <1>6, <4>1
        <3>2. CASE i = L
            BY <1>1, <1>4, <1>9, <3>2
        <3>. QED
            BY <1>1, <3>1, <3>2
    <2>2. ASSUME NEW i \in 1..L, NEW j \in 1..L, i < j
          PROVE  items'[i].id < items'[j].id
        <3>1. CASE j = L
            <4>1. PICK k \in 1..L : items'[i] = items[k]
                BY <1>13, <2>2, <3>1
            <4>. QED
                BY <1>1, <1>4, <1>6, <1>9, <3>1, <4>1
        <3>2. CASE j < L
            <4>1. CASE j < e
                BY <1>1, <1>4, <1>6, <2>2, <4>1
            <4>2. CASE i < e /\ ~(j < e)
                <5>1. j + 1 \in 1..L /\ i < j + 1
                    BY <1>1, <2>2, <3>2
                <5>2. items'[i] = items[i] /\ items'[j] = items[j + 1]
                    BY <1>4, <3>2, <4>2
                <5>. QED
                    BY <1>6, <5>1, <5>2
            <4>3. CASE ~(i < e)
                <5>1. i + 1 \in 1..L /\ j + 1 \in 1..L /\ i + 1 < j + 1
                    BY <1>1, <2>2, <3>2
                <5>2. i < L /\ ~(j < e)
                    BY <1>1, <2>2, <4>3
                <5>3. items'[i] = items[i + 1] /\ items'[j] = items[j + 1]
                    BY <1>4, <3>2, <4>3, <5>2
                <5>. QED
                    BY <1>6, <5>1, <5>3
            <4>. QED
                BY <4>1, <4>2, <4>3
        <3>. QED
            BY <1>1, <3>1, <3>2
    <2>. QED
        BY <1>1, <1>3, <2>1, <2>2 DEF KeptInPushOrder
<1>18. KeepsTheBest'
    <2>1. ASSUME NEW n \in 1..(M + 1), ~Kept(n)', NEW i \in 1..L
          PROVE  Outranks(items'[i], pushed'[n])
        <3>1. \A k \in 1..L : items'[k].id # n
            BY <1>1, <1>11, <2>1
        <3>2. n \in 1..M /\ pushed'[n] = pushed[n]
            <4>1. L \in 1..L
                BY <1>1
            <4>. QED
                BY <1>1, <1>4, <1>9, <3>1, <4>1
        <3>3. n = items[e].id \/ ~Kept(n)
            <4>1. ASSUME NEW k \in 1..L, items[k].id = n PROVE k = e
                BY <1>14, <3>1, <4>1
            <4>. QED
                BY <1>1, <1>10, <4>1
        <3>4. \A j \in 1..L : j # e => Outranks(items[j], pushed[n])
            <4>1. CASE ~Kept(n)
                BY <1>7, <3>2, <4>1
            <4>2. CASE n = items[e].id
                <5>1. pushed[n] = items[e]
                    BY <1>1, <1>6, <4>2
                <5>2. ASSUME NEW j \in 1..L, j # e
                      PROVE  Outranks(items[j], items[e])
                    <6>1. /\ items[j].prio \in Nat /\ items[e].prio \in Nat
                          /\ items[j].id \in Nat /\ items[e].id \in Nat
                        BY <1>1, <1>5, <5>2, ItemFields
                    <6>2. CASE j < e
                        BY <1>8, <5>2, <6>1, <6>2 DEF Outranks
                    <6>3. CASE j > e
                        BY <1>1, <1>6, <1>8, <5>2, <6>1, <6>3 DEF Outranks
                    <6>. QED
                        BY <1>1, <5>2, <6>2, <6>3
                <5>. QED
                    BY <5>1, <5>2
            <4>. QED
                BY <3>3, <4>1, <4>2
        <3>5. Outranks(it, pushed[n])
            <4>1. /\ pushed[n].prio \in Nat /\ pushed[n].id = n
                  /\ items[e].prio \in Nat /\ items[e].id \in Nat
                BY <1>1, <1>5, <3>2, ItemFields
            <4>2. items[e].prio >= pushed[n].prio
                <5>1. CASE ~Kept(n)
                    <6>1. Outranks(items[e], pushed[n])
                        BY <1>1, <1>7, <3>2, <5>1
                    <6>. QED
                        BY <4>1, <6>1 DEF Outranks
                <5>2. CASE n = items[e].id
                    BY <1>1, <1>6, <4>1, <5>2
                <5>. QED
                    BY <3>3, <5>1, <5>2
            <4>. QED
                BY <1>1, <1>9, <3>2, <4>1, <4>2 DEF Outranks
        <3>6. CASE i < L
            BY <1>13, <3>2, <3>4, <3>6
        <3>7. CASE i = L
            BY <1>4, <3>2, <3>5, <3>7
        <3>. QED
            BY <1>1, <3>6, <3>7
    <2>. QED
        BY <1>1, <1>3, <1>12, <2>1 DEF KeepsTheBest, BufferCap
<1>. QED
    BY <1>15, <1>16, <1>17, <1>18 DEF IInv

\* Push keeps the invariant when it drops the new item.
LEMMA DropKeepsInv ==
    ASSUME IInv, NEW it \in Item, it.id = Len(pushed) + 1,
           Len(items) = BufferCap,
           NEW e \in 1..Len(items), IsEvictable(items, e),
           ~(items[e].prio <= it.prio),
           items' = items, pushed' = Append(pushed, it)
    PROVE  IInv'
<1>1. /\ Len(pushed) \in Nat /\ Len(pushed') = Len(pushed) + 1
      /\ \A n \in 1..Len(pushed) : pushed'[n] = pushed[n]
      /\ pushed'[Len(pushed) + 1] = it
      /\ pushed' \in Seq(Item)
    BY DEF IInv, RingTypeOK
<1>2. RingTypeOK'
    BY <1>1 DEF IInv, RingTypeOK, BufferCap
<1>3. PushesNumbered'
    BY <1>1 DEF IInv, PushesNumbered
<1>4. KeptInPushOrder'
    BY <1>1 DEF IInv, KeptInPushOrder
<1>5. \A i \in 1..Len(items) : Outranks(items[i], it)
    <2>1. ASSUME NEW i \in 1..Len(items)
          PROVE  Outranks(items[i], it)
        <3>1. items[i] \in Item /\ items[e] \in Item
            BY DEF IInv, RingTypeOK
        <3>2. /\ items[i].prio \in Nat /\ items[e].prio \in Nat /\ it.prio \in Nat
            BY <3>1, ItemFields
        <3>. QED
            BY <3>2 DEF IsEvictable, Outranks
    <2>. QED
        BY <2>1
<1>6. KeepsTheBest'
    <2>1. ASSUME NEW n \in 1..Len(pushed'), ~Kept(n)', NEW i \in 1..Len(items)
          PROVE  Outranks(items[i], pushed'[n])
        <3>1. CASE n \in 1..Len(pushed)
            BY <1>1, <2>1, <3>1 DEF IInv, KeepsTheBest, Kept
        <3>2. CASE n = Len(pushed) + 1
            BY <1>1, <1>5, <3>2
        <3>. QED
            BY <1>1, <3>1, <3>2
    <2>. QED
        BY <2>1 DEF KeepsTheBest, BufferCap
<1>. QED
    BY <1>2, <1>3, <1>4, <1>6 DEF IInv

-----------------------------------------------------------------------------
\* For every capacity, whatever was pushed and drained in whatever order, the
\* buffer holds at most its capacity, in push order, and exactly the items no
\* lost item outranks: Push of cache.go never gives up the wrong item.
THEOREM RingBufferInvariant == RingSpec => []IInv
<1>1. RingInit => IInv
    <2>. SUFFICES ASSUME RingInit PROVE IInv
        OBVIOUS
    <2>1. /\ Len(items) = 0 /\ Len(pushed) = 0
          /\ items \in Seq(Item) /\ pushed \in Seq(Item)
        BY DEF RingInit
    <2>2. BufferCap \in Nat
        BY CapAssumption DEF BufferCap
    <2>. QED
        BY <2>1, <2>2 DEF IInv, RingTypeOK, PushesNumbered, KeptInPushOrder, KeepsTheBest
<1>2. IInv /\ [RingNext]_ringVars => IInv'
    <2>. SUFFICES ASSUME IInv, [RingNext]_ringVars PROVE IInv'
        OBVIOUS
    <2>1. ASSUME NEW p \in Priorities, Push(p) PROVE IInv'
        <3> DEFINE it == [prio |-> p, id |-> Len(pushed) + 1]
        <3>1. /\ it \in Item /\ it.id = Len(pushed) + 1
              /\ items' = PushItem(items, it) /\ pushed' = Append(pushed, it)
            BY <2>1, MaxPushesAssumption DEF Push, Pushes, Item, IInv, RingTypeOK
        <3> HIDE DEF it
        <3>. QED
            BY <3>1, PushCases, AppendKeepsInv, EvictKeepsInv, DropKeepsInv DEF IInv
    <2>2. ASSUME Drain PROVE IInv'
        <3>1. /\ Len(items') = 0 /\ Len(pushed') = 0
              /\ items' \in Seq(Item) /\ pushed' \in Seq(Item)
            BY <2>2 DEF Drain, DrainItems
        <3>2. BufferCap \in Nat
            BY CapAssumption DEF BufferCap
        <3>. QED
            BY <3>1, <3>2 DEF IInv, RingTypeOK, PushesNumbered, KeptInPushOrder,
                              KeepsTheBest, BufferCap
    <2>3. ASSUME UNCHANGED ringVars PROVE IInv'
        BY <2>3 DEF ringVars, IInv, RingTypeOK, PushesNumbered, KeptInPushOrder,
                    KeepsTheBest, Kept, BufferCap
    <2>. QED
        BY <2>1, <2>2, <2>3 DEF RingNext
<1>. QED
    BY <1>1, <1>2, PTL DEF RingSpec

\* The buffer never exceeds its capacity and holds only items it was given.
THEOREM RingBufferType == RingSpec => []RingTypeOK
<1>1. IInv => RingTypeOK
    BY DEF IInv
<1>. QED
    BY <1>1, RingBufferInvariant, PTL

\* The items of an outage leave the buffer in the order they entered it.
THEOREM RingBufferOrder == RingSpec => []KeptInPushOrder
<1>1. IInv => KeptInPushOrder
    BY DEF IInv
<1>. QED
    BY <1>1, RingBufferInvariant, PTL

\* Nothing is lost before the buffer is full, and everything kept outranks
\* everything lost, for every capacity.
THEOREM RingBufferKeepsTheBest == RingSpec => []KeepsTheBest
<1>1. IInv => KeepsTheBest
    BY DEF IInv
<1>. QED
    BY <1>1, RingBufferInvariant, PTL
=============================================================================

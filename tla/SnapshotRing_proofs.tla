------------------------ MODULE SnapshotRing_proofs ------------------------
(***************************************************************************)
(* The ring of snapshots stays well formed and implements the history of   *)
(* network maps, for every set of maps and every size of the ring.         *)
(***************************************************************************)
EXTENDS SnapshotRing, Sequences, TLAPS

LEMMA ModuloInRing ==
    ASSUME NEW n \in Nat \ {0}, NEW a \in 0..2 * n - 1
    PROVE  a % n = IF a < n THEN a ELSE a - n
  <1>1. CASE a < n
    BY <1>1
  <1>2. CASE a >= n
    <2> DEFINE b == a - n
    <2>1. b \in 0..n - 1 /\ a = b + n
      BY <1>2
    <2>2. b % n = b
      BY <2>1
    <2>3. (b + n) % n = b
      BY <2>1
    <2> QED
      BY <1>2, <2>1, <2>3
  <1> QED
    BY <1>1, <1>2

-----------------------------------------------------------------------------
(* The slots of a ring are well formed.  Together with the types this is   *)
(* inductive: a resize that would leave a hole is not Movable.             *)
RingInv == RingTypeOK /\ RingWellFormed

LEMMA RingInvInit == RingInit => RingInv
  BY RingAssumption DEF RingInit, RingInv, RingTypeOK, RingWellFormed, Slots

LEMMA PushSlot ==
    ASSUME RingInv, NEW m \in Maps, Push(m)
    PROVE  /\ count \in 1..MaxCount
           /\ current' = IF current + 1 < count THEN current + 1 ELSE 0
           /\ current' \in Slots
           /\ slots' = [k \in Slots |-> IF k = current' THEN m ELSE slots[k]]
  <1>1. count \in 1..MaxCount /\ current + 1 \in 0..count
    BY RingAssumption DEF Push, RingInv, RingTypeOK, RingWellFormed
  <1>2. current + 1 \in 0..2 * count - 1 /\ count \in Nat \ {0}
    BY <1>1, RingAssumption
  <1>3. current' = IF current + 1 < count THEN current + 1 ELSE 0
    BY <1>1, <1>2, ModuloInRing DEF Push
  <1>4. current' \in Slots
    BY <1>1, <1>3, RingAssumption DEF Slots
  <1>5. slots' = [slots EXCEPT ![current'] = m] /\ DOMAIN slots = Slots
    BY DEF Push, RingInv, RingTypeOK
  <1>6. slots' = [k \in Slots |-> IF k = current' THEN m ELSE slots[k]]
    BY <1>5
  <1> QED
    BY <1>1, <1>3, <1>4, <1>6

LEMMA PushKeepsInv ==
    ASSUME RingInv, NEW m \in Maps, Push(m)
    PROVE  RingInv'
  <1>1. RingTypeOK'
    BY PushSlot, RingAssumption DEF RingInv, RingTypeOK, Push, Slots
  <1>2. RingWellFormed'
    BY PushSlot, RingAssumption DEF RingInv, RingTypeOK, RingWellFormed, Push, Slots
  <1> QED
    BY <1>1, <1>2 DEF RingInv

LEMMA GrowKeepsInv ==
    ASSUME RingInv, NEW c \in 0..MaxCount, Grow(c)
    PROVE  RingInv'
  <1>1. RingTypeOK'
    BY RingAssumption DEF Grow, Movable, RingInv, RingTypeOK, RingWellFormed, Slots
  <1>2. RingWellFormed'
    BY RingAssumption DEF Grow, Movable, RingInv, RingTypeOK, RingWellFormed, Slots
  <1> QED
    BY <1>1, <1>2 DEF RingInv

LEMMA ShrinkAfterKeepsInv ==
    ASSUME RingInv, NEW c \in 0..MaxCount, ShrinkAfter(c)
    PROVE  RingInv'
  <1>1. RingTypeOK'
    BY RingAssumption DEF ShrinkAfter, Movable, RingInv, RingTypeOK, RingWellFormed, Slots
  <1>2. RingWellFormed'
    BY RingAssumption DEF ShrinkAfter, Movable, RingInv, RingTypeOK, RingWellFormed, Slots
  <1> QED
    BY <1>1, <1>2 DEF RingInv

LEMMA ShrinkBeforeKeepsInv ==
    ASSUME RingInv, NEW c \in 0..MaxCount, ShrinkBefore(c)
    PROVE  RingInv'
  <1>1. RingTypeOK'
    BY RingAssumption DEF ShrinkBefore, Movable, RingInv, RingTypeOK, RingWellFormed, Slots
  <1>2. RingWellFormed'
    BY RingAssumption DEF ShrinkBefore, Movable, RingInv, RingTypeOK, RingWellFormed, Slots
  <1> QED
    BY <1>1, <1>2 DEF RingInv

LEMMA RingInvStep == RingInv /\ [RingNext]_ring => RingInv'
  <1> SUFFICES ASSUME RingInv, [RingNext]_ring PROVE RingInv'
    OBVIOUS
  <1>1. CASE \E m \in Maps : Push(m)
    BY <1>1, PushKeepsInv
  <1>2. CASE \E c \in 0..MaxCount : Resize(c)
    BY <1>2, GrowKeepsInv, ShrinkAfterKeepsInv, ShrinkBeforeKeepsInv DEF Resize
  <1>3. CASE UNCHANGED ring
    BY <1>3 DEF ring, RingInv, RingTypeOK, RingWellFormed
  <1> QED
    BY <1>1, <1>2, <1>3 DEF RingNext

(* The variables of the ring keep their types. *)
THEOREM RingTypeCorrect == RingSpec => []RingTypeOK
  <1>1. RingInv => RingTypeOK
    BY DEF RingInv
  <1> QED
    BY RingInvInit, RingInvStep, <1>1, PTL DEF RingSpec

(* No sequence of epochs and resizes leaves a hole in the ring. *)
THEOREM RingStaysWellFormed == RingSpec => []RingWellFormed
  <1>1. RingInv => RingWellFormed
    BY DEF RingInv
  <1> QED
    BY RingInvInit, RingInvStep, <1>1, PTL DEF RingSpec

-----------------------------------------------------------------------------
(* The ring implements the history. *)

(* Where a past map is stored: going back from the current slot to slot 0, *)
(* and from the last slot on.                                              *)
PastSlot(cur, n, diff) == IF diff <= cur THEN cur - diff ELSE cur - diff + n

LEMMA PastSlotIndex ==
    ASSUME NEW n \in Nat \ {0}, NEW cur \in -1..n - 1, NEW diff \in 0..n - 1
    PROVE  /\ (cur - diff + n) % n = PastSlot(cur, n, diff)
           /\ PastSlot(cur, n, diff) \in 0..n - 1
  <1> DEFINE a == cur - diff + n
  <1>1. a \in 0..2 * n - 1
    OBVIOUS
  <1> HIDE DEF a
  <1>2. a % n = IF a < n THEN a ELSE a - n
    BY <1>1, ModuloInRing
  <1>3. a % n = PastSlot(cur, n, diff)
    BY <1>2 DEF a, PastSlot
  <1> QED
    BY <1>3 DEF a, PastSlot

LEMMA PastMapNow ==
    ASSUME RingInv, NEW diff \in 0..count - 1
    PROVE  PastMaps[diff + 1] = Read(PastSlot(current, count, diff))
  <1>1. count \in Nat \ {0} /\ current \in -1..count - 1
    BY RingAssumption DEF RingInv, RingTypeOK, RingWellFormed
  <1>2. diff + 1 \in 1..count /\ (diff + 1) - 1 = diff
    BY <1>1
  <1>3. PastMaps[diff + 1] = Snapshot(diff)
    BY <1>2 DEF PastMaps
  <1>4. (current - diff + count) % count = PastSlot(current, count, diff)
    BY <1>1, PastSlotIndex
  <1> QED
    BY <1>3, <1>4 DEF Snapshot

LEMMA PastMapNext ==
    ASSUME NEW n \in Nat \ {0}, count' = n,
           NEW cur \in -1..n - 1, current' = cur,
           NEW diff \in 0..n - 1
    PROVE  PastMaps'[diff + 1] = Read(PastSlot(cur, n, diff))'
  <1>1. diff + 1 \in 1..n /\ (diff + 1) - 1 = diff
    OBVIOUS
  <1>2. PastMaps'[diff + 1] = Snapshot(diff)'
    BY <1>1 DEF PastMaps
  <1>3. Snapshot(diff)' = Read((cur - diff + n) % n)'
    BY DEF Snapshot
  <1> QED
    BY <1>2, <1>3, PastSlotIndex

LEMMA ReadType ==
    ASSUME RingInv, NEW k
    PROVE  Read(k) \in Maps
  BY RingAssumption DEF Read, RingInv, RingTypeOK

LEMMA PastMapsType ==
    ASSUME RingInv
    PROVE  /\ PastMaps \in Seq(Maps) /\ Len(PastMaps) = count
           /\ DOMAIN PastMaps = 1..count
  <1>1. \A i \in 1..count : PastMaps[i] \in Maps
    <2> TAKE i \in 1..count
    <2> QED
      BY ReadType DEF PastMaps, Snapshot
  <1>2. count \in Nat /\ DOMAIN PastMaps = 1..count
    BY RingAssumption DEF PastMaps, RingInv, RingTypeOK
  <1>3. PastMaps \in [1..count -> Maps]
    BY <1>1 DEF PastMaps
  <1> QED
    BY <1>2, <1>3

(* A new epoch puts its map before the others and forgets the last.        *)
LEMMA PushIsTick ==
    ASSUME RingInv, RingInv', NEW m \in Maps, Push(m)
    PROVE  History!Tick(m)
  <1>1. count' = count /\ count \in 1..MaxCount /\ current \in -1..count - 1
    BY PushSlot DEF Push, RingInv, RingTypeOK, RingWellFormed
  <1>2. ASSUME NEW diff \in 0..count - 1
        PROVE  PastMaps'[diff + 1] = IF diff = 0 THEN m ELSE PastMaps[diff]
    <2> PICK cur \in 0..count - 1 : current' = cur
      BY <1>1, PushSlot
    <2> DEFINE k == PastSlot(cur, count, diff)
    <2>1. PastMaps'[diff + 1] = IF k \notin Slots \/ slots'[k] = NoSnapshot
                                THEN EmptyMap ELSE slots'[k]
      BY <1>1, <1>2, PastMapNext DEF Read
    <2>2. CASE diff = 0
      <3>1. k = current' /\ slots'[k] = m
        BY <1>1, <2>2, PushSlot DEF PastSlot
      <3> QED
        BY <2>1, <2>2, <3>1, PushSlot, RingAssumption
    <2>3. CASE diff # 0
      <3>1. diff - 1 \in 0..count - 1 /\ (diff - 1) + 1 = diff
        BY <1>1, <2>3
      <3>2. PastMaps[diff] = Read(PastSlot(current, count, diff - 1))
        BY <3>1, PastMapNow
      <3>3. k = PastSlot(current, count, diff - 1) /\ k # current' /\ k \in 0..count - 1
        BY <1>1, <2>3, PushSlot DEF PastSlot
      <3>4. k \in Slots => slots'[k] = slots[k]
        BY <3>3, PushSlot
      <3> QED
        BY <2>1, <2>3, <3>2, <3>3, <3>4 DEF Read
    <2> QED
      BY <2>2, <2>3
  <1> DEFINE older == SubSeq(PastMaps, 1, Len(PastMaps) - 1)
  <1>3. PastMaps \in Seq(Maps) /\ Len(PastMaps) = count /\ PastMaps # <<>>
    BY <1>1, PastMapsType
  <1>4. /\ older \in Seq(Maps) /\ Len(older) = count - 1
        /\ \A i \in 1..count - 1 : older[i] = PastMaps[i]
    BY <1>1, <1>3
  <1> HIDE DEF older
  <1>5. /\ <<m>> \o older \in Seq(Maps) /\ Len(<<m>> \o older) = count
        /\ \A i \in 1..count : (<<m>> \o older)[i] = IF i = 1 THEN m ELSE older[i - 1]
    BY <1>1, <1>4
  <1>6. PastMaps' = [i \in 1..count |-> PastMaps'[i]]
    BY <1>1 DEF PastMaps
  <1>7. ASSUME NEW i \in 1..count
        PROVE  PastMaps'[i] = (<<m>> \o older)[i]
    <2>1. i - 1 \in 0..count - 1 /\ (i - 1) + 1 = i
      BY <1>1
    <2>2. PastMaps'[i] = IF i - 1 = 0 THEN m ELSE PastMaps[i - 1]
      BY <1>2, <2>1
    <2> QED
      BY <1>4, <1>5, <2>1, <2>2
  <1>8. PastMaps' = <<m>> \o older
    BY <1>5, <1>6, <1>7
  <1> QED
    BY <1>3, <1>8 DEF History!Tick, older
(* A resize leaves the younger maps, and fills up with empty ones. *)
LEMMA ResizeIsResize ==
    ASSUME RingInv, RingInv', NEW c \in 0..MaxCount, Resize(c)
    PROVE  History!Resize(c)
  <1>1. /\ count' = c /\ c # count
        /\ current \in -1..count - 1 /\ current' \in -1..c - 1
        /\ count \in 0..MaxCount /\ c \in 0..MaxCount
    BY RingAssumption DEF Resize, Grow, ShrinkAfter, ShrinkBefore, RingInv, RingTypeOK, RingWellFormed
  <1>2. ASSUME NEW diff \in Nat, diff < c
        PROVE  PastMaps'[diff + 1] = IF diff < count THEN PastMaps[diff + 1] ELSE EmptyMap
    <2> PICK cur \in -1..c - 1 : current' = cur
      BY <1>1
    <2> DEFINE new == PastSlot(cur, c, diff)
               old == PastSlot(current, count, diff)
    <2>0. c \in Nat \ {0} /\ diff \in 0..c - 1
      BY <1>1, <1>2
    <2>1. PastMaps'[diff + 1] = IF new \notin Slots \/ slots'[new] = NoSnapshot
                                THEN EmptyMap ELSE slots'[new]
      BY <1>1, <2>0, PastMapNext DEF Read
    <2>2. diff < count => PastMaps[diff + 1] = IF old \notin Slots \/ slots[old] = NoSnapshot
                                               THEN EmptyMap ELSE slots[old]
      BY <1>1, PastMapNow DEF Read
    <2>3. new \in 0..c - 1 /\ new \in Slots
      <3>1. c \in Nat \ {0} /\ diff \in 0..c - 1 /\ c <= MaxCount
        BY <1>1, <1>2, RingAssumption
      <3>2. new \in 0..c - 1
        BY <1>1, <3>1, PastSlotIndex
      <3> QED
        BY <3>1, <3>2, RingAssumption DEF Slots
    <2>4. diff < count => old \in 0..count - 1 /\ old \in Slots
      BY <1>1, <1>2, RingAssumption DEF PastSlot, Slots
    <2>5. IF diff < count THEN slots'[new] = slots[old] ELSE slots'[new] = NoSnapshot
      <3>1. CASE Grow(c)
        BY <1>1, <1>2, <2>3, <2>4, <3>1, RingAssumption
           DEF Grow, PastSlot, RingInv, RingTypeOK, RingWellFormed
      <3>2. CASE ShrinkAfter(c)
        BY <1>1, <1>2, <2>3, <2>4, <3>2, RingAssumption
           DEF ShrinkAfter, PastSlot, RingInv, RingTypeOK, RingWellFormed
      <3>3. CASE ShrinkBefore(c)
        BY <1>1, <1>2, <2>3, <2>4, <3>3, RingAssumption
           DEF ShrinkBefore, PastSlot, RingInv, RingTypeOK, RingWellFormed
      <3> QED
        BY <3>1, <3>2, <3>3 DEF Resize
    <2> QED
      BY <2>1, <2>2, <2>3, <2>4, <2>5
  <1>3. PastMaps \in Seq(Maps) /\ Len(PastMaps) = count
    BY PastMapsType
  <1>4. PastMaps' = [i \in 1..c |-> PastMaps'[i]]
    BY <1>1 DEF PastMaps
  <1>5. ASSUME NEW i \in 1..c
        PROVE  PastMaps'[i] = IF i <= count THEN PastMaps[i] ELSE EmptyMap
    <2>1. i - 1 \in Nat /\ i - 1 < c /\ (i - 1) + 1 = i /\ (i - 1 < count <=> i <= count)
      BY <1>1
    <2> QED
      BY <1>2, <2>1
  <1> QED
    BY <1>1, <1>3, <1>4, <1>5 DEF History!Resize

LEMMA HistoryInit == RingInit => History!Init
  <1> SUFFICES ASSUME RingInit PROVE History!Init
    OBVIOUS
  <1>1. RingInv
    BY RingInvInit
  <1>2. \A i \in 1..DefaultCount : PastMaps[i] = EmptyMap
    <2> TAKE i \in 1..DefaultCount
    <2>1. i - 1 \in 0..count - 1 /\ (i - 1) + 1 = i
      BY RingAssumption DEF RingInit
    <2>2. PastMaps[i] = Read(PastSlot(current, count, i - 1))
      BY <1>1, <2>1, PastMapNow
    <2> QED
      BY <2>2, RingAssumption DEF RingInit, Read, PastSlot, Slots
  <1>3. PastMaps = [i \in 1..DefaultCount |-> PastMaps[i]]
    BY DEF PastMaps, RingInit
  <1> QED
    BY <1>2, <1>3 DEF History!Init

LEMMA HistoryStep ==
    ASSUME RingInv, RingInv', [RingNext]_ring
    PROVE  [History!Next]_PastMaps
  <1>1. CASE \E m \in Maps : Push(m)
    BY <1>1, PushIsTick DEF History!Next
  <1>2. CASE \E c \in 0..MaxCount : Resize(c)
    BY <1>2, ResizeIsResize DEF History!Next
  <1>3. CASE UNCHANGED ring
    BY <1>3 DEF ring, PastMaps, Snapshot, Read
  <1> QED
    BY <1>1, <1>2, <1>3 DEF RingNext

(* What Snapshot answers is the history of network maps: the slots that    *)
(* are reused and renumbered never mix up, lose or repeat a map.           *)
THEOREM RingImplementsHistory == RingSpec => RefinesHistory
  <1>1. RingInv /\ RingInv' /\ [RingNext]_ring => [History!Next]_PastMaps
    BY HistoryStep
  <1> QED
    BY RingInvInit, RingInvStep, HistoryInit, <1>1, PTL
       DEF RingSpec, RefinesHistory, History!Spec
=============================================================================

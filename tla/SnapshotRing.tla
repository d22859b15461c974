---------------------------- MODULE SnapshotRing ----------------------------
(***************************************************************************)
(* How the Netmap contract stores snapshots: in slots numbered from zero   *)
(* that are reused in a ring, and renumbered when the number of snapshots  *)
(* changes (netmap/netmap_contract.go, NewEpoch and UpdateSnapshotCount).  *)
(***************************************************************************)
EXTENDS Integers

CONSTANTS
    Maps,          \* network maps
    EmptyMap,      \* the map without nodes
    NoSnapshot,    \* what storage holds under a key that was never written
    DefaultCount,  \* DefaultSnapshotCount
    MaxCount       \* bound on the number of snapshots

ASSUME RingAssumption ==
    /\ EmptyMap \in Maps
    /\ NoSnapshot \notin Maps
    /\ MaxCount \in 1..255   \* the number of a slot is stored in a byte
    /\ DefaultCount \in 1..MaxCount

VARIABLES
    slots,    \* the snapshot stored under each number
    count,    \* snapshotCountKey
    current   \* snapshotCurrentIDKey

ring == <<slots, count, current>>

Slots == 0..MaxCount - 1

RingInit ==
    /\ slots = [k \in Slots |-> IF k < DefaultCount THEN EmptyMap ELSE NoSnapshot]
    /\ count = DefaultCount
    /\ current = 0

(* getSnapshot: a missing snapshot reads as the empty map. *)
Read(k) == IF k \notin Slots \/ slots[k] = NoSnapshot THEN EmptyMap ELSE slots[k]

SnapshotAhead(diff) == Read((current + diff) % count)

(* Snapshot(diff), for 0 <= diff < count. *)
Snapshot(diff) == Read((current - diff + count) % count)

(* Netmap(): the map of the current epoch. *)
CurrentMap == Read(current)

PushPastEnd(m) ==
    /\ count # 0
    /\ current' = current + 1
    /\ slots' = [k \in Slots |-> IF k = current' THEN m ELSE slots[k]]
    /\ UNCHANGED count

(* NewEpoch puts the new map into the next slot; with no slots the modulo  *)
(* faults.                                                                 *)
Push(m) ==
    /\ count # 0
    /\ current' = (current + 1) % count
    /\ slots' = [slots EXCEPT ![current'] = m]
    /\ UNCHANGED count

-----------------------------------------------------------------------------
(* UpdateSnapshotCount.  moveSnapshot cannot move a missing snapshot: it   *)
(* would put a null into the storage, and the transaction faults.          *)
Movable(from, to) == \A k \in from..to : slots[k] # NoSnapshot

(* The snapshots after the current slot move to the end of the ring.       *)
Grow(c) ==
    LET diff == c - count
        last == IF current + diff < count THEN current + diff ELSE count - 1
    IN  /\ c > count
        /\ Movable(current + 1, count - 1)
        /\ slots' = [k \in Slots |->
                       IF k \in current + 1 + diff .. c - 1 THEN slots[k - diff]
                       ELSE IF k \in current + 1 .. last THEN NoSnapshot
                       ELSE slots[k]]
        /\ count' = c
        /\ UNCHANGED current

ShrinkLeavingOld(c) ==
    LET step == count - c
    IN  /\ c < count /\ current < c
        /\ Movable(current + 1 + step, count - 1)
        /\ slots' = [k \in Slots |->
                       IF k \in current + 1 .. c - 1 THEN slots[k + step] ELSE slots[k]]
        /\ count' = c
        /\ UNCHANGED current
ShrinkUnmoved(c) ==
    /\ c < count /\ current < c
    /\ slots' = [k \in Slots |-> IF k \in c .. count - 1 THEN NoSnapshot ELSE slots[k]]
    /\ count' = c
    /\ UNCHANGED current

(* The current slot survives: the newest of the snapshots after it (those  *)
(* at the end of the ring) move down behind it.                            *)
ShrinkAfter(c) ==
    LET step == count - c
    IN  /\ c < count /\ current < c
        /\ Movable(current + 1 + step, count - 1)
        /\ slots' = [k \in Slots |->
                       IF k \in current + 1 .. c - 1 THEN slots[k + step]
                       ELSE IF k \in c .. count - 1 THEN NoSnapshot
                       ELSE slots[k]]
        /\ count' = c
        /\ UNCHANGED current

ShrinkOneBehind(c) ==
    LET step == current - c
    IN  /\ c < count /\ current >= c
        /\ Movable(step, current)
        /\ slots' = [k \in Slots |->
                       IF k \in 0 .. c - 1 THEN slots[k + step]
                       ELSE IF k \in c .. count - 1 THEN NoSnapshot
                       ELSE slots[k]]
        /\ count' = c
        /\ current' = c - 1

(* The current slot is cut off: the c snapshots up to it move to the start *)
(* of the ring.                                                            *)
ShrinkBefore(c) ==
    LET step == current - c + 1
    IN  /\ c < count /\ current >= c
        /\ Movable(step, current)
        /\ slots' = [k \in Slots |->
                       IF k \in 0 .. c - 1 THEN slots[k + step]
                       ELSE IF k \in c .. count - 1 THEN NoSnapshot
                       ELSE slots[k]]
        /\ count' = c
        /\ current' = c - 1

Resize(c) == Grow(c) \/ ShrinkAfter(c) \/ ShrinkBefore(c)

RingNext ==
    \/ \E m \in Maps : Push(m)
    \/ \E c \in 0..MaxCount : Resize(c)

RingSpec == RingInit /\ [][RingNext]_ring

-----------------------------------------------------------------------------
(* The ring lies within its slots, and stores only maps. *)
RingTypeOK ==
    /\ slots \in [Slots -> Maps \union {NoSnapshot}]
    /\ count \in 0..MaxCount
    /\ current \in -1..MaxCount - 1

(* The ring is well formed: the current slot is one of the ring, nothing   *)
(* is stored outside of it, and what is stored is contiguous behind the    *)
(* current slot, so that no resize leaves a hole between two snapshots.    *)
RingWellFormed ==
    /\ current < count
    /\ \A k \in Slots : k >= count => slots[k] = NoSnapshot
    /\ \A k \in Slots : k <= current => slots[k] # NoSnapshot
    /\ \A j, k \in Slots :
          current < j /\ j < k /\ k < count /\ slots[j] # NoSnapshot => slots[k] # NoSnapshot

(* The number of snapshots can be set to any other number at any time      *)
(* (lines 530-534): a smaller one removes old snapshots, a larger one      *)
(* extends the history with empty ones.                                    *)
EveryResizeIsPossible == \A c \in 1..MaxCount : c # count => ENABLED Resize(c)

(* Past network maps are what SnapshotHistory says, through every order of *)
(* epochs and resizes.                                                     *)
PastMaps == [i \in 1..count |-> Snapshot(i - 1)]

History == INSTANCE SnapshotHistory WITH history <- PastMaps

RefinesHistory == History!Spec
=============================================================================

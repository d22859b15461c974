--------------------------- MODULE SnapshotHistory ---------------------------
(***************************************************************************)
(* What the Netmap contract promises about past network maps: Snapshot(d)  *)
(* is the map that was current d epoch changes ago, for as many changes as *)
(* the snapshot count says.  A resize forgets the oldest maps or extends   *)
(* the history with empty ones, and changes nothing else.                  *)
(***************************************************************************)
EXTENDS Integers, Sequences

CONSTANTS
    Maps,          \* network maps
    EmptyMap,      \* the map without nodes
    DefaultCount,  \* snapshots kept after deployment (DefaultSnapshotCount)
    MaxCount       \* bound on the number of snapshots

VARIABLE history   \* the last maps, the current one first

Init == history = [i \in 1..DefaultCount |-> EmptyMap]

Tick(m) ==
    /\ history # <<>>
    /\ history' = <<m>> \o SubSeq(history, 1, Len(history) - 1)

Resize(c) ==
    /\ c # Len(history)
    /\ history' = [i \in 1..c |-> IF i <= Len(history) THEN history[i] ELSE EmptyMap]

Next ==
    \/ \E m \in Maps : Tick(m)
    \/ \E c \in 0..MaxCount : Resize(c)

Spec == Init /\ [][Next]_history
=============================================================================

----------------------------- MODULE MCStorage -----------------------------
(***************************************************************************)
(* The two structures that contracts keep under computed places of their   *)
(* storage, one at a time: the list of ballots and the ring of snapshots.  *)
(***************************************************************************)
EXTENDS VoteList, SnapshotRing, FiniteSets

CONSTANTS n1, n2, n3

VARIABLE structure   \* the one that this behaviour is about

(* The committee shrinks to two: both the quorum and the threshold change. *)
ShrinkingCommittees == {{n1, n2, n3}, {n1, n2}}

StorageInit ==
    /\ structure \in {"ballots", "snapshots"}
    /\ Init
    /\ RingInit

StorageNext ==
    /\ \/ structure = "ballots" /\ Next /\ UNCHANGED ring
       \/ structure = "snapshots" /\ RingNext /\ UNCHANGED listVars
    /\ UNCHANGED structure

StorageSpec == StorageInit /\ [][StorageNext]_<<structure, listVars, ring>>
=============================================================================

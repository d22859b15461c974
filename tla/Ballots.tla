------------------------------ MODULE Ballots ------------------------------
(***************************************************************************)
(* The votes that a FrostFS contract collects when it is deployed without  *)
(* notary support (common/vote.go).  Every alphabet node sends its own     *)
(* transaction; the contract stores a ballot per decision and performs the *)
(* decision inside the transaction whose vote reaches the threshold.       *)
(*                                                                         *)
(* A ballot box is a function from decision ids to ballots.  The stored    *)
(* list has at most one ballot with a given id (module VoteList checks     *)
(* this on the list itself), and a ballot without voters stands for an id  *)
(* that the list does not hold.                                            *)
(***************************************************************************)
EXTENDS Integers, FiniteSets

CONSTANT BlockDiff   \* blocks a ballot outlives its last vote by (20 in the code)

ASSUME BlockDiffAssumption == BlockDiff \in Nat

NoBallot == [voters |-> {}, height |-> 0]

(* len(alphabet)*2/3 + 1: the votes, or multisignature keys, a decision needs *)
Threshold(alphabet) == (Cardinality(alphabet) * 2) \div 3 + 1

ExpiredLate(ballot, now) == now - ballot.height > BlockDiff + 1

(* A ballot whose last vote is too many blocks old is skipped and dropped. *)
Expired(ballot, now) == now - ballot.height > BlockDiff

Prune(box, now) ==
    [i \in DOMAIN box |-> IF Expired(box[i], now) THEN NoBallot ELSE box[i]]

HasVoted(box, id, node, now) == node \in Prune(box, now)[id].voters

(* The voters that the call of Vote counts, the calling node included. *)
VotersWith(box, id, node, now) == Prune(box, now)[id].voters \union {node}

(* What Vote returns. *)
VoteCount(box, id, node, now) == Cardinality(VotersWith(box, id, node, now))

VoteKeepingHeight(box, id, node, now) ==
    IF HasVoted(box, id, node, now)
    THEN box
    ELSE [Prune(box, now) EXCEPT
            ![id] = [voters |-> VotersWith(box, id, node, now),
                     height |-> IF box[id].voters = {} THEN now ELSE box[id].height]]

(* What Vote stores.  A repeated vote returns before anything is stored:   *)
(* neither the height of the ballot nor the expired ballots change.        *)
Vote(box, id, node, now) ==
    IF HasVoted(box, id, node, now)
    THEN box
    ELSE [Prune(box, now) EXCEPT
            ![id] = [voters |-> VotersWith(box, id, node, now), height |-> now]]

RemoveNothing(box, id) == box

RemoveVotes(box, id) == [box EXCEPT ![id] = NoBallot]
============================================================================

------------------------------- MODULE Voting -------------------------------
(***************************************************************************)
(* The lines that open every method of the contracts that only the         *)
(* alphabet may call.  Without notary support (NotaryDisabled) each        *)
(* alphabet node sends its own transaction and the contract collects votes *)
(* in its storage; with it one transaction carries the multisignature.     *)
(*                                                                         *)
(* A transaction runs alone and a panic reverts it, so an invocation is    *)
(* one step: it stores a vote and returns, or decides and runs the body of *)
(* the method, or would decide but the body panics and all is reverted.    *)
(***************************************************************************)
EXTENDS Ballots

CONSTANTS
    Alphabet,        \* keys of the alphabet nodes
    NotaryDisabled,  \* as given to _deploy
    MaxHeight        \* bound on the block height

ASSUME VotingAssumption ==
    /\ IsFiniteSet(Alphabet) /\ Alphabet # {}
    /\ NotaryDisabled \in BOOLEAN
    /\ MaxHeight \in Nat

VARIABLES
    box,     \* the ballots that the contract stores
    height,  \* index of the current block
    called   \* history: who has voted for each decision since it was last made

voting == <<box, height, called>>

Multisignature == "multisignature"

(* Who may send the invocations of the alphabet. *)
Invokers == IF NotaryDisabled THEN Alphabet ELSE {Multisignature}

VotingInit(ids) ==
    /\ box = [i \in ids |-> NoBallot]
    /\ height = 0
    /\ called = {}

PendingUntilOneLess(n, id) ==
    NotaryDisabled /\ VoteCount(box, id, n, height) + 1 < Threshold(Alphabet)

(* Votes are being collected and with this one there are too few of them. *)
Pending(n, id) ==
    NotaryDisabled /\ VoteCount(box, id, n, height) < Threshold(Alphabet)

(* The invocation ends after its vote is stored. *)
OnlyVotes(n, id) ==
    /\ Pending(n, id)
    /\ box' = Vote(box, id, n, height)
    /\ called' = called \union {<<n, id>>}
    /\ UNCHANGED height

(* The invocation goes on to the body of the method. *)
Decides(n, id) ==
    /\ ~Pending(n, id)
    /\ box' = IF NotaryDisabled THEN RemoveVotes(Vote(box, id, n, height), id) ELSE box
    /\ called' = {c \in called : c[2] # id}
    /\ UNCHANGED height

(* The body panics and the transaction is reverted, its vote included. *)
Reverts(n, id) ==
    /\ ~Pending(n, id)
    /\ UNCHANGED voting

(* The chain adds a block. *)
NextBlock ==
    /\ height < MaxHeight
    /\ height' = height + 1
    /\ UNCHANGED <<box, called>>

-----------------------------------------------------------------------------
VotingTypeOK(ids) ==
    /\ box \in [ids -> [voters : SUBSET Alphabet, height : Nat]]
    /\ height \in 0..MaxHeight
    /\ called \subseteq Invokers \X ids

(* Enough invokers are among those who have asked for a decision. *)
Approved(asked, id) ==
    Cardinality({n \in Invokers : <<n, id>> \in asked})
      >= IF NotaryDisabled THEN Threshold(Alphabet) ELSE 1

(* The decision is asked for by this invoker and enough others, all since  *)
(* it was last made.                                                       *)
Quorate(id) == \E n \in Invokers : Approved(called \union {<<n, id>>}, id)
=============================================================================

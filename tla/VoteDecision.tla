---------------------------- MODULE VoteDecision ----------------------------
(***************************************************************************)
(* How a contract method of the notary-disabled deployment decides.  Every *)
(* such method starts with the same lines (balance.Lock is the model of    *)
(* them): the invoker must be an alphabet node, its vote is added to the   *)
(* ballot of the decision, and below the threshold the method returns; at  *)
(* the threshold the ballot is removed and the body of the method runs in  *)
(* the same transaction.  A body that panics reverts the transaction, the  *)
(* vote included.                                                          *)
(*                                                                         *)
(* The committee changes while votes are being collected: neo.GetCommittee *)
(* is read anew by every call.                                             *)
(***************************************************************************)
EXTENDS Ballots

CONSTANTS
    Nodes,       \* public keys that are ever in the committee
    Committees,  \* the committees that neo.GetCommittee returns in this run
    Decisions,   \* ids of decisions
    MaxHeight,   \* bound on the block height
    MaxRounds    \* bound on how often the body of one decision runs

ASSUME CommitteesAssumption ==
    /\ IsFiniteSet(Nodes)
    /\ Committees \subseteq (SUBSET Nodes) \ {{}}
ASSUME VoteConstantsAssumption ==
    /\ MaxHeight \in Nat
    /\ MaxRounds \in Nat

VARIABLES
    alphabet,  \* the current committee
    height,    \* index of the current block
    box,       \* the stored ballots
    accepted,  \* history: how many times the body of each decision has run
    asks,      \* history: for each decision and node, the round its last
               \* stored vote was meant for, and the height of that vote
    called,    \* history: who has invoked each decision
    repeated,  \* history: the decisions that some node has invoked more than once
    quorum     \* history: the voters counted when each decision was last accepted

vars == <<alphabet, height, box, accepted, asks, called, repeated, quorum>>

-----------------------------------------------------------------------------
NeverAsked == [round |-> 0, at |-> 0]

Init ==
    /\ alphabet \in Committees
    /\ height = 0
    /\ box = [d \in Decisions |-> NoBallot]
    /\ accepted = [d \in Decisions |-> 0]
    /\ asks = [d \in Decisions |-> [n \in Nodes |-> NeverAsked]]
    /\ called = [d \in Decisions |-> {}]
    /\ repeated = {}
    /\ quorum = [d \in Decisions |-> {}]

(* A round of a decision ends when the decision is accepted. *)
Round(d) == accepted[d] + 1

(* The invoker is an alphabet node: InnerRingInvoker finds its key. *)
MayInvoke(n, d) ==
    /\ n \in alphabet
    /\ accepted[d] < MaxRounds

ReachedStrictly(n, d) == VoteCount(box, d, n, height) > Threshold(alphabet)

Reached(n, d) == VoteCount(box, d, n, height) >= Threshold(alphabet)

(* A node that invokes a decision again, after a fault or any other call.  *)
RecordCall(n, d) ==
    /\ called' = [called EXCEPT ![d] = @ \union {n}]
    /\ repeated' = IF n \in called[d] THEN repeated \union {d} ELSE repeated

RecordAsk(n, d) ==
    /\ RecordCall(n, d)
    /\ asks' = IF HasVoted(box, d, n, height)
               THEN asks
               ELSE [asks EXCEPT ![d][n] = [round |-> Round(d), at |-> height]]

(* The vote is stored and the method returns without running its body. *)
Collect(n, d) ==
    /\ MayInvoke(n, d)
    /\ ~Reached(n, d)
    /\ box' = Vote(box, d, n, height)
    /\ RecordAsk(n, d)
    /\ UNCHANGED <<alphabet, height, accepted, quorum>>

(* The vote reaches the threshold and the body runs. *)
Accept(n, d) ==
    /\ MayInvoke(n, d)
    /\ Reached(n, d)
    /\ box' = RemoveVotes(Vote(box, d, n, height), d)
    /\ RecordAsk(n, d)
    /\ accepted' = [accepted EXCEPT ![d] = @ + 1]
    /\ quorum' = [quorum EXCEPT ![d] = VotersWith(box, d, n, height)]
    /\ UNCHANGED <<alphabet, height>>

(* The vote reaches the threshold and the body panics: all is reverted. *)
Fault(n, d) ==
    /\ MayInvoke(n, d)
    /\ Reached(n, d)
    /\ RecordCall(n, d)
    /\ UNCHANGED <<alphabet, height, box, accepted, asks, quorum>>

NewBlock ==
    /\ height < MaxHeight
    /\ height' = height + 1
    /\ UNCHANGED <<alphabet, box, accepted, asks, called, repeated, quorum>>

Elect(committee) ==
    /\ committee # alphabet
    /\ alphabet' = committee
    /\ UNCHANGED <<height, box, accepted, asks, called, repeated, quorum>>

Next ==
    \/ \E n \in Nodes, d \in Decisions : Collect(n, d) \/ Accept(n, d) \/ Fault(n, d)
    \/ NewBlock
    \/ \E committee \in Committees : Elect(committee)

Spec == Init /\ [][Next]_vars

(* Nodes keep invoking a decision until it is made, and a body that can    *)
(* run does not panic forever.                                             *)
Fairness ==
    \A d \in Decisions :
       /\ \A n \in Nodes : WF_vars(Collect(n, d))
       /\ WF_vars(\E n \in Nodes : Accept(n, d))

FairSpec == Spec /\ Fairness

-----------------------------------------------------------------------------
(* The members that any of the committees has. *)
Members == UNION Committees

(* Every variable stays in its domain, and nobody but members has a say.   *)
TypeOK ==
    /\ alphabet \in Committees
    /\ height \in Nat
    /\ box \in [Decisions -> [voters : SUBSET Nodes, height : Nat]]
    /\ accepted \in [Decisions -> Nat]
    /\ asks \in [Decisions -> [Nodes -> [round : Nat, at : Nat]]]
    /\ called \in [Decisions -> SUBSET Members]
    /\ repeated \subseteq Decisions
    /\ quorum \in [Decisions -> SUBSET Nodes]

(* Any two quorums of the elected committees must share a member. *)
QuorumsIntersect ==
    \A a, b \in Committees : Threshold(a) + Threshold(b) > Cardinality(Members)

(* If the quorums intersect, the body of a decision that no node invokes   *)
(* twice runs at most once, although RemoveVotes forgets who voted and a   *)
(* late vote opens a new ballot: what keeps deposits from being minted     *)
(* twice.                                                                  *)
AtMostOnce == \A d \in Decisions \ repeated : accepted[d] <= 1

(* An acceptance in this step counts only votes cast since the last one.   *)
FreshAcceptance(d) ==
    accepted'[d] # accepted[d] =>
      /\ Cardinality(quorum'[d]) >= Threshold(alphabet)
      /\ \A n \in quorum'[d] : asks'[d][n].round = accepted'[d]

(* Votes are never used twice: whenever the body of a decision runs, at    *)
(* least a threshold of distinct nodes have voted for it since it last     *)
(* ran, even when nodes repeat their invocations.                          *)
FreshQuorum == [][\A d \in Decisions : FreshAcceptance(d)]_vars

(* A ballot forgets nothing but expires: the votes of an accepted quorum   *)
(* form a chain in which each vote is followed by another one, or by the   *)
(* accepting call, within BlockDiff blocks.                                *)
NoSilentGap ==
    [][\A d \in Decisions :
         accepted'[d] # accepted[d] =>
           \A n \in quorum'[d] :
              \/ height - asks'[d][n].at <= BlockDiff
              \/ \E m \in quorum'[d] :
                   /\ asks'[d][m].at > asks'[d][n].at
                   /\ asks'[d][m].at - asks'[d][n].at <= BlockDiff]_vars

(* A decision never waits once it has enough votes: while all committees   *)
(* have one size, no ballot that still counts holds a threshold of them.   *)
NeverOverdue ==
    \A d \in Decisions :
       Cardinality(Prune(box, height)[d].voters) < Threshold(alphabet)

(* Retries succeed: a vote that has expired, or was cast for an earlier    *)
(* round, can be cast again, so that a decision is made again and again    *)
(* while a quorum stays in the committee and keeps asking for it, however  *)
(* many ballots expire before the quorum is fast enough.                   *)
RetriesSucceed ==
    \A d \in Decisions, r \in 0..MaxRounds - 1 : accepted[d] = r ~> accepted[d] > r
=============================================================================

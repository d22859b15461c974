------------------------ MODULE VoteDecision_proofs ------------------------
(***************************************************************************)
(* What VoteDecision guarantees for every set of nodes, every sequence of  *)
(* committees, every block window and every interleaving of votes.         *)
(***************************************************************************)
EXTENDS VoteDecision, FiniteSetTheorems, TLAPS

-----------------------------------------------------------------------------
(* What the operations on a ballot box return. *)

LEMMA PruneVoters ==
    ASSUME NEW b \in [Decisions -> [voters : SUBSET Nodes, height : Nat]],
           NEW now \in Nat, NEW d \in Decisions
    PROVE  /\ Prune(b, now) \in [Decisions -> [voters : SUBSET Nodes, height : Nat]]
           /\ Prune(b, now)[d].voters \subseteq b[d].voters
  BY BlockDiffAssumption DEF Prune, NoBallot, Expired

LEMMA VoteType ==
    ASSUME NEW b \in [Decisions -> [voters : SUBSET Nodes, height : Nat]],
           NEW now \in Nat, NEW d \in Decisions, NEW n \in Nodes
    PROVE  /\ Vote(b, d, n, now) \in [Decisions -> [voters : SUBSET Nodes, height : Nat]]
           /\ RemoveVotes(Vote(b, d, n, now), d)
                \in [Decisions -> [voters : SUBSET Nodes, height : Nat]]
           /\ VotersWith(b, d, n, now) \in SUBSET Nodes
  BY PruneVoters DEF Vote, RemoveVotes, VotersWith, HasVoted, NoBallot

(* Voting for d leaves no ballot with a voter that it had not, but n in d. *)
LEMMA VoteVoters ==
    ASSUME NEW b \in [Decisions -> [voters : SUBSET Nodes, height : Nat]],
           NEW now \in Nat, NEW d \in Decisions, NEW n \in Nodes, NEW e \in Decisions
    PROVE  /\ e # d => Vote(b, d, n, now)[e].voters \subseteq b[e].voters
           /\ Vote(b, d, n, now)[d].voters \subseteq b[d].voters \union {n}
           /\ VotersWith(b, d, n, now) \subseteq b[d].voters \union {n}
           /\ RemoveVotes(Vote(b, d, n, now), d)[d].voters = {}
           /\ e # d => RemoveVotes(Vote(b, d, n, now), d)[e].voters \subseteq b[e].voters
  <1>1. /\ Prune(b, now)[d].voters \subseteq b[d].voters
        /\ Prune(b, now)[e].voters \subseteq b[e].voters
        /\ Prune(b, now) \in [Decisions -> [voters : SUBSET Nodes, height : Nat]]
    BY PruneVoters
  <1>2. Vote(b, d, n, now) \in [Decisions -> [voters : SUBSET Nodes, height : Nat]]
    BY VoteType
  <1> QED
    BY <1>1, <1>2 DEF Vote, RemoveVotes, VotersWith, HasVoted, NoBallot

-----------------------------------------------------------------------------
(* Type correctness: no operation leaves the domains of the variables. *)

LEMMA TypeInit == Init => TypeOK
  BY DEF Init, TypeOK, NoBallot, NeverAsked

LEMMA AskType ==
    ASSUME TypeOK, NEW n \in Nodes, NEW d \in Decisions,
           MayInvoke(n, d), RecordAsk(n, d)
    PROVE  /\ called' \in [Decisions -> SUBSET Members]
           /\ repeated' \subseteq Decisions
           /\ asks' \in [Decisions -> [Nodes -> [round : Nat, at : Nat]]]
  <1>1. n \in Members
    BY DEF MayInvoke, Members, TypeOK
  <1> QED
    BY <1>1 DEF TypeOK, RecordAsk, RecordCall, Round

LEMMA TypeStep == TypeOK /\ [Next]_vars => TypeOK'
  <1> SUFFICES ASSUME TypeOK, [Next]_vars PROVE TypeOK'
    OBVIOUS
  <1>1. CASE \E n \in Nodes, d \in Decisions : Collect(n, d)
    <2> PICK n \in Nodes, d \in Decisions : Collect(n, d)
      BY <1>1
    <2>1. box' \in [Decisions -> [voters : SUBSET Nodes, height : Nat]]
      BY VoteType DEF Collect, TypeOK
    <2>2. /\ called' \in [Decisions -> SUBSET Members]
          /\ repeated' \subseteq Decisions
          /\ asks' \in [Decisions -> [Nodes -> [round : Nat, at : Nat]]]
      BY AskType DEF Collect
    <2> QED
      BY <2>1, <2>2 DEF Collect, TypeOK
  <1>2. CASE \E n \in Nodes, d \in Decisions : Accept(n, d)
    <2> PICK n \in Nodes, d \in Decisions : Accept(n, d)
      BY <1>2
    <2>1. /\ box' \in [Decisions -> [voters : SUBSET Nodes, height : Nat]]
          /\ VotersWith(box, d, n, height) \in SUBSET Nodes
      BY VoteType DEF Accept, TypeOK
    <2>2. /\ called' \in [Decisions -> SUBSET Members]
          /\ repeated' \subseteq Decisions
          /\ asks' \in [Decisions -> [Nodes -> [round : Nat, at : Nat]]]
      BY AskType DEF Accept
    <2>3. /\ accepted' \in [Decisions -> Nat]
          /\ quorum' \in [Decisions -> SUBSET Nodes]
      BY <2>1 DEF Accept, TypeOK
    <2> QED
      BY <2>1, <2>2, <2>3 DEF Accept, TypeOK
  <1>3. CASE \E n \in Nodes, d \in Decisions : Fault(n, d)
    BY <1>3 DEF Fault, RecordCall, MayInvoke, Members, TypeOK
  <1>4. CASE NewBlock
    BY <1>4 DEF NewBlock, TypeOK
  <1>5. CASE \E committee \in Committees : Elect(committee)
    BY <1>5 DEF Elect, TypeOK
  <1>6. CASE UNCHANGED vars
    BY <1>6 DEF vars, TypeOK
  <1> QED
    BY <1>1, <1>2, <1>3, <1>4, <1>5, <1>6 DEF Next

(* Every variable of the voting protocol keeps its type. *)
THEOREM TypeCorrect == Spec => []TypeOK
  BY TypeInit, TypeStep, PTL DEF Spec

-----------------------------------------------------------------------------
(* Decisions that nobody invokes twice run at most once.  AtMostOnce is    *)
(* not inductive: that a second quorum cannot form follows from the voters *)
(* of the open ballot and of the accepted quorum being disjoint sets of    *)
(* members that have spent their only invocation.                          *)
OnceInv ==
    \A d \in Decisions \ repeated :
       /\ box[d].voters \subseteq called[d]
       /\ quorum[d] \subseteq called[d]
       /\ called[d] \subseteq Members
       /\ box[d].voters \intersect quorum[d] = {}
       /\ accepted[d] = 0 => quorum[d] = {}
       /\ accepted[d] # 0 =>
            /\ accepted[d] = 1
            /\ \E c \in Committees : Cardinality(quorum[d]) >= Threshold(c)

LEMMA ThresholdType ==
    ASSUME NEW c \in Committees
    PROVE  Threshold(c) \in Nat
  <1>1. IsFiniteSet(c)
    BY CommitteesAssumption, FS_Subset
  <1>2. Cardinality(c) \in Nat
    BY <1>1, FS_CardinalityType
  <1> QED
    BY <1>2 DEF Threshold

(* Two disjoint sets of members cannot both reach a threshold. *)
LEMMA DisjointQuorums ==
    ASSUME QuorumsIntersect,
           NEW S \in SUBSET Members, NEW T \in SUBSET Members,
           S \intersect T = {},
           NEW a \in Committees, NEW b \in Committees,
           Cardinality(S) >= Threshold(a), Cardinality(T) >= Threshold(b)
    PROVE  FALSE
  <1>1. Members \subseteq Nodes
    BY CommitteesAssumption DEF Members
  <1>2. IsFiniteSet(Members)
    BY <1>1, CommitteesAssumption, FS_Subset
  <1>3. /\ IsFiniteSet(S) /\ IsFiniteSet(T) /\ IsFiniteSet(S \union T)
        /\ Cardinality(S \union T) <= Cardinality(Members)
    BY <1>2, FS_Subset
  <1>4. Cardinality(S \intersect T) = 0
    BY FS_EmptySet
  <1>5. Cardinality(S \union T) = Cardinality(S) + Cardinality(T) - Cardinality(S \intersect T)
    BY <1>3, FS_Union
  <1>6. /\ Cardinality(S) \in Nat /\ Cardinality(T) \in Nat
        /\ Cardinality(S \union T) \in Nat /\ Cardinality(Members) \in Nat
    BY <1>2, <1>3, FS_CardinalityType
  <1>7. Threshold(a) + Threshold(b) > Cardinality(Members)
    BY DEF QuorumsIntersect
  <1> QED
    BY <1>3, <1>4, <1>5, <1>6, <1>7, ThresholdType

LEMMA OnceInit == Init => OnceInv
  BY DEF Init, OnceInv, NoBallot

LEMMA OnceStep ==
    ASSUME QuorumsIntersect, TypeOK, OnceInv, [Next]_vars
    PROVE  OnceInv'
  <1>0. repeated \subseteq repeated'
    BY DEF Next, Collect, Accept, Fault, RecordAsk, RecordCall, NewBlock, Elect, vars
  <1>1. ASSUME NEW n \in Nodes, NEW d \in Decisions, Collect(n, d)
        PROVE  OnceInv'
    <2>1. n \in Members
      BY <1>1 DEF Collect, MayInvoke, Members, TypeOK
    <2>2. \A e \in Decisions :
             /\ e # d => box'[e].voters \subseteq box[e].voters
             /\ box'[d].voters \subseteq box[d].voters \union {n}
      BY <1>1, VoteVoters DEF Collect, TypeOK
    <2>3. /\ called' = [called EXCEPT ![d] = @ \union {n}]
          /\ d \notin repeated' => n \notin called[d]
      BY <1>1 DEF Collect, RecordAsk, RecordCall
    <2> QED
      BY <1>0, <1>1, <2>1, <2>2, <2>3 DEF Collect, OnceInv, TypeOK
  <1>2. ASSUME NEW n \in Nodes, NEW d \in Decisions, Accept(n, d)
        PROVE  OnceInv'
    <2> DEFINE Q == VotersWith(box, d, n, height)
    <2>1. n \in Members /\ alphabet \in Committees
      BY <1>2 DEF Accept, MayInvoke, Members, TypeOK
    <2>2. /\ Q \subseteq box[d].voters \union {n}
          /\ box'[d].voters = {}
          /\ \A e \in Decisions : e # d => box'[e].voters \subseteq box[e].voters
      BY <1>2, VoteVoters DEF Accept, TypeOK
    <2>3. Cardinality(Q) >= Threshold(alphabet)
      BY <1>2 DEF Accept, Reached, VoteCount
    <2>6. /\ called' = [called EXCEPT ![d] = @ \union {n}]
          /\ d \notin repeated' => n \notin called[d]
      BY <1>2 DEF Accept, RecordAsk, RecordCall
    <2>4. d \notin repeated' => Q \subseteq Members /\ Q \intersect quorum[d] = {}
      BY <1>0, <2>1, <2>2, <2>6 DEF OnceInv
    <2>5. d \notin repeated' => accepted[d] = 0
      <3> SUFFICES ASSUME d \notin repeated', accepted[d] # 0 PROVE FALSE
        OBVIOUS
      <3>1. PICK c \in Committees : Cardinality(quorum[d]) >= Threshold(c)
        BY <1>0 DEF OnceInv
      <3>2. quorum[d] \subseteq Members
        BY <1>0 DEF OnceInv
      <3> QED
        BY <2>1, <2>3, <2>4, <3>1, <3>2, DisjointQuorums
    <2>7. /\ accepted' = [accepted EXCEPT ![d] = @ + 1]
          /\ quorum' = [quorum EXCEPT ![d] = Q]
      BY <1>2 DEF Accept
    <2> SUFFICES ASSUME NEW e \in Decisions \ repeated'
                 PROVE  /\ box'[e].voters \subseteq called'[e]
                        /\ quorum'[e] \subseteq called'[e]
                        /\ called'[e] \subseteq Members
                        /\ box'[e].voters \intersect quorum'[e] = {}
                        /\ accepted'[e] = 0 => quorum'[e] = {}
                        /\ accepted'[e] # 0 =>
                             /\ accepted'[e] = 1
                             /\ \E c \in Committees : Cardinality(quorum'[e]) >= Threshold(c)
      BY DEF OnceInv
    <2>8. CASE e = d
      <3> HIDE DEF Q
      <3>1. /\ accepted'[d] = 1 /\ quorum'[d] = Q
            /\ called'[d] = called[d] \union {n} /\ box'[d].voters = {}
        BY <2>2, <2>5, <2>6, <2>7, <2>8 DEF TypeOK
      <3> QED
        BY <1>0, <2>1, <2>2, <2>3, <2>4, <2>8, <3>1 DEF OnceInv
    <2>9. CASE e # d
      <3>1. /\ accepted'[e] = accepted[e] /\ quorum'[e] = quorum[e]
            /\ called'[e] = called[e]
        BY <2>6, <2>7, <2>9 DEF TypeOK
      <3> QED
        BY <1>0, <2>2, <2>9, <3>1 DEF OnceInv
    <2> QED
      BY <2>8, <2>9
  <1>3. ASSUME NEW n \in Nodes, NEW d \in Decisions, Fault(n, d)
        PROVE  OnceInv'
    <2>1. n \in Members
      BY <1>3 DEF Fault, MayInvoke, Members, TypeOK
    <2> QED
      BY <1>0, <1>3, <2>1 DEF Fault, RecordCall, OnceInv, TypeOK
  <1>4. CASE NewBlock
    BY <1>4 DEF NewBlock, OnceInv
  <1>5. CASE \E committee \in Committees : Elect(committee)
    BY <1>5 DEF Elect, OnceInv
  <1>6. CASE UNCHANGED vars
    BY <1>6 DEF vars, OnceInv
  <1> QED
    BY <1>1, <1>2, <1>3, <1>4, <1>5, <1>6 DEF Next

(* The body of a decision that no node invokes twice runs at most once,    *)
(* for every set of committees of which any two quorums share a member.    *)
THEOREM DecidedAtMostOnce ==
    ASSUME QuorumsIntersect
    PROVE  Spec => []AtMostOnce
  <1>1. TypeOK /\ OnceInv /\ [Next]_vars => (TypeOK /\ OnceInv)'
    BY TypeStep, OnceStep
  <1>2. TypeOK /\ OnceInv => AtMostOnce
    BY DEF TypeOK, OnceInv, AtMostOnce
  <1> QED
    BY TypeInit, OnceInit, <1>1, <1>2, PTL DEF Spec

(* One committee for ever is such a set: two thirds plus one is more than  *)
(* half of it.                                                             *)
THEOREM OneCommitteeIntersects ==
    ASSUME NEW A, Committees = {A}
    PROVE  QuorumsIntersect
  <1>1. Members = A
    BY DEF Members
  <1>2. IsFiniteSet(A)
    BY CommitteesAssumption, FS_Subset
  <1>3. Cardinality(A) \in Nat
    BY <1>2, FS_CardinalityType
  <1>4. \A k \in Nat : 2 * ((k * 2) \div 3 + 1) > k
    OBVIOUS
  <1> QED
    BY <1>1, <1>3, <1>4 DEF QuorumsIntersect, Threshold

-----------------------------------------------------------------------------
(* No vote is used for two acceptances, retries or not: the voters of an   *)
(* open ballot have all voted in the current round of its decision.        *)
RoundInv ==
    \A d \in Decisions : \A m \in box[d].voters : asks[d][m].round = Round(d)

LEMMA RoundInit == Init => RoundInv
  BY DEF Init, RoundInv, NoBallot

LEMMA RoundStep ==
    ASSUME TypeOK, RoundInv, [Next]_vars
    PROVE  RoundInv'
  <1>1. ASSUME NEW n \in Nodes, NEW d \in Decisions, Collect(n, d)
        PROVE  RoundInv'
    <2>1. \A e \in Decisions : e # d => box'[e].voters \subseteq box[e].voters
      BY <1>1, VoteVoters DEF Collect, TypeOK
    <2>2. box'[d].voters \subseteq box[d].voters \union {n}
      BY <1>1, VoteVoters DEF Collect, TypeOK
    <2>3. CASE HasVoted(box, d, n, height)
      BY <1>1, <2>3 DEF Collect, RecordAsk, RoundInv, Round, Vote
    <2>4. CASE ~HasVoted(box, d, n, height)
      <3>1. asks' = [asks EXCEPT ![d][n] = [round |-> Round(d), at |-> height]]
        BY <1>1, <2>4 DEF Collect, RecordAsk
      <3>2. accepted' = accepted
        BY <1>1 DEF Collect
      <3>3. \A e \in Decisions, m \in Nodes :
               asks'[e][m] = IF e = d /\ m = n
                             THEN [round |-> Round(d), at |-> height]
                             ELSE asks[e][m]
        BY <3>1 DEF TypeOK
      <3>4. \A e \in Decisions : box[e].voters \subseteq Nodes
        BY DEF TypeOK
      <3> QED
        BY <2>1, <2>2, <3>2, <3>3, <3>4 DEF RoundInv, Round
    <2> QED
      BY <2>3, <2>4
  <1>2. ASSUME NEW n \in Nodes, NEW d \in Decisions, Accept(n, d)
        PROVE  RoundInv'
    <2>1. /\ box'[d].voters = {}
          /\ \A e \in Decisions : e # d => box'[e].voters \subseteq box[e].voters
      BY <1>2, VoteVoters DEF Accept, TypeOK
    <2>2. \A e \in Decisions : e # d => asks'[e] = asks[e] /\ accepted'[e] = accepted[e]
      BY <1>2 DEF Accept, RecordAsk, TypeOK
    <2> QED
      BY <2>1, <2>2 DEF RoundInv, Round
  <1>3. ASSUME NEW n \in Nodes, NEW d \in Decisions, Fault(n, d)
        PROVE  RoundInv'
    BY <1>3 DEF Fault, RoundInv, Round
  <1>4. CASE NewBlock
    BY <1>4 DEF NewBlock, RoundInv, Round
  <1>5. CASE \E committee \in Committees : Elect(committee)
    BY <1>5 DEF Elect, RoundInv, Round
  <1>6. CASE UNCHANGED vars
    BY <1>6 DEF vars, RoundInv, Round
  <1> QED
    BY <1>1, <1>2, <1>3, <1>4, <1>5, <1>6 DEF Next

LEMMA AcceptIsFresh ==
    ASSUME TypeOK, RoundInv, NEW n \in Nodes, NEW d \in Decisions, Accept(n, d)
    PROVE  /\ Cardinality(quorum'[d]) >= Threshold(alphabet)
           /\ \A m \in quorum'[d] : asks'[d][m].round = accepted'[d]
  <1>1. quorum'[d] = VotersWith(box, d, n, height) /\ accepted'[d] = Round(d)
    BY DEF Accept, TypeOK, Round
  <1>2. Cardinality(quorum'[d]) >= Threshold(alphabet)
    BY <1>1 DEF Accept, Reached, VoteCount
  <1>3. VotersWith(box, d, n, height) \subseteq box[d].voters \union {n}
    BY VoteVoters DEF TypeOK
  <1>4. \A m \in box[d].voters : m \in Nodes /\ asks[d][m].round = Round(d)
    BY DEF TypeOK, RoundInv
  <1>5. CASE HasVoted(box, d, n, height)
    <2>1. n \in box[d].voters
      BY <1>5, PruneVoters DEF HasVoted, TypeOK
    <2>2. asks' = asks
      BY <1>5 DEF Accept, RecordAsk
    <2> QED
      BY <1>1, <1>2, <1>3, <1>4, <2>1, <2>2
  <1>6. CASE ~HasVoted(box, d, n, height)
    <2>1. asks' = [asks EXCEPT ![d][n] = [round |-> Round(d), at |-> height]]
      BY <1>6 DEF Accept, RecordAsk
    <2>2. \A m \in Nodes : asks'[d][m] = IF m = n
                                         THEN [round |-> Round(d), at |-> height]
                                         ELSE asks[d][m]
      BY <2>1 DEF TypeOK
    <2> QED
      BY <1>1, <1>2, <1>3, <1>4, <2>2
  <1> QED
    BY <1>5, <1>6

(* Whenever the body of a decision runs, a threshold of distinct nodes has *)
(* voted for it since it last ran, whatever is retried and whoever is      *)
(* elected meanwhile.                                                      *)
THEOREM EveryQuorumIsFresh == Spec => FreshQuorum
  <1>1. TypeOK /\ RoundInv /\ [Next]_vars => (TypeOK /\ RoundInv)'
    BY TypeStep, RoundStep
  <1>2. ASSUME TypeOK, RoundInv, [Next]_vars, NEW d \in Decisions
        PROVE  FreshAcceptance(d)
    <2>1. ASSUME NEW n \in Nodes, NEW e \in Decisions, Accept(n, e)
          PROVE  FreshAcceptance(d)
      <3>1. d # e => accepted'[d] = accepted[d]
        BY <1>2, <2>1 DEF Accept, TypeOK
      <3>2. d = e => FreshAcceptance(d)
        BY <1>2, <2>1, AcceptIsFresh DEF FreshAcceptance
      <3> QED
        BY <3>1, <3>2 DEF FreshAcceptance
    <2>2. (\A n \in Nodes, e \in Decisions : ~Accept(n, e)) => accepted' = accepted
      BY <1>2 DEF Next, Collect, Fault, NewBlock, Elect, vars
    <2> QED
      BY <2>1, <2>2 DEF FreshAcceptance
  <1>3. TypeOK /\ RoundInv /\ [Next]_vars => [\A d \in Decisions : FreshAcceptance(d)]_vars
    BY <1>2
  <1> QED
    BY TypeInit, RoundInit, <1>1, <1>3, PTL DEF Spec, FreshQuorum

-----------------------------------------------------------------------------
(* No decision waits for a vote that it does not need.                     *)
OpenInv == \A d \in Decisions : Cardinality(box[d].voters) < Threshold(alphabet)

LEMMA ThresholdIsPositive ==
    ASSUME NEW c \in Committees
    PROVE  Threshold(c) > Cardinality({})
  <1>1. IsFiniteSet(c)
    BY CommitteesAssumption, FS_Subset
  <1>2. Cardinality(c) \in Nat /\ Cardinality({}) = 0
    BY <1>1, FS_CardinalityType, FS_EmptySet
  <1> QED
    BY <1>2 DEF Threshold

LEMMA OpenStep ==
    ASSUME TypeOK, OpenInv, [Next]_vars,
           \A a, b \in Committees : Cardinality(a) = Cardinality(b)
    PROVE  OpenInv'
  <1>1. alphabet \in Committees /\ Threshold(alphabet) > Cardinality({})
    BY ThresholdIsPositive DEF TypeOK
  <1>2. ASSUME NEW n \in Nodes, NEW d \in Decisions, NEW e \in Decisions
        PROVE  \/ Vote(box, d, n, height)[e].voters \in {box[e].voters, {}}
               \/ e = d /\ Vote(box, d, n, height)[e].voters = VotersWith(box, d, n, height)
    <2>1. box \in [Decisions -> [voters : SUBSET Nodes, height : Nat]]
      BY DEF TypeOK
    <2> QED
      BY <2>1 DEF Vote, Prune, NoBallot
  <1>3. ASSUME NEW n \in Nodes, NEW d \in Decisions, Collect(n, d)
        PROVE  OpenInv'
    <2>1. ASSUME VoteCount(box, d, n, height) >= Threshold(alphabet)
          PROVE  FALSE
      BY <1>3, <2>1 DEF Collect, Reached
    <2>2. Cardinality(VotersWith(box, d, n, height)) \in Nat /\ Threshold(alphabet) \in Nat
      <3>1. VotersWith(box, d, n, height) \in SUBSET Nodes
        BY VoteType DEF TypeOK
      <3> QED
        BY <1>1, <3>1, CommitteesAssumption, FS_Subset, FS_CardinalityType, ThresholdType
    <2>3. Cardinality(VotersWith(box, d, n, height)) < Threshold(alphabet)
      BY <2>1, <2>2 DEF VoteCount
    <2> QED
      BY <1>1, <1>2, <1>3, <2>3 DEF Collect, OpenInv
  <1>4. ASSUME NEW n \in Nodes, NEW d \in Decisions, Accept(n, d)
        PROVE  OpenInv'
    <2>1. Vote(box, d, n, height) \in [Decisions -> [voters : SUBSET Nodes, height : Nat]]
      BY VoteType DEF TypeOK
    <2>2. \A e \in Decisions : box'[e].voters \in {box[e].voters, {}}
      BY <1>2, <1>4, <2>1 DEF Accept, RemoveVotes, NoBallot
    <2> QED
      BY <1>1, <1>4, <2>2 DEF Accept, OpenInv
  <1>5. CASE \E committee \in Committees : Elect(committee)
    <2>1. Threshold(alphabet') = Threshold(alphabet) /\ box' = box
      BY <1>1, <1>5 DEF Elect, Threshold
    <2> QED
      BY <2>1 DEF OpenInv
  <1>6. CASE UNCHANGED <<box, alphabet>>
    BY <1>6 DEF OpenInv
  <1> QED
    BY <1>3, <1>4, <1>5, <1>6 DEF Next, Fault, NewBlock, vars

(* While all committees have one size, a decision is made as soon as a     *)
(* threshold of nodes has voted for it, and never later.                   *)
THEOREM DecidedInTime ==
    ASSUME \A a, b \in Committees : Cardinality(a) = Cardinality(b)
    PROVE  Spec => []NeverOverdue
  <1>1. ASSUME Init PROVE OpenInv
    <2>1. \A d \in Decisions : box[d].voters = {}
      BY <1>1 DEF Init, NoBallot
    <2>2. Cardinality({}) < Threshold(alphabet)
      BY <1>1, ThresholdIsPositive, FS_EmptySet, ThresholdType DEF Init
    <2> QED
      BY <2>1, <2>2 DEF OpenInv
  <1>2. TypeOK /\ OpenInv /\ [Next]_vars => OpenInv'
    BY OpenStep
  <1>3. TypeOK /\ OpenInv => NeverOverdue
    BY ThresholdIsPositive DEF TypeOK, OpenInv, NeverOverdue, Prune, NoBallot
  <1> QED
    BY TypeInit, TypeStep, <1>1, <1>2, <1>3, PTL DEF Spec

-----------------------------------------------------------------------------
(* The votes of a ballot are a chain: each is followed by another within   *)
(* the window of blocks, or it is the last one and the ballot is as old.   *)
Followed(S, last, at) ==
    \A n \in S : \/ at[n].at = last
                 \/ \E m \in S : at[m].at > at[n].at /\ at[m].at - at[n].at <= BlockDiff

ChainInv ==
    \A d \in Decisions : box[d].height <= height /\ Followed(box[d].voters, box[d].height, asks[d])

(* A vote that counts makes the chain longer, or begins a new one.         *)
LEMMA VoteFollows ==
    ASSUME TypeOK, ChainInv, NEW n \in Nodes, NEW d \in Decisions, RecordAsk(n, d)
    PROVE  /\ \A e \in Decisions : LET ballot == Vote(box, d, n, height)[e]
                                   IN  ballot.height <= height
                                       /\ Followed(ballot.voters, ballot.height, asks'[e])
           /\ \E last \in Nat : /\ last <= height /\ height - last <= BlockDiff
                                /\ Followed(VotersWith(box, d, n, height), last, asks'[d])
  <1>1. /\ box \in [Decisions -> [voters : SUBSET Nodes, height : Nat]] /\ height \in Nat
        /\ asks \in [Decisions -> [Nodes -> [round : Nat, at : Nat]]]
        /\ BlockDiff \in Nat
    BY BlockDiffAssumption DEF TypeOK
  <1>2. CASE HasVoted(box, d, n, height)
    <2>1. asks' = asks /\ Vote(box, d, n, height) = box
      BY <1>2 DEF RecordAsk, Vote
    <2>2. ~Expired(box[d], height) /\ VotersWith(box, d, n, height) = box[d].voters
      BY <1>1, <1>2 DEF HasVoted, VotersWith, Prune, NoBallot
    <2>3. height - box[d].height <= BlockDiff /\ box[d].height \in Nat
      BY <1>1, <2>2 DEF Expired
    <2> QED
      BY <2>1, <2>2, <2>3 DEF ChainInv
  <1>3. CASE ~HasVoted(box, d, n, height)
    <2> DEFINE old == Prune(box, height)[d].voters
               new == VotersWith(box, d, n, height)
               first == asks[d]
               then == asks'[d]
    <2>1. asks' = [asks EXCEPT ![d][n] = [round |-> Round(d), at |-> height]]
      BY <1>3 DEF RecordAsk
    <2>2. /\ \A m \in Nodes : m # n => then[m] = first[m]
          /\ then[n].at = height
          /\ \A e \in Decisions : e # d => asks'[e] = asks[e]
      BY <1>1, <2>1
    <2>3. new = old \union {n} /\ n \notin old /\ old \subseteq Nodes
      BY <1>1, <1>3 DEF VotersWith, HasVoted, Prune, NoBallot
    <2>4. \A m \in old : /\ first[m].at \in Nat
                         /\ \/ first[m].at <= height /\ height - first[m].at <= BlockDiff
                            \/ \E k \in old : /\ first[k].at > first[m].at
                                              /\ first[k].at - first[m].at <= BlockDiff
      <3>1. CASE Expired(box[d], height)
        BY <1>1, <3>1 DEF Prune, NoBallot
      <3>2. CASE ~Expired(box[d], height)
        <4>1. old = box[d].voters
          BY <1>1, <3>2 DEF Prune
        <4>2. /\ box[d].height \in Nat /\ box[d].height <= height /\ height - box[d].height <= BlockDiff
              /\ Followed(old, box[d].height, first)
          BY <1>1, <3>2, <4>1 DEF Expired, ChainInv
        <4>3. \A m \in old : first[m].at \in Nat
          BY <1>1, <2>3
        <4> HIDE DEF old, first
        <4> QED
          BY <4>2, <4>3 DEF Followed
      <3> QED
        BY <3>1, <3>2
    <2>5. ASSUME NEW m \in new
          PROVE  \/ then[m].at = height
                 \/ \E k \in new : then[k].at > then[m].at /\ then[k].at - then[m].at <= BlockDiff
      <3> HIDE DEF old, new, first, then
      <3>1. CASE m = n
        BY <2>2, <3>1
      <3>2. CASE m \in old /\ first[m].at <= height /\ height - first[m].at <= BlockDiff
        <4>1. then[m].at = first[m].at /\ then[n].at = height /\ n \in new /\ first[m].at \in Nat
          BY <2>2, <2>3, <2>4, <3>2
        <4>2. first[m].at = height \/ (height > first[m].at /\ height - first[m].at <= BlockDiff)
          <5>1. height \in Nat
            BY <1>1
          <5> QED
            BY <3>2, <4>1, <5>1
        <4>3. then[m].at = height \/ (then[n].at > then[m].at /\ then[n].at - then[m].at <= BlockDiff)
          BY <4>1, <4>2
        <4> QED
          BY <4>1, <4>3
      <3>3. CASE m \in old /\ \E k \in old : /\ first[k].at > first[m].at
                                            /\ first[k].at - first[m].at <= BlockDiff
        <4>1. PICK k \in old : first[k].at > first[m].at /\ first[k].at - first[m].at <= BlockDiff
          BY <3>3
        <4>2. then[k] = first[k] /\ then[m] = first[m] /\ k \in new
          BY <2>2, <2>3, <3>3
        <4> QED
          BY <4>1, <4>2
      <3>4. m = n \/ m \in old
        BY <2>3
      <3> QED
        BY <2>4, <3>1, <3>2, <3>3, <3>4
    <2>6. Followed(new, height, then)
      BY <2>5 DEF Followed
    <2>7. ASSUME NEW e \in Decisions
          PROVE  LET ballot == Vote(box, d, n, height)[e]
                 IN  ballot.height <= height /\ Followed(ballot.voters, ballot.height, asks'[e])
      <3>1. CASE e = d
        <4>1. Vote(box, d, n, height)[e] = [voters |-> new, height |-> height]
          BY <1>1, <1>3, <3>1 DEF Vote, Prune
        <4> QED
          BY <1>1, <2>6, <3>1, <4>1
      <3>2. CASE e # d
        <4>1. Vote(box, d, n, height)[e] \in {box[e], NoBallot} /\ asks'[e] = asks[e]
          BY <1>1, <1>3, <2>2, <3>2 DEF Vote, Prune
        <4>2. Followed({}, 0, asks'[e])
          BY DEF Followed
        <4>3. box[e].height <= height /\ Followed(box[e].voters, box[e].height, asks'[e])
          BY <4>1 DEF ChainInv
        <4>4. NoBallot.height <= height /\ Followed(NoBallot.voters, NoBallot.height, asks'[e])
          BY <1>1, <4>2 DEF NoBallot
        <4> QED
          BY <4>1, <4>3, <4>4
      <3> QED
        BY <3>1, <3>2
    <2>8. height <= height /\ height - height <= BlockDiff
      BY <1>1
    <2> HIDE DEF new, then
    <2> QED
      BY <1>1, <2>6, <2>7, <2>8 DEF new, then
  <1> QED
    BY <1>2, <1>3

LEMMA ChainStep ==
    ASSUME TypeOK, ChainInv, [Next]_vars
    PROVE  ChainInv'
  <1>1. ASSUME NEW n \in Nodes, NEW d \in Decisions, Collect(n, d)
        PROVE  ChainInv'
    BY <1>1, VoteFollows DEF Collect, ChainInv
  <1>2. ASSUME NEW n \in Nodes, NEW d \in Decisions, Accept(n, d)
        PROVE  ChainInv'
    <2>1. /\ RecordAsk(n, d) /\ height' = height /\ height \in Nat
          /\ Vote(box, d, n, height) \in [Decisions -> [voters : SUBSET Nodes, height : Nat]]
      BY <1>2, VoteType DEF Accept, TypeOK
    <2>2. \A e \in Decisions : box'[e] \in {Vote(box, d, n, height)[e], NoBallot}
      BY <1>2, <2>1 DEF Accept, RemoveVotes
    <2>3. \A e \in Decisions : Followed({}, 0, asks'[e])
      BY DEF Followed
    <2>4. ASSUME NEW e \in Decisions
          PROVE  box'[e].height <= height' /\ Followed(box'[e].voters, box'[e].height, asks'[e])
      <3>1. /\ Vote(box, d, n, height)[e].height <= height
            /\ Followed(Vote(box, d, n, height)[e].voters, Vote(box, d, n, height)[e].height, asks'[e])
        BY <2>1, VoteFollows
      <3>2. NoBallot.height <= height /\ Followed(NoBallot.voters, NoBallot.height, asks'[e])
        BY <2>1, <2>3 DEF NoBallot
      <3> QED
        BY <2>1, <2>2, <3>1, <3>2
    <2> QED
      BY <2>4 DEF ChainInv
  <1>3. CASE UNCHANGED <<box, asks>> /\ (height' = height \/ height' = height + 1)
    BY <1>3 DEF ChainInv, TypeOK
  <1> QED
    BY <1>1, <1>2, <1>3 DEF Next, Fault, NewBlock, Elect, vars

(* The votes that make a decision have never been apart for longer than    *)
(* BlockDiff blocks: however old the first of them, no ballot that has     *)
(* expired is counted.                                                     *)
THEOREM VotesFollowOneAnother == Spec => NoSilentGap
  <1> DEFINE NoGap(d) ==
               accepted'[d] # accepted[d] =>
                 \A n \in quorum'[d] :
                    \/ height - asks'[d][n].at <= BlockDiff
                    \/ \E m \in quorum'[d] :
                         /\ asks'[d][m].at > asks'[d][n].at
                         /\ asks'[d][m].at - asks'[d][n].at <= BlockDiff
  <1>1. Init => ChainInv
    BY DEF Init, ChainInv, Followed, NoBallot
  <1>2. ASSUME TypeOK, ChainInv, [Next]_vars, NEW d \in Decisions
        PROVE  NoGap(d)
    <2>1. ASSUME NEW n \in Nodes, Accept(n, d)
          PROVE  NoGap(d)
      <3>1. quorum'[d] = VotersWith(box, d, n, height)
        BY <1>2, <2>1 DEF Accept, TypeOK
      <3>2. PICK last \in Nat : /\ last <= height /\ height - last <= BlockDiff
                                /\ Followed(quorum'[d], last, asks'[d])
        BY <1>2, <2>1, <3>1, VoteFollows DEF Accept
      <3> QED
        BY <3>2 DEF Followed
    <2>2. ASSUME NEW n \in Nodes, NEW e \in Decisions, e # d, Accept(n, e)
          PROVE  NoGap(d)
      BY <1>2, <2>2 DEF Accept, TypeOK
    <2>3. CASE accepted' = accepted
      BY <2>3
    <2> QED
      BY <1>2, <2>1, <2>2, <2>3 DEF Next, Collect, Fault, NewBlock, Elect, vars
  <1>3. TypeOK /\ ChainInv /\ [Next]_vars => [\A d \in Decisions : NoGap(d)]_vars
    BY <1>2
  <1>4. TypeOK /\ ChainInv /\ [Next]_vars => (TypeOK /\ ChainInv)'
    BY TypeStep, ChainStep
  <1> QED
    BY TypeInit, <1>1, <1>3, <1>4, PTL DEF Spec, NoSilentGap
=============================================================================

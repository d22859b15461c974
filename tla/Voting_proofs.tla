--------------------------- MODULE Voting_proofs ---------------------------
(***************************************************************************)
(* What the opening lines of the alphabet's methods guarantee in every     *)
(* contract: the body of a method runs only with a quorum behind it.  At   *)
(* the end, what the contracts that count something need: sums over sets.  *)
(***************************************************************************)
EXTENDS Voting, FiniteSetTheorems, TLAPS

(* Whoever is on a ballot has asked for its decision since it was last     *)
(* made.                                                                   *)
VotesInv(ids) ==
    /\ box \in [ids -> [voters : SUBSET Alphabet, height : Nat]]
    /\ height \in Nat
    /\ \A i \in ids : \A m \in box[i].voters : NotaryDisabled /\ <<m, i>> \in called

LEMMA VotesInit ==
    ASSUME NEW ids, VotingInit(ids)
    PROVE  VotesInv(ids)
  BY DEF VotingInit, VotesInv, NoBallot

LEMMA PrunedVoters ==
    ASSUME NEW ids, VotesInv(ids), NEW i \in ids
    PROVE  /\ Prune(box, height) \in [ids -> [voters : SUBSET Alphabet, height : Nat]]
           /\ Prune(box, height)[i].voters \subseteq box[i].voters
  BY BlockDiffAssumption DEF VotesInv, Prune, Expired, NoBallot

(* A stored vote puts nobody but its node on any ballot. *)
LEMMA VoteAddsOne ==
    ASSUME NEW ids, VotesInv(ids), NEW id \in ids, NEW n \in Alphabet
    PROVE  /\ Vote(box, id, n, height) \in [ids -> [voters : SUBSET Alphabet, height : Nat]]
           /\ \A i \in ids : Vote(box, id, n, height)[i].voters
                               \subseteq box[i].voters \union (IF i = id THEN {n} ELSE {})
           /\ VotersWith(box, id, n, height) \subseteq box[id].voters \union {n}
  <1>1. Prune(box, height) \in [ids -> [voters : SUBSET Alphabet, height : Nat]]
    BY PrunedVoters
  <1>2. \A i \in ids : Prune(box, height)[i].voters \subseteq box[i].voters
    BY PrunedVoters
  <1>3. box \in [ids -> [voters : SUBSET Alphabet, height : Nat]] /\ height \in Nat
    BY DEF VotesInv
  <1>4. CASE HasVoted(box, id, n, height)
    BY <1>1, <1>2, <1>3, <1>4 DEF Vote, VotersWith
  <1>5. CASE ~HasVoted(box, id, n, height)
    BY <1>1, <1>2, <1>3, <1>5 DEF Vote, VotersWith
  <1> QED
    BY <1>4, <1>5

LEMMA OnlyVotesKeepsVotes ==
    ASSUME NEW ids, VotesInv(ids), NEW id \in ids, NEW n \in Invokers, OnlyVotes(n, id)
    PROVE  VotesInv(ids)'
  <1>1. n \in Alphabet /\ NotaryDisabled
    BY DEF OnlyVotes, Pending, Invokers
  <1> QED
    BY <1>1, VoteAddsOne DEF OnlyVotes, VotesInv

LEMMA DecidesKeepsVotes ==
    ASSUME NEW ids, VotesInv(ids), NEW id \in ids, NEW n \in Invokers, Decides(n, id)
    PROVE  VotesInv(ids)'
  <1>1. CASE NotaryDisabled
    <2>1. n \in Alphabet
      BY <1>1 DEF Invokers
    <2>2. box' = [Vote(box, id, n, height) EXCEPT ![id] = NoBallot]
      BY <1>1 DEF Decides, RemoveVotes
    <2>3. /\ box' \in [ids -> [voters : SUBSET Alphabet, height : Nat]]
          /\ box'[id].voters = {}
          /\ \A i \in ids : i # id => box'[i].voters \subseteq box[i].voters
      BY <2>1, <2>2, VoteAddsOne DEF NoBallot
    <2> QED
      BY <2>3 DEF Decides, VotesInv
  <1>2. CASE ~NotaryDisabled
    BY <1>2 DEF Decides, VotesInv
  <1> QED
    BY <1>1, <1>2

LEMMA OthersKeepVotes ==
    ASSUME NEW ids, VotesInv(ids), UNCHANGED voting \/ NextBlock
    PROVE  VotesInv(ids)'
  <1>1. CASE UNCHANGED voting
    BY <1>1 DEF voting, VotesInv
  <1>2. CASE NextBlock
    BY <1>2 DEF NextBlock, VotesInv
  <1> QED
    BY <1>1, <1>2

(* How an invocation of the alphabet for one of its decisions may end. *)
Ends(n, id) == OnlyVotes(n, id) \/ Decides(n, id) \/ Reverts(n, id)

LEMMA EndsKeepVotes ==
    ASSUME NEW ids, VotesInv(ids), NEW n \in Invokers, NEW id \in ids, Ends(n, id)
    PROVE  VotesInv(ids)' /\ height' = height
  <1>1. VotesInv(ids)'
    BY OnlyVotesKeepsVotes, DecidesKeepsVotes, OthersKeepVotes DEF Ends, Reverts
  <1> QED
    BY <1>1 DEF Ends, OnlyVotes, Decides, Reverts, voting

LEMMA EndsKeepTypes ==
    ASSUME NEW ids, VotesInv(ids), VotingTypeOK(ids), NEW n \in Invokers, NEW id \in ids, Ends(n, id)
    PROVE  VotingTypeOK(ids)'
  <1>1. VotesInv(ids)' /\ height' = height
    BY EndsKeepVotes
  <1>2. called' \subseteq Invokers \X ids
    BY DEF VotingTypeOK, Ends, OnlyVotes, Decides, Reverts, voting
  <1> QED
    BY <1>1, <1>2 DEF VotingTypeOK, VotesInv

LEMMA OthersKeepTypes ==
    ASSUME NEW ids, VotingTypeOK(ids), UNCHANGED voting \/ NextBlock
    PROVE  VotingTypeOK(ids)'
  BY VotingAssumption DEF VotingTypeOK, voting, NextBlock

(* An invocation that goes on to the body of its method has a quorum. *)
LEMMA DecidesIsQuorate ==
    ASSUME NEW ids, VotesInv(ids), NEW id \in ids, NEW n \in Invokers, Decides(n, id)
    PROVE  Quorate(id)
  <1> DEFINE asked == called \union {<<n, id>>}
             who == {m \in Invokers : <<m, id>> \in asked}
  <1>1. CASE NotaryDisabled
    <2> DEFINE voters == VotersWith(box, id, n, height)
    <2>1. n \in Alphabet /\ Invokers = Alphabet
      BY <1>1 DEF Invokers
    <2>2. voters \subseteq box[id].voters \union {n} /\ box[id].voters \subseteq Alphabet
      BY <2>1, VoteAddsOne DEF VotesInv
    <2>3. voters \subseteq who
      BY <2>1, <2>2 DEF VotesInv
    <2>4. IsFiniteSet(who) /\ who \subseteq Alphabet
      BY <2>1, VotingAssumption, FS_Subset
    <2>5. IsFiniteSet(voters) /\ Cardinality(voters) <= Cardinality(who)
      BY <2>3, <2>4, FS_Subset
    <2>6. /\ Cardinality(voters) \in Nat /\ Cardinality(who) \in Nat
          /\ Cardinality(Alphabet) \in Nat
      BY <2>4, <2>5, VotingAssumption, FS_CardinalityType
    <2>7. ~(Cardinality(voters) < Threshold(Alphabet))
      BY <1>1 DEF Decides, Pending, VoteCount
    <2> HIDE DEF voters, who
    <2>8. Threshold(Alphabet) \in Int
      BY <2>6 DEF Threshold
    <2>9. Cardinality(who) >= Threshold(Alphabet)
      BY <2>5, <2>6, <2>7, <2>8
    <2>10. Approved(asked, id)
      BY <1>1, <2>9 DEF Approved, who
    <2> QED
      BY <2>10 DEF Quorate
  <1>2. CASE ~NotaryDisabled
    <2>1. Invokers = {n}
      BY <1>2 DEF Invokers
    <2>2. who = {n}
      BY <2>1
    <2>3. Cardinality(who) = 1
      BY <2>2, FS_Singleton
    <2>4. Approved(asked, id)
      BY <1>2, <2>3 DEF Approved
    <2> QED
      BY <2>4 DEF Quorate
  <1> QED
    BY <1>1, <1>2
-----------------------------------------------------------------------------
(* The invokers that have asked and are on no ballot any more: their votes *)
(* have made a decision or have expired.                                   *)
VotersHaveAsked(ballots, ids, asked) ==
    \A i \in ids : \A m \in ballots[i].voters : <<m, i>> \in asked

Spent(ballots, asked) == {p \in asked : p[1] \notin ballots[p[2]].voters}

LEMMA InvokersAreFinite == IsFiniteSet(Invokers)
  BY VotingAssumption, FS_Singleton DEF Invokers

LEMMA ThresholdIsMajority ==
    ASSUME NEW A, IsFiniteSet(A)
    PROVE  /\ Threshold(A) \in Nat \ {0} /\ Cardinality(A) \in Nat
           /\ 2 * Threshold(A) > Cardinality(A)
  <1>1. Cardinality(A) \in Nat
    BY FS_CardinalityType
  <1> DEFINE c == Cardinality(A)
  <1> HIDE DEF c
  <1>2. c \in Nat => (c * 2) \div 3 + 1 \in Nat \ {0} /\ 2 * ((c * 2) \div 3 + 1) > c
    OBVIOUS
  <1> QED
    BY <1>1, <1>2 DEF Threshold, c

LEMMA ApprovalIsKept ==
    ASSUME NEW asked, NEW more, asked \subseteq more, NEW id, Approved(asked, id)
    PROVE  Approved(more, id)
  <1> DEFINE A == {n \in Invokers : <<n, id>> \in asked}
             B == {n \in Invokers : <<n, id>> \in more}
  <1>1. IsFiniteSet(B) /\ A \subseteq B
    BY InvokersAreFinite, FS_Subset
  <1>2. /\ Cardinality(A) <= Cardinality(B)
        /\ Cardinality(A) \in Nat /\ Cardinality(B) \in Nat
    BY <1>1, FS_Subset, FS_CardinalityType
  <1>3. Threshold(Alphabet) \in Nat
    BY VotingAssumption, ThresholdIsMajority
  <1> HIDE DEF A, B
  <1>4. Cardinality(A) >= (IF NotaryDisabled THEN Threshold(Alphabet) ELSE 1)
    BY DEF Approved, A
  <1>5. Cardinality(B) >= (IF NotaryDisabled THEN Threshold(Alphabet) ELSE 1)
    BY <1>2, <1>3, <1>4
  <1> QED
    BY <1>5 DEF Approved, B

(* Whatever an invocation does, a spent vote stays spent.                  *)
LEMMA EndsSpendMore ==
    ASSUME NEW ids, VotesInv(ids), NEW asked, asked \subseteq Invokers \X ids,
           VotersHaveAsked(box, ids, asked),
           NEW n \in Invokers, NEW id \in ids, <<n, id>> \notin asked, Ends(n, id)
    PROVE  /\ VotersHaveAsked(box', ids, asked \union {<<n, id>>})
           /\ Spent(box, asked) \subseteq Spent(box', asked \union {<<n, id>>})
  <1>1. \A i \in ids : box'[i].voters \subseteq box[i].voters \union (IF i = id THEN {n} ELSE {})
    <2>1. CASE OnlyVotes(n, id)
      BY <2>1, VoteAddsOne DEF OnlyVotes, Pending, Invokers
    <2>2. CASE Decides(n, id) /\ NotaryDisabled
      <3>1. box' = [Vote(box, id, n, height) EXCEPT ![id] = NoBallot] /\ n \in Alphabet
        BY <2>2 DEF Decides, RemoveVotes, Invokers
      <3> QED
        BY <3>1, VoteAddsOne DEF NoBallot
    <2>3. CASE UNCHANGED box
      BY <2>3
    <2> QED
      BY <2>1, <2>2, <2>3 DEF Ends, Decides, Reverts, voting
  <1>2. VotersHaveAsked(box', ids, asked \union {<<n, id>>})
    BY <1>1 DEF VotersHaveAsked
  <1>3. ASSUME NEW p \in Spent(box, asked)
        PROVE  p \in Spent(box', asked \union {<<n, id>>})
    <2>1. p \in asked /\ p[2] \in ids /\ p = <<p[1], p[2]>> /\ p[1] \notin box[p[2]].voters
      BY <1>3 DEF Spent
    <2>2. p # <<n, id>>
      BY <2>1
    <2>3. p[1] \notin box'[p[2]].voters
      BY <1>1, <2>1, <2>2
    <2> QED
      BY <2>1, <2>3 DEF Spent
  <1> QED
    BY <1>2, <1>3

(* A decision is made once: no other quorum is left among those who have   *)
(* not asked for it yet or whose vote is still on its ballot.              *)
LEMMA DecidesOnce ==
    ASSUME NEW ids, VotesInv(ids), NEW asked, asked \subseteq Invokers \X ids,
           VotersHaveAsked(box, ids, asked),
           NEW n \in Invokers, NEW id \in ids, <<n, id>> \notin asked, Decides(n, id)
    PROVE  /\ ~Approved(Spent(box, asked), id)
           /\ Approved(Spent(box', asked \union {<<n, id>>}), id)
  <1> DEFINE before == {m \in Invokers : <<m, id>> \in Spent(box, asked)}
             after == {m \in Invokers : <<m, id>> \in Spent(box', asked \union {<<n, id>>})}
             voters == VotersWith(box, id, n, height)
             needed == IF NotaryDisabled THEN Threshold(Alphabet) ELSE 1
  <1>1. IsFiniteSet(before) /\ IsFiniteSet(after)
    BY InvokersAreFinite, FS_Subset
  <1>2. Cardinality(before) \in Nat /\ Cardinality(after) \in Nat
    BY <1>1, FS_CardinalityType
  <1>3. before = {m \in Invokers : <<m, id>> \in asked /\ m \notin box[id].voters}
    BY DEF Spent
  <1>4. after = {m \in Invokers : <<m, id>> \in asked \union {<<n, id>>} /\ m \notin box'[id].voters}
    BY DEF Spent
  <1>5. CASE NotaryDisabled
    <2>1. n \in Alphabet /\ Invokers = Alphabet
      BY <1>5 DEF Invokers
    <2>2. voters \subseteq box[id].voters \union {n} /\ box[id].voters \subseteq Alphabet
      BY <2>1, VoteAddsOne DEF VotesInv
    <2>3. box'[id].voters = {}
      BY <1>5, <2>1, VoteAddsOne DEF Decides, RemoveVotes, NoBallot
    <2>4. voters \subseteq after /\ before \intersect voters = {}
      BY <1>3, <1>4, <2>1, <2>2, <2>3 DEF VotersHaveAsked
    <2>5. before \subseteq Alphabet /\ voters \subseteq Alphabet
      BY <2>1, <2>2
    <2>6. ~(Cardinality(voters) < Threshold(Alphabet))
      BY <1>5 DEF Decides, Pending, VoteCount
    <2> HIDE DEF before, after, voters
    <2>7. IsFiniteSet(voters) /\ IsFiniteSet(Alphabet) /\ Cardinality(voters) \in Nat
      BY <2>5, VotingAssumption, FS_Subset, FS_CardinalityType
    <2>8. Cardinality(voters) <= Cardinality(after)
      BY <1>1, <2>4, FS_Subset
    <2>9. Cardinality(before) + Cardinality(voters) <= Cardinality(Alphabet)
      <3>1. /\ IsFiniteSet(before \union voters)
            /\ Cardinality(before \union voters) =
                  Cardinality(before) + Cardinality(voters) - Cardinality(before \intersect voters)
        BY <1>1, <2>7, FS_Union
      <3>2. Cardinality(before \intersect voters) = 0
        BY <2>4, FS_EmptySet
      <3>3. Cardinality(before \union voters) <= Cardinality(Alphabet)
        BY <2>5, <2>7, FS_Subset
      <3> QED
        BY <1>2, <2>7, <3>1, <3>2, <3>3
    <2>10. /\ Threshold(Alphabet) \in Nat /\ Cardinality(Alphabet) \in Nat
           /\ 2 * Threshold(Alphabet) > Cardinality(Alphabet)
      BY <2>7, ThresholdIsMajority
    <2>11. ~(Cardinality(before) >= Threshold(Alphabet)) /\ Cardinality(after) >= Threshold(Alphabet)
      BY <1>2, <2>6, <2>7, <2>8, <2>9, <2>10
    <2> QED
      BY <1>5, <2>11 DEF Approved, before, after
  <1>6. CASE ~NotaryDisabled
    <2>1. Invokers = {n}
      BY <1>6 DEF Invokers
    <2>2. box'[id].voters = {}
      BY <1>6 DEF Decides, VotesInv
    <2>3. before = {} /\ after = {n}
      BY <1>3, <1>4, <2>1, <2>2
    <2> HIDE DEF before, after
    <2>4. Cardinality(before) = 0 /\ Cardinality(after) = 1
      BY <2>3, FS_EmptySet, FS_Singleton
    <2>5. ~(Cardinality(before) >= 1) /\ Cardinality(after) >= 1
      BY <2>4
    <2> QED
      BY <1>6, <2>5 DEF Approved, before, after
  <1> QED
    BY <1>5, <1>6

-----------------------------------------------------------------------------
(* Folds over a finite set.  What holds of the empty set and is kept when  *)
(* an element is added holds of every finite set (Q are the sets for which *)
(* it holds).                                                              *)
LEMMA SetInduction ==
    ASSUME NEW S, IsFiniteSet(S), NEW Q, {} \in Q,
           \A T \in SUBSET S, x \in S : x \notin T /\ T \in Q => T \union {x} \in Q
    PROVE  S \in Q
  <1> DEFINE Bad == {T \in SUBSET S : T \notin Q}
  <1>1. SUFFICES ASSUME Bad # {} PROVE FALSE
    OBVIOUS
  <1>2. PICK T \in Bad : \A U \in Bad : <<U, T>> \notin StrictSubsetOrdering(S)
    <2>1. IsWellFoundedOn(StrictSubsetOrdering(S), FiniteSubsetsOf(S))
      BY FS_StrictSubsetOrderingWellFounded
    <2>2. Bad \subseteq FiniteSubsetsOf(S)
      BY FS_FiniteSubsetsOfFinite
    <2> HIDE DEF Bad
    <2> QED
      BY <1>1, <2>1, <2>2, WFMin
  <1>3. PICK x \in T : TRUE
    OBVIOUS
  <1>4. T \ {x} \in Q
    <2>1. T \ {x} \in SUBSET S /\ T \ {x} \subseteq T /\ T \ {x} # T
      OBVIOUS
    <2>2. <<T \ {x}, T>> \in StrictSubsetOrdering(S)
      BY <2>1 DEF StrictSubsetOrdering
    <2> QED
      BY <1>2, <2>1, <2>2
  <1>5. (T \ {x}) \union {x} = T
    OBVIOUS
  <1> QED
    BY <1>4, <1>5

(* The element that FoldSet takes next. *)
Pick(T) == CHOOSE x \in T : TRUE

Folds(g, S, M, base, step) ==
    /\ g \in [SUBSET S -> M]
    /\ \A T \in SUBSET S : g[T] = IF T = {} THEN base ELSE step[Pick(T)][g[T \ {Pick(T)}]]

LEMMA FoldExists ==
    ASSUME NEW S, IsFiniteSet(S), NEW M, NEW base \in M,
           NEW step \in [S -> [M -> M]]
    PROVE  \E g : Folds(g, S, M, base, step)
  <1> DEFINE Follows(g, T) == g[T] = IF T = {} THEN base ELSE step[Pick(T)][g[T \ {Pick(T)}]]
             Sub(n) == {T \in SUBSET S : Cardinality(T) <= n}
             Q == {T \in SUBSET S : \E g \in [SUBSET S -> M] : \A U \in Sub(Cardinality(T)) : Follows(g, U)}
  <1>0. \A T \in SUBSET S : IsFiniteSet(T) /\ Cardinality(T) \in Nat
    BY FS_Subset, FS_CardinalityType
  <1>1. {} \in Q
    <2> DEFINE g == [T \in SUBSET S |-> base]
    <2>1. \A T \in Sub(Cardinality({})) : T = {}
      BY <1>0, FS_EmptySet
    <2>2. g \in [SUBSET S -> M]
      OBVIOUS
    <2>3. \A T \in Sub(Cardinality({})) : Follows(g, T)
      BY <2>1
    <2> QED
      BY <2>2, <2>3
  <1>2. ASSUME NEW T \in SUBSET S, NEW x \in S, x \notin T, T \in Q
        PROVE  T \union {x} \in Q
    <2> DEFINE n == Cardinality(T)
    <2>1. PICK g \in [SUBSET S -> M] : \A U \in Sub(n) : Follows(g, U)
      BY <1>2
    <2> DEFINE h == [U \in SUBSET S |-> IF U = {} THEN base ELSE step[Pick(U)][g[U \ {Pick(U)}]]]
    <2>2. Cardinality(T \union {x}) = n + 1 /\ n \in Nat
      BY <1>0, <1>2, FS_AddElement
    <2>3. \A U \in SUBSET S : U # {} => Pick(U) \in U
      BY DEF Pick
    <2>4. h \in [SUBSET S -> M]
      BY <2>3
    <2>5. \A U \in Sub(n) : h[U] = g[U]
      BY <2>1
    <2>6. ASSUME NEW U \in Sub(n + 1)
          PROVE  Follows(h, U)
      <3>1. CASE U = {}
        BY <3>1
      <3>2. CASE U # {}
        <4>1. Cardinality(U \ {Pick(U)}) = Cardinality(U) - 1
          BY <1>0, <2>3, <3>2, FS_RemoveElement
        <4>2. U \ {Pick(U)} \in Sub(n)
          BY <1>0, <2>2, <4>1
        <4>3. h[U \ {Pick(U)}] = g[U \ {Pick(U)}]
          BY <2>5, <4>2
        <4> QED
          BY <3>2, <4>3
      <3> QED
        BY <3>1, <3>2
    <2> HIDE DEF h
    <2> QED
      BY <2>2, <2>4, <2>6
  <1>3. S \in Q
    <2> HIDE DEF Q
    <2> QED
      BY <1>1, <1>2, SetInduction
  <1>4. PICK g \in [SUBSET S -> M] : \A U \in Sub(Cardinality(S)) : Follows(g, U)
    BY <1>3
  <1>5. \A U \in SUBSET S : Follows(g, U)
    BY <1>4, <1>0, FS_Subset
  <1> QED
    BY <1>5 DEF Folds

-----------------------------------------------------------------------------
(* A sum of natural numbers is the number of their units. *)
Units(f, S) == {u \in S \X Nat : u[2] \in 1..f[u[1]]}

LEMMA UnitsOfOne ==
    ASSUME NEW f, NEW x, f[x] \in Nat
    PROVE  IsFiniteSet(Units(f, {x})) /\ Cardinality(Units(f, {x})) = f[x]
  <1> DEFINE T == 1..f[x]
  <1>1. IsFiniteSet(T) /\ Cardinality(T) = f[x]
    BY FS_Interval
  <1>2. Units(f, {x}) = {x} \X T
    BY DEF Units
  <1>3. IsFiniteSet({x}) /\ Cardinality({x}) = 1
    BY FS_Singleton
  <1> HIDE DEF T
  <1>4. IsFiniteSet({x} \X T) /\ Cardinality({x} \X T) = Cardinality({x}) * Cardinality(T)
    BY <1>1, <1>3, FS_Product
  <1>5. Cardinality({x} \X T) = f[x]
    <2>1. Cardinality({x} \X T) = 1 * f[x]
      BY <1>1, <1>3, <1>4
    <2>2. 1 * f[x] = f[x]
      OBVIOUS
    <2> QED
      BY <2>1, <2>2
  <1> QED
    BY <1>2, <1>4, <1>5

LEMMA UnitsOfUnion ==
    ASSUME NEW f, NEW S, NEW x, x \notin S, f[x] \in Nat, IsFiniteSet(Units(f, S))
    PROVE  /\ IsFiniteSet(Units(f, S \union {x}))
           /\ Cardinality(Units(f, S \union {x})) = f[x] + Cardinality(Units(f, S))
  <1>1. Units(f, S \union {x}) = Units(f, S) \union Units(f, {x})
    BY DEF Units
  <1>2. Units(f, S) \intersect Units(f, {x}) = {}
    BY DEF Units
  <1>3. Cardinality(Units(f, S)) \in Nat
    BY FS_CardinalityType
  <1>4. IsFiniteSet(Units(f, {x})) /\ Cardinality(Units(f, {x})) = f[x]
    BY UnitsOfOne
  <1> DEFINE A == Units(f, S)  B == Units(f, {x})
  <1>5. A \intersect B = {} /\ IsFiniteSet(A) /\ IsFiniteSet(B)
    BY <1>2, <1>4
  <1> HIDE DEF A, B
  <1>6. /\ IsFiniteSet(A \union B)
        /\ Cardinality(A \union B) = Cardinality(A) + Cardinality(B) - Cardinality(A \intersect B)
    BY <1>5, FS_Union
  <1>7. Cardinality(A \intersect B) = 0
    BY <1>5, FS_EmptySet
  <1>8. Cardinality(A) \in Nat /\ Cardinality(B) = f[x]
    BY <1>3, <1>4 DEF A, B
  <1>9. IsFiniteSet(A \union B) /\ Cardinality(A \union B) = f[x] + Cardinality(A)
    BY <1>6, <1>7, <1>8
  <1> QED
    BY <1>1, <1>9 DEF A, B

LEMMA SumCounts ==
    ASSUME NEW S, IsFiniteSet(S), NEW f, \A x \in S : f[x] \in Nat
    PROVE  /\ IsFiniteSet(Units(f, S))
           /\ SumFunctionOnSet(f, S) = Cardinality(Units(f, S))
  <1> DEFINE step == [x \in S |-> [n \in Nat |-> f[x] + n]]
             Sums(iter) == iter = [T \in SUBSET S |->
                              IF T = {} THEN 0 ELSE f[CHOOSE x \in T : TRUE] + iter[T \ {CHOOSE x \in T : TRUE}]]
  <1>1. \E g \in [SUBSET S -> Nat] :
           \A T \in SUBSET S : g[T] = IF T = {} THEN 0 ELSE step[Pick(T)][g[T \ {Pick(T)}]]
    <2> DEFINE M == Nat  base == 0
    <2>1. step \in [S -> [M -> M]] /\ base \in M
      OBVIOUS
    <2> HIDE DEF step, M, base
    <2>2. \E g : Folds(g, S, M, base, step)
      BY <2>1, FoldExists
    <2> QED
      BY <2>2 DEF M, base, Folds
  <1>2. \A T \in SUBSET S : T # {} => Pick(T) \in T
    BY DEF Pick
  <1>3. PICK g \in [SUBSET S -> Nat] :
           \A T \in SUBSET S : g[T] = IF T = {} THEN 0 ELSE f[Pick(T)] + g[T \ {Pick(T)}]
    BY <1>1, <1>2
  <1>4. Sums(g)
    BY <1>3 DEF Pick
  <1> DEFINE total == CHOOSE iter : Sums(iter)
  <1>5. SumFunctionOnSet(f, S) = total[S]
    BY DEF SumFunctionOnSet, FoldFunctionOnSet, MapThenFoldSet
  <1>6. Sums(total)
    <2> HIDE DEF Sums
    <2> QED
      BY <1>4
  <1>7. \A T \in SUBSET S : total[T] = IF T = {} THEN 0 ELSE f[Pick(T)] + total[T \ {Pick(T)}]
    BY <1>6 DEF Pick
  <1> HIDE DEF total
  <1> DEFINE Counted(T) == IsFiniteSet(Units(f, T)) /\ total[T] = Cardinality(Units(f, T))
             Bad == {T \in SUBSET S : ~Counted(T)}
  <1>8. SUFFICES ASSUME Bad # {} PROVE FALSE
    BY <1>5
  <1>9. PICK T \in Bad : \A U \in Bad : <<U, T>> \notin StrictSubsetOrdering(S)
    <2>1. IsWellFoundedOn(StrictSubsetOrdering(S), FiniteSubsetsOf(S))
      BY FS_StrictSubsetOrderingWellFounded
    <2>2. Bad \subseteq FiniteSubsetsOf(S)
      BY FS_FiniteSubsetsOfFinite
    <2> HIDE DEF Bad
    <2> QED
      BY <1>8, <2>1, <2>2, WFMin
  <1>10. CASE T = {}
    <2>1. Units(f, T) = {}
      BY <1>10 DEF Units
    <2> QED
      BY <1>7, <1>10, <2>1, FS_EmptySet
  <1>11. CASE T # {}
    <2> DEFINE x == Pick(T)  U == T \ {x}
    <2>1. x \in T /\ U \in SUBSET S /\ U \subseteq T /\ U # T /\ T = U \union {x}
      BY <1>2, <1>11
    <2>2. Counted(U)
      <3>1. <<U, T>> \in StrictSubsetOrdering(S)
        BY <2>1 DEF StrictSubsetOrdering
      <3> QED
        BY <1>9, <2>1, <3>1
    <2>3. total[T] = f[x] + total[U]
      BY <1>7, <1>11
    <2>4. x \notin U /\ x \in S
      BY <2>1
    <2> HIDE DEF x, U
    <2>5. f[x] \in Nat
      BY <2>4
    <2>6. /\ IsFiniteSet(Units(f, U \union {x}))
          /\ Cardinality(Units(f, U \union {x})) = f[x] + Cardinality(Units(f, U))
      BY <2>2, <2>4, <2>5, UnitsOfUnion
    <2>7. Counted(T)
      BY <2>1, <2>2, <2>3, <2>6
    <2> QED
      BY <2>7
  <1> QED
    BY <1>10, <1>11

SumsUp(f, S) == IsFiniteSet(S) /\ \A x \in S : f[x] \in Nat

LEMMA SumType ==
    ASSUME NEW S, NEW f, SumsUp(f, S)
    PROVE  SumFunctionOnSet(f, S) \in Nat
  BY SumCounts, FS_CardinalityType DEF SumsUp

LEMMA SumEmpty ==
    ASSUME NEW f
    PROVE  SumFunctionOnSet(f, {}) = 0
  <1>1. Units(f, {}) = {}
    BY DEF Units
  <1> QED
    BY <1>1, SumCounts, FS_EmptySet

LEMMA SumAgrees ==
    ASSUME NEW S, NEW f, NEW g, SumsUp(f, S), \A x \in S : f[x] = g[x]
    PROVE  SumFunctionOnSet(f, S) = SumFunctionOnSet(g, S)
  <1>1. Units(f, S) = Units(g, S)
    BY DEF Units
  <1> QED
    BY <1>1, SumCounts DEF SumsUp

LEMMA SumAdds ==
    ASSUME NEW S, NEW x, x \notin S, NEW f, SumsUp(f, S \union {x})
    PROVE  /\ SumFunctionOnSet(f, S \union {x}) = f[x] + SumFunctionOnSet(f, S)
           /\ SumFunctionOnSet(f, S) \in Nat
  <1>1. IsFiniteSet(S \union {x}) /\ IsFiniteSet(S)
    BY FS_Subset DEF SumsUp
  <1>2. f[x] \in Nat /\ \A y \in S : f[y] \in Nat
    BY DEF SumsUp
  <1> QED
    BY <1>1, <1>2, SumCounts, UnitsOfUnion, SumType DEF SumsUp

LEMMA SumChanges ==
    ASSUME NEW S, NEW x \in S, NEW f, NEW g, SumsUp(f, S), SumsUp(g, S),
           \A y \in S \ {x} : f[y] = g[y]
    PROVE  SumFunctionOnSet(g, S) = SumFunctionOnSet(f, S) - f[x] + g[x]
  <1> DEFINE T == S \ {x}
  <1>1. S = T \union {x} /\ x \notin T
    OBVIOUS
  <1>2. SumsUp(f, T)
    BY <1>1, FS_Subset DEF SumsUp
  <1>3. f[x] \in Nat /\ g[x] \in Nat
    BY DEF SumsUp
  <1>4. SumFunctionOnSet(f, T) = SumFunctionOnSet(g, T)
    BY <1>2, SumAgrees
  <1> HIDE DEF T
  <1>5. SumsUp(f, T \union {x}) /\ SumsUp(g, T \union {x})
    BY <1>1
  <1>6. /\ SumFunctionOnSet(f, T \union {x}) = f[x] + SumFunctionOnSet(f, T)
        /\ SumFunctionOnSet(f, T) \in Nat
    BY <1>1, <1>5, SumAdds
  <1>7. SumFunctionOnSet(g, T \union {x}) = g[x] + SumFunctionOnSet(g, T)
    BY <1>1, <1>5, SumAdds
  <1>8. SumFunctionOnSet(g, S) = g[x] + SumFunctionOnSet(f, T) /\ SumFunctionOnSet(f, S) = f[x] + SumFunctionOnSet(f, T)
    BY <1>1, <1>4, <1>6, <1>7
  <1> QED
    BY <1>3, <1>6, <1>8

LEMMA SumGrows ==
    ASSUME NEW S, NEW T \in SUBSET S, NEW f, SumsUp(f, S)
    PROVE  SumFunctionOnSet(f, T) <= SumFunctionOnSet(f, S)
  <1>1. SumsUp(f, T)
    BY FS_Subset DEF SumsUp
  <1>2. Units(f, T) \subseteq Units(f, S)
    BY DEF Units
  <1> QED
    BY <1>1, <1>2, SumCounts, FS_Subset DEF SumsUp

(* The sum over a part of a set is a sum over the set. *)
LEMMA SumOfPart ==
    ASSUME NEW S, IsFiniteSet(S), NEW f, NEW g, NEW T \in SUBSET S,
           \A x \in S : f[x] \in Nat /\ g[x] = IF x \in T THEN f[x] ELSE 0
    PROVE  SumFunctionOnSet(f, T) = SumFunctionOnSet(g, S)
  <1>1. IsFiniteSet(T) /\ (\A x \in T : f[x] \in Nat) /\ (\A x \in S : g[x] \in Nat)
    BY FS_Subset
  <1>2. Units(f, T) = Units(g, S)
    BY DEF Units
  <1> QED
    BY <1>1, <1>2, SumCounts

LEMMA SumBounds ==
    ASSUME NEW S, NEW x \in S, NEW f, SumsUp(f, S)
    PROVE  f[x] <= SumFunctionOnSet(f, S)
  <1> DEFINE T == S \ {x}
  <1>1. S = T \union {x} /\ x \notin T
    OBVIOUS
  <1> HIDE DEF T
  <1>2. /\ SumFunctionOnSet(f, T \union {x}) = f[x] + SumFunctionOnSet(f, T)
        /\ SumFunctionOnSet(f, T) \in Nat
    BY <1>1, SumAdds
  <1>3. f[x] \in Nat
    BY DEF SumsUp
  <1> QED
    BY <1>1, <1>2, <1>3
=============================================================================

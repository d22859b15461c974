--------------------------- MODULE VoteList_proofs ---------------------------
(***************************************************************************)
(* The loops of common/vote.go do to the stored list what VoteDecision     *)
(* does to its ballot box.                                                 *)
(***************************************************************************)
EXTENDS VoteList, FiniteSetTheorems, SequenceTheorems, TLAPS

Ballot == [id : Decisions, voters : Seq(Nodes), height : Int]

Lists == Seq(Ballot)

(* One ballot per decision, each voter once. *)
Unique(list) ==
    /\ \A i, j \in DOMAIN list : list[i].id = list[j].id => i = j
    /\ \A i \in DOMAIN list : IsInjective(list[i].voters)

-----------------------------------------------------------------------------
(* A loop over a list, as a recursive function. *)
LEMMA LeastIndex ==
    ASSUME NEW n \in Nat, NEW S \in SUBSET (0..n), S # {}
    PROVE  \E k \in S : \A j \in S : j >= k
  <1> DEFINE Shorter == StrictSubsetOrdering(1..n)
             Pasts == {1..k : k \in S}
  <1>1. IsFiniteSet(1..n)
    BY FS_Interval
  <1>2. IsWellFoundedOn(Shorter, FiniteSubsetsOf(1..n))
    BY <1>1, FS_StrictSubsetOrderingWellFounded
  <1>3. Pasts \subseteq SUBSET (1..n) /\ Pasts # {}
    <2>1. \A k \in S : 1..k \in SUBSET (1..n)
      OBVIOUS
    <2> QED
      BY <2>1
  <1>4. Pasts \subseteq FiniteSubsetsOf(1..n)
    BY <1>1, <1>3, FS_FiniteSubsetsOfFinite
  <1>5. PICK T \in Pasts : \A U \in Pasts : <<U, T>> \notin Shorter
    <2> HIDE DEF Pasts, Shorter
    <2> QED
      BY <1>2, <1>3, <1>4, WFMin
  <1>6. PICK k \in S : T = 1..k
    OBVIOUS
  <1>7. ASSUME NEW j \in S, ~(j >= k) PROVE FALSE
    <2>1. 1..j \in SUBSET (1..n) /\ 1..k \in SUBSET (1..n)
      OBVIOUS
    <2>2. k \in 1..k /\ k \notin 1..j /\ 1..j \subseteq 1..k
      BY <1>7
    <2>3. <<1..j, 1..k>> \in Shorter
      BY <2>1, <2>2 DEF StrictSubsetOrdering
    <2> QED
      BY <1>5, <1>6, <2>3
  <1> QED
    BY <1>7

(* What holds before a loop and is kept by each round holds after it (Q    *)
(* are the rounds after which it holds).                                   *)
LEMMA LoopInduction ==
    ASSUME NEW n \in Nat, NEW Q, 0 \in Q, \A i \in 1..n : i - 1 \in Q => i \in Q
    PROVE  \A i \in 0..n : i \in Q
  <1> DEFINE Bad == {k \in 0..n : k \notin Q}
  <1>1. SUFFICES ASSUME Bad # {} PROVE FALSE
    OBVIOUS
  <1>2. PICK k \in Bad : \A j \in Bad : j >= k
    <2>1. Bad \in SUBSET (0..n)
      OBVIOUS
    <2> HIDE DEF Bad
    <2> QED
      BY <1>1, <2>1, LeastIndex
  <1>3. k \in 1..n /\ k - 1 \in 0..n
    BY <1>2
  <1>4. k - 1 \in Q
    BY <1>2, <1>3
  <1> QED
    BY <1>2, <1>3, <1>4

Loops(g, n, M, base, step) ==
    /\ g \in [0..n -> M]
    /\ \A i \in 0..n : g[i] = IF i = 0 THEN base ELSE step[i][g[i - 1]]

LEMMA LoopExists ==
    ASSUME NEW n \in Nat, NEW M, NEW base \in M, NEW step \in [1..n -> [M -> M]]
    PROVE  \E g : Loops(g, n, M, base, step)
  <1> DEFINE Follows(g, i) == g[i] = IF i = 0 THEN base ELSE step[i][g[i - 1]]
             Q == {k \in 0..n : \E g \in [0..n -> M] : \A i \in 0..k : Follows(g, i)}
  <1>1. 0 \in Q
    <2>1. [i \in 0..n |-> base] \in [0..n -> M] /\ Follows([i \in 0..n |-> base], 0)
      OBVIOUS
    <2>2. \A i \in 0..0 : i = 0
      OBVIOUS
    <2> HIDE DEF Follows
    <2> QED
      BY <2>1, <2>2
  <1>2. ASSUME NEW k \in 1..n, k - 1 \in Q PROVE k \in Q
    <2>1. k - 1 \in 0..n /\ k \in 0..n /\ k # 0
      OBVIOUS
    <2>2. PICK g \in [0..n -> M] : \A i \in 0..(k - 1) : Follows(g, i)
      BY <1>2
    <2> DEFINE h == [g EXCEPT ![k] = step[k][g[k - 1]]]
    <2>3. g[k - 1] \in M /\ step[k] \in [M -> M]
      BY <2>1
    <2>4. h \in [0..n -> M] /\ h[k] = step[k][g[k - 1]] /\ \A i \in 0..n : i # k => h[i] = g[i]
      BY <2>1, <2>3
    <2> HIDE DEF h
    <2>5. ASSUME NEW i \in 0..k PROVE Follows(h, i)
      <3>1. CASE i = k
        BY <2>1, <2>4, <3>1
      <3>2. CASE i # k
        <4>1. i \in 0..(k - 1) /\ (i # 0 => i - 1 \in 0..n /\ i - 1 # k) /\ i \in 0..n
          BY <3>2
        <4>2. g[i] = IF i = 0 THEN base ELSE step[i][g[i - 1]]
          BY <2>2, <4>1
        <4> QED
          BY <2>4, <3>2, <4>1, <4>2
      <3> QED
        BY <3>1, <3>2
    <2> HIDE DEF Follows
    <2> QED
      BY <2>1, <2>4, <2>5
  <1>3. n \in Q
    <2> HIDE DEF Q
    <2>1. \A i \in 0..n : i \in Q
      BY <1>1, <1>2, LoopInduction
    <2> QED
      BY <2>1
  <1> QED
    BY <1>3 DEF Loops

(* The rounds of the loop of Vote. *)
LEMMA Rounds ==
    ASSUME candidates \in Lists, NEW d \in Decisions, NEW n \in Nodes, height \in Int
    PROVE  /\ LoopOfVote(d, n)[0] = <<>>
           /\ \A i \in 1..Len(candidates) :
                 LoopOfVote(d, n)[i] =
                    IF Skipped(candidates[i]) THEN LoopOfVote(d, n)[i - 1]
                    ELSE Append(LoopOfVote(d, n)[i - 1], WithVote(candidates[i], d, n))
  <1> DEFINE N == Len(candidates)
             step == [i \in 1..N |-> [s \in Lists |->
                        IF Skipped(candidates[i]) THEN s ELSE Append(s, WithVote(candidates[i], d, n))]]
             IsLoop(new) == new = [i \in 0..N |->
                        IF i = 0 THEN <<>>
                        ELSE IF Skipped(candidates[i]) THEN new[i - 1]
                        ELSE Append(new[i - 1], WithVote(candidates[i], d, n))]
             loop == CHOOSE new : IsLoop(new)
  <1>1. N \in Nat /\ \A i \in 1..N : candidates[i] \in Ballot
    BY DEF Lists
  <1>2. \A i \in 1..N : WithVote(candidates[i], d, n) \in Ballot
    <2>1. ASSUME NEW i \in 1..N PROVE Append(candidates[i].voters, n) \in Seq(Nodes)
      BY <1>1 DEF Ballot
    <2> QED
      BY <1>1, <2>1 DEF WithVote, Ballot
  <1>3. step \in [1..N -> [Lists -> Lists]]
    BY <1>2 DEF Lists
  <1>4. PICK g \in [0..N -> Lists] :
           g[0] = <<>> /\ \A i \in 1..N : g[i] = step[i][g[i - 1]]
    <2> DEFINE base == <<>>
    <2>1. base \in Lists
      BY DEF Lists
    <2> HIDE DEF step, N, base
    <2>2. PICK g : Loops(g, N, Lists, base, step)
      BY <1>1, <1>3, <2>1, LoopExists
    <2>3. g \in [0..N -> Lists] /\ g[0] = base /\ \A i \in 1..N : g[i] = step[i][g[i - 1]]
      BY <1>1, <2>2 DEF Loops
    <2> QED
      BY <2>3 DEF base
  <1>5. IsLoop(g)
    <2>1. ASSUME NEW i \in 1..N
          PROVE  g[i] = IF Skipped(candidates[i]) THEN g[i - 1]
                        ELSE Append(g[i - 1], WithVote(candidates[i], d, n))
      <3>1. g[i - 1] \in Lists /\ g[i] = step[i][g[i - 1]]
        BY <1>1, <1>4
      <3> HIDE DEF N
      <3>2. step[i] = [s \in Lists |->
                         IF Skipped(candidates[i]) THEN s ELSE Append(s, WithVote(candidates[i], d, n))]
        OBVIOUS
      <3> HIDE DEF step
      <3> QED
        BY <3>1, <3>2
    <2>2. \A i \in 0..N : i = 0 \/ i \in 1..N
      BY <1>1
    <2> HIDE DEF N
    <2> QED
      BY <1>4, <2>1, <2>2
  <1>6. IsLoop(loop)
    <2> HIDE DEF Loops
    <2> QED
      BY <1>5
  <1>7. LoopOfVote(d, n) = loop
    BY DEF LoopOfVote
  <1> HIDE DEF loop
  <1>8. 0 \in 0..N /\ \A i \in 1..N : i \in 0..N /\ i # 0
    BY <1>1
  <1>9. \A i \in 0..N : loop[i] = IF i = 0 THEN <<>>
                        ELSE IF Skipped(candidates[i]) THEN loop[i - 1]
                        ELSE Append(loop[i - 1], WithVote(candidates[i], d, n))
    <2> HIDE DEF N
    <2> QED
      BY <1>6
  <1> QED
    BY <1>7, <1>8, <1>9
-----------------------------------------------------------------------------
(* Lists of ballots, as sets. *)
LEMMA Appending ==
    ASSUME NEW B, NEW s \in Seq(B), NEW b \in B
    PROVE  /\ Append(s, b) \in Seq(B)
           /\ DOMAIN Append(s, b) = DOMAIN s \union {Len(s) + 1}
           /\ Len(s) + 1 \notin DOMAIN s
           /\ Append(s, b)[Len(s) + 1] = b
           /\ \A i \in DOMAIN s : Append(s, b)[i] = s[i]
           /\ ToSet(Append(s, b)) = ToSet(s) \union {b}
  <1>1. /\ Append(s, b) \in Seq(B)
        /\ DOMAIN Append(s, b) = DOMAIN s \union {Len(s) + 1}
        /\ Len(s) + 1 \notin DOMAIN s
        /\ Append(s, b)[Len(s) + 1] = b
        /\ \A i \in DOMAIN s : Append(s, b)[i] = s[i]
    OBVIOUS
  <1> QED
    BY <1>1 DEF ToSet

LEMMA VoterAdded ==
    ASSUME NEW v \in Seq(Nodes), IsInjective(v), NEW n \in Nodes, ~Contains(v, n)
    PROVE  /\ Append(v, n) \in Seq(Nodes) /\ IsInjective(Append(v, n))
           /\ ToSet(Append(v, n)) = ToSet(v) \union {n}
  <1>1. \A i \in DOMAIN v : v[i] # n
    BY DEF Contains
  <1>2. IsInjective(Append(v, n))
    BY <1>1, Appending DEF IsInjective
  <1> QED
    BY <1>2, Appending

(* One ballot per decision: the places of its ballot. *)
LEMMA Placed ==
    ASSUME NEW list \in Lists, Unique(list), NEW k \in DOMAIN list
    PROVE  IndexToRemove(list, list[k].id) = k /\ PlaceOf(list, list[k].id) = k
  <1>1. k \in 1..Len(list) /\ 1..Len(list) = DOMAIN list /\ k \in Int /\ k # 0
    BY DEF Lists
  <1>2. {i \in 1..Len(list) : list[i].id = list[k].id} = {k}
    BY <1>1 DEF Unique
  <1>3. Min({k}) = k /\ Max({k}) = k
    BY <1>1 DEF Min, Max
  <1>4. SelectInSeq(list, LAMBDA cnd : cnd.id = list[k].id) = k
    BY <1>2, <1>3 DEF SelectInSeq
  <1>5. IndexToRemove(list, list[k].id) = k
    BY <1>1, <1>4 DEF IndexToRemove
  <1>6. PlaceOf(list, list[k].id) = k
    BY <1>2, <1>3 DEF PlaceOf, SelectLastInSeq
  <1> QED
    BY <1>5, <1>6

LEMMA NotPlaced ==
    ASSUME NEW list \in Lists, NEW d, \A b \in ToSet(list) : b.id # d
    PROVE  PlaceOf(list, d) = 0
  <1>1. {i \in 1..Len(list) : list[i].id = d} = {}
    BY DEF ToSet, Lists
  <1> QED
    BY <1>1 DEF SelectLastInSeq, PlaceOf

(* BoxOfList, of any list. *)
BoxOf(list) ==
    [d \in Decisions |->
       LET i == PlaceOf(list, d)
       IN  IF i = 0
           THEN [voters |-> {}, height |-> 0]
           ELSE [voters |-> ToSet(list[i].voters), height |-> list[i].height]]

LEMMA BallotInBox ==
    ASSUME NEW list \in Lists, Unique(list), NEW b \in ToSet(list), NEW d, b.id = d
    PROVE  /\ b \in Ballot
           /\ BoxOf(list)[d] = [voters |-> ToSet(b.voters), height |-> b.height]
           /\ list[PlaceOf(list, d)] = b
  <1>1. PICK k \in DOMAIN list : list[k] = b
    BY DEF ToSet
  <1>2. b \in Ballot /\ k # 0
    BY <1>1 DEF Lists
  <1>3. PlaceOf(list, b.id) = k
    BY <1>1, Placed
  <1> QED
    BY <1>1, <1>2, <1>3 DEF BoxOf, Ballot

LEMMA NoBallotInBox ==
    ASSUME NEW list \in Lists, NEW d \in Decisions, \A b \in ToSet(list) : b.id # d
    PROVE  BoxOf(list)[d] = [voters |-> {}, height |-> 0]
  BY NotPlaced DEF BoxOf

-----------------------------------------------------------------------------
(* What the loop of Vote makes of the list. *)
LiveBefore(i) == {j \in 1..i : ~Skipped(candidates[j])}

UniqueIds(new) == \A k, l \in DOMAIN new : new[k].id = new[l].id => k = l

LEMMA Voted ==
    ASSUME NEW b \in Ballot, NEW d \in Decisions, NEW n \in Nodes, height \in Int
    PROVE  WithVote(b, d, n) \in Ballot /\ WithVote(b, d, n).id = b.id
  <1>1. b.voters \in Seq(Nodes)
    BY DEF Ballot
  <1>2. Append(b.voters, n) \in Seq(Nodes)
    BY <1>1
  <1> QED
    BY <1>2 DEF WithVote, Ballot

LEMMA LoopOfUnique ==
    ASSUME candidates \in Lists, Unique(candidates), height \in Int,
           NEW d \in Decisions, NEW n \in Nodes, NEW m \in 0..Len(candidates)
    PROVE  /\ LoopOfVote(d, n)[m] \in Lists
           /\ ToSet(LoopOfVote(d, n)[m]) = {WithVote(candidates[j], d, n) : j \in LiveBefore(m)}
           /\ UniqueIds(LoopOfVote(d, n)[m])
  <1> DEFINE N == Len(candidates)
             new(i) == LoopOfVote(d, n)[i]
             b(i) == WithVote(candidates[i], d, n)
             Set(i) == {b(j) : j \in LiveBefore(i)}
             Q == {i \in 0..N : new(i) \in Lists /\ ToSet(new(i)) = Set(i) /\ UniqueIds(new(i))}
  <1>1. N \in Nat /\ DOMAIN candidates = 1..N /\ \A i \in 1..N : candidates[i] \in Ballot
    BY DEF Lists
  <1>2. \A i \in 1..N : b(i) \in Ballot /\ b(i).id = candidates[i].id
    BY <1>1, Voted
  <1>3. 0 \in Q
    <2>1. LiveBefore(0) = {} /\ 0 \in 0..N
      BY <1>1 DEF LiveBefore
    <2>2. new(0) = <<>>
      BY Rounds
    <2>3. <<>> \in Lists /\ ToSet(<<>>) = {} /\ UniqueIds(<<>>)
      BY DEF UniqueIds, ToSet, Lists
    <2>4. Set(0) = {}
      BY <2>1
    <2> HIDE DEF new, Set
    <2> QED
      BY <2>1, <2>2, <2>3, <2>4
  <1>4. ASSUME NEW i \in 1..N, i - 1 \in Q PROVE i \in Q
    <2>1. i - 1 \in 0..N /\ i \in 0..N /\ 1..i = 1..(i - 1) \union {i} /\ i \notin 1..(i - 1)
          /\ 1..i \subseteq 1..N
      BY <1>1
    <2>2. new(i) = IF Skipped(candidates[i]) THEN new(i - 1) ELSE Append(new(i - 1), b(i))
      BY Rounds
    <2>3. CASE Skipped(candidates[i])
      <3>1. LiveBefore(i) = LiveBefore(i - 1)
        BY <2>1, <2>3 DEF LiveBefore
      <3>2. new(i) = new(i - 1)
        BY <2>2, <2>3
      <3> HIDE DEF new
      <3> QED
        BY <1>4, <2>1, <3>1, <3>2
    <2>4. CASE ~Skipped(candidates[i])
      <3>1. LiveBefore(i) = LiveBefore(i - 1) \union {i}
        BY <2>1, <2>4 DEF LiveBefore
      <3>2. new(i) = Append(new(i - 1), b(i)) /\ b(i) \in Ballot
        BY <1>2, <2>2, <2>4
      <3>3. new(i - 1) \in Lists /\ ToSet(new(i - 1)) = Set(i - 1) /\ UniqueIds(new(i - 1))
        BY <1>4
      <3> HIDE DEF new, b
      <3>4. /\ new(i) \in Lists
            /\ DOMAIN new(i) = DOMAIN new(i - 1) \union {Len(new(i - 1)) + 1}
            /\ Len(new(i - 1)) + 1 \notin DOMAIN new(i - 1)
            /\ new(i)[Len(new(i - 1)) + 1] = b(i)
            /\ \A k \in DOMAIN new(i - 1) : new(i)[k] = new(i - 1)[k]
            /\ ToSet(new(i)) = ToSet(new(i - 1)) \union {b(i)}
        BY <3>2, <3>3, Appending DEF Lists
      <3>5. ToSet(new(i)) = Set(i)
        BY <3>1, <3>3, <3>4
      <3>6. \A k \in DOMAIN new(i - 1) : new(i - 1)[k].id # b(i).id
        <4>1. ASSUME NEW k \in DOMAIN new(i - 1) PROVE new(i - 1)[k].id # b(i).id
          <5>1. new(i - 1)[k] \in Set(i - 1)
            BY <3>3 DEF ToSet
          <5>2. PICK j \in LiveBefore(i - 1) : new(i - 1)[k] = b(j)
            BY <5>1
          <5>3. j \in 1..N /\ j # i
            BY <1>1, <2>1 DEF LiveBefore
          <5>4. candidates[j].id # candidates[i].id
            BY <1>1, <5>3 DEF Unique
          <5> QED
            BY <1>2, <5>2, <5>3, <5>4
        <4> QED
          BY <4>1
      <3>7. UniqueIds(new(i))
        BY <3>3, <3>4, <3>6 DEF UniqueIds
      <3> QED
        BY <2>1, <3>4, <3>5, <3>7
    <2> QED
      BY <2>3, <2>4
  <1>5. m \in Q
    <2> HIDE DEF Q
    <2>1. \A i \in 0..N : i \in Q
      BY <1>1, <1>3, <1>4, LoopInduction
    <2> QED
      BY <2>1
  <1> QED
    BY <1>5

NewBallot(d, n) == [id |-> d, voters |-> <<n>>, height |-> height]

Live == {b \in ToSet(candidates) : ~Skipped(b)}

(* A vote is added to the live ballot of its decision or to a new one. *)
LEMMA NewList ==
    ASSUME candidates \in Lists, Unique(candidates), height \in Int,
           NEW d \in Decisions, NEW n \in Nodes, ~Repeated(d, n)
    PROVE  /\ NewCandidates(d, n) \in Lists
           /\ Unique(NewCandidates(d, n))
           /\ ToSet(NewCandidates(d, n)) =
                {WithVote(b, d, n) : b \in Live}
                  \union (IF \E b \in Live : b.id = d THEN {} ELSE {NewBallot(d, n)})
  <1> DEFINE N == Len(candidates)
             seen == LoopOfVote(d, n)[N]
             new == NewCandidates(d, n)
             Votes == {WithVote(b, d, n) : b \in Live}
  <1>1. N \in 0..N /\ DOMAIN candidates = 1..N /\ \A i \in 1..N : candidates[i] \in Ballot
    BY DEF Lists
  <1>2. seen \in Lists /\ UniqueIds(seen) /\ ToSet(seen) = {WithVote(candidates[j], d, n) : j \in LiveBefore(N)}
    BY <1>1, LoopOfUnique
  <1>3. Live = {candidates[j] : j \in LiveBefore(N)}
    BY <1>1 DEF Live, LiveBefore, ToSet
  <1>4. ToSet(seen) = Votes
    <2> HIDE DEF seen, N
    <2> QED
      BY <1>2, <1>3
  <1>5. \A b \in Live : b \in Ballot /\ WithVote(b, d, n).id = b.id
    BY <1>1, Voted DEF Live, ToSet
  <1>6. NewBallot(d, n) \in Ballot
    BY DEF NewBallot, Ballot
  <1>7. new = IF \E b \in Live : b.id = d THEN seen ELSE Append(seen, NewBallot(d, n))
    <2>1. (\E i \in DOMAIN seen : seen[i].id = d) <=> (\E b \in Live : b.id = d)
      <3>1. (\E i \in DOMAIN seen : seen[i].id = d) <=> (\E b \in ToSet(seen) : b.id = d)
        BY DEF ToSet
      <3> HIDE DEF seen
      <3> QED
        BY <1>4, <1>5, <3>1
    <2> QED
      BY <2>1 DEF NewCandidates, NewBallot
  <1> HIDE DEF seen, new
  <1>8. /\ new \in Lists /\ UniqueIds(new)
        /\ ToSet(new) = Votes \union (IF \E b \in Live : b.id = d THEN {} ELSE {NewBallot(d, n)})
    <2>1. CASE \E b \in Live : b.id = d
      BY <1>2, <1>4, <1>7, <2>1
    <2>2. CASE ~\E b \in Live : b.id = d
      <3>1. new = Append(seen, NewBallot(d, n))
        BY <1>7, <2>2
      <3>2. /\ new \in Lists
            /\ DOMAIN new = DOMAIN seen \union {Len(seen) + 1}
            /\ new[Len(seen) + 1] = NewBallot(d, n)
            /\ \A i \in DOMAIN seen : new[i] = seen[i]
            /\ ToSet(new) = ToSet(seen) \union {NewBallot(d, n)}
        BY <1>2, <1>6, <3>1, Appending DEF Lists
      <3>3. \A i \in DOMAIN seen : seen[i].id # d
        BY <1>4, <1>5, <2>2 DEF ToSet
      <3>4. UniqueIds(new)
        BY <1>2, <3>2, <3>3 DEF UniqueIds, NewBallot
      <3> QED
        BY <1>4, <2>2, <3>2, <3>4
    <2> QED
      BY <2>1, <2>2
  <1>9. ASSUME NEW b \in ToSet(new) PROVE IsInjective(b.voters)
    <2>1. CASE b = NewBallot(d, n)
      BY <2>1 DEF NewBallot, IsInjective
    <2>2. CASE b \in Votes
      <3>1. PICK c \in Live : b = WithVote(c, d, n)
        BY <2>2
      <3>2. c \in Ballot /\ IsInjective(c.voters) /\ (c.id = d => ~HasVoter(c, n))
        BY <1>5, <3>1 DEF Live, ToSet, Unique, Repeated
      <3>3. CASE c.id = d
        <4>1. c.voters \in Seq(Nodes) /\ ~Contains(c.voters, n)
          BY <3>2, <3>3 DEF Ballot, HasVoter
        <4>2. IsInjective(Append(c.voters, n))
          BY <3>2, <4>1, VoterAdded
        <4> QED
          BY <3>1, <3>3, <4>2 DEF WithVote
      <3>4. CASE c.id # d
        BY <3>1, <3>2, <3>4 DEF WithVote
      <3> QED
        BY <3>3, <3>4
    <2> QED
      BY <1>8, <1>9, <2>1, <2>2
  <1> QED
    BY <1>8, <1>9 DEF Unique, UniqueIds, ToSet, new

(* RemoveVotes takes the ballot of the decision out of the list. *)
LEMMA ListLoses ==
    ASSUME NEW list \in Lists, Unique(list), NEW k \in DOMAIN list
    PROVE  /\ ListWithout(list, list[k].id) \in Lists
           /\ Unique(ListWithout(list, list[k].id))
           /\ ToSet(ListWithout(list, list[k].id)) = {b \in ToSet(list) : b.id # list[k].id}
  <1> DEFINE rest == ListWithout(list, list[k].id)
             from(i) == IF i < k THEN i ELSE i + 1
  <1>1. /\ Len(list) \in Nat /\ DOMAIN list = 1..Len(list) /\ k \in 1..Len(list)
        /\ \A i \in 1..Len(list) : list[i] \in Ballot
    BY DEF Lists
  <1>2. rest = SubSeq(list, 1, k - 1) \o SubSeq(list, k + 1, Len(list))
    BY Placed DEF ListWithout, RemoveAt
  <1>3. /\ SubSeq(list, 1, k - 1) \in Lists /\ Len(SubSeq(list, 1, k - 1)) = k - 1
        /\ \A i \in 1..(k - 1) : SubSeq(list, 1, k - 1)[i] = list[i]
    BY <1>1 DEF Lists
  <1>4. /\ SubSeq(list, k + 1, Len(list)) \in Lists /\ Len(SubSeq(list, k + 1, Len(list))) = Len(list) - k
        /\ \A i \in 1..(Len(list) - k) : SubSeq(list, k + 1, Len(list))[i] = list[k + i]
    <2> DEFINE l == Len(list)
               t == SubSeq(list, k + 1, l)
    <2>1. k + 1 \in Int /\ l \in Int /\ \A i \in (k + 1)..l : list[i] \in Ballot
      BY <1>1
    <2>2. /\ t \in Seq(Ballot) /\ Len(t) = IF k + 1 <= l THEN l - (k + 1) + 1 ELSE 0
          /\ \A i \in 1..(l - (k + 1) + 1) : t[i] = list[(k + 1) + i - 1]
      <3> HIDE DEF l
      <3> QED
        BY <2>1, SubSeqProperties
    <2>3. l - (k + 1) + 1 = l - k /\ (k + 1 <= l \/ l - k = 0)
      BY <1>1
    <2>4. \A i \in 1..(l - k) : (k + 1) + i - 1 = k + i
      BY <1>1
    <2> HIDE DEF t
    <2>5. Len(t) = l - k /\ \A i \in 1..(l - k) : t[i] = list[k + i]
      BY <2>2, <2>3, <2>4
    <2> QED
      BY <2>2, <2>5 DEF t, Lists
  <1> DEFINE s == SubSeq(list, 1, k - 1)
             t == SubSeq(list, k + 1, Len(list))
  <1>5. /\ rest \in Lists /\ Len(rest) = Len(list) - 1 /\ DOMAIN rest = 1..(Len(list) - 1)
        /\ \A i \in 1..(Len(list) - 1) : rest[i] = list[from(i)]
    <2> HIDE DEF s, t, rest
    <2>1. /\ s \in Lists /\ Len(s) = k - 1 /\ t \in Lists /\ Len(t) = Len(list) - k /\ rest = s \o t
          /\ \A i \in 1..(k - 1) : s[i] = list[i]
          /\ \A i \in 1..(Len(list) - k) : t[i] = list[k + i]
      BY <1>2, <1>3, <1>4 DEF s, t, rest
    <2>2. /\ rest \in Lists /\ Len(rest) = Len(s) + Len(t) /\ DOMAIN rest = 1..(Len(s) + Len(t))
          /\ \A i \in 1..(Len(s) + Len(t)) : rest[i] = IF i <= Len(s) THEN s[i] ELSE t[i - Len(s)]
      <3>1. s \in Seq(Ballot) /\ t \in Seq(Ballot) /\ rest = s \o t
        BY <2>1 DEF Lists
      <3>2. /\ s \o t \in Seq(Ballot) /\ Len(s \o t) = Len(s) + Len(t)
            /\ \A i \in 1..(Len(s) + Len(t)) : (s \o t)[i] = IF i <= Len(s) THEN s[i] ELSE t[i - Len(s)]
        BY <3>1, ConcatProperties
      <3>3. rest \in Seq(Ballot) /\ Len(rest) = Len(s) + Len(t) /\ DOMAIN rest = 1..Len(rest)
        BY <3>1, <3>2
      <3> QED
        BY <3>1, <3>2, <3>3 DEF Lists
    <2>3. Len(s) + Len(t) = Len(list) - 1
      BY <1>1, <2>1
    <2>4. ASSUME NEW i \in 1..(Len(list) - 1) PROVE rest[i] = list[from(i)]
      <3>1. CASE i < k
        <4>1. i \in 1..(k - 1) /\ i <= Len(s)
          BY <1>1, <2>1, <3>1
        <4> QED
          BY <2>1, <2>2, <2>3, <3>1, <4>1
      <3>2. CASE ~(i < k)
        <4>1. i - (k - 1) \in 1..(Len(list) - k) /\ ~(i <= Len(s)) /\ k + (i - (k - 1)) = i + 1
          BY <1>1, <2>1, <3>2
        <4> QED
          BY <2>1, <2>2, <2>3, <3>2, <4>1
      <3> QED
        BY <3>1, <3>2
    <2> QED
      BY <2>2, <2>3, <2>4
  <1> HIDE DEF rest
  <1>6. /\ \A i \in 1..(Len(list) - 1) : from(i) \in 1..Len(list) /\ from(i) # k
        /\ \A i, j \in 1..(Len(list) - 1) : from(i) = from(j) => i = j
        /\ \A j \in 1..Len(list) : j # k => \E i \in 1..(Len(list) - 1) : from(i) = j
    <2>1. ASSUME NEW j \in 1..Len(list), j # k PROVE \E i \in 1..(Len(list) - 1) : from(i) = j
      <3>1. CASE j < k
        <4>1. j \in 1..(Len(list) - 1) /\ from(j) = j
          BY <1>1, <3>1
        <4> QED
          BY <4>1
      <3>2. CASE j > k
        <4>1. j - 1 \in 1..(Len(list) - 1) /\ from(j - 1) = j
          BY <1>1, <3>2
        <4> QED
          BY <4>1
      <3> QED
        BY <1>1, <2>1, <3>1, <3>2
    <2> QED
      BY <1>1, <2>1
  <1> HIDE DEF from
  <1> DEFINE R == 1..(Len(list) - 1)
             L == 1..Len(list)
  <1>7. /\ rest \in Lists /\ DOMAIN rest = R /\ \A i \in R : rest[i] = list[from(i)]
        /\ \A i \in R : from(i) \in L /\ from(i) # k
        /\ \A i, j \in R : from(i) = from(j) => i = j
        /\ \A j \in L : j # k => \E i \in R : from(i) = j
        /\ DOMAIN list = L
    BY <1>1, <1>5, <1>6
  <1> HIDE DEF R, L
  <1>8. Unique(rest)
    BY <1>7 DEF Unique
  <1>9. ToSet(rest) = {list[j] : j \in L \ {k}}
    BY <1>7 DEF ToSet
  <1>10. {list[j] : j \in 1..Len(list) \ {k}} = {b \in ToSet(list) : b.id # list[k].id}
    BY <1>1 DEF ToSet, Unique
  <1> QED
    BY <1>7, <1>8, <1>9, <1>10 DEF rest, L

-----------------------------------------------------------------------------
(* The list before and after a vote, read as a box. *)
LEMMA BoxIsOfList == BoxOfList = BoxOf(candidates)
  BY DEF BoxOfList, BoxOf

LEMMA PrunedBox ==
    ASSUME candidates \in Lists, Unique(candidates), NEW e \in Decisions
    PROVE  /\ \A b \in Live : b.id = e =>
                /\ Abstract!Prune(BoxOfList, height)[e] = [voters |-> ToSet(b.voters), height |-> b.height]
                /\ Abstract!Prune(BoxOfList, height)[e].voters = ToSet(b.voters)
           /\ (\A b \in Live : b.id # e) => Abstract!Prune(BoxOfList, height)[e] = Abstract!NoBallot
  <1>1. Abstract!Prune(BoxOfList, height)[e] =
          IF height - BoxOfList[e].height > BlockDiff THEN Abstract!NoBallot ELSE BoxOfList[e]
    BY DEF Abstract!Prune, Abstract!Expired, BoxOfList
  <1>2. ASSUME NEW b \in Live, b.id = e
        PROVE  /\ Abstract!Prune(BoxOfList, height)[e] = [voters |-> ToSet(b.voters), height |-> b.height]
               /\ Abstract!Prune(BoxOfList, height)[e].voters = ToSet(b.voters)
    <2>1. BoxOfList[e] = [voters |-> ToSet(b.voters), height |-> b.height]
      BY <1>2, BoxIsOfList, BallotInBox DEF Live
    <2>2. ~(height - b.height > BlockDiff)
      BY <1>2 DEF Live, Skipped
    <2> QED
      BY <1>1, <2>1, <2>2
  <1>3. ASSUME \A b \in Live : b.id # e
        PROVE  Abstract!Prune(BoxOfList, height)[e] = Abstract!NoBallot
    <2>1. CASE \E b \in ToSet(candidates) : b.id = e
      <3>1. PICK b \in ToSet(candidates) : b.id = e
        BY <2>1
      <3>2. height - b.height > BlockDiff
        BY <1>3, <3>1 DEF Live, Skipped
      <3>3. BoxOfList[e] = [voters |-> ToSet(b.voters), height |-> b.height]
        BY <3>1, BoxIsOfList, BallotInBox
      <3>4. BoxOfList[e].height = b.height
        BY <3>3
      <3> QED
        BY <1>1, <3>2, <3>4
    <2>2. CASE \A b \in ToSet(candidates) : b.id # e
      BY <1>1, <2>2, BoxIsOfList, NoBallotInBox DEF Abstract!NoBallot
    <2> QED
      BY <2>1, <2>2
  <1> QED
    BY <1>2, <1>3

LEMMA RepeatedIsHasVoted ==
    ASSUME candidates \in Lists, Unique(candidates), NEW d \in Decisions, NEW n
    PROVE  Repeated(d, n) <=> Abstract!HasVoted(BoxOfList, d, n, height)
  <1>1. ASSUME NEW b \in Live PROVE HasVoter(b, n) <=> n \in ToSet(b.voters)
    <2>1. b.voters \in Seq(Nodes)
      BY BallotInBox DEF Live, Ballot
    <2> QED
      BY <2>1 DEF HasVoter, Contains, ToSet
  <1>2. Repeated(d, n) <=> \E b \in Live : b.id = d /\ HasVoter(b, n)
    BY DEF Repeated, Live, ToSet
  <1>3. Abstract!HasVoted(BoxOfList, d, n, height) <=> n \in Abstract!Prune(BoxOfList, height)[d].voters
    BY DEF Abstract!HasVoted
  <1>4. CASE \E b \in Live : b.id = d
    <2>1. PICK b \in Live : b.id = d
      BY <1>4
    <2>2. \A c \in Live : c.id = d => c = b
      BY <2>1 DEF Live, ToSet, Unique
    <2>3. Abstract!Prune(BoxOfList, height)[d].voters = ToSet(b.voters)
      BY <2>1, PrunedBox
    <2> QED
      BY <1>1, <1>2, <1>3, <2>1, <2>2, <2>3
  <1>5. CASE \A b \in Live : b.id # d
    <2>1. Abstract!Prune(BoxOfList, height)[d].voters = {}
      BY <1>5, PrunedBox DEF Abstract!NoBallot
    <2> QED
      BY <1>2, <1>3, <1>5, <2>1
  <1> QED
    BY <1>4, <1>5

(* The ballot that Vote counts, and the box that it leaves. *)
LEMMA VoteOfList ==
    ASSUME candidates \in Lists, Unique(candidates), height \in Int,
           NEW d \in Decisions, NEW n \in Nodes
    PROVE  /\ StoredByVote(d, n) \in Lists /\ Unique(StoredByVote(d, n))
           /\ \E b \in ToSet(StoredByVote(d, n)) :
                 /\ b.id = d
                 /\ ToSet(b.voters) = Abstract!VotersWith(BoxOfList, d, n, height)
                 /\ Repeated(d, n) => ~Skipped(b) /\ HasVoter(b, n)
           /\ BoxOf(StoredByVote(d, n)) = Abstract!Vote(BoxOfList, d, n, height)
  <1>1. CASE Repeated(d, n)
    <2>1. StoredByVote(d, n) = candidates /\ Abstract!Vote(BoxOfList, d, n, height) = BoxOfList
      BY <1>1, RepeatedIsHasVoted DEF StoredByVote, Abstract!Vote
    <2>2. PICK b \in Live : b.id = d /\ HasVoter(b, n)
      BY <1>1 DEF Repeated, Live, ToSet
    <2>3. ToSet(b.voters) = Abstract!VotersWith(BoxOfList, d, n, height)
      <3>1. Abstract!Prune(BoxOfList, height)[d].voters = ToSet(b.voters)
        BY <2>2, PrunedBox
      <3>2. n \in Abstract!Prune(BoxOfList, height)[d].voters
        BY <1>1, RepeatedIsHasVoted DEF Abstract!HasVoted
      <3> QED
        BY <3>1, <3>2 DEF Abstract!VotersWith
    <2> QED
      BY <2>1, <2>2, <2>3, BoxIsOfList DEF Live
  <1>2. CASE ~Repeated(d, n)
    <2> DEFINE new == NewCandidates(d, n)
               box == Abstract!Prune(BoxOfList, height)
               voters == Abstract!VotersWith(BoxOfList, d, n, height)
    <2>1. /\ new \in Lists /\ Unique(new)
          /\ ToSet(new) = {WithVote(b, d, n) : b \in Live}
                            \union (IF \E b \in Live : b.id = d THEN {} ELSE {NewBallot(d, n)})
      BY <1>2, NewList
    <2>2. StoredByVote(d, n) = new
      BY <1>2 DEF StoredByVote
    <2> HIDE DEF new
    <2>3. \A b \in Live : b \in Ballot
      BY BallotInBox DEF Live
    <2>4. \E b \in ToSet(new) : b.id = d /\ ToSet(b.voters) = voters /\ b.height = height
      <3>1. CASE \E b \in Live : b.id = d
        <4>1. PICK b \in Live : b.id = d
          BY <3>1
        <4>2. ToSet(b.voters) = box[d].voters
          BY <4>1, PrunedBox
        <4>3. /\ WithVote(b, d, n) \in ToSet(new) /\ WithVote(b, d, n).id = d
              /\ WithVote(b, d, n).voters = Append(b.voters, n) /\ WithVote(b, d, n).height = height
          BY <2>1, <4>1 DEF WithVote
        <4>4. b.voters \in Seq(Nodes)
          BY <2>3 DEF Ballot
        <4>5. ToSet(Append(b.voters, n)) = voters
          BY <4>2, <4>4, Appending DEF Abstract!VotersWith
        <4> QED
          BY <4>3, <4>5
      <3>2. CASE \A b \in Live : b.id # d
        <4>1. NewBallot(d, n) \in ToSet(new)
          BY <2>1, <3>2
        <4>2. box[d].voters = {}
          BY <3>2, PrunedBox DEF Abstract!NoBallot
        <4>3. ToSet(<<n>>) = {n}
          BY DEF ToSet
        <4> QED
          BY <4>1, <4>2, <4>3 DEF NewBallot, Abstract!VotersWith
      <3> QED
        BY <3>1, <3>2
    <2>5. BoxOf(new)[d] = [voters |-> voters, height |-> height]
      BY <2>1, <2>4, BallotInBox
    <2>6. ASSUME NEW e \in Decisions, e # d PROVE BoxOf(new)[e] = box[e]
      <3>1. CASE \E b \in Live : b.id = e
        <4>1. PICK b \in Live : b.id = e
          BY <3>1
        <4>2. b \in ToSet(new)
          BY <2>1, <2>6, <4>1 DEF WithVote
        <4>3. BoxOf(new)[e] = [voters |-> ToSet(b.voters), height |-> b.height]
          BY <2>1, <4>1, <4>2, BallotInBox
        <4>4. box[e] = [voters |-> ToSet(b.voters), height |-> b.height]
          BY <4>1, PrunedBox
        <4> QED
          BY <4>3, <4>4
      <3>2. CASE \A b \in Live : b.id # e
        <4>1. \A b \in ToSet(new) : b.id # e
          BY <2>1, <2>6, <3>2 DEF WithVote, NewBallot
        <4> QED
          BY <2>1, <3>2, <4>1, NoBallotInBox, PrunedBox DEF Abstract!NoBallot
      <3> QED
        BY <3>1, <3>2
    <2>7. BoxOf(new) = [box EXCEPT ![d] = [voters |-> voters, height |-> height]]
      <3>1. box = [e \in Decisions |-> box[e]] /\ BoxOf(new) = [e \in Decisions |-> BoxOf(new)[e]]
        BY DEF BoxOf, BoxOfList, Abstract!Prune
      <3> HIDE DEF box
      <3> QED
        BY <2>5, <2>6, <3>1
    <2>8. Abstract!Vote(BoxOfList, d, n, height) = [box EXCEPT ![d] = [voters |-> voters, height |-> height]]
      BY <1>2, RepeatedIsHasVoted DEF Abstract!Vote
    <2> QED
      BY <1>2, <2>1, <2>2, <2>4, <2>7, <2>8
  <1> QED
    BY <1>1, <1>2

-----------------------------------------------------------------------------
(* What a call returns, and the list without the accepted ballot. *)
LEMMA VotersAreCounted ==
    ASSUME NEW v \in Seq(Nodes), IsInjective(v)
    PROVE  Cardinality(ToSet(v)) = Len(v)
  <1>1. /\ v \in [1..Len(v) -> ToSet(v)] /\ Len(v) \in Nat
        /\ \A i, j \in 1..Len(v) : v[i] = v[j] => i = j
        /\ \A x \in ToSet(v) : \E i \in 1..Len(v) : v[i] = x
    BY DEF ToSet, IsInjective
  <1>2. v \in Bijection(1..Len(v), ToSet(v))
    BY <1>1 DEF Bijection, Injection, Surjection, IsInjective
  <1>3. ExistsBijection(1..Len(v), ToSet(v))
    BY <1>2 DEF ExistsBijection
  <1> QED
    BY <1>1, <1>3, FS_Interval, FS_Bijection

LEMMA OneCardinality ==
    ASSUME NEW S
    PROVE  Abstract!Cardinality(S) = Cardinality(S)
  BY DEF Abstract!Cardinality, Cardinality

LEMMA CallOfList ==
    ASSUME candidates \in Lists, Unique(candidates), height \in Int,
           NEW d \in Decisions, NEW n \in Nodes
    PROVE  /\ ReturnedByVote(d, n) = Abstract!VoteCount(BoxOfList, d, n, height)
           /\ ToSet(StoredByVote(d, n)[PlaceOf(StoredByVote(d, n), d)].voters) =
                 Abstract!VotersWith(BoxOfList, d, n, height)
           /\ ListWithout(StoredByVote(d, n), d) \in Lists
           /\ Unique(ListWithout(StoredByVote(d, n), d))
           /\ ToSet(ListWithout(StoredByVote(d, n), d)) = {b \in ToSet(StoredByVote(d, n)) : b.id # d}
           /\ BoxOf(ListWithout(StoredByVote(d, n), d)) =
                 Abstract!RemoveVotes(Abstract!Vote(BoxOfList, d, n, height), d)
  <1> DEFINE list == StoredByVote(d, n)
             rest == ListWithout(list, d)
             voters == Abstract!VotersWith(BoxOfList, d, n, height)
  <1>1. /\ list \in Lists /\ Unique(list)
        /\ BoxOf(list) = Abstract!Vote(BoxOfList, d, n, height)
    BY VoteOfList
  <1>2. PICK b \in ToSet(list) : b.id = d /\ ToSet(b.voters) = voters /\ (Repeated(d, n) => ~Skipped(b) /\ HasVoter(b, n))
    BY VoteOfList
  <1>3. PICK k \in DOMAIN list : list[k] = b
    BY DEF ToSet
  <1>4. PlaceOf(list, d) = k /\ b \in Ballot /\ IsInjective(b.voters)
    BY <1>1, <1>2, <1>3, Placed, BallotInBox DEF Unique
  <1>5. Len(b.voters) = Cardinality(voters)
    BY <1>2, <1>4, VotersAreCounted DEF Ballot
  <1>6. ReturnedByVote(d, n) = Len(b.voters)
    <2>1. CASE Repeated(d, n)
      <3>1. list = candidates
        BY <2>1 DEF StoredByVote
      <3>2. /\ DOMAIN candidates = 1..Len(candidates) /\ k \in 1..Len(candidates) /\ k \in Int
            /\ candidates[k] = b
        BY <1>3, <3>1 DEF Lists
      <3>3. {i \in 1..Len(candidates) :
               ~Skipped(candidates[i]) /\ candidates[i].id = d /\ HasVoter(candidates[i], n)} = {k}
        BY <1>2, <2>1, <3>2 DEF Unique
      <3>4. Min({k}) = k
        BY <3>2 DEF Min
      <3>5. SelectInSeq(candidates, LAMBDA cnd : ~Skipped(cnd) /\ cnd.id = d /\ HasVoter(cnd, n)) = k
        BY <3>3, <3>4 DEF SelectInSeq
      <3> QED
        BY <2>1, <3>2, <3>5 DEF ReturnedByVote
    <2>2. CASE ~Repeated(d, n)
      <3>1. list = NewCandidates(d, n)
        BY <2>2 DEF StoredByVote
      <3> HIDE DEF list
      <3> QED
        BY <1>3, <1>4, <2>2, <3>1 DEF ReturnedByVote
    <2> QED
      BY <2>1, <2>2
  <1> HIDE DEF list
  <1>7. /\ rest \in Lists /\ Unique(rest)
        /\ ToSet(rest) = {c \in ToSet(list) : c.id # d}
    BY <1>1, <1>2, <1>3, ListLoses
  <1> HIDE DEF rest
  <1>8. ASSUME NEW e \in Decisions
        PROVE  BoxOf(rest)[e] = IF e = d THEN Abstract!NoBallot ELSE BoxOf(list)[e]
    <2>1. CASE \E c \in ToSet(rest) : c.id = e
      <3>1. PICK c \in ToSet(rest) : c.id = e
        BY <2>1
      <3>2. c \in ToSet(list) /\ e # d
        BY <1>7, <3>1
      <3>3. BoxOf(rest)[e] = [voters |-> ToSet(c.voters), height |-> c.height]
        BY <1>7, <3>1, BallotInBox
      <3>4. BoxOf(list)[e] = [voters |-> ToSet(c.voters), height |-> c.height]
        BY <1>1, <3>1, <3>2, BallotInBox
      <3> QED
        BY <3>2, <3>3, <3>4
    <2>2. CASE \A c \in ToSet(rest) : c.id # e
      <3>1. BoxOf(rest)[e] = Abstract!NoBallot
        BY <1>7, <2>2, NoBallotInBox DEF Abstract!NoBallot
      <3>2. CASE e # d
        <4>1. \A c \in ToSet(list) : c.id # e
          BY <1>7, <2>2, <3>2
        <4>2. BoxOf(list)[e] = Abstract!NoBallot
          BY <1>1, <4>1, NoBallotInBox DEF Abstract!NoBallot
        <4> QED
          BY <3>1, <4>2
      <3> QED
        BY <3>1, <3>2
    <2> QED
      BY <2>1, <2>2
  <1>9. BoxOf(rest) = Abstract!RemoveVotes(BoxOf(list), d)
    <2>1. /\ BoxOf(rest) = [e \in Decisions |-> BoxOf(rest)[e]]
          /\ BoxOf(list) = [e \in Decisions |-> BoxOf(list)[e]]
      BY DEF BoxOf
    <2> QED
      BY <1>8, <2>1 DEF Abstract!RemoveVotes
  <1>10. ReturnedByVote(d, n) = Abstract!VoteCount(BoxOfList, d, n, height)
    BY <1>5, <1>6, OneCardinality DEF Abstract!VoteCount
  <1> QED
    BY <1>1, <1>2, <1>3, <1>4, <1>7, <1>9, <1>10 DEF list, rest

-----------------------------------------------------------------------------
(* The list is well formed, and every step of it is a step of the box. *)
ListInv ==
    /\ candidates \in Lists
    /\ Unique(candidates)
    /\ height \in Int

LEMMA ListStarts == Init => ListInv /\ Abstract!Init
  <1> SUFFICES ASSUME Init PROVE ListInv /\ Abstract!Init
    OBVIOUS
  <1>1. candidates \in Lists /\ ToSet(candidates) = {}
    BY DEF Init, Lists, ToSet
  <1>2. ListInv
    BY <1>1 DEF Init, ListInv, Unique
  <1>3. BoxOfList = [d \in Decisions |-> Abstract!NoBallot]
    <2>1. \A d \in Decisions : BoxOf(candidates)[d] = Abstract!NoBallot
      BY <1>1, NoBallotInBox DEF Abstract!NoBallot
    <2> QED
      BY <2>1, BoxIsOfList DEF BoxOf
  <1> QED
    BY <1>2, <1>3 DEF Init, Abstract!Init

LEMMA ListStep ==
    ASSUME ListInv, [Next]_listVars
    PROVE  ListInv' /\ [Abstract!Next]_Abstract!vars
  <1>1. BoxOfList' = BoxOf(candidates')
    BY DEF BoxOfList, BoxOf
  <1>2. ASSUME NEW n \in Nodes, NEW d \in Decisions
        PROVE  /\ (Reached(n, d) <=> Abstract!Reached(n, d))
               /\ (MayInvoke(n, d) <=> Abstract!MayInvoke(n, d))
               /\ (RecordAsk(n, d) => Abstract!RecordAsk(n, d))
               /\ (RecordCall(n, d) => Abstract!RecordCall(n, d))
    <2>1. Reached(n, d) <=> Abstract!Reached(n, d)
      BY CallOfList DEF ListInv, Reached, Abstract!Reached
    <2>2. Repeated(d, n) <=> Abstract!HasVoted(BoxOfList, d, n, height)
      BY RepeatedIsHasVoted DEF ListInv
    <2>3. RecordCall(n, d) => Abstract!RecordCall(n, d)
      BY DEF RecordCall, Abstract!RecordCall
    <2>4. RecordAsk(n, d) => Abstract!RecordAsk(n, d)
      BY <2>2, <2>3 DEF RecordAsk, Abstract!RecordAsk, Abstract!Round
    <2>5. MayInvoke(n, d) <=> Abstract!MayInvoke(n, d)
      BY DEF MayInvoke, Abstract!MayInvoke
    <2> QED
      BY <2>1, <2>3, <2>4, <2>5
  <1>3. ASSUME NEW n \in Nodes, NEW d \in Decisions, Collect(n, d)
        PROVE  ListInv' /\ Abstract!Collect(n, d)
    <2>1. candidates' = StoredByVote(d, n) /\ height' = height
      BY <1>3 DEF Collect
    <2>2. ListInv' /\ BoxOfList' = Abstract!Vote(BoxOfList, d, n, height)
      BY <1>1, <2>1, VoteOfList DEF ListInv, Unique
    <2> QED
      BY <1>2, <1>3, <2>2 DEF Collect, Abstract!Collect
  <1>4. ASSUME NEW n \in Nodes, NEW d \in Decisions, Accept(n, d)
        PROVE  ListInv' /\ Abstract!Accept(n, d)
    <2>1. candidates' = ListWithout(StoredByVote(d, n), d) /\ height' = height
      BY <1>4 DEF Accept
    <2>2. /\ ListInv'
          /\ BoxOfList' = Abstract!RemoveVotes(Abstract!Vote(BoxOfList, d, n, height), d)
      BY <1>1, <2>1, CallOfList DEF ListInv, Unique
    <2>3. quorum' = [quorum EXCEPT ![d] = Abstract!VotersWith(BoxOfList, d, n, height)]
      BY <1>4, CallOfList DEF ListInv, Accept
    <2> QED
      BY <1>2, <1>4, <2>2, <2>3 DEF Accept, Abstract!Accept
  <1>5. ASSUME UNCHANGED candidates, height' \in Int
        PROVE  ListInv' /\ BoxOfList' = BoxOfList
    BY <1>5 DEF ListInv, Unique, BoxOfList
  <1>6. ASSUME NEW n \in Nodes, NEW d \in Decisions, Fault(n, d)
        PROVE  ListInv' /\ Abstract!Fault(n, d)
    BY <1>2, <1>5, <1>6 DEF ListInv, Fault, Abstract!Fault
  <1>7. CASE NewBlock
    <2>1. ListInv' /\ BoxOfList' = BoxOfList
      BY <1>5, <1>7 DEF NewBlock, ListInv
    <2> QED
      BY <1>7, <2>1 DEF NewBlock, Abstract!Next, Abstract!NewBlock
  <1>8. ASSUME NEW committee \in Committees, Elect(committee)
        PROVE  ListInv' /\ Abstract!Elect(committee)
    BY <1>5, <1>8 DEF ListInv, Elect, Abstract!Elect
  <1>9. CASE UNCHANGED listVars
    <2>1. ListInv' /\ BoxOfList' = BoxOfList
      BY <1>5, <1>9 DEF listVars, ListInv
    <2> QED
      BY <1>9, <2>1 DEF listVars, Abstract!vars
  <1> QED
    BY <1>3, <1>4, <1>6, <1>7, <1>8, <1>9 DEF Next, Abstract!Next

(* The stored list of ballots does what the ballot box of VoteDecision     *)
(* does: what is proved of the protocol holds for the loops of vote.go.    *)
THEOREM ListImplementsBox == Spec => RefinesVoteDecision
  <1>1. ListInv /\ [Next]_listVars => ListInv' /\ [Abstract!Next]_Abstract!vars
    BY ListStep
  <1> QED
    BY <1>1, ListStarts, PTL DEF Spec, RefinesVoteDecision, Abstract!Spec

(* No call leaves two ballots of one decision or one voter twice on a      *)
(* ballot in the list.                                                     *)
THEOREM ListHasNoDuplicates == Spec => []NoDuplicates
  <1>1. ListInv => NoDuplicates
    BY DEF ListInv, Unique, NoDuplicates, IsInjective
  <1>2. ListInv /\ [Next]_listVars => ListInv'
    BY ListStep
  <1> QED
    BY <1>1, <1>2, ListStarts, PTL DEF Spec

(* An accepted decision takes no ballot with it that still counts, however *)
(* the expired ones are spread over the list: RemoveVotes finds its own.   *)
THEOREM OthersKeepTheirBallots == Spec => RemovesItsOwnBallot
  <1> DEFINE Counts == DOMAIN accepted = Decisions
             Kept == \A d \in Decisions : accepted'[d] # accepted[d] =>
                       \A e \in Decisions \ {d} :
                          \A i \in DOMAIN candidates :
                             candidates[i].id = e /\ ~Skipped(candidates[i]) =>
                               Contains(candidates', candidates[i])
  <1>1. Init => Counts
    BY DEF Init
  <1>2. Counts /\ [Next]_listVars => Counts'
    BY DEF Next, listVars, Collect, Accept, Fault, NewBlock, Elect
  <1>3. ASSUME ListInv, Counts, [Next]_listVars PROVE Kept
    <2>1. SUFFICES ASSUME NEW d \in Decisions, accepted'[d] # accepted[d],
                          NEW i \in DOMAIN candidates, candidates[i].id # d, ~Skipped(candidates[i])
                   PROVE  Contains(candidates', candidates[i])
      OBVIOUS
    <2>2. PICK n \in Nodes, a \in Decisions : Accept(n, a)
      BY <1>3, <2>1 DEF Next, listVars, Collect, Fault, NewBlock, Elect
    <2>3. a = d
      BY <1>3, <2>1, <2>2 DEF Accept
    <2>4. candidates' = ListWithout(StoredByVote(d, n), d)
      BY <2>2, <2>3 DEF Accept
    <2>5. /\ ListWithout(StoredByVote(d, n), d) \in Lists
          /\ ToSet(ListWithout(StoredByVote(d, n), d)) = {b \in ToSet(StoredByVote(d, n)) : b.id # d}
      BY <1>3, CallOfList DEF ListInv
    <2>6. candidates[i] \in Live
      BY <2>1 DEF Live, ToSet
    <2>7. candidates[i] \in ToSet(StoredByVote(d, n))
      <3>1. CASE Repeated(d, n)
        BY <2>6, <3>1 DEF StoredByVote, Live
      <3>2. CASE ~Repeated(d, n)
        <4>1. WithVote(candidates[i], d, n) \in ToSet(NewCandidates(d, n))
          BY <1>3, <2>6, <3>2, NewList DEF ListInv
        <4> QED
          BY <2>1, <3>2, <4>1 DEF StoredByVote, WithVote
      <3> QED
        BY <3>1, <3>2
    <2>8. candidates[i] \in ToSet(candidates')
      BY <2>1, <2>4, <2>5, <2>7
    <2> QED
      BY <2>4, <2>5, <2>8 DEF ToSet, Contains, Lists
  <1>4. ListInv /\ [Next]_listVars => ListInv'
    BY ListStep
  <1>5. ListInv /\ Counts /\ [Next]_listVars => [Kept]_listVars
    BY <1>3
  <1> HIDE DEF Kept, Counts
  <1>6. Spec => [][Kept]_listVars
    BY <1>1, <1>2, <1>4, <1>5, ListStarts, PTL DEF Spec
  <1> QED
    BY <1>6 DEF RemovesItsOwnBallot, Kept

=============================================================================

------------------------------ MODULE VoteList ------------------------------
(***************************************************************************)
(* The loops of common/vote.go over the stored list of ballots, run by the *)
(* same callers as in VoteDecision.  It refines VoteDecision: the list     *)
(* read as a function from ids to ballots is that module's ballot box.     *)
(***************************************************************************)
EXTENDS Integers, Sequences, SequencesExt

CONSTANTS Nodes, Committees, Decisions, BlockDiff, MaxHeight, MaxRounds

VARIABLES
    alphabet, height, accepted, asks, called, repeated, quorum,  \* as in VoteDecision
    candidates   \* the stored list: sequence of [id, voters, height]

listVars == <<alphabet, height, candidates, accepted, asks, called, repeated, quorum>>

-----------------------------------------------------------------------------
(* blockHeight-cnd.Height > blockDiff: the loop continues past the ballot. *)
Skipped(cnd) == height - cnd.height > BlockDiff

HasVoter(cnd, from) == Contains(cnd.voters, from)

NeverRepeated(id, from) == FALSE

(* Some ballot of the decision is not skipped and holds the voter already. *)
Repeated(id, from) ==
    \E i \in DOMAIN candidates :
       /\ ~Skipped(candidates[i])
       /\ candidates[i].id = id
       /\ HasVoter(candidates[i], from)

(* The place of the last ballot of a decision, 0 if there is none. *)
PlaceOf(list, id) == SelectLastInSeq(list, LAMBDA cnd : cnd.id = id)

WithVoteKeepingHeight(cnd, id, from) ==
    IF cnd.id = id
    THEN [id |-> id, voters |-> Append(cnd.voters, from), height |-> cnd.height]
    ELSE cnd

(* The body of the loop for one candidate that is not skipped. *)
WithVote(cnd, id, from) ==
    IF cnd.id = id
    THEN [id |-> id, voters |-> Append(cnd.voters, from), height |-> height]
    ELSE cnd

(* newCandidates after every round of the loop. *)
LoopOfVote(id, from) ==
    LET new[i \in 0..Len(candidates)] ==
          IF i = 0 THEN <<>>
          ELSE IF Skipped(candidates[i]) THEN new[i - 1]
          ELSE Append(new[i - 1], WithVote(candidates[i], id, from))
    IN  new

(* newCandidates after "found < 0". *)
NewCandidates(id, from) ==
    LET seen == LoopOfVote(id, from)[Len(candidates)]
    IN  IF \E i \in DOMAIN seen : seen[i].id = id
        THEN seen
        ELSE Append(seen, [id |-> id, voters |-> <<from>>, height |-> height])

StoredByVote(id, from) ==
    IF Repeated(id, from) THEN candidates ELSE NewCandidates(id, from)

(* The number that Vote returns: the voters of the first ballot that holds *)
(* the repeated vote, or of the last one that the vote was appended to.    *)
ReturnedByVote(id, from) ==
    IF Repeated(id, from)
    THEN LET i == SelectInSeq(candidates,
                    LAMBDA cnd : ~Skipped(cnd) /\ cnd.id = id /\ HasVoter(cnd, from))
         IN  Len(candidates[i].voters)
    ELSE LET new == NewCandidates(id, from)
         IN  Len(new[PlaceOf(new, id)].voters)

IndexOfFirst(list, id) == 1

(* The index that RemoveVotes computes: the first ballot of the decision,  *)
(* and the first ballot of the list when there is none.                    *)
IndexToRemove(list, id) ==
    LET i == SelectInSeq(list, LAMBDA cnd : cnd.id = id)
    IN  IF i = 0 THEN 1 ELSE i

ListWithout(list, id) == RemoveAt(list, IndexToRemove(list, id))

-----------------------------------------------------------------------------
(* The ballot box of VoteDecision: the last ballot with an id counts.      *)
BoxOfList ==
    [d \in Decisions |->
       LET i == PlaceOf(candidates, d)
       IN  IF i = 0
           THEN [voters |-> {}, height |-> 0]
           ELSE [voters |-> ToSet(candidates[i].voters), height |-> candidates[i].height]]

Abstract == INSTANCE VoteDecision WITH box <- BoxOfList

Init ==
    /\ candidates = <<>>
    /\ alphabet \in Committees
    /\ height = 0
    /\ accepted = [d \in Decisions |-> 0]
    /\ asks = [d \in Decisions |-> [n \in Nodes |-> Abstract!NeverAsked]]
    /\ called = [d \in Decisions |-> {}]
    /\ repeated = {}
    /\ quorum = [d \in Decisions |-> {}]

MayInvoke(n, d) ==
    /\ n \in alphabet
    /\ accepted[d] < MaxRounds

RecordCall(n, d) ==
    /\ called' = [called EXCEPT ![d] = @ \union {n}]
    /\ repeated' = IF n \in called[d] THEN repeated \union {d} ELSE repeated

RecordAsk(n, d) ==
    /\ RecordCall(n, d)
    /\ asks' = IF Repeated(d, n)
               THEN asks
               ELSE [asks EXCEPT ![d][n] = [round |-> accepted[d] + 1, at |-> height]]

Reached(n, d) == ReturnedByVote(d, n) >= Abstract!Threshold(alphabet)

Collect(n, d) ==
    /\ MayInvoke(n, d)
    /\ ~Reached(n, d)
    /\ candidates' = StoredByVote(d, n)
    /\ RecordAsk(n, d)
    /\ UNCHANGED <<alphabet, height, accepted, quorum>>

Accept(n, d) ==
    /\ MayInvoke(n, d)
    /\ Reached(n, d)
    /\ candidates' = ListWithout(StoredByVote(d, n), d)
    /\ RecordAsk(n, d)
    /\ accepted' = [accepted EXCEPT ![d] = @ + 1]
    /\ quorum' = [quorum EXCEPT ![d] =
                    ToSet(StoredByVote(d, n)[PlaceOf(StoredByVote(d, n), d)].voters)]
    /\ UNCHANGED <<alphabet, height>>

Fault(n, d) ==
    /\ MayInvoke(n, d)
    /\ Reached(n, d)
    /\ RecordCall(n, d)
    /\ UNCHANGED <<alphabet, height, candidates, accepted, asks, quorum>>

NewBlock ==
    /\ height < MaxHeight
    /\ height' = height + 1
    /\ UNCHANGED <<alphabet, candidates, accepted, asks, called, repeated, quorum>>

Elect(committee) ==
    /\ committee # alphabet
    /\ alphabet' = committee
    /\ UNCHANGED <<height, candidates, accepted, asks, called, repeated, quorum>>

Next ==
    \/ \E n \in Nodes, d \in Decisions : Collect(n, d) \/ Accept(n, d) \/ Fault(n, d)
    \/ NewBlock
    \/ \E committee \in Committees : Elect(committee)

Spec == Init /\ [][Next]_listVars

-----------------------------------------------------------------------------
(* The list of ballots behaves like the ballot box of VoteDecision: every  *)
(* call counts, stores, drops and removes exactly the votes the box says,  *)
(* whatever the order of the ballots and however many have expired.        *)
RefinesVoteDecision == Abstract!Spec

(* Votes are not duplicated in the list: one ballot per decision, each     *)
(* voter once; and the list holds no more ballots than there are decisions *)
(* that somebody has voted for.                                            *)
NoDuplicates ==
    /\ IsInjective([i \in DOMAIN candidates |-> candidates[i].id])
    /\ \A i \in DOMAIN candidates : IsInjective(candidates[i].voters)

(* RemoveVotes never falls back to its default index: the ballot that it   *)
(* removes is the one of the accepted decision.                            *)
RemovesItsOwnBallot ==
    [][\A d \in Decisions : accepted'[d] # accepted[d] =>
         \A e \in Decisions \ {d} :
            \A i \in DOMAIN candidates :
               candidates[i].id = e /\ ~Skipped(candidates[i]) =>
                 Contains(candidates', candidates[i])]_listVars
=============================================================================

---------------------------- MODULE Bridge_proofs ----------------------------
(***************************************************************************)
(* The two chains together: the GAS of the FrostFS contract backs the      *)
(* supply of the sidechain, no cheque is paid twice, and what is locked    *)
(* waits for its cheque.                                                   *)
(***************************************************************************)
EXTENDS Bridge, Balance_proofs

-----------------------------------------------------------------------------
(* FrostFS and the Inner Ring count the same way. *)
LEMMA SameCardinality == \A S : Main!Cardinality(S) = Cardinality(S)
  BY DEF Main!Cardinality, Cardinality

-----------------------------------------------------------------------------
(* Votes in the main chain, as in Voting_proofs. *)
MainVoters == Nodes \union {Main!NoKey}

BallotsOK(ballots) == ballots \in [Main!Ids -> [voters : SUBSET MainVoters, height : Nat]]

LEMMA MainVoteAddsOne ==
    ASSUME BallotsOK(mainBox), mainHeight \in Nat, NEW id \in Main!Ids, NEW n \in MainVoters
    PROVE  /\ BallotsOK(Main!Vote(mainBox, id, n, mainHeight))
           /\ \A i \in Main!Ids :
                 Main!Vote(mainBox, id, n, mainHeight)[i].voters
                   \subseteq mainBox[i].voters \union (IF i = id THEN {n} ELSE {})
           /\ Main!VotersWith(mainBox, id, n, mainHeight) \subseteq mainBox[id].voters \union {n}
  <1> DEFINE p == Main!Prune(mainBox, mainHeight)
  <1>1. p \in [Main!Ids -> [voters : SUBSET MainVoters, height : Nat]]
    BY BlockDiffAssumption DEF BallotsOK, Main!Prune, Main!Expired, Main!NoBallot
  <1>2. \A i \in Main!Ids : p[i].voters \subseteq mainBox[i].voters
    BY DEF BallotsOK, Main!Prune, Main!Expired, Main!NoBallot
  <1> HIDE DEF p
  <1>3. Main!VotersWith(mainBox, id, n, mainHeight) = p[id].voters \union {n}
    BY DEF Main!VotersWith, p
  <1>4. CASE Main!HasVoted(mainBox, id, n, mainHeight)
    BY <1>2, <1>3, <1>4 DEF Main!Vote, BallotsOK
  <1>5. CASE ~Main!HasVoted(mainBox, id, n, mainHeight)
    <2>1. Main!Vote(mainBox, id, n, mainHeight)
            = [p EXCEPT ![id] = [voters |-> p[id].voters \union {n}, height |-> mainHeight]]
      BY <1>3, <1>5 DEF Main!Vote, p
    <2> QED
      BY <1>1, <1>2, <1>3, <2>1 DEF BallotsOK
  <1> QED
    BY <1>4, <1>5

(* An invocation adds nobody but its own node to a ballot. *)
LEMMA MainBallotsAfter ==
    ASSUME BallotsOK(mainBox), mainHeight \in Nat, NEW id \in Main!Ids, NEW n,
           MainNotaryDisabled => n \in MainVoters,
           Main!OnlyVotes(n, id) \/ Main!Decides(n, id) \/ UNCHANGED mainBox
    PROVE  /\ BallotsOK(mainBox')
           /\ \A i \in Main!Ids :
                 mainBox'[i].voters \subseteq mainBox[i].voters \union (IF i = id THEN {n} ELSE {})
  <1>1. CASE Main!OnlyVotes(n, id)
    BY <1>1, MainVoteAddsOne DEF Main!OnlyVotes, Main!Pending
  <1>2. CASE Main!Decides(n, id) /\ MainNotaryDisabled
    <2> DEFINE b == Main!Vote(mainBox, id, n, mainHeight)
    <2>1. mainBox' = [b EXCEPT ![id] = Main!NoBallot]
      BY <1>2 DEF Main!Decides, Main!RemoveVotes
    <2>2. /\ BallotsOK(b)
          /\ \A i \in Main!Ids : b[i].voters \subseteq mainBox[i].voters \union (IF i = id THEN {n} ELSE {})
      BY <1>2, MainVoteAddsOne
    <2> HIDE DEF b
    <2> QED
      BY <2>1, <2>2 DEF BallotsOK, Main!NoBallot
  <1>3. CASE UNCHANGED mainBox
    BY <1>3
  <1> QED
    BY <1>1, <1>2, <1>3 DEF Main!Decides

-----------------------------------------------------------------------------
(* The FrostFS contract alone.  Nobody outside the alphabets takes part in *)
(* a cheque, and whoever is on the ballot of a cheque has asked for it.    *)
Everybody == IF MainNotaryDisabled THEN UNION Alphabets ELSE {Main!Multisignature}

MainVotesOK ==
    /\ \A w \in Withdrawals : \A m \in mainBox[w.tx].voters : <<m, w.tx>> \in mainAnswered
    /\ \A p \in mainAnswered, w \in Withdrawals : p[2] = w.tx => p[1] \in Everybody

(* Who has asked for a cheque and is not on its ballot any more. *)
MainSpent(w) ==
    {m \in Everybody : <<m, w.tx>> \in mainAnswered /\ m \notin mainBox[w.tx].voters}

(* A quorum of one of the alphabets has been spent on the cheque. *)
QuorumSpent(w) ==
    IF MainNotaryDisabled
    THEN \E A \in Alphabets : A # {} /\ Cardinality(MainSpent(w)) >= Threshold(A)
    ELSE <<Main!Multisignature, w.tx>> \in mainAnswered

ChequePaid(w) == <<"Cheque", w>> \in notified

MainInv ==
    /\ Main!FrostFSTypeOK
    /\ alphabet \in Alphabets
    /\ MainVotesOK
    /\ \A w \in Withdrawals : ChequePaid(w) => QuorumSpent(w)

LEMMA EverybodyIsFinite ==
    /\ IsFiniteSet(Everybody)
    /\ UNION Alphabets \subseteq Nodes
    /\ \A A \in Alphabets : A \subseteq UNION Alphabets /\ IsFiniteSet(A) /\ Threshold(A) \in Nat
  <1>1. UNION Alphabets \subseteq Nodes /\ \A A \in Alphabets : A \subseteq UNION Alphabets
    BY MainAssumption DEF Alphabets
  <1>2. IsFiniteSet(UNION Alphabets) /\ \A A \in Alphabets : IsFiniteSet(A)
    BY <1>1, MainAssumption, FS_Subset
  <1>3. IsFiniteSet(Everybody)
    BY <1>2, FS_Singleton DEF Everybody
  <1> QED
    BY <1>1, <1>2, <1>3, ThresholdIsMajority

LEMMA MainIdsOfRequests ==
    /\ \A w \in Withdrawals : w.tx \in Main!Ids
    /\ \A r \in AlphabetUpdates \union Settings : r.id \in Main!Ids
    /\ \A k \in Candidates : Main!RemoveId(k) \in Main!Ids
    /\ \A v, w \in Withdrawals : v.tx = w.tx => v = w
    /\ \A w \in Withdrawals, r \in AlphabetUpdates \union Settings : w.tx # r.id
    /\ \A w \in Withdrawals, k \in Candidates : w.tx # Main!RemoveId(k)
  BY MainIdsAssumption DEF Main!Ids

(* Spent nodes stay spent. *)
LEMMA QuorumStaysSpent ==
    ASSUME NEW w \in Withdrawals, MainSpent(w) \subseteq MainSpent(w)',
           mainAnswered \subseteq mainAnswered', QuorumSpent(w)
    PROVE  QuorumSpent(w)'
  <1>1. CASE MainNotaryDisabled
    <2>1. PICK A \in Alphabets : A # {} /\ Cardinality(MainSpent(w)) >= Threshold(A)
      BY <1>1 DEF QuorumSpent
    <2>2. IsFiniteSet(MainSpent(w)')
      BY EverybodyIsFinite, FS_Subset DEF MainSpent
    <2>3. /\ Cardinality(MainSpent(w)) <= Cardinality(MainSpent(w)')
          /\ Cardinality(MainSpent(w)) \in Nat /\ Cardinality(MainSpent(w)') \in Nat
      BY <2>2, FS_Subset, FS_CardinalityType
    <2>4. Threshold(A) \in Nat
      BY EverybodyIsFinite
    <2>5. Cardinality(MainSpent(w)') >= Threshold(A)
      BY <2>1, <2>3, <2>4
    <2> QED
      BY <1>1, <2>1, <2>5 DEF QuorumSpent
  <1>2. CASE ~MainNotaryDisabled
    BY <1>2 DEF QuorumSpent
  <1> QED
    BY <1>1, <1>2

(* What any invocation of the main alphabet does to the votes for cheques. *)
LEMMA MainAnswersKeepVotes ==
    ASSUME MainInv, NEW id \in Main!Ids, NEW n, NEW voter,
           MainNotaryDisabled => voter \in MainVoters,
           Main!Answers(n, id), n \in Nodes \union {Main!Multisignature},
           Main!OnlyVotes(voter, id) \/ Main!Decides(voter, id) \/ UNCHANGED mainBox,
           \A w \in Withdrawals : w.tx = id => voter = n /\ n \in Everybody
    PROVE  /\ BallotsOK(mainBox')
           /\ mainAnswered' \subseteq (Nodes \union {Main!Multisignature}) \X Main!Ids
           /\ MainVotesOK'
           /\ \A w \in Withdrawals : QuorumSpent(w) => QuorumSpent(w)'
  <1>1. BallotsOK(mainBox) /\ mainHeight \in Nat /\ MainVotesOK
        /\ mainAnswered \subseteq (Nodes \union {Main!Multisignature}) \X Main!Ids
    BY MainAssumption DEF MainInv, Main!FrostFSTypeOK, BallotsOK, MainVoters
  <1>2. <<n, id>> \notin mainAnswered /\ mainAnswered' = mainAnswered \union {<<n, id>>}
    BY DEF Main!Answers
  <1>3. /\ BallotsOK(mainBox')
        /\ \A i \in Main!Ids :
              mainBox'[i].voters \subseteq mainBox[i].voters \union (IF i = id THEN {voter} ELSE {})
    BY <1>1, MainBallotsAfter
  <1>4. MainVotesOK'
    <2>1. ASSUME NEW w \in Withdrawals, NEW m \in mainBox'[w.tx].voters
          PROVE  <<m, w.tx>> \in mainAnswered'
      BY <1>1, <1>2, <1>3, <2>1, MainIdsOfRequests DEF MainVotesOK
    <2>2. ASSUME NEW p \in mainAnswered', NEW w \in Withdrawals, p[2] = w.tx
          PROVE  p[1] \in Everybody
      BY <1>1, <1>2, <2>2 DEF MainVotesOK
    <2> QED
      BY <2>1, <2>2 DEF MainVotesOK, Everybody
  <1>5. ASSUME NEW w \in Withdrawals, QuorumSpent(w)
        PROVE  QuorumSpent(w)'
    <2>1. ASSUME NEW m \in MainSpent(w)
          PROVE  m \in MainSpent(w)'
      <3>1. m \in Everybody /\ <<m, w.tx>> \in mainAnswered /\ m \notin mainBox[w.tx].voters
        BY <2>1 DEF MainSpent
      <3>2. m \notin mainBox'[w.tx].voters
        BY <1>2, <1>3, <3>1, MainIdsOfRequests
      <3> QED
        BY <1>2, <3>1, <3>2 DEF MainSpent, Everybody
    <2> QED
      BY <1>2, <1>5, <2>1, QuorumStaysSpent
  <1> QED
    BY <1>1, <1>2, <1>3, <1>4, <1>5

(* No cheque is paid twice, even by different alphabets: the quorum that   *)
(* paid it first is spent and has a node in common with any other.         *)
LEMMA ChequeIsPaidOnce ==
    ASSUME MainInv, NEW w \in Withdrawals, NEW n \in Main!Members,
           Main!Answers(n, w.tx), Main!Decides(n, w.tx)
    PROVE  ~ChequePaid(w) /\ QuorumSpent(w)'
  <1>1. BallotsOK(mainBox) /\ mainHeight \in Nat /\ MainVotesOK /\ alphabet \in Alphabets /\ alphabet # {}
        /\ (ChequePaid(w) => QuorumSpent(w))
    BY MainAssumption DEF MainInv, Main!FrostFSTypeOK, BallotsOK, MainVoters
  <1>2. <<n, w.tx>> \notin mainAnswered /\ mainAnswered' = mainAnswered \union {<<n, w.tx>>}
    BY DEF Main!Answers
  <1>3. w.tx \in Main!Ids
    BY MainIdsOfRequests
  <1>4. CASE MainNotaryDisabled
    <2> DEFINE voters == Main!VotersWith(mainBox, w.tx, n, mainHeight)
    <2>1. n \in alphabet /\ n \in Everybody /\ n \in MainVoters /\ Everybody = UNION Alphabets
      BY <1>1, <1>4, EverybodyIsFinite DEF Main!Members, Everybody, MainVoters
    <2>2. voters \subseteq mainBox[w.tx].voters \union {n}
      BY <1>1, <1>3, <2>1, MainVoteAddsOne
    <2>3. mainBox'[w.tx].voters = {}
      BY <1>1, <1>3, <1>4, <2>1, MainVoteAddsOne DEF Main!Decides, Main!RemoveVotes, Main!NoBallot, BallotsOK
    <2>4. ~(Cardinality(voters) < Threshold(alphabet))
      <3>1. Main!VoteCount(mainBox, w.tx, n, mainHeight) = Cardinality(voters)
        BY SameCardinality DEF Main!VoteCount
      <3>2. ~(Main!VoteCount(mainBox, w.tx, n, mainHeight) < Main!Threshold(alphabet))
        BY <1>4 DEF Main!Decides, Main!Pending
      <3>3. Main!Threshold(alphabet) = Threshold(alphabet)
        BY SameCardinality DEF Main!Threshold, Threshold
      <3> QED
        BY <3>1, <3>2, <3>3
    <2>5. voters \subseteq Everybody /\ voters \subseteq MainSpent(w)' /\ voters \intersect MainSpent(w) = {}
      <3>1. \A m \in mainBox[w.tx].voters : <<m, w.tx>> \in mainAnswered /\ m \in Everybody
        BY <1>1 DEF MainVotesOK
      <3>2. voters \subseteq Everybody
        BY <2>1, <2>2, <3>1
      <3>3. voters \subseteq MainSpent(w)'
        BY <1>2, <2>2, <2>3, <3>1, <3>2 DEF MainSpent, Everybody
      <3>4. voters \intersect MainSpent(w) = {}
        BY <1>2, <2>2 DEF MainSpent
      <3> QED
        BY <3>2, <3>3, <3>4
    <2> HIDE DEF voters
    <2>6. /\ IsFiniteSet(Everybody) /\ IsFiniteSet(voters) /\ IsFiniteSet(MainSpent(w))
          /\ IsFiniteSet(MainSpent(w)') /\ MainSpent(w) \subseteq Everybody
      BY <2>5, EverybodyIsFinite, FS_Subset DEF MainSpent
    <2>7. /\ Cardinality(Everybody) \in Nat /\ Cardinality(voters) \in Nat
          /\ Cardinality(MainSpent(w)) \in Nat /\ Cardinality(MainSpent(w)') \in Nat
          /\ Threshold(alphabet) \in Nat
      BY <1>1, <2>6, FS_CardinalityType, EverybodyIsFinite
    <2>8. Cardinality(voters) <= Cardinality(MainSpent(w)')
      BY <2>5, <2>6, FS_Subset
    <2>9. QuorumSpent(w)'
      <3>1. Cardinality(MainSpent(w)') >= Threshold(alphabet)
        BY <2>4, <2>7, <2>8
      <3>2. \E A \in Alphabets : A # {} /\ Cardinality(MainSpent(w)') >= Threshold(A)
        BY <1>1, <3>1
      <3> QED
        BY <1>4, <3>2 DEF QuorumSpent
    <2>10. ASSUME ChequePaid(w) PROVE FALSE
      <3>1. PICK A \in Alphabets : A # {} /\ Cardinality(MainSpent(w)) >= Threshold(A)
        BY <1>1, <1>4, <2>10 DEF QuorumSpent
      <3>2. Threshold(A) + Threshold(alphabet) > Cardinality(Everybody) /\ Threshold(A) \in Nat
        BY <1>1, <2>1, <3>1, OverlapAssumption, EverybodyIsFinite
      <3>3. /\ IsFiniteSet(voters \union MainSpent(w))
            /\ Cardinality(voters \union MainSpent(w)) =
                 Cardinality(voters) + Cardinality(MainSpent(w)) - Cardinality(voters \intersect MainSpent(w))
        BY <2>6, FS_Union
      <3>4. Cardinality(voters \intersect MainSpent(w)) = 0
        BY <2>5, FS_EmptySet
      <3>5. Cardinality(voters \union MainSpent(w)) <= Cardinality(Everybody)
        BY <2>5, <2>6, FS_Subset
      <3> QED
        BY <2>4, <2>7, <3>1, <3>2, <3>3, <3>4, <3>5
    <2> QED
      BY <2>9, <2>10
  <1>5. CASE ~MainNotaryDisabled
    BY <1>1, <1>2, <1>5 DEF Main!Members, QuorumSpent
  <1> QED
    BY <1>4, <1>5

-----------------------------------------------------------------------------
(* Every action of the FrostFS contract keeps its invariant. *)
ToContract(amount) == gas'[Main!Contract] = gas[Main!Contract] + amount

LEMMA GasIsPaid ==
    ASSUME gas \in [Main!Holders -> Nat], NEW x \in Main!Holders, NEW y \in Main!Holders, x # y,
           NEW amount \in Nat, gas[x] >= amount
    PROVE  /\ Main!Paid(x, y, amount) \in [Main!Holders -> Nat]
           /\ Main!Paid(x, y, amount)[x] = gas[x] - amount
           /\ Main!Paid(x, y, amount)[y] = gas[y] + amount
  BY DEF Main!Paid

LEMMA MainHolders ==
    /\ Main!Contract \in Main!Holders
    /\ \A u \in Users \union Nodes : u \in Main!Holders /\ u # Main!Contract /\ u # Main!Processing
    /\ Main!Contract # Main!Processing
  BY MainAssumption DEF Main!Holders, Main!Contract, Main!Processing

LEMMA MainVotesStay ==
    ASSUME MainInv, UNCHANGED <<mainBox, mainAnswered>>,
           \A w \in Withdrawals : ChequePaid(w)' => ChequePaid(w)
    PROVE  MainVotesOK' /\ \A w \in Withdrawals : ChequePaid(w)' => QuorumSpent(w)'
  <1>1. \A w \in Withdrawals : QuorumSpent(w)' = QuorumSpent(w)
    BY DEF QuorumSpent, MainSpent, Everybody
  <1> QED
    BY <1>1 DEF MainInv, MainVotesOK, Everybody

LEMMA DepositKeeps ==
    ASSUME MainInv, NEW d \in Deposits, Main!Deposit(d)
    PROVE  MainInv' /\ ToContract(d.amount) /\ d.amount \in Nat
  <1>1. /\ d.from \in Main!Holders /\ d.from # Main!Contract /\ Main!Contract \in Main!Holders
        /\ d.amount \in Nat /\ gas[d.from] >= d.amount /\ gas \in [Main!Holders -> Nat]
        /\ gas' = Main!Paid(d.from, Main!Contract, d.amount)
    BY MainAssumption, MainHolders DEF Main!Deposit, Main!CanPay, MainInv, Main!FrostFSTypeOK
  <1>2. gas' \in [Main!Holders -> Nat] /\ ToContract(d.amount)
    BY <1>1, GasIsPaid DEF ToContract
  <1>3. MainVotesOK' /\ \A w \in Withdrawals : ChequePaid(w)' => QuorumSpent(w)'
    <2>1. UNCHANGED <<mainBox, mainAnswered>> /\ \A w \in Withdrawals : ChequePaid(w)' => ChequePaid(w)
      BY DEF Main!Deposit, ChequePaid
    <2> QED
      BY <2>1, MainVotesStay
  <1>4. notified' \subseteq Main!Notifications
    BY DEF Main!Deposit, MainInv, Main!FrostFSTypeOK, Main!Notifications
  <1> QED
    BY <1>1, <1>2, <1>3, <1>4 DEF Main!Deposit, MainInv, Main!FrostFSTypeOK

(* GAS that arrives without a notification is in unnotified. *)
LEMMA SilentDepositKeeps ==
    ASSUME MainInv, NEW d \in SilentDeposits, Main!SilentDeposit(d)
    PROVE  MainInv' /\ \E fee \in Nat : ToContract(fee) /\ unnotified' = unnotified + fee
  <1>1. /\ d.from \in Main!Holders /\ d.from # Main!Contract /\ Main!Contract \in Main!Holders
        /\ d.amount \in Nat /\ gas[d.from] >= d.amount /\ gas \in [Main!Holders -> Nat]
        /\ gas' = Main!Paid(d.from, Main!Contract, d.amount)
        /\ unnotified \in Nat /\ unnotified' = unnotified + d.amount
    BY MainAssumption, MainHolders DEF Main!SilentDeposit, Main!CanPay, MainInv, Main!FrostFSTypeOK
  <1>2. gas' \in [Main!Holders -> Nat] /\ ToContract(d.amount) /\ unnotified' \in Nat
    BY <1>1, GasIsPaid DEF ToContract
  <1>3. MainVotesOK' /\ \A w \in Withdrawals : ChequePaid(w)' => QuorumSpent(w)'
    <2>1. UNCHANGED <<mainBox, mainAnswered>> /\ \A w \in Withdrawals : ChequePaid(w)' => ChequePaid(w)
      BY DEF Main!SilentDeposit, ChequePaid
    <2> QED
      BY <2>1, MainVotesStay
  <1> QED
    BY <1>1, <1>2, <1>3 DEF Main!SilentDeposit, MainInv, Main!FrostFSTypeOK

LEMMA WithdrawKeeps ==
    ASSUME MainInv, NEW w \in Withdrawals, Main!Withdraw(w)
    PROVE  MainInv' /\ ToContract(0)
  <1> DEFINE fee == config[Main!WithdrawFee]
             total == config[Main!WithdrawFee] * Main!Cardinality(Main!FeeReceivers)
             R == Main!FeeReceivers
  <1>1. /\ w.user \in Users /\ w.user # Main!Contract /\ Main!Contract \notin R
        /\ gas \in [Main!Holders -> Nat] /\ fee \in Nat /\ gas[w.user] >= total
        /\ w.user \in Main!Holders /\ Main!Contract \in Main!Holders
    BY MainAssumption, MainHolders
    DEF Main!Withdraw, Main!CanPay, MainInv, Main!FrostFSTypeOK, Main!FeeReceivers
  <1>2. total \in Nat
    <2>1. IsFiniteSet(R)
      <3>1. IsFiniteSet(alphabet)
        BY EverybodyIsFinite DEF MainInv
      <3> QED
        BY <3>1, FS_Singleton DEF Main!FeeReceivers
    <2>2. Main!Cardinality(R) \in Nat
      BY <2>1, SameCardinality, FS_CardinalityType
    <2>3. \A a, b \in Nat : a * b \in Nat
      OBVIOUS
    <2> QED
      BY <1>1, <2>2, <2>3
  <1>3. gas' = [h \in Main!Holders |->
                  gas[h] - (IF h = w.user THEN total ELSE 0) + (IF h \in R THEN fee ELSE 0)]
    BY DEF Main!Withdraw
  <1> HIDE DEF total, fee, R
  <1>4. gas' \in [Main!Holders -> Nat] /\ ToContract(0)
    BY <1>1, <1>2, <1>3 DEF ToContract
  <1>5. MainVotesOK' /\ \A v \in Withdrawals : ChequePaid(v)' => QuorumSpent(v)'
    <2>1. UNCHANGED <<mainBox, mainAnswered>> /\ \A v \in Withdrawals : ChequePaid(v)' => ChequePaid(v)
      BY DEF Main!Withdraw, ChequePaid
    <2> QED
      BY <2>1, MainVotesStay
  <1>6. notified' \subseteq Main!Notifications
    BY DEF Main!Withdraw, MainInv, Main!FrostFSTypeOK, Main!Notifications
  <1> QED
    BY <1>4, <1>5, <1>6 DEF Main!Withdraw, MainInv, Main!FrostFSTypeOK

LEMMA MembersAreKnown ==
    ASSUME MainInv, NEW n \in Main!Members
    PROVE  /\ n \in Everybody /\ n \in Nodes \union {Main!Multisignature}
           /\ MainNotaryDisabled => n \in MainVoters
  BY EverybodyIsFinite DEF MainInv, Main!FrostFSTypeOK, Main!Members, Everybody, MainVoters

(* The cheque is paid once. *)
LEMMA ChequeKeeps ==
    ASSUME MainInv, NEW w \in Withdrawals, NEW n \in Main!Members, Main!Cheque(n, w), w.amount \in Nat
    PROVE  /\ MainInv' /\ UNCHANGED unnotified
           /\ mainAnswered' = mainAnswered \union {<<n, w.tx>>}
           /\ \/ UNCHANGED <<gas, notified>>
              \/ /\ ~ChequePaid(w) /\ notified' = notified \union {<<"Cheque", w>>}
                 /\ gas[Main!Contract] >= w.amount /\ ToContract(-w.amount)
  <1>1. /\ n \in Everybody /\ n \in Nodes \union {Main!Multisignature}
        /\ MainNotaryDisabled => n \in MainVoters
    BY MembersAreKnown
  <1>2. w.tx \in Main!Ids /\ \A v \in Withdrawals : v.tx = w.tx => v = w
    BY MainIdsOfRequests
  <1>3. /\ Main!Answers(n, w.tx) /\ UNCHANGED <<alphabet, candidates, config, mainHeight, unnotified>>
        /\ Main!OnlyVotes(n, w.tx) \/ Main!Decides(n, w.tx) \/ UNCHANGED mainBox
    BY DEF Main!Cheque
  <1>4. /\ BallotsOK(mainBox')
        /\ mainAnswered' \subseteq (Nodes \union {Main!Multisignature}) \X Main!Ids
        /\ MainVotesOK'
        /\ \A v \in Withdrawals : QuorumSpent(v) => QuorumSpent(v)'
    BY <1>1, <1>2, <1>3, MainAnswersKeepVotes
  <1>5. mainAnswered' = mainAnswered \union {<<n, w.tx>>}
    BY <1>3 DEF Main!Answers
  <1>6. CASE UNCHANGED <<gas, notified>>
    <2>1. \A v \in Withdrawals : ChequePaid(v)' => QuorumSpent(v)'
      BY <1>4, <1>6 DEF MainInv, ChequePaid
    <2>2. MainInv'
      BY <1>3, <1>4, <1>6, <2>1 DEF MainInv, Main!FrostFSTypeOK, BallotsOK, MainVoters
    <2> QED
      BY <1>3, <1>5, <1>6, <2>2
  <1>7. CASE /\ Main!CanPay(Main!Contract, w.amount) /\ Main!Decides(n, w.tx)
             /\ gas' = Main!Paid(Main!Contract, w.user, w.amount)
             /\ notified' = notified \union {<<"Cheque", w>>}
    <2>1. ~ChequePaid(w) /\ QuorumSpent(w)'
      BY <1>3, <1>7, ChequeIsPaidOnce
    <2>2. \A v \in Withdrawals : ChequePaid(v)' => QuorumSpent(v)'
      BY <1>4, <1>7, <2>1 DEF MainInv, ChequePaid
    <2>3. /\ gas \in [Main!Holders -> Nat] /\ w.user \in Main!Holders /\ w.user # Main!Contract
          /\ Main!Contract \in Main!Holders /\ gas[Main!Contract] >= w.amount
      BY <1>7, MainAssumption, MainHolders DEF MainInv, Main!FrostFSTypeOK, Main!CanPay
    <2>4. gas' \in [Main!Holders -> Nat] /\ gas'[Main!Contract] = gas[Main!Contract] - w.amount
      BY <1>7, <2>3, GasIsPaid
    <2>5. ToContract(-w.amount)
      BY <2>3, <2>4 DEF ToContract
    <2>6. notified' \subseteq Main!Notifications
      BY <1>7 DEF MainInv, Main!FrostFSTypeOK, Main!Notifications
    <2>7. MainInv'
      BY <1>3, <1>4, <2>2, <2>4, <2>6 DEF MainInv, Main!FrostFSTypeOK, BallotsOK, MainVoters
    <2> QED
      BY <1>3, <1>5, <1>7, <2>1, <2>3, <2>5, <2>7
  <1> QED
    BY <1>6, <1>7 DEF Main!Cheque

LEMMA CandidateAddKeeps ==
    ASSUME MainInv, NEW k \in Candidates, Main!InnerRingCandidateAdd(k)
    PROVE  /\ MainInv'
           /\ \E fee \in Nat : ToContract(fee) /\ unnotified' = unnotified + fee
  <1> DEFINE fee == config[Main!CandidateFee]
  <1>1. /\ k \in Main!Holders /\ k # Main!Contract /\ Main!Contract \in Main!Holders
        /\ fee \in Nat /\ gas[k] >= fee /\ gas \in [Main!Holders -> Nat] /\ unnotified \in Nat
    BY MainAssumption, MainHolders
    DEF Main!InnerRingCandidateAdd, Main!CanPay, MainInv, Main!FrostFSTypeOK
  <1>2. gas' = Main!Paid(k, Main!Contract, fee) /\ unnotified' = unnotified + fee
    BY DEF Main!InnerRingCandidateAdd
  <1> HIDE DEF fee
  <1>3. gas' \in [Main!Holders -> Nat] /\ ToContract(fee)
    BY <1>1, <1>2, GasIsPaid DEF ToContract
  <1>4. unnotified' \in Nat
    BY <1>1, <1>2
  <1>5. MainVotesOK' /\ \A v \in Withdrawals : ChequePaid(v)' => QuorumSpent(v)'
    <2>1. UNCHANGED <<mainBox, mainAnswered>> /\ \A v \in Withdrawals : ChequePaid(v)' => ChequePaid(v)
      BY DEF Main!InnerRingCandidateAdd, ChequePaid
    <2> QED
      BY <2>1, MainVotesStay
  <1>6. candidates' \subseteq Candidates
    BY DEF Main!InnerRingCandidateAdd, MainInv, Main!FrostFSTypeOK
  <1>7. UNCHANGED <<alphabet, config, mainBox, mainHeight, notified, mainAnswered>>
    BY DEF Main!InnerRingCandidateAdd
  <1> QED
    BY <1>1, <1>2, <1>3, <1>4, <1>5, <1>6, <1>7 DEF MainInv, Main!FrostFSTypeOK

(* An invocation that is no cheque. *)
LEMMA OtherAnswersKeep ==
    ASSUME MainInv, NEW id \in Main!Ids, NEW n, NEW voter,
           n \in Nodes \union {Main!Multisignature}, MainNotaryDisabled => voter \in MainVoters,
           Main!Answers(n, id),
           Main!OnlyVotes(voter, id) \/ Main!Decides(voter, id) \/ UNCHANGED mainBox,
           \A w \in Withdrawals : w.tx # id,
           UNCHANGED <<gas, mainHeight, notified, unnotified>>,
           alphabet' \in Alphabets, alphabet' # {}, candidates' \subseteq Candidates,
           config' \in [{Main!WithdrawFee, Main!CandidateFee} -> Nat]
    PROVE  MainInv'
  <1>1. /\ BallotsOK(mainBox')
        /\ mainAnswered' \subseteq (Nodes \union {Main!Multisignature}) \X Main!Ids
        /\ MainVotesOK'
        /\ \A v \in Withdrawals : QuorumSpent(v) => QuorumSpent(v)'
    BY MainAnswersKeepVotes
  <1>2. \A v \in Withdrawals : ChequePaid(v)' => QuorumSpent(v)'
    BY <1>1 DEF MainInv, ChequePaid
  <1>3. alphabet' \subseteq Nodes
    BY EverybodyIsFinite
  <1> QED
    BY <1>1, <1>2, <1>3 DEF MainInv, Main!FrostFSTypeOK, BallotsOK, MainVoters

LEMMA CandidateRemoveKeeps ==
    ASSUME MainInv, NEW k \in Candidates, NEW n \in Nodes \union Main!Members,
           Main!InnerRingCandidateRemove(n, k)
    PROVE  MainInv'
  <1>1. /\ alphabet \in Alphabets /\ alphabet # {} /\ candidates \subseteq Candidates
        /\ config \in [{Main!WithdrawFee, Main!CandidateFee} -> Nat]
    BY DEF MainInv, Main!FrostFSTypeOK
  <1>2. UNCHANGED <<gas, alphabet, config, mainHeight, notified, unnotified>> /\ candidates' \subseteq Candidates
    BY <1>1 DEF Main!InnerRingCandidateRemove
  <1>3. CASE UNCHANGED <<mainBox, mainAnswered>>
    <2>1. MainVotesOK' /\ \A v \in Withdrawals : ChequePaid(v)' => QuorumSpent(v)'
      BY <1>2, <1>3, MainVotesStay DEF ChequePaid
    <2> QED
      BY <1>1, <1>2, <1>3, <2>1 DEF MainInv, Main!FrostFSTypeOK
  <1>4. CASE /\ n \in Main!Members /\ Main!Answers(n, Main!RemoveId(k))
             /\ Main!OnlyVotes(n, Main!RemoveId(k)) \/ Main!Decides(n, Main!RemoveId(k))
    <2>1. /\ n \in Nodes \union {Main!Multisignature}
          /\ MainNotaryDisabled => n \in MainVoters
          /\ Main!RemoveId(k) \in Main!Ids /\ \A w \in Withdrawals : w.tx # Main!RemoveId(k)
      BY <1>4, MembersAreKnown, MainIdsOfRequests
    <2> QED
      BY <1>1, <1>2, <1>4, <2>1, OtherAnswersKeep
  <1> QED
    BY <1>3, <1>4 DEF Main!InnerRingCandidateRemove

LEMMA AlphabetUpdateKeeps ==
    ASSUME MainInv, NEW r \in AlphabetUpdates, NEW n \in Main!Members, Main!AlphabetUpdate(n, r)
    PROVE  MainInv'
  <1>1. /\ alphabet \in Alphabets /\ alphabet # {} /\ candidates \subseteq Candidates
        /\ config \in [{Main!WithdrawFee, Main!CandidateFee} -> Nat]
    BY DEF MainInv, Main!FrostFSTypeOK
  <1>2. UNCHANGED <<gas, candidates, config, mainHeight, notified, unnotified>>
        /\ alphabet' \in Alphabets /\ alphabet' # {}
    BY <1>1 DEF Main!AlphabetUpdate, Alphabets
  <1>3. /\ Main!Answers(n, r.id)
        /\ Main!OnlyVotes(n, r.id) \/ Main!Decides(n, r.id)
    BY DEF Main!AlphabetUpdate
  <1>4. /\ n \in Nodes \union {Main!Multisignature}
        /\ MainNotaryDisabled => n \in MainVoters
        /\ r.id \in Main!Ids /\ \A w \in Withdrawals : w.tx # r.id
    BY MembersAreKnown, MainIdsOfRequests
  <1> QED
    BY <1>1, <1>2, <1>3, <1>4, OtherAnswersKeep

LEMMA SetConfigKeeps ==
    ASSUME MainInv, NEW r \in Settings, NEW n \in Nodes \union Main!Members, Main!SetConfig(n, r)
    PROVE  MainInv'
  <1>1. /\ alphabet \in Alphabets /\ alphabet # {} /\ candidates \subseteq Candidates
        /\ config \in [{Main!WithdrawFee, Main!CandidateFee} -> Nat]
    BY DEF MainInv, Main!FrostFSTypeOK
  <1>2. UNCHANGED <<gas, alphabet, candidates, mainHeight, notified, unnotified>>
        /\ config' \in [{Main!WithdrawFee, Main!CandidateFee} -> Nat]
    BY <1>1, MainAssumption DEF Main!SetConfig
  <1>3. /\ Main!Answers(n, r.id)
        /\ Main!OnlyVotes(Main!Voter(n), r.id) \/ Main!Decides(Main!Voter(n), r.id)
    BY DEF Main!SetConfig
  <1>4. /\ n \in Nodes \union {Main!Multisignature}
        /\ MainNotaryDisabled => Main!Voter(n) \in MainVoters
        /\ r.id \in Main!Ids /\ \A w \in Withdrawals : w.tx # r.id
    BY MembersAreKnown, MainIdsOfRequests DEF Main!Voter, MainVoters
  <1> QED
    BY <1>1, <1>2, <1>3, <1>4, OtherAnswersKeep

LEMMA MainBlockKeeps ==
    ASSUME MainInv, Main!NewBlock \/ UNCHANGED mainVars
    PROVE  MainInv'
  <1>1. UNCHANGED <<gas, alphabet, candidates, config, mainBox, notified, mainAnswered, unnotified>>
        /\ mainHeight' \in 0..MainMaxHeight
    BY MainAssumption DEF Main!NewBlock, mainVars, MainInv, Main!FrostFSTypeOK
  <1>2. MainVotesOK' /\ \A v \in Withdrawals : ChequePaid(v)' => QuorumSpent(v)'
    BY <1>1, MainVotesStay DEF ChequePaid
  <1> QED
    BY <1>1, <1>2 DEF MainInv, Main!FrostFSTypeOK

-----------------------------------------------------------------------------
(* Both chains.  A lock account is full until it is burned or its epoch    *)
(* comes, whatever else happens in either chain.                           *)
LockedFor(r, w) == [balance |-> w.amount, until |-> r.until, parent |-> w.user]

LocksAreFull ==
    \A r \in locked, w \in Withdrawals :
       r.tx = w.tx /\ epoch < r.until /\ BurnOf(w) \notin burned =>
         acct[LockAccountOf[w]] = LockedFor(r, w)

LocksAreAnswered == \A r \in locked : HasAnswered(LockId(r))

MintedIsNotified ==
    \A d \in Deposits : HasAnswered(MintId(MintOf(d))) => <<"Deposit", d>> \in notified

BurnedIsPaid == \A w \in Withdrawals : BurnOf(w) \in burned => ChequePaid(w)

BridgeInv ==
    /\ BalanceInv
    /\ MainInv
    /\ locked \subseteq Locks
    /\ LocksAreFull
    /\ LocksAreAnswered
    /\ MintedIsNotified
    /\ BurnedIsPaid
    /\ GasBacksTheSupply

LEMMA BridgeRequests ==
    /\ \A d \in Deposits : MintOf(d) \in Mints /\ d.amount \in Nat /\ MintOf(d).amount = d.amount
                           /\ MintId(MintOf(d)) = <<"mint", d.tx>>
    /\ \A w \in Withdrawals :
          /\ \A e \in 0..(MaxEpoch + LockEpochs) : LockOf(w, e) \in Locks
          /\ BurnOf(w) \in Burns /\ BurnId(BurnOf(w)) = <<"burn", w.tx>>
          /\ w.amount \in Nat /\ w.user \in Users /\ w.user \in Accounts
          /\ LockAccountOf[w] \in LockAccounts /\ LockAccountOf[w] \in Accounts
          /\ LockAccountOf[w] \notin Users
    /\ \A w \in Withdrawals, r \in Payments : r.to # LockAccountOf[w]
    /\ \A v, w \in Withdrawals : v # w => LockAccountOf[v] # LockAccountOf[w] /\ BurnOf(v) # BurnOf(w)
  <1>1. \A d \in Deposits : MintOf(d) \in Mints /\ d.amount \in Nat /\ MintOf(d).amount = d.amount
                            /\ MintId(MintOf(d)) = <<"mint", d.tx>>
    <2>1. \A d \in Deposits : MintOf(d) \in Mints /\ MintOf(d).amount = d.amount
                              /\ MintId(MintOf(d)) = <<"mint", d.tx>>
      BY BridgeAssumption DEF MintOf, MintId
    <2> QED
      BY <2>1, RequestsAssumption
  <1>2. ASSUME NEW w \in Withdrawals
        PROVE  /\ \A e \in 0..(MaxEpoch + LockEpochs) : LockOf(w, e) \in Locks
               /\ LockOf(w, 0) \in Locks /\ LockOf(w, 0).to = LockAccountOf[w]
               /\ LockOf(w, 0).from = w.user /\ LockOf(w, 0).amount = w.amount
               /\ BurnOf(w) \in Burns /\ BurnId(BurnOf(w)) = <<"burn", w.tx>>
    <2>1. 0 \in 0..(MaxEpoch + LockEpochs)
      BY BridgeAssumption, BalanceConstantsAssumption
    <2>2. \A e \in 0..(MaxEpoch + LockEpochs) : LockOf(w, e) \in Locks
      BY BridgeAssumption
    <2>3. /\ LockOf(w, 0).to = LockAccountOf[w] /\ LockOf(w, 0).from = w.user
          /\ LockOf(w, 0).amount = w.amount
      BY DEF LockOf
    <2>4. BurnOf(w) \in Burns /\ BurnId(BurnOf(w)) = <<"burn", w.tx>>
      BY BridgeAssumption DEF BurnOf, BurnId
    <2> QED
      BY <2>1, <2>2, <2>3, <2>4
  <1>3. ASSUME NEW w \in Withdrawals
        PROVE  /\ w.amount \in Nat /\ w.user \in Users /\ w.user \in Accounts
               /\ LockAccountOf[w] \in LockAccounts /\ LockAccountOf[w] \in Accounts
               /\ LockAccountOf[w] \notin Users
               /\ \A r \in Payments : r.to # LockAccountOf[w]
    <2>1. /\ LockOf(w, 0) \in Locks /\ LockOf(w, 0).to = LockAccountOf[w]
          /\ LockOf(w, 0).from = w.user /\ LockOf(w, 0).amount = w.amount
      BY <1>2
    <2> QED
      BY <2>1, RequestsAssumption, LockAccountsAssumption, AccountsAreFinite
  <1>4. \A v, w \in Withdrawals : v # w => BurnOf(v) # BurnOf(w)
    BY MainIdsAssumption DEF BurnOf
  <1> QED
    BY <1>1, <1>2, <1>3, <1>4, BridgeAssumption

(* The invoker of the sidechain is the multisignature. *)
LEMMA OneInvoker ==
    /\ \A n \in Invokers : \A id : ~Pending(n, id)
    /\ \A n \in Invokers : \A id : ~OnlyVotes(n, id)
  BY SideAssumption DEF Pending, OnlyVotes

LEMMA AnswersOne ==
    ASSUME NEW n \in Invokers, NEW id, Answers(n, id)
    PROVE  /\ ~HasAnswered(id)
           /\ \A i : HasAnswered(i)' <=> HasAnswered(i) \/ i = id
  BY SideAssumption DEF Answers, HasAnswered, Invokers

(* The lock accounts of withdrawals stay as they are. *)
LockAccountsStay(W) == \A w \in W : acct'[LockAccountOf[w]] = acct[LockAccountOf[w]]

LEMMA FullLocksStay ==
    ASSUME BridgeInv, LockAccountsStay(Withdrawals),
           UNCHANGED <<locked, epoch>>, burned \subseteq burned'
    PROVE  LocksAreFull'
  BY DEF BridgeInv, LocksAreFull, LockAccountsStay, LockedFor

(* Requests that are still to be answered. *)
LEMMA UnansweredSumUp ==
    /\ Unminted \subseteq Deposits /\ Unburned \subseteq Withdrawals
    /\ IsFiniteSet(Unminted) /\ IsFiniteSet(Unburned)
    /\ \A d \in Deposits : d.amount \in Nat
    /\ \A w \in Withdrawals : w.amount \in Nat
    /\ Total(Unminted) \in Nat /\ Total(Unburned) \in Nat
  <1>1. Unminted \subseteq Deposits /\ Unburned \subseteq Withdrawals
    BY DEF Unminted, Unburned
  <1>2. IsFiniteSet(Unminted) /\ IsFiniteSet(Unburned)
    BY <1>1, MainIdsAssumption, FS_Subset
  <1>3. (\A d \in Deposits : d.amount \in Nat) /\ (\A w \in Withdrawals : w.amount \in Nat)
    BY BridgeRequests
  <1> QED
    BY <1>1, <1>2, <1>3, TotalType

(* One request is settled. *)
LEMMA TotalWithout ==
    ASSUME NEW S, IsFiniteSet(S), \A r \in S : r.amount \in Nat, NEW x \in S
    PROVE  Total(S) = x.amount + Total(S \ {x}) /\ Total(S \ {x}) \in Nat
  <1>1. IsFiniteSet(S \ {x}) /\ x \notin S \ {x} /\ S = (S \ {x}) \union {x}
    BY FS_Subset
  <1>2. Total((S \ {x}) \union {x}) = x.amount + Total(S \ {x})
    BY <1>1, TotalAdds
  <1> QED
    BY <1>1, <1>2, TotalType

(* The numbers of GasBacksTheSupply. *)
LEMMA BridgeNumbers ==
    ASSUME BridgeInv
    PROVE  /\ supply \in Nat /\ unnotified \in Nat /\ gas[Main!Contract] \in Nat
           /\ gas[Main!Contract] = supply + Total(Unminted) - Total(Unburned) + unnotified
  BY AccountsNow, MainHolders DEF BridgeInv, MainInv, Main!FrostFSTypeOK, GasBacksTheSupply

LEMMA MainStays ==
    ASSUME BridgeInv, UNCHANGED mainVars
    PROVE  /\ MainInv' /\ UNCHANGED <<gas, unnotified, notified>>
           /\ \A w \in Withdrawals : ChequePaid(w)' <=> ChequePaid(w)
  <1>1. UNCHANGED <<gas, unnotified, notified>>
    BY DEF mainVars
  <1> QED
    BY <1>1, MainBlockKeeps DEF BridgeInv, ChequePaid

(* Steps of the sidechain that mint and burn nothing. *)
LEMMA SideKeeps ==
    ASSUME BridgeInv, UNCHANGED mainVars, BalanceInv', UNCHANGED <<supply, burned>>,
           LocksAreFull', locked' \subseteq Locks, LocksAreAnswered',
           \A d \in Deposits : HasAnswered(MintId(MintOf(d)))' <=> HasAnswered(MintId(MintOf(d)))
    PROVE  BridgeInv'
  <1>1. /\ MainInv' /\ UNCHANGED <<gas, unnotified, notified>>
        /\ \A w \in Withdrawals : ChequePaid(w)' <=> ChequePaid(w)
    BY MainStays
  <1>2. MintedIsNotified' /\ BurnedIsPaid'
    BY <1>1 DEF BridgeInv, MintedIsNotified, BurnedIsPaid
  <1>3. Unminted' = Unminted /\ Unburned' = Unburned
    BY <1>1 DEF Unminted, Unburned
  <1>4. GasBacksTheSupply'
    BY <1>1, <1>3 DEF BridgeInv, GasBacksTheSupply
  <1> QED
    BY <1>1, <1>2, <1>4 DEF BridgeInv

-----------------------------------------------------------------------------
(* The steps, one lemma per action. *)
LEMMA RelayMintKeeps ==
    ASSUME BridgeInv, RelayMint
    PROVE  BridgeInv'
  <1>1. PICK n \in Invokers, d \in Unminted : Mint(n, MintOf(d)) /\ UNCHANGED <<mainVars, locked>>
    BY DEF RelayMint
  <1> DEFINE id == MintId(MintOf(d))
  <1>2. /\ d \in Deposits /\ <<"Deposit", d>> \in notified /\ MintOf(d) \in Mints
        /\ d.amount \in Nat /\ MintOf(d).amount = d.amount
        /\ \A c \in Deposits : MintId(MintOf(c)) = id => c = d
    BY BridgeRequests, MainIdsAssumption DEF Unminted
  <1>3. Answers(n, id) /\ epoch' = epoch /\ UNCHANGED burned
    BY <1>1, OneInvoker DEF Mint, Answers
  <1> HIDE DEF id
  <1>4. \A i : HasAnswered(i)' <=> HasAnswered(i) \/ i = id
    BY <1>3, AnswersOne
  <1>5. /\ MainInv' /\ UNCHANGED <<gas, unnotified, notified>>
        /\ \A w \in Withdrawals : ChequePaid(w)' <=> ChequePaid(w)
    BY <1>1, MainStays
  <1>6. LockAccountsStay(Withdrawals) /\ supply' = supply + d.amount
    <2>1. LedgerOK(acct)
      BY AccountsNow DEF BridgeInv
    <2>2. /\ acct' = Credited(acct, MintOf(d).to, MintOf(d).amount)
          /\ supply' = supply + MintOf(d).amount
      BY <1>1, OneInvoker DEF Mint
    <2>3. \A a \in LockAccounts : acct'[a] = acct[a]
      BY <1>2, <2>1, <2>2, MintCredits
    <2> QED
      BY <1>2, <2>2, <2>3, BridgeRequests DEF LockAccountsStay
  <1>7. LocksAreFull' /\ LocksAreAnswered' /\ MintedIsNotified' /\ BurnedIsPaid'
    <2>1. LocksAreFull'
      BY <1>1, <1>3, <1>6, FullLocksStay
    <2> QED
      BY <1>1, <1>2, <1>3, <1>4, <1>5, <2>1
      DEF BridgeInv, LocksAreAnswered, MintedIsNotified, BurnedIsPaid
  <1>8. GasBacksTheSupply'
    <2>1. Unminted' = Unminted \ {d} /\ Unburned' = Unburned
      BY <1>2, <1>3, <1>4, <1>5 DEF Unminted, Unburned, id
    <2>2. Total(Unminted) = d.amount + Total(Unminted \ {d}) /\ Total(Unminted \ {d}) \in Nat
      BY UnansweredSumUp, TotalWithout
    <2>3. Total(Unburned) \in Nat
      BY UnansweredSumUp
    <2>4. gas[Main!Contract] = supply' + Total(Unminted \ {d}) - Total(Unburned) + unnotified
      BY <1>2, <1>6, <2>2, <2>3, BridgeNumbers
    <2> QED
      BY <1>5, <2>1, <2>4 DEF GasBacksTheSupply
  <1>9. BalanceInv'
    BY <1>1, <1>2, MintKeeps DEF BridgeInv
  <1> QED
    BY <1>1, <1>5, <1>7, <1>8, <1>9 DEF BridgeInv

LEMMA RelayLockKeeps ==
    ASSUME BridgeInv, RelayLock
    PROVE  BridgeInv'
  <1> DEFINE e == epoch + LockEpochs
  <1>1. PICK n \in Invokers, w \in Withdrawals :
           /\ Lock(n, LockOf(w, e)) /\ UNCHANGED mainVars
           /\ locked' = IF acct' = acct THEN locked ELSE locked \union {LockOf(w, e)}
    BY DEF RelayLock
  <1>2. e \in 0..(MaxEpoch + LockEpochs)
    BY BridgeAssumption, BalanceConstantsAssumption DEF BridgeInv, BalanceInv
  <1> HIDE DEF e
  <1> DEFINE r == LockOf(w, e)
             id == LockId(r)
  <1>3. /\ r \in Locks /\ r.tx = w.tx /\ r.from = w.user /\ r.to = LockAccountOf[w]
        /\ r.amount = w.amount /\ id = <<"lock", w.tx>>
        /\ \A d \in Deposits : MintId(MintOf(d)) # id
    BY <1>2, BridgeRequests DEF LockOf, LockId
  <1>4. Answers(n, id) /\ epoch' = epoch /\ Lock(n, r)
    BY <1>1 DEF Lock, Answers
  <1>5. locked' = IF acct' = acct THEN locked ELSE locked \union {r}
    BY <1>1
  <1>6. \A s \in locked : s.tx # w.tx
    <2>1. ~HasAnswered(id)
      BY <1>4, AnswersOne
    <2> QED
      BY <1>3, <2>1 DEF BridgeInv, LocksAreAnswered, LockId
  <1> HIDE DEF r, id
  <1>7. \A i : HasAnswered(i)' <=> HasAnswered(i) \/ i = id
    BY <1>4, AnswersOne
  <1>8. /\ BalanceInv'
        /\ UNCHANGED ledger
           \/ (/\ acct[r.to] = Zero /\ acct' = LockResult(r) /\ UNCHANGED <<supply, burned>>
               /\ CanTransfer([acct EXCEPT ![r.to] = LockAccount(r)], r.from, r.amount))
    BY <1>3, <1>4, LockKeeps DEF BridgeInv
  <1>9. LocksAreFull'
    <2>1. CASE UNCHANGED ledger
      <3>1. LockAccountsStay(Withdrawals) /\ UNCHANGED <<locked, epoch, burned>>
        BY <1>4, <1>5, <2>1 DEF ledger, LockAccountsStay
      <3> QED
        BY <3>1, FullLocksStay
    <2>2. CASE /\ acct[r.to] = Zero /\ acct' = LockResult(r) /\ UNCHANGED <<supply, burned>>
               /\ CanTransfer([acct EXCEPT ![r.to] = LockAccount(r)], r.from, r.amount)
      <3>1. LedgerOK(acct)
        BY AccountsNow DEF BridgeInv
      <3>2. /\ \A a \in Accounts \ {r.from, r.to} : acct'[a] = acct[a]
            /\ acct'[r.to] = [balance |-> r.amount, until |-> r.until, parent |-> r.from]
        BY <1>3, <2>2, <3>1, LockOpens
      <3>3. \A v \in Withdrawals \ {w} : acct'[LockAccountOf[v]] = acct[LockAccountOf[v]]
        BY <1>3, <3>2, BridgeRequests
      <3> SUFFICES ASSUME NEW s \in locked', NEW v \in Withdrawals,
                          s.tx = v.tx, epoch' < s.until, BurnOf(v) \notin burned'
                   PROVE  acct'[LockAccountOf[v]] = LockedFor(s, v)
        BY DEF LocksAreFull, LockedFor
      <3>4. CASE s \in locked
        <4>1. v # w
          BY <1>6, <3>4
        <4>2. acct[LockAccountOf[v]] = LockedFor(s, v)
          BY <1>4, <2>2, <3>4 DEF BridgeInv, LocksAreFull
        <4> QED
          BY <3>3, <4>1, <4>2
      <3>5. CASE s = r
        <4>1. v = w
          BY <1>3, <3>5, MainIdsAssumption
        <4> QED
          BY <1>3, <3>2, <3>5, <4>1 DEF LockedFor
      <3> QED
        BY <1>5, <3>4, <3>5
    <2> QED
      BY <1>8, <2>1, <2>2
  <1>10. locked' \subseteq Locks /\ LocksAreAnswered'
    BY <1>3, <1>5, <1>7 DEF BridgeInv, LocksAreAnswered, id
  <1>11. \A d \in Deposits : HasAnswered(MintId(MintOf(d)))' <=> HasAnswered(MintId(MintOf(d)))
    BY <1>3, <1>7
  <1>12. UNCHANGED <<supply, burned>>
    BY <1>8 DEF ledger
  <1> QED
    BY <1>1, <1>8, <1>9, <1>10, <1>11, <1>12, SideKeeps

LEMMA RelayBurnKeeps ==
    ASSUME BridgeInv, RelayBurn
    PROVE  BridgeInv'
  <1>1. PICK n \in Invokers, w \in Unburned : Burn(n, BurnOf(w)) /\ UNCHANGED <<mainVars, locked>>
    BY DEF RelayBurn
  <1> DEFINE id == BurnId(BurnOf(w))
             x == LockAccountOf[w]
  <1>2. /\ w \in Withdrawals /\ ChequePaid(w) /\ BurnOf(w) \in Burns /\ BurnOf(w) \notin burned
        /\ id = <<"burn", w.tx>> /\ w.amount \in Nat
        /\ BurnOf(w).from = x /\ BurnOf(w).amount = w.amount /\ x \in Accounts
        /\ \A c \in Deposits : MintId(MintOf(c)) # id
        /\ \A v \in Withdrawals : BurnOf(v) = BurnOf(w) => v = w
    BY BridgeRequests DEF Unburned, ChequePaid, BurnOf
  <1>3. Answers(n, id) /\ epoch' = epoch
    BY <1>1 DEF Burn, Answers
  <1> HIDE DEF id
  <1>4. \A i : HasAnswered(i)' <=> HasAnswered(i) \/ i = id
    BY <1>3, AnswersOne
  <1>5. BalanceInv'
    BY <1>1, <1>2, BurnKeeps DEF BridgeInv
  <1>6. /\ \A d \in Deposits : HasAnswered(MintId(MintOf(d)))' <=> HasAnswered(MintId(MintOf(d)))
        /\ locked' \subseteq Locks /\ LocksAreAnswered'
    BY <1>1, <1>2, <1>4 DEF BridgeInv, LocksAreAnswered
  <1>7. CASE UNCHANGED ledger
    <2>1. LocksAreFull' /\ UNCHANGED <<supply, burned>>
      BY <1>1, <1>3, <1>7, FullLocksStay DEF ledger, LockAccountsStay
    <2> QED
      BY <1>1, <1>5, <1>6, <2>1, SideKeeps
  <1>8. CASE /\ CanTransfer(acct, x, w.amount) /\ supply >= w.amount
             /\ acct' = Withdrawn(acct, x, w.amount) /\ supply' = supply - w.amount
             /\ burned' = burned \union {BurnOf(w)}
    <2>1. /\ MainInv' /\ UNCHANGED <<gas, unnotified, notified>>
          /\ \A v \in Withdrawals : ChequePaid(v)' <=> ChequePaid(v)
      BY <1>1, MainStays
    <2>2. \A a \in Accounts \ {x} : acct'[a] = acct[a]
      <3>1. LedgerOK(acct) /\ acct[x].balance >= w.amount
        BY <1>8, AccountsNow DEF BridgeInv, CanTransfer
      <3> QED
        BY <1>2, <1>8, <3>1, WithdrawnTakes
    <2>3. LocksAreFull'
      <3>1. ASSUME NEW s \in locked, NEW v \in Withdrawals,
                   s.tx = v.tx, epoch < s.until, BurnOf(v) \notin burned'
            PROVE  acct'[LockAccountOf[v]] = LockedFor(s, v)
        <4>1. v # w /\ BurnOf(v) \notin burned
          BY <1>8, <3>1
        <4>2. acct[LockAccountOf[v]] = LockedFor(s, v)
          BY <3>1, <4>1 DEF BridgeInv, LocksAreFull
        <4> QED
          BY <1>2, <2>2, <4>1, <4>2, BridgeRequests
      <3> QED
        BY <1>1, <1>3, <3>1 DEF LocksAreFull, LockedFor
    <2>4. MintedIsNotified' /\ BurnedIsPaid'
      BY <1>2, <1>6, <1>8, <2>1 DEF BridgeInv, MintedIsNotified, BurnedIsPaid
    <2>5. GasBacksTheSupply'
      <3>1. Unminted' = Unminted /\ Unburned' = Unburned \ {w}
        BY <1>2, <1>6, <1>8, <2>1 DEF Unminted, Unburned
      <3>2. Total(Unburned) = w.amount + Total(Unburned \ {w}) /\ Total(Unburned \ {w}) \in Nat
        BY UnansweredSumUp, TotalWithout
      <3>3. Total(Unminted) \in Nat
        BY UnansweredSumUp
      <3>4. gas[Main!Contract] = supply' + Total(Unminted) - Total(Unburned \ {w}) + unnotified
        BY <1>2, <1>8, <3>2, <3>3, BridgeNumbers
      <3> QED
        BY <2>1, <3>1, <3>4 DEF GasBacksTheSupply
    <2> QED
      BY <1>5, <1>6, <2>1, <2>3, <2>4, <2>5 DEF BridgeInv
  <1> QED
    BY <1>1, <1>2, <1>7, <1>8, OneInvoker DEF Burn

LEMMA RelayChequeKeeps ==
    ASSUME BridgeInv, RelayCheque
    PROVE  BridgeInv'
  <1>1. PICK n \in Main!Members, w \in Withdrawals : Main!Cheque(n, w) /\ UNCHANGED <<vars, locked>>
    BY DEF RelayCheque
  <1>2. w.amount \in Nat
    BY BridgeRequests
  <1>3. /\ MainInv' /\ unnotified' = unnotified
        /\ \/ UNCHANGED <<gas, notified>>
           \/ /\ ~ChequePaid(w) /\ notified' = notified \union {<<"Cheque", w>>}
              /\ ToContract(-w.amount)
    BY <1>1, <1>2, ChequeKeeps DEF BridgeInv
  <1>4. UNCHANGED <<acct, supply, burned, epoch, answered, locked>> /\ BalanceInv'
    BY <1>1, NewBlockKeeps DEF BridgeInv, vars, ledger
  <1>5. /\ \A i : HasAnswered(i)' <=> HasAnswered(i)
        /\ \A v \in Withdrawals : ChequePaid(v)' <=> ChequePaid(v) \/ (v = w /\ ChequePaid(w)')
        /\ \A d \in Deposits : <<"Deposit", d>> \in notified' <=> <<"Deposit", d>> \in notified
    BY <1>3, <1>4 DEF HasAnswered, ChequePaid
  <1>6. LocksAreFull' /\ LocksAreAnswered' /\ MintedIsNotified' /\ BurnedIsPaid'
    <2>1. LocksAreFull'
      BY <1>4, FullLocksStay DEF LockAccountsStay
    <2> QED
      BY <1>4, <1>5, <2>1 DEF BridgeInv, LocksAreAnswered, MintedIsNotified, BurnedIsPaid
  <1>7. GasBacksTheSupply'
    <2>1. Unminted' = Unminted
      BY <1>5 DEF Unminted
    <2>2. CASE UNCHANGED <<gas, notified>>
      <3>1. Unburned' = Unburned
        BY <1>4, <2>2 DEF Unburned
      <3> QED
        BY <1>3, <1>4, <2>1, <2>2, <3>1 DEF BridgeInv, GasBacksTheSupply
    <2>3. CASE /\ ~ChequePaid(w) /\ notified' = notified \union {<<"Cheque", w>>}
               /\ ToContract(-w.amount)
      <3>1. BurnOf(w) \notin burned
        BY <2>3 DEF BridgeInv, BurnedIsPaid
      <3>2. Unburned' = Unburned \union {w} /\ w \notin Unburned
        BY <1>4, <2>3, <3>1 DEF Unburned, ChequePaid
      <3>3. Total(Unburned \union {w}) = w.amount + Total(Unburned)
        BY <1>2, <3>2, UnansweredSumUp, TotalAdds
      <3>4. /\ Total(Unminted) \in Nat /\ Total(Unburned) \in Nat
            /\ gas'[Main!Contract] = gas[Main!Contract] + (-w.amount)
        BY <2>3, UnansweredSumUp DEF ToContract
      <3>5. gas'[Main!Contract] = supply + Total(Unminted) - Total(Unburned \union {w}) + unnotified
        BY <1>2, <3>3, <3>4, BridgeNumbers
      <3> QED
        BY <1>3, <1>4, <2>1, <3>2, <3>5 DEF GasBacksTheSupply
    <2> QED
      BY <1>3, <2>2, <2>3
  <1> QED
    BY <1>3, <1>4, <1>6, <1>7 DEF BridgeInv

(* A lock that is over is returned; one that is not over stays. *)
LEMMA SideNewEpochKeeps ==
    ASSUME BridgeInv, SideNewEpoch
    PROVE  BridgeInv'
  <1>1. PICK e \in 1..MaxEpoch : NewEpoch(e) /\ UNCHANGED <<mainVars, locked>>
    BY DEF SideNewEpoch
  <1>2. BalanceInv' /\ ReturnedOf(acct, acct', TimedOut(acct, e))
    BY <1>1, NewEpochKeeps DEF BridgeInv
  <1>3. UNCHANGED <<supply, burned, answered, locked>> /\ epoch' = e /\ e > epoch
    BY <1>1 DEF NewEpoch
  <1>4. LocksAreFull'
    <2> SUFFICES ASSUME NEW r \in locked, NEW w \in Withdrawals,
                        r.tx = w.tx, e < r.until, BurnOf(w) \notin burned
                 PROVE  acct'[LockAccountOf[w]] = LockedFor(r, w)
      BY <1>3 DEF LocksAreFull, LockedFor
    <2>1. epoch \in Nat /\ e \in Nat /\ r.until \in Nat
      BY RequestsAssumption, BalanceConstantsAssumption DEF BridgeInv, BalanceInv
    <2>2. acct[LockAccountOf[w]] = LockedFor(r, w)
      BY <1>3, <2>1 DEF BridgeInv, LocksAreFull
    <2>3. LockAccountOf[w] \in LockAccounts \ TimedOut(acct, e)
      BY <2>1, <2>2, BridgeRequests DEF TimedOut, LockedFor
    <2> QED
      BY <1>2, <2>2, <2>3 DEF ReturnedOf
  <1>5. /\ locked' \subseteq Locks /\ LocksAreAnswered'
        /\ \A d \in Deposits : HasAnswered(MintId(MintOf(d)))' <=> HasAnswered(MintId(MintOf(d)))
    BY <1>3 DEF BridgeInv, LocksAreAnswered, HasAnswered
  <1> QED
    BY <1>1, <1>2, <1>3, <1>4, <1>5, SideKeeps

LEMMA PaymentKeepsBridge ==
    ASSUME BridgeInv, NEW r \in Payments, Transfer(r), UNCHANGED <<mainVars, locked>>
    PROVE  BridgeInv'
  <1>1. BalanceInv'
    BY TransferKeeps DEF BridgeInv
  <1>2. UNCHANGED <<supply, burned, epoch, answered, locked>>
    BY DEF Transfer
  <1>3. LockAccountsStay(Withdrawals)
    <2>1. \A s \in Locks : acct'[s.to] = acct[s.to]
      BY AccountsNow, PaymentMoves DEF BridgeInv, Transfer
    <2>2. \A w \in Withdrawals : LockOf(w, 0) \in Locks /\ LockOf(w, 0).to = LockAccountOf[w]
      <3>1. 0 \in 0..(MaxEpoch + LockEpochs)
        BY BridgeAssumption, BalanceConstantsAssumption
      <3> QED
        BY <3>1, BridgeRequests DEF LockOf
    <2> QED
      BY <2>1, <2>2 DEF LockAccountsStay
  <1>4. /\ locked' \subseteq Locks /\ LocksAreAnswered' /\ LocksAreFull'
        /\ \A d \in Deposits : HasAnswered(MintId(MintOf(d)))' <=> HasAnswered(MintId(MintOf(d)))
    BY <1>2, <1>3, FullLocksStay DEF BridgeInv, LocksAreAnswered, HasAnswered
  <1> QED
    BY <1>1, <1>2, <1>4, SideKeeps

(* Steps of the main chain but cheques. *)
SameNotified ==
    /\ \A d \in Deposits : <<"Deposit", d>> \in notified' <=> <<"Deposit", d>> \in notified
    /\ \A w \in Withdrawals : ChequePaid(w)' <=> ChequePaid(w)

LEMMA MainStepDoes ==
    ASSUME MainInv, MainStep
    PROVE  /\ UNCHANGED <<vars, locked>> /\ MainInv'
           /\ \/ \E d \in Deposits :
                    /\ <<"Deposit", d>> \notin notified
                    /\ notified' = notified \union {<<"Deposit", d>>}
                    /\ ToContract(d.amount) /\ unnotified' = unnotified
              \/ /\ SameNotified
                 /\ \E fee \in Nat : ToContract(fee) /\ unnotified' = unnotified + fee
  <1>1. gas[Main!Contract] \in Nat /\ unnotified \in Nat
    BY MainHolders DEF MainInv, Main!FrostFSTypeOK
  <1>2. UNCHANGED gas => ToContract(0)
    BY <1>1 DEF ToContract
  <1>3. (UNCHANGED notified => SameNotified) /\ (UNCHANGED unnotified => unnotified' = unnotified + 0)
    BY <1>1 DEF SameNotified, ChequePaid
  <1>4. CASE \E d \in Deposits : Main!Deposit(d)
    <2>1. PICK d \in Deposits : Main!Deposit(d)
      BY <1>4
    <2>2. MainInv' /\ ToContract(d.amount)
      BY <2>1, DepositKeeps
    <2>3. /\ <<"Deposit", d>> \notin notified /\ notified' = notified \union {<<"Deposit", d>>}
          /\ unnotified' = unnotified
      BY <2>1 DEF Main!Deposit
    <2> QED
      BY <2>2, <2>3 DEF MainStep
  <1>11. CASE \E d \in SilentDeposits : Main!SilentDeposit(d)
    <2>1. PICK d \in SilentDeposits : Main!SilentDeposit(d)
      BY <1>11
    <2>2. MainInv' /\ \E fee \in Nat : ToContract(fee) /\ unnotified' = unnotified + fee
      BY <2>1, SilentDepositKeeps
    <2>3. SameNotified
      BY <1>3, <2>1 DEF Main!SilentDeposit
    <2> QED
      BY <2>2, <2>3 DEF MainStep
  <1>5. CASE \E w \in Withdrawals : Main!Withdraw(w)
    <2>1. PICK w \in Withdrawals : Main!Withdraw(w)
      BY <1>5
    <2>2. MainInv' /\ ToContract(0)
      BY <2>1, WithdrawKeeps
    <2>3. SameNotified /\ unnotified' = unnotified
      BY <2>1 DEF Main!Withdraw, SameNotified, ChequePaid
    <2> QED
      BY <1>3, <2>2, <2>3 DEF MainStep
  <1>6. CASE \E k \in Candidates : Main!InnerRingCandidateAdd(k)
    <2>1. PICK k \in Candidates : Main!InnerRingCandidateAdd(k)
      BY <1>6
    <2>2. MainInv' /\ \E fee \in Nat : ToContract(fee) /\ unnotified' = unnotified + fee
      BY <2>1, CandidateAddKeeps
    <2>3. SameNotified
      BY <1>3, <2>1 DEF Main!InnerRingCandidateAdd
    <2> QED
      BY <2>2, <2>3 DEF MainStep
  <1>7. CASE \E n \in Nodes \union Main!Members, k \in Candidates : Main!InnerRingCandidateRemove(n, k)
    <2>1. PICK n \in Nodes \union Main!Members, k \in Candidates : Main!InnerRingCandidateRemove(n, k)
      BY <1>7
    <2>2. MainInv' /\ UNCHANGED <<gas, notified, unnotified>>
      BY <2>1, CandidateRemoveKeeps DEF Main!InnerRingCandidateRemove
    <2> QED
      BY <1>2, <1>3, <2>2 DEF MainStep
  <1>8. CASE \E n \in Main!Members, r \in AlphabetUpdates : Main!AlphabetUpdate(n, r)
    <2>1. PICK n \in Main!Members, r \in AlphabetUpdates : Main!AlphabetUpdate(n, r)
      BY <1>8
    <2>2. MainInv' /\ UNCHANGED <<gas, notified, unnotified>>
      BY <2>1, AlphabetUpdateKeeps DEF Main!AlphabetUpdate
    <2> QED
      BY <1>2, <1>3, <2>2 DEF MainStep
  <1>9. CASE \E n \in Nodes \union Main!Members, r \in Settings : Main!SetConfig(n, r)
    <2>1. PICK n \in Nodes \union Main!Members, r \in Settings : Main!SetConfig(n, r)
      BY <1>9
    <2>2. MainInv' /\ UNCHANGED <<gas, notified, unnotified>>
      BY <2>1, SetConfigKeeps DEF Main!SetConfig
    <2> QED
      BY <1>2, <1>3, <2>2 DEF MainStep
  <1>10. CASE Main!NewBlock
    <2>1. MainInv' /\ UNCHANGED <<gas, notified, unnotified>>
      BY <1>10, MainBlockKeeps DEF Main!NewBlock
    <2> QED
      BY <1>2, <1>3, <2>1 DEF MainStep
  <1> QED
    BY <1>4, <1>5, <1>6, <1>7, <1>8, <1>9, <1>10, <1>11 DEF MainStep

LEMMA MainStepKeeps ==
    ASSUME BridgeInv, MainStep
    PROVE  BridgeInv'
  <1>1. /\ UNCHANGED <<vars, locked>> /\ MainInv'
        /\ \/ \E d \in Deposits :
                 /\ <<"Deposit", d>> \notin notified
                 /\ notified' = notified \union {<<"Deposit", d>>}
                 /\ ToContract(d.amount) /\ unnotified' = unnotified
           \/ /\ SameNotified
              /\ \E fee \in Nat : ToContract(fee) /\ unnotified' = unnotified + fee
    BY MainStepDoes DEF BridgeInv
  <1>2. UNCHANGED <<acct, supply, burned, epoch, answered, locked>> /\ BalanceInv'
    BY <1>1, NewBlockKeeps DEF BridgeInv, vars, ledger
  <1>3. /\ \A i : HasAnswered(i)' <=> HasAnswered(i)
        /\ \A v \in Withdrawals : ChequePaid(v)' <=> ChequePaid(v)
        /\ \A d \in Deposits : <<"Deposit", d>> \in notified => <<"Deposit", d>> \in notified'
    BY <1>1, <1>2 DEF HasAnswered, SameNotified, ChequePaid
  <1>4. LocksAreFull' /\ LocksAreAnswered' /\ MintedIsNotified' /\ BurnedIsPaid'
    <2>1. LocksAreFull'
      BY <1>2, FullLocksStay DEF LockAccountsStay
    <2> QED
      BY <1>2, <1>3, <2>1 DEF BridgeInv, LocksAreAnswered, MintedIsNotified, BurnedIsPaid
  <1>5. Unburned' = Unburned
    BY <1>2, <1>3 DEF Unburned, ChequePaid
  <1>6. Total(Unminted) \in Nat /\ Total(Unburned) \in Nat
    BY UnansweredSumUp
  <1>7. GasBacksTheSupply'
    <2>1. CASE \E d \in Deposits : /\ <<"Deposit", d>> \notin notified
                                   /\ notified' = notified \union {<<"Deposit", d>>}
                                   /\ ToContract(d.amount) /\ unnotified' = unnotified
      <3>1. PICK d \in Deposits : /\ <<"Deposit", d>> \notin notified
                                  /\ notified' = notified \union {<<"Deposit", d>>}
                                  /\ ToContract(d.amount) /\ unnotified' = unnotified
        BY <2>1
      <3>2. Unminted' = Unminted \union {d} /\ d \notin Unminted
        BY <1>3, <3>1 DEF Unminted, BridgeInv, MintedIsNotified
      <3>3. d.amount \in Nat /\ Total(Unminted \union {d}) = d.amount + Total(Unminted)
        BY <3>2, UnansweredSumUp, TotalAdds
      <3>4. gas'[Main!Contract] = supply + Total(Unminted \union {d}) - Total(Unburned) + unnotified
        BY <1>6, <3>1, <3>3, BridgeNumbers DEF ToContract
      <3> QED
        BY <1>2, <1>5, <3>1, <3>2, <3>4 DEF GasBacksTheSupply
    <2>2. CASE SameNotified /\ \E fee \in Nat : ToContract(fee) /\ unnotified' = unnotified + fee
      <3>1. PICK fee \in Nat : ToContract(fee) /\ unnotified' = unnotified + fee
        BY <2>2
      <3>2. Unminted' = Unminted
        BY <1>3, <2>2 DEF Unminted, SameNotified
      <3>3. gas'[Main!Contract] = supply + Total(Unminted) - Total(Unburned) + unnotified'
        BY <1>6, <3>1, BridgeNumbers DEF ToContract
      <3> QED
        BY <1>2, <1>5, <3>2, <3>3 DEF GasBacksTheSupply
    <2> QED
      BY <1>1, <2>1, <2>2
  <1> QED
    BY <1>1, <1>2, <1>4, <1>7 DEF BridgeInv

LEMMA NothingHappens ==
    ASSUME BridgeInv, UNCHANGED <<vars, mainVars, locked>>
    PROVE  BridgeInv'
  <1>1. BalanceInv' /\ UNCHANGED <<acct, supply, burned, epoch, answered, locked>>
    BY NewBlockKeeps DEF BridgeInv, vars, ledger
  <1>2. /\ locked' \subseteq Locks /\ LocksAreAnswered' /\ LocksAreFull'
        /\ \A d \in Deposits : HasAnswered(MintId(MintOf(d)))' <=> HasAnswered(MintId(MintOf(d)))
    BY <1>1, FullLocksStay DEF BridgeInv, LocksAreAnswered, HasAnswered, LockAccountsStay
  <1> QED
    BY <1>1, <1>2, SideKeeps

LEMMA BridgeStep == BridgeInv /\ [BridgeNext]_<<vars, mainVars, locked>> => BridgeInv'
  BY RelayMintKeeps, RelayLockKeeps, RelayChequeKeeps, RelayBurnKeeps, SideNewEpochKeeps,
     PaymentKeepsBridge, MainStepKeeps, NothingHappens
  DEF BridgeNext

-----------------------------------------------------------------------------
(* In the beginning nothing is notified and the FrostFS contract owns      *)
(* nothing.                                                                *)
LEMMA NothingIsOwed == BridgeInit => BridgeInv
  <1> SUFFICES ASSUME BridgeInit PROVE BridgeInv
    OBVIOUS
  <1>1. /\ Init /\ locked = {} /\ notified = {} /\ mainAnswered = {} /\ unnotified = 0
        /\ supply = 0 /\ answered = {} /\ burned = {} /\ alphabet = FirstAlphabet
    BY DEF BridgeInit, Main!FrostFSInit, Init
  <1>2. BalanceInv
    BY <1>1, BalanceInit
  <1>3. Main!FrostFSTypeOK
    BY MainAssumption
    DEF BridgeInit, Main!FrostFSInit, Main!FrostFSTypeOK, Main!NoBallot, Main!Holders
  <1>4. MainInv
    <2>1. \A w \in Withdrawals : mainBox[w.tx].voters = {}
      BY MainIdsOfRequests DEF BridgeInit, Main!FrostFSInit, Main!NoBallot
    <2> QED
      BY <1>1, <1>3, <2>1 DEF MainInv, MainVotesOK, ChequePaid, Alphabets
  <1>5. GasBacksTheSupply
    <2>1. Unminted = {} /\ Unburned = {}
      BY <1>1 DEF Unminted, Unburned
    <2>2. Total({}) = 0
      BY SumEmpty DEF Total
    <2>3. gas[Main!Contract] = 0
      BY MainAssumption, MainHolders DEF BridgeInit, Main!FrostFSInit
    <2> QED
      BY <1>1, <2>1, <2>2, <2>3 DEF GasBacksTheSupply
  <1> QED
    BY <1>1, <1>2, <1>4, <1>5
    DEF BridgeInv, LocksAreFull, LocksAreAnswered, MintedIsNotified, BurnedIsPaid, HasAnswered

-----------------------------------------------------------------------------
(* Both ledgers and the votes for the cheques, in every reachable state of *)
(* the two chains, however late the Inner Ring answers.                    *)
THEOREM BridgeInvariance == BridgeSpec => []BridgeInv
  <1>1. BridgeInv /\ [BridgeNext]_<<vars, mainVars, locked>> => BridgeInv'
    BY BridgeStep
  <1> QED
    BY <1>1, NothingIsOwed, PTL DEF BridgeSpec

(* Every variable of both chains stays in its domain: nobody owes GAS and  *)
(* no balance of the sidechain is negative.                                *)
THEOREM BridgeTypes == BridgeSpec => []BridgeTypeOK
  <1>1. BridgeInv => BridgeTypeOK
    BY DEF BridgeInv, MainInv, BalanceInv, VotesOK, VotesInv, SupplyOK, LedgerOK, BackedOK,
           BridgeTypeOK, TypeOK, VotingTypeOK
  <1> QED
    BY <1>1, BridgeInvariance, PTL

(* Whatever comes late, times out or fails: the GAS of the FrostFS         *)
(* contract is the supply of the sidechain, the deposits not minted less   *)
(* the cheques not burned, and what came without a notification.           *)
THEOREM BalancesAreSynchronized == BridgeSpec => []GasBacksTheSupply
  <1>1. BridgeInv => GasBacksTheSupply
    BY DEF BridgeInv
  <1> QED
    BY <1>1, BridgeInvariance, PTL

(* What was locked for a withdrawal is in its lock account until it is     *)
(* burned or the epoch of the lock comes.                                  *)
THEOREM LocksWaitForTheirCheques == BridgeSpec => []LocksCoverTheirCheques
  <1>1. BridgeInv => LocksCoverTheirCheques
    <2> SUFFICES ASSUME BridgeInv, NEW r \in locked, NEW w \in Withdrawals,
                        r.tx = w.tx, epoch < r.until, BurnOf(w) \notin burned
                 PROVE  acct[LockAccountOf[w]].balance = w.amount
      BY DEF LocksCoverTheirCheques
    <2>1. acct[LockAccountOf[w]] = LockedFor(r, w)
      BY DEF BridgeInv, LocksAreFull
    <2> QED
      BY <2>1 DEF LockedFor
  <1> QED
    BY <1>1, BridgeInvariance, PTL

(* GAS leaves the FrostFS contract only for a withdrawal that it has not   *)
(* paid before.                                                            *)
PaysOnce ==
    gas'[Main!Contract] < gas[Main!Contract] =>
      \E w \in Withdrawals :
         /\ ~ChequePaid(w) /\ ChequePaid(w)'
         /\ gas'[Main!Contract] = gas[Main!Contract] - w.amount

(* No withdrawal is paid twice, although votes for cheques are collected   *)
(* under bare ids, expire after some blocks, and may be those of nodes of  *)
(* different alphabets.                                                    *)
THEOREM ChequesArePaidOnce == BridgeSpec => [][PaysOnce]_<<vars, mainVars, locked>>
  <1>1. BridgeInv /\ [BridgeNext]_<<vars, mainVars, locked>> => PaysOnce
    <2> SUFFICES ASSUME BridgeInv, [BridgeNext]_<<vars, mainVars, locked>>,
                        gas'[Main!Contract] < gas[Main!Contract]
                 PROVE  \E w \in Withdrawals :
                           /\ ~ChequePaid(w) /\ ChequePaid(w)'
                           /\ gas'[Main!Contract] = gas[Main!Contract] - w.amount
      BY DEF PaysOnce
    <2>1. gas[Main!Contract] \in Nat
      BY BridgeNumbers
    <2>2. ~UNCHANGED gas
      BY <2>1
    <2>3. CASE RelayCheque
      <3>1. PICK n \in Main!Members, w \in Withdrawals : Main!Cheque(n, w)
        BY <2>3 DEF RelayCheque
      <3>2. w \in Withdrawals /\ w.amount \in Nat
        BY BridgeRequests
      <3>3. /\ ~ChequePaid(w) /\ notified' = notified \union {<<"Cheque", w>>}
            /\ ToContract(-w.amount)
        BY <2>2, <3>1, <3>2, ChequeKeeps DEF BridgeInv
      <3>4. gas'[Main!Contract] = gas[Main!Contract] - w.amount
        BY <2>1, <3>2, <3>3 DEF ToContract
      <3> QED
        BY <3>2, <3>3, <3>4 DEF ChequePaid
    <2>4. CASE MainStep
      <3>1. \E k \in Nat : ToContract(k)
        BY <2>4, MainStepDoes, UnansweredSumUp DEF BridgeInv
      <3> QED
        BY <2>1, <3>1 DEF ToContract
    <2> QED
      BY <2>2, <2>3, <2>4
      DEF BridgeNext, RelayMint, RelayLock, RelayBurn, SideNewEpoch, mainVars
  <1> QED
    BY <1>1, BridgeInvariance, PTL DEF BridgeSpec

==============================================================================

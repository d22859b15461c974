-------------------------- MODULE AlphabetContract --------------------------
(***************************************************************************)
(* The Alphabet contract (alphabet/alphabet_contract.go), of which every   *)
(* alphabet node has one: it holds NEO, hands out the GAS that this NEO    *)
(* yields, and votes with it for the committee of the sidechain.           *)
(***************************************************************************)
EXTENDS Voting, FiniteSetsExt, Sequences

CONSTANTS
    Index,       \* index of the contract
    RingNodes,   \* keys that may be in the inner ring list
    Yields,      \* amounts of GAS that the NEO may have yielded since Emit
    Nominations, \* lists of candidates that the alphabet may vote for
    LastEpoch,   \* bound on the epoch
    MaxGas       \* bound on the GAS that is handed out

ASSUME AlphabetAssumption ==
    /\ Index \in Nat /\ LastEpoch \in Nat /\ MaxGas \in Nat
    /\ IsFiniteSet(RingNodes) /\ Yields \subseteq Nat
    /\ \A c \in Nominations : Len(c) > 0

VARIABLES
    now,       \* epoch of the Netmap contract
    gas,       \* GAS of the contract
    proxyGas,  \* GAS of the Proxy contract
    nodeGas,   \* GAS of every node
    candidate  \* whom the contract votes for

wallets == <<gas, proxyGas, nodeGas>>
alphabetVars == <<now, wallets, candidate>>

NoCandidate == "no candidate"

(* voteID *)
NominationId(e, candidates) == <<"vote", e, candidates>>

NominationIds == {NominationId(e, c) : e \in 0..LastEpoch, c \in Nominations}

AlphabetInit ==
    /\ now = 0
    /\ gas = 0 /\ proxyGas = 0
    /\ nodeGas = [m \in RingNodes |-> 0]
    /\ candidate = NoCandidate

-----------------------------------------------------------------------------
(* Half of the GAS goes to the proxy, if there is notary support. *)
ProxyShare(balance) == IF NotaryDisabled THEN 0 ELSE balance \div 2

NodeShareRoundedUp(balance, size) == (((balance - ProxyShare(balance)) * 7) \div 8 + size - 1) \div size

(* What each node of the inner ring gets of the rest: the list is not      *)
(* empty, or the division faults.                                          *)
NodeShare(balance, size) == (((balance - ProxyShare(balance)) * 7) \div 8) \div size

(* Emit, by the alphabet node with the index of the contract.  Sending the *)
(* NEO to itself claims the GAS that it has yielded.                       *)
Emit(yield, ring) ==
    LET balance == gas + yield
        share == NodeShare(balance, Cardinality(ring)) IN
    /\ ring # {}
    /\ ~NotaryDisabled => ProxyShare(balance) # 0
    /\ gas' = balance - ProxyShare(balance) - share * Cardinality(ring)
    /\ proxyGas' = proxyGas + ProxyShare(balance)
    /\ nodeGas' = [m \in RingNodes |-> nodeGas[m] + IF m \in ring THEN share ELSE 0]
    /\ UNCHANGED <<voting, now, candidate>>

(* Vote: every contract takes the candidate of its own index.  An epoch    *)
(* other than the current one panics before the vote is collected.         *)
Nominate(n, e, candidates) ==
    /\ e = now
    /\ \/ OnlyVotes(n, NominationId(e, candidates)) /\ UNCHANGED candidate
       \/ /\ Decides(n, NominationId(e, candidates))
          /\ candidate' = candidates[(Index % Len(candidates)) + 1]
    /\ UNCHANGED <<now, wallets>>

(* The Netmap contract has another epoch. *)
EpochPasses ==
    /\ now < LastEpoch
    /\ now' = now + 1
    /\ UNCHANGED <<voting, wallets, candidate>>

(* The GAS that there is outside of the NEO contract. *)
AllGas == gas + proxyGas + SumFunctionOnSet(nodeGas, RingNodes)

AlphabetNext ==
    \/ \E y \in Yields, ring \in SUBSET RingNodes : AllGas + y <= MaxGas /\ Emit(y, ring)
    \/ \E n \in Invokers, e \in 0..LastEpoch, c \in Nominations : Nominate(n, e, c)
    \/ EpochPasses
    \/ NextBlock /\ UNCHANGED alphabetVars

-----------------------------------------------------------------------------
(* What a step takes from the contract. *)
Handed == (proxyGas' - proxyGas) + SumFunctionOnSet([m \in RingNodes |-> nodeGas'[m] - nodeGas[m]], RingNodes)

(* The shares that a step leaves to the contract and gives to the nodes. *)
SharesAreKept ==
    LET part == IF NotaryDisabled THEN 8 ELSE 16
        before == gas' + Handed IN
    /\ part * gas' >= before
    /\ part * gas' <= before + part * (Cardinality(RingNodes) + 2)
    /\ Cardinality({nodeGas'[m] - nodeGas[m] : m \in RingNodes} \ {0}) <= 1
=============================================================================

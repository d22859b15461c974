------------------------------ MODULE FrostFS ------------------------------
(***************************************************************************)
(* The FrostFS contract (frostfs/frostfs_contract.go) in the main chain:   *)
(* it holds the GAS of all users, takes deposits and withdrawals, pays     *)
(* cheques, and keeps its own alphabet list, which its alphabet updates.   *)
(*                                                                         *)
(* A transaction runs alone and a panic reverts it.  Bind and Unbind only  *)
(* notify and are left out.  Amounts are whole units: the contract and the *)
(* Inner Ring convert precisions.                                          *)
(***************************************************************************)
EXTENDS Ballots

CONSTANTS
    Users,           \* accounts that deposit and withdraw
    Nodes,           \* keys of alphabet nodes and candidates, and their accounts
    FirstAlphabet,   \* alphabet list given to _deploy
    FirstConfig,     \* configuration given to _deploy
    NotaryDisabled,  \* as given to _deploy
    FirstGas,        \* GAS of the users and nodes in the beginning
    Deposits,        \* transfers to the contract: [tx, from, to, amount]
    SilentDeposits,  \* transfers that ask not to be notified: [from, amount]
    Withdrawals,     \* [tx, user, amount]
    AlphabetUpdates, \* [id, keys]
    Candidates,      \* keys that apply for the inner ring
    Settings,        \* configuration updates: [id, key, val]
    MaxAmount,       \* maxBalanceAmountGAS and maxBalanceAmount
    MaxHeight        \* bound on the block height

VARIABLES
    gas,        \* balances of the native GAS contract
    alphabet,   \* alphabetKey
    candidates, \* keys under candidatesKey
    config,     \* value of every configuration key
    box,        \* the ballots that the contract stores
    height,     \* index of the current block
    notified,   \* notifications so far, as <<name, request>>
    answered,   \* history: <<node, id>> for every invocation of the alphabet
    unnotified  \* history: GAS that the contract has received without notifying

main == <<gas, alphabet, candidates, config, box, height, notified, answered, unnotified>>

-----------------------------------------------------------------------------
Contract == "FrostFS"
Processing == "Processing"
Holders == Users \union Nodes \union {Contract, Processing}

WithdrawFee == "WithdrawFee"
CandidateFee == "InnerRingCandidateFee"

Multisignature == "multisignature"
NoKey == "no key"   \* nil: InnerRingInvoker found no witness of the alphabet

RemoveId(key) == <<"delete", key>>
Ids == {r.tx : r \in Withdrawals} \union {r.id : r \in AlphabetUpdates}
         \union {r.id : r \in Settings} \union {RemoveId(k) : k \in Candidates}

FrostFSInit ==
    /\ gas = [h \in Holders |-> IF h \in DOMAIN FirstGas THEN FirstGas[h] ELSE 0]
    /\ alphabet = FirstAlphabet
    /\ candidates = {}
    /\ config = FirstConfig
    /\ box = [i \in Ids |-> NoBallot]
    /\ height = 0
    /\ notified = {}
    /\ answered = {}
    /\ unnotified = 0

(* gas.Transfer, which fails without funds. *)
CanAlwaysPay(from, amount) == TRUE

CanPay(from, amount) == gas[from] >= amount
Paid(from, to, amount) == [gas EXCEPT ![from] = @ - amount, ![to] = @ + amount]

-----------------------------------------------------------------------------
(* The votes, counted against the alphabet list of this moment.            *)
PendingUntilOneLess(n, id) ==
    NotaryDisabled /\ VoteCount(box, id, n, height) + 1 < Threshold(alphabet)

Pending(n, id) == NotaryDisabled /\ VoteCount(box, id, n, height) < Threshold(alphabet)

OnlyVotes(n, id) ==
    /\ Pending(n, id)
    /\ box' = Vote(box, id, n, height)

DecidesKeepingVotes(n, id) ==
    /\ ~Pending(n, id)
    /\ box' = IF NotaryDisabled THEN Vote(box, id, n, height) ELSE box

Decides(n, id) ==
    /\ ~Pending(n, id)
    /\ box' = IF NotaryDisabled THEN RemoveVotes(Vote(box, id, n, height), id) ELSE box

Members == IF NotaryDisabled THEN alphabet ELSE {Multisignature}

(* An alphabet node takes part in every decision once. *)
Answers(n, id) ==
    /\ <<n, id>> \notin answered
    /\ answered' = answered \union {<<n, id>>}

-----------------------------------------------------------------------------
(* OnNEP17Payment with GAS; a payment without a receiver is its sender's.  *)
(* With the data ignoreDepositNotification, which anybody may send, it     *)
(* returns before the amount is checked.                                   *)
Deposit(r) ==
    /\ r \in Deposits /\ <<"Deposit", r>> \notin notified
    /\ r.amount \in 1..MaxAmount
    /\ CanPay(r.from, r.amount)
    /\ gas' = Paid(r.from, Contract, r.amount)
    /\ notified' = notified \union {<<"Deposit", r>>}
    /\ UNCHANGED <<alphabet, candidates, config, box, height, answered, unnotified>>

SilentDeposit(r) ==
    /\ r \in SilentDeposits
    /\ CanPay(r.from, r.amount)
    /\ gas' = Paid(r.from, Contract, r.amount)
    /\ unnotified' = unnotified + r.amount
    /\ UNCHANGED <<alphabet, candidates, config, box, height, notified, answered>>

(* The fee goes to every alphabet node or, with notary support, to the     *)
(* Processing contract.                                                    *)
FeeReceivers == IF NotaryDisabled THEN alphabet ELSE {Processing}

Withdraw(r) ==
    /\ r \in Withdrawals /\ <<"Withdraw", r>> \notin notified
    /\ r.amount \in 0..MaxAmount
    /\ CanPay(r.user, config[WithdrawFee] * Cardinality(FeeReceivers))
    /\ gas' = [h \in Holders |->
                 gas[h] - (IF h = r.user THEN config[WithdrawFee] * Cardinality(FeeReceivers) ELSE 0)
                        + (IF h \in FeeReceivers THEN config[WithdrawFee] ELSE 0)]
    /\ notified' = notified \union {<<"Withdraw", r>>}
    /\ UNCHANGED <<alphabet, candidates, config, box, height, answered, unnotified>>

Cheque(n, r) ==
    /\ n \in Members
    /\ Answers(n, r.tx)
    /\ \/ OnlyVotes(n, r.tx) /\ UNCHANGED <<gas, notified>>
       \/ /\ CanPay(Contract, r.amount)
          /\ Decides(n, r.tx)
          /\ gas' = Paid(Contract, r.user, r.amount)
          /\ notified' = notified \union {<<"Cheque", r>>}
       \/ ~CanPay(Contract, r.amount) /\ ~Pending(n, r.tx) /\ UNCHANGED <<box, gas, notified>>
    /\ UNCHANGED <<alphabet, candidates, config, height, unnotified>>

-----------------------------------------------------------------------------
(* A candidate pays the fee from the account of its key, silently.         *)
InnerRingCandidateAdd(key) ==
    /\ key \notin candidates
    /\ CanPay(key, config[CandidateFee])
    /\ gas' = Paid(key, Contract, config[CandidateFee])
    /\ unnotified' = unnotified + config[CandidateFee]
    /\ candidates' = candidates \union {key}
    /\ UNCHANGED <<alphabet, config, box, height, notified, answered>>

(* By the candidate itself, or decided by the alphabet. *)
InnerRingCandidateRemove(n, key) ==
    /\ \/ /\ n = key
          /\ candidates' = candidates \ {key}
          /\ UNCHANGED <<box, answered>>
       \/ /\ n # key /\ n \in Members
          /\ Answers(n, RemoveId(key))
          /\ \/ OnlyVotes(n, RemoveId(key)) /\ UNCHANGED candidates
             \/ Decides(n, RemoveId(key)) /\ candidates' = candidates \ {key}
    /\ UNCHANGED <<gas, alphabet, config, height, notified, unnotified>>

AlphabetUpdate(n, r) ==
    /\ n \in Members
    /\ r.keys # {}
    /\ Answers(n, r.id)
    /\ \/ OnlyVotes(n, r.id) /\ UNCHANGED alphabet
       \/ Decides(n, r.id) /\ alphabet' = r.keys
    /\ UNCHANGED <<gas, candidates, config, height, notified, unnotified>>

(* SetConfig tests the length of the configuration key where the other     *)
(* methods test the key of the invoking node: an invocation of a node that *)
(* is not (or no longer) in the list is a vote of nobody.                  *)
Voter(n) == IF n \in Members THEN n ELSE NoKey

SetConfig(n, r) ==
    /\ ~NotaryDisabled => n \in Members
    /\ Answers(n, r.id)
    /\ \/ OnlyVotes(Voter(n), r.id) /\ UNCHANGED config
       \/ Decides(Voter(n), r.id) /\ config' = [config EXCEPT ![r.key] = r.val]
    /\ UNCHANGED <<gas, alphabet, candidates, height, notified, unnotified>>

NewBlock ==
    /\ height < MaxHeight
    /\ height' = height + 1
    /\ UNCHANGED <<gas, alphabet, candidates, config, box, notified, answered, unnotified>>

-----------------------------------------------------------------------------
Notifications ==
    ({"Deposit"} \X Deposits) \union ({"Withdraw", "Cheque"} \X Withdrawals)

(* Every variable stays in its domain; nobody owes GAS. *)
FrostFSTypeOK ==
    /\ gas \in [Holders -> Nat]
    /\ alphabet \subseteq Nodes /\ alphabet # {}
    /\ candidates \subseteq Candidates
    /\ config \in [{WithdrawFee, CandidateFee} -> Nat]
    /\ box \in [Ids -> [voters : SUBSET (Nodes \union {NoKey}), height : Nat]]
    /\ height \in 0..MaxHeight
    /\ notified \subseteq Notifications
    /\ answered \subseteq (Nodes \union {Multisignature}) \X Ids
    /\ unnotified \in Nat
=============================================================================

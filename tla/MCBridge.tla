------------------------------ MODULE MCBridge ------------------------------
(* Requests for model-checking Bridge. *)
EXTENDS Bridge, TLC

CONSTANTS alice, bob, lock1, n1, n2, n3, multisig,
    d1, t1, a1, c1  \* transactions and ids

Deposit(tx, from, to, amount) == [tx |-> tx, from |-> from, to |-> to, amount |-> amount]
Withdrawal(tx, user, amount) == [tx |-> tx, user |-> user, amount |-> amount]

(* Alice deposits for Bob, who withdraws a part of it. *)
OneDeposit == {Deposit(d1, alice, bob, 2)}
OneWithdrawal == {Withdrawal(t1, bob, 1)}
LockAddresses == [w \in OneWithdrawal |-> lock1]

FirstFees == "WithdrawFee" :> 1 @@ "InnerRingCandidateFee" :> 1
GasOfUsers == alice :> 3 @@ bob :> 2 @@ n3 :> 1

(* More than a deposit may be, with the data of a candidate's fee. *)
LargeSilentDeposit == {[from |-> alice, amount |-> 3]}

NewAlphabet == {[id |-> a1, keys |-> {n2, n3}]}
NoFee == {[id |-> c1, key |-> "WithdrawFee", val |-> 0]}
PaymentToAlice == {[from |-> bob, to |-> alice, amount |-> 1]}

MintsOfDeposits == {MintOf(d) : d \in Deposits}
LocksOfWithdrawals == {LockOf(w, e) : w \in Withdrawals, e \in 0..(MaxEpoch + LockEpochs)}
BurnsOfWithdrawals == {BurnOf(w) : w \in Withdrawals}
=============================================================================

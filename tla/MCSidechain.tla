---------------------------- MODULE MCSidechain ----------------------------
(* Accounts and requests for model-checking Sidechain. *)
EXTENDS Sidechain, TLC

CONSTANTS alice, lock1, n1

OneSetting == {[id |-> "c1", key |-> "ContainerFee", val |-> "high"]}
OneRingList == {{n1}}

(* Alice may lock what she has until the second epoch. *)
Accounts == alice :> [balance |-> 1, until |-> 0, parent |-> "none"]
              @@ lock1 :> [balance |-> 0, until |-> 0, parent |-> "none"]

OneWithdrawal == {[tx |-> "w1", from |-> alice, to |-> lock1, amount |-> 1, until |-> 2]}
=============================================================================

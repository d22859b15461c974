------------------------------- MODULE Bridge -------------------------------
(***************************************************************************)
(* The FrostFS contract in the main chain and the Balance contract in the  *)
(* sidechain, joined by the Inner Ring, which answers the notifications of *)
(* each chain with invocations on the other:                               *)
(*                                                                         *)
(*   Deposit  (main) -> Mint   (side)    Withdraw (main) -> Lock (side)    *)
(*   Lock     (side) -> Cheque (main)    Cheque   (main) -> Burn (side)    *)
(*                                                                         *)
(* The chains run independently: a notification may be answered any time   *)
(* later, or never, and epochs pass meanwhile.  The variables of Balance   *)
(* keep their names.  Payments that votes decide and votes that expire in  *)
(* the sidechain are left to the runs of Balance.                          *)
(***************************************************************************)
EXTENDS Balance

CONSTANTS
    Nodes, FirstAlphabet, FirstConfig, FirstGas, Deposits, SilentDeposits,
    Withdrawals, AlphabetUpdates, Candidates, Settings, MaxAmount,  \* see FrostFS
    MainNotaryDisabled, MainMaxHeight,     \* its NotaryDisabled and MaxHeight
    LockAccountOf,    \* address of the lock account for a withdrawal
    LockEpochs        \* epochs that the Inner Ring locks assets for

VARIABLES
    gas, alphabet, candidates, config, mainBox, mainHeight, notified, mainAnswered, unnotified,
    locked   \* requests that the Balance contract has notified a Lock for

Main == INSTANCE FrostFS WITH
    NotaryDisabled <- MainNotaryDisabled, MaxHeight <- MainMaxHeight,
    box <- mainBox, height <- mainHeight, answered <- mainAnswered

mainVars == <<gas, alphabet, candidates, config, mainBox, mainHeight, notified, mainAnswered, unnotified>>

-----------------------------------------------------------------------------
(* The invocations that answer a notification. *)
MintOf(d) == [tx |-> d.tx, to |-> d.to, amount |-> d.amount]
LockOf(w, e) ==
    [tx |-> w.tx, from |-> w.user, to |-> LockAccountOf[w], amount |-> w.amount, until |-> e]
BurnOf(w) == [tx |-> w.tx, from |-> LockAccountOf[w], amount |-> w.amount]

ASSUME BridgeAssumption ==
    /\ Mints = {MintOf(d) : d \in Deposits}
    /\ Locks = {LockOf(w, e) : w \in Withdrawals, e \in 0..(MaxEpoch + LockEpochs)}
    /\ Burns = {BurnOf(w) : w \in Withdrawals}
    /\ \A v, w \in Withdrawals : v # w => LockAccountOf[v] # LockAccountOf[w]
    /\ LockEpochs \in Nat

(* The sidechain decides with multisignatures: what one invoker has        *)
(* answered is decided.                                                    *)
ASSUME SideAssumption == ~NotaryDisabled

(* A transaction of the main chain makes one request, and the ids of other *)
(* decisions are different: Cheque votes under the bare id.                *)
ASSUME MainIdsAssumption ==
    /\ IsFiniteSet(Deposits) /\ IsFiniteSet(Withdrawals)
    /\ \A d, e \in Deposits : d.tx = e.tx => d = e
    /\ \A v, w \in Withdrawals : v.tx = w.tx => v = w
    /\ \A w \in Withdrawals : w.tx \notin {r.id : r \in AlphabetUpdates \union Settings}
                                         \union {Main!RemoveId(k) : k \in Candidates}

ASSUME MainAssumption ==
    /\ \A d \in Deposits \union SilentDeposits : d.from \in Users \union Nodes /\ d.amount \in Nat
    /\ \A w \in Withdrawals : w.user \in Users
    /\ FirstAlphabet \subseteq Nodes /\ FirstAlphabet # {} /\ IsFiniteSet(Nodes)
    /\ \A r \in AlphabetUpdates : r.keys \subseteq Nodes
    /\ Candidates \subseteq Nodes
    /\ {Main!Contract, Main!Processing} \intersect (Users \union Nodes) = {}
    /\ FirstConfig \in [{Main!WithdrawFee, Main!CandidateFee} -> Nat]
    /\ \A r \in Settings : r.key \in DOMAIN FirstConfig /\ r.val \in Nat
    /\ \A h \in DOMAIN FirstGas : h # Main!Contract /\ FirstGas[h] \in Nat
    /\ MainNotaryDisabled \in BOOLEAN /\ MainMaxHeight \in Nat /\ MaxAmount \in Nat

(* An alphabet changes slowly: any two quorums of the alphabets there may  *)
(* be have a node in common.                                               *)
Alphabets == {FirstAlphabet} \union {r.keys : r \in AlphabetUpdates}

ASSUME OverlapAssumption ==
    \A A, B \in Alphabets :
       A # {} /\ B # {} => Threshold(A) + Threshold(B) > Cardinality(UNION Alphabets)

HasAnswered(id) == \E n \in Invokers : <<n, id>> \in answered

(* Deposits that the sidechain has not minted, and paid cheques that it    *)
(* has not burned: they are yet to come, or Burn has failed.               *)
Unminted == {d \in Deposits : <<"Deposit", d>> \in notified /\ ~HasAnswered(MintId(MintOf(d)))}
Unburned == {w \in Withdrawals : <<"Cheque", w>> \in notified /\ BurnOf(w) \notin burned}

-----------------------------------------------------------------------------
BridgeInit == Init /\ Main!FrostFSInit /\ locked = {}

RelayMint ==
    \E n \in Invokers, d \in Unminted : Mint(n, MintOf(d)) /\ UNCHANGED <<mainVars, locked>>

RelayLock ==
    \E n \in Invokers, w \in Withdrawals :
       /\ <<"Withdraw", w>> \in notified
       /\ Lock(n, LockOf(w, epoch + LockEpochs))
       /\ locked' = IF acct' = acct THEN locked ELSE locked \union {LockOf(w, epoch + LockEpochs)}
       /\ UNCHANGED mainVars

(* The Lock notification may be old: the lock can be over by now, and the  *)
(* cheque paid.                                                            *)
RelayCheque ==
    \E n \in Main!Members, r \in locked, w \in Withdrawals :
       /\ r.tx = w.tx
       /\ Main!Cheque(n, w)
       /\ UNCHANGED <<vars, locked>>

RelayBurn ==
    \E n \in Invokers, w \in Unburned : Burn(n, BurnOf(w)) /\ UNCHANGED <<mainVars, locked>>

SideNewEpoch == \E e \in 1..MaxEpoch : NewEpoch(e) /\ UNCHANGED <<mainVars, locked>>

MainStep ==
    /\ \/ \E d \in Deposits : Main!Deposit(d)
       \/ \E d \in SilentDeposits : Main!SilentDeposit(d)
       \/ \E w \in Withdrawals : Main!Withdraw(w)
       \/ \E k \in Candidates : Main!InnerRingCandidateAdd(k)
       \/ \E n \in Nodes \union Main!Members, k \in Candidates : Main!InnerRingCandidateRemove(n, k)
       \/ \E n \in Main!Members, r \in AlphabetUpdates : Main!AlphabetUpdate(n, r)
       \/ \E n \in Nodes \union Main!Members, r \in Settings : Main!SetConfig(n, r)
       \/ Main!NewBlock
    /\ UNCHANGED <<vars, locked>>

BridgeNext ==
    \/ RelayMint \/ RelayLock \/ RelayCheque \/ RelayBurn
    \/ SideNewEpoch
    \/ \E r \in Payments : Transfer(r) /\ UNCHANGED <<mainVars, locked>>
    \/ MainStep

BridgeSpec == BridgeInit /\ [][BridgeNext]_<<vars, mainVars, locked>>

-----------------------------------------------------------------------------
BridgeTypeOK ==
    /\ TypeOK
    /\ Main!FrostFSTypeOK
    /\ locked \subseteq Locks

(* "FrostFS balances are synchronized with mainchain operations" (doc.go   *)
(* of Balance): whatever comes late, times out or fails, the GAS of the    *)
(* FrostFS contract is at every moment the supply of the sidechain, plus   *)
(* the deposits not minted, less the cheques not burned, plus what came    *)
(* without a notification (doc.go of FrostFS, lines 17-19, knows no such   *)
(* GAS).                                                                   *)
GasBacksTheSupply ==
    gas[Main!Contract] = supply + Total(Unminted) - Total(Unburned) + unnotified

(* What Lock has notified stays in the lock account for its cheque, votes  *)
(* for which may be under way, until it is burned or its epoch comes.      *)
LocksCoverTheirCheques ==
    \A r \in locked, w \in Withdrawals :
       r.tx = w.tx /\ epoch < r.until /\ BurnOf(w) \notin burned =>
         acct[LockAccountOf[w]].balance = w.amount

(* "When FrostFS contract transfers GAS assets back to the user, the lock  *)
(* account is destroyed with burn operation" (doc.go of Balance, lines     *)
(* 13-16): the lock account of a paid cheque holds what is to be burned.   *)
ChequesCanBeBurned ==
    \A w \in Unburned : acct[LockAccountOf[w]].balance >= w.amount
=============================================================================

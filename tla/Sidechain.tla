----------------------------- MODULE Sidechain -----------------------------
(***************************************************************************)
(* A new epoch of the Netmap contract reaches the Balance and the          *)
(* Container contract in the same transaction (cleanup in                  *)
(* netmap/netmap_contract.go): locks that are over return to their owners, *)
(* and old estimations of the sizes of containers are removed.  Storage    *)
(* nodes of the previous network map, which the Container contract asks    *)
(* the Netmap contract for, announce estimations meanwhile.                *)
(*                                                                         *)
(* Netmap keeps its names here; the height of the chain, which its epochs  *)
(* only record, does not change.  Of Balance, Lock and newEpoch are        *)
(* composed, of Container the estimations; which containers there are is   *)
(* left open (see Container).  The contracts are deployed with notary      *)
(* support.                                                                *)
(***************************************************************************)
EXTENDS Netmap, FiniteSetsExt

CONSTANTS
    Containers,               \* ids of containers
    Users, LockAccounts,      \* see Balance
    Locks,
    FirstAccounts             \* the accounts in the beginning

ASSUME SideAssumption == ~NotaryDisabled

VARIABLES
    stored,   \* ids of the stored containers
    est,      \* stored estimations: [epoch, cid, node]
    listed,   \* epochs in the list of estimations of every container and node
    acct,     \* accounts of Balance
    supply,
    answered  \* see Balance

Ledger == INSTANCE Balance WITH
    Mints <- {}, Burns <- {}, Payments <- {}, MaxPayments <- 0, burned <- {}, payments <- 0

(* Balance assumes as much of its requests; in the beginning nothing is    *)
(* locked.                                                                 *)
ASSUME LocksAssumption ==
    /\ IsFiniteSet(Users \union LockAccounts) /\ Users \intersect LockAccounts = {}
    /\ Ledger!NoParent \notin Users
    /\ \A r \in Locks :
          r.from \in Users /\ r.to \in LockAccounts /\ r.amount \in Nat /\ r.until \in Nat
    /\ \A r, s \in Locks : r.to = s.to => r.tx = s.tx
ASSUME FirstAccountsAssumption ==
    /\ FirstAccounts \in [Ledger!Accounts -> Ledger!Account]
    /\ \A u \in Users : FirstAccounts[u].until = 0 /\ FirstAccounts[u].parent = Ledger!NoParent
    /\ \A a \in LockAccounts : FirstAccounts[a] = Ledger!Zero

estimations == <<est, listed>>
ledger == <<acct, supply, answered>>
sideVars == <<vars, stored, estimations, ledger>>

SideInit ==
    /\ Init
    /\ stored = {}
    /\ est = {}
    /\ listed = [c \in Containers |-> [k \in Peers |-> {}]]
    /\ acct = FirstAccounts
    /\ supply = SumFunctionOnSet(Ledger!Balances(FirstAccounts), Ledger!Accounts)
    /\ answered = {}

-----------------------------------------------------------------------------
CleanupDelta == 3
TotalCleanupDelta == CleanupDelta + 1

(* updateEstimations forgets the estimations of old epochs, and removes    *)
(* them from the storage.                                                  *)
Forgotten(c, k, e) == {o \in listed[c][k] : e - o > CleanupDelta}

RemovedBy(c, k, e) == {[epoch |-> o, cid |-> c, node |-> k] : o \in Forgotten(c, k, e)}

AnyStorageNode(k) == count # 0

(* Snapshot(1) panics if there is one snapshot at most. *)
IsStorageNode(k) == count > 1 /\ \E node \in Snapshot(1) : node.key = k

PutContainerSize(k, c, e) ==
    /\ c \in stored
    /\ IsStorageNode(k)
    /\ est' = (est \ RemovedBy(c, k, e)) \union {[epoch |-> e, cid |-> c, node |-> k]}
    /\ listed' = [listed EXCEPT ![c][k] = (@ \ Forgotten(c, k, e)) \union {e}]
    /\ UNCHANGED <<vars, stored, ledger>>

CleanedUpEarly(e) == {x \in est : e - x.epoch < CleanupDelta}
CleanedUpLate(e) == {x \in est : e - x.epoch <= TotalCleanupDelta + 1}

(* cleanupContainers keeps the younger estimations. *)
CleanedUp(e) == {x \in est : e - x.epoch <= TotalCleanupDelta}

-----------------------------------------------------------------------------
CleanupOfContainer(e) ==
    /\ est' = CleanedUp(e)
    /\ UNCHANGED <<listed, ledger>>

(* What NewEpoch calls in its transaction: newEpoch of Balance and of      *)
(* Container.  Neither panics.                                             *)
Cleanup(e) ==
    /\ acct' = Ledger!Unlocked(acct, e)
    /\ est' = CleanedUp(e)
    /\ UNCHANGED <<supply, answered, listed>>

SideNewEpoch(n, e) ==
    /\ NewEpoch(n, e)
    /\ IF epoch' # epoch THEN Cleanup(e) ELSE UNCHANGED <<estimations, ledger>>
    /\ UNCHANGED stored

(* The invocations of the alphabet that concern one contract only. *)
AlphabetStep(n) ==
    \/ /\ \/ \E p \in Peers : AddPeer(n, p) \/ \E s \in States : UpdateState(n, p, s)
          \/ \E keys \in RingLists : UpdateInnerRing(n, keys)
          \/ \E r \in Settings : SetConfig(n, r)
       /\ UNCHANGED <<stored, estimations, ledger>>
    \/ /\ \E r \in Locks : Ledger!Lock(n, r)
       /\ UNCHANGED <<vars, stored, estimations>>

(* Storage nodes announce estimations of the current epoch and of the one  *)
(* before (the contract takes any number).                                 *)
Announced == {e \in 0..MaxEpoch : e = epoch \/ e = epoch - 1}

SideNext ==
    \/ \E n \in Invokers : AlphabetStep(n) \/ \E e \in EpochsToTry : SideNewEpoch(n, e)
    \/ (\E c \in Counts : UpdateSnapshotCount(c)) /\ UNCHANGED <<stored, estimations, ledger>>
    \/ \E k \in Peers, c \in Containers, e \in Announced : PutContainerSize(k, c, e)
    \/ stored' \in SUBSET Containers /\ UNCHANGED <<vars, estimations, ledger>>

SideSpec == SideInit /\ [][SideNext]_sideVars

-----------------------------------------------------------------------------
(* Two mechanisms delete estimations, the one when its node stores another *)
(* and the one at a new epoch.  Neither loses what the other still knows:  *)
(* a stored estimation is in the list of its container and node.           *)
EstimationsAreListed == \A x \in est : x.epoch \in listed[x.cid][x.node]

(* "CleanupDelta contains the number of the last epochs for which          *)
(* container estimations are present" (line 68): no estimation is lost     *)
(* before, whichever epochs are skipped and whichever nodes are late.      *)
EstimationsAreKept == [][\A x \in est \ est' : epoch' - x.epoch > CleanupDelta]_sideVars

(* "TotalCleanupDelta contains the number of the epochs after which        *)
(* estimation will be removed ... if any of the nodes hasn't updated       *)
(* container size and/or container has been removed" (lines 70-72).        *)
OldEstimationsAreRemoved == \A x \in est : epoch - x.epoch <= TotalCleanupDelta

(* "storage node announces container size estimation of the previous       *)
(* epoch" (line 824): whoever announces was in the network map that the    *)
(* epoch before the current one began with, whatever has happened to the   *)
(* candidates and to the number of snapshots since.                        *)
EstimationsAreOfThePreviousMap ==
    [][\A x \in est' \ est : Len(past) > 1 /\ \E node \in past[2].map : node.key = x.node]_sideVars

(* A new epoch is one for all contracts: with it, whatever is locked until *)
(* it or longer ago is back with its owner.                                *)
LocksEndWithTheirEpoch ==
    [][epoch' # epoch =>
         \A a \in LockAccounts :
            acct[a].until # 0 /\ acct[a].until <= epoch' =>
              /\ acct'[a] = Ledger!Zero
              /\ \A u \in Users : acct[a].parent = u =>
                    acct'[u].balance >= acct[u].balance + acct[a].balance]_sideVars
=============================================================================

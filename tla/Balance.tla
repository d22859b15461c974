------------------------------ MODULE Balance ------------------------------
(***************************************************************************)
(* The Balance contract (balance/balance_contract.go): the NEP-17 ledger   *)
(* of FrostFS in the sidechain, with the lock accounts through which       *)
(* assets leave for the main chain.                                        *)
(*                                                                         *)
(* An invocation of Mint, Lock or Burn answers a notification of the main  *)
(* chain, which determines its arguments.                                  *)
(***************************************************************************)
EXTENDS Voting, FiniteSetsExt

CONSTANTS
    Users,           \* accounts that owners and the Container contract use
    LockAccounts,    \* accounts that Lock creates
    Mints,           \* deposits:    [tx, to, amount]
    Locks,           \* withdrawals: [tx, from, to, amount, until]
    Burns,           \* cheques:     [tx, from, amount]
    Payments,        \* transfers:   [from, to, amount]
    MaxEpoch,        \* bound on the epoch
    MaxPayments      \* bound on the transfers between users

Accounts == Users \union LockAccounts

ASSUME RequestsAssumption ==
    /\ IsFiniteSet(Accounts) /\ Users \intersect LockAccounts = {}
    /\ IsFiniteSet(Mints)
    /\ \A r \in Mints : r.to \in Users /\ r.amount \in Nat
    /\ \A r \in Locks :
          r.from \in Users /\ r.to \in LockAccounts /\ r.amount \in Nat /\ r.until \in Nat
    /\ \A r \in Burns : r.from \in Accounts /\ r.amount \in Nat
    /\ \A r \in Payments : r.from \in Users /\ r.to \in Accounts /\ r.amount \in Nat
(* A withdrawal has a lock account of its own, derived from its id, and    *)
(* nobody pays to it: Lock overwrites whatever is stored there.            *)
ASSUME LockAccountsAssumption ==
    /\ \A r, s \in Locks : r.to = s.to => r.tx = s.tx
    /\ \A r \in Locks, p \in Payments : p.to # r.to
ASSUME BalanceConstantsAssumption ==
    /\ MaxEpoch \in Nat /\ MaxPayments \in Nat

VARIABLES
    acct,     \* the stored accounts, as [balance, until, parent]
    supply,   \* the value under CirculationKey
    epoch,    \* the last epoch that the Netmap contract has told
    answered, \* history: pairs of an invoker and a notification it has answered
    burned,   \* history: the cheques that have been burned
    payments  \* history: how many transfers there have been

ledger == <<acct, supply, burned>>
vars == <<ledger, epoch, answered, payments, voting>>

-----------------------------------------------------------------------------
NoParent == "none"

ASSUME NoParentAssumption == NoParent \notin Users

(* A missing account: getAccount returns the zero value of Account. *)
Zero == [balance |-> 0, until |-> 0, parent |-> NoParent]

MintId(r) == <<"mint", r.tx>>
LockId(r) == <<"lock", r.tx>>
BurnId(r) == <<"burn", r.tx>>
TransferId(r) == <<"transfer", r.from, r.to, r.amount>>

Ids == {MintId(r) : r \in Mints} \union {LockId(r) : r \in Locks}
         \union {BurnId(r) : r \in Burns} \union {TransferId(r) : r \in Payments}

Init ==
    /\ acct = [a \in Accounts |-> Zero]
    /\ supply = 0
    /\ epoch = 0
    /\ answered = {}
    /\ burned = {}
    /\ payments = 0
    /\ VotingInit(Ids)

-----------------------------------------------------------------------------
(* Token.transfer.  The sender's account is deleted when nothing is left   *)
(* on it; the receiver's account is read after that.                       *)
CanAlwaysTransfer(accounts, from, amount) == TRUE

CanTransfer(accounts, from, amount) == accounts[from].balance >= amount

Withdrawn(accounts, from, amount) ==
    IF accounts[from].balance = amount
    THEN [accounts EXCEPT ![from] = Zero]
    ELSE [accounts EXCEPT ![from].balance = @ - amount]

Credited(accounts, to, amount) == [accounts EXCEPT ![to].balance = @ + amount]

MovedFromStale(accounts, from, to, amount) ==
    [Withdrawn(accounts, from, amount) EXCEPT ![to].balance = accounts[to].balance + amount]

Moved(accounts, from, to, amount) == Credited(Withdrawn(accounts, from, amount), to, amount)

TimedOutAll(accounts, e) == {a \in DOMAIN accounts : accounts[a].until # 0}

(* The lock accounts whose time is over at an epoch. *)
TimedOut(accounts, e) == {a \in DOMAIN accounts : accounts[a].until # 0 /\ e >= accounts[a].until}

UnlockedToNobody(accounts, e) ==
    [a \in DOMAIN accounts |-> IF a \in TimedOut(accounts, e) THEN Zero ELSE accounts[a]]

(* NewEpoch iterates over the accounts and returns what is locked. *)
Unlocked(accounts, e) ==
    FoldSet(LAMBDA a, m : Moved(m, a, m[a].parent, m[a].balance),
            accounts, TimedOut(accounts, e))

-----------------------------------------------------------------------------
(* The invokers answer every notification once. *)
Answers(n, id) ==
    /\ <<n, id>> \notin answered
    /\ answered' = answered \union {<<n, id>>}
    /\ UNCHANGED <<epoch, payments>>

Mint(n, r) ==
    /\ Answers(n, MintId(r))
    /\ \/ OnlyVotes(n, MintId(r)) /\ UNCHANGED ledger
       \/ /\ Decides(n, MintId(r))
          /\ acct' = Credited(acct, r.to, r.amount)
          /\ supply' = supply + r.amount
          /\ UNCHANGED burned

(* The lock account is stored before the transfer fills it. *)
LockAccount(r) == [balance |-> 0, until |-> r.until, parent |-> r.from]

Lock(n, r) ==
    /\ Answers(n, LockId(r))
    /\ LET opened == [acct EXCEPT ![r.to] = LockAccount(r)] IN
       \/ OnlyVotes(n, LockId(r)) /\ UNCHANGED ledger
       \/ /\ CanTransfer(opened, r.from, r.amount)
          /\ Decides(n, LockId(r))
          /\ acct' = Moved(opened, r.from, r.to, r.amount)
          /\ UNCHANGED <<supply, burned>>
       \/ ~CanTransfer(opened, r.from, r.amount) /\ Reverts(n, LockId(r)) /\ UNCHANGED ledger

Burn(n, r) ==
    /\ Answers(n, BurnId(r))
    /\ LET possible == CanTransfer(acct, r.from, r.amount) /\ supply >= r.amount IN
       \/ OnlyVotes(n, BurnId(r)) /\ UNCHANGED ledger
       \/ /\ possible
          /\ Decides(n, BurnId(r))
          /\ acct' = Withdrawn(acct, r.from, r.amount)
          /\ supply' = supply - r.amount
          /\ burned' = burned \union {r}
       \/ ~possible /\ Reverts(n, BurnId(r)) /\ UNCHANGED ledger

(* A transfer by alphabet nodes. *)
TransferX(n, r) ==
    /\ Answers(n, TransferId(r))
    /\ \/ OnlyVotes(n, TransferId(r)) /\ UNCHANGED ledger
       \/ /\ CanTransfer(acct, r.from, r.amount)
          /\ Decides(n, TransferId(r))
          /\ acct' = Moved(acct, r.from, r.to, r.amount)
          /\ UNCHANGED <<supply, burned>>
       \/ ~CanTransfer(acct, r.from, r.amount) /\ Reverts(n, TransferId(r)) /\ UNCHANGED ledger

(* A transfer by its owner, and one that the Container contract asks for   *)
(* in a transaction the alphabet has decided: no vote is needed.           *)
Transfer(r) ==
    /\ payments < MaxPayments
    /\ CanTransfer(acct, r.from, r.amount)
    /\ acct' = Moved(acct, r.from, r.to, r.amount)
    /\ payments' = payments + 1
    /\ UNCHANGED <<supply, burned, epoch, answered, voting>>

(* The Netmap contract tells a new epoch, which may skip numbers. *)
NewEpoch(e) ==
    /\ e > epoch
    /\ acct' = Unlocked(acct, e)
    /\ epoch' = e
    /\ UNCHANGED <<supply, burned, answered, payments, voting>>

NewBlock ==
    /\ NextBlock
    /\ UNCHANGED <<ledger, epoch, answered, payments>>

Next ==
    \/ \E n \in Invokers : \/ \E r \in Mints : Mint(n, r)
                           \/ \E r \in Locks : Lock(n, r)
                           \/ \E r \in Burns : Burn(n, r)
                           \/ \E r \in Payments : TransferX(n, r)
    \/ \E r \in Payments : Transfer(r)
    \/ \E e \in 1..MaxEpoch : NewEpoch(e)
    \/ NewBlock

Spec == Init /\ [][Next]_vars

-----------------------------------------------------------------------------
(* Every variable stays in its domain; no balance is negative, although    *)
(* the transfer subtracts from the sender and Burn from the supply.        *)
Account == [balance : Nat, until : Nat, parent : Users \union {NoParent}]

TypeOK ==
    /\ acct \in [Accounts -> Account]
    /\ supply \in Nat
    /\ epoch \in 0..MaxEpoch
    /\ answered \subseteq Invokers \X Ids
    /\ burned \subseteq Burns
    /\ payments \in 0..MaxPayments
    /\ VotingTypeOK(Ids)

Balances(accounts) == [a \in DOMAIN accounts |-> accounts[a].balance]

Total(requests) == SumFunctionOnSet([r \in requests |-> r.amount], requests)

(* No asset appears or disappears: the supply is what the accounts hold,   *)
(* after any interleaving of deposits, locks, timeouts, cheques and        *)
(* payments, whichever votes made them happen.                             *)
SupplyMatchesBalances == supply = SumFunctionOnSet(Balances(acct), Accounts)

(* Every deposit is minted at most once and every cheque burned at most    *)
(* once, only when a quorum (or the multisignature) has asked for it: what *)
(* is there and what was burned is no more than what was minted.           *)
SupplyBackedByDeposits ==
    /\ supply + Total(burned) <= Total({r \in Mints : Approved(answered, MintId(r))})
    /\ \A r \in burned : Approved(answered, BurnId(r))

(* What belongs to a user: its account and what is locked on its behalf. *)
Held(accounts, u) == {a \in LockAccounts : accounts[a].parent = u}

OwnedIn(accounts, u) ==
    accounts[u].balance + SumFunctionOnSet(Balances(accounts), Held(accounts, u))

Owned(u) == OwnedIn(acct, u)

PaymentStep ==
    \/ payments' # payments
    \/ \E n \in Invokers, r \in Payments : <<n, TransferId(r)>> \in answered' \ answered

(* Locking and timing out move assets between accounts of one owner: what  *)
(* a user owns changes only by a payment, a deposit or a cheque.           *)
OwnersKeepTheirAssets ==
    [][supply' = supply /\ ~PaymentStep => \A u \in Users : Owned(u)' = Owned(u)]_vars

AuthorisedDebit ==
    \A u \in Users :
       acct'[u].balance < acct[u].balance =>
         \/ payments' # payments
         \/ \E r \in Payments : r.from = u /\ Quorate(TransferId(r))
         \/ \E r \in Locks : r.from = u /\ Quorate(LockId(r))
         \/ \E r \in Burns : r.from = u /\ Quorate(BurnId(r))

(* No account of a user loses assets without its owner paying or a quorum  *)
(* of the alphabet asking for exactly that lock, cheque or transfer.       *)
DebitsAreAuthorised == [][AuthorisedDebit]_vars

(* Locked assets wait for their cheque: nothing but a burn takes them from *)
(* the lock account before its epoch, and no lock outlives its epoch.      *)
LocksHoldUntilTheirEpoch ==
    [][\A a \in LockAccounts :
         /\ acct'[a].balance < acct[a].balance =>
              supply' < supply \/ (epoch' > epoch /\ epoch' >= acct[a].until)
         /\ epoch' > epoch => acct'[a].until = 0 \/ acct'[a].until > epoch']_vars

=============================================================================

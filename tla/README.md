# A verification development of frostfs-contract

TLA+ specifications of the smart contracts of FrostFS (`src/`), checked with TLC and, in
part, proved with TLAPS. The contracts run in the NeoVM: a transaction runs alone, from
beginning to end, and a panic reverts everything it did. What is hard is therefore not
inside one invocation but between them: decisions that are collected vote by vote over many
transactions, two chains that answer each other's notifications at any later time, and
long-lived stored data that several methods rewrite.

## 1. Inventory

| Part | State | Operations | Interacts with | What makes it correct |
|---|---|---|---|---|
| Vote collection, `common/vote.go`, `common/ir.go` | list of ballots (id, voters, height of the last vote) | `Vote`, `RemoveVotes`, `InvokeID`, `InnerRingInvoker`, `AlphabetNodes` | every contract deployed without notary support; the committee of the native NEO contract | a decision is made once per quorum, on votes of its own; ballots expire; a removal removes the right ballot |
| Balance, `balance/` | accounts with balance, lock epoch and parent; supply | `Transfer`, `TransferX`, `Lock`, `NewEpoch`, `Mint`, `Burn` | Netmap (`NewEpoch`), Container (`TransferX`), Inner Ring | supply equals the balances; locks return to their owner at their epoch; nothing moves without its owner or a quorum |
| Netmap, `netmap/` | candidates, epoch and its block, ring of snapshots, inner ring list, configuration | `AddPeer(IR)`, `UpdateState(IR)`, `NewEpoch`, `UpdateSnapshotCount`, `UpdateInnerRing`, `SetConfig`, `Snapshot`, `SnapshotByEpoch`, `Netmap` | calls `newEpoch` of Balance and Container; is read by Container | the map of an epoch is fixed; the ring reads as a history of maps; epochs go forward |
| Container, `container/` | containers, owner index, alias keys, extended ACLs, size estimations and, per node, their epochs | `Put(Named)`, `Delete`, `SetEACL`, `PutContainerSize`, `NewEpoch`, `Start/StopContainerEstimation` | Balance (fees), NNS (aliases), FrostFSID (keys), Netmap (fees, previous map) | an alias and the record of its domain agree; only own records are removed; estimations are of nodes of the map and are cleaned up |
| FrostFS, `frostfs/` (main chain) | GAS of the contract, alphabet list, candidates, configuration | `OnNEP17Payment`, `Withdraw`, `Cheque`, `InnerRingCandidateAdd/Remove`, `AlphabetUpdate`, `SetConfig`, `Bind`, `Unbind` | native GAS; Inner Ring | the GAS it holds backs the supply of Balance; a cheque is paid once |
| FrostFSID, `frostfsid/` | keys per owner, ballots of its own | `AddKey`, `RemoveKey`, `Key` | Container calls `AddKey` in the transaction of a Put | a key that comes with a container has a quorum of Puts behind it, also when two contracts collect votes in one transaction |
| NNS, `nns/` | roots, domains (owner, admin, expiration), records, token balances | `Register`, `Renew`, `Transfer`, `SetAdmin`, `AddRecord`, `SetRecord`, `DeleteRecords`, `Resolve`, ... | Container registers domains and adds TXT records | supply and balances of tokens agree with the domains; an expired domain loses its rights |
| Subnet, `subnet/` | subnets, administrators, nodes, groups of users | `Put`, `Delete`, `Add/Remove` of node administrators, nodes, client administrators and users | - | a subnet is registered by a quorum of its own; a deleted one leaves nothing to its successor |
| Reputation, `reputation/`; Audit, `audit/` | values under keys that begin with the epoch | `Put`, `Get`, `GetByID`, `List...` | Audit reads the inner ring list of Netmap | nothing decided is overwritten; a query by prefix finds all of its epoch and nothing of the epochs around |
| Alphabet, `alphabet/` | GAS and NEO of the contract, its committee candidate | `Emit`, `Vote` | native NEO and GAS, Netmap (epoch, inner ring), Proxy | the shares are those that are documented, whatever is rounded |
| Processing, Proxy | none after deployment | `Verify`, `OnNEP17Payment` | - | stateless |
| Update and versions, `common/update.go`, `common/version.go` | version | `Update`, `_deploy` with `isUpdate` | - | stored records of an older version are migrated |
| Inner Ring node | outside of this repository | answers the notifications of one chain on the other | all contracts | assumed, see below |

Hard behaviour, in the order of importance: votes for many decisions interleaved with new
blocks, repeated and late; the committee that changes meanwhile; the two chains that drift
apart between a notification and its answer; locks that time out at an epoch; the ring of
snapshots that is renumbered in place; names in NNS that expire or are changed by others while
the Container contract remembers them; a new epoch that runs through three contracts in one
transaction; keys of variable length that are searched by prefix. The complete list is in `PROJECT.json`, `hazards`.

## 2. Modelling decisions

* **A transaction is a step.** An action is a whole invocation: it stores a vote and returns,
  or it decides and runs the body with every call the body makes, or the body panics and
  everything, the vote included, is reverted. An invocation that panics before it stores
  anything changes nothing and is a stutter.
* **Ids of decisions.** `InvokeID` hashes its arguments; a hash is an injective constructor
  (`PutId(c)`, `LockId(r)`). What the code leaves *out* of an id is left out of the
  constructor too: the id of `PutNamed` does not contain the name, so votes for different names
  share a ballot in `Container`.
* **Stored lists as functions or sets** where their order is not observable. `VoteList` keeps
  the list of ballots as it is, because the loops of `common/vote.go` depend on its order;
  the other modules use the ballot box that `VoteList` is shown to implement.
* **What is outside of `src/`** is the Inner Ring node, the native contracts and the committee.
  They are marked external in `PROJECT.json`: they answer a notification once per node
  (`Balance!Answers`), with arguments the notification determines (`Bridge!MintOf`, `LockOf`,
  `BurnOf`), and the chain adds blocks and changes committees at any time.
* **Data**: a container is its id, a node its key, a network map a set of keys with states,
  an amount a small natural number. Serialization, notifications and names of domains letter by
  letter are left out, and so is the layout of storage keys, except in `Reports`, whose subject
  it is: there a key is a sequence of bytes.
* **Contracts that share nothing** are joined in `Registries` by disjunction, one at a time, so that
  one run covers them all without the product of their states.

## 3. Modules

| Module | Models | Uses | Correspondence |
|---|---|---|---|
| `Ballots` | `Vote` and `RemoveVotes` as operators on a ballot box | - | `box[id]` is the ballot of an id; `Prune` is the skip of old candidates, `VoteCount` what `Vote` returns |
| `VoteDecision` | how one method decides: `Collect`, `Accept`, `Fault`, while blocks are added and the committee changes | `Ballots` | the prologue of `balance.Lock` stands for all of them; `called`, `repeated`, `asks`, `quorum` and `accepted` are history |
| `VoteList` | the loops of `common/vote.go` on the stored list | refines `VoteDecision` | `candidates` is the list under `voteKey`; `BoxOfList` is the refinement mapping |
| `Voting` | the same prologue as a component of the contracts' modules, with and without notary support | `Ballots` | `OnlyVotes`, `Decides`, `Reverts` are the three ends of an invocation |
| `Balance` | `Mint`, `Lock`, `Burn`, `TransferX`, `Transfer`, `NewEpoch` | `Voting` | `acct` are the stored `Account`s, `supply` is `CirculationKey` |
| `SnapshotHistory` | what the Netmap contract promises about past maps | - | abstract specification |
| `SnapshotRing` | the ring of snapshots: `Push`, `Grow`, `ShrinkAfter`, `ShrinkBefore` | refines `SnapshotHistory` | `slots`, `count`, `current` are the snapshot keys, `snapshotCountKey`, `snapshotCurrentIDKey`; `NoSnapshot` is a missing key |
| `Netmap` | candidates, epochs, inner ring list, configuration | `Voting`, instance of `SnapshotRing` | one action per method; `past` is history: the epochs with their maps |
| `FrostFS` | the main chain contract | `Ballots` | it counts against a list of its own (`alphabet`) that `AlphabetUpdate` changes; `Deposit` and `SilentDeposit` are the two ways through `OnNEP17Payment`, with a notification and with the data that asks for none; `unnotified` is history |
| `Bridge` | `FrostFS` and `Balance` joined by the Inner Ring | `Balance`, instance of `FrostFS` | the `Relay...` actions answer notifications of one chain on the other, at any later time |
| `NNS` | domains of up to three fragments that expire, their owners, administrators and tokens, TXT records | - | `names[d]` is the `NameState`; `records[t][d]` the TXT records of name `d` under the token `t` that `tokenIDFromName` finds; `tokens` the supply, the balances and the keys of account tokens; `CanRead` is `getNameState` |
| `FrostFSID` | `AddKey`, direct and indirect, `RemoveKey` | `Voting` | `bound` are the stored keys |
| `Container` | containers, aliases, extended ACLs, with the calls into NNS, Balance and FrostFSID | `Voting`, `NNS`, instance of `FrostFSID` with ballots of its own | `stored`, `alias`, `eacl` are the storage keys, `touched` is history |
| `Sidechain` | a new epoch through Netmap, Balance and Container, with the estimations of sizes | `Netmap`, instance of `Balance` | `SideNewEpoch` is the whole transaction; `est` are the `cnr` keys, `listed` the lists under `est` keys |
| `Subnet` | subnets and their four lists | `Voting` | `subnet` is owner and info, a list is the set of its storage keys |
| `Reports` | Reputation and Audit | `Voting` | `counts`, `values`, `audited` are keyed by the bytes of the code |
| `AlphabetContract` | `Emit` and `Vote` | `Voting` | `gas`, `proxyGas`, `nodeGas` are balances of the native contract, `candidate` its vote |
| `Registries` | the contracts that do not call one another, one at a time | `Container`, `Subnet`, `Reports`, `AlphabetContract` | `invoked` is the contract that a behaviour is about |
| `VoteDecision_proofs`, `VoteList_proofs`, `SnapshotRing_proofs`, `Balance_proofs`, `Bridge_proofs`, `Sidechain_proofs` (with Netmap), `Registries_proofs` (with Container, NNS, Subnet, Reports and Alphabet) | theorems | TLAPS | section 6 |
| `Voting_proofs` | lemmas that the others share: on `Voting`, and on sums over finite sets | TLAPS | section 6 |

The `MC...` modules hold the small instances. `MCBalance` keeps a
behaviour to many votes for few requests or to many requests with few votes open, and `MCStorage` runs the list of ballots and the ring, one at a time.

## 4. Runs, bounds and what they show

| Run | Question | Bounds |
|---|---|---|
| `Votes` | Is a decision taken once, on fresh votes, without gaps, never late, and in the end, if nodes retry? | 5 keys of which 4 are in the committee at a time (threshold 3, quorums intersect) and an outsider, 1 decision, 2 rounds, 3 heights, window 1; fairness |
| `Storage` | Do the loops over the stored list implement the ballot box, and does the ring of snapshots read as a history? | 2 decisions, committee of 3 that shrinks to 2, 3 heights; a ring of up to 5 slots, 3 maps, and no other bound on it: its state space is finite |
| `Balance` | Is no deposit minted twice, no cheque burned twice and no asset moved without its owner or a quorum? | 4 nodes (threshold 3), without notary support. Either one deposit, withdrawal and cheque, 2 epochs, window 1, 3 heights, votes in any order; or 2 owners, 2 deposits, 2 overlapping withdrawals with a partial and a late cheque, 3 payments of the nodes and 2 of the owners (one to oneself), 3 epochs in any steps, and the votes for a request follow one another in one block |
| `RingResize` | Finding 1 | the ring of `Storage` |
| `Sidechain` | Does a new epoch leave Netmap, Balance and Container consistent, and do late estimations and resizes disturb nothing? | 1 storage node in its 3 states, rings of 1 to 3 snapshots, 1 container, 1 withdrawal, epochs up to 6 (two more than `TotalCleanupDelta`) in steps of 1 and 3, a setting and an inner ring list |
| `NetmapVotes` | Does only a quorum change anything? | 2 nodes (threshold 2), 1 peer, 2 epochs, 2 heights, window 0, so that votes expire; no setting and no inner ring list, whose votes are collected alike (the theorem `EveryChangeIsApproved` covers them) |
| `Bridge` | Does the GAS of the main chain back the supply, and does a lock hold what its cheque needs, whatever is late? | a deposit of 2, a withdrawal of 1, a payment, GAS without a notification and of more than a deposit may be (3), a candidate, a change of the alphabet and of the fee; main chain with votes of 2 nodes, sidechain with notary; 2 epochs, locks for 2 |
| `BridgeTimeout` | Finding 3 | the same requests, main chain with notary support, locks for 1 epoch |
| `Container` | Do aliases and records agree? | 2 containers, 4 requests, 2 zones with a name each, time up to 3 (the zone expires at 2, domains of the committee live 1) |
| `ContainerExpired` | Finding 2 | the same |
| `Registries` | Do the contracts on their own keep what they promise? | 2 nodes (threshold 2), 2 heights, window 0. Container: 1 request, an extended ACL, a key. Subnet: 2 subnets, 2 owners with one info, one entry per list. Reports: epochs 0, 1, 2 and 513, with peers and containers whose keys go on with the bytes of other epochs, so that one id begins another; up to 2 decisions per id. Alphabet: 2 ring nodes, yields 1, 7, 16, with and without notary. NNS: 2 zones, a name, a name below it, 2 accounts, time up to 2 |
| `ReportsListings` | Finding 4 | the same, but audit results of epochs 1 and 513 only, with keys that begin like no epoch |

Why these are enough: a vote needs a committee in which a quorum is a proper subset (3 of 4) for
late votes to exist, and two rounds for votes to leak from one into the next; a window of one block
distinguishes a vote that is in time, at the limit and too late. The ring needs more slots than
two resizes move. Two epochs are enough for a lock to time out before, at and after its cheque;
estimations need `TotalCleanupDelta + 1` epochs to be cleaned up, and the first are of epoch 1, as no
node was in an earlier map. A domain needs time to expire once and be registered again, with a name below it
that outlives it. Epoch 513 begins with the byte of epoch 1 and epoch 2 does not, and a report of
epoch 0 begins with its peer, so that a listing meets all kinds of neighbours. A lock of two epochs is there before and at its epoch;
that of one epoch is enough to time out while its cheque is paid. `EndingIn`, the check of `Register` for records with longer names, is empty in the
runs: it would need names of four fragments.

The runs of `Balance`, `Netmap` and `Container` collect votes with a fixed alphabet, because
committees that change are the subject of `VoteDecision`; only `FrostFS`, which keeps its list
itself, changes it while it collects votes.
With notary support Balance runs inside of `Bridge` and `Sidechain`; the theorems on it cover both deployments.

`CHECK_DEADLOCK FALSE` is set where all requests are used up, or the bounds on epochs and heights
are reached; the ring never stops and is checked for deadlock.

**Fairness.** A contract acts only when it is invoked, and nothing in it obliges a node to invoke it. The
alphabet nodes outside of this repository do, again and again, because a ballot expires and a body may
panic. `VoteDecision!Fairness` states just that: every node that can vote for a decision keeps
voting (weakly fair `Collect`, one condition per node), and a decision that can be accepted is not
refused by its body for ever (weakly fair `Accept`; `Fault` may come any number of times before). No fairness
is assumed of blocks or of committees. `RetriesSucceed` then says that every decision is made, and made again,
however many ballots expire on the way. It needs two things that the instance provides: three nodes,
a threshold, that stay in all committees, and blocks that stop at `MaxHeight`, which stands for the time when
the nodes are faster than the window. With blocks that never stop and nodes that are always slower than
the window no decision is ever made, which is how the code is meant to work.

The other specifications state no fairness; what can be
said without it is said as safety: `NeverOverdue` (a decision with a quorum behind it
does not wait), and what has been decided can be executed: `ChequesCanBeBurned`, `DeletesArePossible` and
`EveryResizeIsPossible`, none of which the code keeps (section 5).

## 5. Findings

1. `RingResize`, `EveryResizeIsPossible`: after `UpdateSnapshotCount` has extended the history,
   a further call that has to move one of the new, still missing slots faults, because
   `moveSnapshot` puts `null` into the storage.
2. `ContainerExpired`, `DeletesArePossible`: a container with an alias cannot be deleted while
   its domain (or the zone of it) is expired, because `getRecords` panics. The lookup was
   meant to avoid exactly this.
3. `BridgeTimeout`, `ChequesCanBeBurned`: a lock may time out while its cheque is paid. `NewEpoch` of Balance returns
   it to the owner, who has the GAS then too, and `Burn` finds an empty account. `src/balance/doc.go:13-16` says that the
   balances are synchronized with the main chain, and that the lock account is destroyed with the burn.
4. `ReportsListings`, `ListingsAreOfTheirEpoch`: `ListByEpoch(1)` of Audit also returns results of epoch 513, because it
   searches by a prefix of no fixed length. `src/audit/audit_contract.go:142-143` says that it returns those of the specified epoch. What
   does hold of the listings is `ListingsMixOnlyDistantEpochs`.

## 6. Proofs

The proof modules are about all values of the constants. Every invariant and every action property of the
passing runs is proved, and so are the two refinements; TLC was asked first in each case. 46 theorems are listed in
`PROJECT.json`.

### Assumptions

What the theorems take for granted is named where the constants are declared, and TLC evaluates it in the runs.

* Sets are finite, amounts and epochs are natural numbers, requests speak of known keys and accounts
  (`CommitteesAssumption`, `VoteConstantsAssumption`, `BlockDiffAssumption`, `VotingAssumption`, `RequestsAssumption`,
  `BalanceConstantsAssumption`, `NoParentAssumption`, `RingAssumption`, `NetmapAssumption`, `SnapshotsAssumption`,
  `NNSAssumption`, `ContainerAssumption`, `SubnetAssumption`, `ReportsAssumption`, `AlphabetAssumption`,
  `BridgeAssumption`, `MainAssumption`, `FirstAccountsAssumption`).
* What the code leaves to the Inner Ring: a withdrawal has a lock account of its own, to which nobody pays
  (`LockAccountsAssumption`, `LocksAssumption`); a transaction of the main chain makes one request, and no other
  decision has the id of a cheque (`MainIdsAssumption`).
* Where two chains are joined, the sidechain decides with multisignatures (`SideAssumption`), and any two quorums of the
  alphabets that the main chain may have share a node (`OverlapAssumption`). The second is the `QuorumsIntersect` of `VoteDecision`
  for the list that FrostFS keeps itself; the code does nothing to ensure it.

Some theorems have a hypothesis of their own, because the property does not hold without it:

| Theorem | Hypothesis | Without it |
|---|---|---|
| `DecidedAtMostOnce` | `QuorumsIntersect`: any two quorums of the committees share a member | late votes of two disjoint committees decide twice |
| `DecidedInTime` | all committees have one size | a smaller committee has a smaller threshold, which stored votes may already reach |
| `TheMapIsFixed` | `0 \notin Counts` | `UpdateSnapshotCount(0)` leaves no current map |
| `OthersKeepNames` | domains have two fragments | registering a second-level domain hides the records of names below it (section 7) |

### Votes

`VoteDecision_proofs`
* `TypeCorrect`: `TypeOK`.
* `DecidedAtMostOnce`: a decision that no node invokes twice runs at most once. `AtMostOnce` is not
  inductive: it says nothing of the votes that come late. `OnceInv` adds that the voters of the
  open ballot and of the accepted quorum are disjoint sets of members that have spent their only
  invocation; a second quorum would be disjoint from the first, and two disjoint sets of
  members cannot both reach a threshold (`DisjointQuorums`).
* `OneCommitteeIntersects`: for one fixed committee of any size `QuorumsIntersect` holds, so that it
  restricts only how committees may change.
* `EveryQuorumIsFresh`: with retries and any changes of the committee, every acceptance is
  backed by a threshold of distinct nodes that have voted since the last one. `RoundInv`: the
  voters of an open ballot have voted in the current round.
* `DecidedInTime`: `OpenInv`, no ballot holds a threshold of voters, is inductive as the vote that completes it
  removes it.
* `VotesFollowOneAnother`: no quorum has a gap longer than the window. `ChainInv`: from every voter of a ballot there is a
  later one within the window, up to the height that the ballot stores.

`VoteList_proofs`: the loops over the stored list do what the ballot box does, so that the theorems above speak of
the code of `common/vote.go` too.
* `ListInv`: a well-typed list with at most one ballot per decision and each voter at most once on it. The refinement
  needs it, since a second ballot of a decision would be invisible to `BoxOfList`.
* A loop is a recursive function of its rounds (`LoopOfVote`). That it is one (`LoopExists`), and that what every round
  keeps holds in the end (`LoopInduction`), is shown from the least round that goes wrong: the library's
  induction needs an operator as a parameter.
* `NewList` says what `Vote` leaves in the list, `ListLoses` what `RemoveVotes` does, and `PrunedBox`, `BallotInBox` and `VotersAreCounted` carry
  this over to the box. `ListImplementsBox` is the refinement, one action at a time; `ListHasNoDuplicates` and
  `OthersKeepTheirBallots` follow from the same invariant: `RemoveVotes` takes the ballot at an index that
  is computed after expired ballots were skipped, and it is always its own.

`Voting_proofs`: `VotesInv` says that whoever is on a ballot has invoked its method since the
decision was last made. It holds of every ballot at once, because pruning only removes voters, a
vote adds its own node, and a decision empties its ballot with the record of who has asked. So an
invocation that goes on to the body of its method has a quorum behind it (`DecidesIsQuorate`),
whatever other decisions, blocks and expired ballots came in between. Where a node answers a notification only once,
a quorum is spent when it decides, and no other can follow (`DecidesOnce`).

The second half of the module is about `SumFunctionOnSet`. The sum over a set is the
cardinality of a set of units (`SumCounts`), which makes it independent of the order in which the fold meets
the elements; that the fold exists (`FoldExists`) rests on the well-founded order of the subsets of a finite set.
`SumAdds`, `SumAgrees`, `SumChanges` and `SumGrows` are what the other modules cite.

### Assets

`Balance_proofs`: `BalanceInv` joins the votes, the accounts (`LedgerOK`), the supply as their sum, and two facts on
spent quorums: a lock account is in use only if the quorum for its withdrawal is spent (`OpenedByLocks`), and the supply and what was burned are
together at most the deposits whose quorum is spent, with a spent quorum behind every burn (`BackedOK`). Without the former `Lock` could overwrite a balance, so that not even `SupplyMatchesBalances`
is inductive.
* `BalanceTypes`, `SupplyIsWhatAccountsHold`, `SupplyIsBacked`: types, supply and sum of balances; each deposit is minted once, and each cheque is burned once and from the supply.
* `UsersAreDebitedByQuorum`: no account of a user is debited without its owner or a quorum.
* `OwnersKeepAssets`: what a user owns, in the account and in lock accounts, changes only by payments, deposits and
  cheques. `NewEpoch` returns any number of locks to any number of owners at once (`UnlockedReturns`).
* `LocksWaitForTheirEpoch`: locked assets stay until a cheque burns them or their epoch has come.

`Bridge_proofs`: `BridgeInv` adds the main chain (`MainInv`: its own votes, which are collected against a list that changes),
and what ties the chains together: what is minted was notified (`MintedIsNotified`) and what is burned was paid (`BurnedIsPaid`), a lock that was notified
was answered (`LocksAreAnswered`, so that it is not opened again) and holds the whole withdrawal until it is burned or its epoch
comes (`LocksAreFull`), and GAS and supply agree. No hypothesis excludes delays, timeouts or failed burns.
* `BridgeTypes`: nobody owes GAS on the main chain, and no balance of the sidechain is negative.
* `ChequesArePaidOnce`: GAS leaves the contract only for a withdrawal that was not paid before, although votes for cheques are
  collected under bare ids, expire, and may be of nodes of different alphabets.
* `BalancesAreSynchronized`: the GAS in the contract is at any moment the supply, the deposits not minted and what came without a
  notification (candidate fees and payments with their data), less the paid cheques not burned. After a timeout (finding 3) the last part stays for ever:
  that much GAS is missing.
* `LocksWaitForTheirCheques`: what a cheque will burn is there until the epoch of the lock. It does not follow from
  `LocksHoldUntilTheirEpoch`, which is about single steps: nothing else may burn, overwrite or reopen the lock account in the meantime.

### The sidechain

`SnapshotRing_proofs`
* `RingTypeCorrect`, `RingStaysWellFormed`: together they are inductive (`RingInv`); each of
  the four ways to change the ring is a lemma.
* `RingImplementsHistory`: the ring refines `SnapshotHistory`. `PastSlot` replaces the modulo of
  the code by the two stretches of the ring; `PushIsTick` and `ResizeIsResize` compare the past
  maps before and after slot by slot.

`Sidechain_proofs`, first about Netmap alone:
* `EveryChangeIsApproved`: no candidate, epoch, inner ring list or setting changes unless a quorum
  has asked for exactly this change since it was last made. `NetmapInv` adds to `VotesInv` little more than that the tables keep their keys.
* `EpochsNeverGoBack`: no vote, however late, takes the epoch or its block back.
* `NetmapTypes`, `SnapshotsKeepTheirEpochs`: `SnapshotsInv` takes the invariant of the ring and says that every snapshot is the map of
  its epoch or lost. The lemmas of the ring are used for the instance inside of Netmap.
* `TheMapIsFixed`: the map stays the same within an epoch, also while the ring is resized.

and then about the three contracts:
* `SideImplementsNetmap`: every step of the composition is one of Netmap or none, so that the theorems on Netmap hold here.
* `AnnouncersWereInTheMap`: an estimation is of a node of the map that the epoch before began with.
* `TheListsAreComplete`, `OldEstimationsGo`, `YoungEstimationsStay`: the two ways of removing
  estimations neither lose nor leave any, with everything else that the three contracts do in between.
  `EstimationsInv` is inductive; it needs `EstimationsAreListed` together with the bound on the age, since a
  node forgets by the epoch that it announces and the clean-up by the one that starts. Nodes are assumed to announce
  the current epoch or the one before (`Announced`): the contract takes any number, and a node that
  announces a far one makes the contract forget the estimations of that node.
* `LocksEnd`: with a new epoch, whatever is locked until it is back with its owner, in the same transaction. The order
  of accounts is that of `Balance_proofs` (`Accts`).

### The contracts on their own

`Registries_proofs`
* Container. `OnlyTheAlphabetDecides`: containers come, go and get extended ACLs, and owners pay, only with a
  quorum; `OwnersPay` covers an owner that is one of the nodes that are paid. `KeysNeedAQuorum`: a key that comes with a container
  is bound only with a quorum of Puts; FrostFSID has ballots of its own inside of the transactions of Container, so the lemmas of
  `Voting_proofs` are used a second time, for an instance with other variables (`KeyVotes`). `ContainerTypes`: types, and that no owner pays
  more than it has (`TablesOK`).
* Aliases. `AliasesTellTheSame`: the alias keys and the records in NNS agree. `AliasInv` adds where container ids can be found at
  all, namely under the domain's own token and only in domains that a Put has named, and that an unregistered domain nobody has touched has
  no records. `OthersKeepNames`: Put and Delete leave what a domain answers first, if it is not that container that is deleted; with this
  one go all records behind it, as the code deletes all.
* Subnet. `RegistrationsNeedAQuorum`: every new subnet has a quorum of its own for its owner and info.
  `SubnetsLeaveNothing`: the lists hold entries of existing subnets only (`ListsInv`); the step that matters is
  `Delete`, which must clear all four.
* NNS. `TokensTellTheOwners`: supply, balances and lists agree with the domains. `TokensInv` adds that
  a domain has an owner exactly if it is registered; `TokensFollow` counts for every account the domains
  before and after one of them changes hands, also when the old and the new owner are the same, and
  `TokensStay` covers all other steps.
* Reputation and Audit. `ReportsStay`: what was decided i-th for an id is stored under its i-th key, where the query by id finds it, and the
  query finds nothing else of ids of this length. `ReportsInv`: the counter of an id is the number of its values, and every stored key belongs to one of them. That two
  ids never share a key needs no more than the bound of 127 reports per id (`MaxReports`): up to there a count has one byte, so
  that ids with a common key have one length and are equal. `ListingsStayDistant`: a listing has all of its epoch, and what else it has is 256
  epochs away or a multiple of that, or one of the two is epoch 0, which has no bytes: its listing has everything, and its reports are
  found under the epochs their peers or containers begin with. It rests on lemmas about prefixes of concatenations and about the bytes of a number.
* Alphabet. `EmitLeavesItsShare`: the shares of `Emit` for every balance and every number of nodes. `LeftOver` bounds what three
  divisions round off, and `EqualShares` makes the sum over the nodes their number times a share.

### Only model-checked

* `RetriesSucceed`, as liveness under fairness is out of the prover's reach.
* The four findings, which are counterexamples.

## 7. Observations that are not findings

These are in the models. Five of them contradict a comment; no run is made of those, because a property about them would only repeat one
branch of the code:

* `UpdateState` to offline of a candidate that is missing succeeds and is notified; all other states panic. The comment says
  "If requested candidate is missing, panic occurs" (`src/netmap/netmap_contract.go:341`).
* `Delete` of a container that does not exist returns, as its body says and as a repeated decision needs. The comment says "it panics with
  NotFoundError" (`src/container/container_contract.go:336`).
* `SetConfig` of FrostFS tests the configuration key where the other methods test the key of the
  invoker, so that all nodes outside of the list together add one vote with an empty key (`Voter`). The comment says "It can be
  invoked only by Alphabet nodes" (`src/frostfs/frostfs_contract.go:470-471`).
* GAS that is sent to FrostFS with the data of a candidate's fee is neither limited nor notified (`SilentDeposit`), while
  `src/frostfs/doc.go:17-19` knows of one kind of transfer, which is. `GasBacksTheSupply` counts it apart.
* `Resolve` is described with three redirects and called with two (`src/nns/nns_contract.go:442-446`). It only reads and is not modelled.

The others have no document against them:

* `NewEpoch` accepts any larger epoch number, but `SnapshotByEpoch` counts epoch changes: once a
  number is skipped it returns maps of other epochs for those before. `Sidechain` skips numbers
  (`EpochSteps = {1, 3}`), and `SnapshotsAreOfTheirEpochs` speaks of the epochs since the last skipped one.
* `UpdateSnapshotCount(0)` is accepted, and then every `NewEpoch` faults until it is undone.
* `Lock` overwrites the account at the address of the lock account; the Inner Ring has to
  choose a fresh one for every withdrawal.
* `AddKey` of FrostFSID collects votes when the Container contract calls it and not when an
  alphabet node calls it, the opposite of `TransferX`. The deciding transaction of each
  `Put` adds one voter, so the key is bound only after a threshold of Puts of that owner with
  different deciding nodes. Without notary support a single node can bind any key by invoking `AddKey`
  itself; `KeysAreApproved` leaves these steps out.
* A container that is put again under another name leaves its first TXT record behind, and a
  deleted container leaves its extended ACL behind.
* A domain that expires and is registered again keeps its old TXT records: the record of a
  new container is the second one, and deleting the old container removes both.
  `AliasesMatchRecords` therefore excludes domains in `touched`.
* Votes for two subnets of one owner with the same info are counted together, because the id of the subnet is
  not in the id of the decision; the subnet of the last voter is registered.
* A user of a subnet who is in two groups stays allowed when one group removes the user.
* `ListByEpoch` of Reputation is searched like that of Audit (finding 4), but its comment promises only "a list of IDs".
  `ListContainerSizes` of Container has the same layout.
* `Register` of NNS refuses a name if the parent has a record of a name that ends in its text, even without
  a dot between: `yx.a` stands in the way of `x.a`. Records of a name that is registered later, or whose own token
  expires, are hidden under the other token and appear again when it expires.
* Registering a second-level domain moves the names below it to its token: what was stored for them under another one is
  hidden. `OthersKeepTheirNames` is checked and proved for domains of two fragments, which are the only ones that
  Container registers by itself.
* An id of Reputation is an epoch and a peer without a separator, and its values have the id and a number as key. `GetByID` of an id that begins
  another one finds the values of both; ids of one length stay apart (`ReportsAreKept`). The 256th
  value of an id has the key of the first value of the id that goes on with a zero byte (256 has the bytes 0 and 1); `MaxReports` stops before.
* `Transfer` of a domain does not look at the parents, unlike every other method; `SetRecord` may make two records
  equal, which `AddRecord` refuses.
* A zone can be registered only once. After it has expired it can be neither renewed nor registered.

## 8. Plan

Done in this order: votes (`Ballots`, `VoteDecision`, `VoteList`, `Voting`), `Balance`,
`SnapshotRing` and `Netmap`, `FrostFS` and `Bridge`, `NNS` and `Container`, the first proofs; then the
liveness of votes, `FrostFSID`, NNS with three fragments and tokens, `Sidechain`, `Subnet`, `Reports`,
`AlphabetContract`, `Registries`, and their proofs; then the proofs about the list of ballots, Balance, Bridge, the
snapshots of Netmap, aliases and reports.

Next, proving: `AtMostOnce` and `FreshQuorum` for `VoteList` as corollaries of its refinement; that the
candidate of an Alphabet contract has a quorum; `OthersKeepTheirNames` with a weaker hypothesis than domains of two fragments;
an abstract ledger that `Bridge` implements.

Not modelled
* Processing and Proxy: stateless.
* `Update` and `_deploy` with `isUpdate`: the migrations read storage that contract versions outside of
  this repository have written, and run once.
* `Bind`, `Unbind` and the methods that only notify the alphabet: no state.
* NNS: SOA records, types other than TXT, `Resolve`, prices, the syntax of names. The records of other types are kept
  like those of type TXT; `Resolve` only reads.
* Tests and build files.

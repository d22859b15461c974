------------------------------- MODULE Netmap -------------------------------
(***************************************************************************)
(* The Netmap contract (netmap/netmap_contract.go): the candidates for the *)
(* network map, the epoch, the snapshots of past network maps, the inner   *)
(* ring list and the configuration of the network.                         *)
(*                                                                         *)
(* A node is known by its public key and state; its BLOB is abstracted.    *)
(* An invocation by a candidate that is not an alphabet node (AddPeer and  *)
(* UpdateState without notary support) only notifies the alphabet, which   *)
(* then answers with invocations of its own.                               *)
(***************************************************************************)
EXTENDS Voting, Sequences

CONSTANTS
    Peers,         \* public keys of storage nodes
    RingLists,     \* inner ring lists that the alphabet may set
    Settings,      \* configuration updates: [id, key, val]
    NoSnapshot,    \* what storage holds under a key that was never written
    DefaultCount,  \* DefaultSnapshotCount
    MaxCount,      \* bound on the number of snapshots
    Counts,        \* numbers of snapshots that the alphabet asks for
    EpochSteps,    \* how far ahead of the current epoch the next one may be
    MaxEpoch       \* bound on the epoch

(* NodeState, and the lack of a candidate. *)
States == {"online", "offline", "maintenance"}
Missing == "missing"

(* A network map is a set of nodes with their states. *)
NetworkMaps == SUBSET [key : Peers, state : States]

VARIABLES
    slots, count, current,  \* the stored snapshots, see SnapshotRing
    candidates,   \* state of every peer that is a candidate
    epoch,        \* snapshotEpoch
    epochBlock,   \* snapshotBlockKey
    innerRing,    \* innerRingKey
    config,       \* value of every configuration key
    past          \* history: the last epochs with the maps that they began
                  \* with, newest first, as many as there may be snapshots

INSTANCE SnapshotRing WITH Maps <- NetworkMaps, EmptyMap <- {}

ASSUME NetmapAssumption ==
    /\ Counts \subseteq 0..MaxCount
    /\ EpochSteps \subseteq Nat \ {0}
    /\ MaxEpoch \in Nat

(* What SnapshotRing assumes. *)
ASSUME SnapshotsAssumption ==
    /\ \A map \in NetworkMaps : map # NoSnapshot
    /\ MaxCount \in 1..255
    /\ DefaultCount \in 1..MaxCount

vars == <<slots, count, current, candidates, epoch, epochBlock, innerRing, config, past, voting>>
epochs == <<slots, count, current, epoch, epochBlock, past>>

-----------------------------------------------------------------------------
NoValue == "none"
ConfigKeys == {r.key : r \in Settings}

AddId(p) == <<"add", p>>
UpdateId(p, s) == <<"update", p, s>>
EpochId(e) == <<"epoch", e>>
RingId(keys) == <<"updateIR", keys>>
ConfigId(r) == <<"config", r.id>>

Ids == {AddId(p) : p \in Peers} \union {UpdateId(p, s) : p \in Peers, s \in States}
         \union {EpochId(e) : e \in 1..MaxEpoch}
         \union {RingId(keys) : keys \in RingLists} \union {ConfigId(r) : r \in Settings}

Init ==
    /\ RingInit
    /\ candidates = [p \in Peers |-> Missing]
    /\ epoch = 0
    /\ epochBlock = 0
    /\ innerRing = {}
    /\ config = [k \in ConfigKeys |-> NoValue]
    /\ past = <<[epoch |-> 0, map |-> {}]>>
    /\ VotingInit(Ids)

-----------------------------------------------------------------------------
(* AddPeer, and AddPeerIR with notary support: a known candidate is        *)
(* replaced and becomes online.                                            *)
AddPeer(n, p) ==
    /\ \/ OnlyVotes(n, AddId(p)) /\ UNCHANGED candidates
       \/ Decides(n, AddId(p)) /\ candidates' = [candidates EXCEPT ![p] = "online"]
    /\ UNCHANGED <<epochs, innerRing, config>>

(* updateNetmapState panics when the peer is missing; removeFromNetmap     *)
(* does not.                                                               *)
CanUpdate(p, s) == s = "offline" \/ candidates[p] # Missing

UpdatedAsAsked(p, s) == [candidates EXCEPT ![p] = s]

Updated(p, s) == [candidates EXCEPT ![p] = IF s = "offline" THEN Missing ELSE s]

(* UpdateState, and UpdateStateIR with notary support. *)
UpdateState(n, p, s) ==
    /\ \/ OnlyVotes(n, UpdateId(p, s)) /\ UNCHANGED candidates
       \/ /\ CanUpdate(p, s)
          /\ Decides(n, UpdateId(p, s))
          /\ candidates' = Updated(p, s)
       \/ ~CanUpdate(p, s) /\ Reverts(n, UpdateId(p, s)) /\ UNCHANGED candidates
    /\ UNCHANGED <<epochs, innerRing, config>>

(* filterNetmap: the candidates that are not offline. *)
FilteredNetmap ==
    {[key |-> p, state |-> candidates[p]] :
        p \in {q \in Peers : candidates[q] \notin {Missing, "offline"}}}

Begin(e) ==
    LET longer == <<[epoch |-> e, map |-> FilteredNetmap]>> \o past
    IN  past' = IF Len(longer) > MaxCount THEN SubSeq(longer, 1, MaxCount) ELSE longer

StartEpochUnchecked(e) ==
    /\ Push(FilteredNetmap)
    /\ epoch' = e
    /\ epochBlock' = height
    /\ Begin(e)

(* The body of NewEpoch.  In the same transaction it calls newEpoch of the *)
(* Balance contract (Balance!NewEpoch) and of the Container contract.      *)
StartEpoch(e) ==
    /\ e > epoch
    /\ Push(FilteredNetmap)
    /\ epoch' = e
    /\ epochBlock' = height
    /\ Begin(e)

NewEpoch(n, e) ==
    /\ \/ OnlyVotes(n, EpochId(e)) /\ UNCHANGED epochs
       \/ Decides(n, EpochId(e)) /\ StartEpoch(e)
       \/ (e <= epoch \/ count = 0) /\ Reverts(n, EpochId(e)) /\ UNCHANGED epochs
    /\ UNCHANGED <<candidates, innerRing, config>>

(* UpdateSnapshotCount takes the multisignature in both settings. *)
UpdateSnapshotCount(c) ==
    /\ Resize(c)
    /\ UNCHANGED <<candidates, epoch, epochBlock, innerRing, config, past, voting>>

UpdateInnerRing(n, keys) ==
    /\ \/ OnlyVotes(n, RingId(keys)) /\ UNCHANGED innerRing
       \/ Decides(n, RingId(keys)) /\ innerRing' = keys
    /\ UNCHANGED <<epochs, candidates, config>>

SetConfig(n, r) ==
    /\ \/ OnlyVotes(n, ConfigId(r)) /\ UNCHANGED config
       \/ Decides(n, ConfigId(r)) /\ config' = [config EXCEPT ![r.key] = r.val]
    /\ UNCHANGED <<epochs, candidates, innerRing>>

NewBlock ==
    /\ NextBlock
    /\ UNCHANGED <<epochs, candidates, innerRing, config>>

(* The epochs that the alphabet votes for: the timers of the nodes may lag *)
(* behind a tick that has been accepted already.                           *)
EpochsToTry == {e \in 1..MaxEpoch : e <= epoch \/ \E d \in EpochSteps : e = epoch + d}

Next ==
    \/ \E n \in Invokers : \/ \E p \in Peers : \/ AddPeer(n, p)
                                               \/ \E s \in States : UpdateState(n, p, s)
                           \/ \E e \in EpochsToTry : NewEpoch(n, e)
                           \/ \E keys \in RingLists : UpdateInnerRing(n, keys)
                           \/ \E r \in Settings : SetConfig(n, r)
    \/ \E c \in Counts : UpdateSnapshotCount(c)
    \/ NewBlock

Spec == Init /\ [][Next]_vars

-----------------------------------------------------------------------------
(* Every variable stays in its domain; no candidate is stored as offline.  *)
TypeOK ==
    /\ RingTypeOK
    /\ candidates \in [Peers -> {Missing, "online", "maintenance"}]
    /\ epoch \in 0..MaxEpoch
    /\ epochBlock \in 0..height
    /\ innerRing \in RingLists \union {{}}
    /\ config \in [ConfigKeys -> {r.val : r \in Settings} \union {NoValue}]
    /\ past \in Seq([epoch : 0..MaxEpoch, map : NetworkMaps])
    /\ VotingTypeOK(Ids)

(* Netmap() is "a network map in the current epoch" (lines 480-481): it    *)
(* changes only together with the epoch, whatever happens to the           *)
(* candidates and to the number of snapshots meanwhile.                    *)
NetworkMapFixedInEpoch == [][epoch' = epoch => CurrentMap' = CurrentMap]_vars

(* Epochs only go forward, also when the votes for an epoch come after a   *)
(* later one was accepted.                                                 *)
EpochsGoForward == [][epoch' # epoch => epoch' > epoch /\ epochBlock' >= epochBlock]_vars

(* SnapshotByEpoch(e) is "a network map in the given epoch" (lines         *)
(* 614-615), or empty if a resize has lost it, unless a number has been    *)
(* skipped since.                                                          *)
SnapshotByEpoch(e) == Snapshot(epoch - e)

SnapshotsAreOfTheirEpochs ==
    \A i \in DOMAIN past :
       past[i].epoch = epoch - (i - 1) /\ i <= count =>
         SnapshotByEpoch(past[i].epoch) \in {past[i].map, {}}

ApprovedChange ==
    /\ \A p \in Peers : candidates'[p] # candidates[p] =>
          \/ candidates'[p] = "online" /\ Quorate(AddId(p))
          \/ candidates'[p] = Missing /\ Quorate(UpdateId(p, "offline"))
          \/ candidates'[p] \in States /\ Quorate(UpdateId(p, candidates'[p]))
    /\ epoch' # epoch => Quorate(EpochId(epoch'))
    /\ innerRing' # innerRing => Quorate(RingId(innerRing'))
    /\ \A k \in ConfigKeys : config'[k] # config[k] =>
          \E r \in Settings : r.key = k /\ r.val = config'[k] /\ Quorate(ConfigId(r))

(* Whatever the contract stores is changed only by a decision that a       *)
(* quorum of the alphabet (or its multisignature) has asked for since it   *)
(* was last made, and the change is the one that they asked for.           *)
ChangesAreApproved == [][ApprovedChange]_vars
=============================================================================

-------------------------- MODULE Sidechain_proofs --------------------------
(***************************************************************************)
(* What every deployment of the Netmap contract guarantees, whatever its   *)
(* alphabet, storage nodes and settings are, and why the two ways in which *)
(* the Container contract removes estimations agree.                       *)
(***************************************************************************)
EXTENDS Sidechain, Voting_proofs

(* The ballots tell who has asked, the block of the epoch is no later one, *)
(* and the tables have their keys.                                         *)
NetmapInv ==
    /\ VotesInv(Ids)
    /\ epochBlock \in Nat /\ epochBlock <= height
    /\ DOMAIN candidates = Peers
    /\ DOMAIN config = ConfigKeys

LEMMA IdsOfRequests ==
    /\ \A p \in Peers : AddId(p) \in Ids /\ \A s \in States : UpdateId(p, s) \in Ids
    /\ \A e \in EpochsToTry : EpochId(e) \in Ids
    /\ \A keys \in RingLists : RingId(keys) \in Ids
    /\ \A r \in Settings : ConfigId(r) \in Ids
  BY DEF Ids, EpochsToTry

LEMMA NetmapInvInit == Init => NetmapInv
  BY VotesInit DEF Init, NetmapInv, VotingInit

(* A change is made only by an invocation that decides. *)
LEMMA NetmapSteps ==
    ASSUME NetmapInv, [Next]_vars
    PROVE  NetmapInv' /\ ApprovedChange /\ (epoch' # epoch => epoch' > epoch /\ epochBlock' >= epochBlock)
  <1> USE DEF NetmapInv
  <1>1. ASSUME NEW n \in Invokers, NEW p \in Peers, AddPeer(n, p)
        PROVE  NetmapInv' /\ ApprovedChange /\ UNCHANGED epoch
    <2>1. AddId(p) \in Ids /\ Ends(n, AddId(p))
      BY <1>1, IdsOfRequests DEF AddPeer, Ends
    <2>2. UNCHANGED <<epoch, epochBlock, innerRing, config>>
      BY <1>1 DEF AddPeer, epochs
    <2>3. VotesInv(Ids)' /\ height' = height
      BY <2>1, EndsKeepVotes
    <2>4. CASE UNCHANGED candidates
      BY <2>2, <2>3, <2>4 DEF ApprovedChange
    <2>5. CASE Decides(n, AddId(p)) /\ candidates' = [candidates EXCEPT ![p] = "online"]
      <3>1. Quorate(AddId(p))
        BY <2>1, <2>5, DecidesIsQuorate
      <3> QED
        BY <2>2, <2>3, <2>5, <3>1 DEF ApprovedChange
    <2> QED
      BY <1>1, <2>2, <2>4, <2>5 DEF AddPeer
  <1>2. ASSUME NEW n \in Invokers, NEW p \in Peers, NEW s \in States, UpdateState(n, p, s)
        PROVE  NetmapInv' /\ ApprovedChange /\ UNCHANGED epoch
    <2>1. UpdateId(p, s) \in Ids /\ Ends(n, UpdateId(p, s))
      BY <1>2, IdsOfRequests DEF UpdateState, Ends
    <2>2. UNCHANGED <<epoch, epochBlock, innerRing, config>>
      BY <1>2 DEF UpdateState, epochs
    <2>3. VotesInv(Ids)' /\ height' = height
      BY <2>1, EndsKeepVotes
    <2>4. CASE UNCHANGED candidates
      BY <2>2, <2>3, <2>4 DEF ApprovedChange
    <2>5. CASE Decides(n, UpdateId(p, s)) /\ candidates' = Updated(p, s)
      <3>1. Quorate(UpdateId(p, s))
        BY <2>1, <2>5, DecidesIsQuorate
      <3> QED
        BY <2>2, <2>3, <2>5, <3>1 DEF ApprovedChange, Updated
    <2> QED
      BY <1>2, <2>2, <2>4, <2>5 DEF UpdateState
  <1>3. ASSUME NEW n \in Invokers, NEW e \in EpochsToTry, NewEpoch(n, e)
        PROVE  /\ NetmapInv' /\ ApprovedChange
               /\ epoch' # epoch => epoch' > epoch /\ epochBlock' >= epochBlock
    <2>1. EpochId(e) \in Ids /\ Ends(n, EpochId(e))
      BY <1>3, IdsOfRequests DEF NewEpoch, Ends
    <2>2. UNCHANGED <<candidates, innerRing, config>>
      BY <1>3 DEF NewEpoch
    <2>3. VotesInv(Ids)' /\ height' = height
      BY <2>1, EndsKeepVotes
    <2>4. CASE UNCHANGED epochs
      BY <2>2, <2>3, <2>4 DEF ApprovedChange, epochs
    <2>5. CASE Decides(n, EpochId(e)) /\ StartEpoch(e)
      <3>1. Quorate(EpochId(e))
        BY <2>1, <2>5, DecidesIsQuorate
      <3>2. epoch' = e /\ epochBlock' = height /\ e > epoch
        BY <2>5 DEF StartEpoch
      <3>3. height \in Nat
        BY DEF VotesInv
      <3> QED
        BY <2>2, <2>3, <3>1, <3>2, <3>3 DEF ApprovedChange
    <2> QED
      BY <1>3, <2>4, <2>5 DEF NewEpoch
  <1>4. ASSUME NEW n \in Invokers, NEW keys \in RingLists, UpdateInnerRing(n, keys)
        PROVE  NetmapInv' /\ ApprovedChange /\ UNCHANGED epoch
    <2>1. RingId(keys) \in Ids /\ Ends(n, RingId(keys))
      BY <1>4, IdsOfRequests DEF UpdateInnerRing, Ends
    <2>2. UNCHANGED <<epoch, epochBlock, candidates, config>>
      BY <1>4 DEF UpdateInnerRing, epochs
    <2>3. VotesInv(Ids)' /\ height' = height
      BY <2>1, EndsKeepVotes
    <2>4. innerRing' # innerRing => innerRing' = keys /\ Quorate(RingId(keys))
      BY <1>4, <2>1, DecidesIsQuorate DEF UpdateInnerRing
    <2> QED
      BY <2>2, <2>3, <2>4 DEF ApprovedChange
  <1>5. ASSUME NEW n \in Invokers, NEW r \in Settings, SetConfig(n, r)
        PROVE  NetmapInv' /\ ApprovedChange /\ UNCHANGED epoch
    <2>1. ConfigId(r) \in Ids /\ Ends(n, ConfigId(r))
      BY <1>5, IdsOfRequests DEF SetConfig, Ends
    <2>2. UNCHANGED <<epoch, epochBlock, candidates, innerRing>>
      BY <1>5 DEF SetConfig, epochs
    <2>3. VotesInv(Ids)' /\ height' = height
      BY <2>1, EndsKeepVotes
    <2>4. CASE UNCHANGED config
      BY <2>2, <2>3, <2>4 DEF ApprovedChange
    <2>5. CASE Decides(n, ConfigId(r)) /\ config' = [config EXCEPT ![r.key] = r.val]
      <3>1. Quorate(ConfigId(r))
        BY <2>1, <2>5, DecidesIsQuorate
      <3> QED
        BY <2>2, <2>3, <2>5, <3>1 DEF ApprovedChange
    <2> QED
      BY <1>5, <2>2, <2>4, <2>5 DEF SetConfig
  <1>6. ASSUME NEW c \in Counts, UpdateSnapshotCount(c)
        PROVE  NetmapInv' /\ ApprovedChange /\ UNCHANGED epoch
    <2>1. UNCHANGED <<candidates, epoch, epochBlock, innerRing, config, voting>>
      BY <1>6 DEF UpdateSnapshotCount
    <2> QED
      BY <2>1, OthersKeepVotes DEF ApprovedChange, voting
  <1>7. CASE NewBlock
    <2>1. UNCHANGED <<candidates, epoch, epochBlock, innerRing, config>> /\ NextBlock
      BY <1>7 DEF NewBlock, epochs
    <2>2. VotesInv(Ids)' /\ height' = height + 1 /\ height \in Nat
      BY <2>1, OthersKeepVotes DEF NextBlock, VotesInv
    <2> QED
      BY <2>1, <2>2 DEF ApprovedChange
  <1>8. CASE UNCHANGED vars
    <2>1. UNCHANGED <<candidates, epoch, epochBlock, innerRing, config, voting>>
      BY <1>8 DEF vars
    <2> QED
      BY <2>1, OthersKeepVotes DEF ApprovedChange, voting
  <1> QED
    BY <1>1, <1>2, <1>3, <1>4, <1>5, <1>6, <1>7, <1>8 DEF Next

(* Candidates, epochs, the inner ring list and the configuration change    *)
(* only as a quorum of the alphabet has asked for since the same change    *)
(* was last made.                                                          *)
THEOREM EveryChangeIsApproved == Spec => ChangesAreApproved
  <1>1. NetmapInv /\ [Next]_vars => NetmapInv' /\ [ApprovedChange]_vars
    BY NetmapSteps
  <1> QED
    BY NetmapInvInit, <1>1, PTL DEF Spec, ChangesAreApproved

(* No vote, however late, takes the epoch or its block back.               *)
THEOREM EpochsNeverGoBack == Spec => EpochsGoForward
  <1>1. NetmapInv /\ [Next]_vars =>
          /\ NetmapInv'
          /\ [epoch' # epoch => epoch' > epoch /\ epochBlock' >= epochBlock]_vars
    BY NetmapSteps
  <1> QED
    BY NetmapInvInit, <1>1, PTL DEF Spec, EpochsGoForward

-----------------------------------------------------------------------------
(* Snapshots.  The lemmas about the ring, for network maps.                *)
Ring == INSTANCE SnapshotRing_proofs WITH Maps <- NetworkMaps, EmptyMap <- {}

LEMMA RingIsAssumed == Ring!RingAssumption
  BY SnapshotsAssumption DEF Ring!RingAssumption, NetworkMaps

LEMMA SameRing ==
    /\ RingInit <=> Ring!RingInit
    /\ \A m : Push(m) <=> Ring!Push(m)
    /\ \A c : Resize(c) <=> Ring!Resize(c)
    /\ RingTypeOK <=> Ring!RingTypeOK
    /\ \A d : Snapshot(d) = Ring!Snapshot(d)
    /\ CurrentMap = Read(current)
  BY DEF RingInit, Ring!RingInit, Push, Ring!Push, Slots, Ring!Slots, RingTypeOK, Ring!RingTypeOK,
         Resize, Grow, ShrinkAfter, ShrinkBefore, Movable,
         Ring!Resize, Ring!Grow, Ring!ShrinkAfter, Ring!ShrinkBefore, Ring!Movable,
         Snapshot, Ring!Snapshot, Read, Ring!Read, CurrentMap

(* The snapshots, newest first. *)
Stored == Ring!PastMaps

LEMMA StoredMaps ==
    ASSUME Ring!RingInv
    PROVE  /\ count \in 0..MaxCount
           /\ Stored \in Seq(NetworkMaps) /\ Len(Stored) = count
           /\ \A i \in 1..count : Stored[i] = Snapshot(i - 1)
           /\ current >= 0 => Stored[1] = CurrentMap
  <1>1. Ring!RingTypeOK /\ Ring!RingWellFormed
    BY DEF Ring!RingInv
  <1>2. count \in 0..MaxCount /\ current \in -1..MaxCount - 1 /\ current < count
    BY <1>1 DEF Ring!RingTypeOK, Ring!RingWellFormed
  <1>3. Stored \in Seq(NetworkMaps) /\ Len(Stored) = count
    BY RingIsAssumed, Ring!PastMapsType DEF Stored
  <1>4. \A i \in 1..count : Stored[i] = Snapshot(i - 1)
    BY SameRing DEF Stored, Ring!PastMaps
  <1>5. current >= 0 => Stored[1] = CurrentMap
    <2> SUFFICES ASSUME current >= 0 PROVE Stored[1] = CurrentMap
      OBVIOUS
    <2>1. 0 \in 0..count - 1 /\ 0 + 1 = 1
      BY <1>2, SnapshotsAssumption
    <2>2. Ring!PastMaps[1] = Ring!Read(Ring!PastSlot(current, count, 0))
      BY <2>1, RingIsAssumed, Ring!PastMapNow
    <2>3. Ring!PastSlot(current, count, 0) = current
      BY <1>2 DEF Ring!PastSlot
    <2> QED
      BY <2>2, <2>3, SameRing DEF Stored, Read, Ring!Read, Slots, Ring!Slots
  <1> QED
    BY <1>2, <1>3, <1>4, <1>5

LEMMA CurrentIsStored == Ring!RingInv /\ current >= 0 => Stored[1] = CurrentMap
  BY StoredMaps

LEMMA CurrentIsStoredNext == (Ring!RingInv /\ current >= 0 => Stored[1] = CurrentMap)'
  BY CurrentIsStored, PTL

LEMMA PushTicks ==
    ASSUME Ring!RingInv, NEW m \in NetworkMaps, Push(m)
    PROVE  /\ Ring!RingInv' /\ count' = count /\ count # 0
           /\ current' >= 0
           /\ Stored' = <<m>> \o SubSeq(Stored, 1, Len(Stored) - 1)
  <1>1. Ring!Push(m)
    BY SameRing
  <1>2. Ring!RingInv' /\ current' \in Ring!Slots
    BY <1>1, RingIsAssumed, Ring!PushKeepsInv, Ring!PushSlot
  <1>3. Ring!History!Tick(m)
    BY <1>1, <1>2, RingIsAssumed, Ring!PushIsTick
  <1> QED
    BY <1>2, <1>3, SnapshotsAssumption DEF Ring!History!Tick, Stored, Push, Ring!Slots

LEMMA ResizeKeepsMaps ==
    ASSUME Ring!RingInv, NEW c \in Counts, Resize(c)
    PROVE  /\ Ring!RingInv' /\ count' = c
           /\ c # 0 /\ current >= 0 => current' >= 0
           /\ Stored' = [i \in 1..c |-> IF i <= Len(Stored) THEN Stored[i] ELSE {}]
  <1>1. Ring!Resize(c) /\ c \in 0..MaxCount
    BY SameRing, NetmapAssumption
  <1>2. Ring!RingInv'
    BY <1>1, RingIsAssumed, Ring!GrowKeepsInv, Ring!ShrinkAfterKeepsInv, Ring!ShrinkBeforeKeepsInv
    DEF Ring!Resize
  <1>3. Ring!History!Resize(c)
    BY <1>1, <1>2, RingIsAssumed, Ring!ResizeIsResize
  <1>4. count' = c /\ (c # 0 /\ current >= 0 => current' >= 0)
    BY <1>1 DEF Resize, Grow, ShrinkAfter, ShrinkBefore
  <1> QED
    BY <1>2, <1>3, <1>4 DEF Ring!History!Resize, Stored

(* The map that an epoch of the past began with, as far as it is known. *)
PastMap(i) == IF i <= Len(past) THEN past[i].map ELSE {}

PastEpochs == [epoch : 0..MaxEpoch, map : NetworkMaps]

(* The snapshots are those of the past, or empty where a resize has lost   *)
(* them.                                                                   *)
SnapshotsInv ==
    /\ Ring!RingInv
    /\ past \in Seq(PastEpochs) /\ Len(past) \in 1..MaxCount
    /\ \A i \in 1..count : Stored[i] \in {PastMap(i), {}}

LEMMA BeginPrepends ==
    ASSUME past \in Seq(PastEpochs), Len(past) \in 1..MaxCount, NEW e \in 0..MaxEpoch, Begin(e),
           FilteredNetmap \in NetworkMaps
    PROVE  /\ past' \in Seq(PastEpochs)
           /\ Len(past') \in 1..MaxCount
           /\ Len(past') = MaxCount \/ Len(past') = Len(past) + 1
           /\ past'[1].map = FilteredNetmap
           /\ \A i \in 2..Len(past') : past'[i] = past[i - 1] /\ i - 1 <= Len(past)
  <1> DEFINE new == [epoch |-> e, map |-> FilteredNetmap]
             longer == <<new>> \o past
  <1>1. new \in PastEpochs /\ new.map = FilteredNetmap /\ MaxCount \in Nat \ {0}
    BY SnapshotsAssumption DEF PastEpochs
  <1>2. past' = IF Len(longer) > MaxCount THEN SubSeq(longer, 1, MaxCount) ELSE longer
    BY DEF Begin
  <1> HIDE DEF new
  <1>3. /\ longer \in Seq(PastEpochs) /\ Len(longer) = Len(past) + 1
        /\ longer[1] = new /\ \A i \in 2..Len(longer) : longer[i] = past[i - 1]
    BY <1>1
  <1> HIDE DEF longer
  <1>4. CASE Len(longer) > MaxCount
    <2>1. past' = SubSeq(longer, 1, MaxCount) /\ MaxCount <= Len(longer)
      BY <1>1, <1>2, <1>3, <1>4
    <2>2. /\ past' \in Seq(PastEpochs) /\ Len(past') = MaxCount
          /\ \A i \in 1..MaxCount : past'[i] = longer[i]
      BY <1>1, <1>3, <2>1
    <2>3. past'[1] = new
      BY <1>1, <1>3, <2>2
    <2>4. \A i \in 2..MaxCount : past'[i] = past[i - 1] /\ i - 1 <= Len(past)
      BY <1>1, <1>3, <1>4, <2>1, <2>2
    <2>5. MaxCount \in 1..MaxCount
      BY <1>1
    <2> QED
      BY <1>1, <2>2, <2>3, <2>4, <2>5
  <1>5. CASE ~(Len(longer) > MaxCount)
    BY <1>1, <1>2, <1>3, <1>5
  <1> QED
    BY <1>4, <1>5

(* What a step does to the epochs and snapshots. *)
LEMMA EpochsChange ==
    ASSUME [Next]_vars
    PROVE  \/ UNCHANGED <<slots, count, current, epoch, past>>
           \/ \E e \in 1..MaxEpoch : StartEpoch(e)
           \/ \E c \in Counts : Resize(c) /\ UNCHANGED <<epoch, past>>
  <1>1. ASSUME NEW n \in Invokers, NEW e \in EpochsToTry, NewEpoch(n, e)
        PROVE  UNCHANGED epochs \/ (e \in 1..MaxEpoch /\ StartEpoch(e))
    BY <1>1 DEF NewEpoch, EpochsToTry
  <1> QED
    BY <1>1 DEF Next, AddPeer, UpdateState, UpdateInnerRing, SetConfig, UpdateSnapshotCount, NewBlock,
                vars, epochs

FixedMap == 0 \notin Counts /\ current >= 0 =>
               current' >= 0 /\ (epoch' = epoch => CurrentMap' = CurrentMap)

LEMMA SnapshotSteps ==
    ASSUME SnapshotsInv, epoch \in Nat, FilteredNetmap \in NetworkMaps, [Next]_vars
    PROVE  SnapshotsInv' /\ FixedMap
  <1>1. /\ Ring!RingInv /\ past \in Seq(PastEpochs) /\ Len(past) \in 1..MaxCount
        /\ \A i \in 1..count : Stored[i] \in {PastMap(i), {}}
        /\ count \in 0..MaxCount /\ Stored \in Seq(NetworkMaps) /\ Len(Stored) = count
        /\ current >= 0 => Stored[1] = CurrentMap
    BY StoredMaps DEF SnapshotsInv
  <1>2. CASE UNCHANGED <<slots, count, current, epoch, past>>
    <2>1. Stored' = Stored /\ Ring!RingInv' /\ CurrentMap' = CurrentMap
      BY <1>1, <1>2 DEF Stored, Ring!PastMaps, Ring!Snapshot, Ring!Read, CurrentMap, Read,
                        Ring!RingInv, Ring!RingTypeOK, Ring!RingWellFormed
    <2> QED
      BY <1>1, <1>2, <2>1 DEF SnapshotsInv, PastMap, FixedMap
  <1>3. CASE \E e \in 1..MaxEpoch : StartEpoch(e)
    <2>1. PICK e \in 1..MaxEpoch : StartEpoch(e)
      BY <1>3
    <2>2. e > epoch /\ epoch' = e /\ Push(FilteredNetmap) /\ Begin(e) /\ e \in 0..MaxEpoch
      BY <2>1, NetmapAssumption DEF StartEpoch
    <2>3. /\ Ring!RingInv' /\ count' = count /\ current' >= 0 /\ count # 0
          /\ Stored' = <<FilteredNetmap>> \o SubSeq(Stored, 1, Len(Stored) - 1)
      BY <1>1, <2>2, PushTicks
    <2>4. /\ past' \in Seq(PastEpochs)
          /\ Len(past') \in 1..MaxCount
          /\ Len(past') = MaxCount \/ Len(past') = Len(past) + 1
          /\ past'[1].map = FilteredNetmap
          /\ \A i \in 2..Len(past') : past'[i] = past[i - 1] /\ i - 1 <= Len(past)
      BY <1>1, <2>2, BeginPrepends
    <2>5. /\ Stored'[1] = FilteredNetmap
          /\ \A i \in 2..count : Stored'[i] = Stored[i - 1]
      BY <1>1, <2>3
    <2>6. ASSUME NEW i \in 1..count'
          PROVE  Stored'[i] \in {PastMap(i)', {}}
      <3>1. CASE i = 1
        BY <2>4, <2>5, <3>1 DEF PastMap
      <3>2. CASE i > 1
        <4>1. i \in 2..count /\ i - 1 \in 1..count /\ Stored'[i] = Stored[i - 1]
          BY <1>1, <2>3, <2>5, <3>2
        <4>2. Stored[i - 1] \in {PastMap(i - 1), {}}
          BY <1>1, <4>1
        <4>3. CASE i <= Len(past')
          BY <2>4, <3>2, <4>1, <4>2, <4>3 DEF PastMap
        <4>4. CASE ~(i <= Len(past'))
          <5>1. ~(i - 1 <= Len(past))
            BY <1>1, <2>4, <4>1, <4>4, SnapshotsAssumption
          <5> QED
            BY <4>1, <4>2, <5>1 DEF PastMap
        <4> QED
          BY <4>3, <4>4
      <3> QED
        BY <1>1, <2>3, <3>1, <3>2
    <2>7. FixedMap
      BY <2>2, <2>3 DEF FixedMap
    <2> QED
      BY <2>3, <2>4, <2>6, <2>7 DEF SnapshotsInv
  <1>4. CASE \E c \in Counts : Resize(c) /\ UNCHANGED <<epoch, past>>
    <2>1. PICK c \in Counts : Resize(c) /\ UNCHANGED <<epoch, past>>
      BY <1>4
    <2>2. /\ Ring!RingInv' /\ count' = c
          /\ c # 0 /\ current >= 0 => current' >= 0
          /\ Stored' = [i \in 1..c |-> IF i <= Len(Stored) THEN Stored[i] ELSE {}]
      BY <1>1, <2>1, ResizeKeepsMaps
    <2>3. ASSUME NEW i \in 1..count'
          PROVE  Stored'[i] \in {PastMap(i)', {}}
      BY <1>1, <2>1, <2>2 DEF PastMap
    <2>4. FixedMap
      <3> SUFFICES ASSUME 0 \notin Counts, current >= 0
                   PROVE  current' >= 0 /\ CurrentMap' = CurrentMap
        BY DEF FixedMap
      <3>1. c # 0 /\ current' >= 0
        BY <2>1, <2>2
      <3>2. count >= 1 /\ c >= 1
        BY <1>1, <3>1, NetmapAssumption, SnapshotsAssumption
        DEF Ring!RingInv, Ring!RingTypeOK, Ring!RingWellFormed
      <3>3. Stored'[1] = Stored[1]
        BY <1>1, <2>2, <3>2, NetmapAssumption, SnapshotsAssumption
      <3>4. Stored'[1] = CurrentMap'
        BY <2>2, <3>1, CurrentIsStoredNext
      <3> QED
        BY <1>1, <3>1, <3>3, <3>4
    <2> QED
      BY <1>1, <2>1, <2>2, <2>3, <2>4 DEF SnapshotsInv
  <1> QED
    BY <1>2, <1>3, <1>4, EpochsChange

-----------------------------------------------------------------------------
(* The invariant of the Netmap contract.                                   *)
TablesOK ==
    /\ candidates \in [Peers -> {Missing, "online", "maintenance"}]
    /\ epoch \in 0..MaxEpoch
    /\ innerRing \in RingLists \union {{}}
    /\ config \in [ConfigKeys -> {r.val : r \in Settings} \union {NoValue}]
    /\ VotingTypeOK(Ids)

LEMMA TablesStep ==
    ASSUME NetmapInv, TablesOK, [Next]_vars
    PROVE  TablesOK'
  <1> USE DEF NetmapInv
  <1>1. ASSUME NEW n \in Invokers, NEW p \in Peers, AddPeer(n, p)
        PROVE  TablesOK'
    <2>1. VotingTypeOK(Ids)'
      BY <1>1, IdsOfRequests, EndsKeepTypes DEF AddPeer, Ends, TablesOK
    <2> QED
      BY <1>1, <2>1 DEF AddPeer, epochs, TablesOK
  <1>2. ASSUME NEW n \in Invokers, NEW p \in Peers, NEW s \in States, UpdateState(n, p, s)
        PROVE  TablesOK'
    <2>1. VotingTypeOK(Ids)'
      BY <1>2, IdsOfRequests, EndsKeepTypes DEF UpdateState, Ends, TablesOK
    <2>2. candidates' \in [Peers -> {Missing, "online", "maintenance"}]
      BY <1>2 DEF UpdateState, Updated, States, TablesOK
    <2> QED
      BY <1>2, <2>1, <2>2 DEF UpdateState, epochs, TablesOK
  <1>3. ASSUME NEW n \in Invokers, NEW e \in EpochsToTry, NewEpoch(n, e)
        PROVE  TablesOK'
    <2>1. VotingTypeOK(Ids)'
      BY <1>3, IdsOfRequests, EndsKeepTypes DEF NewEpoch, Ends, TablesOK
    <2>2. epoch' \in 0..MaxEpoch
      BY <1>3, NetmapAssumption DEF NewEpoch, StartEpoch, epochs, EpochsToTry, TablesOK
    <2> QED
      BY <1>3, <2>1, <2>2 DEF NewEpoch, TablesOK
  <1>4. ASSUME NEW n \in Invokers, NEW keys \in RingLists, UpdateInnerRing(n, keys)
        PROVE  TablesOK'
    <2>1. VotingTypeOK(Ids)'
      BY <1>4, IdsOfRequests, EndsKeepTypes DEF UpdateInnerRing, Ends, TablesOK
    <2> QED
      BY <1>4, <2>1 DEF UpdateInnerRing, epochs, TablesOK
  <1>5. ASSUME NEW n \in Invokers, NEW r \in Settings, SetConfig(n, r)
        PROVE  TablesOK'
    <2>1. VotingTypeOK(Ids)'
      BY <1>5, IdsOfRequests, EndsKeepTypes DEF SetConfig, Ends, TablesOK
    <2>2. config' \in [ConfigKeys -> {q.val : q \in Settings} \union {NoValue}]
      BY <1>5 DEF SetConfig, TablesOK
    <2> QED
      BY <1>5, <2>1, <2>2 DEF SetConfig, epochs, TablesOK
  <1>6. CASE \/ \E c \in Counts : UpdateSnapshotCount(c)
             \/ NewBlock
             \/ UNCHANGED vars
    <2>1. /\ UNCHANGED <<candidates, epoch, innerRing, config>>
          /\ UNCHANGED voting \/ NextBlock
      BY <1>6 DEF UpdateSnapshotCount, NewBlock, vars, epochs
    <2>2. VotingTypeOK(Ids)'
      BY <2>1, VotingAssumption DEF TablesOK, VotingTypeOK, voting, NextBlock
    <2> QED
      BY <2>1, <2>2 DEF TablesOK
  <1> QED
    BY <1>1, <1>2, <1>3, <1>4, <1>5, <1>6 DEF Next

LEMMA NetworkMapIsOne ==
    ASSUME TablesOK
    PROVE  FilteredNetmap \in NetworkMaps /\ epoch \in Nat
  BY NetmapAssumption DEF TablesOK, FilteredNetmap, NetworkMaps, States

NetmapAll == NetmapInv /\ TablesOK /\ SnapshotsInv

LEMMA NetmapStart == Init => NetmapAll /\ current >= 0
  <1> SUFFICES ASSUME Init PROVE NetmapAll /\ current >= 0
    OBVIOUS
  <1>1. NetmapInv
    BY NetmapInvInit
  <1>2. TablesOK
    BY VotingAssumption, NetmapAssumption DEF Init, TablesOK, VotingInit, VotingTypeOK, NoBallot
  <1>3. Ring!RingInv
    BY SameRing, RingIsAssumed, Ring!RingInvInit DEF Init
  <1>4. /\ past \in Seq(PastEpochs) /\ Len(past) \in 1..MaxCount
        /\ past[1].map = {} /\ Len(past) = 1
    BY NetmapAssumption, SnapshotsAssumption DEF Init, PastEpochs, NetworkMaps
  <1>5. \A i \in 1..count : Stored[i] = {}
    <2>1. Ring!History!Init
      BY SameRing, RingIsAssumed, Ring!HistoryInit DEF Init
    <2> QED
      BY <2>1 DEF Init, RingInit, Ring!History!Init, Stored
  <1> QED
    BY <1>1, <1>2, <1>3, <1>4, <1>5 DEF NetmapAll, SnapshotsInv, Init, RingInit

LEMMA NetmapStep ==
    ASSUME NetmapAll, [Next]_vars
    PROVE  NetmapAll' /\ FixedMap
  BY NetmapSteps, TablesStep, SnapshotSteps, NetworkMapIsOne DEF NetmapAll

(* The tables, the epoch and the snapshots of the Netmap contract stay in  *)
(* their domains.                                                          *)
THEOREM NetmapTypes == Spec => []TypeOK
  <1>1. NetmapAll => TypeOK
    <2> SUFFICES ASSUME NetmapAll PROVE TypeOK
      OBVIOUS
    <2>1. RingTypeOK
      BY SameRing DEF NetmapAll, SnapshotsInv, Ring!RingInv
    <2>2. epochBlock \in 0..height
      BY DEF NetmapAll, NetmapInv, VotesInv
    <2> QED
      BY <2>1, <2>2 DEF NetmapAll, TablesOK, SnapshotsInv, PastEpochs, TypeOK
  <1> QED
    BY NetmapStart, NetmapStep, <1>1, PTL DEF Spec

(* The network map of a past epoch is the one the epoch began with, or is  *)
(* lost: neither the reuse of slots nor a resize answers with the map of   *)
(* another epoch.                                                          *)
THEOREM SnapshotsKeepTheirEpochs == Spec => []SnapshotsAreOfTheirEpochs
  <1>1. NetmapAll => SnapshotsAreOfTheirEpochs
    <2> SUFFICES ASSUME NetmapAll, NEW i \in DOMAIN past, past[i].epoch = epoch - (i - 1), i <= count
                 PROVE  SnapshotByEpoch(past[i].epoch) \in {past[i].map, {}}
      BY DEF SnapshotsAreOfTheirEpochs
    <2>1. /\ Ring!RingInv /\ past \in Seq(PastEpochs) /\ Len(past) \in 1..MaxCount
          /\ \A j \in 1..count : Stored[j] \in {PastMap(j), {}}
          /\ epoch \in Nat
      BY NetmapAssumption DEF NetmapAll, SnapshotsInv, TablesOK
    <2>2. i \in 1..Len(past) /\ i \in 1..count
      BY <2>1, StoredMaps
    <2>3. Snapshot(i - 1) \in {past[i].map, {}}
      BY <2>1, <2>2, StoredMaps DEF PastMap
    <2>4. epoch - past[i].epoch = i - 1
      BY <2>1, <2>2
    <2> QED
      BY <2>3, <2>4 DEF SnapshotByEpoch
  <1> QED
    BY NetmapStart, NetmapStep, <1>1, PTL DEF Spec

(* As long as the alphabet does not ask for no snapshots at all, the       *)
(* network map stays the same within an epoch, whatever happens to the     *)
(* candidates and to the number of snapshots.                              *)
THEOREM TheMapIsFixed == ASSUME 0 \notin Counts PROVE Spec => NetworkMapFixedInEpoch
  <1>1. NetmapAll /\ current >= 0 /\ [Next]_vars =>
          (NetmapAll /\ current >= 0)' /\ [epoch' = epoch => CurrentMap' = CurrentMap]_vars
    BY NetmapStep DEF FixedMap
  <1> QED
    BY NetmapStart, <1>1, PTL DEF Spec, NetworkMapFixedInEpoch

-----------------------------------------------------------------------------
(* Estimations and the epochs they are of.                                 *)

(* What is stored, what is listed and how old it is belong together.       *)
EstimationsInv ==
    /\ est \subseteq [epoch : 0..MaxEpoch, cid : Containers, node : Peers]
    /\ listed \in [Containers -> [Peers -> SUBSET (0..MaxEpoch)]]
    /\ epoch \in 0..MaxEpoch
    /\ EstimationsAreListed
    /\ OldEstimationsAreRemoved

NothingYoungIsLost == \A x \in est \ est' : epoch' - x.epoch > CleanupDelta

LEMMA EstimationsInit == SideInit => EstimationsInv
  BY NetmapAssumption
     DEF SideInit, Init, EstimationsInv, EstimationsAreListed, OldEstimationsAreRemoved

LEMMA EstimationSteps ==
    ASSUME EstimationsInv, [SideNext]_sideVars
    PROVE  EstimationsInv' /\ NothingYoungIsLost
  <1> USE DEF EstimationsInv, EstimationsAreListed, OldEstimationsAreRemoved, NothingYoungIsLost
  <1>1. ASSUME NEW k \in Peers, NEW c \in Containers, NEW e \in Announced,
               PutContainerSize(k, c, e)
        PROVE  EstimationsInv' /\ NothingYoungIsLost
    <2> DEFINE new == [epoch |-> e, cid |-> c, node |-> k]
    <2>1. e \in 0..MaxEpoch /\ e <= epoch /\ epoch - e <= 1 /\ epoch' = epoch
      BY <1>1, NetmapAssumption DEF Announced, PutContainerSize, vars
    <2>2. est' = (est \ RemovedBy(c, k, e)) \union {new}
      BY <1>1 DEF PutContainerSize
    <2>3. listed' = [listed EXCEPT ![c][k] = (@ \ Forgotten(c, k, e)) \union {e}]
      BY <1>1 DEF PutContainerSize
    <2>4. listed' \in [Containers -> [Peers -> SUBSET (0..MaxEpoch)]]
      BY <2>1, <2>3
    <2>5. est' \subseteq [epoch : 0..MaxEpoch, cid : Containers, node : Peers]
      BY <2>1, <2>2
    <2>6. ASSUME NEW x \in est' PROVE x.epoch \in listed'[x.cid][x.node]
      <3>1. CASE x = new
        BY <2>3, <3>1
      <3>2. CASE x # new /\ x.cid = c /\ x.node = k
        <4>1. x \in est /\ x \notin RemovedBy(c, k, e) /\ x.epoch \in listed[c][k]
          BY <2>2, <3>2
        <4>2. x = [epoch |-> x.epoch, cid |-> c, node |-> k]
          BY <3>2, <4>1
        <4>3. x.epoch \notin Forgotten(c, k, e)
          BY <4>1, <4>2 DEF RemovedBy
        <4> QED
          BY <2>3, <3>2, <4>1, <4>3
      <3>3. CASE x # new /\ ~(x.cid = c /\ x.node = k)
        <4>1. x \in est /\ x.cid \in Containers /\ x.node \in Peers
          BY <2>2, <3>3
        <4> QED
          BY <2>3, <3>3, <4>1
      <3> QED
        BY <3>1, <3>2, <3>3
    <2>7. ASSUME NEW x \in est' PROVE epoch' - x.epoch <= TotalCleanupDelta
      BY <2>1, <2>2 DEF TotalCleanupDelta, CleanupDelta
    <2>8. ASSUME NEW x \in est \ est' PROVE epoch' - x.epoch > CleanupDelta
      <3>1. x \in RemovedBy(c, k, e)
        BY <2>2
      <3>2. x.epoch \in 0..MaxEpoch /\ e - x.epoch > CleanupDelta
        BY <3>1 DEF RemovedBy, Forgotten
      <3> QED
        BY <2>1, <3>2, NetmapAssumption DEF CleanupDelta
    <2> QED
      BY <2>1, <2>4, <2>5, <2>6, <2>7, <2>8
  <1>2. ASSUME UNCHANGED <<est, listed, epoch>>
        PROVE  EstimationsInv' /\ NothingYoungIsLost
    BY <1>2
  <1>3. ASSUME NEW n \in Invokers, NEW e \in EpochsToTry, SideNewEpoch(n, e)
        PROVE  EstimationsInv' /\ NothingYoungIsLost
    <2>1. CASE epoch' = epoch
      BY <1>2, <1>3, <2>1 DEF SideNewEpoch, estimations
    <2>2. CASE epoch' # epoch
      <3>1. epoch' = e /\ e \in 1..MaxEpoch
        BY <1>3, <2>2 DEF SideNewEpoch, NewEpoch, StartEpoch, EpochsToTry, epochs
      <3>2. est' = CleanedUp(e) /\ listed' = listed
        BY <1>3, <2>2 DEF SideNewEpoch, Cleanup
      <3>3. \A x \in est : x.epoch \in Int
        OBVIOUS
      <3> QED
        BY <3>1, <3>2, <3>3, NetmapAssumption DEF CleanedUp, TotalCleanupDelta, CleanupDelta
    <2> QED
      BY <2>1, <2>2
  <1>4. CASE \/ \E n \in Invokers : AlphabetStep(n)
             \/ \E c \in Counts : UpdateSnapshotCount(c) /\ UNCHANGED <<stored, estimations, ledger>>
             \/ stored' \in SUBSET Containers /\ UNCHANGED <<vars, estimations, ledger>>
             \/ UNCHANGED sideVars
    <2>1. UNCHANGED <<estimations, epoch>>
      BY <1>4 DEF AlphabetStep, AddPeer, UpdateState, UpdateInnerRing, SetConfig,
                    UpdateSnapshotCount, epochs, vars, sideVars
    <2> QED
      BY <1>2, <2>1 DEF estimations
  <1> QED
    BY <1>1, <1>3, <1>4 DEF SideNext

(* A stored estimation is in the list of its container and node. *)
THEOREM TheListsAreComplete == SideSpec => []EstimationsAreListed
  <1>1. EstimationsInv /\ [SideNext]_sideVars => EstimationsInv'
    BY EstimationSteps
  <1>2. EstimationsInv => EstimationsAreListed
    BY DEF EstimationsInv
  <1> QED
    BY EstimationsInit, <1>1, <1>2, PTL DEF SideSpec

(* No estimation is older than TotalCleanupDelta. *)
THEOREM OldEstimationsGo == SideSpec => []OldEstimationsAreRemoved
  <1>1. EstimationsInv /\ [SideNext]_sideVars => EstimationsInv'
    BY EstimationSteps
  <1>2. EstimationsInv => OldEstimationsAreRemoved
    BY DEF EstimationsInv
  <1> QED
    BY EstimationsInit, <1>1, <1>2, PTL DEF SideSpec

(* Neither way of removing estimations takes one that is younger than      *)
(* CleanupDelta.                                                           *)
THEOREM YoungEstimationsStay == SideSpec => EstimationsAreKept
  <1>1. EstimationsInv /\ [SideNext]_sideVars => EstimationsInv' /\ [NothingYoungIsLost]_sideVars
    BY EstimationSteps
  <1> QED
    BY EstimationsInit, <1>1, PTL DEF SideSpec, EstimationsAreKept, NothingYoungIsLost

-----------------------------------------------------------------------------
(* With the other contracts, Netmap runs as it does alone.                 *)
LEMMA SideStepIsNetmaps == [SideNext]_sideVars => [Next]_vars
  <1> SUFFICES ASSUME [SideNext]_sideVars PROVE [Next]_vars
    OBVIOUS
  <1>1. CASE \E n \in Invokers : AlphabetStep(n)
    BY <1>1 DEF AlphabetStep, Next
  <1>2. CASE \E n \in Invokers : \E e \in EpochsToTry : SideNewEpoch(n, e)
    BY <1>2 DEF SideNewEpoch, Next
  <1>3. CASE \E c \in Counts : UpdateSnapshotCount(c)
    BY <1>3 DEF Next
  <1>4. CASE \E k \in Peers, c \in Containers, e \in Announced : PutContainerSize(k, c, e)
    BY <1>4 DEF PutContainerSize
  <1>5. CASE UNCHANGED vars
    BY <1>5
  <1> QED
    BY <1>1, <1>2, <1>3, <1>4, <1>5 DEF SideNext, sideVars

(* What is shown of the Netmap contract alone holds in the composition:    *)
(* every step of the sidechain is one of Netmap, or does not concern it.   *)
THEOREM SideImplementsNetmap == SideSpec => Spec
  <1>1. SideInit => Init
    BY DEF SideInit
  <1> QED
    BY <1>1, SideStepIsNetmaps, PTL DEF SideSpec, Spec

(* Only a node of the network map that the epoch before began with can     *)
(* announce the size of a container.                                       *)
THEOREM AnnouncersWereInTheMap == SideSpec => EstimationsAreOfThePreviousMap
  <1> DEFINE Announcers == \A x \in est' \ est :
                              Len(past) > 1 /\ \E node \in past[2].map : node.key = x.node
  <1>1. NetmapAll /\ [SideNext]_sideVars => Announcers
    <2> SUFFICES ASSUME NetmapAll, [SideNext]_sideVars, NEW x \in est' \ est
                 PROVE  Len(past) > 1 /\ \E node \in past[2].map : node.key = x.node
      OBVIOUS
    <2>1. PICK k \in Peers, c \in Containers, e \in Announced : PutContainerSize(k, c, e)
      <3>1. CASE \E n \in Invokers : \E e \in EpochsToTry : SideNewEpoch(n, e)
        BY <3>1 DEF SideNewEpoch, Cleanup, CleanedUp, estimations
      <3>2. CASE \E n \in Invokers : AlphabetStep(n)
        BY <3>2 DEF AlphabetStep, estimations
      <3> QED
        BY <3>1, <3>2 DEF SideNext, sideVars, estimations
    <2>2. x.node = k /\ count > 1 /\ \E node \in Snapshot(1) : node.key = k
      BY <2>1 DEF PutContainerSize, IsStorageNode
    <2>3. /\ Ring!RingInv /\ past \in Seq(PastEpochs) /\ Len(past) \in 1..MaxCount
          /\ \A j \in 1..count : Stored[j] \in {PastMap(j), {}}
      BY DEF NetmapAll, SnapshotsInv
    <2>4. 2 \in 1..count /\ Stored[2] = Snapshot(1)
      BY <2>2, <2>3, StoredMaps
    <2>5. PastMap(2) # {} /\ Snapshot(1) = PastMap(2)
      BY <2>2, <2>3, <2>4
    <2>6. Len(past) > 1 /\ Snapshot(1) = past[2].map
      BY <2>3, <2>5 DEF PastMap
    <2> QED
      BY <2>2, <2>6
  <1>2. SideInit => NetmapAll
    BY NetmapStart DEF SideInit
  <1>3. NetmapAll /\ [SideNext]_sideVars => NetmapAll'
    BY NetmapStep, SideStepIsNetmaps
  <1> QED
    BY <1>1, <1>2, <1>3, PTL DEF SideSpec, EstimationsAreOfThePreviousMap
-----------------------------------------------------------------------------
(* Locks.  The lemmas about the accounts of Balance.                       *)
Accts == INSTANCE Balance_proofs WITH
    Mints <- {}, Burns <- {}, Payments <- {}, MaxPayments <- 0, burned <- {}, payments <- 0

LEMMA AccountsAreAssumed ==
    /\ Accts!RequestsAssumption
    /\ Accts!LockAccountsAssumption
    /\ Accts!BalanceConstantsAssumption
    /\ Accts!NoParentAssumption
    /\ Accts!VotingAssumption /\ Accts!BlockDiffAssumption
  <1>1. IsFiniteSet({})
    BY FS_EmptySet
  <1>2. Accts!RequestsAssumption
    BY <1>1, LocksAssumption
    DEF Accts!RequestsAssumption, Accts!Accounts, Accts!IsFiniteSet, IsFiniteSet
  <1>3. Accts!LockAccountsAssumption
    BY LocksAssumption DEF Accts!LockAccountsAssumption
  <1>4. Accts!BalanceConstantsAssumption
    BY NetmapAssumption DEF Accts!BalanceConstantsAssumption
  <1>5. Accts!NoParentAssumption
    BY LocksAssumption DEF Accts!NoParentAssumption, Accts!NoParent, Ledger!NoParent
  <1>6. Accts!VotingAssumption
    BY VotingAssumption DEF Accts!VotingAssumption, Accts!IsFiniteSet, IsFiniteSet
  <1>7. Accts!BlockDiffAssumption
    BY BlockDiffAssumption DEF Accts!BlockDiffAssumption
  <1> QED
    BY <1>2, <1>3, <1>4, <1>5, <1>6, <1>7

LEMMA SameUnlocked ==
    ASSUME NEW m, NEW e
    PROVE  Ledger!Unlocked(m, e) = Accts!Unlocked(m, e) /\ Ledger!Zero = Accts!Zero
  BY DEF Ledger!Unlocked, Accts!Unlocked, Ledger!TimedOut, Accts!TimedOut,
         Ledger!Moved, Accts!Moved, Ledger!Credited, Accts!Credited,
         Ledger!Withdrawn, Accts!Withdrawn, Ledger!Zero, Accts!Zero, Ledger!NoParent, Accts!NoParent,
         Ledger!FoldSet, Accts!FoldSet, Ledger!MapThenFoldSet, Accts!MapThenFoldSet

(* Whoever holds a lock account, it is locked on behalf of a user. *)
LEMMA AccountsStayInOrder == Accts!LedgerOK(acct) /\ [SideNext]_sideVars => Accts!LedgerOK(acct)'
  <1> SUFFICES ASSUME Accts!LedgerOK(acct), [SideNext]_sideVars
               PROVE  Accts!LedgerOK(acct')
    BY DEF Accts!LedgerOK
  <1>1. ASSUME NEW n \in Invokers, NEW r \in Locks, Ledger!Lock(n, r)
        PROVE  Accts!LedgerOK(acct')
    <2>1. CASE UNCHANGED acct
      BY <2>1
    <2>2. CASE /\ Accts!CanTransfer([acct EXCEPT ![r.to] = Accts!LockAccount(r)], r.from, r.amount)
               /\ acct' = Accts!LockResult(r)
      BY <2>2, AccountsAreAssumed, Accts!LockIsOrderly
    <2> QED
      BY <1>1, <2>1, <2>2
      DEF Ledger!Lock, Ledger!CanTransfer, Accts!CanTransfer, Ledger!LockAccount, Accts!LockAccount,
          Accts!LockResult, Ledger!Moved, Accts!Moved, Ledger!Credited, Accts!Credited,
          Ledger!Withdrawn, Accts!Withdrawn, Ledger!Zero, Accts!Zero, Ledger!NoParent, Accts!NoParent,
          Ledger!ledger
  <1>2. ASSUME NEW e, acct' = Ledger!Unlocked(acct, e)
        PROVE  Accts!LedgerOK(acct')
    <2>1. Accts!ReturnedOf(acct, acct', Accts!TimedOut(acct, e))
      BY <1>2, SameUnlocked, AccountsAreAssumed, Accts!UnlockedReturns
    <2> QED
      BY <2>1 DEF Accts!ReturnedOf
  <1>3. CASE UNCHANGED acct
    BY <1>3
  <1> QED
    BY <1>1, <1>2, <1>3 DEF SideNext, AlphabetStep, SideNewEpoch, Cleanup, PutContainerSize, ledger, sideVars

LEMMA AccountsBegin == SideInit => Accts!LedgerOK(acct)
  BY FirstAccountsAssumption, LocksAssumption
  DEF SideInit, Accts!LedgerOK, Accts!Accounts, Ledger!Accounts, Accts!Account, Ledger!Account,
      Ledger!NoParent, Accts!NoParent, Ledger!Zero

(* With a new epoch, whatever is locked until it or longer ago is back     *)
(* with its owner, in the same transaction.                                *)
THEOREM LocksEnd == SideSpec => LocksEndWithTheirEpoch
  <1> DEFINE LocksAreOver ==
               epoch' # epoch =>
                 \A a \in LockAccounts :
                    acct[a].until # 0 /\ acct[a].until <= epoch' =>
                      /\ acct'[a] = Ledger!Zero
                      /\ \A u \in Users : acct[a].parent = u =>
                            acct'[u].balance >= acct[u].balance + acct[a].balance
  <1>1. Accts!LedgerOK(acct) /\ [SideNext]_sideVars => LocksAreOver
    <2> SUFFICES ASSUME Accts!LedgerOK(acct), [SideNext]_sideVars, epoch' # epoch,
                        NEW a \in LockAccounts, acct[a].until # 0, acct[a].until <= epoch'
                 PROVE  /\ acct'[a] = Ledger!Zero
                        /\ \A u \in Users : acct[a].parent = u =>
                              acct'[u].balance >= acct[u].balance + acct[a].balance
      OBVIOUS
    <2>1. PICK n \in Invokers, e \in EpochsToTry : SideNewEpoch(n, e)
      BY DEF SideNext, AlphabetStep, AddPeer, UpdateState, UpdateInnerRing, SetConfig,
             UpdateSnapshotCount, PutContainerSize, epochs, vars, sideVars
    <2>2. epoch' = e /\ acct' = Ledger!Unlocked(acct, e)
      BY <2>1 DEF SideNewEpoch, NewEpoch, StartEpoch, epochs, Cleanup
    <2>3. Accts!ReturnedOf(acct, acct', Accts!TimedOut(acct, e))
      BY <2>2, SameUnlocked, AccountsAreAssumed, Accts!UnlockedReturns
    <2>4. a \in Accts!TimedOut(acct, e)
      BY <2>2, NetmapAssumption DEF Accts!TimedOut, Accts!LedgerOK, Accts!Accounts, Accts!Account, EpochsToTry
    <2> QED
      BY <2>3, <2>4, SameUnlocked DEF Accts!ReturnedOf
  <1> QED
    BY <1>1, AccountsBegin, AccountsStayInOrder, PTL DEF SideSpec, LocksEndWithTheirEpoch
=============================================================================

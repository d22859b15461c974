------------------------- MODULE Registries_proofs -------------------------
(***************************************************************************)
(* What every deployment of the Container contract guarantees about its    *)
(* containers, the keys of their owners and the names of containers; the   *)
(* lists of the Subnet contract; the tokens of NNS, also where Container   *)
(* registers domains; the keys of Reputation and Audit; what an Alphabet   *)
(* contract gives.                                                         *)
(***************************************************************************)
EXTENDS Registries, Voting_proofs, SequenceTheorems

-----------------------------------------------------------------------------
(* The Container contract. *)

(* The ballots tell who has asked, and the tables have their keys. *)
ContainerInv ==
    /\ VotesInv(Ids)
    /\ DOMAIN eacl = Containers
    /\ funds \in [Owners \union Alphabet -> Int]

LEMMA IdsOfRequests ==
    /\ \A r \in Puts : r.cid \in Containers /\ PutId(r.cid) \in Ids
    /\ \A c \in Containers : DeleteId(c) \in Ids
    /\ \A r \in Rules : r.cid \in Containers /\ RuleId(r) \in Ids
    /\ EstimationIds \subseteq Ids
  BY ContainerAssumption DEF Ids

LEMMA ContainerInvInit == Init => ContainerInv
  <1> SUFFICES ASSUME Init PROVE ContainerInv
    OBVIOUS
  <1>1. VotesInv(Ids)
    BY VotesInit DEF Init
  <1>2. DOMAIN eacl = Containers
    BY DEF Init, ContainerInit
  <1>3. funds \in [Owners \union Alphabet -> Int]
    BY ContainerAssumption DEF Init, ContainerInit
  <1> QED
    BY <1>1, <1>2, <1>3 DEF ContainerInv

(* Who pays for a container is its owner. *)
LEMMA OwnersPay ==
    ASSUME ContainerInv, NEW r \in Puts
    PROVE  /\ Paid(r) \in [Owners \union Alphabet -> Int]
           /\ \A o \in Owners : Paid(r)[o] < funds[o] => o = OwnerOf[r.cid]
  <1>1. Fee(r) \in Nat
    BY ContainerAssumption DEF Fee
  <1>2. \A a : Cardinality(Alphabet \ {a}) \in Int
    BY VotingAssumption, FS_Subset, FS_CardinalityType
  <1>3. ASSUME NEW a PROVE Fee(r) * Cardinality(Alphabet \ {a}) \in Int
    <2>1. Fee(r) \in Int /\ Cardinality(Alphabet \ {a}) \in Int
      BY <1>1, <1>2
    <2> QED
      BY <2>1
  <1> DEFINE total(a) == Fee(r) * Cardinality(Alphabet \ {a})
  <1> HIDE DEF total
  <1>4. funds \in [Owners \union Alphabet -> Int] /\ \A a : total(a) \in Int
    BY <1>3 DEF ContainerInv, total
  <1>5. Paid(r) = [a \in Owners \union Alphabet |->
                     IF a = OwnerOf[r.cid] THEN funds[a] - total(a)
                     ELSE IF a \in Alphabet THEN funds[a] + Fee(r) ELSE funds[a]]
    BY <1>4 DEF Paid, total
  <1>6. Paid(r) \in [Owners \union Alphabet -> Int]
    BY <1>1, <1>4, <1>5
  <1>7. ASSUME NEW o \in Owners, o # OwnerOf[r.cid] PROVE ~(Paid(r)[o] < funds[o])
    BY <1>1, <1>4, <1>5, <1>7
  <1> QED
    BY <1>6, <1>7

LEMMA ContainerSteps ==
    ASSUME ContainerInv, [Next]_vars
    PROVE  ContainerInv' /\ ApprovedChange
  <1> USE DEF ContainerInv
  <1>1. ASSUME NEW n \in Invokers, NEW signers, NEW r \in Puts, PutNamed(n, signers, r)
        PROVE  ContainerInv' /\ ApprovedChange
    <2>1. PutId(r.cid) \in Ids /\ r.cid \in Containers /\ Ends(n, PutId(r.cid))
      BY <1>1, IdsOfRequests DEF PutNamed, Ends
    <2>2. UNCHANGED eacl
      BY <1>1 DEF PutNamed
    <2>3. VotesInv(Ids)'
      BY <2>1, EndsKeepVotes
    <2>4. CASE UNCHANGED <<stored, accounts>>
      BY <2>2, <2>3, <2>4 DEF ApprovedChange, accounts
    <2>5. CASE Decides(n, PutId(r.cid)) /\ stored' = stored \union {r.cid} /\ funds' = Paid(r)
      <3>1. Quorate(PutId(r.cid))
        BY <2>1, <2>5, DecidesIsQuorate
      <3>2. /\ Paid(r) \in [Owners \union Alphabet -> Int]
            /\ \A o \in Owners : Paid(r)[o] < funds[o] => o = OwnerOf[r.cid]
        BY OwnersPay
      <3> QED
        BY <2>1, <2>2, <2>3, <2>5, <3>1, <3>2 DEF ApprovedChange
    <2> QED
      BY <1>1, <2>4, <2>5 DEF PutNamed
  <1>2. ASSUME NEW n \in Invokers, NEW signers, NEW c \in Containers, Delete(n, signers, c)
        PROVE  ContainerInv' /\ ApprovedChange
    <2>1. DeleteId(c) \in Ids /\ Ends(n, DeleteId(c))
      BY <1>2, IdsOfRequests DEF Delete, Ends
    <2>2. UNCHANGED <<eacl, funds>>
      BY <1>2 DEF Delete, accounts
    <2>3. VotesInv(Ids)'
      BY <2>1, EndsKeepVotes
    <2>4. CASE UNCHANGED stored
      BY <2>2, <2>3, <2>4 DEF ApprovedChange
    <2>5. CASE Decides(n, DeleteId(c)) /\ stored' = stored \ {c}
      <3>1. Quorate(DeleteId(c))
        BY <2>1, <2>5, DecidesIsQuorate
      <3> QED
        BY <2>2, <2>3, <2>5, <3>1 DEF ApprovedChange
    <2> QED
      BY <1>2, <2>4, <2>5 DEF Delete
  <1>3. ASSUME NEW n \in Invokers, NEW r \in Rules, SetEACL(n, r)
        PROVE  ContainerInv' /\ ApprovedChange
    <2>1. RuleId(r) \in Ids /\ r.cid \in Containers /\ Ends(n, RuleId(r))
      BY <1>3, IdsOfRequests DEF SetEACL, Ends
    <2>2. UNCHANGED <<stored, funds>>
      BY <1>3 DEF SetEACL, accounts
    <2>3. VotesInv(Ids)'
      BY <2>1, EndsKeepVotes
    <2>4. CASE UNCHANGED eacl
      BY <2>2, <2>3, <2>4 DEF ApprovedChange
    <2>5. CASE Decides(n, RuleId(r)) /\ eacl' = [eacl EXCEPT ![r.cid] = r.rule]
      <3>1. Quorate(RuleId(r))
        BY <2>1, <2>5, DecidesIsQuorate
      <3> QED
        BY <2>1, <2>2, <2>3, <2>5, <3>1 DEF ApprovedChange
    <2> QED
      BY <1>3, <2>4, <2>5 DEF SetEACL
  <1>4. ASSUME UNCHANGED <<stored, eacl, funds>>,
               UNCHANGED voting \/ NextBlock \/ VotesInv(Ids)'
        PROVE  ContainerInv' /\ ApprovedChange
    BY <1>4, OthersKeepVotes DEF ApprovedChange
  <1>5. ASSUME NEW n \in Invokers, NEW id \in EstimationIds, SwitchEstimation(n, id)
        PROVE  ContainerInv' /\ ApprovedChange
    <2>1. id \in Ids /\ Ends(n, id) /\ UNCHANGED <<stored, eacl, funds>>
      BY <1>5, IdsOfRequests DEF SwitchEstimation, Ends, accounts
    <2> QED
      BY <1>4, <2>1, EndsKeepVotes
  <1>6. CASE \/ NextOfFrostFSID
             \/ NextByCommittee
             \/ Tick /\ UNCHANGED <<voting, stored, alias, eacl, accounts, touched>>
             \/ NextBlock /\ UNCHANGED <<nns, stored, alias, eacl, accounts, touched>>
             \/ UNCHANGED vars
    BY <1>4, <1>6 DEF NextOfFrostFSID, NextByCommittee, accounts, vars
  <1> QED
    BY <1>1, <1>2, <1>3, <1>5, <1>6 DEF Next

(* Containers come, go and get extended ACLs, and owners pay for them,     *)
(* only when a quorum has asked for that since it was last done.           *)
THEOREM OnlyTheAlphabetDecides == Spec => ContainersAreApproved
  <1>1. ContainerInv /\ [Next]_vars => ContainerInv' /\ [ApprovedChange]_vars
    BY ContainerSteps
  <1> QED
    BY ContainerInvInit, <1>1, PTL DEF Spec, ContainersAreApproved

-----------------------------------------------------------------------------
(* The ballots of FrostFSID are kept like those of any other contract. *)
KeyVotes == INSTANCE Voting_proofs WITH box <- keyBox, called <- keyCalled

KeysInv == KeyVotes!VotesInv(FID!KeyIds)

ApprovedKeys ==
    \A o \in Owners :
       /\ o \in bound' \ bound /\ funds' # funds => FID!Quorate(FID!AddKeyId(o))
       /\ o \in bound \ bound' => FID!Quorate(FID!RemoveKeyId(o))

LEMMA FiniteAlphabet == KeyVotes!IsFiniteSet(Alphabet)
  BY VotingAssumption DEF IsFiniteSet, KeyVotes!IsFiniteSet

LEMMA SameCount == \A S : FID!Cardinality(S) = KeyVotes!Cardinality(S)
  BY DEF FID!Cardinality, KeyVotes!Cardinality

LEMMA SamePending ==
    ASSUME NEW n, NEW id
    PROVE  /\ FID!Pending(n, id) <=> KeyVotes!Pending(n, id)
           /\ FID!Vote(keyBox, id, n, height) = KeyVotes!Vote(keyBox, id, n, height)
  BY SameCount DEF FID!Pending, FID!VoteCount, FID!Vote, FID!VotersWith, FID!HasVoted,
     FID!Prune, FID!Expired, FID!NoBallot, FID!Threshold,
     KeyVotes!Pending, KeyVotes!VoteCount, KeyVotes!Vote, KeyVotes!VotersWith, KeyVotes!HasVoted,
     KeyVotes!Prune, KeyVotes!Expired, KeyVotes!NoBallot, KeyVotes!Threshold

LEMMA KeysStart == Init => KeysInv
  <1> SUFFICES ASSUME Init PROVE KeysInv
    OBVIOUS
  <1>1. KeyVotes!VotingInit(FID!KeyIds)
    BY DEF Init, ContainerInit, FID!KeysInit, FID!VotingInit, FID!NoBallot,
       KeyVotes!NoBallot, KeyVotes!VotingInit
  <1> QED
    BY <1>1, VotingAssumption, FiniteAlphabet, BlockDiffAssumption, KeyVotes!VotesInit DEF KeysInv

(* How one decision of FrostFSID goes on. *)
LEMMA KeyDecisions ==
    ASSUME KeysInv, NEW n \in Invokers, NEW id \in FID!KeyIds
    PROVE  /\ FID!OnlyVotes(n, id) => KeysInv'
           /\ FID!Decides(n, id) => KeysInv' /\ FID!Quorate(id)
  <1>1. n \in KeyVotes!Invokers
    BY DEF Invokers, Multisignature, KeyVotes!Invokers, KeyVotes!Multisignature
  <1>2. ASSUME FID!OnlyVotes(n, id)
        PROVE  KeysInv'
    <2>1. KeyVotes!OnlyVotes(n, id)
      BY <1>2, SamePending DEF FID!OnlyVotes, KeyVotes!OnlyVotes
    <2> QED
      BY <1>1, <2>1, VotingAssumption, FiniteAlphabet, BlockDiffAssumption,
         KeyVotes!OnlyVotesKeepsVotes DEF KeysInv
  <1>3. ASSUME FID!Decides(n, id)
        PROVE  KeysInv' /\ FID!Quorate(id)
    <2>1. KeyVotes!Decides(n, id)
      BY <1>3, SamePending DEF FID!Decides, FID!RemoveVotes, FID!NoBallot,
         KeyVotes!Decides, KeyVotes!RemoveVotes, KeyVotes!NoBallot
    <2>2. KeysInv' /\ KeyVotes!Quorate(id)
      BY <1>1, <2>1, VotingAssumption, FiniteAlphabet, BlockDiffAssumption,
         KeyVotes!DecidesKeepsVotes, KeyVotes!DecidesIsQuorate DEF KeysInv
    <2>3. FID!Quorate(id)
      BY <2>2, SameCount DEF FID!Quorate, FID!Approved, FID!Invokers, FID!Multisignature,
         FID!Threshold, KeyVotes!Quorate, KeyVotes!Approved, KeyVotes!Invokers,
         KeyVotes!Multisignature, KeyVotes!Threshold
    <2> QED
      BY <2>2, <2>3
  <1> QED
    BY <1>2, <1>3

LEMMA KeySteps ==
    ASSUME KeysInv, [Next]_vars
    PROVE  KeysInv' /\ ApprovedKeys
  <1>1. \A o \in Owners : FID!AddKeyId(o) \in FID!KeyIds /\ FID!RemoveKeyId(o) \in FID!KeyIds
    BY DEF FID!KeyIds
  <1>2. CASE UNCHANGED <<bound, keyBox, keyCalled>> /\ height' \in {height, height + 1}
    <2>1. KeysInv'
      BY <1>2 DEF KeysInv, KeyVotes!VotesInv
    <2> QED
      BY <1>2, <2>1 DEF ApprovedKeys
  <1>3. ASSUME NEW n \in Invokers, NEW o \in Owners, FID!AddKeyIndirectly(n, o)
        PROVE  KeysInv' /\ ApprovedKeys
    <2>1. CASE FID!OnlyVotes(n, FID!AddKeyId(o)) /\ UNCHANGED bound
      BY <1>1, <2>1, KeyDecisions DEF ApprovedKeys
    <2>2. CASE FID!Decides(n, FID!AddKeyId(o)) /\ bound' = bound \union {o}
      BY <1>1, <2>2, KeyDecisions DEF ApprovedKeys
    <2> QED
      BY <1>3, <2>1, <2>2 DEF FID!AddKeyIndirectly
  <1>4. ASSUME NEW n \in Invokers, NEW o \in Owners, FID!RemoveKey(n, o)
        PROVE  KeysInv' /\ ApprovedKeys
    <2>1. CASE FID!OnlyVotes(n, FID!RemoveKeyId(o)) /\ UNCHANGED bound
      BY <1>1, <2>1, KeyDecisions DEF ApprovedKeys
    <2>2. CASE FID!Decides(n, FID!RemoveKeyId(o)) /\ bound' = bound \ {o}
      BY <1>1, <2>2, KeyDecisions DEF ApprovedKeys
    <2> QED
      BY <1>4, <2>1, <2>2 DEF FID!RemoveKey
  <1>5. ASSUME NEW n \in Invokers, NEW o \in Owners, FID!AddKeyDirectly(n, o), UNCHANGED funds
        PROVE  KeysInv' /\ ApprovedKeys
    <2>1. KeysInv'
      BY <1>5 DEF FID!AddKeyDirectly, FID!voting, KeysInv, KeyVotes!VotesInv
    <2> QED
      BY <1>5, <2>1 DEF FID!AddKeyDirectly, ApprovedKeys
  <1>6. ASSUME NEW n \in Invokers, NEW signers, NEW r \in Puts, PutNamed(n, signers, r)
        PROVE  KeysInv' /\ ApprovedKeys
    <2>1. OwnerOf[r.cid] \in Owners
      BY ContainerAssumption DEF Owners
    <2>2. UNCHANGED height
      BY <1>6 DEF PutNamed, OnlyVotes, Decides, Reverts, voting
    <2>3. UNCHANGED keys \/ FID!AddKeyIndirectly(n, OwnerOf[r.cid])
      BY <1>6 DEF PutNamed, accounts
    <2> QED
      BY <1>2, <1>3, <2>1, <2>2, <2>3 DEF keys
  <1>7. ASSUME NEW n \in Invokers, NEW signers, NEW c \in Containers, Delete(n, signers, c)
        PROVE  KeysInv' /\ ApprovedKeys
    BY <1>2, <1>7 DEF Delete, accounts, keys, OnlyVotes, Decides, Reverts, voting
  <1>8. ASSUME NEW n \in Invokers, NEW r \in Rules, SetEACL(n, r)
        PROVE  KeysInv' /\ ApprovedKeys
    BY <1>2, <1>8 DEF SetEACL, accounts, keys, OnlyVotes, Decides
  <1>9. ASSUME NEW n \in Invokers, NEW id \in EstimationIds, SwitchEstimation(n, id)
        PROVE  KeysInv' /\ ApprovedKeys
    BY <1>2, <1>9 DEF SwitchEstimation, accounts, keys, OnlyVotes, Decides
  <1>10. CASE NextOfFrostFSID
    BY <1>4, <1>5, <1>10 DEF NextOfFrostFSID
  <1>11. CASE \/ NextByCommittee
              \/ Tick /\ UNCHANGED <<voting, stored, alias, eacl, accounts, touched>>
              \/ NextBlock /\ UNCHANGED <<nns, stored, alias, eacl, accounts, touched>>
              \/ UNCHANGED vars
    BY <1>2, <1>11 DEF NextByCommittee, NextBlock, vars, accounts, keys, voting
  <1> QED
    BY <1>6, <1>7, <1>8, <1>10, <1>11, <1>9 DEF Next

(* A key that comes with a container is bound only after a quorum of Puts  *)
(* of its owner, and unbound only by a quorum for that.                    *)
THEOREM KeysNeedAQuorum == Spec => KeysAreApproved
  <1>1. KeysInv /\ [Next]_vars => KeysInv' /\ [ApprovedKeys]_vars
    BY KeySteps
  <1> QED
    BY KeysStart, <1>1, PTL DEF Spec, KeysAreApproved, ApprovedKeys

-----------------------------------------------------------------------------
Data == Containers \union {OtherData}

(* Nothing else than an untouched domain's own record tells its container, *)
(* and a domain that was never registered has no records.                  *)
AliasInv ==
    /\ time \in Nat
    /\ DOMAIN names = Domains
    /\ records \in [Domains -> [Domains -> Seq(Data)]]
    /\ alias \in [Containers -> Domains \union {NoName}]
    /\ \A c \in Containers :
          alias[c] = NoName \/ \E r \in Puts : r.cid = c /\ r.name = alias[c]
    /\ \A t, d \in Domains : \A c \in ToSet(records[t][d]) \intersect Containers :
          t = d /\ \E r \in Puts : r.cid = c /\ r.name = d
    /\ \A d \in Domains \ touched :
          /\ names[d] = Unregistered => records[d][d] = <<>>
          /\ \A c \in Containers :
                /\ alias[c] = d => c \in stored /\ records[d][d] = <<c>>
                /\ HasOneName(c) /\ c \in ToSet(records[d][d]) => alias[c] = d

(* The records of an alias are under its own token. *)
LEMMA AliasesAreShort ==
    ASSUME NEW r \in Puts, r.name # NoName
    PROVE  r.name \in Domains /\ TokenOf(r.name) = r.name /\ r.cid \in Containers
  <1>1. r.name \in Domains /\ ParentOf[r.name] = ZoneOf(r.name) /\ r.cid \in Containers
    BY ContainerAssumption
  <1> QED
    BY <1>1 DEF TokenOf, IsZone, ZoneOf

LEMMA RecordsOfNames ==
    /\ ToSet(<<>>) = {}
    /\ \A x \in Data : ToSet(<<x>>) = {x} /\ <<x>> # <<>> /\ Append(<<>>, x) = <<x>>
    /\ \A s \in Seq(Data), x \in Data :
          /\ Append(s, x) \in Seq(Data) /\ ToSet(Append(s, x)) = ToSet(s) \union {x}
          /\ Append(s, x) # <<>>
          /\ s # <<>> => Head(Append(s, x)) = Head(s)
  <1>1. ASSUME NEW s \in Seq(Data), NEW x \in Data
        PROVE  ToSet(Append(s, x)) = ToSet(s) \union {x}
    <2>1. /\ DOMAIN Append(s, x) = DOMAIN s \union {Len(s) + 1}
          /\ Append(s, x)[Len(s) + 1] = x
          /\ \A i \in DOMAIN s : Append(s, x)[i] = s[i]
      OBVIOUS
    <2> QED
      BY <2>1 DEF ToSet
  <1>2. ToSet(<<>>) = {}
    BY DEF ToSet
  <1>3. \A x \in Data : ToSet(<<x>>) = {x}
    BY DEF ToSet
  <1> QED
    BY <1>1, <1>2, <1>3

LEMMA NameStep ==
    ASSUME AliasInv, NEW r \in Puts, r.name # NoName, NameIsFree(r.name),
           Name(r.name, r.cid), stored' = stored \union {r.cid}
    PROVE  AliasInv'
  <1> DEFINE d == r.name
             c == r.cid
  <1>1. d \in Domains /\ TokenOf(d) = d /\ c \in Containers /\ c \in Data
    BY AliasesAreShort DEF Data
  <1>2. /\ records' = [records EXCEPT ![d][d] = Append(@, c)]
        /\ alias' = [alias EXCEPT ![c] = d]
        /\ time' = time /\ touched \subseteq touched'
    BY DEF Name
  <1>3. /\ records' \in [Domains -> [Domains -> Seq(Data)]]
        /\ records'[d][d] = Append(records[d][d], c)
        /\ \A t, x \in Domains : t # d \/ x # d => records'[t][x] = records[t][x]
        /\ records[d][d] \in Seq(Data)
    BY <1>1, <1>2, RecordsOfNames DEF AliasInv
  <1>4. /\ alias' \in [Containers -> Domains \union {NoName}] /\ alias'[c] = d
        /\ \A e \in Containers \ {c} : alias'[e] = alias[e]
    BY <1>1, <1>2 DEF AliasInv
  <1>5. DOMAIN names' = Domains /\ \A x \in Domains : names'[x] = Unregistered => names[x] = Unregistered /\ x # d
    <2>1. CASE IsAvailable(d)
      <3>1. names' = [names EXCEPT ![d] = [owner |-> Self, admin |-> Nobody, expiration |-> time + DefaultExpire]]
        BY <2>1 DEF Name, Take
      <3>2. Self # Nobody
        BY ContainerAssumption, NNSAssumption
      <3> QED
        BY <1>1, <3>1, <3>2 DEF AliasInv, Unregistered
    <2>2. CASE ~IsAvailable(d)
      <3>1. names' = names /\ time < names[d].expiration /\ time \in Nat
        BY <2>2 DEF Name, IsAvailable, CanRead, Alive, AliasInv
      <3> QED
        BY <1>1, <3>1 DEF AliasInv, Unregistered
    <2> QED
      BY <2>1, <2>2
  <1>6. ASSUME d \notin touched' PROVE records[d][d] = <<>>
    <2>1. CASE IsAvailable(d)
      <3>1. names[d] = Unregistered
        BY <1>6, <2>1 DEF Name
      <3> QED
        BY <1>1, <1>2, <1>6, <3>1 DEF AliasInv
    <2>2. CASE ~IsAvailable(d)
      BY <1>1, <2>2 DEF NameIsFree, Txt
    <2> QED
      BY <2>1, <2>2
  <1>7. ASSUME NEW e \in Containers
        PROVE  alias'[e] = NoName \/ \E s \in Puts : s.cid = e /\ s.name = alias'[e]
    <2>1. alias[e] = NoName \/ \E s \in Puts : s.cid = e /\ s.name = alias[e]
      BY <1>7 DEF AliasInv
    <2>2. CASE e = c
      BY <1>4, <2>2
    <2>3. CASE e # c
      <3>1. alias'[e] = alias[e]
        BY <1>4, <1>7, <2>3
      <3> QED
        BY <2>1, <3>1
    <2> QED
      BY <2>2, <2>3
  <1>8. ASSUME NEW t \in Domains, NEW x \in Domains, NEW e \in ToSet(records'[t][x]) \intersect Containers
        PROVE  t = x /\ \E s \in Puts : s.cid = e /\ s.name = x
    <2>1. CASE t = d /\ x = d /\ e = c
      BY <2>1
    <2>2. CASE ~(t = d /\ x = d /\ e = c)
      <3>1. e \in ToSet(records[t][x])
        <4>1. CASE t = d /\ x = d
          <5>1. ToSet(records'[d][d]) = ToSet(records[d][d]) \union {c}
            BY <1>1, <1>3, RecordsOfNames
          <5> QED
            BY <1>8, <2>2, <4>1, <5>1
        <4>2. CASE ~(t = d /\ x = d)
          BY <1>3, <1>8, <4>2
        <4> QED
          BY <4>1, <4>2
      <3> QED
        BY <3>1 DEF AliasInv
    <2> QED
      BY <2>1, <2>2
  <1>9. ASSUME NEW x \in Domains \ touched'
        PROVE  /\ names'[x] = Unregistered => records'[x][x] = <<>>
               /\ \A e \in Containers :
                     /\ alias'[e] = x => e \in stored' /\ records'[x][x] = <<e>>
                     /\ HasOneName(e) /\ e \in ToSet(records'[x][x]) => alias'[e] = x
    <2>1. CASE x = d
      <3>1. records'[d][d] = <<c>> /\ ToSet(records'[d][d]) = {c} /\ records[d][d] = <<>> /\ d \notin touched
        BY <1>1, <1>2, <1>3, <1>6, <2>1, RecordsOfNames
      <3>2. ASSUME NEW e \in Containers, alias'[e] = x PROVE e = c
        <4>1. CASE e # c
          <5>1. alias[e] = d /\ e \in Data /\ d \in Domains \ touched
            BY <1>1, <1>4, <2>1, <3>1, <3>2, <4>1 DEF Data
          <5>2. records[d][d] = <<e>>
            BY <3>2, <5>1 DEF AliasInv
          <5> QED
            BY <3>1, <5>1, <5>2, RecordsOfNames
        <4> QED
          BY <4>1
      <3> QED
        BY <1>4, <1>5, <2>1, <3>1, <3>2
    <2>2. CASE x # d
      <3>1. records'[x][x] = records[x][x] /\ x \notin touched /\ x # NoName
        BY <1>2, <1>3, <2>2, ContainerAssumption
      <3>2. ASSUME NEW e \in Containers, alias'[e] = x PROVE e \in stored' /\ records'[x][x] = <<e>>
        BY <1>4, <2>2, <3>1, <3>2 DEF AliasInv
      <3>3. ASSUME NEW e \in Containers, HasOneName(e), e \in ToSet(records'[x][x]) PROVE alias'[e] = x
        <4>1. alias[e] = x /\ \E s \in Puts : s.cid = e /\ s.name = x
          BY <3>1, <3>3 DEF AliasInv
        <4>2. e # c
          BY <2>2, <3>1, <3>3, <4>1 DEF HasOneName
        <4> QED
          BY <1>4, <4>1, <4>2
      <3>4. names'[x] = Unregistered => records'[x][x] = <<>>
        BY <1>5, <3>1 DEF AliasInv
      <3> QED
        BY <3>2, <3>3, <3>4
    <2> QED
      BY <2>1, <2>2
  <1> HIDE DEF c, d
  <1>10. time' \in Nat
    BY <1>2 DEF AliasInv
  <1> QED
    BY <1>3, <1>4, <1>5, <1>7, <1>8, <1>9, <1>10 DEF AliasInv

LEMMA RemoveStep ==
    ASSUME AliasInv, NEW c \in Containers, stored' = stored \ {c},
           alias' = [alias EXCEPT ![c] = NoName], records' = RecordsWithout(c),
           UNCHANGED <<time, names, touched>>
    PROVE  AliasInv'
  <1>1. /\ alias' \in [Containers -> Domains \union {NoName}] /\ alias'[c] = NoName
        /\ \A e \in Containers \ {c} : alias'[e] = alias[e]
    BY DEF AliasInv
  <1>2. \A x \in Domains : x # NoName
    BY ContainerAssumption
  <1>3. CASE UNCHANGED records /\ (alias[c] \in Domains => alias[c] \in touched)
    <2>1. ASSUME NEW x \in Domains \ touched, NEW e \in Containers
          PROVE  /\ alias'[e] = x => e \in stored' /\ records[x][x] = <<e>>
                 /\ HasOneName(e) /\ e \in ToSet(records[x][x]) => alias'[e] = x
      BY <1>1, <1>2, <1>3 DEF AliasInv
    <2> QED
      BY <1>1, <1>3, <2>1 DEF AliasInv
  <1>4. CASE alias[c] # NoName
    <2>1. PICK d \in Domains : d = alias[c] /\ TokenOf(d) = d
      BY <1>4, AliasesAreShort DEF AliasInv
    <2>2. Txt(d) = records[d][d] /\ records[d][d] \in Seq(Data)
      BY <2>1 DEF Txt, AliasInv
    <2>3. d \notin touched => records[d][d] = <<c>>
      BY <2>1 DEF AliasInv
    <2>4. CASE Answers(d, c)
      <3>1. records' = [records EXCEPT ![d][d] = <<>>]
        BY <1>4, <2>1, <2>4 DEF RecordsWithout, WithRecords
      <3>2. /\ records' \in [Domains -> [Domains -> Seq(Data)]]
            /\ records'[d][d] = <<>>
            /\ \A t, x \in Domains : t # d \/ x # d => records'[t][x] = records[t][x]
        BY <3>1 DEF AliasInv
      <3>3. ASSUME NEW t \in Domains, NEW x \in Domains, NEW e \in ToSet(records'[t][x]) \intersect Containers
            PROVE  t = x /\ \E s \in Puts : s.cid = e /\ s.name = x
        <4>1. t # d \/ x # d
          BY <3>2, <3>3, RecordsOfNames
        <4>2. e \in ToSet(records[t][x]) \intersect Containers
          BY <3>2, <3>3, <4>1
        <4> QED
          BY <4>2 DEF AliasInv
      <3>4. ASSUME NEW x \in Domains \ touched
            PROVE  /\ names'[x] = Unregistered => records'[x][x] = <<>>
                   /\ \A e \in Containers :
                         /\ alias'[e] = x => e \in stored' /\ records'[x][x] = <<e>>
                         /\ HasOneName(e) /\ e \in ToSet(records'[x][x]) => alias'[e] = x
        <4>1. CASE x = d
          <5>1. ASSUME NEW e \in Containers, alias'[e] = x PROVE FALSE
            <6>1. e # c /\ alias[e] = x
              BY <1>1, <1>2, <5>1
            <6>2. <<e>> = <<c>> /\ e \in Data /\ c \in Data
              BY <2>3, <4>1, <6>1 DEF AliasInv, Data
            <6>3. {e} = {c}
              BY <6>2, RecordsOfNames
            <6> QED
              BY <6>1, <6>3
          <5> QED
            BY <3>2, <4>1, <5>1, RecordsOfNames
        <4>2. CASE x # d
          <5>1. records'[x][x] = records[x][x]
            BY <3>2, <4>2
          <5> QED
            BY <1>1, <1>2, <2>1, <4>2, <5>1 DEF AliasInv
        <4> QED
          BY <4>1, <4>2
      <3>5. ASSUME NEW e \in Containers
            PROVE  alias'[e] = NoName \/ \E r \in Puts : r.cid = e /\ r.name = alias'[e]
        BY <1>1 DEF AliasInv
      <3>6. time' \in Nat /\ DOMAIN names' = Domains
        BY DEF AliasInv
      <3> QED
        BY <1>1, <3>2, <3>3, <3>4, <3>5, <3>6 DEF AliasInv
    <2>5. CASE ~Answers(d, c)
      <3>1. records' = records
        BY <2>1, <2>5 DEF RecordsWithout
      <3>2. d \in touched
        <4>1. CASE d \notin touched
          <5>1. records[d][d] = <<c>>
            BY <2>3, <4>1
          <5>2. <<c>> # <<>> /\ Head(<<c>>) = c
            OBVIOUS
          <5> QED
            BY <2>2, <2>5, <5>1, <5>2 DEF Answers
        <4> QED
          BY <4>1
      <3> QED
        BY <1>3, <2>1, <3>1, <3>2
    <2> QED
      BY <2>4, <2>5
  <1>5. CASE alias[c] = NoName
    BY <1>2, <1>3, <1>5 DEF RecordsWithout
  <1> QED
    BY <1>4, <1>5

(* What others do in NNS, and what leaves the aliases alone. *)
LEMMA OthersStep ==
    ASSUME AliasInv, UNCHANGED alias, stored \subseteq stored', time' \in Nat,
           DOMAIN names' = Domains, touched \subseteq touched',
           \A d \in Domains : names'[d] = Unregistered => names[d] = Unregistered,
           UNCHANGED records \/
             \E t \in Domains, d \in touched' \intersect Domains, s \in Seq(Data) :
                /\ records' = [records EXCEPT ![t][d] = s]
                /\ ToSet(s) \subseteq ToSet(records[t][d]) \union {OtherData}
    PROVE  AliasInv'
  <1>1. CASE UNCHANGED records
    BY <1>1 DEF AliasInv
  <1>2. ASSUME NEW t \in Domains, NEW d \in touched' \intersect Domains, NEW s \in Seq(Data),
               records' = [records EXCEPT ![t][d] = s],
               ToSet(s) \subseteq ToSet(records[t][d]) \union {OtherData}
        PROVE  AliasInv'
    <2>1. /\ records' \in [Domains -> [Domains -> Seq(Data)]]
          /\ \A u, x \in Domains : u # t \/ x # d => records'[u][x] = records[u][x]
          /\ records'[t][d] = s
      BY <1>2 DEF AliasInv
    <2>2. ASSUME NEW u \in Domains, NEW x \in Domains, NEW e \in ToSet(records'[u][x]) \intersect Containers
          PROVE  e \in ToSet(records[u][x])
      BY <1>2, <2>1, <2>2, ContainerAssumption
    <2>3. \A x \in Domains \ touched' : records'[x][x] = records[x][x] /\ x \notin touched
      BY <2>1
    <2>4. ASSUME NEW u \in Domains, NEW x \in Domains, NEW e \in ToSet(records'[u][x]) \intersect Containers
          PROVE  u = x /\ \E r \in Puts : r.cid = e /\ r.name = x
      <3>1. e \in ToSet(records[u][x]) \intersect Containers
        BY <2>2, <2>4
      <3> QED
        BY <3>1 DEF AliasInv
    <2>5. ASSUME NEW x \in Domains \ touched'
          PROVE  /\ names'[x] = Unregistered => records'[x][x] = <<>>
                 /\ \A c \in Containers :
                       /\ alias'[c] = x => c \in stored' /\ records'[x][x] = <<c>>
                       /\ HasOneName(c) /\ c \in ToSet(records'[x][x]) => alias'[c] = x
      <3>1. records'[x][x] = records[x][x] /\ x \in Domains \ touched
        BY <2>3
      <3>2. names'[x] = Unregistered => records[x][x] = <<>>
        BY <3>1 DEF AliasInv
      <3>3. \A c \in Containers :
               /\ alias[c] = x => c \in stored /\ records[x][x] = <<c>>
               /\ HasOneName(c) /\ c \in ToSet(records[x][x]) => alias[c] = x
        BY <3>1 DEF AliasInv
      <3> QED
        BY <3>1, <3>2, <3>3
    <2>6. /\ alias' \in [Containers -> Domains \union {NoName}]
          /\ \A c \in Containers :
                alias'[c] = NoName \/ \E r \in Puts : r.cid = c /\ r.name = alias'[c]
      BY DEF AliasInv
    <2> QED
      BY <2>1, <2>4, <2>5, <2>6 DEF AliasInv
  <1> QED
    BY <1>1, <1>2

LEMMA AliasSteps ==
    ASSUME AliasInv, [Next]_vars
    PROVE  AliasInv'
  <1>1. ASSUME NEW n, NEW signers, NEW r \in Puts, PutNamed(n, signers, r)
        PROVE  AliasInv'
    <2>1. CASE UNCHANGED <<nns, stored, alias, touched>>
      BY <2>1, OthersStep DEF nns, AliasInv
    <2>2. CASE stored' = stored \union {r.cid} /\ UNCHANGED <<nns, alias, touched>>
      BY <2>2, OthersStep DEF nns, AliasInv
    <2>3. CASE stored' = stored \union {r.cid} /\ r.name # NoName /\ NameIsFree(r.name) /\ Name(r.name, r.cid)
      BY <2>3, NameStep
    <2> QED
      BY <1>1, <2>1, <2>2, <2>3 DEF PutNamed
  <1>2. ASSUME NEW n, NEW signers, NEW c \in Containers, Delete(n, signers, c)
        PROVE  AliasInv'
    <2>1. CASE UNCHANGED <<nns, stored, alias, touched>>
      BY <2>1, OthersStep DEF nns, AliasInv
    <2>2. CASE /\ stored' = stored \ {c} /\ alias' = [alias EXCEPT ![c] = NoName]
               /\ records' = RecordsWithout(c) /\ UNCHANGED <<time, names, touched>>
      BY <2>2, RemoveStep
    <2> QED
      BY <1>2, <2>1, <2>2 DEF Delete, nns
  <1>3. CASE NextByCommittee
    <2> PICK d \in Domains :
          \/ /\ Register(d, Committee, {Committee}, Year)
             /\ touched' = IF names[d] = Unregistered THEN touched ELSE touched \union {d}
          \/ Renew(d, {Committee}) /\ UNCHANGED touched
          \/ /\ AddRecord(d, OtherData, {Committee}) \/ DeleteRecords(d, {Committee})
             /\ touched' = touched \union {d}
      BY <1>3 DEF NextByCommittee
    <2> UNCHANGED <<alias, stored>>
      BY <1>3 DEF NextByCommittee
    <2>1. Committee # Nobody
      BY ContainerAssumption, NNSAssumption
    <2>2. CASE Register(d, Committee, {Committee}, Year) /\ touched \subseteq touched'
      <3>1. /\ names' = [names EXCEPT ![d] =
                           [owner |-> Committee, admin |-> Nobody, expiration |-> time + Year]]
            /\ UNCHANGED <<time, records>>
        BY <2>2 DEF Register, Take
      <3>2. /\ DOMAIN names' = Domains
            /\ \A x \in Domains : names'[x] = Unregistered => names[x] = Unregistered
        BY <2>1, <3>1 DEF AliasInv, Unregistered
      <3> QED
        BY <2>2, <3>1, <3>2, OthersStep DEF AliasInv
    <2>3. CASE Renew(d, {Committee}) /\ UNCHANGED touched
      <3>1. /\ names' = [names EXCEPT ![d].expiration = @ + Year]
            /\ UNCHANGED <<time, records>> /\ CanRead(d)
        BY <2>3 DEF Renew
      <3>2. names[d] # Unregistered /\ Committee \in {names[d].owner, names[d].admin}
        BY <2>1, <2>3 DEF Renew, IsAdmin, Unregistered
      <3>3. /\ DOMAIN names' = Domains
            /\ names'[d].owner = names[d].owner /\ names'[d].admin = names[d].admin
            /\ \A x \in Domains \ {d} : names'[x] = names[x]
        BY <3>1 DEF AliasInv
      <3>4. names'[d] # Unregistered
        BY <2>1, <3>2, <3>3 DEF Unregistered
      <3> QED
        BY <2>3, <3>1, <3>3, <3>4, OthersStep DEF AliasInv
    <2>4. CASE /\ AddRecord(d, OtherData, {Committee}) \/ DeleteRecords(d, {Committee})
               /\ touched' = touched \union {d}
      <3>1. PICK t \in Domains : t = TokenOf(d)
        BY NNSAssumption DEF TokenOf
      <3>2. records[t][d] \in Seq(Data) /\ OtherData \in Data
        BY DEF AliasInv, Data
      <3>3. \/ records' = [records EXCEPT ![t][d] = Append(records[t][d], OtherData)]
            \/ records' = [records EXCEPT ![t][d] = <<>>]
        BY <2>4, <3>1 DEF AddRecord, DeleteRecords, WithRecords, Txt
      <3>4. UNCHANGED <<time, names>> /\ d \in touched' \intersect Domains
        BY <2>4 DEF AddRecord, DeleteRecords
      <3>5. PICK s : /\ s \in Seq(Data)
                     /\ records' = [records EXCEPT ![t][d] = s]
                     /\ ToSet(s) \subseteq ToSet(records[t][d]) \union {OtherData}
        <4>1. CASE records' = [records EXCEPT ![t][d] = Append(records[t][d], OtherData)]
          <5>1. /\ Append(records[t][d], OtherData) \in Seq(Data)
                /\ ToSet(Append(records[t][d], OtherData)) = ToSet(records[t][d]) \union {OtherData}
            BY <3>2, RecordsOfNames
          <5> QED
            BY <4>1, <5>1
        <4>2. CASE records' = [records EXCEPT ![t][d] = <<>>]
          <5>1. <<>> \in Seq(Data) /\ ToSet(<<>>) = {}
            BY RecordsOfNames
          <5> QED
            BY <4>2, <5>1
        <4> QED
          BY <3>3, <4>1, <4>2
      <3>6. /\ time' \in Nat /\ DOMAIN names' = Domains /\ touched \subseteq touched'
            /\ \A x \in Domains : names'[x] = Unregistered => names[x] = Unregistered
        BY <2>4, <3>4 DEF AliasInv
      <3> QED
        BY <3>4, <3>5, <3>6, OthersStep
    <2> QED
      BY <2>2, <2>3, <2>4
  <1>4. CASE Tick /\ UNCHANGED <<stored, alias, touched>>
    BY <1>4, OthersStep DEF Tick, AliasInv
  <1>5. CASE UNCHANGED <<nns, stored, alias, touched>>
    BY <1>5, OthersStep DEF nns, AliasInv
  <1> QED
    BY <1>1, <1>2, <1>3, <1>4, <1>5 DEF Next, SetEACL, SwitchEstimation, NextOfFrostFSID, vars

LEMMA AliasesStart ==
    ASSUME ContainerInit
    PROVE  AliasInv
  <1>1. /\ time = 0 /\ alias = [c \in Containers |-> NoName] /\ DOMAIN names = Domains
        /\ records = [t \in Domains |-> [d \in Domains |-> <<>>]]
    BY DEF ContainerInit, WithOwnZone
  <1>2. \A t, d \in Domains : records[t][d] = <<>> /\ ToSet(records[t][d]) = {}
    BY <1>1, RecordsOfNames
  <1>3. \A d \in Domains : d # NoName
    BY ContainerAssumption
  <1>4. records \in [Domains -> [Domains -> Seq(Data)]]
    BY <1>1
  <1> QED
    BY <1>1, <1>2, <1>3, <1>4 DEF AliasInv

LEMMA AliasesAgree == AliasInv => AliasesMatchRecords
  <1> SUFFICES ASSUME AliasInv, NEW c \in Containers, NEW d \in Domains \ touched
               PROVE  /\ alias[c] = d => c \in stored /\ Txt(d) = <<c>>
                      /\ HasOneName(c) /\ c \in ToSet(Txt(d)) => alias[c] = d
    BY DEF AliasesMatchRecords
  <1>1. ASSUME alias[c] = d PROVE c \in stored /\ Txt(d) = <<c>>
    <2>1. PICK r \in Puts : r.name = d
      BY <1>1, ContainerAssumption DEF AliasInv
    <2>2. TokenOf(d) = d
      BY <2>1, AliasesAreShort, ContainerAssumption
    <2> QED
      BY <1>1, <2>2 DEF AliasInv, Txt
  <1>2. ASSUME HasOneName(c), c \in ToSet(Txt(d)) PROVE alias[c] = d
    <2>1. TokenOf(d) \in Domains
      BY NNSAssumption DEF TokenOf
    <2>2. TokenOf(d) = d
      BY <1>2, <2>1 DEF AliasInv, Txt
    <2> QED
      BY <1>2, <2>2 DEF AliasInv, Txt
  <1> QED
    BY <1>1, <1>2

(* The alias keys of the contract and the records of NNS tell the same as  *)
(* long as nobody else has had the domain, for any domains, requests,      *)
(* votes and times.                                                        *)
THEOREM AliasesTellTheSame == Spec => []AliasesMatchRecords
  <1>1. Init => AliasInv
    BY AliasesStart DEF Init
  <1>2. AliasInv /\ [Next]_vars => AliasInv'
    BY AliasSteps
  <1> QED
    BY <1>1, <1>2, AliasesAgree, PTL DEF Spec

-----------------------------------------------------------------------------
(* Names of two fragments have one token, so that no step hides what a     *)
(* domain answers.  (Registering a domain hides what has been stored under *)
(* the expired token of a name below it.)                                  *)
KeptRecords(d) ==
    \/ IsPrefix(Txt(d), Txt(d)')
    \/ \E c \in stored \ stored' : alias[c] = d /\ Answers(d, c) /\ Txt(d)' = <<>>

KeptNames == <<stored, alias, funds>>' # <<stored, alias, funds>> => \A d \in Domains : KeptRecords(d)

KeptName(d) == <<stored, alias, funds>>' # <<stored, alias, funds>> => KeptRecords(d)

LEMMA LongerLists ==
    ASSUME NEW S, NEW s \in Seq(S), NEW x \in S
    PROVE  IsPrefix(s, s) /\ IsPrefix(s, Append(s, x))
  BY DEF IsPrefix

LEMMA NamesAreKept ==
    ASSUME \A x \in Domains : ParentOf[x] = ZoneOf(x), AliasInv, [Next]_vars, NEW d \in Domains
    PROVE  KeptName(d)
  <1>1. TokenOf(d) = d /\ TokenOf(d)' = d
    BY DEF TokenOf, IsZone, ZoneOf
  <1>2. Txt(d) = records[d][d] /\ Txt(d)' = records'[d][d] /\ records[d][d] \in Seq(Data)
    BY <1>1 DEF Txt, AliasInv
  <1>3. ASSUME records'[d][d] = records[d][d] PROVE KeptRecords(d)
    <2>1. IsPrefix(records[d][d], records[d][d])
      BY <1>2 DEF IsPrefix
    <2> QED
      BY <1>2, <1>3, <2>1 DEF KeptRecords
  <1>4. ASSUME NEW r \in Puts, r.name # NoName, Name(r.name, r.cid)
        PROVE  KeptRecords(d)
    <2>1. r.name \in Domains /\ r.cid \in Data
      BY <1>4, AliasesAreShort DEF Data
    <2>2. records' = [records EXCEPT ![r.name][r.name] = Append(@, r.cid)]
      BY <1>4 DEF Name
    <2>3. records'[d][d] \in {records[d][d], Append(records[d][d], r.cid)}
      BY <2>1, <2>2 DEF AliasInv
    <2>4. IsPrefix(records[d][d], Append(records[d][d], r.cid))
      BY <1>2, <2>1, LongerLists
    <2> QED
      BY <1>2, <1>3, <2>3, <2>4 DEF KeptRecords
  <1>5. ASSUME NEW c \in Containers, c \in stored, stored' = stored \ {c}, records' = RecordsWithout(c)
        PROVE  KeptRecords(d)
    <2>1. CASE alias[c] # NoName /\ Answers(alias[c], c)
      <3> PICK r \in Puts : r.cid = c /\ r.name = alias[c]
        BY <2>1 DEF AliasInv
      <3>1. PICK x \in Domains : x = alias[c] /\ TokenOf(x) = x
        BY <2>1, AliasesAreShort
      <3>2. records' = [records EXCEPT ![x][x] = <<>>]
        BY <1>5, <2>1, <3>1 DEF RecordsWithout, WithRecords
      <3>3. CASE x = d
        <4>1. records'[d][d] = <<>>
          BY <3>2, <3>3 DEF AliasInv
        <4>2. c \in stored \ stored'
          BY <1>5
        <4> QED
          BY <1>2, <2>1, <3>1, <3>3, <4>1, <4>2 DEF KeptRecords
      <3>4. CASE x # d
        <4>1. records'[d][d] = records[d][d]
          BY <3>2, <3>4 DEF AliasInv
        <4> QED
          BY <1>3, <4>1
      <3> QED
        BY <3>3, <3>4
    <2>2. CASE ~(alias[c] # NoName /\ Answers(alias[c], c))
      BY <1>3, <1>5, <2>2 DEF RecordsWithout
    <2> QED
      BY <2>1, <2>2
  <1>6. ASSUME NEW n, NEW signers, NEW r \in Puts, PutNamed(n, signers, r)
        PROVE  KeptRecords(d)
    <2>1. UNCHANGED nns \/ (r.name # NoName /\ Name(r.name, r.cid))
      BY <1>6 DEF PutNamed
    <2> QED
      BY <1>3, <1>4, <2>1 DEF nns
  <1>7. ASSUME NEW n, NEW signers, NEW c \in Containers, Delete(n, signers, c)
        PROVE  KeptRecords(d)
    BY <1>3, <1>5, <1>7 DEF Delete
  <1>8. CASE UNCHANGED <<stored, alias, funds>>
    BY <1>8 DEF KeptName
  <1>9. KeptRecords(d) => KeptName(d)
    BY DEF KeptName
  <1> QED
    BY <1>6, <1>7, <1>8, <1>9
       DEF Next, SetEACL, SwitchEstimation, NextOfFrostFSID, NextByCommittee, accounts, vars

(* Putting, putting again and deleting containers takes a record from no   *)
(* domain, but the deletion of the container that answers first for the    *)
(* domain of its alias: for any domains of two fragments.                  *)
THEOREM OthersKeepNames ==
    ASSUME \A d \in Domains : ParentOf[d] = ZoneOf(d)
    PROVE  Spec => OthersKeepTheirNames
  <1>1. Init => AliasInv
    BY AliasesStart DEF Init
  <1>2. AliasInv /\ [Next]_vars => AliasInv' /\ [KeptNames]_vars
    BY AliasSteps, NamesAreKept DEF KeptName, KeptNames
  <1> QED
    BY <1>1, <1>2, PTL DEF Spec, OthersKeepTheirNames, KeptNames, KeptRecords

-----------------------------------------------------------------------------
(* What the other invariants do not tell of the types. *)
TablesOK ==
    /\ VotingTypeOK(Ids)
    /\ time \in 0..MaxTime
    /\ names \in [Domains -> [owner : {Nobody, Self, Committee}, admin : {Nobody}, expiration : Nat]]
    /\ stored \subseteq Containers
    /\ eacl \in [Containers -> {r.rule : r \in Rules} \union {NoRule}]
    /\ funds \in [Owners \union Alphabet -> Nat]
    /\ bound \subseteq Owners
    /\ keyCalled \subseteq Invokers \X FID!KeyIds
    /\ touched \subseteq Domains

LEMMA Monotonic ==
    ASSUME NEW f \in Nat, NEW a \in Nat, NEW b \in Nat, a <= b
    PROVE  f * a \in Nat /\ f * a <= f * b
  <1>1. PICK k \in Nat : b = a + k
    <2>1. b - a \in Nat /\ b = a + (b - a)
      OBVIOUS
    <2> QED
      BY <2>1
  <1>2. f * b = f * a + f * k
    BY <1>1
  <1>3. f * a \in Nat /\ f * k \in Nat
    OBVIOUS
  <1> QED
    BY <1>2, <1>3

(* Nobody pays more than it has, also when the fee goes back to the owner. *)
LEMMA PaidFromFunds ==
    ASSUME funds \in [Owners \union Alphabet -> Nat], NEW r \in Puts, CanAfford(r)
    PROVE  Paid(r) \in [Owners \union Alphabet -> Nat]
  <1> DEFINE fee == Fee(r)
             others(a) == Cardinality(Alphabet \ {a})
             size == Cardinality(Alphabet)
  <1>1. fee \in Nat
    BY ContainerAssumption DEF Fee
  <1>2. size \in Nat /\ \A a : others(a) \in Nat /\ others(a) <= size
    <2>1. ASSUME NEW a PROVE others(a) \in Nat /\ others(a) <= size
      <3>1. Alphabet \ {a} \subseteq Alphabet
        OBVIOUS
      <3> QED
        BY <3>1, VotingAssumption, FS_Subset, FS_CardinalityType
    <2> QED
      BY <2>1, VotingAssumption, FS_CardinalityType
  <1>3. OwnerOf[r.cid] \in Owners
    BY ContainerAssumption DEF Owners
  <1>4. funds[OwnerOf[r.cid]] >= fee * size
    BY DEF CanAfford
  <1> HIDE DEF fee, others, size
  <1> DEFINE total(a) == fee * others(a)
  <1>5. \A a : total(a) \in Nat /\ total(a) <= fee * size
    BY <1>1, <1>2, Monotonic
  <1>6. fee * size \in Nat
    BY <1>1, <1>2, Monotonic
  <1>7. Paid(r) = [a \in Owners \union Alphabet |->
                     IF a = OwnerOf[r.cid] THEN funds[a] - total(a)
                     ELSE IF a \in Alphabet THEN funds[a] + fee ELSE funds[a]]
    BY DEF Paid, fee, others
  <1> HIDE DEF total
  <1>8. funds[OwnerOf[r.cid]] - total(OwnerOf[r.cid]) \in Nat
    <2>1. \A x, y, z \in Nat : x >= y /\ z <= y => x - z \in Nat
      OBVIOUS
    <2> QED
      BY <1>3, <1>4, <1>5, <1>6, <2>1
  <1> QED
    BY <1>1, <1>7, <1>8

(* A domain that is registered, renewed or left alone. *)
LEMMA NamesStayTyped ==
    ASSUME TablesOK, time \in Nat, NEW d \in Domains,
           \/ \E o \in {Self, Committee}, e \in Nat : Take(d, o, e)
           \/ names' = [names EXCEPT ![d].expiration = @ + Year]
           \/ UNCHANGED names
    PROVE  names' \in [Domains -> [owner : {Nobody, Self, Committee}, admin : {Nobody}, expiration : Nat]]
  <1>1. ASSUME NEW o \in {Self, Committee}, NEW e \in Nat, Take(d, o, e)
        PROVE  names' \in [Domains -> [owner : {Nobody, Self, Committee}, admin : {Nobody}, expiration : Nat]]
    BY <1>1 DEF TablesOK, Take
  <1>2. CASE names' = [names EXCEPT ![d].expiration = @ + Year]
    BY <1>2, NNSAssumption DEF TablesOK
  <1> QED
    BY <1>1, <1>2 DEF TablesOK

LEMMA KeysStayTyped ==
    ASSUME TablesOK, NEW n \in Invokers, NEW o \in Owners,
           UNCHANGED keys \/ FID!AddKeyIndirectly(n, o) \/ FID!AddKeyDirectly(n, o) \/ FID!RemoveKey(n, o)
    PROVE  bound' \subseteq Owners /\ keyCalled' \subseteq Invokers \X FID!KeyIds
  <1>1. FID!AddKeyId(o) \in FID!KeyIds /\ FID!RemoveKeyId(o) \in FID!KeyIds
    BY DEF FID!KeyIds
  <1>2. bound \subseteq Owners /\ keyCalled \subseteq Invokers \X FID!KeyIds
    BY DEF TablesOK
  <1>3. ASSUME NEW id \in FID!KeyIds, FID!OnlyVotes(n, id) \/ FID!Decides(n, id)
        PROVE  keyCalled' \subseteq Invokers \X FID!KeyIds
    BY <1>2, <1>3 DEF FID!OnlyVotes, FID!Decides
  <1>4. CASE UNCHANGED keys
    BY <1>2, <1>4 DEF keys, FID!voting
  <1>5. CASE FID!AddKeyIndirectly(n, o)
    <2>1. /\ bound' = bound \/ bound' = bound \union {o}
          /\ FID!OnlyVotes(n, FID!AddKeyId(o)) \/ FID!Decides(n, FID!AddKeyId(o))
      BY <1>5 DEF FID!AddKeyIndirectly
    <2> QED
      BY <1>1, <1>2, <1>3, <2>1
  <1>6. CASE FID!AddKeyDirectly(n, o)
    BY <1>2, <1>6 DEF FID!AddKeyDirectly, FID!voting
  <1>7. CASE FID!RemoveKey(n, o)
    <2>1. /\ bound' = bound \/ bound' = bound \ {o}
          /\ FID!OnlyVotes(n, FID!RemoveKeyId(o)) \/ FID!Decides(n, FID!RemoveKeyId(o))
      BY <1>7 DEF FID!RemoveKey
    <2> QED
      BY <1>1, <1>2, <1>3, <2>1
  <1> QED
    BY <1>4, <1>5, <1>6, <1>7

LEMMA TablesStep ==
    ASSUME ContainerInv, AliasInv, TablesOK, [Next]_vars
    PROVE  TablesOK'
  <1>1. VotesInv(Ids) /\ time \in Nat
    BY DEF ContainerInv, AliasInv
  <1>2. ASSUME NEW n \in Invokers, NEW signers, NEW r \in Puts, PutNamed(n, signers, r)
        PROVE  TablesOK'
    <2>1. PutId(r.cid) \in Ids /\ r.cid \in Containers /\ Ends(n, PutId(r.cid))
      BY <1>2, IdsOfRequests DEF PutNamed, Ends
    <2>2. VotingTypeOK(Ids)'
      BY <1>1, <2>1, EndsKeepTypes DEF TablesOK
    <2>3. UNCHANGED time /\ UNCHANGED eacl
      BY <1>2 DEF PutNamed, Name, nns
    <2>4. UNCHANGED <<names, touched>> \/ (r.name # NoName /\ Name(r.name, r.cid))
      BY <1>2 DEF PutNamed, nns
    <2>5. names' \in [Domains -> [owner : {Nobody, Self, Committee}, admin : {Nobody}, expiration : Nat]]
      <3>1. CASE r.name # NoName /\ Name(r.name, r.cid)
        <4>1. r.name \in Domains /\ DefaultExpire \in Nat
          BY <3>1, AliasesAreShort, ContainerAssumption
        <4>2. Take(r.name, Self, DefaultExpire) \/ UNCHANGED names
          BY <3>1 DEF Name
        <4> QED
          BY <1>1, <4>1, <4>2, NamesStayTyped
      <3> QED
        BY <2>4, <3>1 DEF TablesOK
    <2>6. touched' \subseteq Domains
      <3>1. CASE r.name # NoName /\ Name(r.name, r.cid)
        BY <3>1, AliasesAreShort DEF Name, TablesOK
      <3> QED
        BY <2>4, <3>1 DEF TablesOK
    <2>7. stored' \subseteq Containers
      BY <1>2, <2>1 DEF PutNamed, TablesOK
    <2>8. funds' \in [Owners \union Alphabet -> Nat]
      <3>1. CanAfford(r) /\ (funds' = funds \/ funds' = Paid(r))
        BY <1>2 DEF PutNamed, accounts
      <3> QED
        BY <3>1, PaidFromFunds DEF TablesOK
    <2>9. bound' \subseteq Owners /\ keyCalled' \subseteq Invokers \X FID!KeyIds
      <3>1. OwnerOf[r.cid] \in Owners
        BY ContainerAssumption DEF Owners
      <3>2. UNCHANGED keys \/ FID!AddKeyIndirectly(n, OwnerOf[r.cid])
        BY <1>2 DEF PutNamed, accounts
      <3> QED
        BY <3>1, <3>2, KeysStayTyped
    <2> QED
      BY <2>2, <2>3, <2>5, <2>6, <2>7, <2>8, <2>9 DEF TablesOK
  <1>3. ASSUME NEW n \in Invokers, NEW signers, NEW c \in Containers, Delete(n, signers, c)
        PROVE  TablesOK'
    <2>1. DeleteId(c) \in Ids /\ Ends(n, DeleteId(c))
      BY <1>3, IdsOfRequests DEF Delete, Ends
    <2>2. VotingTypeOK(Ids)'
      BY <1>1, <2>1, EndsKeepTypes DEF TablesOK
    <2>3. UNCHANGED <<time, names, eacl, funds, bound, keyCalled, touched>> /\ stored' \subseteq stored
      BY <1>3 DEF Delete, accounts, keys
    <2> QED
      BY <2>2, <2>3 DEF TablesOK
  <1>4. ASSUME NEW n \in Invokers, NEW r \in Rules, SetEACL(n, r)
        PROVE  TablesOK'
    <2>1. RuleId(r) \in Ids /\ r.cid \in Containers /\ Ends(n, RuleId(r))
      BY <1>4, IdsOfRequests DEF SetEACL, Ends
    <2>2. VotingTypeOK(Ids)'
      BY <1>1, <2>1, EndsKeepTypes DEF TablesOK
    <2>3. UNCHANGED <<time, names, stored, funds, bound, keyCalled, touched>>
      BY <1>4 DEF SetEACL, nns, accounts, keys
    <2>4. eacl' \in [Containers -> {q.rule : q \in Rules} \union {NoRule}]
      BY <1>4, <2>1 DEF SetEACL, TablesOK
    <2> QED
      BY <2>2, <2>3, <2>4 DEF TablesOK
  <1>5. ASSUME NEW n \in Invokers, NEW id \in EstimationIds, SwitchEstimation(n, id)
        PROVE  TablesOK'
    <2>1. id \in Ids /\ Ends(n, id)
      BY <1>5, IdsOfRequests DEF SwitchEstimation, Ends
    <2>2. VotingTypeOK(Ids)'
      BY <1>1, <2>1, EndsKeepTypes DEF TablesOK
    <2>3. UNCHANGED <<time, names, stored, eacl, funds, bound, keyCalled, touched>>
      BY <1>5 DEF SwitchEstimation, nns, accounts, keys
    <2> QED
      BY <2>2, <2>3 DEF TablesOK
  <1>6. CASE NextOfFrostFSID
    <2>1. PICK n \in Invokers, o \in Owners : FID!AddKeyDirectly(n, o) \/ FID!RemoveKey(n, o)
      BY <1>6 DEF NextOfFrostFSID
    <2>2. UNCHANGED <<voting, time, names, stored, eacl, funds, touched>>
      BY <1>6 DEF NextOfFrostFSID, nns
    <2>3. VotingTypeOK(Ids)'
      BY <2>2, OthersKeepTypes DEF TablesOK
    <2> QED
      BY <2>1, <2>2, <2>3, KeysStayTyped DEF TablesOK
  <1>7. CASE NextByCommittee
    <2>1. UNCHANGED <<voting, stored, eacl, funds, bound, keyCalled>>
      BY <1>7 DEF NextByCommittee, accounts, keys
    <2>2. VotingTypeOK(Ids)'
      BY <2>1, OthersKeepTypes DEF TablesOK
    <2>3. PICK d \in Domains :
            /\ UNCHANGED time /\ touched' \subseteq touched \union {d}
            /\ \/ Take(d, Committee, Year)
               \/ names' = [names EXCEPT ![d].expiration = @ + Year]
               \/ UNCHANGED names
      BY <1>7 DEF NextByCommittee, Register, Renew, AddRecord, DeleteRecords
    <2>4. names' \in [Domains -> [owner : {Nobody, Self, Committee}, admin : {Nobody}, expiration : Nat]]
      BY <1>1, <2>3, NamesStayTyped, NNSAssumption
    <2> QED
      BY <2>1, <2>2, <2>3, <2>4 DEF TablesOK
  <1>8. CASE Tick /\ UNCHANGED <<voting, stored, alias, eacl, accounts, touched>>
    <2>1. VotingTypeOK(Ids)'
      BY <1>8, OthersKeepTypes DEF TablesOK
    <2>2. UNCHANGED <<names, stored, eacl, funds, bound, keyCalled, touched>> /\ time' \in 0..MaxTime
      BY <1>8, NNSAssumption DEF Tick, accounts, keys, TablesOK
    <2> QED
      BY <2>1, <2>2 DEF TablesOK
  <1>9. CASE \/ NextBlock /\ UNCHANGED <<nns, stored, alias, eacl, accounts, touched>>
            \/ UNCHANGED vars
    <2>1. VotingTypeOK(Ids)'
      BY <1>9, OthersKeepTypes DEF TablesOK, vars
    <2>2. UNCHANGED <<time, names, stored, eacl, funds, bound, keyCalled, touched>>
      BY <1>9 DEF vars, nns, accounts, keys
    <2> QED
      BY <2>1, <2>2 DEF TablesOK
  <1> QED
    BY <1>2, <1>3, <1>4, <1>5, <1>6, <1>7, <1>8, <1>9 DEF Next

LEMMA TablesStart == Init => TablesOK
  <1> SUFFICES ASSUME Init PROVE TablesOK
    OBVIOUS
  <1>1. VotingTypeOK(Ids)
    BY VotingAssumption DEF Init, VotingInit, VotingTypeOK, NoBallot
  <1>2. /\ time \in 0..MaxTime
        /\ names \in [Domains -> [owner : {Nobody, Self, Committee}, admin : {Nobody}, expiration : Nat]]
    BY NNSAssumption, ContainerAssumption DEF Init, ContainerInit, WithOwnZone, Unregistered
  <1>3. /\ stored = {} /\ touched = {} /\ bound = {} /\ keyCalled = {}
        /\ eacl \in [Containers -> {r.rule : r \in Rules} \union {NoRule}]
    BY DEF Init, ContainerInit, FID!KeysInit, FID!VotingInit
  <1>4. funds \in [Owners \union Alphabet -> Nat]
    BY ContainerAssumption DEF Init, ContainerInit
  <1> QED
    BY <1>1, <1>2, <1>3, <1>4 DEF TablesOK

LEMMA TablesTell == ContainerInv /\ AliasInv /\ KeysInv /\ TablesOK => TypeOK
  <1> SUFFICES ASSUME ContainerInv, AliasInv, KeysInv, TablesOK PROVE TypeOK
    OBVIOUS
  <1>1. \A d \in Domains : ToSet(Txt(d)) \subseteq Containers \union {OtherData}
    <2> TAKE d \in Domains
    <2>1. TokenOf(d) \in Domains
      BY NNSAssumption DEF TokenOf
    <2>2. Txt(d) \in Seq(Data)
      BY <2>1 DEF AliasInv, Txt
    <2> QED
      BY <2>2 DEF ToSet, Data
  <1>2. alias \in [Containers -> Domains \union {NoName}]
    BY DEF AliasInv
  <1>3. FID!VotingTypeOK(FID!KeyIds)
    <2>1. /\ keyBox \in [FID!KeyIds -> [voters : SUBSET Alphabet, height : Nat]]
          /\ height \in 0..MaxHeight
          /\ keyCalled \subseteq FID!Invokers \X FID!KeyIds
      BY DEF KeysInv, KeyVotes!VotesInv, TablesOK, VotingTypeOK, Invokers, Multisignature,
         FID!Invokers, FID!Multisignature
    <2> QED
      BY <2>1 DEF FID!VotingTypeOK
  <1> QED
    BY <1>1, <1>2, <1>3 DEF TypeOK, TablesOK

(* Every variable of the contract and of those that it calls keeps its     *)
(* type, and no owner ever pays more than it has.                          *)
THEOREM ContainerTypes == Spec => []TypeOK
  <1>1. Init => ContainerInv /\ AliasInv /\ KeysInv /\ TablesOK
    BY ContainerInvInit, AliasesStart, KeysStart, TablesStart DEF Init
  <1>2. ContainerInv /\ AliasInv /\ KeysInv /\ TablesOK /\ [Next]_vars
          => ContainerInv' /\ AliasInv' /\ KeysInv' /\ TablesOK'
    BY ContainerSteps, AliasSteps, KeySteps, TablesStep
  <1> QED
    BY <1>1, <1>2, TablesTell, PTL DEF Spec

-----------------------------------------------------------------------------
(* The Subnet contract. *)
(* The lists hold entries of existing subnets only. *)
ListsInv ==
    /\ DOMAIN subnet = Subnets
    /\ nodeAdmins \subseteq Subnets \X Admins
    /\ nodes \subseteq Subnets \X SubnetNodes
    /\ clientAdmins \subseteq Subnets \X Groups \X Admins
    /\ users \subseteq Subnets \X Groups \X SubnetUsers
    /\ DeletedSubnetsLeaveNothing

(* A step that changes at most the lists of one subnet, which exists. *)
LEMMA ListStep ==
    ASSUME ListsInv, NEW s \in Subnets, Exists(s), UNCHANGED subnet,
           NEW e, e[1] = s,
           \/ nodeAdmins' \subseteq nodeAdmins \union {e} /\ UNCHANGED <<nodes, clientAdmins, users>>
           \/ nodes' \subseteq nodes \union {e} /\ UNCHANGED <<nodeAdmins, clientAdmins, users>>
           \/ clientAdmins' \subseteq clientAdmins \union {e} /\ UNCHANGED <<nodeAdmins, nodes, users>>
           \/ users' \subseteq users \union {e} /\ UNCHANGED <<nodeAdmins, nodes, clientAdmins>>
    PROVE  DeletedSubnetsLeaveNothing'
  <1> SUFFICES ASSUME NEW t \in Subnets, ~Exists(t)'
               PROVE  \A list \in {nodeAdmins', nodes', clientAdmins', users'} :
                         \A entry \in list : entry[1] # t
    BY DEF DeletedSubnetsLeaveNothing
  <1>1. ~Exists(t) /\ t # s
    BY DEF Exists
  <1>2. /\ \A entry \in nodeAdmins \union {e} : entry[1] # t
        /\ \A entry \in nodes \union {e} : entry[1] # t
        /\ \A entry \in clientAdmins \union {e} : entry[1] # t
        /\ \A entry \in users \union {e} : entry[1] # t
    BY <1>1 DEF ListsInv, DeletedSubnetsLeaveNothing
  <1>3. /\ \A entry \in nodeAdmins' : entry[1] # t
        /\ \A entry \in nodes' : entry[1] # t
        /\ \A entry \in clientAdmins' : entry[1] # t
        /\ \A entry \in users' : entry[1] # t
    BY <1>2
  <1> QED
    BY <1>3

(* Only a registration creates a subnet, and only a deletion removes one.  *)
LEMMA PutStep ==
    ASSUME ListsInv, VotesInv(SubnetIds),
           NEW n \in Invokers, NEW s \in Subnets, NEW o \in SubnetOwners, NEW i \in Infos,
           SubnetPut(n, s, o, i)
    PROVE  /\ ListsInv' /\ VotesInv(SubnetIds)'
           /\ subnet' # subnet =>
                /\ subnet[s] = NoSubnet
                /\ subnet' = [subnet EXCEPT ![s] = [owner |-> o, info |-> i]]
                /\ Quorate(SubnetPutId(o, i))
  <1>1. SubnetPutId(o, i) \in SubnetIds /\ Ends(n, SubnetPutId(o, i))
    BY DEF SubnetIds, SubnetPut, Ends
  <1>2. VotesInv(SubnetIds)'
    BY <1>1, EndsKeepVotes
  <1>3. subnet[s] = NoSubnet /\ UNCHANGED <<nodeAdmins, nodes, clientAdmins, users>>
    BY DEF SubnetPut, lists
  <1>4. CASE UNCHANGED subnet
    BY <1>2, <1>3, <1>4 DEF ListsInv, DeletedSubnetsLeaveNothing, Exists
  <1>5. CASE /\ Decides(n, SubnetPutId(o, i))
             /\ subnet' = [subnet EXCEPT ![s] = [owner |-> o, info |-> i]]
    <2>1. Quorate(SubnetPutId(o, i))
      BY <1>1, <1>5, DecidesIsQuorate
    <2>2. \A t \in Subnets : ~Exists(t)' => ~Exists(t)
      BY <1>3, <1>5, SubnetAssumption DEF Exists, ListsInv
    <2>3. DeletedSubnetsLeaveNothing'
      BY <1>3, <2>2 DEF ListsInv, DeletedSubnetsLeaveNothing
    <2> QED
      BY <1>2, <1>3, <1>5, <2>1, <2>3 DEF ListsInv
  <1> QED
    BY <1>4, <1>5 DEF SubnetPut

LEMMA DeleteStep ==
    ASSUME ListsInv, NEW k, NEW s \in Subnets, SubnetDelete(k, s)
    PROVE  /\ ListsInv'
           /\ UNCHANGED voting
           /\ subnet' = [subnet EXCEPT ![s] = NoSubnet]
  <1>1. /\ subnet' = [subnet EXCEPT ![s] = NoSubnet]
        /\ nodeAdmins' = OfOthers(nodeAdmins, s)
        /\ nodes' = OfOthers(nodes, s)
        /\ clientAdmins' = OfOthers(clientAdmins, s)
        /\ users' = OfOthers(users, s)
    BY DEF SubnetDelete
  <1>2. \A t \in Subnets : ~Exists(t)' => t = s \/ ~Exists(t)
    BY <1>1 DEF Exists, ListsInv
  <1>3. DeletedSubnetsLeaveNothing'
    <2> SUFFICES ASSUME NEW t \in Subnets, ~Exists(t)'
                 PROVE  \A list \in {nodeAdmins', nodes', clientAdmins', users'} :
                           \A entry \in list : entry[1] # t
      BY DEF DeletedSubnetsLeaveNothing
    <2>1. CASE t = s
      BY <1>1, <2>1 DEF OfOthers
    <2>2. CASE ~Exists(t)
      BY <1>1, <2>2 DEF OfOthers, ListsInv, DeletedSubnetsLeaveNothing
    <2> QED
      BY <1>2, <2>1, <2>2
  <1> QED
    BY <1>1, <1>3 DEF ListsInv, OfOthers, SubnetDelete

LEMMA InvocationStep ==
    ASSUME ListsInv, NEW k, SubnetInvocation(k)
    PROVE  /\ ListsInv'
           /\ UNCHANGED voting
           /\ \A s \in Subnets : subnet'[s] # subnet[s] => subnet'[s] = NoSubnet
  <1>1. PICK s \in Subnets :
          \/ SubnetDelete(k, s)
          \/ \E a \in Admins : AddNodeAdmin(k, s, a) \/ RemoveNodeAdmin(k, s, a)
          \/ \E m \in SubnetNodes : AddNode(k, s, m) \/ RemoveNode(k, s, m)
          \/ \E g \in Groups, a \in Admins : AddClientAdmin(k, s, g, a) \/ RemoveClientAdmin(k, s, g, a)
          \/ \E g \in Groups, u \in SubnetUsers : AddUser(k, s, g, u) \/ RemoveUser(k, s, g, u)
    BY DEF SubnetInvocation
  <1>2. CASE SubnetDelete(k, s)
    BY <1>2, DeleteStep DEF ListsInv
  <1>3. ASSUME NEW a \in Admins, AddNodeAdmin(k, s, a) \/ RemoveNodeAdmin(k, s, a)
        PROVE  ListsInv' /\ UNCHANGED voting /\ UNCHANGED subnet
    <2> DEFINE e == <<s, a>>
    <2>1. /\ Exists(s) /\ e[1] = s /\ nodeAdmins' \subseteq nodeAdmins \union {e}
          /\ UNCHANGED <<voting, subnet, nodes, clientAdmins, users>>
      BY <1>3 DEF AddNodeAdmin, RemoveNodeAdmin, Owns
    <2>2. DeletedSubnetsLeaveNothing'
      BY <2>1, ListStep
    <2> QED
      BY <2>1, <2>2 DEF ListsInv
  <1>4. ASSUME NEW m \in SubnetNodes, AddNode(k, s, m) \/ RemoveNode(k, s, m)
        PROVE  ListsInv' /\ UNCHANGED voting /\ UNCHANGED subnet
    <2> DEFINE e == <<s, m>>
    <2>1. /\ Exists(s) /\ e[1] = s /\ nodes' \subseteq nodes \union {e}
          /\ UNCHANGED <<voting, subnet, nodeAdmins, clientAdmins, users>>
      BY <1>4 DEF AddNode, RemoveNode, MayChangeNodes
    <2>2. DeletedSubnetsLeaveNothing'
      BY <2>1, ListStep
    <2> QED
      BY <2>1, <2>2 DEF ListsInv
  <1>5. ASSUME NEW g \in Groups, NEW a \in Admins,
               AddClientAdmin(k, s, g, a) \/ RemoveClientAdmin(k, s, g, a)
        PROVE  ListsInv' /\ UNCHANGED voting /\ UNCHANGED subnet
    <2> DEFINE e == <<s, g, a>>
    <2>1. /\ Exists(s) /\ e[1] = s /\ clientAdmins' \subseteq clientAdmins \union {e}
          /\ UNCHANGED <<voting, subnet, nodeAdmins, nodes, users>>
      BY <1>5 DEF AddClientAdmin, RemoveClientAdmin, Owns
    <2>2. DeletedSubnetsLeaveNothing'
      BY <2>1, ListStep
    <2> QED
      BY <2>1, <2>2 DEF ListsInv
  <1>6. ASSUME NEW g \in Groups, NEW u \in SubnetUsers, AddUser(k, s, g, u) \/ RemoveUser(k, s, g, u)
        PROVE  ListsInv' /\ UNCHANGED voting /\ UNCHANGED subnet
    <2> DEFINE e == <<s, g, u>>
    <2>1. /\ Exists(s) /\ e[1] = s /\ users' \subseteq users \union {e}
          /\ UNCHANGED <<voting, subnet, nodeAdmins, nodes, clientAdmins>>
      BY <1>6 DEF AddUser, RemoveUser, MayChangeUsers
    <2>2. DeletedSubnetsLeaveNothing'
      BY <2>1, ListStep
    <2> QED
      BY <2>1, <2>2 DEF ListsInv
  <1> QED
    BY <1>1, <1>2, <1>3, <1>4, <1>5, <1>6

LEMMA SubnetSteps ==
    ASSUME ListsInv, VotesInv(SubnetIds), [SubnetNext]_subnetVars
    PROVE  ListsInv' /\ VotesInv(SubnetIds)' /\ ApprovedRegistration
  <1>1. ASSUME NEW n \in Invokers, NEW s \in Subnets, NEW o \in SubnetOwners, NEW i \in Infos,
               SubnetPut(n, s, o, i)
        PROVE  ListsInv' /\ VotesInv(SubnetIds)' /\ ApprovedRegistration
    <2>1. ListsInv' /\ VotesInv(SubnetIds)'
      BY <1>1, PutStep
    <2>2. CASE subnet' = subnet
      BY <2>1, <2>2 DEF ApprovedRegistration
    <2>3. CASE subnet' # subnet
      BY <1>1, <2>1, <2>3, PutStep DEF ApprovedRegistration, ListsInv
    <2> QED
      BY <2>2, <2>3
  <1>2. ASSUME NEW k \in SubnetOwners \union Admins, SubnetInvocation(k)
        PROVE  ListsInv' /\ VotesInv(SubnetIds)' /\ ApprovedRegistration
    BY <1>2, InvocationStep, OthersKeepVotes DEF ApprovedRegistration
  <1>3. CASE (NextBlock \/ UNCHANGED voting) /\ UNCHANGED <<subnet, lists>>
    <2>1. VotesInv(SubnetIds)'
      BY <1>3, OthersKeepVotes
    <2>2. ListsInv'
      BY <1>3 DEF lists, ListsInv, DeletedSubnetsLeaveNothing, Exists
    <2> QED
      BY <1>3, <2>1, <2>2 DEF ApprovedRegistration
  <1> QED
    BY <1>1, <1>2, <1>3 DEF SubnetNext, subnetVars

LEMMA SubnetStart ==
    ASSUME VotingInit(SubnetIds), SubnetInit
    PROVE  ListsInv /\ VotesInv(SubnetIds)
  BY VotesInit DEF SubnetInit, ListsInv, DeletedSubnetsLeaveNothing

(* Whoever registers a subnet again starts with empty lists, whatever was  *)
(* added and by whom before it was deleted.                                *)
THEOREM SubnetsLeaveNothing == SubnetSpec => []DeletedSubnetsLeaveNothing
  <1>1. ListsInv /\ VotesInv(SubnetIds) /\ [SubnetNext]_subnetVars => ListsInv' /\ VotesInv(SubnetIds)'
    BY SubnetSteps
  <1>2. ListsInv => DeletedSubnetsLeaveNothing
    BY DEF ListsInv
  <1> QED
    BY SubnetStart, <1>1, <1>2, PTL DEF SubnetSpec

(* No subnet is registered without a quorum of its own. *)
THEOREM RegistrationsNeedAQuorum == SubnetSpec => RegistrationsAreApproved
  <1>1. ListsInv /\ VotesInv(SubnetIds) /\ [SubnetNext]_subnetVars =>
          ListsInv' /\ VotesInv(SubnetIds)' /\ [ApprovedRegistration]_subnetVars
    BY SubnetSteps
  <1> QED
    BY SubnetStart, <1>1, PTL DEF SubnetSpec, RegistrationsAreApproved

-----------------------------------------------------------------------------
(* The domains of NNS and their tokens.                                    *)

OwnedBy(f, h) == {d \in Domains : f[d].owner = h}

(* A domain has an owner as long as it is registered. *)
TokensInv ==
    /\ DOMAIN names = Domains
    /\ \A d \in Domains : names[d].owner \in Holders \/ names[d] = Unregistered
    /\ TokensMatchNames

LEMMA OwnedIsFinite ==
    ASSUME NEW f, NEW h
    PROVE  IsFiniteSet(OwnedBy(f, h)) /\ Cardinality(OwnedBy(f, h)) \in Nat
  <1>1. OwnedBy(f, h) \subseteq Domains
    BY DEF OwnedBy
  <1> QED
    BY <1>1, NNSAssumption, FS_Subset, FS_CardinalityType

(* The balances and tokens after one domain has got an owner. *)
LEMMA TokensFollow ==
    ASSUME TokensInv, NEW d \in Domains, NEW to \in Holders,
           DOMAIN names' = Domains, names'[d].owner = to,
           \A x \in Domains \ {d} : names'[x] = names[x],
           tokens' = TokensGivenTo(d, to)
    PROVE  TokensInv'
  <1> DEFINE from == names[d].owner
  <1>1. to # Nobody /\ (from = Nobody <=> names[d] = Unregistered)
    BY NNSAssumption DEF TokensInv, Unregistered
  <1>2. ASSUME NEW h \in Holders
        PROVE  tokens'.balance[h] = Cardinality(OwnedBy(names', h))
    <2>1. tokens.balance[h] = Cardinality(OwnedBy(names, h))
      <3>1. {x \in {y \in Domains : names[y] # Unregistered} : names[x].owner = h} = OwnedBy(names, h)
        BY NNSAssumption DEF OwnedBy, Unregistered
      <3> QED
        BY <3>1 DEF TokensInv, TokensMatchNames
    <2>2. IsFiniteSet(OwnedBy(names, h)) /\ Cardinality(OwnedBy(names, h)) \in Nat
      BY OwnedIsFinite
    <2>3. tokens'.balance[h] = tokens.balance[h] - (IF h = from THEN 1 ELSE 0)
                                 + (IF h = to THEN 1 ELSE 0)
      BY DEF TokensGivenTo
    <2>4. CASE h = to /\ h = from
      <3>1. OwnedBy(names', h) = OwnedBy(names, h)
        BY <2>4 DEF OwnedBy
      <3> QED
        BY <2>1, <2>2, <2>3, <2>4, <3>1
    <2>5. CASE h = to /\ h # from
      <3>1. OwnedBy(names', h) = OwnedBy(names, h) \union {d} /\ d \notin OwnedBy(names, h)
        BY <2>5 DEF OwnedBy
      <3>2. Cardinality(OwnedBy(names', h)) = Cardinality(OwnedBy(names, h)) + 1
        BY <2>2, <3>1, FS_AddElement
      <3> QED
        BY <2>1, <2>2, <2>3, <2>5, <3>2
    <2>6. CASE h # to /\ h = from
      <3>1. OwnedBy(names', h) = OwnedBy(names, h) \ {d} /\ d \in OwnedBy(names, h)
        BY <2>6 DEF OwnedBy
      <3>2. Cardinality(OwnedBy(names', h)) = Cardinality(OwnedBy(names, h)) - 1
        BY <2>2, <3>1, FS_RemoveElement
      <3> QED
        BY <2>1, <2>2, <2>3, <2>6, <3>2
    <2>7. CASE h # to /\ h # from
      <3>1. OwnedBy(names', h) = OwnedBy(names, h)
        BY <2>7 DEF OwnedBy
      <3> QED
        BY <2>1, <2>2, <2>3, <2>7, <3>1
    <2> QED
      BY <2>4, <2>5, <2>6, <2>7
  <1> DEFINE before == {x \in Domains : names[x] # Unregistered}
             after == {x \in Domains : names'[x] # Unregistered}
  <1>3. after = before \union {d}
    BY <1>1 DEF Unregistered
  <1>4. tokens'.supply = Cardinality(after)
    <2>1. before \subseteq Domains
      OBVIOUS
    <2>2. IsFiniteSet(before) /\ Cardinality(before) \in Nat
      BY <2>1, NNSAssumption, FS_Subset, FS_CardinalityType
    <2>3. tokens.supply = Cardinality(before)
      BY DEF TokensInv, TokensMatchNames
    <2>4. tokens'.supply = tokens.supply + IF from = Nobody THEN 1 ELSE 0
      BY DEF TokensGivenTo
    <2>5. d \in before <=> from # Nobody
      BY <1>1
    <2> HIDE DEF before, after
    <2>6. CASE d \in before
      <3>1. after = before
        BY <1>3, <2>6
      <3> QED
        BY <2>2, <2>3, <2>4, <2>5, <2>6, <3>1
    <2>7. CASE d \notin before
      <3>1. Cardinality(after) = Cardinality(before) + 1
        BY <1>3, <2>2, <2>7, FS_AddElement
      <3> QED
        BY <2>2, <2>3, <2>4, <2>5, <2>7, <3>1
    <2> QED
      BY <2>6, <2>7
  <1>5. tokens'.held = {<<names'[x].owner, x>> : x \in after}
    <2>1. tokens'.held = (tokens.held \ {<<from, d>>}) \union {<<to, d>>}
      BY DEF TokensGivenTo
    <2>2. tokens.held = {<<names[x].owner, x>> : x \in before}
      BY DEF TokensInv, TokensMatchNames
    <2> QED
      BY <1>3, <2>1, <2>2
  <1>6. ASSUME NEW h \in Holders
        PROVE  tokens'.balance[h] = Cardinality({x \in after : names'[x].owner = h})
    <2>1. {x \in after : names'[x].owner = h} = OwnedBy(names', h)
      BY NNSAssumption DEF OwnedBy, Unregistered
    <2> QED
      BY <1>2, <2>1
  <1>7. TokensMatchNames'
    BY <1>4, <1>5, <1>6 DEF TokensMatchNames
  <1>8. \A x \in Domains : names'[x].owner \in Holders \/ names'[x] = Unregistered
    BY DEF TokensInv
  <1> QED
    BY <1>7, <1>8 DEF TokensInv

(* Steps that leave owners and tokens alone. *)
LEMMA TokensStay ==
    ASSUME TokensInv, UNCHANGED tokens, DOMAIN names' = Domains,
           \A x \in Domains : \/ names'[x] = names[x]
                              \/ /\ names'[x].owner = names[x].owner
                                 /\ names[x] # Unregistered
    PROVE  TokensInv'
  <1>1. \A x \in Domains : names'[x].owner = names[x].owner
    OBVIOUS
  <1>2. \A x \in Domains : (names'[x] = Unregistered) <=> (names[x] = Unregistered)
    <2>1. \A x \in Domains : names[x] # Unregistered => names[x].owner # Nobody
      BY NNSAssumption DEF TokensInv
    <2> QED
      BY <1>1, <2>1 DEF Unregistered
  <1> DEFINE before == {x \in Domains : names[x] # Unregistered}
             after == {x \in Domains : names'[x] # Unregistered}
  <1>3. after = before
    BY <1>2
  <1>4. {<<names'[x].owner, x>> : x \in after} = {<<names[x].owner, x>> : x \in before}
    BY <1>1, <1>3
  <1>5. \A h : {x \in after : names'[x].owner = h} = {x \in before : names[x].owner = h}
    BY <1>1, <1>3
  <1>6. TokensMatchNames'
    BY <1>3, <1>4, <1>5 DEF TokensInv, TokensMatchNames
  <1> QED
    BY <1>2, <1>6 DEF TokensInv

LEMMA TakeStep ==
    ASSUME TokensInv, NEW d \in Domains, NEW owner \in Holders, NEW expire, Take(d, owner, expire)
    PROVE  TokensInv'
  <1>1. /\ DOMAIN names' = Domains /\ names'[d].owner = owner
        /\ \A x \in Domains \ {d} : names'[x] = names[x]
        /\ tokens' = TokensGivenTo(d, owner)
    BY DEF Take, TokensInv
  <1> QED
    BY <1>1, TokensFollow

(* Whoever signs for a domain, as its owner or its administrator, signs    *)
(* for one that is registered.                                             *)
LEMMA SignedIsRegistered ==
    ASSUME NEW d \in Domains, NEW signers \in SUBSET Holders,
           IsAdmin(d, signers) \/ names[d].owner \in signers
    PROVE  names[d] # Unregistered
  <1>1. Nobody \notin signers
    BY NNSAssumption
  <1> QED
    BY <1>1 DEF IsAdmin, Unregistered

LEMMA DomainStepKeepsTokens ==
    ASSUME TokensInv, NEW d \in Domains, NEW people \in SUBSET Holders,
           NEW signers \in SUBSET people, NEW data, DomainStep(d, signers, people, data)
    PROVE  TokensInv'
  <1>1. ASSUME NEW owner \in signers, Register(d, owner, signers, Year)
        PROVE  TokensInv'
    BY <1>1, TakeStep DEF Register
  <1>2. CASE Renew(d, signers)
    <2>1. names[d] # Unregistered
      BY <1>2, SignedIsRegistered DEF Renew
    <2>2. DOMAIN names' = Domains /\ UNCHANGED tokens
      BY <1>2 DEF Renew, TokensInv
    <2>3. \A x \in Domains : names'[x] = names[x] \/ (x = d /\ names'[x].owner = names[x].owner)
      BY <1>2 DEF Renew, TokensInv
    <2> QED
      BY <2>1, <2>2, <2>3, TokensStay
  <1>3. ASSUME NEW to \in people, TransferDomain(d, to, signers)
        PROVE  TokensInv'
    <2>1. names[d] # Unregistered
      BY <1>3, SignedIsRegistered DEF TransferDomain
    <2>2. /\ DOMAIN names' = Domains /\ names'[d].owner = to
          /\ \A x \in Domains \ {d} : names'[x] = names[x]
          /\ tokens' = TokensGivenTo(d, to)
      BY <1>3, <2>1 DEF TransferDomain, TokensInv
    <2> QED
      BY <2>2, TokensFollow
  <1>4. ASSUME NEW admin, SetAdmin(d, admin, signers)
        PROVE  TokensInv'
    <2>1. names[d] # Unregistered
      BY <1>4, SignedIsRegistered DEF SetAdmin
    <2>2. DOMAIN names' = Domains /\ UNCHANGED tokens
      BY <1>4 DEF SetAdmin, TokensInv
    <2>3. \A x \in Domains : names'[x] = names[x] \/ (x = d /\ names'[x].owner = names[x].owner)
      BY <1>4 DEF SetAdmin, TokensInv
    <2> QED
      BY <2>1, <2>2, <2>3, TokensStay
  <1>5. CASE UNCHANGED <<names, tokens>>
    BY <1>5, TokensStay DEF TokensInv
  <1> QED
    BY <1>1, <1>2, <1>3, <1>4, <1>5 DEF DomainStep, AddRecord, SetRecord, DeleteRecords

LEMMA ContainerStepKeepsTokens ==
    ASSUME TokensInv, ContainerStep
    PROVE  TokensInv'
  <1>1. ASSUME NEW n, NEW r \in Puts, PutNamed(n, {n}, r)
        PROVE  TokensInv'
    <2>1. CASE UNCHANGED nns
      BY <2>1, TokensStay DEF TokensInv, nns
    <2>2. CASE r.name # NoName /\ Name(r.name, r.cid)
      <3>1. r.name \in Domains /\ Self \in Holders
        BY <2>2, ContainerAssumption
      <3>2. CASE Take(r.name, Self, DefaultExpire)
        BY <3>1, <3>2, TakeStep
      <3>3. CASE UNCHANGED <<names, tokens>>
        BY <3>3, TokensStay DEF TokensInv
      <3> QED
        BY <2>2, <3>2, <3>3 DEF Name
    <2> QED
      BY <1>1, <2>1, <2>2 DEF PutNamed
  <1>2. CASE UNCHANGED <<names, tokens>>
    BY <1>2, TokensStay DEF TokensInv
  <1> QED
    BY <1>1, <1>2 DEF ContainerStep, Delete, SetEACL, SwitchEstimation, NextOfFrostFSID, containerVars, nns

LEMMA TokensStart ==
    ASSUME WithOwnZone
    PROVE  TokensInv
  <1>1. Self \in Holders /\ OwnZone \in Domains /\ Self # Nobody
    BY ContainerAssumption, NNSAssumption
  <1>2. /\ DOMAIN names = Domains
        /\ \A d \in Domains : names[d] = Unregistered <=> d # OwnZone
        /\ names[OwnZone].owner = Self
    BY <1>1 DEF WithOwnZone, Unregistered
  <1>3. {d \in Domains : names[d] # Unregistered} = {OwnZone}
    BY <1>1, <1>2
  <1>4. ASSUME NEW h \in Holders
        PROVE  tokens.balance[h] = Cardinality({d \in {OwnZone} : names[d].owner = h})
    <2>1. CASE h = Self
      <3>1. {d \in {OwnZone} : names[d].owner = h} = {OwnZone}
        BY <1>2, <2>1
      <3> QED
        BY <2>1, <3>1, FS_Singleton DEF WithOwnZone
    <2>2. CASE h # Self
      <3>1. {d \in {OwnZone} : names[d].owner = h} = {}
        BY <1>2, <2>2
      <3> QED
        BY <2>2, <3>1, FS_EmptySet DEF WithOwnZone
    <2> QED
      BY <2>1, <2>2
  <1>5. tokens.supply = Cardinality({OwnZone})
    BY FS_Singleton DEF WithOwnZone
  <1>6. tokens.held = {<<names[d].owner, d>> : d \in {OwnZone}}
    BY <1>2 DEF WithOwnZone
  <1>7. TokensMatchNames
    BY <1>3, <1>4, <1>5, <1>6 DEF TokensMatchNames
  <1> QED
    BY <1>1, <1>2, <1>7 DEF TokensInv

(* The supply, the balances and the lists of domains in NNS agree with the *)
(* owners of the domains, whoever registers, transfers and loses domains,  *)
(* for any tree of domains and any accounts.                               *)
THEOREM TokensTellTheOwners == RegistriesSpec => []TokensMatchNames
  <1>1. RegistriesInit => TokensInv
    BY TokensStart DEF RegistriesInit, ContainerInit
  <1>2. ASSUME TokensInv, [RegistriesNext /\ UNCHANGED invoked]_registries
        PROVE  TokensInv'
    <2>1. CASE ContainerStep
      BY <1>2, <2>1, ContainerStepKeepsTokens
    <2>2. CASE NNSNext(Holders \ {Self}, Contents)
      <3>1. ASSUME NEW d \in Domains, NEW signers \in SUBSET (Holders \ {Self}),
                   DomainStep(d, signers, Holders \ {Self}, Contents)
            PROVE  TokensInv'
        <4>1. Holders \ {Self} \in SUBSET Holders
          OBVIOUS
        <4> QED
          BY <1>2, <3>1, <4>1, DomainStepKeepsTokens
      <3>2. CASE Tick
        BY <1>2, <3>2, TokensStay DEF Tick, TokensInv
      <3> QED
        BY <2>2, <3>1, <3>2 DEF NNSNext
    <2>3. CASE UNCHANGED <<names, tokens>>
      BY <1>2, <2>3, TokensStay DEF TokensInv
    <2> QED
      BY <1>2, <2>1, <2>2, <2>3 DEF RegistriesNext, registries, containerVars, nns
  <1>3. TokensInv => TokensMatchNames
    BY DEF TokensInv
  <1> QED
    BY <1>1, <1>2, <1>3, PTL DEF RegistriesSpec

-----------------------------------------------------------------------------
LEMMA BytesAreSequences ==
    ASSUME NEW e \in Nat
    PROVE  /\ Bytes(e) \in Seq(Nat)
           /\ e # 0 => Len(Bytes(e)) > 0 /\ Bytes(e)[1] = e % 256
  <1>1. CASE e = 0
    BY <1>1 DEF Bytes
  <1>2. CASE e # 0 /\ e < 128
    <2>1. Bytes(e) = <<e>> /\ e % 256 = e
      BY <1>2 DEF Bytes
    <2> QED
      BY <2>1
  <1>3. CASE e # 0 /\ e >= 128
    <2>1. Bytes(e) = <<e % 256, e \div 256>>
      BY <1>3 DEF Bytes
    <2>2. e % 256 \in Nat /\ e \div 256 \in Nat
      OBVIOUS
    <2> QED
      BY <2>1, <2>2
  <1> QED
    BY <1>1, <1>2, <1>3

(* Every listing by epoch has the keys that begin with it. *)
LEMMA PrefixOfConcatenation ==
    ASSUME NEW s \in Seq(Nat), NEW t \in Seq(Nat)
    PROVE  IsPrefix(s, s \o t)
  BY DEF IsPrefix

LEMMA ConcatenationBegins ==
    ASSUME NEW s \in Seq(Nat), NEW t \in Seq(Nat)
    PROVE  /\ s \o t \in Seq(Nat)
           /\ Len(s) > 0 => (s \o t)[1] = s[1]
  OBVIOUS

LEMMA BytesAreNumbers == /\ Epochs \subseteq Nat
                         /\ \A s \in Seq(Byte) : s \in Seq(Nat)
  <1>1. Byte \subseteq Nat /\ Epochs \subseteq Nat
    BY DEF Byte, Epochs
  <1> QED
    BY <1>1, SeqMonotonic

LEMMA PrefixesBegin ==
    ASSUME NEW s \in Seq(Nat), NEW t \in Seq(Nat), Len(s) > 0, IsPrefix(s, t)
    PROVE  Len(t) > 0 /\ s[1] = t[1]
  <1>1. Len(s) <= Len(t) /\ SubSeq(s, 1, Len(s)) = SubSeq(t, 1, Len(s))
    BY Zenon DEF IsPrefix
  <1>2. Len(s) \in Nat /\ Len(t) \in Nat
    BY LenProperties
  <1>3. SubSeq(s, 1, Len(s)) = s
    BY SubSeqFull
  <1>4. Head(SubSeq(t, 1, Len(s))) = t[1]
    BY <1>1, <1>2, HeadTailOfSubSeq
  <1>5. Head(s) = s[1]
    OBVIOUS
  <1> QED
    BY <1>1, <1>2, <1>3, <1>4, <1>5

LEMMA SameByte ==
    ASSUME NEW d \in Nat, NEW e \in Nat, d % 256 = e % 256
    PROVE  (d - e) % 256 = 0
  <1>1. d = 256 * (d \div 256) + (d % 256) /\ e = 256 * (e \div 256) + (e % 256)
    OBVIOUS
  <1>2. PICK k \in Int, l \in Int : k = d \div 256 /\ l = e \div 256
    OBVIOUS
  <1>3. k - l \in Int /\ d - e = 256 * (k - l)
    BY <1>1, <1>2
  <1>4. \A m \in Int : (256 * m) % 256 = 0
    OBVIOUS
  <1> QED
    BY <1>3, <1>4

(* A key that begins with the bytes of another epoch is 256 epochs away.   *)
LEMMA OnlyDistantEpochsMix ==
    ASSUME NEW d \in Nat \ {0}, NEW e \in Nat \ {0}, NEW rest \in Seq(Nat),
           IsPrefix(Bytes(e), Bytes(d) \o rest)
    PROVE  (d - e) % 256 = 0
  <1>1. PICK s \in Seq(Nat), t \in Seq(Nat) :
           /\ s = Bytes(e) /\ Len(s) > 0 /\ s[1] = e % 256
           /\ t = Bytes(d) /\ Len(t) > 0 /\ t[1] = d % 256
    BY BytesAreSequences
  <1>2. PICK u \in Seq(Nat) : u = t \o rest /\ u[1] = t[1]
    BY <1>1, ConcatenationBegins
  <1>3. IsPrefix(s, u)
    BY Zenon, <1>1, <1>2
  <1>4. s[1] = u[1]
    BY <1>1, <1>3, PrefixesBegin
  <1>5. d % 256 = e % 256
    BY Zenon, <1>1, <1>2, <1>4
  <1> QED
    BY <1>5, SameByte

LEMMA WhatListingsMix ==
    ASSUME NEW d \in Nat, NEW e \in Nat, NEW rest \in Seq(Nat),
           IsPrefix(Bytes(e), Bytes(d) \o rest)
    PROVE  Mixes(e, d, rest)
  <1>1. CASE d = 0
    <2>1. Bytes(d) = <<>>
      BY <1>1 DEF Bytes
    <2>2. Bytes(d) \o rest = rest
      BY <2>1
    <2> QED
      BY <1>1, <2>2 DEF Mixes
  <1>2. CASE d # 0 /\ e # 0
    BY <1>2, OnlyDistantEpochsMix DEF Mixes
  <1> QED
    BY <1>1, <1>2 DEF Mixes

(* A listing of Reputation or Audit has everything of its epoch, and what  *)
(* else it has is 256 epochs away or a multiple of that, unless epoch 0 is *)
(* asked for or reported of, for any peers, containers and nodes.          *)
THEOREM ListingsStayDistant == RegistriesSpec => []ListingsMixOnlyDistantEpochs
  <1>1. ASSUME NEW r \in Reputations
        PROVE  /\ r.epoch \in Nat
               /\ IsPrefix(Bytes(r.epoch), IdOf(r))
               /\ \A e \in Nat : IsPrefix(Bytes(e), IdOf(r)) => Mixes(e, r.epoch, r.peer)
    <2>1. r.epoch \in Nat /\ r.peer \in Seq(Nat)
      <3>1. r.epoch \in Epochs /\ r.peer \in Seq(Byte)
        BY Zenon, ReportsAssumption
      <3> QED
        BY <3>1, BytesAreNumbers
    <2>2. IsPrefix(Bytes(r.epoch), IdOf(r))
      BY <2>1, BytesAreSequences, PrefixOfConcatenation DEF IdOf, StorageID
    <2> QED
      BY <2>1, <2>2, WhatListingsMix DEF IdOf, StorageID
  <1>2. ASSUME NEW r \in Audits
        PROVE  /\ r.epoch \in Nat
               /\ IsPrefix(Bytes(r.epoch), AuditID(r))
               /\ IsPrefix(Bytes(r.epoch) \o r.cid, AuditID(r))
               /\ \A e \in Nat : IsPrefix(Bytes(e), AuditID(r))
                     => Mixes(e, r.epoch, r.cid \o r.node)
    <2>1. r.epoch \in Nat /\ r.cid \in Seq(Nat) /\ r.node \in Seq(Nat)
      <3>1. r.epoch \in Epochs /\ r.cid \in Seq(Byte) /\ r.node \in Seq(Byte)
        BY Zenon, ReportsAssumption
      <3> QED
        BY <3>1, BytesAreNumbers
    <2>2. PICK b \in Seq(Nat) : b = Bytes(r.epoch)
      BY <2>1, BytesAreSequences
    <2>3. AuditID(r) = b \o (r.cid \o r.node) /\ r.cid \o r.node \in Seq(Nat) /\ b \o r.cid \in Seq(Nat)
      <3>1. PICK c \in Seq(Nat), n \in Seq(Nat) : c = r.cid /\ n = r.node
        BY <2>1
      <3>2. AuditID(r) = (b \o c) \o n
        BY <2>2, <3>1 DEF AuditID
      <3>3. (b \o c) \o n = b \o (c \o n)
        BY ConcatAssociative, SMTT(60)
      <3>4. c \o n \in Seq(Nat) /\ b \o c \in Seq(Nat)
        BY ConcatenationBegins
      <3> QED
        BY <3>1, <3>2, <3>3, <3>4
    <2>4. IsPrefix(b, b \o (r.cid \o r.node)) /\ IsPrefix(b \o r.cid, (b \o r.cid) \o r.node)
      BY <2>1, <2>3, PrefixOfConcatenation
    <2>5. ASSUME NEW e \in Nat, IsPrefix(Bytes(e), AuditID(r))
          PROVE  Mixes(e, r.epoch, r.cid \o r.node)
      BY <2>1, <2>2, <2>3, <2>5, WhatListingsMix
    <2> QED
      BY <2>1, <2>2, <2>3, <2>4, <2>5 DEF AuditID
  <1>3. ListingsMixOnlyDistantEpochs
    <2>1. ASSUME NEW e \in {r.epoch : r \in Reputations}, NEW r \in Reputations
          PROVE  /\ r.epoch = e /\ counts[IdOf(r)] # 0 => IdOf(r) \in ListByEpoch(e)
                 /\ IdOf(r) \in ListByEpoch(e) => Mixes(e, r.epoch, r.peer)
      BY <1>1 DEF ListByEpoch, ReportIds
    <2>2. ASSUME NEW e \in {r.epoch : r \in Audits}, NEW r \in Audits
          PROVE  /\ r.epoch = e /\ AuditID(r) \in audited =>
                       AuditID(r) \in AuditsByEpoch(e) \intersect AuditsByCID(e, r.cid)
                 /\ AuditID(r) \in AuditsByEpoch(e) => Mixes(e, r.epoch, r.cid \o r.node)
      BY <1>2 DEF AuditsByEpoch, AuditsByCID
    <2> QED
      BY <2>1, <2>2 DEF ListingsMixOnlyDistantEpochs
  <1> QED
    BY <1>3, PTL
-----------------------------------------------------------------------------
(* The value keys of an id are those of its counts, with the values in the *)
(* order of the decisions.                                                 *)
ReportsInv ==
    /\ counts \in [ReportIds -> 0..MaxReports]
    /\ DOMAIN reported = ReportIds
    /\ \A id \in ReportIds :
          /\ reported[id] \in Seq({r.value : r \in Reputations})
          /\ Len(reported[id]) = counts[id]
          /\ \A c \in 1..counts[id] : /\ ValueKey(id, c) \in DOMAIN values
                                      /\ values[ValueKey(id, c)] = reported[id][c]
    /\ \A k \in DOMAIN values : \E id \in ReportIds : \E c \in 1..counts[id] : k = ValueKey(id, c)

LEMMA IdsAreBytes == \A id \in ReportIds : id \in Seq(Nat)
  <1>1. ASSUME NEW r \in Reputations
        PROVE  IdOf(r) \in Seq(Nat)
    <2>1. r.epoch \in Nat /\ r.peer \in Seq(Nat)
      BY ReportsAssumption, BytesAreNumbers
    <2> QED
      BY <2>1, BytesAreSequences, ConcatenationBegins DEF IdOf, StorageID
  <1> QED
    BY <1>1 DEF ReportIds

LEMMA CountsHaveBytesOfTheirOwn ==
    ASSUME NEW c \in 1..MaxReports, NEW d \in 1..MaxReports, Bytes(c) = Bytes(d)
    PROVE  c = d
  <1>1. MaxReports \in 0..127
    BY ReportsAssumption
  <1>2. Bytes(c) = <<c>> /\ Bytes(d) = <<d>>
    BY <1>1 DEF Bytes
  <1>3. <<c>> = <<d>>
    BY Zenon, <1>2
  <1> QED
    BY <1>3

LEMMA KeysOfOneId ==
    ASSUME NEW id \in ReportIds, NEW c \in 1..MaxReports, NEW d \in 1..MaxReports,
           ValueKey(id, c) = ValueKey(id, d)
    PROVE  c = d
  <1>1. MaxReports \in Nat /\ c \in Nat /\ d \in Nat
    BY ReportsAssumption
  <1>2. PICK s \in Seq(Nat), t \in Seq(Nat) : s = Bytes(c) /\ t = Bytes(d)
    BY <1>1, BytesAreSequences
  <1>3. id \in Seq(Nat) /\ id \o s = id \o t
    BY Zenon, <1>2, IdsAreBytes DEF ValueKey
  <1>4. s = t
    BY <1>3, ConcatSimplifications
  <1> QED
    BY <1>2, <1>4, CountsHaveBytesOfTheirOwn

LEMMA KeysBeginWithTheirId ==
    ASSUME NEW id \in ReportIds, NEW c \in Nat
    PROVE  IsPrefix(id, ValueKey(id, c))
  BY IdsAreBytes, BytesAreSequences, PrefixOfConcatenation DEF ValueKey

(* Two ids of one length do not share a key, nor do two keys of one byte.  *)
LEMMA PrefixesOfOneLength ==
    ASSUME NEW s \in Seq(Nat), NEW t \in Seq(Nat), NEW u \in Seq(Nat),
           Len(s) = Len(t), IsPrefix(s, t \o u)
    PROVE  s = t
  <1>1. SubSeq(s, 1, Len(s)) = SubSeq(t \o u, 1, Len(s))
    BY Zenon DEF IsPrefix
  <1>2. SubSeq(s, 1, Len(s)) = s /\ SubSeq(t \o u, 1, Len(t)) = t
    BY SubSeqFull, ConcatProperties, SubSeqProperties
  <1> QED
    BY Zenon, <1>1, <1>2

LEMMA KeysOfTwoIds ==
    ASSUME NEW id \in ReportIds, NEW other \in ReportIds, NEW c \in 1..MaxReports,
           IsPrefix(id, ValueKey(other, c)), Len(id) = Len(other)
    PROVE  id = other
  <1>1. c \in Nat
    BY ReportsAssumption
  <1>2. PICK u \in Seq(Nat) : u = Bytes(c)
    BY <1>1, BytesAreSequences
  <1>3. id \in Seq(Nat) /\ other \in Seq(Nat)
    BY IdsAreBytes
  <1> QED
    BY <1>2, <1>3, PrefixesOfOneLength DEF ValueKey

LEMMA LengthsOfKeys ==
    ASSUME NEW id \in ReportIds, NEW c \in 1..MaxReports
    PROVE  Len(ValueKey(id, c)) = Len(id) + 1
  <1>1. MaxReports \in 0..127
    BY ReportsAssumption
  <1>2. Bytes(c) = <<c>> /\ <<c>> \in Seq(Nat) /\ Len(<<c>>) = 1
    BY <1>1 DEF Bytes
  <1>3. id \in Seq(Nat)
    BY IdsAreBytes
  <1> QED
    BY <1>2, <1>3 DEF ValueKey

LEMMA KeysDiffer ==
    ASSUME NEW id \in ReportIds, NEW other \in ReportIds,
           NEW c \in 1..MaxReports, NEW d \in 1..MaxReports,
           ValueKey(id, c) = ValueKey(other, d)
    PROVE  id = other /\ c = d
  <1>1. id \in Seq(Nat) /\ other \in Seq(Nat) /\ Len(id) \in Nat /\ Len(other) \in Nat
    BY IdsAreBytes
  <1>2. Len(id) = Len(other)
    <2>1. Len(id) + 1 = Len(other) + 1
      BY LengthsOfKeys
    <2> QED
      BY <1>1, <2>1
  <1>3. c \in Nat
    BY ReportsAssumption
  <1>4. IsPrefix(id, ValueKey(other, d))
    BY Zenon, <1>3, KeysBeginWithTheirId
  <1>5. id = other
    BY <1>2, <1>4, KeysOfTwoIds
  <1> QED
    BY <1>5, KeysOfOneId

LEMMA ReportStep ==
    ASSUME ReportsInv, NEW n, NEW r \in Reputations, PutReputation(n, r)
    PROVE  ReportsInv'
  <1> DEFINE id == IdOf(r)
             next == counts[id] + 1
             key == ValueKey(id, next)
  <1>1. CASE UNCHANGED <<counts, values, reported>>
    BY <1>1 DEF ReportsInv
  <1>2. CASE /\ counts[id] < MaxReports
             /\ counts' = [counts EXCEPT ![id] = @ + 1]
             /\ values' = [k \in DOMAIN values \union {key} |-> IF k = key THEN r.value ELSE values[k]]
             /\ reported' = [reported EXCEPT ![id] = Append(@, r.value)]
    <2>1. id \in ReportIds /\ MaxReports \in Nat /\ counts[id] \in Nat /\ next \in 1..MaxReports
      <3>1. MaxReports \in Nat
        BY ReportsAssumption
      <3>2. id \in ReportIds
        BY DEF ReportIds
      <3>3. counts[id] \in 0..MaxReports
        BY <3>2 DEF ReportsInv
      <3> HIDE DEF id
      <3> QED
        BY <1>2, <3>1, <3>2, <3>3
    <2>2. /\ counts' \in [ReportIds -> 0..MaxReports] /\ DOMAIN reported' = ReportIds
          /\ counts'[id] = next
          /\ \A o \in ReportIds \ {id} : counts'[o] = counts[o] /\ reported'[o] = reported[o]
      BY <1>2, <2>1 DEF ReportsInv
    <2>3. ASSUME NEW o \in ReportIds, NEW c \in 1..counts[o]
          PROVE  ValueKey(o, c) # key
      <3>1. c \in 1..MaxReports /\ (c # next \/ o # id)
        BY <2>1 DEF ReportsInv
      <3>2. c \in 1..MaxReports
        BY <2>1 DEF ReportsInv
      <3>3. CASE o = id
        BY <2>1, <3>1, <3>3, KeysOfOneId
      <3>4. CASE o # id
        BY <2>1, <3>2, <3>4, KeysDiffer
      <3> QED
        BY <3>3, <3>4
    <2>4. /\ DOMAIN values' = DOMAIN values \union {key} /\ values'[key] = r.value
          /\ \A k \in DOMAIN values : k # key => values'[k] = values[k]
      BY <1>2
    <2>5. /\ reported'[id] \in Seq({s.value : s \in Reputations})
          /\ Len(reported'[id]) = next /\ reported'[id][next] = r.value
          /\ \A c \in 1..counts[id] : reported'[id][c] = reported[id][c]
      <3>1. reported'[id] = Append(reported[id], r.value)
        BY <1>2, <2>1 DEF ReportsInv
      <3>2. /\ reported[id] \in Seq({s.value : s \in Reputations}) /\ Len(reported[id]) = counts[id]
            /\ r.value \in {s.value : s \in Reputations}
        BY <2>1 DEF ReportsInv
      <3> HIDE DEF id
      <3> QED
        BY <2>1, <3>1, <3>2
    <2>6. ASSUME NEW o \in ReportIds, NEW c \in 1..counts[o]
          PROVE  ValueKey(o, c) \in DOMAIN values' /\ values'[ValueKey(o, c)] = reported[o][c]
      BY <2>3, <2>4, <2>6 DEF ReportsInv
    <2>7. ASSUME NEW o \in ReportIds
          PROVE  /\ reported'[o] \in Seq({s.value : s \in Reputations})
                 /\ Len(reported'[o]) = counts'[o]
                 /\ \A c \in 1..counts'[o] : /\ ValueKey(o, c) \in DOMAIN values'
                                             /\ values'[ValueKey(o, c)] = reported'[o][c]
      <3>1. CASE o = id
        <4>1. \A c \in 1..next : c = next \/ c \in 1..counts[id]
          BY <2>1
        <4>2. \A c \in 1..counts[id] : /\ ValueKey(id, c) \in DOMAIN values'
                                      /\ values'[ValueKey(id, c)] = reported'[id][c]
          BY <2>1, <2>5, <2>6
        <4>3. key \in DOMAIN values' /\ values'[key] = reported'[id][next]
          BY <2>4, <2>5
        <4>4. counts'[o] = next
          BY <2>2, <3>1
        <4> HIDE DEF next, id
        <4> QED
          BY <2>5, <3>1, <4>1, <4>2, <4>3, <4>4
      <3>2. CASE o # id
        <4>1. counts'[o] = counts[o] /\ reported'[o] = reported[o]
          BY <2>2, <3>2
        <4>2. \A c \in 1..counts[o] : /\ ValueKey(o, c) \in DOMAIN values'
                                     /\ values'[ValueKey(o, c)] = reported[o][c]
          BY <2>6
        <4>3. reported[o] \in Seq({s.value : s \in Reputations}) /\ Len(reported[o]) = counts[o]
          BY DEF ReportsInv
        <4> QED
          BY <4>1, <4>2, <4>3
      <3> QED
        BY <3>1, <3>2
    <2>8. ASSUME NEW k \in DOMAIN values'
          PROVE  \E o \in ReportIds : \E c \in 1..counts'[o] : k = ValueKey(o, c)
      <3>1. CASE k = key
        BY <2>1, <2>2, <3>1
      <3>2. CASE k \in DOMAIN values
        <4>1. PICK o \in ReportIds : \E c \in 1..counts[o] : k = ValueKey(o, c)
          BY <3>2 DEF ReportsInv
        <4>2. \A c \in 1..counts[o] : c \in 1..counts'[o]
          BY <2>1, <2>2
        <4> QED
          BY <4>1, <4>2
      <3> QED
        BY <2>4, <3>1, <3>2
    <2> QED
      BY <2>2, <2>7, <2>8 DEF ReportsInv
  <1> QED
    BY <1>1, <1>2 DEF PutReputation

(* Nothing that was decided is overwritten, lost or invented: every id is  *)
(* listed under its epoch, a query by id finds the i-th value that was     *)
(* decided under the number i, and nothing of another id of the same       *)
(* length, for any epochs, peers, values and votes and up to 127 reports.  *)
THEOREM ReportsStay == RegistriesSpec => []ReportsAreKept
  <1>1. ASSUME RegistriesInit PROVE ReportsInv
    <2>1. 0 \in 0..MaxReports /\ MaxReports \in Nat
      BY ReportsAssumption
    <2>2. /\ counts = [id \in ReportIds |-> 0] /\ values = <<>>
          /\ reported = [id \in ReportIds |-> <<>>]
      BY <1>1 DEF RegistriesInit, ReportsInit
    <2>3. DOMAIN values = {}
      BY <2>2
    <2> QED
      BY <2>1, <2>2, <2>3 DEF ReportsInv
  <1>2. ASSUME ReportsInv, [RegistriesNext /\ UNCHANGED invoked]_registries
        PROVE  ReportsInv'
    <2>1. CASE \E n \in Invokers, r \in Reputations : PutReputation(n, r)
      BY <1>2, <2>1, ReportStep
    <2>2. CASE UNCHANGED <<counts, values, reported>>
      BY <1>2, <2>2 DEF ReportsInv
    <2> QED
      BY <1>2, <2>1, <2>2 DEF RegistriesNext, ReportsNext, PutAudit, registries, reports
  <1>3. ASSUME ReportsInv PROVE ReportsAreKept
    <2>1. ASSUME NEW r \in Reputations, reported[IdOf(r)] # <<>>
          PROVE  IdOf(r) \in ListByEpoch(r.epoch)
      <3> DEFINE id == IdOf(r)
      <3>1. id \in ReportIds
        BY DEF ReportIds
      <3>2. counts[id] # 0
        <4>1. reported[id] \in Seq({s.value : s \in Reputations}) /\ Len(reported[id]) = counts[id]
          BY <1>3, <3>1 DEF ReportsInv
        <4> QED
          BY <2>1, <4>1
      <3>3. r.epoch \in Nat /\ r.peer \in Seq(Nat)
        BY ReportsAssumption, BytesAreNumbers
      <3>4. IsPrefix(Bytes(r.epoch), id)
        BY <3>3, BytesAreSequences, PrefixOfConcatenation DEF IdOf, StorageID
      <3> QED
        BY <3>1, <3>2, <3>4 DEF ListByEpoch
    <2>2. ASSUME NEW o \in ReportIds
          PROVE  /\ DOMAIN reported[o] = 1..counts[o] /\ 1..counts[o] \subseteq Nat
                 /\ 1..counts[o] \subseteq 1..MaxReports
      <3>1. MaxReports \in Nat
        BY ReportsAssumption
      <3>2. counts[o] \in 0..MaxReports /\ Len(reported[o]) = counts[o]
            /\ reported[o] \in Seq({s.value : s \in Reputations})
        BY <1>3 DEF ReportsInv
      <3> QED
        BY <3>1, <3>2
    <2>3. ASSUME NEW id \in ReportIds, NEW i \in DOMAIN reported[id]
          PROVE  ValueKey(id, i) \in KeysByID(id) /\ values[ValueKey(id, i)] = reported[id][i]
      <3>1. i \in 1..counts[id] /\ i \in Nat
        BY <2>2, <2>3
      <3>2. IsPrefix(id, ValueKey(id, i))
        BY <3>1, KeysBeginWithTheirId
      <3> QED
        BY <1>3, <3>1, <3>2 DEF ReportsInv, KeysByID
    <2>4. ASSUME NEW id \in ReportIds, NEW k \in KeysByID(id)
          PROVE  \E other \in ReportIds : \E i \in DOMAIN reported[other] :
                    k = ValueKey(other, i) /\ (Len(other) = Len(id) => other = id)
      <3>1. k \in DOMAIN values /\ IsPrefix(id, k)
        BY DEF KeysByID
      <3>2. PICK other \in ReportIds : \E c \in 1..counts[other] : k = ValueKey(other, c)
        BY <1>3, <3>1 DEF ReportsInv
      <3>3. PICK c \in 1..counts[other] : k = ValueKey(other, c)
        BY <3>2
      <3>4. c \in DOMAIN reported[other] /\ c \in 1..MaxReports
        BY <2>2
      <3>5. Len(other) = Len(id) => other = id
        BY <3>1, <3>3, <3>4, KeysOfTwoIds
      <3> QED
        BY <3>3, <3>4, <3>5
    <2>5. \A r \in Reputations : IdOf(r) \in ReportIds
      BY DEF ReportIds
    <2> QED
      BY <2>1, <2>3, <2>4, <2>5 DEF ReportsAreKept
  <1> QED
    BY <1>1, <1>2, <1>3, PTL DEF RegistriesSpec

-----------------------------------------------------------------------------
(* The GAS of the Alphabet contract. *)
LEMMA Division ==
    ASSUME NEW a \in Nat, NEW b \in Nat \ {0}
    PROVE  /\ a \div b \in Nat
           /\ (a \div b) * b <= a
           /\ a < (a \div b) * b + b
  OBVIOUS

(* Of every part'th of the balance, what the divisions of Emit leave. *)
LEMMA LeftOver ==
    ASSUME NEW balance \in Nat, NEW part \in {8, 16}, NEW proxy \in Nat,
           part = 8 => proxy = 0,
           part = 16 => proxy = balance \div 2,
           NEW size \in Nat \ {0}, NEW share,
           share = (((balance - proxy) * 7) \div 8) \div size
    PROVE  /\ share \in Nat /\ share * size \in Nat
           /\ balance - proxy - share * size \in Nat
           /\ part * (balance - proxy - share * size) >= balance
           /\ part * (balance - proxy - share * size) <= balance + part * (size + 2)
  <1> DEFINE parts == ((balance - proxy) * 7) \div 8
             given == share * size
  <1>1. /\ proxy <= balance
        /\ part = 16 => 2 * proxy <= balance /\ balance < 2 * proxy + 2
    OBVIOUS
  <1>2. /\ parts \in Nat
        /\ 8 * parts <= (balance - proxy) * 7
        /\ (balance - proxy) * 7 < 8 * parts + 8
    BY <1>1
  <1>3. share = parts \div size
    OBVIOUS
  <1> HIDE DEF parts
  <1>4. share \in Nat /\ share * size <= parts /\ parts < share * size + size
    BY <1>2, <1>3, Division
  <1>5. share * size \in Nat
    BY <1>4
  <1>6. given \in Nat /\ given <= parts /\ parts < given + size
    BY <1>4, <1>5
  <1> HIDE DEF given
  <1>7. /\ balance - proxy - given \in Nat
        /\ part * (balance - proxy - given) >= balance
        /\ part * (balance - proxy - given) <= balance + part * (size + 2)
    <2>1. CASE part = 8
      BY <1>1, <1>2, <1>6, <2>1
    <2>2. CASE part = 16
      BY <1>1, <1>2, <1>6, <2>2
    <2> QED
      BY <2>1, <2>2
  <1> QED
    BY <1>4, <1>6, <1>7 DEF given

(* A sum of equal shares. *)
LEMMA EqualShares ==
    ASSUME NEW S, IsFiniteSet(S), NEW ring \in SUBSET S, NEW share \in Nat, NEW f,
           \A m \in S : f[m] = IF m \in ring THEN share ELSE 0
    PROVE  SumFunctionOnSet(f, S) = share * Cardinality(ring)
  <1> DEFINE T == 1..share
  <1>1. IsFiniteSet(T) /\ Cardinality(T) = share
    BY FS_Interval
  <1>2. IsFiniteSet(ring) /\ Cardinality(ring) \in Nat
    BY FS_Subset, FS_CardinalityType
  <1>3. Units(f, S) = ring \X T
    BY DEF Units
  <1> HIDE DEF T
  <1>4. Cardinality(ring \X T) = Cardinality(ring) * Cardinality(T)
    BY <1>1, <1>2, FS_Product
  <1>5. \A m \in S : f[m] \in Nat
    OBVIOUS
  <1>6. SumFunctionOnSet(f, S) = Cardinality(ring) * share
    BY <1>1, <1>3, <1>4, <1>5, SumCounts
  <1> QED
    BY <1>2, <1>6

(* Emit, with or without notary support. *)
WalletsInv == gas \in Nat /\ proxyGas \in Nat /\ nodeGas \in [RingNodes -> Nat]

EmitsWith(yield, ring, part, proxy, share) ==
    /\ ring # {} /\ part \in {8, 16} /\ proxy \in Nat
    /\ part = 8 => proxy = 0
    /\ part = 16 => proxy = (gas + yield) \div 2
    /\ share = ((((gas + yield) - proxy) * 7) \div 8) \div Cardinality(ring)
    /\ gas' = (gas + yield) - proxy - share * Cardinality(ring)
    /\ proxyGas' = proxyGas + proxy
    /\ nodeGas' = [m \in RingNodes |-> nodeGas[m] + IF m \in ring THEN share ELSE 0]

LEMMA Emitted ==
    ASSUME WalletsInv, NEW yield \in Nat, NEW ring \in SUBSET RingNodes,
           NEW part, NEW proxy, NEW share, EmitsWith(yield, ring, part, proxy, share)
    PROVE  /\ WalletsInv'
           /\ gas' + Handed = gas + yield
           /\ part * gas' >= gas + yield
           /\ part * gas' <= gas + yield + part * (Cardinality(RingNodes) + 2)
           /\ Cardinality({nodeGas'[m] - nodeGas[m] : m \in RingNodes} \ {0}) <= 1
  <1> USE DEF WalletsInv, EmitsWith
  <1> DEFINE balance == gas + yield
             size == Cardinality(ring)
             gains == [m \in RingNodes |-> nodeGas'[m] - nodeGas[m]]
  <1>1. IsFiniteSet(ring) /\ IsFiniteSet(RingNodes)
    BY AlphabetAssumption, FS_Subset
  <1>2. /\ size \in Nat \ {0} /\ balance \in Nat
        /\ Cardinality(RingNodes) \in Nat /\ size <= Cardinality(RingNodes)
    BY <1>1, FS_CardinalityType, FS_EmptySet, FS_Subset
  <1>3. /\ share \in Nat /\ share * size \in Nat
        /\ balance - proxy - share * size \in Nat
        /\ part * (balance - proxy - share * size) >= balance
        /\ part * (balance - proxy - share * size) <= balance + part * (size + 2)
    <2> HIDE DEF balance, size
    <2>1. share = (((balance - proxy) * 7) \div 8) \div size
      BY DEF balance, size
    <2>2. part = 16 => proxy = balance \div 2
      BY DEF balance
    <2> QED
      BY <1>2, <2>1, <2>2, LeftOver
  <1>4. nodeGas' \in [RingNodes -> Nat] /\ \A m \in RingNodes : gains[m] = IF m \in ring THEN share ELSE 0
    BY <1>3
  <1>5. SumFunctionOnSet(gains, RingNodes) = share * size
    <2> HIDE DEF gains
    <2> QED
      BY <1>1, <1>3, <1>4, EqualShares
  <1>6. Handed = (proxyGas' - proxyGas) + share * size
    BY <1>5 DEF Handed
  <1>7. Cardinality({nodeGas'[m] - nodeGas[m] : m \in RingNodes} \ {0}) <= 1
    <2>1. {nodeGas'[m] - nodeGas[m] : m \in RingNodes} \ {0} \subseteq {share}
      BY <1>4
    <2>2. IsFiniteSet({share}) /\ Cardinality({share}) = 1
      BY FS_Singleton
    <2> QED
      BY <2>1, <2>2, FS_Subset
  <1> DEFINE given == share * size
  <1>8. gas' = balance - proxy - given /\ given \in Nat /\ gas' \in Nat
    BY <1>3
  <1>9. gas' + Handed = gas + yield /\ proxyGas' \in Nat
    <2>1. Handed = proxy + given
      BY <1>6, <1>8
    <2>2. balance \in Int /\ gas' = balance - proxy - given
      BY <1>2, <1>8
    <2> HIDE DEF given, balance
    <2>3. gas' + Handed = balance
      BY <1>8, <2>1, <2>2
    <2>4. proxyGas' \in Nat
      OBVIOUS
    <2> QED
      BY <2>3, <2>4 DEF balance
  <1>10. part * gas' >= balance /\ part * gas' <= balance + part * (size + 2)
    BY <1>3, <1>8
  <1>11. part * (size + 2) <= part * (Cardinality(RingNodes) + 2) /\ part * gas' \in Nat
    BY <1>2, <1>8
  <1>12. part * gas' <= balance + part * (Cardinality(RingNodes) + 2)
    <2> HIDE DEF size, balance
    <2> QED
      BY <1>2, <1>8, <1>10, <1>11
  <1> QED
    BY <1>4, <1>7, <1>8, <1>9, <1>10, <1>12

LEMMA EmitWithoutNotary ==
    ASSUME WalletsInv, NEW yield \in Nat, NEW ring \in SUBSET RingNodes, Emit(yield, ring)
    PROVE  WalletsInv' /\ SharesAreKept
  <1> DEFINE part == IF NotaryDisabled THEN 8 ELSE 16
             proxy == ProxyShare(gas + yield)
             share == NodeShare(gas + yield, Cardinality(ring))
  <1>1. /\ part \in {8, 16} /\ proxy \in Nat
        /\ part = 8 => proxy = 0
        /\ part = 16 => proxy = (gas + yield) \div 2
    BY VotingAssumption DEF ProxyShare, WalletsInv
  <1>2. share = ((((gas + yield) - proxy) * 7) \div 8) \div Cardinality(ring)
    BY DEF NodeShare
  <1>3. /\ ring # {}
        /\ gas' = (gas + yield) - proxy - share * Cardinality(ring)
        /\ proxyGas' = proxyGas + proxy
    BY DEF Emit
  <1>4. nodeGas' = [m \in RingNodes |-> nodeGas[m] + IF m \in ring THEN share ELSE 0]
    BY DEF Emit
  <1> HIDE DEF part, proxy, share
  <1>5. EmitsWith(yield, ring, part, proxy, share)
    BY <1>1, <1>2, <1>3, <1>4 DEF EmitsWith
  <1>6. /\ WalletsInv'
        /\ gas' + Handed = gas + yield
        /\ part * gas' >= gas + yield
        /\ part * gas' <= gas + yield + part * (Cardinality(RingNodes) + 2)
        /\ Cardinality({nodeGas'[m] - nodeGas[m] : m \in RingNodes} \ {0}) <= 1
    BY <1>5, Emitted
  <1> QED
    BY <1>6 DEF SharesAreKept, part

LEMMA OneNumberOfNodes ==
    ASSUME NEW S
    PROVE  WithNotary!Cardinality(S) = Cardinality(S)
  BY DEF WithNotary!Cardinality, Cardinality

LEMMA OneHanded == WithNotary!Handed = Handed
  <1>1. \A f : WithNotary!SumFunctionOnSet(f, RingNodes) = SumFunctionOnSet(f, RingNodes)
    BY DEF WithNotary!SumFunctionOnSet, WithNotary!FoldFunctionOnSet, WithNotary!MapThenFoldSet,
           SumFunctionOnSet, FoldFunctionOnSet, MapThenFoldSet
  <1> QED
    BY <1>1 DEF WithNotary!Handed, Handed

LEMMA EmitWithNotary ==
    ASSUME WalletsInv, NEW yield \in Nat, NEW ring \in SUBSET RingNodes, WithNotary!Emit(yield, ring)
    PROVE  WalletsInv' /\ WithNotary!SharesAreKept
  <1> DEFINE proxy == WithNotary!ProxyShare(gas + yield)
             share == WithNotary!NodeShare(gas + yield, Cardinality(ring))
  <1>1. proxy = (gas + yield) \div 2 /\ proxy \in Nat
    BY DEF WithNotary!ProxyShare, WalletsInv
  <1>2. share = ((((gas + yield) - proxy) * 7) \div 8) \div Cardinality(ring)
    BY DEF WithNotary!NodeShare
  <1>3. /\ ring # {}
        /\ gas' = (gas + yield) - proxy - share * Cardinality(ring)
        /\ proxyGas' = proxyGas + proxy
    BY OneNumberOfNodes DEF WithNotary!Emit
  <1>4. nodeGas' = [m \in RingNodes |-> nodeGas[m] + IF m \in ring THEN share ELSE 0]
    BY OneNumberOfNodes DEF WithNotary!Emit
  <1> HIDE DEF proxy, share
  <1>5. EmitsWith(yield, ring, 16, proxy, share)
    BY <1>1, <1>2, <1>3, <1>4 DEF EmitsWith
  <1>6. /\ WalletsInv'
        /\ gas' + Handed = gas + yield
        /\ 16 * gas' >= gas + yield
        /\ 16 * gas' <= gas + yield + 16 * (Cardinality(RingNodes) + 2)
        /\ Cardinality({nodeGas'[m] - nodeGas[m] : m \in RingNodes} \ {0}) <= 1
    BY <1>5, Emitted
  <1> QED
    BY <1>6, OneNumberOfNodes, OneHanded DEF WithNotary!SharesAreKept

(* "50% of the GAS in the contract account are transferred to proxy        *)
(* contract. 43.75% of the GAS are equally distributed among all Inner     *)
(* Ring nodes. Remaining 6.25% of the GAS stay in the contract" (of Emit,  *)
(* lines 123-128; 12.5% without notary support): at least that stays, at   *)
(* most a unit for every node and two more, and nodes are paid alike,      *)
(* whatever there was and however many nodes there are.                    *)
THEOREM EmitLeavesItsShare == RegistriesSpec => EmitKeepsItsShare
  <1> DEFINE Kept == IF invoked = AlphabetWithNotary THEN WithNotary!SharesAreKept ELSE SharesAreKept
             Steps == RegistriesNext /\ UNCHANGED invoked
  <1>1. RegistriesInit => WalletsInv
    BY DEF RegistriesInit, AlphabetInit, WalletsInv
  <1>2. ASSUME WalletsInv, [Steps]_registries
        PROVE  WalletsInv' /\ [Kept]_wallets
    <2>1. CASE UNCHANGED wallets
      BY <1>2, <2>1 DEF WalletsInv, wallets
    <2>2. CASE invoked = "alphabet" /\ \E y \in Yields, ring \in SUBSET RingNodes : Emit(y, ring)
      <3>1. invoked # AlphabetWithNotary
        BY <2>2 DEF AlphabetWithNotary
      <3>2. Yields \subseteq Nat
        BY AlphabetAssumption
      <3> QED
        BY <1>2, <2>2, <3>1, <3>2, EmitWithoutNotary
    <2>3. CASE invoked = AlphabetWithNotary /\ \E y \in Yields, ring \in SUBSET RingNodes : WithNotary!Emit(y, ring)
      <3>1. Yields \subseteq Nat
        BY AlphabetAssumption
      <3> QED
        BY <1>2, <2>3, <3>1, EmitWithNotary
    <2>4. CASE UNCHANGED registries
      BY <2>1, <2>4 DEF registries, alphabetVars
    <2>5. CASE Steps
      <3>1. CASE invoked = "alphabet" /\ AlphabetNext
        BY <2>1, <2>2, <3>1 DEF AlphabetNext, Nominate, EpochPasses, alphabetVars
      <3>2. CASE invoked = AlphabetWithNotary /\ WithNotary!AlphabetNext
        BY <2>1, <2>3, <3>2 DEF WithNotary!AlphabetNext, WithNotary!Nominate, WithNotary!EpochPasses,
                                WithNotary!alphabetVars, WithNotary!wallets, wallets
      <3>3. CASE UNCHANGED alphabetVars
        BY <2>1, <3>3 DEF alphabetVars
      <3> QED
        BY <2>5, <3>1, <3>2, <3>3 DEF RegistriesNext
    <2> QED
      BY <1>2, <2>4, <2>5
  <1> HIDE DEF Kept, Steps
  <1>3. RegistriesInit /\ [][Steps]_registries => [][Kept]_wallets
    BY <1>1, <1>2, PTL
  <1> QED
    BY <1>3 DEF RegistriesSpec, EmitKeepsItsShare, Kept, Steps

=============================================================================

----------------------------- MODULE Container -----------------------------
(***************************************************************************)
(* The Container contract (container/container_contract.go): containers    *)
(* with their aliases in NNS and their extended ACLs.  (The estimations of *)
(* their sizes are in module Sidechain.)                                   *)
(*                                                                         *)
(* A container is known by its id, which determines its owner and the key  *)
(* that has signed it.  An invocation by somebody who is not an alphabet   *)
(* node only notifies the alphabet (without notary support) or panics.     *)
(* The other contracts that an invocation calls in its transaction are     *)
(* modelled as far as it changes them: NNS by its module, the ledger of    *)
(* Balance by the balances of owners and nodes, FrostFSID by its module.   *)
(* The key of an owner's containers stands for its binding.                *)
(***************************************************************************)
EXTENDS Voting, NNS

CONSTANTS
    Containers,    \* ids of containers
    OwnerOf,       \* the owner of every container
    Puts,          \* requests for containers: [cid, name, session]
    Rules,         \* requests for extended ACLs: [cid, rule]
    EstimationIds, \* decisions to start or to stop the estimations of an epoch
    FirstFunds,    \* balances of the owners in the beginning
    ContainerFee,  \* the configured fees
    AliasFee,
    OwnZone,       \* nnsRoot: the zone that the contract registers for itself
    DefaultExpire, \* defaultExpire
    OtherData      \* data of records that the committee adds itself

Self == "Container contract"
Owners == {OwnerOf[c] : c \in Containers}
NoName == "no name"
NoRule == "no rule"

ASSUME ContainerAssumption ==
    /\ Puts \subseteq [cid : Containers, name : Domains \union {NoName}, session : BOOLEAN]
    /\ \A r \in Rules : r.cid \in Containers
    /\ EstimationIds \subseteq {"startEstimation", "stopEstimation"} \X Nat
    /\ FirstFunds \in [Owners -> Nat]
    /\ ContainerFee \in Nat /\ AliasFee \in Nat /\ DefaultExpire \in Nat
    /\ OtherData \notin Containers /\ NoName \notin Domains
    /\ {Self, Committee} \subseteq Holders
    /\ OwnZone \in Domains /\ ParentOf[OwnZone] = OwnZone
    /\ \A r \in Puts : r.name # NoName => ParentOf[r.name] = ZoneOf(r.name)

VARIABLES
    stored,       \* ids of the stored containers
    alias,        \* the domain under the alias key of every container
    eacl,         \* the stored extended ACL of every container
    funds,        \* balances in the Balance contract
    bound,        \* owners whose key is bound in FrostFSID
    keyBox,       \* the ballots that FrostFSID stores
    keyCalled,    \* history: who has voted for its decisions
    touched       \* history: domains that were registered again or changed by others

FID == INSTANCE FrostFSID WITH Bindings <- Owners, box <- keyBox, called <- keyCalled

keys == <<bound, keyBox, keyCalled>>
accounts == <<funds, keys>>
vars == <<voting, nns, stored, alias, eacl, accounts, touched>>

-----------------------------------------------------------------------------
PutId(c) == <<"put", c>>
DeleteId(c) == <<"delete", c>>
RuleId(r) == <<"setEACL", r>>

Ids == {PutId(c) : c \in Containers} \union {DeleteId(c) : c \in Containers}
         \union {RuleId(r) : r \in Rules} \union EstimationIds

(* NNS, in which _deploy has registered the zone of the contract. *)
WithOwnZone ==
    /\ time = 0
    /\ names = [d \in Domains |->
                  IF d = OwnZone
                  THEN [owner |-> Self, admin |-> Nobody, expiration |-> DefaultExpire]
                  ELSE Unregistered]
    /\ records = [t \in Domains |-> [d \in Domains |-> <<>>]]
    /\ tokens = [balance |-> [h \in Holders |-> IF h = Self THEN 1 ELSE 0],
                 held |-> {<<Self, OwnZone>>}, supply |-> 1]

ContainerInit ==
    /\ WithOwnZone
    /\ stored = {}
    /\ alias = [c \in Containers |-> NoName]
    /\ eacl = [c \in Containers |-> NoRule]
    /\ funds = [a \in Owners \union Alphabet |-> IF a \in Owners THEN FirstFunds[a] ELSE 0]
    /\ FID!KeysInit
    /\ touched = {}

Init == VotingInit(Ids) /\ ContainerInit

-----------------------------------------------------------------------------
NameIsFreeIfOwned(d) ==
    /\ names[ZoneOf(d)] # Unregistered
    /\ IsAvailable(d) \/ names[d].owner \in {Committee, Self}

(* checkNiceNameAvailable returns: it panics if the zone is missing, the   *)
(* domain has a foreign owner or holds a TXT record.                       *)
NameIsFree(d) ==
    /\ names[ZoneOf(d)] # Unregistered
    /\ \/ IsAvailable(d)
       \/ names[d].owner \in {Committee, Self} /\ Txt(d) = <<>>

Fee(r) == ContainerFee + IF r.name = NoName THEN 0 ELSE AliasFee

CanAffordOne(r) == funds[OwnerOf[r.cid]] >= Fee(r)

(* The fee goes to every node of the alphabet, one of which the owner may  *)
(* be.                                                                     *)
CanAfford(r) == funds[OwnerOf[r.cid]] >= Fee(r) * Cardinality(Alphabet)

Paid(r) ==
    [a \in DOMAIN funds |->
        IF a = OwnerOf[r.cid] THEN funds[a] - Fee(r) * Cardinality(Alphabet \ {a})
        ELSE IF a \in Alphabet THEN funds[a] + Fee(r) ELSE funds[a]]

(* The domain is registered if it must be, and takes the record.           *)
CanName(d, cid, signers) ==
    /\ IF IsAvailable(d) THEN CanRegister(d, Self, signers) ELSE CanChange(d, signers)
    /\ CanAddRecord(d, cid)

Name(d, cid) ==
    /\ IF IsAvailable(d) THEN Take(d, Self, DefaultExpire) ELSE UNCHANGED <<names, tokens>>
    /\ records' = [records EXCEPT ![d][d] = Append(@, cid)]
    /\ alias' = [alias EXCEPT ![cid] = d]
    /\ touched' = IF IsAvailable(d) /\ names[d] # Unregistered THEN touched \union {d} ELSE touched
    /\ UNCHANGED time

(* Put and PutNamed.  The id of the decision leaves out the name and the   *)
(* session: the last vote determines them.                                 *)
PutNamed(n, signers, r) ==
    LET possible == r.name # NoName => CanName(r.name, r.cid, signers \union {Self}) IN
    /\ r.name # NoName => NameIsFree(r.name)
    /\ CanAfford(r)
    /\ \/ OnlyVotes(n, PutId(r.cid)) /\ UNCHANGED <<nns, stored, alias, accounts, touched>>
       \/ /\ possible
          /\ Decides(n, PutId(r.cid))
          /\ stored' = stored \union {r.cid}
          /\ funds' = Paid(r)
          /\ IF r.name = NoName THEN UNCHANGED <<nns, alias, touched>> ELSE Name(r.name, r.cid)
          /\ IF r.session THEN UNCHANGED keys ELSE FID!AddKeyIndirectly(n, OwnerOf[r.cid])
       \/ ~possible /\ Reverts(n, PutId(r.cid)) /\ UNCHANGED <<nns, stored, alias, accounts, touched>>
    /\ UNCHANGED eacl

(* The first record of a domain is of this container. *)
Answers(d, c) == Txt(d) # <<>> /\ Head(Txt(d)) = c

(* The domain of an alias is there and alive: getRecords does not panic.   *)
CanUnname(c, signers) ==
    alias[c] # NoName =>
      /\ CanRead(alias[c])
      /\ Answers(alias[c], c) => CanChange(alias[c], signers)

RecordsWithoutAlias(c) == IF alias[c] = NoName THEN records ELSE WithRecords(alias[c], <<>>)

(* deleteRecords deletes all TXT records, if the first is the container's. *)
RecordsWithout(c) ==
    IF alias[c] # NoName /\ Answers(alias[c], c) THEN WithRecords(alias[c], <<>>) ELSE records

(* A container that does not exist is silently ignored; the extended ACL   *)
(* of one that does remains.                                               *)
Delete(n, signers, c) ==
    LET possible == CanUnname(c, signers \union {Self}) IN
    /\ c \in stored
    /\ \/ OnlyVotes(n, DeleteId(c)) /\ UNCHANGED <<stored, alias, records>>
       \/ /\ possible
          /\ Decides(n, DeleteId(c))
          /\ stored' = stored \ {c}
          /\ alias' = [alias EXCEPT ![c] = NoName]
          /\ records' = RecordsWithout(c)
       \/ ~possible /\ Reverts(n, DeleteId(c)) /\ UNCHANGED <<stored, alias, records>>
    /\ UNCHANGED <<time, names, tokens, eacl, accounts, touched>>

SetEACL(n, r) ==
    /\ r.cid \in stored
    /\ \/ OnlyVotes(n, RuleId(r)) /\ UNCHANGED eacl
       \/ Decides(n, RuleId(r)) /\ eacl' = [eacl EXCEPT ![r.cid] = r.rule]
    /\ UNCHANGED <<nns, stored, alias, accounts, touched>>

(* StartContainerEstimation and StopContainerEstimation: all they do is to *)
(* notify the storage nodes.                                               *)
SwitchEstimation(n, id) ==
    /\ OnlyVotes(n, id) \/ Decides(n, id)
    /\ UNCHANGED <<nns, stored, alias, eacl, accounts, touched>>

-----------------------------------------------------------------------------
(* FrostFSID is invoked by others than this contract. *)
NextOfFrostFSID ==
    /\ \E n \in Invokers, o \in Owners : FID!AddKeyDirectly(n, o) \/ FID!RemoveKey(n, o)
    /\ UNCHANGED <<voting, nns, stored, alias, eacl, funds, touched>>

NextByCommittee ==
    /\ \E d \in Domains \ {OwnZone} :
          \/ /\ Register(d, Committee, {Committee}, Year)
             /\ touched' = IF names[d] = Unregistered THEN touched ELSE touched \union {d}
          \/ /\ names[d].expiration <= MaxTime
             /\ Renew(d, {Committee}) /\ UNCHANGED touched
          \/ /\ AddRecord(d, OtherData, {Committee}) \/ DeleteRecords(d, {Committee})
             /\ touched' = touched \union {d}
    /\ UNCHANGED <<voting, stored, alias, eacl, accounts>>

Next ==
    \/ \E n \in Invokers, others \in SUBSET {Committee} :
          \/ \E r \in Puts : PutNamed(n, {n} \union others, r)
          \/ \E c \in Containers : Delete(n, {n} \union others, c)
    \/ \E n \in Invokers, r \in Rules : SetEACL(n, r)
    \/ \E n \in Invokers, id \in EstimationIds : SwitchEstimation(n, id)
    \/ NextOfFrostFSID
    \/ NextByCommittee
    \/ Tick /\ UNCHANGED <<voting, stored, alias, eacl, accounts, touched>>
    \/ NextBlock /\ UNCHANGED <<nns, stored, alias, eacl, accounts, touched>>

Spec == Init /\ [][Next]_vars

-----------------------------------------------------------------------------
(* Every variable stays in its domain, and no owner is charged more than   *)
(* it has.                                                                 *)
TypeOK ==
    /\ VotingTypeOK(Ids)
    /\ time \in 0..MaxTime
    /\ names \in [Domains -> [owner : {Nobody, Self, Committee}, admin : {Nobody}, expiration : Nat]]
    /\ \A d \in Domains : ToSet(Txt(d)) \subseteq Containers \union {OtherData}
    /\ stored \subseteq Containers
    /\ alias \in [Containers -> Domains \union {NoName}]
    /\ eacl \in [Containers -> {r.rule : r \in Rules} \union {NoRule}]
    /\ funds \in [Owners \union Alphabet -> Nat]
    /\ bound \subseteq Owners
    /\ FID!VotingTypeOK(FID!KeyIds)
    /\ touched \subseteq Domains

(* A container that is requested under one name at most. *)
HasOneName(c) ==
    \A r, s \in Puts : r.cid = c /\ s.cid = c => r.name = s.name \/ NoName \in {r.name, s.name}

(* The alias keys of the Container contract and the TXT records of NNS     *)
(* tell the same: a container that is there has a domain exactly as long   *)
(* as the domain names it and nothing else, unless somebody else has had   *)
(* the domain in between.  (A container that is put again under another    *)
(* name leaves a record behind.)                                           *)
AliasesMatchRecords ==
    \A c \in Containers, d \in Domains \ touched :
       /\ alias[c] = d => c \in stored /\ Txt(d) = <<c>>
       /\ HasOneName(c) /\ c \in ToSet(Txt(d)) => alias[c] = d

(* "We should also check if we own the record" (line 374): no invocation   *)
(* that puts, puts again or deletes a container takes a record from a      *)
(* domain, but the deletion of the container that answers first for the    *)
(* domain of its alias.  (That takes all of them, the records of others    *)
(* too.)                                                                   *)
OthersKeepTheirNames ==
    [][<<stored, alias, funds>>' # <<stored, alias, funds>> =>
         \A d \in Domains :
            \/ IsPrefix(Txt(d), Txt(d)')
            \/ \E c \in stored \ stored' :
                  alias[c] = d /\ Answers(d, c) /\ Txt(d)' = <<>>]_vars

ApprovedChange ==
    /\ \A c \in stored' \ stored : Quorate(PutId(c))
    /\ \A c \in stored \ stored' : Quorate(DeleteId(c))
    /\ \A c \in Containers : eacl'[c] # eacl[c] =>
          \E r \in Rules : r.cid = c /\ r.rule = eacl'[c] /\ Quorate(RuleId(r))
    /\ \A o \in Owners : funds'[o] < funds[o] =>
          \E c \in Containers : OwnerOf[c] = o /\ Quorate(PutId(c))

(* Containers come, go and get extended ACLs, and owners pay for them,     *)
(* only when a quorum has asked for that since it was last done.           *)
ContainersAreApproved == [][ApprovedChange]_vars

(* "NNS record could be deleted by other means (expiration, manual), thus  *)
(* leading to failing deleteRecord and inability to delete a container"    *)
(* (lines 372-374), which the lookup before is there to avoid: a decision  *)
(* to delete a container can always be executed.                           *)
DeletesArePossible == \A c \in stored : CanUnname(c, {Self, Committee})

(* A key that a new container brings along is bound only when a quorum of  *)
(* nodes have decided Puts of its owner since it was last bound this way,  *)
(* and no key is unbound without a quorum for just that.                   *)
KeysAreApproved ==
    [][\A o \in Owners :
         /\ o \in bound' \ bound /\ funds' # funds => FID!Quorate(FID!AddKeyId(o))
         /\ o \in bound \ bound' => FID!Quorate(FID!RemoveKeyId(o))]_vars
=============================================================================

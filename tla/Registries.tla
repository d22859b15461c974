----------------------------- MODULE Registries -----------------------------
(***************************************************************************)
(* Contracts that neither call nor read one another, each deployed on its  *)
(* own: every behaviour is one of a single contract, with the ballots that *)
(* this contract collects.                                                 *)
(***************************************************************************)
EXTENDS Container, Subnet, Reports, AlphabetContract

CONSTANT Contents   \* data of TXT records in NNS

VARIABLE invoked    \* the contract that this behaviour is about

WithNotary == INSTANCE AlphabetContract WITH NotaryDisabled <- FALSE

containerVars == <<nns, stored, alias, eacl, accounts, touched>>
registries == <<invoked, voting, containerVars, subnet, lists, reports, alphabetVars>>

(* The contracts that collect votes, with the ids of their decisions. *)
Ballots == [container |-> Ids, subnet |-> SubnetIds, reports |-> ReportIds,
            alphabet |-> NominationIds]

AlphabetWithNotary == "alphabet with notary"
NameService == "nns"

RegistriesInit ==
    /\ invoked \in DOMAIN Ballots \union {AlphabetWithNotary, NameService}
    /\ VotingInit(IF invoked \in DOMAIN Ballots THEN Ballots[invoked] ELSE NominationIds)
    /\ ContainerInit
    /\ SubnetInit
    /\ ReportsInit
    /\ AlphabetInit

-----------------------------------------------------------------------------
(* Container, without the steps of others in NNS: no container has a name. *)
ContainerStep ==
    \/ \E n \in Invokers : \/ \E r \in Puts : PutNamed(n, {n}, r)
                           \/ \E c \in Containers : Delete(n, {n}, c)
                           \/ \E r \in Rules : SetEACL(n, r)
                           \/ \E id \in EstimationIds : SwitchEstimation(n, id)
    \/ NextOfFrostFSID
    \/ NextBlock /\ UNCHANGED containerVars

RegistriesNext ==
    \/ /\ invoked = "container" /\ ContainerStep
       /\ UNCHANGED <<subnet, lists, reports, alphabetVars>>
    \/ /\ invoked = "subnet" /\ SubnetNext
       /\ UNCHANGED <<containerVars, reports, alphabetVars>>
    \/ /\ invoked = "reports" /\ ReportsNext
       /\ UNCHANGED <<containerVars, subnet, lists, alphabetVars>>
    \/ /\ invoked = "alphabet" /\ AlphabetNext
       /\ UNCHANGED <<containerVars, subnet, lists, reports>>
    \/ /\ invoked = AlphabetWithNotary /\ WithNotary!AlphabetNext
       /\ UNCHANGED <<containerVars, subnet, lists, reports>>
    \/ /\ invoked = NameService /\ NNSNext(Holders \ {Self}, Contents)
       /\ UNCHANGED <<voting, stored, alias, eacl, accounts, touched,
                      subnet, lists, reports, alphabetVars>>

RegistriesSpec == RegistriesInit /\ [][RegistriesNext /\ UNCHANGED invoked]_registries

-----------------------------------------------------------------------------
(* "50% of the GAS in the contract account are transferred to proxy        *)
(* contract. 43.75% of the GAS are equally distributed among all Inner     *)
(* Ring nodes. Remaining 6.25% of the GAS stay in the contract", and       *)
(* without notary support 87.5% and 12.5% (alphabet/alphabet_contract.go,  *)
(* lines 123-128): whatever the rounding does, at least that stays, at     *)
(* most a unit for every node and two more, and nodes are paid alike.      *)
EmitKeepsItsShare ==
    [][IF invoked = AlphabetWithNotary THEN WithNotary!SharesAreKept ELSE SharesAreKept]_wallets
=============================================================================

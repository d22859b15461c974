------------------------------- MODULE Subnet -------------------------------
(***************************************************************************)
(* The Subnet contract (subnet/subnet_contract.go): subnets with an owner, *)
(* the storage nodes that belong to them and their users, who are divided  *)
(* into groups.  The owner appoints administrators for the nodes and for   *)
(* every group.                                                            *)
(*                                                                         *)
(* A list is kept as one storage key per entry, which begins with the id   *)
(* of the subnet; here it is the set of these keys.                        *)
(***************************************************************************)
EXTENDS Voting

CONSTANTS
    Subnets,      \* ids of subnets
    SubnetOwners, \* keys of their owners
    Infos,        \* descriptions of subnets
    Admins,       \* keys of administrators
    SubnetNodes,  \* keys of storage nodes
    Groups,       \* ids of groups
    SubnetUsers   \* ids of users

NoSubnet == [owner |-> "nobody", info |-> "none"]

ASSUME SubnetAssumption == NoSubnet \notin [owner : SubnetOwners, info : Infos]

VARIABLES
    subnet,       \* owner and info of every subnet
    nodeAdmins,   \* pairs of a subnet and an administrator
    nodes,        \* pairs of a subnet and a node
    clientAdmins, \* triples of a subnet, a group and an administrator
    users         \* triples of a subnet, a group and a user

lists == <<nodeAdmins, nodes, clientAdmins, users>>
subnetVars == <<voting, subnet, lists>>

-----------------------------------------------------------------------------
(* The id of the subnet is not in the id of the decision: in Put, the      *)
(* variable that holds it is redeclared in the line that computes this id. *)
SubnetPutId(owner, info) == <<"put", owner, info>>

SubnetIds == {SubnetPutId(o, i) : o \in SubnetOwners, i \in Infos}

SubnetInit ==
    /\ subnet = [s \in Subnets |-> NoSubnet]
    /\ nodeAdmins = {} /\ nodes = {} /\ clientAdmins = {} /\ users = {}

(* An existing subnet panics before the vote.  The owner signs with notary *)
(* support; without it the owner only notifies the alphabet.               *)
SubnetPut(n, s, owner, info) ==
    /\ subnet[s] = NoSubnet
    /\ \/ OnlyVotes(n, SubnetPutId(owner, info)) /\ UNCHANGED subnet
       \/ /\ Decides(n, SubnetPutId(owner, info))
          /\ subnet' = [subnet EXCEPT ![s] = [owner |-> owner, info |-> info]]
    /\ UNCHANGED lists

Exists(s) == subnet[s] # NoSubnet
Owns(k, s) == Exists(s) /\ subnet[s].owner = k

(* calledByOwnerOrAdmin, for the nodes and for a group of users *)
MayChangeNodes(k, s) == Exists(s) /\ (Owns(k, s) \/ <<s, k>> \in nodeAdmins)
MayChangeUsers(k, s, g) == Exists(s) /\ (Owns(k, s) \/ <<s, g, k>> \in clientAdmins)

OfOthers(list, s) == {entry \in list : entry[1] # s}

DeleteLeavingUsers(k, s) ==
    /\ Owns(k, s)
    /\ subnet' = [subnet EXCEPT ![s] = NoSubnet]
    /\ nodeAdmins' = OfOthers(nodeAdmins, s)
    /\ nodes' = OfOthers(nodes, s)
    /\ clientAdmins' = OfOthers(clientAdmins, s)
    /\ UNCHANGED <<voting, users>>

SubnetDelete(k, s) ==
    /\ Owns(k, s)
    /\ subnet' = [subnet EXCEPT ![s] = NoSubnet]
    /\ nodeAdmins' = OfOthers(nodeAdmins, s)
    /\ nodes' = OfOthers(nodes, s)
    /\ clientAdmins' = OfOthers(clientAdmins, s)
    /\ users' = OfOthers(users, s)
    /\ UNCHANGED voting

AddNodeAdmin(k, s, a) ==
    /\ Owns(k, s)
    /\ nodeAdmins' = nodeAdmins \union {<<s, a>>}
    /\ UNCHANGED <<voting, subnet, nodes, clientAdmins, users>>

RemoveNodeAdmin(k, s, a) ==
    /\ Owns(k, s)
    /\ nodeAdmins' = nodeAdmins \ {<<s, a>>}
    /\ UNCHANGED <<voting, subnet, nodes, clientAdmins, users>>

AddNode(k, s, m) ==
    /\ MayChangeNodes(k, s)
    /\ nodes' = nodes \union {<<s, m>>}
    /\ UNCHANGED <<voting, subnet, nodeAdmins, clientAdmins, users>>

RemoveNode(k, s, m) ==
    /\ MayChangeNodes(k, s)
    /\ nodes' = nodes \ {<<s, m>>}
    /\ UNCHANGED <<voting, subnet, nodeAdmins, clientAdmins, users>>

AddClientAdmin(k, s, g, a) ==
    /\ Owns(k, s)
    /\ clientAdmins' = clientAdmins \union {<<s, g, a>>}
    /\ UNCHANGED <<voting, subnet, nodeAdmins, nodes, users>>

RemoveClientAdmin(k, s, g, a) ==
    /\ Owns(k, s)
    /\ clientAdmins' = clientAdmins \ {<<s, g, a>>}
    /\ UNCHANGED <<voting, subnet, nodeAdmins, nodes, users>>

AddUser(k, s, g, u) ==
    /\ MayChangeUsers(k, s, g)
    /\ users' = users \union {<<s, g, u>>}
    /\ UNCHANGED <<voting, subnet, nodeAdmins, nodes, clientAdmins>>

RemoveUser(k, s, g, u) ==
    /\ MayChangeUsers(k, s, g)
    /\ users' = users \ {<<s, g, u>>}
    /\ UNCHANGED <<voting, subnet, nodeAdmins, nodes, clientAdmins>>

-----------------------------------------------------------------------------
(* What the holder of a key asks for. *)
SubnetInvocation(k) ==
    \E s \in Subnets :
       \/ SubnetDelete(k, s)
       \/ \E a \in Admins : AddNodeAdmin(k, s, a) \/ RemoveNodeAdmin(k, s, a)
       \/ \E m \in SubnetNodes : AddNode(k, s, m) \/ RemoveNode(k, s, m)
       \/ \E g \in Groups, a \in Admins : AddClientAdmin(k, s, g, a) \/ RemoveClientAdmin(k, s, g, a)
       \/ \E g \in Groups, u \in SubnetUsers : AddUser(k, s, g, u) \/ RemoveUser(k, s, g, u)

SubnetNext ==
    \/ \E n \in Invokers, s \in Subnets, o \in SubnetOwners, i \in Infos : SubnetPut(n, s, o, i)
    \/ \E k \in SubnetOwners \union Admins : SubnetInvocation(k)
    \/ NextBlock /\ UNCHANGED <<subnet, lists>>

SubnetSpec == VotingInit(SubnetIds) /\ SubnetInit /\ [][SubnetNext]_subnetVars

-----------------------------------------------------------------------------
(* A subnet that is deleted and registered again, perhaps by another       *)
(* owner, starts with empty lists: no administrator, node or user of the   *)
(* former subnet comes back.                                               *)
DeletedSubnetsLeaveNothing ==
    \A s \in Subnets : ~Exists(s) =>
       \A list \in {nodeAdmins, nodes, clientAdmins, users} : \A entry \in list : entry[1] # s

ApprovedRegistration ==
    \A s \in Subnets : subnet'[s] # subnet[s] =>
       \/ subnet'[s] = NoSubnet
       \/ subnet[s] = NoSubnet /\ Quorate(SubnetPutId(subnet'[s].owner, subnet'[s].info))

(* A subnet appears only when a quorum has asked for one of its owner with *)
(* its info since the last one was registered; several subnets of one      *)
(* owner that share an info never share a quorum, although their votes are *)
(* counted together.                                                       *)
RegistrationsAreApproved == [][ApprovedRegistration]_subnetVars
=============================================================================

----------------------------- MODULE FrostFSID -----------------------------
(***************************************************************************)
(* The FrostFSID contract (frostfsid/frostfsid_contract.go): the public    *)
(* keys that are bound to owners.                                          *)
(*                                                                         *)
(* A binding stands for an owner with the list of keys that one invocation *)
(* names.                                                                  *)
(***************************************************************************)
EXTENDS Voting

CONSTANT Bindings

VARIABLE bound   \* the bindings that are stored

AddKeyId(b) == <<"add", b>>
RemoveKeyId(b) == <<"remove", b>>

KeyIds == {AddKeyId(b) : b \in Bindings} \union {RemoveKeyId(b) : b \in Bindings}

KeysInit == bound = {} /\ VotingInit(KeyIds)

AddKeyWithoutVotes(n, b) == bound' = bound \union {b} /\ UNCHANGED voting

(* AddKey, called by the Container contract: without notary support it     *)
(* collects the votes of the nodes whose transactions have called it.      *)
AddKeyIndirectly(n, b) ==
    \/ OnlyVotes(n, AddKeyId(b)) /\ UNCHANGED bound
    \/ Decides(n, AddKeyId(b)) /\ bound' = bound \union {b}

(* AddKey, invoked by an alphabet node (or all, with notary support): no   *)
(* vote is collected.                                                      *)
AddKeyDirectly(n, b) ==
    /\ bound' = bound \union {b}
    /\ UNCHANGED voting

RemoveKey(n, b) ==
    \/ OnlyVotes(n, RemoveKeyId(b)) /\ UNCHANGED bound
    \/ Decides(n, RemoveKeyId(b)) /\ bound' = bound \ {b}
=============================================================================

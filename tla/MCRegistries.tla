---------------------------- MODULE MCRegistries ----------------------------
(* Instances for model-checking Registries. *)
EXTENDS Registries, TLC

CONSTANTS cnr, com, site, sub, c1, alice, bob, acl, v1, v2, k1, k2

(* In NNS the zones cnr and com, a name in com, and one below that name.   *)
Parents == cnr :> cnr @@ com :> com @@ site :> com @@ sub :> site
NoLongerNames == [d \in Domains |-> {}]

OnlyOwner == c1 :> alice
OnePut == {[cid |-> c1, name |-> NoName, session |-> FALSE]}
OneRule == {[cid |-> c1, rule |-> acl]}
Funds == alice :> 4
OneStop == {<<"stopEstimation", 1>>}

(* The keys of a peer and of a container begin with the bytes of epochs:   *)
(* one id goes on to be another, and epoch 0 is found under others.        *)
Report(epoch, peer, value) == [epoch |-> epoch, peer |-> peer, value |-> value]
SomeReports ==
    {Report(1, <<2, 7>>, v1), Report(1, <<2, 7>>, v2), Report(513, <<7, 8>>, v1),
     Report(0, <<1, 2>>, v1)}

Audit(epoch, cid) == [epoch |-> epoch, cid |-> cid, node |-> <<9>>]
SomeAudits == {Audit(e, <<2, 5>>) : e \in {0, 1, 2, 513}}
DistantAudits == {Audit(e, <<5, 5>>) : e \in {1, 513}}

OneNomination == {<<k1, k2>>}
=============================================================================

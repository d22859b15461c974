---------------------------- MODULE MCContainer ----------------------------
(* Domains and requests for model-checking Container. *)
EXTENDS Container, TLC

CONSTANTS zone, cdn, a, b, c1, c2, alice

(* The zone of the contract with the name a, one of the committee with b.  *)
TwoZones == zone :> zone @@ a :> zone @@ cdn :> cdn @@ b :> cdn
NoSuffixes == [d \in Domains |-> {}]

OneOwner == [c \in Containers |-> alice]

Request(cid, name, session) == [cid |-> cid, name |-> name, session |-> session]

(* One container that is put under two names, one that wants the first.    *)
RivalPuts ==
    {Request(c1, a, FALSE), Request(c1, b, TRUE), Request(c2, a, TRUE), Request(c2, NoName, TRUE)}

Funds == alice :> 7

OneStart == {<<"startEstimation", 1>>}
=============================================================================

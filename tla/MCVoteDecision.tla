-------------------------- MODULE MCVoteDecision --------------------------
(* Committees for model-checking VoteDecision. *)
EXTENDS VoteDecision

CONSTANTS n1, n2, n3, n4, n5, outsider

(* One of five keys is outside the committee: two quorums of three of the  *)
(* four members still share one of the five.                               *)
RotatingCommittees == {{n1, n2, n3, n4}, {n2, n3, n4, n5}}

ASSUME QuorumsIntersectAssumption == QuorumsIntersect
=============================================================================

----------------------------- MODULE MCBalance -----------------------------
(***************************************************************************)
(* An instance for model-checking Balance, deployed without notary         *)
(* support.  The product of all votes for all requests is too large, so    *)
(* that a behaviour is about one of two questions:                         *)
(*                                                                         *)
(*   "late votes"     four nodes vote for a deposit, a withdrawal and its  *)
(*                    cheque in any order, and ballots expire;             *)
(*   "many requests"  two owners have overlapping withdrawals and pay, and *)
(*                    the votes for a request follow one another.          *)
(***************************************************************************)
EXTENDS Balance, TLC

CONSTANTS alice, bob, lock1, lock2, d1, d2, w1, w2

VARIABLE question

(* A cheque may take a part of a lock, and one may come after its lock has *)
(* timed out.                                                              *)
TwoDeposits == {[tx |-> d1, to |-> alice, amount |-> 2], [tx |-> d2, to |-> bob, amount |-> 1]}
TwoWithdrawals ==
    {[tx |-> w1, from |-> alice, to |-> lock1, amount |-> 2, until |-> 2],
     [tx |-> w2, from |-> bob, to |-> lock2, amount |-> 1, until |-> 1]}
TwoCheques == {[tx |-> w1, from |-> lock1, amount |-> 1], [tx |-> w2, from |-> lock2, amount |-> 1]}

Payment(from, to, amount) == [from |-> from, to |-> to, amount |-> amount]
SomePayments == {Payment(alice, bob, 1), Payment(bob, alice, 2), Payment(bob, bob, 1)}

AnsweredBy(id) == {n \in Alphabet : <<n, id>> \in answered}

FewRequests ==
    /\ \A p \in answered : p[2] \in {<<"mint", d1>>, <<"lock", w1>>, <<"burn", w1>>}
    /\ payments = 0
    /\ epoch \in {0, 2}

(* At most one ballot is open, and the same nodes vote everywhere. *)
OneAfterTheOther ==
    /\ height = 0
    /\ \A i, j \in Ids : box[i] # NoBallot /\ box[j] # NoBallot => i = j
    /\ \A i, j \in Ids : AnsweredBy(i) \subseteq AnsweredBy(j) \/ AnsweredBy(j) \subseteq AnsweredBy(i)
    /\ \A i \in Ids : Cardinality(AnsweredBy(i)) <= Threshold(Alphabet)

ToTheQuestion ==
    \/ question = "late votes" /\ FewRequests
    \/ question = "many requests" /\ OneAfterTheOther

MCInit == Init /\ question \in {"late votes", "many requests"}

MCNext == Next /\ UNCHANGED question /\ ToTheQuestion'

MCSpec == MCInit /\ [][MCNext]_<<vars, question>>

(* The nodes of the alphabet are interchangeable: no request names one.    *)
NodeSymmetry == Permutations(Alphabet)
=============================================================================

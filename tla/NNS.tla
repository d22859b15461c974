-------------------------------- MODULE NNS --------------------------------
(***************************************************************************)
(* The NNS contract (nns/nns_contract.go): domains of up to three          *)
(* fragments with owners and administrators, which expire; the tokens of   *)
(* the owners; and the TXT records of the domains.                         *)
(*                                                                         *)
(* A record is stored under a token and a name: the token is the longest   *)
(* registered part of the name.  SOA records, which every domain has, and  *)
(* the syntax of names are left out.                                       *)
(***************************************************************************)
EXTENDS Integers, SequencesExt, FiniteSets

CONSTANTS
    Domains,    \* zones and names
    ParentOf,   \* the domain that a name belongs to, itself for a zone
    EndingIn,   \* the longer names that end in the text of a domain
    Holders,    \* accounts
    Committee,  \* account of the committee
    Year,       \* millisecondsInYear
    MaxTime     \* bound on the time

Nobody == "nobody"

(* The zone of a domain of up to three fragments. *)
ZoneOf(d) == ParentOf[ParentOf[d]]

ASSUME NNSAssumption ==
    /\ IsFiniteSet(Domains) /\ Nobody \notin Holders
    /\ ParentOf \in [Domains -> Domains]
    /\ \A d \in Domains : ParentOf[ZoneOf(d)] = ZoneOf(d)
    /\ EndingIn \in [Domains -> SUBSET Domains]
    /\ Year \in Nat /\ MaxTime \in Nat

VARIABLES
    time,    \* runtime.GetTime()
    names,   \* NameState of every domain
    records, \* data of the TXT records of every token and name, by record id
    tokens   \* what is stored of the tokens: [balance, held, supply]

nns == <<time, names, records, tokens>>

-----------------------------------------------------------------------------
Unregistered == [owner |-> Nobody, admin |-> Nobody, expiration |-> 0]

IsZone(d) == ParentOf[d] = d

Alive(d) == time < names[d].expiration

ParentsAlive(d) == Alive(ParentOf[d]) /\ Alive(ZoneOf(d))

(* getNameState succeeds. *)
CanRead(d) == Alive(d) /\ ParentsAlive(d)

(* For a domain of a zone that exists; IsAvailable panics without one. *)
IsAvailable(d) == ~CanRead(d)

(* tokenIDFromName: a zone is never the token of a name. *)
TokenOf(d) ==
    IF ~Alive(d) /\ Alive(ParentOf[d]) /\ ~IsZone(ParentOf[d]) THEN ParentOf[d] ELSE d

(* What getRecords finds. *)
Txt(d) == records[TokenOf(d)][d]

(* checkAdmin *)
IsAdmin(d, signers) == {names[d].owner, names[d].admin} \intersect signers # {}

CanChange(d, signers) == CanRead(TokenOf(d)) /\ IsAdmin(TokenOf(d), signers)

(* Register returns true.  A zone is registered once, even if it expires.  *)
(* The parent must not hold records of names that end like the new one.    *)
CanRegister(d, owner, signers) ==
    /\ owner \in signers
    /\ IF IsZone(d)
       THEN Committee \in signers /\ names[d] = Unregistered
       ELSE /\ ParentsAlive(d) /\ ~Alive(d)
            /\ IsAdmin(ParentOf[d], signers)
            /\ \A x \in EndingIn[d] : records[ParentOf[d]][x] = <<>>

TokensKeptByOwner(d, to) ==
    [balance |-> [tokens.balance EXCEPT ![to] = @ + 1],
     held |-> tokens.held \union {<<to, d>>},
     supply |-> tokens.supply + IF names[d] = Unregistered THEN 1 ELSE 0]

(* updateBalance of the former owner, if there is one, and of the new one. *)
TokensGivenTo(d, to) ==
    LET from == names[d].owner IN
    [balance |-> [h \in Holders |-> tokens.balance[h] - (IF h = from THEN 1 ELSE 0)
                                      + (IF h = to THEN 1 ELSE 0)],
     held |-> (tokens.held \ {<<from, d>>}) \union {<<to, d>>},
     supply |-> tokens.supply + IF from = Nobody THEN 1 ELSE 0]

-----------------------------------------------------------------------------
(* Register, after its checks: it leaves the records of a former owner     *)
(* where they are.                                                         *)
Take(d, owner, expire) ==
    /\ names' = [names EXCEPT ![d] =
                   [owner |-> owner, admin |-> Nobody, expiration |-> time + expire]]
    /\ tokens' = TokensGivenTo(d, owner)

Register(d, owner, signers, expire) ==
    /\ CanRegister(d, owner, signers)
    /\ Take(d, owner, expire)
    /\ UNCHANGED <<time, records>>

Renew(d, signers) ==
    /\ CanRead(d) /\ IsAdmin(d, signers)
    /\ names' = [names EXCEPT ![d].expiration = @ + Year]
    /\ UNCHANGED <<time, records, tokens>>

(* Transfer does not look at the parents.  Sending a domain to its owner   *)
(* changes nothing.                                                        *)
TransferDomain(d, to, signers) ==
    /\ Alive(d)
    /\ names[d].owner \in signers \ {to}
    /\ names' = [names EXCEPT ![d].owner = to, ![d].admin = Nobody]
    /\ tokens' = TokensGivenTo(d, to)
    /\ UNCHANGED <<time, records>>

(* The new administrator, if any, signs too. *)
SetAdmin(d, admin, signers) ==
    /\ CanRead(d)
    /\ names[d].owner \in signers
    /\ admin \in signers \union {Nobody}
    /\ names' = [names EXCEPT ![d].admin = admin]
    /\ UNCHANGED <<time, records, tokens>>

CanAddRecord(d, data) == data \notin ToSet(Txt(d))

(* The records of a name, put by one of the record operations. *)
WithRecords(d, list) == [records EXCEPT ![TokenOf(d)][d] = list]

AddRecord(d, data, signers) ==
    /\ CanChange(d, signers)
    /\ CanAddRecord(d, data)
    /\ records' = WithRecords(d, Append(Txt(d), data))
    /\ UNCHANGED <<time, names, tokens>>

(* SetRecord overwrites one record, and may repeat another. *)
SetRecord(d, i, data, signers) ==
    /\ CanChange(d, signers)
    /\ i \in DOMAIN Txt(d)
    /\ records' = WithRecords(d, [Txt(d) EXCEPT ![i] = data])
    /\ UNCHANGED <<time, names, tokens>>

DeleteRecords(d, signers) ==
    /\ CanChange(d, signers)
    /\ records' = WithRecords(d, <<>>)
    /\ UNCHANGED <<time, names, tokens>>

Tick ==
    /\ time < MaxTime
    /\ time' = time + 1
    /\ UNCHANGED <<names, records, tokens>>

(* What the signers of a transaction may do to a domain. *)
DomainStep(d, signers, people, data) ==
    \/ \E owner \in signers : Register(d, owner, signers, Year)
    \/ names[d].expiration < MaxTime /\ Renew(d, signers)
    \/ \E to \in people : TransferDomain(d, to, signers)
    \/ \E admin \in signers \union {Nobody} : SetAdmin(d, admin, signers)
    \/ \E x \in data : \/ AddRecord(d, x, signers)
                       \/ \E i \in 1..2 : SetRecord(d, i, x, signers)
    \/ DeleteRecords(d, signers)

NNSNext(people, data) ==
    \/ \E d \in Domains, signers \in SUBSET people : DomainStep(d, signers, people, data)
    \/ Tick

-----------------------------------------------------------------------------
(* The tokens tell who owns which domains, those included that have        *)
(* expired: the supply, the balances and the lists of the accounts are     *)
(* kept apart from the domains, by two methods (Register also takes from   *)
(* a former owner), and agree with them.                                   *)
TokensMatchNames ==
    LET registered == {d \in Domains : names[d] # Unregistered} IN
    /\ tokens.supply = Cardinality(registered)
    /\ tokens.held = {<<names[d].owner, d>> : d \in registered}
    /\ \A h \in Holders :
          tokens.balance[h] = Cardinality({d \in registered : names[d].owner = h})
=============================================================================

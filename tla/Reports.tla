------------------------------ MODULE Reports ------------------------------
(***************************************************************************)
(* The two contracts that keep reports of the Inner Ring under keys that   *)
(* begin with the epoch: Reputation (reputation/reputation_contract.go),   *)
(* which collects votes and counts the reports about a peer, and Audit     *)
(* (audit/audit_contract.go), where each inner ring node stores results    *)
(* of its own.                                                             *)
(*                                                                         *)
(* Keys are sequences of bytes, because the listings search by prefix and  *)
(* the bytes of an epoch have no fixed length.                             *)
(***************************************************************************)
EXTENDS Voting, SequencesExt

CONSTANTS
    Reputations,  \* reports for Reputation: [epoch, peer, value]
    Audits,       \* results for Audit: [epoch, cid, node]
    MaxReports    \* bound on the reports with one id

(* An epoch takes at most two bytes here.                                  *)
Byte == 0..255
Epochs == 0..32767

ASSUME ReportsAssumption ==
    /\ \A r \in Reputations : r.epoch \in Epochs /\ r.peer \in Seq(Byte)
    /\ \A r \in Audits : r.epoch \in Epochs /\ r.cid \in Seq(Byte) /\ r.node \in Seq(Byte)
    /\ MaxReports \in 0..127

VARIABLES
    counts,   \* what Reputation stores under the count keys
    values,   \* and under the value keys
    audited,  \* the keys of Audit
    reported  \* history: the values that were decided for every id

reports == <<counts, values, audited, reported>>

-----------------------------------------------------------------------------
(* An integer as NeoVM turns it into bytes: little-endian, as short as the *)
(* sign bit allows, and empty for zero.                                    *)
Bytes(n) ==
    IF n = 0 THEN <<>>
    ELSE IF n < 128 THEN <<n>>
    ELSE <<n % 256, n \div 256>>

PeerFirst(epoch, peer) == peer \o Bytes(epoch)

(* storageID of Reputation; votes are collected for it too. *)
StorageID(epoch, peer) == Bytes(epoch) \o peer

IdOf(r) == StorageID(r.epoch, r.peer)

ReportIds == {IdOf(r) : r \in Reputations}

ReportsInit ==
    /\ counts = [id \in ReportIds |-> 0]
    /\ values = <<>>
    /\ audited = {}
    /\ reported = [id \in ReportIds |-> <<>>]

ValueKeyWithoutCount(id, count) == id

ValueKey(id, count) == id \o Bytes(count)

(* Put of Reputation: the value of the last voter is stored, under the new *)
(* count.                                                                  *)
PutReputation(n, r) ==
    LET id == IdOf(r) IN
    /\ \/ OnlyVotes(n, id) /\ UNCHANGED <<counts, values, reported>>
       \/ /\ counts[id] < MaxReports
          /\ Decides(n, id)
          /\ counts' = [counts EXCEPT ![id] = @ + 1]
          /\ LET key == ValueKey(id, counts[id] + 1) IN
             values' = [k \in DOMAIN values \union {key} |-> IF k = key THEN r.value ELSE values[k]]
          /\ reported' = [reported EXCEPT ![id] = Append(@, r.value)]
    /\ UNCHANGED audited

(* GetByID; its list as the set of the keys that are found. *)
KeysByID(id) == {k \in DOMAIN values : IsPrefix(id, k)}

ListByEpoch(epoch) == {id \in ReportIds : counts[id] # 0 /\ IsPrefix(Bytes(epoch), id)}

(* ID of Audit; the hash of the node's key is a short key of its own. *)
AuditID(r) == Bytes(r.epoch) \o r.cid \o r.node

(* Put of Audit: a node of the inner ring signs its result, and replaces   *)
(* the one that it has stored before.                                      *)
PutAudit(r) ==
    /\ audited' = audited \union {AuditID(r)}
    /\ UNCHANGED <<voting, counts, values, reported>>

AuditsByEpoch(epoch) == {id \in audited : IsPrefix(Bytes(epoch), id)}

AuditsByCID(epoch, cid) == {id \in audited : IsPrefix(Bytes(epoch) \o cid, id)}

ReportsNext ==
    \/ \E n \in Invokers, r \in Reputations : PutReputation(n, r)
    \/ \E r \in Audits : PutAudit(r)
    \/ NextBlock /\ UNCHANGED reports

-----------------------------------------------------------------------------
(* Nothing that was decided is overwritten, lost or invented: the id is    *)
(* listed under its epoch, GetByID finds the value of every decision under *)
(* its number, and what it finds of another id, which an id can go on to   *)
(* be, is of one with another length.                                      *)
ReportsAreKept ==
    \A r \in Reputations : LET id == IdOf(r) IN
       /\ reported[id] # <<>> => id \in ListByEpoch(r.epoch)
       /\ \A i \in DOMAIN reported[id] :
             ValueKey(id, i) \in KeysByID(id) /\ values[ValueKey(id, i)] = reported[id][i]
       /\ \A k \in KeysByID(id) : \E other \in ReportIds : \E i \in DOMAIN reported[other] :
             k = ValueKey(other, i) /\ (Len(other) = Len(id) => other = id)

(* A listing has all of the epoch.  It may have more: the listing of 0,    *)
(* whose prefix is empty, has everything; a report of epoch 0, whose key   *)
(* begins with the peer or container, is under every epoch that this       *)
(* begins with; and the bytes of an epoch can begin another, but only one  *)
(* that is a multiple of 256 away, so that nobody who lists an epoch meets *)
(* those around it.                                                        *)
Mixes(e, epoch, rest) ==
    \/ e = 0
    \/ epoch = 0 /\ IsPrefix(Bytes(e), rest)
    \/ (epoch - e) % 256 = 0

ListingsMixOnlyDistantEpochs ==
    /\ \A e \in {r.epoch : r \in Reputations} : \A r \in Reputations :
          /\ r.epoch = e /\ counts[IdOf(r)] # 0 => IdOf(r) \in ListByEpoch(e)
          /\ IdOf(r) \in ListByEpoch(e) => Mixes(e, r.epoch, r.peer)
    /\ \A e \in {r.epoch : r \in Audits} : \A r \in Audits :
          /\ r.epoch = e /\ AuditID(r) \in audited =>
                AuditID(r) \in AuditsByEpoch(e) \intersect AuditsByCID(e, r.cid)
          /\ AuditID(r) \in AuditsByEpoch(e) => Mixes(e, r.epoch, r.cid \o r.node)

(* "ListByEpoch method returns a list of DataAuditResult IDs generated     *)
(* during the specified epoch" (audit/audit_contract.go, lines 142-143).   *)
ListingsAreOfTheirEpoch ==
    \A e \in {r.epoch : r \in Audits} : \A r \in Audits :
       AuditID(r) \in AuditsByEpoch(e) => r.epoch = e
=============================================================================

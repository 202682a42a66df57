---------------------------- MODULE AuditWriter ----------------------------
(***************************************************************************)
(* The RPO audit of crdblab/phases/p4_chaos.py: a thread that inserts      *)
(* fresh sequence numbers one after another and sorts each of them into    *)
(* acknowledged, ambiguous or refused, and the owner that stops it, joins  *)
(* it for a bounded time and compares its record with the table.           *)
(*                                                                         *)
(* The database is external.  A statement that was sent takes effect or    *)
(* dies there whatever the client has been told; a row that took effect    *)
(* may be lost by the fault.  The CREATE of the table is not checked by    *)
(* the caller, so rows of an earlier run may still be in it.               *)
(***************************************************************************)
EXTENDS Integers, Sequences, FiniteSets

CONSTANTS
  MaxWrites,   \* bound of the model: numbers the writer draws
  StaleRows    \* bound of the model: rows an earlier run may have left

ASSUME MaxWritesAssumption == MaxWrites \in Nat
ASSUME StaleRowsAssumption == StaleRows \subseteq 1 .. MaxWrites

VARIABLES
  phase,       \* the owner: new, writing, stopping, stopped, snapshot, compared
  joined,      \* the bounded join found the thread ended
  astop,       \* the _stop event
  apc,         \* the writer: off, loop, insert, note, done
  aseq,        \* its local seq
  acknowledged, ambiguous, refused,   \* the sets of the same names
  attempts,    \* audit.attempts, without the times
  present,     \* what the SELECT of collect() returned
  lost,        \* AuditResult.lost
  inflight,    \* external: statements sent and neither applied nor dead
  committed,   \* external: statements of this run that took effect
  stale,       \* external: rows of an earlier run
  gone         \* external: rows the cluster lost

ownerVars == <<phase, joined, astop, present, lost>>
writerVars == <<apc, aseq, acknowledged, ambiguous, refused, attempts>>
tableVars == <<inflight, committed, stale, gone>>
auditVars == <<ownerVars, writerVars, tableVars>>

Numbers == 1 .. MaxWrites
Outcomes == {"ack", "ambiguous", "refused"}

(* The rows of rpo_audit.                                                  *)
Table == (stale \cup committed) \ gone

AuditInit ==
  /\ phase = "new" /\ joined = FALSE /\ astop = FALSE
  /\ apc = "off" /\ aseq = 0
  /\ acknowledged = {} /\ ambiguous = {} /\ refused = {} /\ attempts = <<>>
  /\ present = {} /\ lost = {}
  /\ inflight = {} /\ committed = {} /\ stale \in SUBSET StaleRows /\ gone = {}

-----------------------------------------------------------------------------
(* The owner.                                                              *)

Enter ==
  /\ phase = "new"
  /\ phase' = "writing"
  /\ apc' = "loop"
  /\ UNCHANGED <<joined, astop, present, lost, aseq, acknowledged, ambiguous,
                 refused, attempts, tableVars>>

RequestStop ==
  /\ phase = "writing"
  /\ phase' = "stopping"
  /\ astop' = TRUE
  /\ UNCHANGED <<joined, present, lost, writerVars, tableVars>>

Join ==
  /\ phase = "stopping" /\ apc = "done"
  /\ phase' = "stopped"
  /\ joined' = TRUE
  /\ UNCHANGED <<astop, present, lost, writerVars, tableVars>>

(* join(timeout=10) gave up: "a writer still wedged just leaves a coverage *)
(* gap".  The thread lives on.                                             *)
JoinTimesOut ==
  /\ phase = "stopping" /\ apc # "done"
  /\ phase' = "stopped"
  /\ UNCHANGED <<joined, astop, present, lost, writerVars, tableVars>>

(* collect(), first half: what the table holds.                            *)
Snapshot ==
  /\ phase = "stopped"
  /\ phase' = "snapshot"
  /\ present' = Table
  /\ UNCHANGED <<joined, astop, lost, writerVars, tableVars>>

(* Slip: whatever is not known to be refused counts as acknowledged.       *)
CompareAll ==
  /\ phase = "snapshot"
  /\ phase' = "compared"
  /\ lost' = (acknowledged \cup ambiguous) \ present
  /\ UNCHANGED <<joined, astop, present, writerVars, tableVars>>

(* collect(), second half: against the writer's sets as they are now.      *)
Compare ==
  /\ phase = "snapshot"
  /\ phase' = "compared"
  /\ lost' = acknowledged \ present
  /\ UNCHANGED <<joined, astop, present, writerVars, tableVars>>

-----------------------------------------------------------------------------
(* The writer: _loop.                                                      *)

(* The while test, the next number, and the INSERT on its way (or not: the *)
(* connection may have to be opened first, and that may fail).             *)
Begin ==
  /\ apc = "loop" /\ ~astop /\ aseq < MaxWrites
  /\ aseq' = aseq + 1
  /\ inflight' = inflight \cup {aseq + 1}
  /\ apc' = "insert"
  /\ UNCHANGED <<ownerVars, acknowledged, ambiguous, refused, attempts,
                 committed, stale, gone>>

WriterEnds ==
  /\ apc = "loop" /\ astop
  /\ apc' = "done"
  /\ UNCHANGED <<ownerVars, aseq, acknowledged, ambiguous, refused, attempts,
                 tableVars>>

(* cur.execute returned.  The row may already be lost again.               *)
Acknowledged ==
  /\ apc = "insert" /\ aseq \in committed
  /\ acknowledged' = acknowledged \cup {aseq}
  /\ apc' = "note"
  /\ UNCHANGED <<ownerVars, aseq, ambiguous, refused, attempts, tableVars>>

(* The connection failed; the statement may still be on its way.           *)
Ambiguous ==
  /\ apc = "insert"
  /\ ambiguous' = ambiguous \cup {aseq}
  /\ apc' = "note"
  /\ UNCHANGED <<ownerVars, aseq, acknowledged, refused, attempts, tableVars>>

(* The database rejected the statement, for one because the row exists.    *)
Refused ==
  /\ apc = "insert" /\ aseq \in inflight
  /\ inflight' = inflight \ {aseq}
  /\ refused' = refused \cup {aseq}
  /\ apc' = "note"
  /\ UNCHANGED <<ownerVars, aseq, acknowledged, ambiguous, attempts,
                 committed, stale, gone>>

Outcome == IF aseq \in acknowledged THEN "ack"
           ELSE IF aseq \in ambiguous THEN "ambiguous" ELSE "refused"

(* attempts.append, after the set was changed; a failed connection is      *)
(* closed; then the wait of one interval.                                  *)
Note ==
  /\ apc = "note"
  /\ attempts' = Append(attempts, [seq |-> aseq, outcome |-> Outcome])
  /\ apc' = "loop"
  /\ UNCHANGED <<ownerVars, aseq, acknowledged, ambiguous, refused, tableVars>>

-----------------------------------------------------------------------------
(* External: the database.                                                 *)

(* The INSERT takes effect, even after the client gave up on it.           *)
Commit(n) ==
  /\ n \in inflight \ Table
  /\ inflight' = inflight \ {n}
  /\ committed' = committed \cup {n}
  /\ UNCHANGED <<ownerVars, writerVars, stale, gone>>

(* The statement never reaches the table.                                  *)
Die(n) ==
  /\ n \in inflight
  /\ inflight' = inflight \ {n}
  /\ UNCHANGED <<ownerVars, writerVars, committed, stale, gone>>

(* A failover loses a row.  A loss after the SELECT cannot be seen by the  *)
(* comparison and is left out.                                             *)
Lose(n) ==
  /\ phase \in {"new", "writing", "stopping", "stopped"}
  /\ n \in committed \ gone
  /\ gone' = gone \cup {n}
  /\ UNCHANGED <<ownerVars, writerVars, inflight, committed, stale>>

-----------------------------------------------------------------------------
Owner == Enter \/ RequestStop \/ Join \/ JoinTimesOut \/ Snapshot \/ Compare
Writer == Begin \/ WriterEnds \/ Acknowledged \/ Ambiguous \/ Refused \/ Note
Database == \E n \in Numbers : Commit(n) \/ Die(n) \/ Lose(n)

AuditNext == Owner \/ Writer \/ Database

AuditSpec == AuditInit /\ [][AuditNext]_auditVars

-----------------------------------------------------------------------------
AuditTypeOK ==
  /\ phase \in {"new", "writing", "stopping", "stopped", "snapshot", "compared"}
  /\ joined \in BOOLEAN /\ astop \in BOOLEAN
  /\ apc \in {"off", "loop", "insert", "note", "done"}
  /\ aseq \in 0 .. MaxWrites
  /\ acknowledged \subseteq Numbers /\ ambiguous \subseteq Numbers
  /\ refused \subseteq Numbers
  /\ attempts \in Seq([seq : Numbers, outcome : Outcomes])
  /\ present \subseteq Numbers /\ lost \subseteq Numbers
  /\ inflight \subseteq Numbers /\ committed \subseteq Numbers
  /\ stale \subseteq Numbers /\ gone \subseteq Numbers

(* Each number is sorted once: the three sets are disjoint, the series has *)
(* every number at most once and in the order drawn, and says of each what *)
(* the sets say ("Sequence numbers are never retried").                    *)
SortedOnce ==
  /\ acknowledged \cap ambiguous = {}
  /\ (acknowledged \cup ambiguous) \cap refused = {}
  /\ \A i, j \in DOMAIN attempts : i < j => attempts[i].seq < attempts[j].seq
  /\ \A i \in DOMAIN attempts :
       \/ attempts[i].outcome = "ack" /\ attempts[i].seq \in acknowledged
       \/ attempts[i].outcome = "ambiguous" /\ attempts[i].seq \in ambiguous
       \/ attempts[i].outcome = "refused" /\ attempts[i].seq \in refused

(* If the writer was joined in time, what is reported lost is exactly the  *)
(* acknowledged rows the cluster lost: leftovers of an earlier run, late   *)
(* commits and ambiguous writes neither make nor hide an RPO violation.    *)
RpoExact == phase = "compared" /\ joined => lost = acknowledged \cap gone

(* "Only an acknowledged write later missing from the table is data loss", *)
(* said of every run, joined or not.                                       *)
ReportedLossIsReal == phase = "compared" => lost \subseteq gone
=============================================================================

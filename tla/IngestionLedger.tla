--------------------------- MODULE IngestionLedger ---------------------------
(***************************************************************************)
(* What ingestion promises, without its requests, phases and failures: a   *)
(* snapshot is persisted before it is indexed, and a job may be recorded   *)
(* as succeeded only after both.  A recorded failure is final; a recorded  *)
(* success is, unless the commit that recorded it may go unacknowledged.   *)
(***************************************************************************)
CONSTANTS
    Attempts,     \* ingestion attempts
    Snapshots,    \* source snapshots
    Missing,      \* the snapshot of an attempt that has no job yet
    MayOverturn   \* whether a success may still be turned into a failure

VARIABLES
    status,       \* the audit status of each attempt's job
    subject,      \* the snapshot each job is about
    persisted,    \* snapshots whose authoritative rows are complete
    indexed       \* snapshots whose passages are all in the derived index

ledgerVars == <<status, subject, persisted, indexed>>

LedgerInit ==
    /\ status = [a \in Attempts |-> "none"]
    /\ subject = [a \in Attempts |-> Missing]
    /\ persisted = {}
    /\ indexed = {}

Begin(a, s) ==
    /\ status[a] = "none"
    /\ status' = [status EXCEPT ![a] = "running"]
    /\ subject' = [subject EXCEPT ![a] = s]
    /\ UNCHANGED <<persisted, indexed>>

Persist(s) ==
    /\ persisted' = persisted \cup {s}
    /\ UNCHANGED <<status, subject, indexed>>

Index(s) ==
    /\ s \in persisted
    /\ indexed' = indexed \cup {s}
    /\ UNCHANGED <<status, subject, persisted>>

Succeed(a) ==
    /\ status[a] = "running"
    /\ subject[a] \in persisted \cap indexed
    /\ status' = [status EXCEPT ![a] = "succeeded"]
    /\ UNCHANGED <<subject, persisted, indexed>>

Fail(a) ==
    /\ status[a] = "running" \/ (MayOverturn /\ status[a] = "succeeded")
    /\ status' = [status EXCEPT ![a] = "failed"]
    /\ UNCHANGED <<subject, persisted, indexed>>

LedgerNext ==
    \/ \E a \in Attempts : Succeed(a) \/ Fail(a) \/ \E s \in Snapshots : Begin(a, s)
    \/ \E s \in Snapshots : Persist(s) \/ Index(s)

LedgerSpec == LedgerInit /\ [][LedgerNext]_ledgerVars
==============================================================================

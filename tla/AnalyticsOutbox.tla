--------------------------- MODULE AnalyticsOutbox ---------------------------
(***************************************************************************)
(* The analytics outbox: committed ledger events wait in a Postgres table  *)
(* until a worker has inserted them into ClickHouse.  Every replica of the *)
(* gateway runs a worker; they share the table through leases.  A worker   *)
(* that dies is replaced by one with another id.                           *)
(***************************************************************************)
EXTENDS Integers, FiniteSets

CONSTANTS
    Events,       \* ledger events, numbered in the order (occurred_at, id)
    Workers,      \* worker ids that ever exist
    Nobody,       \* locked_by is null
    BatchSize,    \* ANALYTICS_BATCH_SIZE
    MaxAttempts,  \* ANALYTICS_MAX_ATTEMPTS
    MaxFaults     \* bound: failed calls, dead workers and leases outlived

ASSUME OutboxAssumption ==
    /\ Events \subseteq Nat
    /\ IsFiniteSet(Events)
    /\ Nobody \notin Workers
    /\ BatchSize \in Nat \ {0}
    /\ MaxAttempts \in Nat \ {0}
    /\ MaxFaults \in Nat

VARIABLES
    appended,   \* rows of analytics_outbox
    attempts,   \* attempts
    lockedBy,   \* locked_by
    leaseOver,  \* rows whose locked_at is older than the lease timeout
    backedOff,  \* rows whose available_at is in the future
    processed,  \* rows with processed_at
    warehouse,  \* events ClickHouse holds
    phase,      \* where each worker is between two awaits
    batch,      \* the rows it claimed; while it marks failures, those left to mark
    stopping,   \* workers told to stop
    faults

rowVars == <<appended, attempts, lockedBy, leaseOver, backedOff, processed>>
vars == <<appended, attempts, lockedBy, leaseOver, backedOff, processed, warehouse,
          phase, batch, stopping, faults>>

Init ==
    /\ appended = {}
    /\ attempts = [e \in Events |-> 0]
    /\ lockedBy = [e \in Events |-> Nobody]
    /\ leaseOver = {}
    /\ backedOff = {}
    /\ processed = {}
    /\ warehouse = {}
    /\ phase = [w \in Workers |-> "off"]
    /\ batch = [w \in Workers |-> {}]
    /\ stopping = {}
    /\ faults = 0

Enter(w, p) == phase' = [phase EXCEPT ![w] = p]

Fault == faults < MaxFaults /\ faults' = faults + 1

-----------------------------------------------------------------------------
(* The table.                                                              *)

\* The transaction of a bundle or a settlement, or the backfill, adds a row; a second one
\* for the same event is a conflict that does nothing.
AppendEvent(e) ==
    /\ appended' = appended \cup {e}
    /\ UNCHANGED <<attempts, lockedBy, leaseOver, backedOff, processed, warehouse, phase,
                   batch, stopping, faults>>

\* Variation: a poison row is tried again.
Claimable_Poison ==
    {e \in appended \ (processed \cup backedOff) : lockedBy[e] = Nobody \/ e \in leaseOver}

\* Variation: processed_at is not looked at.
Claimable_Processed ==
    {e \in appended \ backedOff :
        attempts[e] < MaxAttempts /\ (lockedBy[e] = Nobody \/ e \in leaseOver)}

\* Variation: only rows nobody locks are candidates.
Claimable_NoLease ==
    {e \in appended \ (processed \cup backedOff) :
        attempts[e] < MaxAttempts /\ lockedBy[e] = Nobody}

\* Variation: the age of the lock is not looked at.
Claimable_AnyLease ==
    {e \in appended \ (processed \cup backedOff) : attempts[e] < MaxAttempts}

Claimable ==
    {e \in appended \ (processed \cup backedOff) :
        attempts[e] < MaxAttempts /\ (lockedBy[e] = Nobody \/ e \in leaseOver)}

\* The oldest candidates, as many as a batch takes.
Oldest(candidates) ==
    {e \in candidates : Cardinality({f \in candidates : f < e}) < BatchSize}

-----------------------------------------------------------------------------
(* A worker.                                                               *)

Start(w) ==
    /\ phase[w] = "off"
    /\ Enter(w, "waiting")
    /\ UNCHANGED <<rowVars, warehouse, batch, stopping, faults>>

\* The update of claim.
SetClaimed(w, claimed) ==
    /\ attempts' = [e \in Events |-> IF e \in claimed THEN attempts[e] + 1 ELSE attempts[e]]
    /\ lockedBy' = [e \in Events |-> IF e \in claimed THEN w ELSE lockedBy[e]]
    /\ leaseOver' = leaseOver \ claimed
    /\ UNCHANGED <<appended, backedOff, processed>>

\* tick and claim: one transaction, which skips the rows another one is updating.  When its
\* commit takes effect and the answer is lost, the worker does not know of its rows.
Claim(w) ==
    /\ phase[w] = "waiting"
    /\ w \notin stopping
    /\ \E held \in SUBSET Claimable :
          LET claimed == Oldest(Claimable \ held)
          IN  /\ claimed # {}
              /\ SetClaimed(w, claimed)
              /\ \/ /\ batch' = [batch EXCEPT ![w] = claimed]
                    /\ Enter(w, "inserting")
                    /\ UNCHANGED faults
                 \/ /\ Fault
                    /\ UNCHANGED <<phase, batch>>
    /\ UNCHANGED <<warehouse, stopping>>

\* Variation: a request that was sent counts as confirmed.
Insert_Unconfirmed(w) ==
    /\ phase[w] = "inserting"
    /\ \E arrived \in {{}, batch[w]} : warehouse' = warehouse \cup arrived
    /\ Enter(w, "inserted")
    /\ UNCHANGED <<rowVars, batch, stopping, faults>>

\* ClickHouse confirms the batch.
Insert(w) ==
    /\ phase[w] = "inserting"
    /\ warehouse' = warehouse \cup batch[w]
    /\ Enter(w, "inserted")
    /\ UNCHANGED <<rowVars, batch, stopping, faults>>

\* The request fails; what it sent may have arrived all the same.
InsertFails(w) ==
    /\ phase[w] = "inserting"
    /\ Fault
    /\ \E arrived \in SUBSET batch[w] : warehouse' = warehouse \cup arrived
    /\ Enter(w, "failing")
    /\ UNCHANGED <<rowVars, batch, stopping>>

\* Rows of the batch that are still this worker's.
Owned(w) == {e \in batch[w] : lockedBy[e] = w}

\* The update of markProcessed.
SetProcessed(w) ==
    /\ processed' = processed \cup Owned(w)
    /\ lockedBy' = [e \in Events |-> IF e \in Owned(w) THEN Nobody ELSE lockedBy[e]]
    /\ leaseOver' = leaseOver \ Owned(w)
    /\ UNCHANGED <<appended, attempts, backedOff>>

MarkProcessed(w) ==
    /\ phase[w] = "inserted"
    /\ SetProcessed(w)
    /\ batch' = [batch EXCEPT ![w] = {}]
    /\ Enter(w, "waiting")
    /\ UNCHANGED <<warehouse, stopping, faults>>

\* The update fails, before or after it took effect: the batch counts as failed.
MarkProcessedFails(w) ==
    /\ phase[w] = "inserted"
    /\ Fault
    /\ SetProcessed(w) \/ UNCHANGED rowVars
    /\ Enter(w, "failing")
    /\ UNCHANGED <<warehouse, batch, stopping>>

\* Variation: the update does not look at locked_by.
MarkFailed_Anybodys(w) ==
    /\ phase[w] = "failing"
    /\ \E e \in batch[w] :
          /\ batch' = [batch EXCEPT ![w] = @ \ {e}]
          /\ lockedBy' = [lockedBy EXCEPT ![e] = Nobody]
          /\ leaseOver' = leaseOver \ {e}
          /\ backedOff' = IF attempts[e] < MaxAttempts THEN backedOff \cup {e} ELSE backedOff
    /\ UNCHANGED <<appended, attempts, processed, warehouse, phase, stopping, faults>>

\* markFailed: one update per row of the batch.
MarkFailed(w) ==
    /\ phase[w] = "failing"
    /\ \E e \in batch[w] :
          /\ batch' = [batch EXCEPT ![w] = @ \ {e}]
          /\ \/ /\ lockedBy[e] = w
                /\ lockedBy' = [lockedBy EXCEPT ![e] = Nobody]
                /\ leaseOver' = leaseOver \ {e}
                /\ backedOff' = IF attempts[e] < MaxAttempts THEN backedOff \cup {e}
                                ELSE backedOff
             \/ /\ lockedBy[e] # w
                /\ UNCHANGED <<lockedBy, leaseOver, backedOff>>
    /\ UNCHANGED <<appended, attempts, processed, warehouse, phase, stopping, faults>>

\* The tick ends when the loop does, or when one of its updates throws: the rows left keep
\* their lock.
FailingEnds(w) ==
    /\ phase[w] = "failing"
    /\ \/ batch[w] = {} /\ UNCHANGED faults
       \/ batch[w] # {} /\ Fault
    /\ batch' = [batch EXCEPT ![w] = {}]
    /\ Enter(w, "waiting")
    /\ UNCHANGED <<rowVars, warehouse, stopping>>

\* Another replica stays.
Replaceable(w) ==
    \E v \in Workers \ {w} : phase[v] \notin {"stopped", "gone"} /\ v \notin stopping

\* stop(): no tick claims any more.
Stop(w) ==
    /\ phase[w] \notin {"off", "stopped", "gone"}
    /\ w \notin stopping
    /\ Replaceable(w)
    /\ stopping' = stopping \cup {w}
    /\ UNCHANGED <<rowVars, warehouse, phase, batch, faults>>

\* Variation: the worker leaves without releasing its claims.
Release_Nothing(w) ==
    /\ w \in stopping
    /\ phase[w] = "waiting"
    /\ Enter(w, "stopped")
    /\ UNCHANGED <<rowVars, warehouse, batch, stopping, faults>>

\* stop() goes on when the tick in flight has ended; a release that fails is ignored.
Release(w) ==
    /\ w \in stopping
    /\ phase[w] = "waiting"
    /\ \/ /\ lockedBy' = [e \in Events |-> IF lockedBy[e] = w THEN Nobody ELSE lockedBy[e]]
          /\ leaseOver' = {e \in leaseOver : lockedBy[e] # w}
          /\ Enter(w, "stopped")
          /\ UNCHANGED <<appended, attempts, backedOff, processed, faults>>
       \/ /\ Fault
          /\ Enter(w, "gone")
          /\ UNCHANGED rowVars
    /\ UNCHANGED <<warehouse, batch, stopping>>

\* The process dies; a request it sent may still arrive.
Die(w) ==
    /\ phase[w] \notin {"off", "stopped", "gone"}
    /\ Replaceable(w)
    /\ Fault
    /\ \E arrived \in SUBSET (IF phase[w] = "inserting" THEN batch[w] ELSE {}) :
          warehouse' = warehouse \cup arrived
    /\ batch' = [batch EXCEPT ![w] = {}]
    /\ Enter(w, "gone")
    /\ UNCHANGED <<rowVars, stopping>>

-----------------------------------------------------------------------------
(* Time.                                                                   *)

\* The claim on e by a worker that may still confirm it.
Working(e) ==
    \E w \in Workers :
        phase[w] \in {"inserting", "inserted"} /\ e \in batch[w] /\ lockedBy[e] = w

\* A lease runs out; under a worker that is still at it, this is a fault.
LeaseEnds(e) ==
    /\ lockedBy[e] # Nobody
    /\ e \notin leaseOver
    /\ IF Working(e) THEN Fault ELSE UNCHANGED faults
    /\ leaseOver' = leaseOver \cup {e}
    /\ UNCHANGED <<appended, attempts, lockedBy, backedOff, processed, warehouse, phase,
                   batch, stopping>>

BackoffEnds(e) ==
    /\ e \in backedOff
    /\ backedOff' = backedOff \ {e}
    /\ UNCHANGED <<appended, attempts, lockedBy, leaseOver, processed, warehouse, phase,
                   batch, stopping, faults>>

-----------------------------------------------------------------------------

WorkerStep(w) ==
    \/ Start(w) \/ Claim(w)
    \/ Insert(w) \/ InsertFails(w)
    \/ MarkProcessed(w) \/ MarkProcessedFails(w)
    \/ MarkFailed(w) \/ FailingEnds(w)
    \/ Release(w)

Next ==
    \/ \E e \in Events : AppendEvent(e) \/ LeaseEnds(e) \/ BackoffEnds(e)
    \/ \E w \in Workers : WorkerStep(w) \/ Stop(w) \/ Die(w)

Spec == Init /\ [][Next]_vars

-----------------------------------------------------------------------------
(* What the outbox keeps true.                                             *)

Phases == {"off", "waiting", "inserting", "inserted", "failing", "stopped", "gone"}

TypeOK ==
    /\ appended \in SUBSET Events
    /\ attempts \in [Events -> 0 .. MaxAttempts]
    /\ lockedBy \in [Events -> Workers \cup {Nobody}]
    /\ leaseOver \in SUBSET Events
    /\ backedOff \in SUBSET Events
    /\ processed \in SUBSET Events
    /\ warehouse \in SUBSET Events
    /\ phase \in [Workers -> Phases]
    /\ batch \in [Workers -> SUBSET Events]
    /\ stopping \in SUBSET Workers
    /\ faults \in 0 .. MaxFaults

\* A row is marked processed only when ClickHouse has its event, whoever held its lease
\* when the insert was confirmed and however many workers sent it.
ProcessedIsInserted == processed \subseteq warehouse

\* A claim of a row after the first one is paid for by a fault of its own: leases keep
\* healthy workers off each other's rows, and an event turns poison only after as many
\* faults as it is allowed attempts.
AttemptsArePaid == \A e \in Events : attempts[e] <= faults + 1

\* A row marked processed is never claimed again, and never loses the mark.  The runs
\* check it as part of DeliversLog.
ProcessedIsFinal ==
    [][\A e \in processed : e \in processed' /\ attempts'[e] = attempts[e]]_vars

\* A worker that stopped in order leaves no row locked, even one its last tick could not
\* mark: other replicas need not wait for the lease.
StoppedHoldsNothing ==
    \A w \in Workers, e \in Events : phase[w] = "stopped" => lockedBy[e] # w

\* Only the owner of a row, or time, takes the lock from a worker that is at it: a worker
\* that outlived its lease does not release the row of the next one.
LockIsOwners ==
    [][\A e \in Events, w \in Workers :
         /\ lockedBy[e] = w /\ lockedBy'[e] # w /\ e \notin leaseOver
         /\ phase[w] \in {"inserting", "inserted"}
         => phase'[w] # phase[w]]_vars

Poison(e) == attempts[e] = MaxAttempts

\* Workers that overlap, die, outlive their leases and lose answers add up to a log whose
\* events are delivered at least once: nothing reaches ClickHouse that was not committed
\* and claimed, nothing counts as delivered that is not there, and no event takes more
\* attempts than it is allowed or one after it counts.
L == INSTANCE EventLog WITH
    log <- appended, tries <- attempts, delivered <- warehouse, done <- processed

DeliversLog == L!Spec

\* Every committed event is ingested, or has used up its attempts: no crash, lost answer,
\* expired lease or failed update leaves a row that nobody will claim.
Ingested == \A e \in Events : e \in appended ~> e \in processed \/ Poison(e)
=============================================================================

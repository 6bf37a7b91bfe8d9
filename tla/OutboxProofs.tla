---------------------------- MODULE OutboxProofs ----------------------------
(***************************************************************************)
(* The safety properties of AnalyticsOutbox for any number of events,      *)
(* workers and faults, and any batch size and number of attempts; and what *)
(* holds of the workers and of the transition, beside one another.         *)
(***************************************************************************)
EXTENDS Office, TLAPS

\* What a worker is about to mark has been confirmed.
Confirmed == \A w \in Workers : phase[w] = "inserted" => batch[w] \subseteq warehouse

Ingests == Confirmed /\ ProcessedIsInserted

\* The latest claim of a row, as long as nothing has gone wrong with it.
Unspoilt(e) == e \in processed \/ (Working(e) /\ e \notin leaseOver)

\* Every other claim of a row had a fault.
Accounts ==
    \A e \in Events : attempts[e] <= faults \/ (Unspoilt(e) /\ attempts[e] <= faults + 1)

-----------------------------------------------------------------------------
(* Lemmas.                                                                 *)

LEMMA FaultType ==
    ASSUME faults \in 0 .. MaxFaults, Fault
    PROVE  faults' \in 0 .. MaxFaults /\ faults' = faults + 1
BY OutboxAssumption DEF Fault

\* A claim takes rows that wait to be claimed, and some row.
LEMMA ClaimTakes ==
    ASSUME TypeOK, NEW w \in Workers, Claim(w)
    PROVE  \E claimed \in SUBSET Claimable :
              /\ SetClaimed(w, claimed)
              /\ \/ /\ batch' = [batch EXCEPT ![w] = claimed]
                    /\ Enter(w, "inserting")
                    /\ UNCHANGED faults
                 \/ /\ Fault
                    /\ UNCHANGED <<phase, batch>>
<1>1. PICK held \in SUBSET Claimable :
          LET claimed == Oldest(Claimable \ held)
          IN  /\ claimed # {}
              /\ SetClaimed(w, claimed)
              /\ \/ /\ batch' = [batch EXCEPT ![w] = claimed]
                    /\ Enter(w, "inserting")
                    /\ UNCHANGED faults
                 \/ /\ Fault
                    /\ UNCHANGED <<phase, batch>>
  BY DEF Claim
<1>2. Oldest(Claimable \ held) \in SUBSET Claimable
  BY DEF Oldest
<1> QED BY <1>1, <1>2

\* Who waits to be claimed is nobody's, or has outlived its lease.
LEMMA ClaimableRows ==
    ASSUME TypeOK, NEW e \in Claimable
    PROVE  /\ e \in Events /\ e \in appended /\ e \notin processed
           /\ attempts[e] < MaxAttempts
           /\ lockedBy[e] = Nobody \/ e \in leaseOver
BY DEF Claimable, TypeOK

-----------------------------------------------------------------------------
(* Types.                                                                  *)

LEMMA TypeInit ==
    ASSUME Init
    PROVE  TypeOK
BY OutboxAssumption DEF Init, TypeOK, Phases

LEMMA TypeClaim ==
    ASSUME TypeOK, NEW w \in Workers, Claim(w)
    PROVE  TypeOK'
<1>1. PICK claimed \in SUBSET Claimable :
          /\ SetClaimed(w, claimed)
          /\ \/ /\ batch' = [batch EXCEPT ![w] = claimed]
                /\ Enter(w, "inserting")
                /\ UNCHANGED faults
             \/ /\ Fault
                /\ UNCHANGED <<phase, batch>>
  BY ClaimTakes
<1>2. claimed \subseteq Events
  BY ClaimableRows
<1>3. attempts' \in [Events -> 0 .. MaxAttempts]
  <2> SUFFICES ASSUME NEW e \in Events PROVE attempts'[e] \in 0 .. MaxAttempts
    BY <1>1 DEF SetClaimed
  <2>1. CASE e \in claimed
    <3>1. attempts[e] < MaxAttempts /\ attempts[e] \in 0 .. MaxAttempts
      BY <2>1, ClaimableRows DEF TypeOK
    <3>2. attempts'[e] = attempts[e] + 1
      BY <1>1, <2>1 DEF SetClaimed
    <3> QED BY <3>1, <3>2, OutboxAssumption
  <2>2. CASE e \notin claimed
    BY <1>1, <2>2 DEF SetClaimed, TypeOK
  <2> QED BY <2>1, <2>2
<1>4. lockedBy' \in [Events -> Workers \cup {Nobody}] /\ leaseOver' \in SUBSET Events
  BY <1>1 DEF SetClaimed, TypeOK
<1>5. appended' \in SUBSET Events /\ backedOff' \in SUBSET Events /\ processed' \in SUBSET Events
  BY <1>1 DEF SetClaimed, TypeOK
<1>6. batch' \in [Workers -> SUBSET Events] /\ phase' \in [Workers -> Phases]
  BY <1>1, <1>2 DEF Enter, TypeOK, Phases
<1>7. faults' \in 0 .. MaxFaults
  BY <1>1, FaultType DEF TypeOK
<1>8. warehouse' \in SUBSET Events /\ stopping' \in SUBSET Workers
  BY DEF Claim, TypeOK
<1> QED BY <1>3, <1>4, <1>5, <1>6, <1>7, <1>8 DEF TypeOK

LEMMA TypeWorker ==
    ASSUME TypeOK, NEW w \in Workers, WorkerStep(w)
    PROVE  TypeOK'
<1>1. CASE Start(w)
  BY <1>1 DEF Start, Enter, rowVars, TypeOK, Phases
<1>2. CASE Claim(w)
  BY <1>2, TypeClaim
<1>3. CASE Insert(w)
  BY <1>3 DEF Insert, Enter, rowVars, TypeOK, Phases
<1>4. CASE InsertFails(w)
  <2>1. faults' \in 0 .. MaxFaults
    BY <1>4, FaultType DEF InsertFails, TypeOK
  <2> QED BY <1>4, <2>1 DEF InsertFails, Enter, rowVars, TypeOK, Phases
<1>5. CASE MarkProcessed(w)
  BY <1>5 DEF MarkProcessed, SetProcessed, Owned, Enter, TypeOK, Phases
<1>6. CASE MarkProcessedFails(w)
  <2>1. faults' \in 0 .. MaxFaults
    BY <1>6, FaultType DEF MarkProcessedFails, TypeOK
  <2>2. /\ appended' \in SUBSET Events /\ processed' \in SUBSET Events
        /\ leaseOver' \in SUBSET Events /\ backedOff' \in SUBSET Events
        /\ attempts' \in [Events -> 0 .. MaxAttempts]
        /\ lockedBy' \in [Events -> Workers \cup {Nobody}]
    BY <1>6 DEF MarkProcessedFails, SetProcessed, Owned, rowVars, TypeOK
  <2> QED BY <1>6, <2>1, <2>2 DEF MarkProcessedFails, Enter, TypeOK, Phases
<1>7. CASE MarkFailed(w)
  BY <1>7 DEF MarkFailed, TypeOK
<1>8. CASE FailingEnds(w)
  <2>1. faults' \in 0 .. MaxFaults
    BY <1>8, FaultType DEF FailingEnds, TypeOK
  <2> QED BY <1>8, <2>1 DEF FailingEnds, Enter, rowVars, TypeOK, Phases
<1>9. CASE Release(w)
  <2>1. faults' \in 0 .. MaxFaults
    BY <1>9, FaultType DEF Release, TypeOK
  <2>2. lockedBy' \in [Events -> Workers \cup {Nobody}] /\ leaseOver' \in SUBSET Events
    BY <1>9 DEF Release, rowVars, TypeOK
  <2> QED BY <1>9, <2>1, <2>2 DEF Release, Enter, rowVars, TypeOK, Phases
<1> QED BY <1>1, <1>2, <1>3, <1>4, <1>5, <1>6, <1>7, <1>8, <1>9 DEF WorkerStep

LEMMA TypeOther ==
    ASSUME TypeOK,
           \/ \E e \in Events : AppendEvent(e) \/ LeaseEnds(e) \/ BackoffEnds(e)
           \/ \E w \in Workers : Stop(w) \/ Die(w)
           \/ UNCHANGED vars
    PROVE  TypeOK'
<1>1. CASE \E e \in Events : AppendEvent(e)
  BY <1>1 DEF AppendEvent, TypeOK
<1>2. CASE \E e \in Events : LeaseEnds(e)
  <2>1. faults' \in 0 .. MaxFaults
    BY <1>2, FaultType DEF LeaseEnds, TypeOK
  <2> QED BY <1>2, <2>1 DEF LeaseEnds, TypeOK
<1>3. CASE \E e \in Events : BackoffEnds(e)
  BY <1>3 DEF BackoffEnds, TypeOK
<1>4. CASE \E w \in Workers : Stop(w)
  BY <1>4 DEF Stop, rowVars, TypeOK
<1>5. ASSUME NEW w \in Workers, Die(w)
      PROVE  TypeOK'
  <2>1. faults' \in 0 .. MaxFaults
    BY <1>5, FaultType DEF Die, TypeOK
  <2>2. warehouse' \in SUBSET Events
    BY <1>5 DEF Die, TypeOK
  <2> QED BY <1>5, <2>1, <2>2 DEF Die, Enter, rowVars, TypeOK, Phases
<1>6. CASE UNCHANGED vars
  BY <1>6 DEF vars, TypeOK
<1> QED BY <1>1, <1>2, <1>3, <1>4, <1>5, <1>6

\* Every variable keeps its type; in particular no row is claimed more often than it has
\* attempts.
THEOREM TypeCorrect == Spec => []TypeOK
<1>1. Init => TypeOK
  BY TypeInit
<1>2. TypeOK /\ [Next]_vars => TypeOK'
  BY TypeWorker, TypeOther DEF Next
<1> QED BY <1>1, <1>2, PTL DEF Spec

-----------------------------------------------------------------------------
(* What is marked processed is in ClickHouse.                              *)

LEMMA IngestsWorker ==
    ASSUME TypeOK, Ingests, NEW w \in Workers, WorkerStep(w)
    PROVE  Ingests'
<1>1. CASE Start(w)
  BY <1>1 DEF Start, Enter, rowVars, Ingests, Confirmed, ProcessedIsInserted, TypeOK
<1>2. CASE Claim(w)
  <2>1. PICK claimed \in SUBSET Claimable :
          /\ SetClaimed(w, claimed)
          /\ \/ /\ batch' = [batch EXCEPT ![w] = claimed]
                /\ Enter(w, "inserting")
                /\ UNCHANGED faults
             \/ /\ Fault
                /\ UNCHANGED <<phase, batch>>
    BY <1>2, ClaimTakes
  <2>2. processed' = processed /\ warehouse' = warehouse
    BY <1>2, <2>1 DEF Claim, SetClaimed
  <2> QED BY <2>1, <2>2 DEF Enter, Ingests, Confirmed, ProcessedIsInserted, TypeOK
<1>3. CASE Insert(w)
  BY <1>3 DEF Insert, Enter, rowVars, Ingests, Confirmed, ProcessedIsInserted, TypeOK
<1>4. CASE InsertFails(w)
  BY <1>4 DEF InsertFails, Enter, rowVars, Ingests, Confirmed, ProcessedIsInserted, TypeOK
<1>5. CASE MarkProcessed(w)
  BY <1>5 DEF MarkProcessed, SetProcessed, Owned, Enter, Ingests, Confirmed,
              ProcessedIsInserted, TypeOK
<1>6. CASE MarkProcessedFails(w)
  <2>1. processed' \subseteq processed \cup batch[w] /\ phase[w] = "inserted"
    BY <1>6 DEF MarkProcessedFails, SetProcessed, Owned, rowVars
  <2> QED BY <1>6, <2>1 DEF MarkProcessedFails, Enter, Ingests, Confirmed,
                            ProcessedIsInserted, TypeOK
<1>7. CASE MarkFailed(w)
  BY <1>7 DEF MarkFailed, Ingests, Confirmed, ProcessedIsInserted, TypeOK
<1>8. CASE FailingEnds(w)
  BY <1>8 DEF FailingEnds, Enter, rowVars, Ingests, Confirmed, ProcessedIsInserted, TypeOK
<1>9. CASE Release(w)
  <2>1. processed' = processed
    BY <1>9 DEF Release, rowVars
  <2> QED BY <1>9, <2>1 DEF Release, Enter, Ingests, Confirmed, ProcessedIsInserted, TypeOK
<1> QED BY <1>1, <1>2, <1>3, <1>4, <1>5, <1>6, <1>7, <1>8, <1>9 DEF WorkerStep

LEMMA IngestsOther ==
    ASSUME TypeOK, Ingests,
           \/ \E e \in Events : AppendEvent(e) \/ LeaseEnds(e) \/ BackoffEnds(e)
           \/ \E w \in Workers : Stop(w) \/ Die(w)
           \/ UNCHANGED vars
    PROVE  Ingests'
<1>1. CASE \E w \in Workers : Die(w)
  BY <1>1 DEF Die, Enter, rowVars, Ingests, Confirmed, ProcessedIsInserted, TypeOK
<1>2. CASE ~ \E w \in Workers : Die(w)
  <2>1. UNCHANGED <<processed, warehouse, phase, batch>>
    BY <1>2 DEF AppendEvent, LeaseEnds, BackoffEnds, Stop, rowVars, vars
  <2> QED BY <2>1 DEF Ingests, Confirmed, ProcessedIsInserted
<1> QED BY <1>1, <1>2

\* A row is marked processed only when ClickHouse holds its event, whichever worker had
\* the lease when its insert was confirmed (markProcessed after insert, runOnce).
THEOREM MarkedIsIngested == Spec => []ProcessedIsInserted
<1>1. Init => Ingests
  BY DEF Init, Ingests, Confirmed, ProcessedIsInserted
<1>2. TypeOK /\ Ingests /\ [Next]_vars => Ingests'
  BY IngestsWorker, IngestsOther DEF Next
<1>3. Ingests => ProcessedIsInserted
  BY DEF Ingests
<1> QED BY <1>1, <1>2, <1>3, TypeCorrect, PTL DEF Spec

-----------------------------------------------------------------------------
(* Every claim but one is paid for by a fault.                             *)

\* A step with a fault leaves every account in credit, if it claims nothing.
LEMMA FaultPays ==
    ASSUME TypeOK, Accounts, Fault, attempts' = attempts
    PROVE  Accounts'
BY FaultType DEF Accounts, TypeOK

\* A step that counts nothing and keeps what is unspoilt.
LEMMA SameAccounts ==
    ASSUME TypeOK, Accounts, attempts' = attempts, faults' = faults,
           \A e \in Events : Unspoilt(e) => Unspoilt(e)'
    PROVE  Accounts'
BY DEF Accounts

LEMMA AccountsClaim ==
    ASSUME TypeOK, Accounts, NEW w \in Workers, Claim(w)
    PROVE  Accounts'
<1>1. PICK claimed \in SUBSET Claimable :
          /\ SetClaimed(w, claimed)
          /\ \/ /\ batch' = [batch EXCEPT ![w] = claimed]
                /\ Enter(w, "inserting")
                /\ UNCHANGED faults
             \/ /\ Fault
                /\ UNCHANGED <<phase, batch>>
  BY ClaimTakes
<1> SUFFICES ASSUME NEW e \in Events
             PROVE  \/ attempts'[e] <= faults'
                    \/ Unspoilt(e)' /\ attempts'[e] <= faults' + 1
  BY DEF Accounts
<1>2. attempts[e] \in Nat /\ faults \in Nat /\ MaxAttempts \in Nat
  BY OutboxAssumption DEF TypeOK
<1>3. faults' = faults \/ faults' = faults + 1
  BY <1>1 DEF Fault
<1>4. CASE e \in claimed
  <2>1. ~Unspoilt(e)
    BY <1>4, ClaimableRows, OutboxAssumption DEF Unspoilt, Working
  <2>2. attempts[e] <= faults /\ attempts'[e] = attempts[e] + 1
    BY <1>1, <1>4, <2>1 DEF Accounts, SetClaimed
  <2>3. CASE Fault
    BY <1>2, <2>2, <2>3 DEF Fault
  <2>4. CASE batch' = [batch EXCEPT ![w] = claimed] /\ Enter(w, "inserting") /\ UNCHANGED faults
    <3>1. phase'[w] = "inserting" /\ e \in batch'[w] /\ lockedBy'[e] = w /\ e \notin leaseOver'
      BY <1>1, <1>4, <2>4 DEF SetClaimed, Enter, TypeOK
    <3>2. Unspoilt(e)'
      BY <3>1 DEF Unspoilt, Working
    <3> QED BY <1>2, <2>2, <2>4, <3>2
  <2> QED BY <1>1, <2>3, <2>4
<1>5. CASE e \notin claimed
  <2>1. attempts'[e] = attempts[e]
    BY <1>1, <1>5 DEF SetClaimed
  <2>2. Unspoilt(e) => Unspoilt(e)'
    <3> SUFFICES ASSUME Unspoilt(e) PROVE Unspoilt(e)'
      OBVIOUS
    <3>1. CASE e \in processed
      BY <1>1, <3>1 DEF SetClaimed, Unspoilt
    <3>2. CASE Working(e) /\ e \notin leaseOver
      <4>1. PICK v \in Workers :
              phase[v] \in {"inserting", "inserted"} /\ e \in batch[v] /\ lockedBy[e] = v
        BY <3>2 DEF Working
      <4>2. v # w
        BY <4>1 DEF Claim
      <4>3. phase'[v] = phase[v] /\ batch'[v] = batch[v]
        BY <1>1, <4>2 DEF Enter, TypeOK
      <4>4. lockedBy'[e] = lockedBy[e] /\ e \notin leaseOver'
        BY <1>1, <1>5, <3>2 DEF SetClaimed
      <4> QED BY <4>1, <4>3, <4>4 DEF Unspoilt, Working
    <3> QED BY <3>1, <3>2 DEF Unspoilt
  <2> QED BY <1>2, <1>3, <2>1, <2>2 DEF Accounts
<1> QED BY <1>4, <1>5

LEMMA AccountsWorker ==
    ASSUME TypeOK, Accounts, NEW w \in Workers, WorkerStep(w)
    PROVE  Accounts'
<1>1. CASE Start(w)
  <2>1. \A e \in Events : Unspoilt(e) => Unspoilt(e)'
    BY <1>1 DEF Start, Enter, rowVars, Unspoilt, Working, TypeOK
  <2> QED BY <1>1, <2>1, SameAccounts DEF Start, rowVars
<1>2. CASE Claim(w)
  BY <1>2, AccountsClaim
<1>3. CASE Insert(w)
  <2>1. \A e \in Events : Unspoilt(e) => Unspoilt(e)'
    BY <1>3 DEF Insert, Enter, rowVars, Unspoilt, Working, TypeOK
  <2> QED BY <1>3, <2>1, SameAccounts DEF Insert, rowVars
<1>4. CASE InsertFails(w)
  BY <1>4, FaultPays DEF InsertFails, rowVars
<1>5. CASE MarkProcessed(w)
  <2>1. ASSUME NEW e \in Events, Unspoilt(e)
        PROVE  Unspoilt(e)'
    <3>1. CASE e \in processed \/ e \in Owned(w)
      BY <1>5, <3>1 DEF MarkProcessed, SetProcessed, Unspoilt
    <3>2. CASE e \notin processed /\ e \notin Owned(w)
      <4>1. PICK v \in Workers :
              phase[v] \in {"inserting", "inserted"} /\ e \in batch[v] /\ lockedBy[e] = v
        BY <2>1, <3>2 DEF Unspoilt, Working
      <4>2. v # w /\ e \notin leaseOver
        BY <2>1, <3>2, <4>1 DEF Unspoilt, Owned
      <4>3. phase'[v] = phase[v] /\ batch'[v] = batch[v]
        BY <1>5, <4>2 DEF MarkProcessed, Enter, TypeOK
      <4>4. lockedBy'[e] = lockedBy[e] /\ e \notin leaseOver'
        BY <1>5, <3>2, <4>2 DEF MarkProcessed, SetProcessed
      <4> QED BY <4>1, <4>3, <4>4 DEF Unspoilt, Working
    <3> QED BY <3>1, <3>2
  <2> QED BY <1>5, <2>1, SameAccounts DEF MarkProcessed, SetProcessed
<1>6. CASE MarkProcessedFails(w)
  BY <1>6, FaultPays DEF MarkProcessedFails, SetProcessed, rowVars
<1>7. CASE MarkFailed(w)
  <2>1. ASSUME NEW e \in Events, Unspoilt(e)
        PROVE  Unspoilt(e)'
    <3>1. CASE e \in processed
      BY <1>7, <3>1 DEF MarkFailed, Unspoilt
    <3>2. CASE e \notin processed
      <4>1. PICK v \in Workers :
              phase[v] \in {"inserting", "inserted"} /\ e \in batch[v] /\ lockedBy[e] = v
        BY <2>1, <3>2 DEF Unspoilt, Working
      <4>2. v # w /\ e \notin leaseOver
        BY <1>7, <2>1, <3>2, <4>1 DEF Unspoilt, MarkFailed
      <4>3. phase'[v] = phase[v] /\ batch'[v] = batch[v]
        BY <1>7, <4>2 DEF MarkFailed, TypeOK
      <4>4. lockedBy'[e] = lockedBy[e] /\ e \notin leaseOver'
        BY <1>7, <4>1, <4>2 DEF MarkFailed, TypeOK
      <4> QED BY <4>1, <4>3, <4>4 DEF Unspoilt, Working
    <3> QED BY <3>1, <3>2
  <2> QED BY <1>7, <2>1, SameAccounts DEF MarkFailed
<1>8. CASE FailingEnds(w)
  <2>1. CASE Fault
    BY <1>8, <2>1, FaultPays DEF FailingEnds, rowVars
  <2>2. CASE UNCHANGED faults
    <3>1. \A e \in Events : Unspoilt(e) => Unspoilt(e)'
      BY <1>8 DEF FailingEnds, Enter, rowVars, Unspoilt, Working, TypeOK
    <3> QED BY <1>8, <2>2, <3>1, SameAccounts DEF FailingEnds, rowVars
  <2> QED BY <1>8, <2>1, <2>2 DEF FailingEnds
<1>9. CASE Release(w)
  <2>1. CASE Fault
    BY <1>9, <2>1, FaultPays DEF Release, rowVars
  <2>2. CASE ~Fault
    <3>1. ASSUME NEW e \in Events, Unspoilt(e)
          PROVE  Unspoilt(e)'
      BY <1>9, <2>2, <3>1 DEF Release, Enter, Unspoilt, Working, TypeOK
    <3> QED BY <1>9, <2>2, <3>1, SameAccounts DEF Release
  <2> QED BY <2>1, <2>2
<1> QED BY <1>1, <1>2, <1>3, <1>4, <1>5, <1>6, <1>7, <1>8, <1>9 DEF WorkerStep

LEMMA AccountsOther ==
    ASSUME TypeOK, Accounts,
           \/ \E e \in Events : AppendEvent(e) \/ LeaseEnds(e) \/ BackoffEnds(e)
           \/ \E w \in Workers : Stop(w) \/ Die(w)
           \/ UNCHANGED vars
    PROVE  Accounts'
<1>1. ASSUME NEW f \in Events, LeaseEnds(f)
      PROVE  Accounts'
  <2>1. CASE Working(f)
    BY <1>1, <2>1, FaultPays DEF LeaseEnds
  <2>2. CASE ~Working(f)
    <3>1. \A e \in Events : Unspoilt(e) => Unspoilt(e)'
      BY <1>1, <2>2 DEF LeaseEnds, Unspoilt, Working
    <3> QED BY <1>1, <2>2, <3>1, SameAccounts DEF LeaseEnds
  <2> QED BY <2>1, <2>2
<1>2. CASE \E w \in Workers : Die(w)
  BY <1>2, FaultPays DEF Die, rowVars
<1>3. CASE \/ \E e \in Events : AppendEvent(e) \/ BackoffEnds(e)
           \/ \E w \in Workers : Stop(w)
           \/ UNCHANGED vars
  <2>1. UNCHANGED <<attempts, faults, processed, lockedBy, leaseOver, phase, batch>>
    BY <1>3 DEF AppendEvent, BackoffEnds, Stop, rowVars, vars
  <2>2. \A e \in Events : Unspoilt(e) => Unspoilt(e)'
    BY <2>1 DEF Unspoilt, Working
  <2> QED BY <2>1, <2>2, SameAccounts
<1> QED BY <1>1, <1>2, <1>3

\* A row is claimed once, and once more for every fault that spoilt a claim: workers that
\* keep their leases never work on the same row (claim, locked_at).
THEOREM ClaimsAreCounted == Spec => []AttemptsArePaid
<1>1. Init => Accounts
  BY DEF Init, Accounts
<1>2. TypeOK /\ Accounts /\ [Next]_vars => Accounts'
  BY AccountsWorker, AccountsOther DEF Next
<1>3. TypeOK /\ Accounts => AttemptsArePaid
  BY OutboxAssumption DEF TypeOK, Accounts, AttemptsArePaid
<1> QED BY <1>1, <1>2, <1>3, TypeCorrect, PTL DEF Spec

-----------------------------------------------------------------------------
(* A worker that stopped in order.                                         *)

LEMMA StoppedWorker ==
    ASSUME TypeOK, StoppedHoldsNothing, NEW w \in Workers, WorkerStep(w)
    PROVE  StoppedHoldsNothing'
<1>1. CASE Claim(w)
  <2>1. PICK claimed \in SUBSET Claimable :
          /\ SetClaimed(w, claimed)
          /\ \/ /\ batch' = [batch EXCEPT ![w] = claimed]
                /\ Enter(w, "inserting")
                /\ UNCHANGED faults
             \/ /\ Fault
                /\ UNCHANGED <<phase, batch>>
    BY <1>1, ClaimTakes
  <2> SUFFICES ASSUME NEW v \in Workers, NEW e \in Events, phase'[v] = "stopped"
               PROVE  lockedBy'[e] # v
    BY DEF StoppedHoldsNothing
  <2>2. phase[v] = "stopped" /\ v # w
    BY <1>1, <2>1 DEF Claim, Enter, TypeOK
  <2> QED BY <2>1, <2>2 DEF SetClaimed, StoppedHoldsNothing
<1>2. CASE Release(w)
  <2> SUFFICES ASSUME NEW v \in Workers, NEW e \in Events, phase'[v] = "stopped"
               PROVE  lockedBy'[e] # v
    BY DEF StoppedHoldsNothing
  <2>1. CASE v = w
    <3>1. lockedBy' = [f \in Events |-> IF lockedBy[f] = w THEN Nobody ELSE lockedBy[f]]
      BY <1>2, <2>1 DEF Release, Enter, TypeOK
    <3> QED BY <2>1, <3>1, OutboxAssumption
  <2>2. CASE v # w
    <3>1. phase[v] = "stopped" /\ lockedBy[e] # v
      BY <1>2, <2>2 DEF Release, Enter, TypeOK, StoppedHoldsNothing
    <3>2. lockedBy'[e] \in {lockedBy[e], Nobody}
      BY <1>2 DEF Release, rowVars
    <3> QED BY <3>1, <3>2, OutboxAssumption
  <2> QED BY <2>1, <2>2
<1>3. CASE ~Claim(w) /\ ~Release(w)
  <2>1. \A e \in Events : lockedBy'[e] \in {lockedBy[e], Nobody}
    BY <1>3 DEF WorkerStep, Start, Insert, InsertFails, MarkProcessed, MarkProcessedFails,
                SetProcessed, MarkFailed, FailingEnds, rowVars, TypeOK
  <2>2. \A v \in Workers : phase'[v] = "stopped" => phase[v] = "stopped"
    BY <1>3 DEF WorkerStep, Start, Insert, InsertFails, MarkProcessed, MarkProcessedFails,
                MarkFailed, FailingEnds, Enter, TypeOK
  <2> QED BY <2>1, <2>2, OutboxAssumption DEF StoppedHoldsNothing
<1> QED BY <1>1, <1>2, <1>3

LEMMA StoppedOther ==
    ASSUME TypeOK, StoppedHoldsNothing,
           \/ \E e \in Events : AppendEvent(e) \/ LeaseEnds(e) \/ BackoffEnds(e)
           \/ \E w \in Workers : Stop(w) \/ Die(w)
           \/ UNCHANGED vars
    PROVE  StoppedHoldsNothing'
<1>1. lockedBy' = lockedBy
  BY DEF AppendEvent, LeaseEnds, BackoffEnds, Stop, Die, rowVars, vars
<1>2. \A v \in Workers : phase'[v] = "stopped" => phase[v] = "stopped"
  BY DEF AppendEvent, LeaseEnds, BackoffEnds, Stop, Die, Enter, vars, TypeOK
<1> QED BY <1>1, <1>2 DEF StoppedHoldsNothing

\* stop() leaves no row locked by the worker, not even rows its last tick could not mark
\* or a claim whose answer was lost (releaseClaims).
THEOREM StoppedIsClean == Spec => []StoppedHoldsNothing
<1>1. Init => StoppedHoldsNothing
  BY DEF Init, StoppedHoldsNothing
<1>2. TypeOK /\ StoppedHoldsNothing /\ [Next]_vars => StoppedHoldsNothing'
  BY StoppedWorker, StoppedOther DEF Next
<1> QED BY <1>1, <1>2, TypeCorrect, PTL DEF Spec

-----------------------------------------------------------------------------
(* What a step may never do.                                               *)

\* Only a claim counts an attempt, and only for rows that are not processed.
LEMMA StepKeepsProcessed ==
    ASSUME TypeOK, [Next]_vars, NEW e \in processed
    PROVE  e \in processed' /\ attempts'[e] = attempts[e]
<1>1. ASSUME NEW w \in Workers, Claim(w)
      PROVE  e \in processed' /\ attempts'[e] = attempts[e]
  <2>1. PICK claimed \in SUBSET Claimable : SetClaimed(w, claimed)
    BY <1>1, ClaimTakes
  <2>2. e \in Events /\ e \notin claimed
    BY ClaimableRows DEF TypeOK
  <2> QED BY <2>1, <2>2 DEF SetClaimed
<1>2. ASSUME NEW w \in Workers, WorkerStep(w), ~Claim(w)
      PROVE  e \in processed' /\ attempts'[e] = attempts[e]
  BY <1>2 DEF WorkerStep, Start, Insert, InsertFails, MarkProcessed, MarkProcessedFails,
              SetProcessed, MarkFailed, FailingEnds, Release, rowVars
<1>3. CASE \/ \E f \in Events : AppendEvent(f) \/ LeaseEnds(f) \/ BackoffEnds(f)
           \/ \E w \in Workers : Stop(w) \/ Die(w)
           \/ UNCHANGED vars
  BY <1>3 DEF AppendEvent, LeaseEnds, BackoffEnds, Stop, Die, rowVars, vars
<1> QED BY <1>1, <1>2, <1>3 DEF Next

\* A row marked processed is never claimed again and keeps the mark (claim, processed_at).
THEOREM ProcessedForever == Spec => ProcessedIsFinal
<1>1. TypeOK /\ [Next]_vars
      => [\A e \in processed : e \in processed' /\ attempts'[e] = attempts[e]]_vars
  BY StepKeepsProcessed
<1> QED BY <1>1, TypeCorrect, PTL DEF Spec, ProcessedIsFinal

\* Who takes a lock from a worker within its lease is that worker, and it goes on.
LEMMA StepKeepsLocks ==
    ASSUME TypeOK, [Next]_vars, NEW e \in Events, NEW w \in Workers,
           lockedBy[e] = w, lockedBy'[e] # w, e \notin leaseOver,
           phase[w] \in {"inserting", "inserted"}
    PROVE  phase'[w] # phase[w]
<1>1. ASSUME NEW v \in Workers, Claim(v)
      PROVE  FALSE
  <2>1. PICK claimed \in SUBSET Claimable : SetClaimed(v, claimed)
    BY <1>1, ClaimTakes
  <2>2. e \notin claimed
    BY ClaimableRows, OutboxAssumption
  <2> QED BY <2>1, <2>2 DEF SetClaimed
<1>2. ASSUME NEW v \in Workers, WorkerStep(v), ~Claim(v)
      PROVE  phase'[w] # phase[w]
  <2>1. v = w
    BY <1>2 DEF WorkerStep, Start, Insert, InsertFails, MarkProcessed, MarkProcessedFails,
                SetProcessed, Owned, MarkFailed, FailingEnds, Release, rowVars, TypeOK
  <2> QED BY <1>2, <2>1 DEF WorkerStep, Start, Insert, InsertFails, MarkProcessed,
             MarkProcessedFails, MarkFailed, FailingEnds, Release, Enter, rowVars, TypeOK
<1>3. CASE \/ \E f \in Events : AppendEvent(f) \/ LeaseEnds(f) \/ BackoffEnds(f)
           \/ \E v \in Workers : Stop(v) \/ Die(v)
           \/ UNCHANGED vars
  BY <1>3 DEF AppendEvent, LeaseEnds, BackoffEnds, Stop, Die, rowVars, vars
<1> QED BY <1>1, <1>2, <1>3 DEF Next

\* Within its lease a row at work is released by its own worker only (locked_by in
\* markProcessed and markFailed).
THEOREM LocksAreOwn == Spec => LockIsOwners
<1>1. TypeOK /\ [Next]_vars
      => [\A e \in Events, w \in Workers :
            /\ lockedBy[e] = w /\ lockedBy'[e] # w /\ e \notin leaseOver
            /\ phase[w] \in {"inserting", "inserted"}
            => phase'[w] # phase[w]]_vars
  BY StepKeepsLocks
<1> QED BY <1>1, TypeCorrect, PTL DEF Spec, LockIsOwners

-----------------------------------------------------------------------------
(* The outbox is a log of EventLog.                                        *)

\* What a worker has in hand was committed, and counted when it was claimed.
Taken == \A w \in Workers : \A e \in batch[w] : e \in appended /\ attempts[e] > 0

\* All that the refinement needs of a state.
Delivering == TypeOK /\ Ingests /\ Taken

\* Rows and their counts stay, and nobody gets more in hand.
LEMMA SameTaken ==
    ASSUME Taken, appended \subseteq appended', attempts' = attempts,
           \A w \in Workers : batch'[w] \subseteq batch[w]
    PROVE  Taken'
  BY DEF Taken

LEMMA TakenClaim ==
    ASSUME TypeOK, Taken, NEW w \in Workers, Claim(w)
    PROVE  Taken'
<1>1. PICK claimed \in SUBSET Claimable :
          /\ SetClaimed(w, claimed)
          /\ \/ /\ batch' = [batch EXCEPT ![w] = claimed]
                /\ Enter(w, "inserting")
                /\ UNCHANGED faults
             \/ /\ Fault
                /\ UNCHANGED <<phase, batch>>
  BY ClaimTakes
<1> SUFFICES ASSUME NEW v \in Workers, NEW e \in batch'[v]
             PROVE  e \in appended' /\ attempts'[e] > 0
  BY DEF Taken
<1>2. e \in claimed \/ e \in batch[v]
  BY <1>1 DEF TypeOK
<1>3. /\ e \in Events /\ e \in appended
      /\ e \in claimed \/ attempts[e] > 0
  BY <1>2, ClaimableRows DEF Taken, TypeOK
<1>4. attempts[e] \in Nat
  BY <1>3, OutboxAssumption DEF TypeOK
<1>5. appended' = appended /\ attempts'[e] = IF e \in claimed THEN attempts[e] + 1 ELSE attempts[e]
  BY <1>1, <1>3 DEF SetClaimed
<1> QED BY <1>3, <1>4, <1>5

LEMMA NextTaken ==
    ASSUME TypeOK, Taken, [Next]_vars
    PROVE  Taken'
<1>1. ASSUME NEW w \in Workers, WorkerStep(w), ~Claim(w) PROVE Taken'
  <2>1. UNCHANGED <<appended, attempts>>
    BY <1>1 DEF WorkerStep, Start, Insert, InsertFails, MarkProcessed, MarkProcessedFails,
                SetProcessed, MarkFailed, FailingEnds, Release, rowVars
  <2>2. \A v \in Workers : batch'[v] \subseteq batch[v]
    BY <1>1 DEF WorkerStep, Start, Insert, InsertFails, MarkProcessed, MarkProcessedFails,
                MarkFailed, FailingEnds, Release, TypeOK
  <2> QED BY <2>1, <2>2, SameTaken
<1>2. ASSUME \/ \E e \in Events : AppendEvent(e) \/ LeaseEnds(e) \/ BackoffEnds(e)
             \/ \E w \in Workers : Stop(w) \/ Die(w)
             \/ UNCHANGED vars
      PROVE  Taken'
  <2>1. /\ appended \subseteq appended' /\ attempts' = attempts
        /\ \A v \in Workers : batch'[v] \subseteq batch[v]
    BY <1>2 DEF AppendEvent, LeaseEnds, BackoffEnds, Stop, Die, rowVars, vars, TypeOK
  <2> QED BY <2>1, SameTaken
<1> QED BY <1>1, <1>2, TakenClaim DEF Next

\* A claim is an attempt, also when its answer is lost.
LEMMA ClaimIsAttempt ==
    ASSUME Delivering, NEW w \in Workers, Claim(w)
    PROVE  L!Next
<1>1. PICK claimed \in SUBSET Claimable : SetClaimed(w, claimed)
  BY ClaimTakes DEF Delivering
<1>2. claimed \in SUBSET {e \in appended \ processed : attempts[e] < MaxAttempts}
  BY ClaimableRows DEF Delivering
<1>3. UNCHANGED <<appended, warehouse, processed>>
  BY <1>1 DEF Claim, SetClaimed
<1> QED BY <1>1, <1>2, <1>3 DEF SetClaimed, L!Next, L!Attempt

\* What arrives of a batch is delivered, whatever the worker hears of it.
LEMMA ArrivalIsDelivery ==
    ASSUME Delivering, NEW w \in Workers, NEW arrived \in SUBSET batch[w],
           warehouse' = warehouse \cup arrived, UNCHANGED <<appended, attempts, processed>>
    PROVE  L!Next
<1>1. arrived \in SUBSET {e \in appended : attempts[e] > 0}
  BY DEF Delivering, Taken
<1> QED BY <1>1 DEF L!Next, L!Deliver

\* A row is marked after ClickHouse confirmed its batch.
LEMMA MarkIsAcknowledgement ==
    ASSUME Delivering, NEW w \in Workers, phase[w] = "inserted", SetProcessed(w),
           UNCHANGED warehouse
    PROVE  L!Next
<1>1. Owned(w) \in SUBSET warehouse
  BY DEF Owned, Delivering, Ingests, Confirmed
<1>2. /\ processed' = processed \cup Owned(w)
      /\ UNCHANGED <<appended, attempts>>
  BY DEF SetProcessed
<1> QED BY <1>1, <1>2 DEF L!Next, L!Acknowledge

\* Every step is one of these, one of the log's own, or shows nothing of itself.
LEMMA NextIsLogged ==
    ASSUME Delivering, [Next]_vars
    PROVE  L!Next \/ UNCHANGED <<appended, attempts, warehouse, processed>>
<1>1. ASSUME NEW e \in Events, AppendEvent(e) PROVE L!Next
  BY <1>1 DEF AppendEvent, L!Next, L!Log
<1>2. ASSUME NEW w \in Workers, Insert(w) PROVE L!Next
  BY <1>2, ArrivalIsDelivery DEF Insert, rowVars
<1>3. ASSUME NEW w \in Workers, InsertFails(w) PROVE L!Next
  BY <1>3, ArrivalIsDelivery DEF InsertFails, rowVars
<1>4. ASSUME NEW w \in Workers, Die(w) PROVE L!Next
  <2>1. PICK arrived \in SUBSET batch[w] : warehouse' = warehouse \cup arrived
    BY <1>4 DEF Die
  <2> QED BY <1>4, <2>1, ArrivalIsDelivery DEF Die, rowVars
<1>5. ASSUME NEW w \in Workers, MarkProcessed(w) PROVE L!Next
  BY <1>5, MarkIsAcknowledgement DEF MarkProcessed
<1>6. ASSUME NEW w \in Workers, MarkProcessedFails(w)
      PROVE  L!Next \/ UNCHANGED <<appended, attempts, warehouse, processed>>
  <2>1. CASE SetProcessed(w)
    BY <1>6, <2>1, MarkIsAcknowledgement DEF MarkProcessedFails
  <2>2. CASE UNCHANGED rowVars
    BY <1>6, <2>2 DEF MarkProcessedFails, rowVars
  <2> QED BY <1>6, <2>1, <2>2 DEF MarkProcessedFails
<1>7. ASSUME NEW w \in Workers,
             Start(w) \/ MarkFailed(w) \/ FailingEnds(w) \/ Release(w) \/ Stop(w)
      PROVE  UNCHANGED <<appended, attempts, warehouse, processed>>
  BY <1>7 DEF Start, MarkFailed, FailingEnds, Release, Stop, rowVars
<1>8. ASSUME NEW e \in Events, LeaseEnds(e) \/ BackoffEnds(e)
      PROVE  UNCHANGED <<appended, attempts, warehouse, processed>>
  BY <1>8 DEF LeaseEnds, BackoffEnds
<1>9. CASE UNCHANGED vars
  BY <1>9 DEF vars
<1> QED BY <1>1, <1>2, <1>3, <1>4, <1>5, <1>6, <1>7, <1>8, <1>9, ClaimIsAttempt
        DEF Next, WorkerStep

\* The outbox implements EventLog, for any number of workers that overlap, die, outlive
\* their leases and lose answers: at least once, and never more often than attempts allow.
THEOREM OutboxDelivers == Spec => DeliversLog
<1>1. Init => Delivering
  <2>1. Init => Ingests /\ Taken
    BY DEF Init, Ingests, Confirmed, ProcessedIsInserted, Taken
  <2> QED BY <2>1, TypeInit DEF Delivering
<1>2. Delivering /\ [Next]_vars => Delivering'
  <2> SUFFICES ASSUME Delivering, [Next]_vars PROVE Delivering'
    OBVIOUS
  <2>1. TypeOK'
    BY TypeWorker, TypeOther DEF Delivering, Next
  <2>2. Ingests'
    BY IngestsWorker, IngestsOther DEF Delivering, Next
  <2>3. Taken'
    BY NextTaken DEF Delivering
  <2> QED BY <2>1, <2>2, <2>3 DEF Delivering
<1>3. Init => L!Init
  BY DEF Init, L!Init
<1>4. Delivering /\ [Next]_vars => [L!Next]_<<appended, attempts, warehouse, processed>>
  BY NextIsLogged
<1> QED BY <1>1, <1>2, <1>3, <1>4, PTL DEF Spec, DeliversLog, L!Spec

-----------------------------------------------------------------------------
(* The office: one part moves, the other stands still.                     *)

\* To each part a step of the other is a stutter.
LEMMA OfficeParts ==
    OfficeSpec => Spec /\ T!Spec
<1>1. OfficeInit => Init /\ T!Init
  BY DEF OfficeInit
<1>2. [Draining \/ Moving]_<<part, vars, moved>> => [Next]_vars
  BY DEF Draining, Moving
<1>3. [Draining \/ Moving]_<<part, vars, moved>> => [T!Next]_(T!vars)
  BY DEF Draining, Moving, moved, T!vars
<1> QED BY <1>1, <1>2, <1>3, PTL DEF OfficeSpec, Spec, T!Spec

\* The office keeps its types.
THEOREM OfficeTypes == OfficeSpec => []TypesOK
<1>1. T!Spec => []T!TransitionInv
  BY OfficeAssumption, T!TransitionInvariant
<1>2. TypeOK /\ T!TransitionInv => TypesOK
  BY DEF TypesOK, T!TransitionInv
<1> QED BY <1>1, <1>2, OfficeParts, TypeCorrect, PTL

\* What old gateways sold is carried over once, for any number of payments, whenever the
\* old gateways write them.
THEOREM OfficeCarries == OfficeSpec => []LegacyCarried
<1>1. T!Spec => []T!LegacyCarried
  BY OfficeAssumption, T!LegacyIsCarried
<1> QED BY <1>1, OfficeParts, PTL DEF LegacyCarried

\* A backfill that has ended has left no row of its range without its event, for any
\* times, ranges, page size and number of kills.
THEOREM OfficeBackfills == OfficeSpec => []BackfillComplete
<1>1. T!Spec => []T!BackfillComplete
  BY OfficeAssumption, T!BackfillLeavesNone
<1> QED BY <1>1, OfficeParts, PTL DEF BackfillComplete

\* Beside a transition too, the workers keep the log.
THEOREM OfficeDelivers == OfficeSpec => DeliversLog
  BY OfficeParts, OutboxDelivers, PTL
=============================================================================

-------------------------------- MODULE Office --------------------------------
(* What works on the gateway's tables beside it, side by side; the first   *)
(* state chooses.                                                          *)
(*   "outbox":     the analytics workers;                                  *)
(*   "transition": migration, finalizer and backfill;                      *)
(* They share no row but those of the outbox, and to the workers a row the *)
(* backfill adds is one of AppendEvent's.  The instance brings what is     *)
(* proved of the transition.                                               *)
EXTENDS AnalyticsOutbox

CONSTANTS Old, New, SessionOf, Sequence, Ordinal, PaidAt, SettledAt, Evidence, Milli,
          PageSize, Options, MaxKills

VARIABLES
    part,
    stage, serving, payments, bundles, settlements, outbox, run, printed, complete, kills

T == INSTANCE TransitionProofs WITH BatchSize <- PageSize

ASSUME OfficeAssumption == T!TransitionAssumption

moved == <<stage, serving, payments, bundles, settlements, outbox, run, printed, complete,
           kills>>

OfficeInit == part \in {"outbox", "transition"} /\ Init /\ T!Init

Draining == part = "outbox" /\ Next /\ UNCHANGED <<part, moved>>
Moving == part = "transition" /\ T!Next /\ UNCHANGED <<part, vars>>

\* Workers are started and go on from every await; leases and backoffs run out with time.
\* The backfill awaits queries that are answered or fail.
OfficeSpec ==
    /\ OfficeInit
    /\ [][Draining \/ Moving]_<<part, vars, moved>>
    /\ \A w \in Workers : WF_vars(part = "outbox" /\ WorkerStep(w))
    /\ \A e \in Events :
          /\ WF_vars(part = "outbox" /\ LeaseEnds(e))
          /\ WF_vars(part = "outbox" /\ BackoffEnds(e))
    /\ T!Fairness

\* Each part's TypeOK.
TypesOK == TypeOK /\ T!TypeOK

LegacyCarried    == T!LegacyCarried
BackfillComplete == T!BackfillComplete
BackfillEnds     == T!BackfillEnds
=============================================================================

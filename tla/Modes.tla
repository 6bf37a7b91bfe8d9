------------------------------- MODULE Modes -------------------------------
(* The gateway by its parts and modes; the first state chooses.            *)
(*   "queue":  the settlement queue behind the stream;                     *)
(*   "inline": the session handlers, paid, over Postgres, settlement on    *)
(*             the request path.                                           *)
(* The requests of the handlers go by the names of the authorisations they *)
(* bring, which is sound because only one part ever moves.                 *)
EXTENDS Settlement

CONSTANTS Keys, NoKey, Wants, Words, Price, Budget  \* of PaidReading

VARIABLES
    mode,
    db, bundles, ttlOver, pc, arg, snap, plan, got, reply, queued, charged,
    restarts  \* crashes of PaidReading

reading == <<db, bundles, ttlOver, restarts, pc, arg, snap, plan, got, reply, queued, charged>>

Inline == INSTANCE PaidReadingProofs WITH
    Requests <- Items, Kinds <- {"stream", "word", "terms"}, Access <- "paid",
    Adapter <- "postgres", SettleInline <- TRUE, MaxCrashes <- 0, crashes <- restarts

ASSUME ModesAssumption == Inline!ConstantsAssumption

ModesInit == mode \in {"queue", "inline"} /\ Init /\ Inline!Init

Queueing  == mode = "queue" /\ Next /\ UNCHANGED <<mode, reading>>
Settling  == mode = "inline" /\ Inline!Next /\ UNCHANGED <<mode, vars>>

ModesSpec == ModesInit /\ [][Queueing \/ Settling]_<<mode, vars, reading>>

-----------------------------------------------------------------------------

\* With settlement on the request path, no word enters the ledger without a charge for it.
ChargedBeforeRelease == Inline!ChargedBeforeRelease

\* WithinBudget where words have a price.
InlineInBudget == Inline!WithinBudget
=============================================================================

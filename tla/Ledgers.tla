------------------------------ MODULE Ledgers ------------------------------
(* The session handlers over either ledger; the first state chooses.       *)
(*   "postgres": paid, as the constants say;                               *)
(*   "memory":   free, over the in-memory ledger, in variables of its own. *)
(* The instance brings what is proved of either ledger.                    *)
EXTENDS PaidReading

VARIABLES
    part,
    mdb, mbundles, mttlOver, mcrashes, mpc, marg, msnap, mplan, mgot, mreply, mqueued, mcharged

memory == <<mdb, mbundles, mttlOver, mcrashes, mpc, marg, msnap, mplan, mgot, mreply,
            mqueued, mcharged>>

Memory == INSTANCE PaidReadingProofs WITH
    Kinds <- {"stream", "word", "abort", "terms"},
    Price <- 0, Budget <- 0, Access <- "free", Adapter <- "memory", MaxCrashes <- 0,
    db <- mdb, bundles <- mbundles, ttlOver <- mttlOver, crashes <- mcrashes, pc <- mpc,
    arg <- marg, snap <- msnap, plan <- mplan, got <- mgot, reply <- mreply,
    queued <- mqueued, charged <- mcharged

LedgersInit == part \in {"postgres", "memory"} /\ Init /\ Memory!Init

InPostgres == part = "postgres" /\ Next /\ UNCHANGED <<part, memory>>
InMemory   == part = "memory" /\ Memory!Next /\ UNCHANGED <<part, vars>>

LedgersSpec == LedgersInit /\ [][InPostgres \/ InMemory]_<<part, vars, memory>>

-----------------------------------------------------------------------------

\* One key, one bundle, with or without the database's constraints.
KeysPayOnce == OneBundlePerKey /\ Memory!OneBundlePerKey
=============================================================================

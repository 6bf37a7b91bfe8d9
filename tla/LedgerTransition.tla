--------------------------- MODULE LedgerTransition ---------------------------
(***************************************************************************)
(* The move from one row per word to the bundle ledger, in the order of    *)
(* docs/bundle-ledger-and-analytics.md: migration 0011 while old gateways  *)
(* serve, new gateways beside them, the finalizer once the old ones have   *)
(* drained, then the analytics backfill, which pages through both ledgers  *)
(* and can be resumed from the cursor it printed.                          *)
(*                                                                         *)
(* A payment stands for a row of word_payments with its deliveries.  Old   *)
(* gateways wrote one for each word, with a receipt that may hold no       *)
(* evidence; new ones write one for each bundle.  What a row holds is a    *)
(* constant, the state is which rows exist.  An event of the outbox is     *)
(* named after its row.  Times count microseconds.                         *)
(***************************************************************************)
EXTENDS Integers, FiniteSets

CONSTANTS
    Old,        \* payments of old gateways
    New,        \* payments of new gateways
    SessionOf,  \* the session of a payment; old and new gateways share none
    Sequence,   \* its first word
    Ordinal,    \* for a new one: bundle_sequence, 0, 1, ... in its session
    PaidAt,     \* created_at of its row, its bundle and its receipt
    SettledAt,  \* created_at of the settlement of a new one
    Evidence,   \* old payments whose receipt holds provider evidence
    Milli,      \* microseconds in a millisecond
    BatchSize,  \* --batch-size
    Options,    \* [from, to]: --from and --to
    MaxKills    \* bound: how often the backfill is killed

Payments == Old \cup New

TransitionAssumption ==
    /\ Old \subseteq Nat /\ New \subseteq Nat /\ Old \cap New = {}
    /\ {SessionOf[p] : p \in Old} \cap {SessionOf[p] : p \in New} = {}
    /\ \A p, q \in Payments :
          SessionOf[p] = SessionOf[q] /\ Sequence[p] = Sequence[q] => p = q
    /\ Evidence \subseteq Old
    /\ \A p \in Payments : PaidAt[p] \in Nat
    /\ \A p \in New : SettledAt[p] \in Nat
    /\ Options # {} /\ Options \subseteq [from : Nat, to : Nat]
    /\ Milli \in Nat \ {0} /\ BatchSize \in Nat \ {0} /\ MaxKills \in Nat

VARIABLES
    stage,       \* where the runbook is: old, migrated, finalized, backfill
    serving,     \* old gateways serve
    payments,    \* rows of word_payments
    bundles,     \* rows of read_bundles: [table, of, copy, at]
    settlements, \* rows of settlements, likewise
    outbox,      \* events: the rows they are named after
    run,         \* the backfill: [at, opts, cursor, page, full]
    printed,     \* cursors it printed: [opts, at, cursor]
    complete,    \* options some run has ended with
    kills

ledger == <<payments, bundles, settlements>>
backfill == <<run, printed, complete, kills>>
vars == <<stage, serving, payments, bundles, settlements, outbox, run, printed, complete,
          kills>>

-----------------------------------------------------------------------------
(* Rows.                                                                   *)

Bundle(p)         == [table |-> "bundles", of |-> p, copy |-> FALSE, at |-> PaidAt[p]]
BundleCopy(p)     == [table |-> "bundles", of |-> p, copy |-> TRUE, at |-> PaidAt[p]]
Settlement(p)     == [table |-> "settlements", of |-> p, copy |-> FALSE, at |-> SettledAt[p]]
SettlementCopy(p) == [table |-> "settlements", of |-> p, copy |-> TRUE, at |-> PaidAt[p]]

Rows == {Bundle(p) : p \in New} \cup {BundleCopy(p) : p \in Payments}
        \cup {Settlement(p) : p \in New} \cup {SettlementCopy(p) : p \in Evidence}

\* UNIQUE (session_id, bundle_sequence): a copy takes the word's sequence.
Slot(b) == <<SessionOf[b.of], IF b.copy THEN Sequence[b.of] ELSE Ordinal[b.of]>>

Taken(slot) == \E b \in bundles : Slot(b) = slot

NoCursor == [at |-> 0, id |-> 0]
Off      == [at |-> "off", opts |-> CHOOSE o \in Options : TRUE, cursor |-> NoCursor,
             page |-> {}, full |-> FALSE]

Init ==
    /\ stage = "old" /\ serving = TRUE
    /\ payments = {} /\ bundles = {} /\ settlements = {} /\ outbox = {}
    /\ run = Off /\ printed = {} /\ complete = {} /\ kills = 0

-----------------------------------------------------------------------------
(* The gateways.                                                           *)

\* The old code, which knows nothing of bundles.
OldPays(p) ==
    /\ serving
    /\ p \notin payments
    /\ payments' = payments \cup {p}
    /\ UNCHANGED <<stage, serving, bundles, settlements, outbox, backfill>>

Drain ==
    /\ serving
    /\ stage = "migrated"
    /\ serving' = FALSE
    /\ UNCHANGED <<stage, ledger, outbox, backfill>>

\* recordBundle: the bundle, the payment and the event, or nothing.
NewPays(p) ==
    /\ stage # "old"
    /\ p \notin payments
    /\ Ordinal[p] = Cardinality({q \in payments : SessionOf[q] = SessionOf[p]})
    /\ ~Taken(<<SessionOf[p], Ordinal[p]>>)
    /\ payments' = payments \cup {p}
    /\ bundles' = bundles \cup {Bundle(p)}
    /\ outbox' = outbox \cup {Bundle(p)}
    /\ UNCHANGED <<stage, serving, settlements, backfill>>

\* insertSettlement.
NewSettles(p) ==
    /\ Bundle(p) \in bundles
    /\ settlements' = settlements \cup {Settlement(p)}
    /\ outbox' = outbox \cup {Settlement(p)}
    /\ UNCHANGED <<stage, serving, payments, bundles, backfill>>

-----------------------------------------------------------------------------
(* Migration and finalizer, each one transaction.                          *)

\* INSERT INTO read_bundles SELECT ... FROM word_payments ON CONFLICT DO NOTHING.
Copied == {p \in payments : ~Taken(Slot(BundleCopy(p)))}

\* Variation: every receipt becomes a settlement.
Receipts_All == payments \cap Old

\* Receipts that hold evidence.
Receipts == payments \cap Evidence

\* Both copy the payments, then the receipts that hold evidence; the bundle of each is
\* there to be linked.
CopyLedger ==
    /\ bundles' = bundles \cup {BundleCopy(p) : p \in Copied}
    /\ settlements' = settlements \cup {SettlementCopy(p) : p \in Receipts}
    /\ UNCHANGED <<payments, outbox>>

Migrate ==
    /\ stage = "old"
    /\ stage' = "migrated"
    /\ CopyLedger
    /\ UNCHANGED <<serving, backfill>>

\* The audit counts with which the finalizer ends.
CaughtUp(rows) == \A p \in payments : \E b \in rows : b.of = p

\* Run by hand when no old gateway is left, as often as one likes; it rolls back when a
\* payment has no bundle.
Finalize ==
    /\ stage \in {"migrated", "finalized"}
    /\ ~serving
    /\ stage' = "finalized"
    /\ CopyLedger
    /\ CaughtUp(bundles')
    /\ UNCHANGED <<serving, backfill>>

-----------------------------------------------------------------------------
(* The backfill.                                                           *)

\* Copies are named legacy:...; names are ordered some way.
Id(row) == 2 * row.of + (IF row.copy THEN 2 ELSE 1)

Before(a, b) == a.at < b.at \/ (a.at = b.at /\ a.id < b.id)

Key(row) == [at |-> row.at, id |-> Id(row)]

\* The driver reads created_at as a Date.
Truncated(at) == at - (at % Milli)

CursorAt(row) == [at |-> Truncated(row.at), id |-> Id(row)]

\* Variation: rows of the cursor's time have been seen.
Beyond_Time(cursor, row) == row.at > cursor.at

\* (created_at, id) > cursor.
Beyond(cursor, row) == Before(cursor, Key(row))

InRange(opts, row) == opts.from <= row.at /\ row.at < opts.to

Table(phase) == IF phase = "bundles" THEN bundles ELSE settlements

Left == {row \in Table(run.at) : InRange(run.opts, row) /\ Beyond(run.cursor, row)}

Page == {row \in Left : Cardinality({r \in Left : Before(Key(r), Key(row))}) < BatchSize}

First(page) == CHOOSE row \in page : \A r \in page : r # row => Before(Key(row), Key(r))

Phase(name, opts, cursor) ==
    [Off EXCEPT !.at = name, !.opts = opts, !.cursor = cursor]

\* A first run, or one that goes on from a printed cursor with the same options.
StartBackfill ==
    /\ stage \in {"finalized", "backfill"}
    /\ run.at = "off"
    /\ stage' = "backfill"
    /\ \/ \E opts \in Options : run' = Phase("bundles", opts, NoCursor)
       \/ \E mark \in printed : run' = Phase(mark.at, mark.opts, mark.cursor)
    /\ UNCHANGED <<serving, ledger, outbox, printed, complete, kills>>

Stepping == run.at # "off" /\ UNCHANGED <<stage, serving, ledger, kills>>

\* No row, or a page that was not full, ends a phase; the second one ends the run.
PhaseEnds ==
    \/ /\ run.at = "bundles"
       /\ run' = Phase("settlements", run.opts, [at |-> run.opts.from, id |-> 0])
       /\ UNCHANGED complete
    \/ /\ run.at = "settlements"
       /\ run' = Off
       /\ complete' = complete \cup {run.opts}

ReadPage ==
    /\ Stepping
    /\ run.page = {} /\ ~run.full
    /\ IF Page = {} THEN PhaseEnds
       ELSE /\ run' = [run EXCEPT !.page = Page, !.full = Cardinality(Page) = BatchSize]
            /\ UNCHANGED complete
    /\ UNCHANGED <<outbox, printed>>

\* Variation: only an empty page ends a phase.
LastPage_Empty == FALSE

LastPage == ~run.full

\* The oldest row of the page, whose event is added unless it is there; with the last
\* one the cursor is printed.
Append ==
    LET row  == First(run.page)
        next == [run EXCEPT !.cursor = CursorAt(row), !.page = @ \ {row}]
    IN  /\ Stepping
        /\ run.page # {}
        /\ outbox' = outbox \cup {row}
        /\ IF next.page # {} THEN run' = next /\ UNCHANGED <<printed, complete>>
           ELSE /\ printed' = printed \cup
                     {[opts |-> run.opts, at |-> run.at, cursor |-> next.cursor]}
                /\ IF LastPage THEN PhaseEnds
                   ELSE run' = [next EXCEPT !.full = FALSE] /\ UNCHANGED complete

\* A query fails, or the process is killed.
Kill ==
    /\ run.at # "off"
    /\ kills < MaxKills
    /\ kills' = kills + 1
    /\ run' = Off
    /\ UNCHANGED <<stage, serving, ledger, outbox, printed, complete>>

-----------------------------------------------------------------------------

Next ==
    \/ \E p \in Old : OldPays(p)
    \/ \E p \in New : NewPays(p) \/ NewSettles(p)
    \/ Drain \/ Migrate \/ Finalize
    \/ StartBackfill \/ ReadPage \/ Append \/ Kill

Spec == Init /\ [][Next]_vars

\* The backfill awaits queries that are answered or fail.
Fairness == WF_vars(ReadPage \/ Append)

-----------------------------------------------------------------------------

Cursors == [at : Nat, id : Nat]

TypeOK ==
    /\ stage \in {"old", "migrated", "finalized", "backfill"}
    /\ serving \in BOOLEAN
    /\ payments \subseteq Payments
    /\ bundles \subseteq Rows /\ settlements \subseteq Rows /\ outbox \subseteq Rows
    /\ run \in [at : {"off", "bundles", "settlements"}, opts : Options, cursor : Cursors,
                page : SUBSET Rows, full : BOOLEAN]
    /\ printed \subseteq [opts : Options, at : {"bundles", "settlements"}, cursor : Cursors]
    /\ complete \subseteq Options
    /\ kills \in 0 .. MaxKills

\* What old gateways sold is in the new ledger when the finalizer has run, once, whenever
\* it was written, and settlements are made of receipts with evidence only.
LegacyCarried ==
    /\ stage \in {"finalized", "backfill"} =>
          \A p \in payments \cap Old :
              /\ Cardinality({b \in bundles : b.of = p}) = 1
              /\ p \in Evidence => SettlementCopy(p) \in settlements
    /\ \A s \in settlements : s.copy => s.of \in Evidence

\* When a backfill has ended, every row of its range has its event, those that were
\* committed behind its cursor included, whatever it was resumed from.
BackfillComplete ==
    \A opts \in complete : \A row \in bundles \cup settlements :
        InRange(opts, row) => row \in outbox

\* A backfill ends, although it reads the rows of its last millisecond again, as long as
\* one millisecond does not fill a page.
BackfillEnds == run.at # "off" ~> run.at = "off"
=============================================================================

--------------------------- MODULE TransitionProofs ---------------------------
(***************************************************************************)
(* Proofs about LedgerTransition: no word sold by an old gateway is lost   *)
(* or doubled by the move, and a backfill that has ended has left no row   *)
(* without its event, for any number of payments, any times, ranges and    *)
(* page sizes, and any number of kills.                                    *)
(***************************************************************************)
EXTENDS LedgerTransition, FiniteSetTheorems, WellFoundedInduction, TLAPS


\* The rows of a table are its own, and there are finitely many.
Tables ==
    /\ \A b \in bundles : b.table = "bundles"
    /\ \A s \in settlements : s.table = "settlements"
    /\ IsFiniteSet(payments) /\ IsFiniteSet(bundles) /\ IsFiniteSet(settlements)

\* The runbook: old gateways have gone before the finalizer runs, and the backfill comes
\* after it.
Runbook ==
    /\ stage \in {"finalized", "backfill"} => ~serving
    /\ run.at # "off" \/ printed # {} \/ complete # {} => stage = "backfill"

\* What the finalizer copied.
Carried ==
    stage \in {"finalized", "backfill"} =>
        \A p \in payments \cap Old :
            /\ BundleCopy(p) \in bundles
            /\ p \in Evidence => SettlementCopy(p) \in settlements

\* New gateways write a row and its event together: only copies wait for the backfill.
OnlyCopiesWait == \A row \in bundles \cup settlements : ~row.copy => row \in outbox

\* A row of the range that has no event is beyond the cursor.
AllBeyond(phase, opts, cursor) ==
    \A row \in Table(phase) : InRange(opts, row) /\ row \notin outbox => Beyond(cursor, row)

AllAdded(phase, opts) ==
    \A row \in Table(phase) : InRange(opts, row) => row \in outbox

\* A backfill gets to the settlements when the bundles of its range have their events.
Caught(phase, opts, cursor) ==
    /\ AllBeyond(phase, opts, cursor)
    /\ phase = "settlements" => AllAdded("bundles", opts)

\* A row that has no event is on the page, or beyond all of the page; there is none
\* beyond a page that was not full.
PageFirst ==
    run.page # {} =>
        /\ run.page \subseteq Table(run.at)
        /\ \A row \in Table(run.at) :
              InRange(run.opts, row) /\ row \notin outbox /\ row \notin run.page =>
                  /\ run.full
                  /\ \A r \in run.page : Before(Key(r), Key(row))

Progress ==
    /\ run.at = "off" => run.page = {}
    /\ run.at # "off" => Caught(run.at, run.opts, run.cursor)
    /\ PageFirst
    /\ \A mark \in printed : Caught(mark.at, mark.opts, mark.cursor)
    /\ \A opts \in complete : AllAdded("bundles", opts) /\ AllAdded("settlements", opts)

TransitionInv ==
    TypeOK /\ Tables /\ Runbook /\ Carried /\ OnlyCopiesWait /\ Progress

-----------------------------------------------------------------------------
(* Rows and their order.                                                   *)

\* A non-empty set of naturals has a least element.
LEMMA LeastNatural ==
    ASSUME NEW T \in SUBSET Nat, T # {}
    PROVE  \E x \in T : \A y \in T : x <= y
<1>1. PICK x \in T : \A y \in T : <<y, x>> \notin OpToRel(<, Nat)
  BY WFMin, NatLessThanWellFounded
<1>2. \A y \in T : ~ (y < x)
  BY <1>1, Zenon DEF OpToRel
<1> QED
  BY <1>2

\* What a row is made of.
LEMMA RowFields ==
    ASSUME TransitionAssumption, NEW row \in Rows
    PROVE  /\ row.at \in Nat /\ row.of \in Payments /\ row.copy \in BOOLEAN
           /\ row.table \in {"bundles", "settlements"}
           /\ row.of \in Nat
           /\ Id(row) \in Nat /\ Id(row) > 0
<1>1. Payments \subseteq Nat
  BY DEF TransitionAssumption, Payments
<1>2. CASE \E p \in New : row = Bundle(p)
  BY <1>1, <1>2 DEF TransitionAssumption, Bundle, Payments, Id
<1>3. CASE \E p \in Payments : row = BundleCopy(p)
  BY <1>1, <1>3 DEF TransitionAssumption, BundleCopy, Payments, Id
<1>4. CASE \E p \in New : row = Settlement(p)
  BY <1>1, <1>4 DEF TransitionAssumption, Settlement, Payments, Id
<1>5. CASE \E p \in Evidence : row = SettlementCopy(p)
  BY <1>1, <1>5 DEF TransitionAssumption, SettlementCopy, Payments, Id
<1> QED
  BY <1>2, <1>3, <1>4, <1>5 DEF Rows

\* A row is known by its table, its payment and whether it is a copy.
LEMMA SameRow ==
    ASSUME NEW r \in Rows, NEW s \in Rows,
           r.table = s.table, r.of = s.of, r.copy = s.copy
    PROVE  r = s
BY DEF Rows, Bundle, BundleCopy, Settlement, SettlementCopy

\* In one table no two rows have the same key.
LEMMA SameKey ==
    ASSUME TransitionAssumption, NEW r \in Rows, NEW s \in Rows, r.table = s.table, Id(r) = Id(s)
    PROVE  r = s
<1>1. r.copy \in BOOLEAN /\ s.copy \in BOOLEAN
  BY RowFields
<1>2. PICK x \in Nat, y \in Nat : x = r.of /\ y = s.of
  BY RowFields
<1>3. CASE r.copy /\ s.copy
  <2>1. 2 * x + 2 = 2 * y + 2
    BY <1>2, <1>3 DEF Id
  <2>2. r.of = s.of
    BY <1>2, <2>1
  <2>3. r.copy = s.copy
    BY <1>1, <1>3, Zenon
  <2> QED
    BY <2>2, <2>3, SameRow
<1>4. CASE ~r.copy /\ ~s.copy
  <2>1. 2 * x + 1 = 2 * y + 1
    BY <1>2, <1>4 DEF Id
  <2>2. r.of = s.of
    BY <1>2, <2>1
  <2>3. r.copy = s.copy
    BY <1>1, <1>4, Zenon
  <2> QED
    BY <2>2, <2>3, SameRow
<1>5. CASE r.copy /\ ~s.copy
  <2>1. 2 * x + 2 = 2 * y + 1
    BY <1>2, <1>5 DEF Id
  <2> QED
    BY <1>2, <2>1
<1>6. CASE ~r.copy /\ s.copy
  <2>1. 2 * x + 1 = 2 * y + 2
    BY <1>2, <1>6 DEF Id
  <2> QED
    BY <1>2, <2>1
<1> QED
  BY <1>1, <1>3, <1>4, <1>5, <1>6

\* The key of a row is a place of the cursor; what the cursor becomes after a row is not
\* beyond it.
LEMMA Keys ==
    ASSUME TransitionAssumption, NEW row \in Rows
    PROVE  /\ Key(row) \in Cursors /\ CursorAt(row) \in Cursors
           /\ CursorAt(row).at <= Key(row).at /\ CursorAt(row).id = Key(row).id
           /\ Key(row).at = row.at /\ Key(row).id = Id(row)
<1>1. row.at \in Nat /\ Id(row) \in Nat
  BY RowFields
<1>2. Truncated(row.at) \in Nat /\ Truncated(row.at) <= row.at
  BY <1>1 DEF Truncated, TransitionAssumption
<1> QED
  BY <1>1, <1>2 DEF Key, CursorAt, Cursors

\* Keys are ordered.
LEMMA KeyOrder ==
    ASSUME NEW a \in Cursors, NEW b \in Cursors
    PROVE  /\ ~Before(a, a)
           /\ Before(a, b) \/ Before(b, a) \/ a = b
           /\ \A c \in Cursors : Before(a, b) /\ Before(b, c) => Before(a, c)
BY DEF Before, Cursors

\* Rows of one table have a first one.
LEMMA FirstRow ==
    ASSUME TransitionAssumption, NEW page \in SUBSET Rows, page # {},
           \A r, s \in page : r.table = s.table
    PROVE  /\ First(page) \in page
           /\ \A r \in page : r # First(page) => Before(Key(First(page)), Key(r))
<1> DEFINE times == {r.at : r \in page}
<1>1. times \in SUBSET Nat /\ times # {}
  BY RowFields
<1>2. PICK t \in times : \A u \in times : t <= u
  BY <1>1, LeastNatural
<1> DEFINE ids == {Id(r) : r \in {s \in page : s.at = t}}
<1>3. ids \in SUBSET Nat /\ ids # {}
  BY RowFields
<1>4. PICK i \in ids : \A j \in ids : i <= j
  <2> HIDE DEF ids
  <2> QED
    BY <1>3, LeastNatural
<1>5. PICK row \in page : row.at = t /\ Id(row) = i
  BY <1>4
<1>6. \A r \in page : r # row => Before(Key(row), Key(r))
  <2> SUFFICES ASSUME NEW r \in page, r # row
               PROVE  Before(Key(row), Key(r))
    OBVIOUS
  <2>1. t <= r.at /\ t \in Nat /\ r.at \in Nat
    BY <1>2, RowFields
  <2>2. CASE r.at = t
    <3>1. Id(r) \in ids
      BY <2>2
    <3>2. i <= Id(r) /\ i \in Nat /\ Id(r) \in Nat
      BY <1>3, <1>4, <3>1
    <3>3. Id(r) # i
      BY <1>5, SameKey
    <3>4. Id(row) < Id(r) /\ row.at = r.at
      BY <1>5, <2>2, <3>2, <3>3
    <3> QED
      BY <3>4, Keys DEF Before
  <2>3. CASE r.at # t
    <3>1. row.at < r.at
      BY <1>5, <2>1, <2>3
    <3> QED
      BY <3>1, Keys DEF Before
  <2> QED
    BY <2>2, <2>3
<1> QED
  BY <1>6 DEF First

-----------------------------------------------------------------------------
(* Pages.                                                                  *)

Earlier(rows, row) == {r \in rows : Before(Key(r), Key(row))}

PageOf(rows) == {row \in rows : Cardinality(Earlier(rows, row)) < BatchSize}

\* How many rows are earlier is a natural, and grows along the order.
LEMMA EarlierGrows ==
    ASSUME TransitionAssumption, NEW rows \in SUBSET Rows, IsFiniteSet(rows),
           NEW q \in rows, NEW r \in rows
    PROVE  /\ Cardinality(Earlier(rows, r)) \in Nat
           /\ Cardinality(Earlier(rows, r)) <= Cardinality(rows)
           /\ ~Before(Key(q), Key(r)) =>
                 Cardinality(Earlier(rows, r)) <= Cardinality(Earlier(rows, q))
           /\ Before(Key(q), Key(r)) =>
                 Cardinality(Earlier(rows, q)) < Cardinality(Earlier(rows, r))
<1>1. \A s \in rows : IsFiniteSet(Earlier(rows, s)) /\ Cardinality(Earlier(rows, s)) \in Nat
                      /\ Cardinality(Earlier(rows, s)) <= Cardinality(rows)
  BY FS_Subset, FS_CardinalityType DEF Earlier
<1>2. Key(q) \in Cursors /\ Key(r) \in Cursors /\ \A s \in rows : Key(s) \in Cursors
  BY Keys
<1>3. ASSUME ~Before(Key(q), Key(r))
      PROVE  Cardinality(Earlier(rows, r)) <= Cardinality(Earlier(rows, q))
  <2>1. Before(Key(r), Key(q)) \/ Key(r) = Key(q)
    BY <1>2, <1>3, KeyOrder
  <2>2. Earlier(rows, r) \subseteq Earlier(rows, q)
    BY <1>2, <2>1, KeyOrder DEF Earlier
  <2> QED
    BY <1>1, <2>2, FS_Subset
<1>4. ASSUME Before(Key(q), Key(r))
      PROVE  Cardinality(Earlier(rows, q)) < Cardinality(Earlier(rows, r))
  <2>1. Earlier(rows, q) \subseteq Earlier(rows, r)
    BY <1>2, <1>4, KeyOrder DEF Earlier
  <2>2. q \in Earlier(rows, r) /\ q \notin Earlier(rows, q)
    BY <1>2, <1>4, KeyOrder DEF Earlier
  <2>3. Cardinality(Earlier(rows, q)) # Cardinality(Earlier(rows, r))
    BY <1>1, <2>1, <2>2, FS_Subset
  <2>4. Cardinality(Earlier(rows, q)) <= Cardinality(Earlier(rows, r))
    BY <1>1, <2>1, FS_Subset
  <2> QED
    BY <1>1, <2>3, <2>4
<1> QED
  BY <1>1, <1>3, <1>4

\* A page is the first rows: there is one if there are rows, what is not on it comes
\* after all of it, and all are on it if it is not full.
LEMMA PageIsFirst ==
    ASSUME TransitionAssumption, NEW rows \in SUBSET Rows, IsFiniteSet(rows),
           \A r, s \in rows : r.table = s.table
    PROVE  /\ PageOf(rows) = {} => rows = {}
           /\ \A row \in rows \ PageOf(rows) : \A r \in PageOf(rows) :
                 Before(Key(r), Key(row))
           /\ Cardinality(PageOf(rows)) # BatchSize => PageOf(rows) = rows
<1> DEFINE page == PageOf(rows)
           n(r) == Cardinality(Earlier(rows, r))
<1>0. page \in SUBSET rows /\ page \in SUBSET Rows /\ IsFiniteSet(page)
      /\ Cardinality(page) \in Nat /\ BatchSize \in Nat \ {0}
  <2>1. page \in SUBSET rows
    BY DEF PageOf
  <2> QED
    BY <2>1, FS_Subset, FS_CardinalityType DEF TransitionAssumption
<1>1. ASSUME rows # {}
      PROVE  First(rows) \in page
  <2>1. /\ First(rows) \in rows
        /\ \A r \in rows : r # First(rows) => Before(Key(First(rows)), Key(r))
    BY <1>1, FirstRow
  <2>2. \A r \in rows : ~Before(Key(r), Key(First(rows)))
    BY <2>1, Keys, KeyOrder
  <2>3. Earlier(rows, First(rows)) = {}
    BY <2>2 DEF Earlier
  <2>4. n(First(rows)) = 0
    BY <2>3, FS_EmptySet
  <2> QED
    BY <1>0, <2>1, <2>4 DEF PageOf
<1>2. ASSUME NEW row \in rows \ page, NEW r \in page
      PROVE  Before(Key(r), Key(row))
  <2>1. n(r) < BatchSize /\ ~ (n(row) < BatchSize) /\ r \in rows
    BY DEF PageOf
  <2>2. n(r) \in Nat /\ n(row) \in Nat
    BY <2>1, EarlierGrows
  <2>3. ~ (n(row) <= n(r))
    BY <1>0, <2>1, <2>2
  <2> QED
    BY <2>1, <2>3, EarlierGrows
<1>3. ASSUME page # rows
      PROVE  Cardinality(page) = BatchSize
  <2> DEFINE rest == rows \ page
  <2>1. rest \in SUBSET Rows /\ rest # {}
    BY <1>0, <1>3
  <2>2. PICK row \in rest : \A r \in rest : r # row => Before(Key(row), Key(r))
    BY <2>1, FirstRow
  <2>3. page = Earlier(rows, row)
    <3>1. \A r \in rest : ~Before(Key(r), Key(row))
      BY <2>2, Keys, KeyOrder
    <3> QED
      BY <1>0, <1>2, <2>2, <3>1 DEF Earlier
  <2>4. Cardinality(page) >= BatchSize
    <3>1. ~ (n(row) < BatchSize)
      BY <2>2 DEF PageOf
    <3> QED
      BY <1>0, <2>3, <3>1
  <2>5. page # {}
    BY <1>1, <2>1
  <2> DEFINE lags == {BatchSize - n(r) : r \in page}
  <2>6. \A r \in page : n(r) \in Nat /\ n(r) < BatchSize
    BY <1>0, EarlierGrows DEF PageOf
  <2>7. lags \in SUBSET Nat /\ lags # {}
    <3> HIDE DEF n, page
    <3> QED
      BY <1>0, <2>5, <2>6
  <2>8. PICK lag \in lags : \A l \in lags : lag <= l
    <3> HIDE DEF lags
    <3> QED
      BY <2>7, LeastNatural
  <2>9. PICK last \in page : lag = BatchSize - n(last)
    BY <2>8
  <2>10. \A r \in page : n(r) <= n(last)
    <3> SUFFICES ASSUME NEW r \in page PROVE n(r) <= n(last)
      OBVIOUS
    <3>1. BatchSize - n(last) <= BatchSize - n(r)
      BY <2>8, <2>9
    <3>2. n(r) \in Nat /\ n(last) \in Nat
      BY <2>6
    <3> HIDE DEF n
    <3> QED
      BY <1>0, <3>1, <3>2
  <2>11. page \subseteq Earlier(rows, last) \cup {last}
    <3> SUFFICES ASSUME NEW r \in page, r # last
                 PROVE  Before(Key(r), Key(last))
      BY <1>0 DEF Earlier
    <3>1. r \in rows /\ last \in rows
      BY <1>0
    <3>2. n(r) <= n(last) /\ n(r) \in Nat /\ n(last) \in Nat
      BY <2>6, <2>10
    <3>3. ~Before(Key(last), Key(r))
      BY <3>1, <3>2, EarlierGrows
    <3>4. Key(last) # Key(r)
      BY <3>1, SameKey, Keys
    <3> QED
      BY <3>1, <3>3, <3>4, Keys, KeyOrder
  <2>12. IsFiniteSet(Earlier(rows, last)) /\ last \notin Earlier(rows, last)
    BY <1>0, FS_Subset, Keys, KeyOrder DEF Earlier
  <2>13. Cardinality(page) <= n(last) + 1
    <3>1. /\ IsFiniteSet(Earlier(rows, last) \cup {last})
          /\ Cardinality(Earlier(rows, last) \cup {last}) = n(last) + 1
      BY <2>12, FS_AddElement
    <3> QED
      BY <2>11, <3>1, FS_Subset
  <2> HIDE DEF n, page
  <2> QED
    BY <1>0, <2>4, <2>6, <2>13
<1> QED
  BY <1>1, <1>2, <1>3

-----------------------------------------------------------------------------
(* Types.                                                                  *)

\* The four kinds of rows.
LEMMA RowKinds ==
    /\ \A p \in New : Bundle(p) \in Rows /\ Settlement(p) \in Rows
    /\ \A p \in Payments : BundleCopy(p) \in Rows
    /\ \A p \in Evidence : SettlementCopy(p) \in Rows
BY DEF Rows

\* What the backfill may hold.
Runs == [at : {"off", "bundles", "settlements"}, opts : Options, cursor : Cursors,
         page : SUBSET Rows, full : BOOLEAN]

LEMMA RunType ==
    TypeOK => run \in Runs
BY DEF TypeOK, Runs

\* Between runs the backfill holds nothing.
LEMMA OffFacts ==
    ASSUME TransitionAssumption
    PROVE  /\ Off.at = "off" /\ Off.opts \in Options /\ Off.cursor = NoCursor
           /\ Off.page = {} /\ Off.full = FALSE
           /\ Off = [at |-> "off", opts |-> Off.opts, cursor |-> NoCursor, page |-> {},
                     full |-> FALSE]
           /\ Off \in Runs
<1>1. (CHOOSE o \in Options : TRUE) \in Options
  BY DEF TransitionAssumption
<1> QED
  BY <1>1 DEF Off, NoCursor, Cursors, Runs

\* A phase starts at its cursor, without a page.
LEMMA PhaseIs ==
    ASSUME NEW name, NEW opts, NEW cursor
    PROVE  Phase(name, opts, cursor) =
              [at |-> name, opts |-> opts, cursor |-> cursor, page |-> {}, full |-> FALSE]
<1>1. PICK r : r = Phase(name, opts, cursor)
  OBVIOUS
<1>2. PICK o : Off = [at |-> "off", opts |-> o, cursor |-> NoCursor, page |-> {},
                      full |-> FALSE]
  BY DEF Off
<1>3. /\ r.at = name /\ r.opts = opts /\ r.cursor = cursor /\ r.page = {}
      /\ r = [at |-> r.at, opts |-> r.opts, cursor |-> r.cursor, page |-> r.page,
              full |-> r.full]
  BY <1>1, <1>2 DEF Phase
<1>4. r.full = FALSE
  BY <1>1, <1>2 DEF Phase
<1> QED
  BY <1>1, <1>3, <1>4

\* Phases are of the backfill's type.
LEMMA PhaseType ==
    ASSUME NEW name \in {"bundles", "settlements"}, NEW opts \in Options,
           NEW cursor \in Cursors
    PROVE  Phase(name, opts, cursor) \in Runs
BY PhaseIs DEF Runs

\* The copies of payments and receipts are rows.
LEMMA CopyTypes ==
    ASSUME TransitionAssumption, TypeOK, CopyLedger
    PROVE  bundles' \subseteq Rows /\ settlements' \subseteq Rows
<1>1. Copied \subseteq Payments /\ Receipts \subseteq Evidence
  BY DEF Copied, Receipts, TypeOK
<1> QED
  BY <1>1, RowKinds DEF CopyLedger, TypeOK

\* The first row of a page is on it.
LEMMA FirstOnPage ==
    ASSUME TransitionAssumption, TypeOK, Tables, Progress, run.page # {}
    PROVE  /\ First(run.page) \in run.page
           /\ First(run.page) \in Table(run.at)
           /\ \A r \in run.page :
                 r # First(run.page) => Before(Key(First(run.page)), Key(r))
           /\ run.at \in {"bundles", "settlements"}
<1>1. run.page \subseteq Table(run.at) /\ run.page \in SUBSET Rows
  BY DEF Progress, PageFirst, TypeOK
<1>2. \A r, s \in Table(run.at) : r.table = s.table
  BY DEF Tables, Table
<1>3. run.at \in {"bundles", "settlements"}
  BY DEF Progress, TypeOK
<1> QED
  BY <1>1, <1>2, <1>3, FirstRow

\* The backfill goes from one phase to the next with values of its types.
LEMMA PhaseEndTypes ==
    ASSUME TransitionAssumption, TypeOK, PhaseEnds
    PROVE  /\ run' \in Runs
           /\ complete' \subseteq Options
           /\ run'.page = {}
<1>1. run.opts \in Options
  BY DEF TypeOK
<1>2. [at |-> run.opts.from, id |-> 0] \in Cursors
  BY <1>1 DEF TransitionAssumption, Cursors
<1>3. CASE run.at = "bundles"
  <2>1. run' = Phase("settlements", run.opts, [at |-> run.opts.from, id |-> 0])
        /\ complete' = complete
    BY <1>3 DEF PhaseEnds
  <2>2. run' \in Runs /\ run'.page = {}
    BY <1>1, <1>2, <2>1, PhaseIs, PhaseType
  <2> QED
    BY <2>1, <2>2 DEF TypeOK
<1>4. CASE run.at = "settlements"
  BY <1>1, <1>4, OffFacts DEF PhaseEnds, TypeOK
<1> QED
  BY <1>3, <1>4 DEF PhaseEnds

\* The types hold at first.
LEMMA TransitionInit ==
    ASSUME TransitionAssumption, Init
    PROVE  TransitionInv
<1>1. TypeOK
  <2>1. run \in Runs
    BY OffFacts DEF Init
  <2>2. kills \in 0 .. MaxKills
    BY DEF Init, TransitionAssumption
  <2> QED
    BY <2>1, <2>2 DEF Init, TypeOK, Runs
<1>2. Tables /\ Runbook /\ Carried /\ OnlyCopiesWait
  BY FS_EmptySet, OffFacts DEF Init, Tables, Runbook, Carried, OnlyCopiesWait
<1>3. Progress
  BY OffFacts DEF Init, Progress, PageFirst
<1> QED
  BY <1>1, <1>2, <1>3 DEF TransitionInv

\* Every action keeps the types.
LEMMA TransitionTypes ==
    ASSUME TransitionAssumption, TypeOK, Tables, Progress, Next
    PROVE  TypeOK'
<1>1. ASSUME NEW p \in Old, OldPays(p) PROVE TypeOK'
  BY <1>1 DEF OldPays, ledger, backfill, TypeOK, Payments
<1>2. ASSUME NEW p \in New, NewPays(p) PROVE TypeOK'
  BY <1>2, RowKinds DEF NewPays, backfill, TypeOK, Payments
<1>3. ASSUME NEW p \in New, NewSettles(p) PROVE TypeOK'
  BY <1>3, RowKinds DEF NewSettles, backfill, TypeOK
<1>4. CASE Drain
  BY <1>4 DEF Drain, ledger, backfill, TypeOK, Runs
<1>5. CASE Migrate
  <2>1. bundles' \subseteq Rows /\ settlements' \subseteq Rows
    BY <1>5, CopyTypes DEF Migrate
  <2> QED
    BY <1>5, <2>1 DEF Migrate, CopyLedger, backfill, TypeOK
<1>6. CASE Finalize
  <2>1. bundles' \subseteq Rows /\ settlements' \subseteq Rows
    BY <1>6, CopyTypes DEF Finalize
  <2> QED
    BY <1>6, <2>1 DEF Finalize, CopyLedger, backfill, TypeOK
<1>7. CASE StartBackfill
  <2>1. run' \in Runs
    <3>1. NoCursor \in Cursors
      BY DEF NoCursor, Cursors
    <3>2. CASE \E opts \in Options : run' = Phase("bundles", opts, NoCursor)
      <4>1. PICK opts \in Options : run' = Phase("bundles", opts, NoCursor)
        BY <3>2
      <4> QED
        BY <3>1, <4>1, PhaseIs, PhaseType
    <3>3. CASE \E mark \in printed : run' = Phase(mark.at, mark.opts, mark.cursor)
      <4>1. PICK mark \in printed : run' = Phase(mark.at, mark.opts, mark.cursor)
        BY <3>3
      <4>2. /\ mark.at \in {"bundles", "settlements"} /\ mark.opts \in Options
            /\ mark.cursor \in Cursors
        BY DEF TypeOK
      <4> QED
        BY <4>1, <4>2, PhaseIs, PhaseType
    <3> QED
      BY <1>7, <3>2, <3>3 DEF StartBackfill
  <2> QED
    BY <1>7, <2>1 DEF StartBackfill, ledger, TypeOK, Runs
<1>8. CASE ReadPage
  <2>1. /\ run' \in Runs
        /\ complete' \subseteq Options
    <3>1. CASE Page = {}
      BY <1>8, <3>1, PhaseEndTypes DEF ReadPage
    <3>2. CASE Page # {}
      <4>1. Page \in SUBSET Rows
        BY DEF Page, Left, Table, TypeOK
      <4>2. (Cardinality(Page) = BatchSize) \in BOOLEAN
        OBVIOUS
      <4> QED
        BY <1>8, <3>2, <4>1, <4>2 DEF ReadPage, TypeOK, Runs
    <3> QED
      BY <3>1, <3>2
  <2> QED
    BY <1>8, <2>1 DEF ReadPage, Stepping, ledger, TypeOK, Runs
<1>9. CASE Append
  <2> DEFINE row == First(run.page)
             next == [run EXCEPT !.cursor = CursorAt(row), !.page = @ \ {row}]
  <2>1. /\ row \in run.page /\ row \in Rows
        /\ run.at \in {"bundles", "settlements"}
    BY <1>9, FirstOnPage DEF Append, TypeOK
  <2>2. CursorAt(row) \in Cursors
    BY <2>1, Keys
  <2>3. next \in Runs
    BY <2>2 DEF TypeOK, Runs
  <2>4. outbox' \subseteq Rows
    BY <1>9, <2>1 DEF Append, TypeOK
  <2>5. /\ run' \in Runs
        /\ complete' \subseteq Options
    <3>1. CASE PhaseEnds
      BY <3>1, PhaseEndTypes
    <3>2. CASE run' = next /\ complete' = complete
      BY <2>3, <3>2 DEF TypeOK, Runs
    <3>3. CASE run' = [next EXCEPT !.full = FALSE] /\ complete' = complete
      BY <2>3, <3>3 DEF TypeOK, Runs
    <3> QED
      BY <1>9, <3>1, <3>2, <3>3 DEF Append
  <2>6. printed' \subseteq [opts : Options, at : {"bundles", "settlements"}, cursor : Cursors]
    <3>1. run.opts \in Options /\ next.cursor = CursorAt(row)
      BY DEF TypeOK
    <3>2. [opts |-> run.opts, at |-> run.at, cursor |-> next.cursor] \in
             [opts : Options, at : {"bundles", "settlements"}, cursor : Cursors]
      BY <2>1, <2>2, <3>1
    <3> QED
      BY <1>9, <3>2 DEF Append, TypeOK
  <2>7. Stepping
    BY <1>9 DEF Append
  <2> QED
    BY <1>9, <2>4, <2>5, <2>6, <2>7 DEF Stepping, ledger, TypeOK, Runs
<1>10. CASE Kill
  <2>1. kills' \in 0 .. MaxKills
    BY <1>10 DEF Kill, TypeOK, TransitionAssumption
  <2> QED
    BY <1>10, <2>1, OffFacts DEF Kill, ledger, TypeOK, Runs
<1> QED
  BY <1>1, <1>2, <1>3, <1>4, <1>5, <1>6, <1>7, <1>8, <1>9, <1>10 DEF Next

-----------------------------------------------------------------------------
(* The tables and the runbook.                                             *)

\* Copies of finitely many rows are finitely many.
LEMMA CopiesFinite ==
    ASSUME NEW S, IsFiniteSet(S)
    PROVE  /\ IsFiniteSet({BundleCopy(p) : p \in S})
           /\ IsFiniteSet({SettlementCopy(p) : p \in S})
<1>1. [p \in S |-> BundleCopy(p)] \in Surjection(S, {BundleCopy(p) : p \in S})
  BY DEF Surjection
<1>2. [p \in S |-> SettlementCopy(p)] \in Surjection(S, {SettlementCopy(p) : p \in S})
  BY DEF Surjection
<1> QED
  BY <1>1, <1>2, FS_Surjection

\* Every action keeps the tables finite, and the rows of one table in it.
LEMMA TransitionTables ==
    ASSUME TransitionAssumption, TypeOK, Tables, Next
    PROVE  Tables'
<1>1. ASSUME NEW p \in Old, OldPays(p) PROVE Tables'
  BY <1>1, FS_AddElement DEF OldPays, Tables
<1>2. ASSUME NEW p \in New, NewPays(p) PROVE Tables'
  <2>1. IsFiniteSet(payments') /\ IsFiniteSet(bundles') /\ IsFiniteSet(settlements')
    BY <1>2, FS_AddElement DEF NewPays, Tables
  <2> QED
    BY <1>2, <2>1 DEF NewPays, Tables, Bundle
<1>3. ASSUME NEW p \in New, NewSettles(p) PROVE Tables'
  <2>1. IsFiniteSet(payments') /\ IsFiniteSet(bundles') /\ IsFiniteSet(settlements')
    BY <1>3, FS_AddElement DEF NewSettles, Tables
  <2> QED
    BY <1>3, <2>1 DEF NewSettles, Tables, Settlement
<1>4. ASSUME CopyLedger PROVE Tables'
  <2>1. IsFiniteSet(Copied) /\ IsFiniteSet(Receipts)
    BY FS_Subset DEF Tables, Copied, Receipts
  <2>2. IsFiniteSet(bundles') /\ IsFiniteSet(settlements')
    BY <1>4, <2>1, CopiesFinite, FS_Union DEF CopyLedger, Tables
  <2> QED
    BY <1>4, <2>2 DEF CopyLedger, Tables, BundleCopy, SettlementCopy
<1>5. CASE UNCHANGED ledger
  BY <1>5 DEF ledger, Tables
<1> QED
  BY <1>1, <1>2, <1>3, <1>4, <1>5
  DEF Next, Drain, Migrate, Finalize, StartBackfill, ReadPage, Append, Stepping, Kill

\* Old gateways have gone for good when the finalizer runs, and the backfill after it.
LEMMA TransitionRunbook ==
    ASSUME TransitionAssumption, TypeOK, Runbook, Next
    PROVE  Runbook'
<1>1. ASSUME NEW p \in New, NewPays(p) \/ NewSettles(p) PROVE Runbook'
  BY <1>1 DEF NewPays, NewSettles, backfill, Runbook
<1>2. ASSUME NEW p \in Old, OldPays(p) PROVE Runbook'
  BY <1>2 DEF OldPays, backfill, Runbook
<1>3. CASE Drain
  BY <1>3 DEF Drain, backfill, Runbook
<1>4. CASE Migrate
  BY <1>4 DEF Migrate, backfill, Runbook
<1>5. CASE Finalize
  BY <1>5 DEF Finalize, backfill, Runbook
<1>6. CASE StartBackfill
  BY <1>6 DEF StartBackfill, Runbook
<1>7. CASE ReadPage \/ Append
  <2>1. run.at # "off" /\ stage' = stage /\ serving' = serving
    BY <1>7 DEF ReadPage, Append, Stepping
  <2> QED
    BY <2>1 DEF Runbook
<1>8. CASE Kill
  BY <1>8 DEF Kill, Runbook
<1> QED
  BY <1>1, <1>2, <1>3, <1>4, <1>5, <1>6, <1>7, <1>8 DEF Next

\* What the finalizer has copied stays, and old gateways add nothing to it.
LEMMA TransitionCarried ==
    ASSUME TransitionAssumption, TypeOK, Tables, Runbook, Carried, Next
    PROVE  Carried'
<1>1. ASSUME NEW p \in New, NewPays(p) PROVE Carried'
  <2>1. p \notin Old
    BY DEF TransitionAssumption
  <2> QED
    BY <1>1, <2>1 DEF NewPays, Carried
<1>2. ASSUME NEW p \in New, NewSettles(p) PROVE Carried'
  BY <1>2 DEF NewSettles, Carried
<1>3. ASSUME NEW p \in Old, OldPays(p) PROVE Carried'
  BY <1>3 DEF OldPays, ledger, Runbook, Carried, TypeOK
<1>4. CASE Drain
  BY <1>4 DEF Drain, ledger, Carried
<1>5. CASE Migrate
  BY <1>5 DEF Migrate, Carried
<1>6. CASE Finalize
  <2>1. payments' = payments /\ payments \subseteq Payments
    BY <1>6 DEF Finalize, CopyLedger, TypeOK
  <2>2. \A p \in payments \cap Old : BundleCopy(p) \in bundles'
    <3> SUFFICES ASSUME NEW p \in payments, p \in Old
                 PROVE  BundleCopy(p) \in bundles'
      OBVIOUS
    <3>1. PICK b \in bundles' : b.of = p
      BY <1>6 DEF Finalize, CaughtUp
    <3>2. b \in Rows /\ p \notin New
      BY <1>6, CopyTypes DEF Finalize, TransitionAssumption
    <3>3. b.table = "bundles" => b = BundleCopy(p)
      BY <3>1, <3>2 DEF Rows, Bundle, BundleCopy, Settlement, SettlementCopy
    <3>4. CASE b \in bundles
      BY <3>1, <3>3, <3>4 DEF Tables
    <3>5. CASE b \notin bundles
      <4>1. PICK q \in Copied : b = BundleCopy(q)
        BY <1>6, <3>1, <3>5 DEF Finalize, CopyLedger
      <4> QED
        BY <3>1, <4>1 DEF BundleCopy
    <3> QED
      BY <3>4, <3>5
  <2>3. \A p \in payments \cap Evidence : SettlementCopy(p) \in settlements'
    BY <1>6 DEF Finalize, CopyLedger, Receipts
  <2> QED
    BY <2>1, <2>2, <2>3 DEF Carried
<1>7. CASE StartBackfill
  BY <1>7 DEF StartBackfill, ledger, Carried
<1>8. CASE ReadPage \/ Append
  BY <1>8 DEF ReadPage, Append, Stepping, ledger, Carried
<1>9. CASE Kill
  BY <1>9 DEF Kill, ledger, Carried
<1> QED
  BY <1>1, <1>2, <1>3, <1>4, <1>5, <1>6, <1>7, <1>8, <1>9 DEF Next

\* A row that is no copy comes with its event.
LEMMA TransitionOnlyCopies ==
    ASSUME TransitionAssumption, TypeOK, OnlyCopiesWait, Next
    PROVE  OnlyCopiesWait'
<1>1. ASSUME NEW p \in New, NewPays(p) \/ NewSettles(p) PROVE OnlyCopiesWait'
  BY <1>1 DEF NewPays, NewSettles, OnlyCopiesWait
<1>2. ASSUME CopyLedger PROVE OnlyCopiesWait'
  BY <1>2 DEF CopyLedger, OnlyCopiesWait, BundleCopy, SettlementCopy
<1>3. ASSUME UNCHANGED ledger, outbox \subseteq outbox' PROVE OnlyCopiesWait'
  BY <1>3 DEF ledger, OnlyCopiesWait
<1>4. ASSUME NEW p \in Old, OldPays(p) PROVE OnlyCopiesWait'
  BY <1>4 DEF OldPays, OnlyCopiesWait
<1>5. CASE Append
  BY <1>3, <1>5 DEF Append, Stepping
<1> QED
  BY <1>1, <1>2, <1>3, <1>4, <1>5
  DEF Next, Drain, Migrate, Finalize, StartBackfill, ReadPage, Stepping, Kill

-----------------------------------------------------------------------------
(* The backfill.                                                           *)

\* The cursors a phase starts from are before every row of the range.
LEMMA StartsBefore ==
    ASSUME TransitionAssumption, NEW row \in Rows, NEW opts \in Options
    PROVE  /\ Beyond(NoCursor, row)
           /\ InRange(opts, row) => Beyond([at |-> opts.from, id |-> 0], row)
<1>1. row.at \in Nat /\ Id(row) \in Nat /\ Id(row) > 0
  BY RowFields
<1>2. opts.from \in Nat
  BY DEF TransitionAssumption
<1> QED
  BY <1>1, <1>2 DEF Beyond, Before, Key, NoCursor, InRange

\* The cursor a row leaves is before what comes after the row.
LEMMA CursorBefore ==
    ASSUME TransitionAssumption, NEW row \in Rows, NEW r \in Rows,
           Before(Key(row), Key(r))
    PROVE  Beyond(CursorAt(row), r)
<1>1. /\ CursorAt(row).at <= Key(row).at /\ CursorAt(row).id = Key(row).id
      /\ CursorAt(row) \in Cursors /\ Key(row) \in Cursors /\ Key(r) \in Cursors
  BY Keys
<1>2. Key(row).at \in Nat /\ Key(r).at \in Nat /\ CursorAt(row).at \in Nat
  BY <1>1 DEF Cursors
<1> QED
  BY <1>1, <1>2 DEF Beyond, Before

\* Rows that come with their events leave the backfill where it is.
LEMMA ProgressKept ==
    ASSUME TypeOK, Progress, UNCHANGED <<run, printed, complete>>,
           outbox \subseteq outbox', bundles \subseteq bundles',
           settlements \subseteq settlements',
           bundles' \ bundles \subseteq outbox', settlements' \ settlements \subseteq outbox'
    PROVE  Progress'
<1>1. \A phase, opts, cursor :
         Caught(phase, opts, cursor) =>
            /\ \A row \in IF phase = "bundles" THEN bundles' ELSE settlements' :
                  InRange(opts, row) /\ row \notin outbox' => Beyond(cursor, row)
            /\ phase = "settlements" =>
                  \A row \in bundles' : InRange(opts, row) => row \in outbox'
  BY DEF Caught, AllBeyond, AllAdded, Table
<1>2. (run.at # "off" => Caught(run.at, run.opts, run.cursor))'
  BY <1>1 DEF Progress, Caught, AllBeyond, AllAdded, Table
<1>3. (\A mark \in printed : Caught(mark.at, mark.opts, mark.cursor))'
  BY <1>1 DEF Progress, Caught, AllBeyond, AllAdded, Table
<1>4. (\A opts \in complete : AllAdded("bundles", opts) /\ AllAdded("settlements", opts))'
  BY DEF Progress, AllAdded, Table
<1>5. PageFirst'
  BY DEF Progress, PageFirst, Table
<1> QED
  BY <1>2, <1>3, <1>4, <1>5 DEF Progress

\* A phase that ends has added all of its rows, and the one that follows starts before
\* all of its own.
LEMMA PhaseEndStep ==
    ASSUME TransitionAssumption, TypeOK, PhaseEnds, Progress,
           UNCHANGED <<bundles, settlements>>, outbox \subseteq outbox',
           \A row \in Table(run.at) : InRange(run.opts, row) => row \in outbox'
    PROVE  /\ (run.at = "off" => run.page = {})'
           /\ (run.at # "off" => Caught(run.at, run.opts, run.cursor))'
           /\ PageFirst'
           /\ (\A opts \in complete :
                  AllAdded("bundles", opts) /\ AllAdded("settlements", opts))'
<1>1. run.opts \in Options
  BY RunType DEF Runs
<1>2. run'.page = {}
  BY PhaseEndTypes
<1>3. CASE run.at = "bundles"
  <2> DEFINE start == [at |-> run.opts.from, id |-> 0]
  <2>1. start \in Cursors
    BY <1>1 DEF TransitionAssumption, Cursors
  <2>2. run' = Phase("settlements", run.opts, start) /\ complete' = complete
    BY <1>3 DEF PhaseEnds
  <2>3. run'.at = "settlements" /\ run'.opts = run.opts /\ run'.cursor = start
    <3> HIDE DEF start
    <3>1. /\ Phase("settlements", run.opts, start).at = "settlements"
          /\ Phase("settlements", run.opts, start).opts = run.opts
          /\ Phase("settlements", run.opts, start).cursor = start
      BY PhaseIs
    <3> QED
      BY <2>2, <3>1
  <2>4. \A row \in settlements : InRange(run.opts, row) => Beyond(start, row)
    BY <1>1, StartsBefore DEF TypeOK
  <2>5. \A row \in bundles : InRange(run.opts, row) => row \in outbox'
    BY <1>3 DEF Table
  <2>6. Caught(run.at, run.opts, run.cursor)'
    <3> HIDE DEF start
    <3> QED
      BY <2>3, <2>4, <2>5 DEF Caught, AllBeyond, AllAdded, Table
  <2>7. (\A opts \in complete : AllAdded("bundles", opts) /\ AllAdded("settlements", opts))'
    BY <2>2 DEF Progress, AllAdded, Table
  <2> QED
    BY <1>2, <2>6, <2>7 DEF PageFirst
<1>4. CASE run.at = "settlements"
  <2>1. run' = Off /\ complete' = complete \cup {run.opts}
    BY <1>4 DEF PhaseEnds
  <2>2. run'.at = "off"
    BY <2>1, OffFacts
  <2>3. \A row \in bundles : InRange(run.opts, row) => row \in outbox'
    BY <1>4 DEF Progress, Caught, AllAdded, Table
  <2>4. \A row \in settlements : InRange(run.opts, row) => row \in outbox'
    BY <1>4 DEF Table
  <2>5. (\A opts \in complete : AllAdded("bundles", opts) /\ AllAdded("settlements", opts))'
    BY <2>1, <2>3, <2>4 DEF Progress, AllAdded, Table
  <2> QED
    BY <1>2, <2>2, <2>5 DEF PageFirst
<1> QED
  BY <1>3, <1>4 DEF PhaseEnds

\* The page read is the first rows that are left, and none is left when it is empty.
LEMMA ReadPageStep ==
    ASSUME TransitionAssumption, TypeOK, Tables, Progress, ReadPage
    PROVE  Progress'
<1>1. /\ UNCHANGED <<bundles, settlements, outbox, printed>>
      /\ run.at \in {"bundles", "settlements"} /\ run.page = {}
  BY DEF ReadPage, Stepping, ledger, TypeOK
<1>2. /\ Left \in SUBSET Rows /\ IsFiniteSet(Left)
      /\ \A r, s \in Left : r.table = s.table
  <2>1. Left \subseteq Table(run.at)
    BY DEF Left
  <2>2. /\ Table(run.at) \in SUBSET Rows /\ IsFiniteSet(Table(run.at))
        /\ \A r, s \in Table(run.at) : r.table = s.table
    BY DEF Table, Tables, TypeOK
  <2> QED
    BY <2>1, <2>2, FS_Subset
<1>3. Page = PageOf(Left)
  BY DEF Page, PageOf, Earlier
<1>4. \A row \in Table(run.at) : InRange(run.opts, row) /\ row \notin outbox => row \in Left
  BY <1>1 DEF Progress, Caught, AllBeyond, Left
<1>5. (\A mark \in printed : Caught(mark.at, mark.opts, mark.cursor))'
  BY <1>1 DEF Progress, Caught, AllBeyond, AllAdded, Table
<1>6. CASE Page = {}
  <2>1. Left = {}
    BY <1>2, <1>3, <1>6, PageIsFirst
  <2>2. \A row \in Table(run.at) : InRange(run.opts, row) => row \in outbox'
    BY <1>1, <1>4, <2>1
  <2>3. PhaseEnds
    BY <1>6 DEF ReadPage
  <2> QED
    BY <1>1, <1>5, <2>2, <2>3, PhaseEndStep DEF Progress
<1>7. CASE Page # {}
  <2>1. run' = [run EXCEPT !.page = Page, !.full = Cardinality(Page) = BatchSize]
        /\ complete' = complete
    BY <1>7 DEF ReadPage
  <2>2. /\ run'.at = run.at /\ run'.opts = run.opts /\ run'.cursor = run.cursor
        /\ run'.page = Page /\ run'.full = (Cardinality(Page) = BatchSize)
    BY <2>1, RunType DEF Runs
  <2>3. PageFirst'
    <3>1. Page \subseteq Table(run.at)
      BY DEF Page, Left
    <3>2. ASSUME NEW row \in Table(run.at), InRange(run.opts, row), row \notin outbox,
                 row \notin Page
          PROVE  /\ Cardinality(Page) = BatchSize
                 /\ \A r \in Page : Before(Key(r), Key(row))
      <4>1. row \in Left \ Page
        BY <1>4, <3>2
      <4> QED
        BY <1>2, <1>3, <4>1, PageIsFirst
    <3>3. Table(run.at)' = Table(run.at)
      BY <1>1, <2>2 DEF Table
    <3> QED
      BY <1>1, <2>2, <3>1, <3>2, <3>3 DEF PageFirst
  <2>4. (run.at # "off" => Caught(run.at, run.opts, run.cursor))'
    BY <1>1, <2>2 DEF Progress, Caught, AllBeyond, AllAdded, Table
  <2>5. (\A opts \in complete : AllAdded("bundles", opts) /\ AllAdded("settlements", opts))'
    BY <1>1, <2>1 DEF Progress, AllAdded, Table
  <2> QED
    BY <1>1, <1>5, <2>2, <2>3, <2>4, <2>5 DEF Progress
<1> QED
  BY <1>6, <1>7

\* The event of the first row is added, and the cursor moved to it: what has no event is
\* still on the page or beyond it.
LEMMA AppendStep ==
    ASSUME TransitionAssumption, TypeOK, Tables, Progress, Append
    PROVE  Progress'
<1> DEFINE row == First(run.page)
           next == [run EXCEPT !.cursor = CursorAt(row), !.page = @ \ {row}]
<1>1. /\ UNCHANGED <<bundles, settlements>> /\ outbox' = outbox \cup {row}
      /\ run.page # {}
  BY DEF Append, Stepping, ledger
<1>2. /\ row \in run.page /\ row \in Table(run.at) /\ row \in Rows
      /\ run.at \in {"bundles", "settlements"}
      /\ \A r \in run.page : r # row => Before(Key(row), Key(r))
  BY <1>1, FirstOnPage DEF TypeOK
<1>3. /\ next.at = run.at /\ next.opts = run.opts /\ next.full = run.full
      /\ next.cursor = CursorAt(row) /\ next.page = run.page \ {row}
  BY RunType DEF Runs
<1>4. ASSUME NEW r \in Table(run.at), InRange(run.opts, r), r \notin outbox'
      PROVE  /\ Beyond(CursorAt(row), r)
             /\ r \notin next.page =>
                   run.full /\ \A q \in run.page : Before(Key(q), Key(r))
  <2>1. r # row /\ r \notin outbox /\ r \in Rows
    BY <1>1, <1>4 DEF Table, TypeOK
  <2>2. r \notin run.page => run.full /\ \A q \in run.page : Before(Key(q), Key(r))
    BY <1>1, <1>4, <2>1 DEF Progress, PageFirst
  <2>3. Before(Key(row), Key(r))
    BY <1>2, <2>1, <2>2
  <2> QED
    BY <1>2, <1>3, <2>1, <2>2, <2>3, CursorBefore
<1>5. Table(run.at) \subseteq bundles' \cup settlements' /\
      \A phase : Table(phase)' = Table(phase)
  BY <1>1 DEF Table
<1>6. run.at = "settlements" => \A r \in bundles : InRange(run.opts, r) => r \in outbox'
  BY <1>1, <1>2 DEF Progress, Caught, AllAdded, Table
<1>7. \A mark \in printed :
         /\ \A r \in Table(mark.at) :
               InRange(mark.opts, r) /\ r \notin outbox' => Beyond(mark.cursor, r)
         /\ mark.at = "settlements" =>
               \A r \in bundles : InRange(mark.opts, r) => r \in outbox'
  BY <1>1 DEF Progress, Caught, AllBeyond, AllAdded, Table
<1>8. CASE next.page # {}
  <2>1. run' = next /\ UNCHANGED <<printed, complete>>
    BY <1>8 DEF Append
  <2> HIDE DEF next, row
  <2>2. /\ run'.at = run.at /\ run'.opts = run.opts /\ run'.cursor = CursorAt(row)
        /\ run'.page = run.page \ {row} /\ run'.full = run.full
    BY <1>3, <2>1
  <2>3. PageFirst'
    <3>1. run'.page \subseteq Table(run.at)
      BY <2>2, <1>1 DEF Progress, PageFirst
    <3> QED
      BY <1>3, <1>4, <1>5, <2>2, <3>1 DEF PageFirst
  <2>4. (run.at # "off" => Caught(run.at, run.opts, run.cursor))'
    BY <1>1, <1>4, <1>5, <1>6, <2>2 DEF Caught, AllBeyond, AllAdded, Table
  <2>5. (\A mark \in printed : Caught(mark.at, mark.opts, mark.cursor))'
    BY <1>1, <1>7, <2>1 DEF Caught, AllBeyond, AllAdded, Table
  <2>6. (\A opts \in complete : AllAdded("bundles", opts) /\ AllAdded("settlements", opts))'
    BY <1>1, <2>1 DEF Progress, AllAdded, Table
  <2>7. run'.at # "off"
    BY <1>2, <2>2
  <2> QED
    BY <2>3, <2>4, <2>5, <2>6, <2>7 DEF Progress
<1>9. CASE next.page = {}
  <2> DEFINE mark == [opts |-> run.opts, at |-> run.at, cursor |-> next.cursor]
  <2>1. /\ printed' = printed \cup {mark}
        /\ \/ ~run.full /\ PhaseEnds
           \/ run.full /\ run' = [next EXCEPT !.full = FALSE] /\ UNCHANGED complete
    BY <1>9 DEF Append, LastPage
  <2>2. mark.at = run.at /\ mark.opts = run.opts /\ mark.cursor = CursorAt(row)
    BY <1>3
  <2>3. (\A m \in printed : Caught(m.at, m.opts, m.cursor))'
    <3> HIDE DEF mark, next, row
    <3>1. /\ \A r \in Table(mark.at) :
                InRange(mark.opts, r) /\ r \notin outbox' => Beyond(mark.cursor, r)
          /\ mark.at = "settlements" =>
                \A r \in bundles : InRange(mark.opts, r) => r \in outbox'
      BY <1>4, <1>6, <2>2
    <3>2. \A m \in printed' :
             /\ \A r \in Table(m.at) :
                   InRange(m.opts, r) /\ r \notin outbox' => Beyond(m.cursor, r)
             /\ m.at = "settlements" =>
                   \A r \in bundles : InRange(m.opts, r) => r \in outbox'
      BY <1>7, <2>1, <3>1
    <3> QED
      BY <1>1, <3>2 DEF Caught, AllBeyond, AllAdded, Table
  <2>4. CASE ~run.full /\ PhaseEnds
    <3>1. \A r \in Table(run.at) : InRange(run.opts, r) => r \in outbox'
      BY <1>4, <1>9, <2>4
    <3>2. outbox \subseteq outbox'
      BY <1>1
    <3> HIDE DEF mark, next, row
    <3> QED
      BY <1>1, <2>3, <2>4, <3>1, <3>2, PhaseEndStep DEF Progress
  <2>5. CASE run.full /\ run' = [next EXCEPT !.full = FALSE] /\ UNCHANGED complete
    <3>1. /\ run'.at = run.at /\ run'.opts = run.opts /\ run'.cursor = CursorAt(row)
          /\ run'.page = {}
      BY <1>9, <2>5, RunType DEF Runs
    <3> HIDE DEF mark, next, row
    <3>2. (run.at # "off" => Caught(run.at, run.opts, run.cursor))'
      BY <1>1, <1>4, <1>5, <1>6, <3>1 DEF Caught, AllBeyond, AllAdded, Table
    <3>3. (\A opts \in complete : AllAdded("bundles", opts) /\ AllAdded("settlements", opts))'
      BY <1>1, <2>5 DEF Progress, AllAdded, Table
    <3>4. PageFirst'
      BY <3>1 DEF PageFirst
    <3> QED
      BY <2>3, <3>1, <3>2, <3>3, <3>4 DEF Progress
  <2> QED
    BY <2>1, <2>4, <2>5
<1> QED
  BY <1>8, <1>9

\* Every action keeps the backfill's progress.
LEMMA TransitionProgress ==
    ASSUME TransitionAssumption, TypeOK, Tables, Runbook, Progress, Next
    PROVE  Progress'
<1>1. ASSUME NEW p \in Old, OldPays(p) PROVE Progress'
  BY <1>1, ProgressKept DEF OldPays, backfill
<1>2. ASSUME NEW p \in New, NewPays(p) \/ NewSettles(p) PROVE Progress'
  <2>1. /\ UNCHANGED <<run, printed, complete>> /\ outbox \subseteq outbox'
        /\ bundles \subseteq bundles' /\ settlements \subseteq settlements'
        /\ bundles' \ bundles \subseteq outbox' /\ settlements' \ settlements \subseteq outbox'
    BY <1>2 DEF NewPays, NewSettles, backfill
  <2> QED
    BY <2>1, ProgressKept
<1>3. CASE Drain
  BY <1>3, ProgressKept DEF Drain, ledger, backfill
<1>4. CASE Migrate \/ Finalize
  <2>1. stage # "backfill" /\ UNCHANGED <<run, printed, complete>>
    BY <1>4 DEF Migrate, Finalize, backfill
  <2>2. run.at = "off" /\ printed = {} /\ complete = {}
    BY <2>1 DEF Runbook
  <2> QED
    BY <2>1, <2>2 DEF Progress, PageFirst
<1>5. CASE StartBackfill
  <2>1. UNCHANGED <<bundles, settlements, outbox, printed, complete>>
    BY <1>5 DEF StartBackfill, ledger
  <2>2. /\ (\A mark \in printed : Caught(mark.at, mark.opts, mark.cursor))'
        /\ (\A opts \in complete : AllAdded("bundles", opts) /\ AllAdded("settlements", opts))'
    BY <2>1 DEF Progress, Caught, AllBeyond, AllAdded, Table
  <2>3. PICK mark \in [opts : Options, at : {"bundles", "settlements"}, cursor : Cursors] :
           /\ run' = Phase(mark.at, mark.opts, mark.cursor)
           /\ Caught(mark.at, mark.opts, mark.cursor)
    <3>1. CASE \E opts \in Options : run' = Phase("bundles", opts, NoCursor)
      <4>1. PICK opts \in Options : run' = Phase("bundles", opts, NoCursor)
        BY <3>1
      <4>2. Caught("bundles", opts, NoCursor)
        BY StartsBefore DEF Caught, AllBeyond, Table, TypeOK
      <4>3. NoCursor \in Cursors
        BY DEF NoCursor, Cursors
      <4> DEFINE mark == [opts |-> opts, at |-> "bundles", cursor |-> NoCursor]
      <4>4. /\ mark \in [opts : Options, at : {"bundles", "settlements"}, cursor : Cursors]
            /\ mark.at = "bundles" /\ mark.opts = opts /\ mark.cursor = NoCursor
        BY <4>3
      <4> HIDE DEF mark
      <4> QED
        BY <4>1, <4>2, <4>4
    <3>2. CASE \E mark \in printed : run' = Phase(mark.at, mark.opts, mark.cursor)
      BY <3>2 DEF Progress, TypeOK
    <3> QED
      BY <1>5, <3>1, <3>2 DEF StartBackfill
  <2>4. /\ mark.at \in {"bundles", "settlements"} /\ mark.opts \in Options
        /\ mark.cursor \in Cursors
    BY <2>3
  <2>5. /\ run'.at = mark.at /\ run'.opts = mark.opts /\ run'.cursor = mark.cursor
        /\ run'.page = {}
    BY <2>3, PhaseIs
  <2>6. (run.at # "off" => Caught(run.at, run.opts, run.cursor))'
    BY <2>1, <2>3, <2>5 DEF Caught, AllBeyond, AllAdded, Table
  <2>7. PageFirst'
    BY <2>5 DEF PageFirst
  <2> QED
    BY <2>2, <2>5, <2>6, <2>7 DEF Progress
<1>6. CASE Kill
  <2>1. UNCHANGED <<bundles, settlements, outbox, printed, complete>> /\ run' = Off
    BY <1>6 DEF Kill, ledger
  <2>2. run'.at = "off" /\ run'.page = {}
    BY <2>1, OffFacts
  <2>3. /\ (\A mark \in printed : Caught(mark.at, mark.opts, mark.cursor))'
        /\ (\A opts \in complete : AllAdded("bundles", opts) /\ AllAdded("settlements", opts))'
    BY <2>1 DEF Progress, Caught, AllBeyond, AllAdded, Table
  <2> QED
    BY <2>2, <2>3 DEF Progress, PageFirst
<1> QED
  BY <1>1, <1>2, <1>3, <1>4, <1>5, <1>6, ReadPageStep, AppendStep DEF Next

\* The invariant is inductive.
LEMMA TransitionStep ==
    ASSUME TransitionAssumption, TransitionInv, [Next]_vars
    PROVE  TransitionInv'
<1>1. CASE Next
  BY <1>1, TransitionTypes, TransitionTables, TransitionRunbook, TransitionCarried,
     TransitionOnlyCopies, TransitionProgress DEF TransitionInv
<1>2. CASE UNCHANGED vars
  <2>1. TypeOK' /\ Tables' /\ Runbook' /\ Carried' /\ OnlyCopiesWait'
    BY <1>2 DEF TransitionInv, vars, TypeOK, Tables, Runbook, Carried, OnlyCopiesWait
  <2>2. Progress'
    BY <1>2, ProgressKept DEF TransitionInv, vars
  <2> QED
    BY <2>1, <2>2 DEF TransitionInv
<1> QED
  BY <1>1, <1>2

\* The invariant holds in every behaviour.
THEOREM TransitionInvariant ==
    TransitionAssumption => (Spec => []TransitionInv)
<1> SUFFICES ASSUME TransitionAssumption
             PROVE  Spec => []TransitionInv
  OBVIOUS
<1>1. Init => TransitionInv
  BY TransitionInit
<1>2. TransitionInv /\ [Next]_vars => TransitionInv'
  BY TransitionStep
<1> QED
  BY <1>1, <1>2, PTL DEF Spec

-----------------------------------------------------------------------------
(* What the move keeps.                                                    *)

\* A bundle of an old payment is its copy, so there is at most one; the finalizer saw to
\* it that there is one, and settlements are copied from receipts with evidence.
LEMMA InvCarries ==
    ASSUME TransitionAssumption, TransitionInv
    PROVE  LegacyCarried
<1>1. ASSUME stage \in {"finalized", "backfill"}, NEW p \in payments \cap Old
      PROVE  /\ Cardinality({b \in bundles : b.of = p}) = 1
             /\ p \in Evidence => SettlementCopy(p) \in settlements
  <2>1. /\ BundleCopy(p) \in bundles
        /\ p \in Evidence => SettlementCopy(p) \in settlements
    BY <1>1 DEF TransitionInv, Carried
  <2>2. ASSUME NEW b \in bundles, b.of = p PROVE b = BundleCopy(p)
    <3>1. b \in Rows /\ b.table = "bundles" /\ p \notin New
      BY DEF TransitionInv, TypeOK, Tables, TransitionAssumption
    <3> QED
      BY <2>2, <3>1 DEF Rows, Bundle, BundleCopy, Settlement, SettlementCopy
  <2>3. {b \in bundles : b.of = p} = {BundleCopy(p)}
    <3>1. BundleCopy(p).of = p
      BY DEF BundleCopy
    <3> QED
      BY <2>1, <2>2, <3>1
  <2> QED
    BY <2>1, <2>3, FS_Singleton
<1>2. ASSUME NEW s \in settlements, s.copy
      PROVE  s.of \in Evidence
  <2>1. s \in Rows /\ s.table = "settlements"
    BY DEF TransitionInv, TypeOK, Tables
  <2> QED
    BY <1>2, <2>1 DEF Rows, Bundle, BundleCopy, Settlement, SettlementCopy
<1> QED
  BY <1>1, <1>2 DEF LegacyCarried

\* What old gateways sold is carried over once, for any number of payments and whenever
\* the old gateways write them.
THEOREM LegacyIsCarried ==
    TransitionAssumption => (Spec => []LegacyCarried)
<1> SUFFICES ASSUME TransitionAssumption
             PROVE  Spec => []LegacyCarried
  OBVIOUS
<1>1. TransitionInv => LegacyCarried
  BY InvCarries
<1> QED
  BY <1>1, TransitionInvariant, PTL

\* A backfill that has ended has left no row of its range without its event, for any
\* times, ranges, page size and number of kills.
THEOREM BackfillLeavesNone ==
    TransitionAssumption => (Spec => []BackfillComplete)
<1> SUFFICES ASSUME TransitionAssumption
             PROVE  Spec => []BackfillComplete
  OBVIOUS
<1>1. TransitionInv => BackfillComplete
  BY DEF TransitionInv, Progress, AllAdded, Table, BackfillComplete
<1> QED
  BY <1>1, TransitionInvariant, PTL

=====

--------------------------- MODULE LedgersProofs ---------------------------
(***************************************************************************)
(* The Postgres gateway implements metered reading: each of its steps      *)
(* sells the next range, bills a range sold before, or changes nothing     *)
(* MeteredReading can see.  And over either ledger no key pays twice.      *)
(***************************************************************************)
EXTENDS Ledgers, PaidReadingProofs

\* The counters stored with the last bundle are those of the whole ledger.
LastBundle ==
    bundles # <<>> => /\ bundles[Len(bundles)].w = Frontier
                      /\ bundles[Len(bundles)].paid = Price * Frontier

Sold  == IF bundles = <<>> THEN 0 ELSE bundles[Len(bundles)].w
Spent == IF bundles = <<>> THEN 0 ELSE bundles[Len(bundles)].paid
Open  == {Handoff(i) : i \in DOMAIN bundles} \ {queued[j] : j \in DOMAIN queued}

\* What was sold of a session ends where its ledger does.
LEMMA SoldIsFrontier ==
    ASSUME LastBundle
    PROVE  Sold = Frontier /\ Spent = Price * Frontier
<1>1. Price * 0 = 0
  BY ConstantsAssumption DEF ConstantsAssumption
<1>2. QED
  BY <1>1 DEF LastBundle, Sold, Spent, Frontier

\* A ledger that grows keeps the bundles it has.
LEMMA LastBundleKept ==
    ASSUME Adapter = "postgres", IInv, LastBundle, NEW r \in Requests, Arrive(r) \/ Step(r)
    PROVE  LastBundle'
<1>1. CASE ~Commit(r)
  BY <1>1, OnlyCommitAppends DEF IInv, LastBundle, Frontier
<1>2. CASE Commit(r)
  <2>1. /\ Len(bundles') = Len(bundles) + 1
        /\ bundles'[Len(bundles) + 1].w = Frontier + plan[r].m
        /\ bundles'[Len(bundles) + 1].paid = Price * Frontier + Price * plan[r].m
        /\ Frontier' = Frontier + plan[r].m
    BY <1>2, CommitExtends
  <2>2. Frontier \in Nat /\ plan[r].m \in Nat
    BY <1>2, FrontierNat, CommitsAtFrontier DEF IInv
  <2>3. Price * (Frontier + plan[r].m) = Price * Frontier + Price * plan[r].m
    BY <2>2, PriceSum
  <2>4. QED
    BY <2>1, <2>3 DEF LastBundle
<1>3. QED
  BY <1>1, <1>2

\* A commit sells the words that follow those sold before.
LEMMA CommitSells ==
    ASSUME Adapter = "postgres", IInv, LastBundle, NEW r \in Requests, Commit(r)
    PROVE  Promise!Sell
<1> DEFINE m == plan[r].m
           range == [start |-> Sold, n |-> m, amount |-> Price * m]
<1>1. /\ Len(bundles') = Len(bundles) + 1 /\ Len(bundles) \in Nat
      /\ DOMAIN bundles' = DOMAIN bundles \cup {Len(bundles) + 1}
      /\ \A i \in DOMAIN bundles : bundles'[i] = bundles[i]
      /\ bundles'[Len(bundles) + 1].start = Frontier
      /\ bundles'[Len(bundles) + 1].n = m
      /\ bundles'[Len(bundles) + 1].gross = Price * m
      /\ bundles'[Len(bundles) + 1].w = Frontier + m
      /\ bundles'[Len(bundles) + 1].paid = Price * Frontier + Price * m
  BY CommitExtends
<1>2. /\ m \in Nat /\ m >= 1 /\ Frontier \in Nat /\ Frontier + m <= Words
      /\ Access = "paid" => Price * (Frontier + m) <= Budget
      /\ Words \in Nat
  BY CommitsAtFrontier, FrontierNat, ConstantsAssumption DEF IInv, ConstantsAssumption
<1>3. Sold = Frontier /\ Spent = Price * Frontier
  BY SoldIsFrontier
<1>4. Price * (Frontier + m) = Price * Frontier + Price * m
  BY <1>2, PriceSum
<1>5. queued' = queued
  BY DEF Commit
<1>6. bundles' # <<>>
  BY <1>1
<1>7. Sold' = Sold + m /\ Spent' = Spent + Price * m
  BY <1>1, <1>3, <1>6 DEF Sold, Spent
<1>8. m \in 1 .. (Words - Sold) /\ (Access = "paid" => Spent + Price * m <= Budget)
  BY <1>2, <1>3, <1>4
<1>9. Open' = Open \cup {range}
  <2>1. {Handoff(i)' : i \in DOMAIN bundles'} = {Handoff(i) : i \in DOMAIN bundles} \cup {range}
    <3>1. \A i \in DOMAIN bundles : Handoff(i)' = Handoff(i)
      BY <1>1 DEF Handoff
    <3>2. \A i : i = Len(bundles) + 1 => Handoff(i)' = range
      BY <1>1, <1>3 DEF Handoff
    <3>3. QED
      BY <1>1, <3>1, <3>2
  <2>2. \A j \in DOMAIN queued : queued[j] # range
    <3>1. ASSUME NEW j \in DOMAIN queued PROVE queued[j].start # Frontier
      <4>1. PICK i \in DOMAIN bundles : queued[j] = Handoff(i)
        BY DEF IInv, LedgerStrong, HandoffsAreBundles
      <4>2. bundles[i].start + bundles[i].n <= Frontier /\ bundles[i].n >= 1
            /\ bundles[i] \in Bundles
        BY EndsBeforeFrontier DEF IInv, LedgerStrong, LedgerInv, LedgerTiles, TypeOK
      <4>3. bundles[i].start # Frontier
        BY <1>2, <4>2 DEF Bundles
      <4>4. QED
        BY <4>1, <4>3 DEF Handoff
    <3>2. QED
      BY <1>3, <3>1
  <2>3. Open' = {Handoff(i)' : i \in DOMAIN bundles'} \ {queued[j] : j \in DOMAIN queued}
    BY <1>5 DEF Open
  <2>4. QED
    BY <2>1, <2>2, <2>3 DEF Open
<1>10. QED
  BY <1>5, <1>7, <1>8, <1>9 DEF Promise!Sell, Promise!Range, Sold, Spent, Open

\* The return of a request that holds a new bundle bills the range of that bundle.
LEMMA ReturnBills ==
    ASSUME Adapter = "postgres", IInv, NEW r \in Requests, Awaiting(r), UNCHANGED bundles,
           queued' = Append(queued, Handoff(got[r].idx))
    PROVE  Promise!Bill
<1> DEFINE mine == Handoff(got[r].idx)
<1>1. got[r].idx \in DOMAIN bundles
  BY DEF IInv, TypeOK, Awaiting
<1>2. \A j \in DOMAIN queued : queued[j] # mine
  BY DEF IInv, LedgerStrong, HandoffInv, AwaitingOK
<1>3. mine \in Open
  BY <1>1, <1>2 DEF Open
<1>4. queued \in Seq(Ranges) /\ mine \in Ranges
  <2>1. bundles[got[r].idx] \in Bundles
    BY <1>1 DEF IInv, TypeOK
  <2>2. QED
    BY <2>1 DEF IInv, TypeOK, Handoff, Ranges, Bundles
<1>5. {queued'[j] : j \in DOMAIN queued'} = {queued[j] : j \in DOMAIN queued} \cup {mine}
  BY <1>4
<1>6. \A i : Handoff(i)' = Handoff(i)
  BY DEF Handoff
<1>7. Open' = Open \ {mine}
  BY <1>5, <1>6 DEF Open
<1>8. Sold' = Sold /\ Spent' = Spent
  BY DEF Sold, Spent
<1>9. QED
  BY <1>3, <1>7, <1>8 DEF Promise!Bill, Sold, Spent, Open

\* A step that leaves the rows alone is none of the abstract ledger.
LEMMA LedgerStutters ==
    ASSUME UNCHANGED <<bundles, queued>>
    PROVE  UNCHANGED <<Sold, Spent, Open, queued>>
BY DEF Sold, Spent, Open, Handoff

\* Every step of the gateway is one of the promise, or none.
LEMMA StepKeepsPromise ==
    ASSUME Adapter = "postgres", IInv, LastBundle, [Next]_vars
    PROVE  Promise!Next \/ UNCHANGED <<Sold, Spent, Open, queued>>
<1>1. ASSUME NEW r \in Requests, Arrive(r) \/ Step(r)
      PROVE  Promise!Next \/ UNCHANGED <<Sold, Spent, Open, queued>>
  <2>1. CASE Commit(r)
    BY <2>1, CommitSells DEF Promise!Next
  <2>2. CASE ~Commit(r) /\ UNCHANGED queued
    BY <1>1, <2>2, OnlyCommitAppends, LedgerStutters DEF IInv
  <2>3. CASE ~Commit(r) /\ Awaiting(r) /\ queued' = Append(queued, Handoff(got[r].idx))
    BY <1>1, <2>3, OnlyCommitAppends, ReturnBills DEF IInv, Promise!Next
  <2>4. QED
    BY <1>1, <2>1, <2>2, <2>3, QueueGrows
<1>2. CASE Expire \/ Crash \/ UNCHANGED vars
  BY <1>2, LedgerStutters DEF Expire, Crash, vars
<1>3. QED
  BY <1>1, <1>2 DEF Next

\* The invariant the refinement rests on is kept.
LEMMA LastBundleNext ==
    ASSUME Adapter = "postgres", IInv, LastBundle, [Next]_vars
    PROVE  LastBundle'
<1>1. ASSUME NEW r \in Requests, Arrive(r) \/ Step(r) PROVE LastBundle'
  BY <1>1, LastBundleKept
<1>2. CASE Expire \/ Crash \/ UNCHANGED vars
  BY <1>2 DEF Expire, Crash, vars, LastBundle, Frontier
<1>3. QED
  BY <1>1, <1>2 DEF Next

\* The gateway over Postgres sells the article in order, at the word price, within the
\* budget, and bills each range sold at most once, however many requests, retries, stale
\* saves and restarts there are: every behaviour is one of MeteredReading.
THEOREM GatewayKeepsPromise ==
    ASSUME Adapter = "postgres"
    PROVE  Spec => KeepsPromise
<1>1. Init => Promise!Init /\ LastBundle
  BY DEF Init, Promise!Init, LastBundle
<1>2. IInv /\ LastBundle /\ [Next]_vars => LastBundle'
  BY LastBundleNext
<1>3. IInv /\ LastBundle /\ [Next]_vars => [Promise!Next]_<<Sold, Spent, Open, queued>>
  BY StepKeepsPromise
<1>4. Spec => []IInv
  BY InvariantHolds
<1>5. QED
  BY <1>1, <1>2, <1>3, <1>4, PTL DEF Spec, KeepsPromise, Promise!Spec, Sold, Spent, Open

-----------------------------------------------------------------------------
(* Both ledgers.                                                           *)

\* To each ledger a step over the other is a stutter.
LEMMA LedgersParts ==
    LedgersSpec => Spec /\ Memory!Spec
<1>1. LedgersInit => Init /\ Memory!Init
  BY DEF LedgersInit
<1>2. [InPostgres \/ InMemory]_<<part, vars, memory>> => [Next]_vars
  BY DEF InPostgres, InMemory
<1>3. [InPostgres \/ InMemory]_<<part, vars, memory>> => [Memory!Next]_(Memory!vars)
  BY DEF InPostgres, InMemory, memory, Memory!vars
<1>4. QED
  BY <1>1, <1>2, <1>3, PTL DEF LedgersSpec, Spec, Memory!Spec

\* One key, one bundle: in Postgres, where unique indexes see to it, and in memory, where
\* nothing does but that a handler looks the key up and appends in one step.
THEOREM KeysPayOnceEverywhere == LedgersSpec => []KeysPayOnce
<1>1. Memory!ConstantsAssumption
  BY ConstantsAssumption DEF ConstantsAssumption, Memory!ConstantsAssumption,
     AllKinds, Memory!AllKinds
<1>2. Memory!Spec => []Memory!OneBundlePerKey
  BY <1>1, Memory!KeyCommitsOnce
<1>3. QED
  BY <1>2, LedgersParts, KeyCommitsOnce, PTL DEF KeysPayOnce
=============================================================================

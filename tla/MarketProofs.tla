----------------------------- MODULE MarketProofs -----------------------------
(***************************************************************************)
(* What buyers meet keeps its word.  First the buy command: a repeated     *)
(* `rubicon buy` keeps its budget and its files tell the truth, for any    *)
(* sections, budgets, assessments, endings of the Circle CLI, number of    *)
(* runs and number of kills.  Then the embeddings runner, for any number   *)
(* of runners, sections and edits.  Last what the run of the market checks *)
(* of each part, with what is proved of the storefront and of the terms of *)
(* payment.                                                                *)
(***************************************************************************)
EXTENDS Market, FiniteSetTheorems, WellFoundedInduction, TLAPS

-----------------------------------------------------------------------------
(* The buy command.                                                        *)

\* The stages of a run that work on one section of the plan.
Working == {"load", "write", "open", "loop", "await", "abort", "returned", "verify", "bought"}

\* A completed operation names the run that bought.
Named(op) == op.status = "completed" => op.by \in Runs

\* So do the files, and the one being written.
Filed == Named(writing.op) /\ \A s \in Targets : Named(ops[s])

\* The type invariant, with what it takes to read the section in work.
BuyTypes ==
    /\ TypeOK
    /\ at >= 1
    /\ pc # "idle" => run \in Runs
    /\ Filed
    /\ pc \in Working => at \in DOMAIN ranked

-----------------------------------------------------------------------------
(* The inductive invariant.                                                *)

\* The gateway may still charge this session; it was opened at all.
Busy(k, s)   == wire[<<k, s>>].at \in {"sent", "verified"}
Exists(k, s) == session[<<k, s>>].state # "none"

\* A session stays within its cap and an answer within the session; what is being
\* served leaves room in the budget for all that its session may still charge.
SessionInv(k, s) ==
    LET c == session[<<k, s>>]
        q == wire[<<k, s>>]
    IN  /\ c.paid <= c.cap
        /\ ~Exists(k, s) => c.paid = 0 /\ q.at = "none"
        /\ q.at = "answered" => q.w = c.w /\ q.paid = c.paid
        /\ q.at = "verified" => q.start = c.w /\ Price * q.n <= c.cap - c.paid
        /\ Busy(k, s) => counted[k] - c.paid + c.cap <= Budget
        /\ k > run => ~Exists(k, s)

\* A run has one request out at most.
RunInv(k) ==
    /\ counted[k] <= Budget
    /\ k > run => counted[k] = 0
    /\ \A s, t \in Targets : Busy(k, s) /\ Busy(k, t) => s = t

Saved(c) == [status |-> "saved", paid |-> c.paid, words |-> c.w]

\* A completed operation is about a session that nothing can charge any more.
FileInv(s) ==
    ops[s].status = "completed" =>
        LET k == ops[s].by IN
        /\ k \in Runs
        /\ Exists(k, s) /\ ~Busy(k, s)
        /\ receipts[<<k, s>>] = Saved(session[<<k, s>>])
        /\ ops[s].amount = session[<<k, s>>].paid

\* An operation counts at least as many attempts as there are sessions, up to two.
Traced(op, s) ==
    \A j \in Runs : Exists(j, s) =>
        /\ op.status # "none" /\ op.attempts >= 1
        /\ \A k \in Runs \ {j} : Exists(k, s) => op.attempts >= 2

RecordInv(s) == ops[s].status # "torn" => Traced(ops[s], s)

\* An attempt that has not opened its session yet.
Begun(op, s) ==
    /\ op.status = "started" /\ op.attempts >= 1
    /\ \A j \in Runs : Exists(j, s) => op.attempts >= 2

\* Where the run is, or where it goes on after the file it is writing.
Stage == IF pc = "write" THEN writing.next ELSE pc

\* The stages before the session of the section in work is opened.
Unopened == {"fund", "wallet", "balance", "faucet", "recheck", "recheck_limited", "select",
             "load", "open"}

\* The read of this section goes on, or has ended with a count to rely on.
Reading  == pc \in {"loop", "await"} \/ (pc \in {"abort", "returned"} /\ stop # "aborted")

\* A plan names a section once, and a run opens no session ahead of its plan.
PlanInv ==
    /\ \A i, j \in DOMAIN ranked : ranked[i].section = ranked[j].section => i = j
    /\ pc # "idle" =>
         /\ spent <= Budget
         /\ \A i \in DOMAIN ranked :
              i > at \/ (i = at /\ Stage \in Unopened) => ~Exists(run, ranked[i].section)

\* The run has counted what the gateway charged it, except for the session in work.
MoneyInv ==
    /\ pc # "idle" =>
         \A s \in Targets : Busy(run, s) =>
            /\ s = Section
            /\ Stage = "idle" \/ pc = "await" \/ (pc \in {"abort", "returned"} /\ stop = "aborted")
    /\ Stage \in Unopened \cup {"verify", "bought"} => counted[run] <= spent
    /\ Stage \in {"load", "open", "loop", "await"} => spent + cap <= Budget
    /\ Stage \in {"load", "open"} => words = 0 /\ paid = 0
    /\ pc \in {"loop", "await"} => session[Sid].cap = cap
    /\ pc \in {"abort", "returned"} => Exists(run, Section)
    /\ Reading => Exists(run, Section) /\ counted[run] <= spent + session[Sid].paid
    /\ (Reading /\ pc # "await") \/ Stage = "verify" =>
         Exists(run, Section) /\ words = session[Sid].w /\ paid = session[Sid].paid

\* The record of the section in work is on disk before its session is opened, and what
\* is about to be written is what the gateway says.
WriteInv ==
    /\ pc \in {"open", "loop", "await", "abort", "returned", "verify"} =>
         ops[Section].status = "started"
    /\ pc = "open" => Begun(ops[Section], Section)
    /\ pc = "verify" => receipts[Sid] = Saved(session[Sid])
    /\ pc = "write" =>
         \/ /\ writing.what = "receipt" /\ writing.next = "verify"
            /\ writing.receipt = Saved(session[Sid])
            /\ ops[Section].status = "started"
         \/ /\ writing.what = "op" /\ ops[Section].status = "torn"
            /\ Traced(writing.op, Section)
            /\ \/ writing.next = "open" /\ Begun(writing.op, Section)
               \/ writing.next = "idle" /\ writing.op.status = "ambiguous"
               \/ /\ writing.next = "bought"
                  /\ writing.op.status = "completed" /\ writing.op.by = run
                  /\ writing.op.amount = session[Sid].paid
                  /\ Exists(run, Section)
                  /\ receipts[Sid] = Saved(session[Sid])

LedgerInv == \A k \in Runs : RunInv(k) /\ \A s \in Targets : SessionInv(k, s)
DiskInv   == \A s \in Targets : FileInv(s) /\ RecordInv(s)

BuyInv == BuyTypes /\ LedgerInv /\ DiskInv /\ PlanInv /\ MoneyInv /\ WriteInv

-----------------------------------------------------------------------------
(* The helpers of the plan and of the wrapper.                             *)

\* Every failure of the CLI is told the buyer as one of the documented advices.
LEMMA ClassifyAdvises == \A marks : Classify(marks) \in Advice
  BY DEF Classify, Advice

\* A non-empty set of naturals has a least element.
LEMMA LeastNatural ==
    ASSUME NEW T \in SUBSET Nat, T # {}
    PROVE  \E x \in T : \A y \in T : x <= y
<1>1. PICK x \in T : \A y \in T : <<y, x>> \notin OpToRel(<, Nat)
  BY WFMin, NatLessThanWellFounded
<1>2. \A y \in T : ~ (y < x)
  BY <1>1, Zenon DEF OpToRel
<1> QED
  BY <1>2

\* A command ends as one of its binaries does.
LEMMA CliEndTypes ==
    ASSUME NEW end \in CliEnds
    PROVE  end \in Ends /\ end.ok \in BOOLEAN
<1>1. PICK ends \in [Binaries -> Ends] : end = RunCircleCli("circle", TRUE, ends)
  BY DEF CliEnds
<1> QED
  BY <1>1, BuyAssumption DEF RunCircleCli, Binaries

\* What is kept of an assessment can be planned.
LEMMA KeptPlans ==
    ASSUME NEW a \in Assessments
    PROVE  /\ Kept(a) \subseteq Plans
           /\ \A p, q \in Kept(a) : p.section = q.section => p = q
<1>1. Kept(a) \subseteq Plans
  BY BuyAssumption DEF Kept, Plans, Targets, MinOf, MaxOf
<1>2. \A p, q \in Kept(a) : p.section = q.section => p = q
  BY DEF Kept
<1> QED
  BY <1>1, <1>2

\* A plan names a section at most once.
LEMMA RankingsPlan ==
    ASSUME NEW a \in Assessments, NEW plans \in Rankings(a)
    PROVE  /\ plans \in Seq(Plans)
           /\ \A i, j \in DOMAIN plans : plans[i].section = plans[j].section => i = j
<1>1. PICK full \in IF cmd.mode = "article" THEN {<<Whole>>} ELSE Orders(Kept(a)) :
         plans = IF cmd.one /\ Len(full) > 1 THEN SubSeq(full, 1, 1) ELSE full
  BY DEF Rankings
<1>2. /\ full \in Seq(Plans)
      /\ \A i, j \in DOMAIN full : full[i].section = full[j].section => i = j
  <2>1. CASE cmd.mode = "article"
    <3>1. Whole \in Plans
      BY BuyAssumption DEF Whole, Plans, Targets
    <3> QED
      BY <1>1, <2>1, <3>1, full = <<Whole>>
  <2>2. CASE cmd.mode # "article"
    <3>1. full \in Orders(Kept(a))
      BY <1>1, <2>2
    <3>2. /\ full \in [1 .. Cardinality(Kept(a)) -> Kept(a)]
          /\ \A i, j \in DOMAIN full : i < j => full[i] # full[j]
      BY <3>1 DEF Orders
    <3>3. Cardinality(Kept(a)) \in Nat
      <4> DEFINE f == [p \in Kept(a) |-> p.section]
      <4>1. f \in [Kept(a) -> Sections]
        BY BuyAssumption DEF Kept
      <4>2. f \in Injection(Kept(a), Sections)
        BY <4>1, KeptPlans DEF Injection, IsInjective
      <4>3. IsFiniteSet(Kept(a))
        BY <4>2, FS_Injection, BuyAssumption
      <4> QED
        BY <4>3, FS_CardinalityType
    <3>4. full \in Seq(Plans)
      BY <3>2, <3>3, KeptPlans
    <3>5. ASSUME NEW i \in DOMAIN full, NEW j \in DOMAIN full,
                 full[i].section = full[j].section
          PROVE  i = j
      <4>1. full[i] = full[j]
        BY <3>2, <3>5, KeptPlans
      <4> QED
        BY <3>2, <3>3, <4>1
    <3> QED
      BY <3>4, <3>5
  <2> QED
    BY <2>1, <2>2
<1> QED
  BY <1>1, <1>2

\* What an amount still buys is a whole number of words.
LEMMA AffordableType == \A amount \in Int : Affordable(amount) \in Int
  BY BuyAssumption DEF Affordable

\* What is kept for a later section is a number of its words.
LEMMA ReserveType ==
    ASSUME BuyTypes, at \in DOMAIN ranked, NEW affordable \in Int
    PROVE  Reserve(affordable) \in Nat
<1> DEFINE later == {i \in DOMAIN ranked : /\ ranked[i].section # ranked[at].section
                                           /\ ranked[i].section \notin visited
                                           /\ ranked[i].section \in Practical}
           first == CHOOSE i \in later : \A j \in later : i <= j
<1>1. ranked \in Seq(Plans)
  BY DEF BuyTypes, TypeOK
<1>2. CASE later = {}
  BY <1>2 DEF Reserve
<1>3. CASE later # {}
  <2>1. later \subseteq Nat
    BY <1>1
  <2>2. \E i \in later : \A j \in later : i <= j
    BY <1>3, <2>1, LeastNatural
  <2>3. ranked[first] \in Plans
    BY <1>1, <2>2
  <2>4. ranked[first].min \in Nat
    BY <2>3 DEF Plans
  <2> QED
    BY <2>4 DEF Reserve
<1> QED
  BY <1>2, <1>3

\* A read is planned for a number of words.
LEMMA ReadLimitType ==
    ASSUME BuyTypes, at \in DOMAIN ranked, NEW affordable \in Int
    PROVE  ReadLimit(Plan, affordable) \in Nat
<1>1. Plan \in Plans
  BY DEF BuyTypes, TypeOK, Plan
<1>2. Reserve(affordable) \in Nat
  BY ReserveType
<1> QED
  BY <1>1, <1>2, BuyAssumption DEF ReadLimit, MinOf, MaxOf, Plans, Targets

-----------------------------------------------------------------------------
(* Types.                                                                  *)

\* The first state has the types.
LEMMA TypesInit == Init => BuyTypes
<1> SUFFICES ASSUME Init PROVE BuyTypes
  OBVIOUS
<1>1. NoOp \in Ops /\ NoReceipt \in Receipts /\ NoSession \in Rows /\ NoRequest \in Messages
  BY DEF NoOp, NoReceipt, NoSession, NoRequest, Ops, Receipts, Rows, Messages
<1>2. NoWrite \in Writes
  BY <1>1 DEF NoWrite, Writes, Labels, Outcomes
<1>3. MaxRuns \in Nat /\ MaxKills \in Nat
  BY BuyAssumption
<1>4. bought \in BOOLEAN
  BY DEF Init
<1> QED
  BY <1>1, <1>2, <1>3, <1>4
     DEF Init, BuyTypes, TypeOK, Filed, Named, NoWrite, NoOp, Working, Labels, Outcomes, Stops, Plans

\* A step of the plan's early stages, whatever it learns.
LEMMA TypesQuiet ==
    ASSUME BuyTypes, pc # "idle", NEW label \in Labels \ Working, NEW advice \in Outcomes,
           Step(label) \/ Unfunded(advice)
    PROVE  BuyTypes'
  BY DEF BuyTypes, TypeOK, Filed, Named, Step, Unfunded, Goto, End, disk, planVars, readVars, gateway,
         Labels, Outcomes, Working

\* What is written to an operation file is an operation, and to a receipt file a receipt.
LEMMA TypesWrite ==
    ASSUME BuyTypes, pc \in Working
    PROVE  /\ Plan \in Plans /\ Section \in Targets /\ run \in Runs /\ Sid \in Sids
           /\ \A s \in {"started", "ambiguous", "completed"} : Attempt(s) \in Ops
           /\ \A op \in Ops, label \in Labels, how \in Outcomes :
                Named(op) /\ WriteOp(op, label, how) =>
                   /\ ops' \in [Targets -> Ops] /\ receipts' \in [Sids -> Receipts]
                   /\ writing' \in Writes /\ Filed' /\ pc' = "write" /\ outcome' = "none"
           /\ \A receipt \in Receipts :
                WriteReceipt(receipt) =>
                   /\ ops' \in [Targets -> Ops] /\ receipts' \in [Sids -> Receipts]
                   /\ writing' \in Writes /\ Filed' /\ pc' = "write" /\ outcome' = "none"
<1>1. Plan \in Plans
  BY DEF BuyTypes, TypeOK, Plan
<1>2. Section \in Targets
  BY <1>1 DEF Section, Plans
<1>3. \A s \in {"started", "ambiguous", "completed"} : Attempt(s) \in Ops
  BY <1>2 DEF Attempt, Ops, BuyTypes, TypeOK
<1>4. ASSUME NEW op \in Ops, NEW label \in Labels, NEW how \in Outcomes,
             Named(op), WriteOp(op, label, how)
      PROVE  /\ ops' \in [Targets -> Ops] /\ receipts' \in [Sids -> Receipts]
             /\ writing' \in Writes /\ Filed' /\ pc' = "write" /\ outcome' = "none"
  <2>1. [NoOp EXCEPT !.status = "torn"] \in Ops /\ Named([NoOp EXCEPT !.status = "torn"])
    BY DEF NoOp, Ops, Named
  <2> QED
    BY <1>4, <2>1 DEF WriteOp, Goto, NoWrite, NoReceipt, Receipts, Writes, BuyTypes, TypeOK,
       Filed
<1>5. ASSUME NEW receipt \in Receipts, WriteReceipt(receipt)
      PROVE  /\ ops' \in [Targets -> Ops] /\ receipts' \in [Sids -> Receipts]
             /\ writing' \in Writes /\ Filed' /\ pc' = "write" /\ outcome' = "none"
  <2>1. [NoReceipt EXCEPT !.status = "torn"] \in Receipts
    BY DEF NoReceipt, Receipts
  <2>2. NoOp \in Ops /\ Named(NoOp)
    BY DEF NoOp, Ops, Named
  <2> QED
    BY <1>5, <2>1, <2>2
       DEF WriteReceipt, Goto, NoWrite, Writes, Labels, Outcomes, BuyTypes, TypeOK, Filed
<1>6. run \in Runs
  BY DEF BuyTypes, Working
<1>7. Sid \in Sids
  BY <1>2, <1>6 DEF Sid, Sids
<1> QED
  BY <1>1, <1>2, <1>3, <1>4, <1>5, <1>6, <1>7

\* Every step of buyer, gateway and kill keeps them.
LEMMA TypesNext == BuyTypes /\ [Next]_vars => BuyTypes'
<1> SUFFICES ASSUME BuyTypes, [Next]_vars PROVE BuyTypes'
  OBVIOUS
<1>0. MaxRuns \in Nat /\ MaxKills \in Nat
  BY BuyAssumption
<1>1. CASE Start
  <2>1. ASSUME NEW a \in Assessments, Consult(a)
        PROVE  ranked' \in Seq(Plans) /\ pc' \in {"idle", "fund"} /\ outcome' \in Outcomes
    BY <2>1, RankingsPlan DEF Consult, End, Goto, Outcomes, BuyTypes, TypeOK
  <2>2. ranked' \in Seq(Plans) /\ pc' \in {"idle", "fund"} /\ outcome' \in Outcomes
    BY <1>1, <2>1 DEF Start, End, Outcomes, BuyTypes, TypeOK
  <2>3. bought' \in BOOLEAN
    BY <1>1 DEF Start
  <2> QED
    BY <1>0, <1>1, <2>2, <2>3 DEF Start, BuyTypes, TypeOK, Filed, Named, disk, readVars, gateway, Labels, Working,
       Runs
<1>2. CASE Authenticate \/ ResolveWallet \/ CheckBalance \/ AskFaucet \/ Recheck
  <2>1. \E label \in Labels \ Working, advice \in Outcomes : Step(label) \/ Unfunded(advice)
    BY <1>2, ClassifyAdvises DEF Authenticate, ResolveWallet, CheckBalance, AskFaucet,
       Recheck, Command, Labels, Working, Outcomes, Advice
  <2>2. pc # "idle"
    BY <1>2 DEF Authenticate, ResolveWallet, CheckBalance, AskFaucet, Recheck
  <2> QED
    BY <2>1, <2>2, TypesQuiet
<1>3. CASE SkipSection
  BY <1>3 DEF SkipSection, BuyTypes, TypeOK, Filed, Named, disk, readVars, gateway, Working
<1>4. CASE SelectSection
  <2>1. at \in DOMAIN ranked
    BY <1>4 DEF SelectSection, BuyTypes, TypeOK
  <2>2. Affordable(Remaining) \in Int
    BY AffordableType, BuyAssumption DEF Remaining, Budget, BuyTypes, TypeOK
  <2>3. ReadLimit(Plan, Affordable(Remaining)) \in Nat
    BY <2>1, <2>2, ReadLimitType
  <2>4. Price * ReadLimit(Plan, Affordable(Remaining)) \in Nat
    BY <2>3, BuyAssumption
  <2> QED
    BY <1>4, <2>1, <2>3, <2>4 DEF SelectSection, BuyTypes, TypeOK, Filed, Named, disk, planVars, gateway, Goto,
       Working, Labels, Outcomes, Stops
<1>5. CASE Finish \/ LoadTorn \/ WriteFails \/ Kill
  <2>1. NoWrite \in Writes
    BY DEF NoWrite, NoOp, NoReceipt, Writes, Ops, Receipts, Labels, Outcomes
  <2>2. /\ pc' = "idle" /\ outcome' \in Outcomes /\ writing' \in Writes /\ kills' \in 0 .. MaxKills
        /\ Filed'
        /\ UNCHANGED <<disk, cmd, run, planVars, readVars, gateway, counted>>
    BY <1>0, <1>5, <2>1 DEF Finish, LoadTorn, WriteFails, Kill, End, BuyTypes, TypeOK, Outcomes, Filed,
       Named, NoWrite, NoOp, disk
  <2> QED
    BY <2>2 DEF BuyTypes, TypeOK, disk, planVars, readVars, gateway, Working, Labels
<1>6. CASE Reuse
  <2> DEFINE receipt == receipts[<<ops[Section].by, Section>>]
  <2>1. Section \in Targets
    BY <1>6, TypesWrite DEF Reuse, Working
  <2>2. receipt \in Receipts
    BY <1>6, <2>1 DEF Reuse, Reusable, BuyTypes, TypeOK, Filed, Named, Sids
  <2>3. bought' \in BOOLEAN /\ visited' \subseteq Targets
    BY <1>6, <2>1 DEF Reuse, BuyTypes, TypeOK
  <2>4. pc' \in {"idle", "select"} /\ outcome' \in Outcomes /\ at' \in Nat /\ at' >= 1
    BY <1>6 DEF Reuse, GoOn, End, Goto, Outcomes, BuyTypes, TypeOK
  <2>5. spent' \in Nat /\ counted' \in [Runs -> Nat]
    <3>1. receipt.paid \in Nat
      BY <2>2 DEF Receipts
    <3>2. spent \in Nat /\ counted \in [Runs -> Nat]
      BY DEF BuyTypes, TypeOK
    <3>3. \/ UNCHANGED <<spent, counted>>
          \/ spent' = spent + receipt.paid /\ counted' = [counted EXCEPT ![run] = @ + receipt.paid]
      BY <1>6 DEF Reuse
    <3> HIDE DEF receipt
    <3> QED BY <3>1, <3>2, <3>3
  <2>6. UNCHANGED <<disk, cmd, run, kills, ranked, limit, cap, words, paid, stop, writing, gateway>>
    BY <1>6 DEF Reuse, readVars
  <2>7. /\ run' \in 0 .. MaxRuns /\ Filed' /\ (pc' # "idle" => run' \in Runs)
    BY <1>6, <2>4, <2>6 DEF Reuse, BuyTypes, TypeOK, Filed, Named, disk
  <2> QED
    BY <2>3, <2>4, <2>5, <2>6, <2>7 DEF BuyTypes, TypeOK, disk, gateway, Labels, Working
<1>7. CASE RecordStarted
  <2>1. pc \in Working
    BY <1>7 DEF RecordStarted, Working
  <2>2. /\ [Attempt("started") EXCEPT !.attempts = @ + 1] \in Ops
        /\ Named([Attempt("started") EXCEPT !.attempts = @ + 1])
    BY <2>1, TypesWrite DEF Ops, Attempt, Named
  <2>3. "open" \in Labels /\ "none" \in Outcomes
    BY DEF Labels, Outcomes
  <2>4. /\ ops' \in [Targets -> Ops] /\ receipts' \in [Sids -> Receipts]
        /\ writing' \in Writes /\ Filed' /\ pc' = "write" /\ outcome' = "none"
    BY <1>7, <2>1, <2>2, <2>3, TypesWrite DEF RecordStarted
  <2> QED
    BY <1>7, <2>1, <2>4 DEF RecordStarted, BuyTypes, TypeOK, planVars, readVars, gateway, Labels,
       Outcomes
<1>8. CASE WriteDone
  <2>1. pc' \in Labels /\ outcome' \in Outcomes /\ at \in DOMAIN ranked
    BY <1>8 DEF WriteDone, BuyTypes, TypeOK, Writes, Working
  <2>2. ops' \in [Targets -> Ops] /\ receipts' \in [Sids -> Receipts]
    BY <1>8 DEF WriteDone, BuyTypes, TypeOK, Writes
  <2>4. Filed'
    BY <1>8 DEF WriteDone, BuyTypes, TypeOK, Filed, Named, NoWrite, NoOp
  <2>3. NoWrite \in Writes
    BY DEF NoWrite, NoOp, NoReceipt, Writes, Ops, Receipts, Labels, Outcomes
  <2> QED
    BY <1>8, <2>1, <2>2, <2>3, <2>4 DEF WriteDone, BuyTypes, TypeOK, planVars, readVars, gateway
<1>9. CASE OpenSession
  <2>1. pc \in Working
    BY <1>9 DEF OpenSession, Working
  <2>2. session' \in [Sids -> Rows]
    <3>1. \A state \in {"open", "closed"} :
             [state |-> state, cap |-> cap, w |-> 0, paid |-> 0] \in Rows
      BY DEF Rows, BuyTypes, TypeOK
    <3> QED
      BY <1>9, <3>1 DEF OpenSession, BuyTypes, TypeOK
  <2>3. GoAmbiguous => /\ ops' \in [Targets -> Ops] /\ receipts' \in [Sids -> Receipts]
                       /\ writing' \in Writes /\ Filed' /\ pc' = "write" /\ outcome' = "none"
    BY <2>1, TypesWrite DEF GoAmbiguous, Labels, Outcomes, Attempt, Named
  <2>4. /\ ops' \in [Targets -> Ops] /\ receipts' \in [Sids -> Receipts]
        /\ writing' \in Writes /\ Filed' /\ pc' \in {"write", "loop"} /\ outcome' = "none"
    BY <1>9, <2>3 DEF OpenSession, Goto, disk, BuyTypes, TypeOK, Filed, Named
  <2> QED
    BY <1>9, <2>1, <2>2, <2>4 DEF OpenSession, BuyTypes, TypeOK, planVars, readVars, Labels,
       Outcomes
<1>10. CASE StopReading
  BY <1>10 DEF StopReading, StopReason, BuyTypes, TypeOK, Filed, Named, Goto, disk, planVars, gateway, Labels,
     Outcomes, Working, Stops
<1>11. CASE SignFails
  <2>1. pc \in Working
    BY <1>11 DEF SignFails, Working
  <2>2. /\ ops' \in [Targets -> Ops] /\ receipts' \in [Sids -> Receipts]
        /\ writing' \in Writes /\ Filed' /\ pc' = "write" /\ outcome' = "none"
    BY <1>11, <2>1, TypesWrite DEF SignFails, GoAmbiguous, Labels, Outcomes, Attempt, Named
  <2> QED
    BY <1>11, <2>1, <2>2 DEF SignFails, BuyTypes, TypeOK, planVars, readVars, gateway, Labels,
       Outcomes
<1>12. CASE Send
  <2>1. /\ pc \in Working
        /\ Section \in Targets
    BY <1>12, TypesWrite DEF Send, Working
  <2>2. NextChunk \in Int
    BY <2>1, BuyAssumption DEF NextChunk, MinOf, BundleWords, Granularity, Affordable, Total, BuyTypes,
       TypeOK
  <2>3. [NoRequest EXCEPT !.at = "sent", !.max = NextChunk] \in Messages
    BY <2>2 DEF NoRequest, Messages
  <2> QED
    BY <1>12, <2>1, <2>3 DEF Send, BuyTypes, TypeOK, Filed, Named, Goto, disk, planVars, readVars, Labels,
       Outcomes, Working
<1>13. CASE Receive
  <2>1. Sid \in Sids
    BY <1>13, TypesWrite DEF Receive, Working
  <2>2. wire[Sid].w \in Nat /\ wire[Sid].paid \in Nat
    BY <2>1 DEF BuyTypes, TypeOK, Messages
  <2>3. pc' \in {"returned", "loop"} /\ outcome' = "none"
    BY <1>13 DEF Receive, Goto
  <2>4. stop' \in Stops
    BY <1>13 DEF Receive, Stops, BuyTypes, TypeOK
  <2> QED
    BY <1>13, <2>2, <2>3, <2>4 DEF Receive, BuyTypes, TypeOK, Filed, Named, disk, planVars, gateway, Labels,
       Outcomes, Working
<1>14. CASE GiveUp
  BY <1>14 DEF GiveUp, BuyTypes, TypeOK, Filed, Named, Goto, disk, planVars, gateway, Labels, Outcomes, Working,
     Stops
<1>15. CASE AbortSession
  <2>1. ASSUME NEW c \in Rows PROVE [c EXCEPT !.state = "closed"] \in Rows
    BY DEF Rows
  <2>2. session \in [Sids -> Rows] /\ session[Sid] \in Rows
    BY <1>15, TypesWrite DEF AbortSession, Working, BuyTypes, TypeOK
  <2>3. session' \in [Sids -> Rows]
    BY <1>15, <2>1, <2>2 DEF AbortSession
  <2> QED
    BY <1>15, <2>3 DEF AbortSession, BuyTypes, TypeOK, Filed, Named, Goto, disk, planVars, readVars, Labels,
       Outcomes, Working
<1>16. CASE Returned
  <2>1. pc \in Working /\ Section \in Targets
    BY <1>16, TypesWrite DEF Returned, Working
  <2>2. Receipt \in Receipts
    BY DEF Receipt, Receipts, BuyTypes, TypeOK
  <2>3. GoAmbiguous => /\ ops' \in [Targets -> Ops] /\ receipts' \in [Sids -> Receipts]
                       /\ writing' \in Writes /\ Filed' /\ pc' = "write" /\ outcome' = "none"
    BY <2>1, TypesWrite DEF GoAmbiguous, Labels, Outcomes, Attempt, Named
  <2>4. WriteReceipt(Receipt) =>
           /\ ops' \in [Targets -> Ops] /\ receipts' \in [Sids -> Receipts]
           /\ writing' \in Writes /\ Filed' /\ pc' = "write" /\ outcome' = "none"
    BY <2>1, <2>2, TypesWrite
  <2>5. /\ ops' \in [Targets -> Ops] /\ receipts' \in [Sids -> Receipts]
        /\ writing' \in Writes /\ Filed' /\ pc' \in {"idle", "write"} /\ outcome' \in Outcomes
    BY <1>16, <2>3, <2>4 DEF Returned, End, Outcomes, disk, BuyTypes, TypeOK, Filed, Named
  <2>6. spent' \in Nat /\ visited' \subseteq Targets
    BY <1>16, <2>1 DEF Returned, BuyTypes, TypeOK
  <2> QED
    BY <1>16, <2>1, <2>5, <2>6 DEF Returned, BuyTypes, TypeOK, readVars, gateway, Labels, Working
<1>17. CASE Verify
  <2>1. pc \in Working
    BY <1>17 DEF Verify, Working
  <2>2. /\ [Attempt("completed") EXCEPT !.by = run, !.amount = paid] \in Ops
        /\ Named([Attempt("completed") EXCEPT !.by = run, !.amount = paid])
    <3>1. run \in Runs \cup {0} /\ paid \in Nat
      BY DEF BuyTypes, TypeOK, Runs
    <3> QED
      BY <2>1, <3>1, TypesWrite DEF Ops, Attempt, Named
  <2>3. /\ ops' \in [Targets -> Ops] /\ receipts' \in [Sids -> Receipts]
        /\ writing' \in Writes /\ Filed' /\ pc' = "write" /\ outcome' = "none"
    BY <1>17, <2>1, <2>2, TypesWrite DEF Verify, Labels, Outcomes
  <2>4. bought' \in BOOLEAN
    BY <1>17 DEF Verify
  <2> QED
    BY <1>17, <2>1, <2>3, <2>4 DEF Verify, BuyTypes, TypeOK, readVars, gateway, Labels, Outcomes
<1>18. CASE Bought
  <2>1. at' \in Nat /\ at' >= 1 /\ pc' \in {"idle", "select"} /\ outcome' \in Outcomes
    BY <1>18 DEF Bought, GoOn, End, Goto, Outcomes, BuyTypes, TypeOK
  <2> QED
    BY <1>18, <2>1 DEF Bought, BuyTypes, TypeOK, Filed, Named, disk, readVars, gateway, Labels, Working
<1>19. ASSUME NEW sid \in Sids, Admit(sid) PROVE BuyTypes'
  <2> DEFINE n == MinOf(MinOf(wire[sid].max, Affordable(session[sid].cap - session[sid].paid)),
                        WordCount[sid[2]] - session[sid].w)
  <2>1. session[sid] \in Rows /\ wire[sid] \in Messages /\ WordCount[sid[2]] \in Nat
    BY BuyAssumption DEF BuyTypes, TypeOK, Sids
  <2>2. n \in Nat
    <3>1. /\ Affordable(session[sid].cap - session[sid].paid) \in Int
          /\ wire[sid].max \in Int /\ WordCount[sid[2]] - session[sid].w \in Int
      BY <2>1, AffordableType DEF Rows, Messages
    <3>2. \A a, b \in Int : MinOf(a, b) \in Int
      BY DEF MinOf
    <3>3. n \in Int
      BY <3>1, <3>2
    <3> QED
      BY <1>19, <3>3 DEF Admit
  <2>3. wire' \in [Sids -> Messages]
    <3>1. [wire[sid] EXCEPT !.at = "verified", !.start = session[sid].w, !.n = n] \in Messages
      BY <2>1, <2>2 DEF Messages, Rows
    <3> HIDE DEF n
    <3>2. wire' = [wire EXCEPT ![sid] = [wire[sid] EXCEPT !.at = "verified",
                                           !.start = session[sid].w, !.n = n]]
      BY <1>19 DEF Admit, n
    <3> QED
      BY <3>1, <3>2 DEF BuyTypes, TypeOK
  <2> QED
    BY <1>19, <2>3 DEF Admit, BuyTypes, TypeOK, Filed, Named, disk, planVars, readVars
<1>20. ASSUME NEW sid \in Sids, Refuse(sid) PROVE BuyTypes'
  <2>1. wire[sid] \in Messages
    BY <1>20 DEF BuyTypes, TypeOK
  <2>2. wire' \in [Sids -> Messages]
    BY <1>20, <2>1 DEF Refuse, BuyTypes, TypeOK, Messages
  <2> QED
    BY <1>20, <2>2 DEF Refuse, BuyTypes, TypeOK, Filed, Named, disk, planVars, readVars
<1>21. ASSUME NEW sid \in Sids, Commit(sid) PROVE BuyTypes'
  <2>1. session[sid] \in Rows /\ wire[sid] \in Messages /\ WordCount[sid[2]] \in Nat
    BY BuyAssumption DEF BuyTypes, TypeOK, Sids
  <2> DEFINE price == Price * wire[sid].n
             w     == session[sid].w + wire[sid].n
             owed  == session[sid].paid + price
             ended == w >= WordCount[sid[2]]
  <2>2. price \in Nat
    BY <2>1, BuyAssumption DEF Messages
  <2>3. w \in Nat /\ owed \in Nat
    BY <2>1, <2>2 DEF Rows, Messages
  <2>5. /\ session' = [session EXCEPT ![sid].w = w, ![sid].paid = owed,
                                      ![sid].state = IF ended THEN "closed" ELSE @]
        /\ wire' = [wire EXCEPT ![sid].at = "answered", ![sid].w = w, ![sid].paid = owed,
                                ![sid].done = ended]
        /\ counted' = [counted EXCEPT ![sid[1]] = @ + price]
    BY <1>21 DEF Commit
  <2>6. session' \in [Sids -> Rows] /\ wire' \in [Sids -> Messages]
    <3> HIDE DEF w, owed
    <3>1. ended \in BOOLEAN
      OBVIOUS
    <3> QED
      BY <2>1, <2>3, <2>5, <3>1 DEF BuyTypes, TypeOK, Rows, Messages
  <2>7. counted' \in [Runs -> Nat]
    <3> HIDE DEF price
    <3> QED
      BY <2>2, <2>5 DEF BuyTypes, TypeOK, Sids
  <2> QED
    BY <1>21, <2>6, <2>7 DEF Commit, BuyTypes, TypeOK, Filed, Named, disk, planVars, readVars
<1>22. CASE UNCHANGED vars
  BY <1>22 DEF vars, BuyTypes, TypeOK, Filed, Named, Working
<1> QED
  BY <1>1, <1>2, <1>3, <1>4, <1>5, <1>6, <1>7, <1>8, <1>9, <1>10, <1>11, <1>12, <1>13, <1>14,
     <1>15, <1>16, <1>17, <1>18, <1>19, <1>20, <1>21, <1>22 DEF Next, Buyer

-----------------------------------------------------------------------------
(* Steps that leave the gateway and the files alone.                       *)

\* The first state satisfies the inductive invariant: nothing is filed or charged.
LEMMA BuyInit == Init => BuyInv
<1> SUFFICES ASSUME Init PROVE BuyInv
  OBVIOUS
<1>1. BuyTypes
  BY TypesInit
<1>2. /\ \A k \in Runs, s \in Targets :
            session[<<k, s>>] = NoSession /\ wire[<<k, s>>] = NoRequest
      /\ \A k \in Runs : counted[k] = 0
      /\ \A s \in Targets : ops[s] = NoOp
  BY DEF Init, Sids
<1>3. /\ NoSession.state = "none" /\ NoSession.paid = 0 /\ NoSession.cap = 0
      /\ NoRequest.at = "none" /\ NoOp.status = "none"
  BY DEF NoSession, NoRequest, NoOp
<1>4. Budget \in Nat
  BY <1>1, BuyAssumption DEF Budget, BuyTypes, TypeOK
<1>5. LedgerInv
  BY <1>2, <1>3, <1>4 DEF LedgerInv, RunInv, SessionInv, Busy, Exists
<1>6. DiskInv
  BY <1>2, <1>3 DEF DiskInv, FileInv, RecordInv, Traced, Exists
<1>7. PlanInv /\ MoneyInv /\ WriteInv
  BY DEF Init, PlanInv, MoneyInv, WriteInv, Stage, Unopened, Reading
<1> QED
  BY <1>1, <1>5, <1>6, <1>7 DEF BuyInv

\* What the gateway and the files say does not depend on where the run is.
LEMMA LedgerSame ==
    ASSUME LedgerInv, UNCHANGED <<session, wire, counted, cmd, run>>
    PROVE  LedgerInv'
  BY DEF LedgerInv, RunInv, SessionInv, Busy, Exists, Budget

\* A step that writes no file and changes no session keeps what relates them.
LEMMA DiskSame ==
    ASSUME DiskInv, UNCHANGED <<session, wire, disk>>
    PROVE  DiskInv'
  BY DEF DiskInv, FileInv, RecordInv, Traced, Saved, Busy, Exists, disk

\* A run that ends leaves nothing to be kept but the ledger and the files.
LEMMA IdleKeeps ==
    ASSUME BuyInv, BuyTypes', pc' = "idle",
           UNCHANGED <<session, wire, counted, cmd, run, disk, ranked>>
    PROVE  BuyInv'
<1>1. LedgerInv' /\ DiskInv'
  BY LedgerSame, DiskSame DEF BuyInv
<1>2. PlanInv'
  BY DEF BuyInv, PlanInv
<1>3. MoneyInv' /\ WriteInv'
  BY DEF MoneyInv, WriteInv, Stage, Unopened, Reading
<1> QED
  BY <1>1, <1>2, <1>3 DEF BuyInv

\* Before a section is selected the run only finds out whether it can pay.
LEMMA EarlyKeeps ==
    ASSUME BuyInv, BuyTypes', pc \in Unopened \ {"load", "open"}, pc' \in Unopened \ {"load", "open"},
           UNCHANGED <<session, wire, counted, cmd, run, disk, ranked, spent>>,
           at' \in {at, at + 1}
    PROVE  BuyInv'
<1>1. LedgerInv' /\ DiskInv'
  BY LedgerSame, DiskSame DEF BuyInv
<1>2. at \in Nat
  BY DEF BuyInv, BuyTypes, TypeOK
<1>3. PlanInv'
  <2>1. Stage = pc /\ Stage' = pc' /\ pc # "idle"
    BY DEF Stage, Unopened
  <2>2. Stage \in Unopened /\ Stage' \in Unopened
    BY <2>1
  <2>3. \A i \in DOMAIN ranked : i > at \/ i = at => ~Exists(run, ranked[i].section)
    BY <2>1, <2>2 DEF BuyInv, PlanInv
  <2>4. \A i \in DOMAIN ranked : i > at' \/ i = at' => i > at \/ i = at
    BY <1>2 DEF BuyInv, BuyTypes, TypeOK
  <2> QED
    BY <2>1, <2>3, <2>4 DEF BuyInv, PlanInv, Exists, Budget
<1>4. MoneyInv'
  BY DEF BuyInv, MoneyInv, Stage, Unopened, Reading, Busy, Section, Plan
<1>5. WriteInv'
  BY DEF WriteInv, Unopened
<1> QED
  BY <1>1, <1>3, <1>4, <1>5 DEF BuyInv

-----------------------------------------------------------------------------
(* The steps of a run.                                                     *)

\* The section in work is one of the plan.
LEMMA PlanTypes ==
    ASSUME BuyTypes, at \in DOMAIN ranked
    PROVE  /\ at \in Nat /\ \A i \in DOMAIN ranked : i \in Nat /\ ranked[i].section \in Targets
           /\ Plan \in Plans /\ Section = ranked[at].section /\ Section \in Targets
           /\ Section = Plan.section /\ Plan.min \in Nat /\ WordCount[Section] \in Nat
<1>1. ranked \in Seq(Plans)
  BY DEF BuyTypes, TypeOK
<1>2. Plan \in Plans
  BY <1>1 DEF Plan
<1>3. \A i \in DOMAIN ranked : ranked[i] \in Plans
  BY <1>1
<1> QED
  BY <1>1, <1>2, <1>3, BuyAssumption DEF Section, Plan, Plans, BuyTypes, TypeOK

\* While a section is in work, its operation and its session are there to be read.
LEMMA AtWork ==
    ASSUME BuyTypes, pc \in Working
    PROVE  /\ at \in Nat /\ at \in DOMAIN ranked
           /\ \A i \in DOMAIN ranked : i \in Nat /\ ranked[i].section \in Targets
           /\ Section = ranked[at].section /\ Section \in Targets
           /\ run \in Runs /\ Sid = <<run, Section>> /\ Sid \in Sids
           /\ ops[Section] \in Ops
           /\ session[Sid] \in Rows /\ wire[Sid] \in Messages
           /\ Budget \in Nat /\ spent \in Nat /\ counted[run] \in Nat
  BY TypesWrite, PlanTypes, BuyAssumption DEF BuyTypes, TypeOK, Sid, Budget

\* A new run has opened no session yet.
LEMMA StartKeeps ==
    ASSUME BuyInv, BuyTypes', Start
    PROVE  BuyInv'
<1>1. /\ run \in 0 .. MaxRuns /\ run < MaxRuns /\ run' = run + 1 /\ MaxRuns \in Nat
      /\ UNCHANGED <<session, wire, counted, cmd, disk>>
      /\ at' = 1 /\ spent' = 0 /\ pc' \in {"idle", "fund"}
      /\ BuyTypes
  BY BuyAssumption DEF BuyInv, BuyTypes, TypeOK, Start, Consult, End, Goto, gateway
<1>2. run + 1 \in Runs /\ Budget' = Budget /\ Budget \in Nat
  BY <1>1, BuyAssumption DEF Runs, Budget, BuyTypes, TypeOK
<1>3. LedgerInv'
  BY <1>1, <1>2 DEF BuyInv, LedgerInv, RunInv, SessionInv, Busy, Exists, Runs
<1>4. DiskInv'
  BY <1>1, DiskSame DEF BuyInv
<1>5. \A s \in Targets : /\ session'[<<run', s>>].state = "none"
                         /\ wire'[<<run', s>>].at = "none"
  BY <1>1, <1>2 DEF BuyInv, LedgerInv, SessionInv, Busy, Exists, Runs
<1>6. counted'[run'] = 0
  BY <1>1, <1>2 DEF BuyInv, LedgerInv, RunInv, Runs
<1>7. \A i, j \in DOMAIN ranked' : ranked'[i].section = ranked'[j].section => i = j
  <2>1. ASSUME NEW a \in Assessments, Consult(a)
        PROVE  \A i, j \in DOMAIN ranked' : ranked'[i].section = ranked'[j].section => i = j
    BY <2>1, RankingsPlan DEF Consult, BuyInv, PlanInv
  <2> QED
    BY <2>1 DEF Start, BuyInv, PlanInv
<1>8. PlanInv'
  <2>1. ranked' \in Seq(Plans)
    BY DEF BuyTypes, TypeOK
  <2>2. \A i \in DOMAIN ranked' : ranked'[i] \in Plans
    BY <2>1
  <2>3. \A i \in DOMAIN ranked' : ranked'[i].section \in Targets
    BY <2>2 DEF Plans
  <2> QED
    BY <1>1, <1>2, <1>5, <1>7, <2>3 DEF PlanInv, Budget, Exists
<1>9. MoneyInv' /\ WriteInv'
  BY <1>1, <1>5, <1>6 DEF MoneyInv, WriteInv, Stage, Unopened, Reading, Busy
<1> QED
  BY <1>3, <1>4, <1>8, <1>9 DEF BuyInv

\* What a number of atomic units buys costs no more than that.
LEMMA AffordableFits ==
    ASSUME NEW amount \in Nat, NEW n \in Int, n <= Affordable(amount)
    PROVE  Price * n <= amount
<1>1. Price \in Nat \ {0}
  BY BuyAssumption
<1> DEFINE q == amount \div Price
<1>2. q \in Int /\ Price * q <= amount
  BY <1>1
<1>3. n <= q
  BY DEF Affordable
<1> HIDE DEF q
<1>4. Price * n <= Price * q
  BY <1>1, <1>2, <1>3
<1> QED
  BY <1>1, <1>2, <1>4

\* A read is planned for no more than what is left.
LEMMA SelectKeeps ==
    ASSUME BuyInv, BuyTypes', SelectSection
    PROVE  BuyInv'
<1> DEFINE n == ReadLimit(Plan, Affordable(Remaining))
<1>1. /\ BuyTypes /\ pc = "select" /\ pc' = "load"
      /\ at \in DOMAIN ranked
      /\ UNCHANGED <<session, wire, counted, cmd, run, disk, ranked, at, spent>>
      /\ cap' = Price * n /\ words' = 0 /\ paid' = 0
      /\ Plan.min <= Affordable(Remaining)
  BY DEF BuyInv, BuyTypes, TypeOK, SelectSection, Goto, gateway, planVars
<1>2. /\ spent \in Nat /\ Budget \in Nat /\ spent <= Budget /\ Remaining \in Nat
      /\ Plan.min \in Nat
  BY SMTT(30), <1>1, PlanTypes, BuyAssumption DEF BuyInv, BuyTypes, TypeOK, PlanInv, Remaining, Budget
<1>3. spent + cap' <= Budget
  <2>1. Affordable(Remaining) \in Int
    BY <1>2, AffordableType
  <2>2. Reserve(Affordable(Remaining)) \in Nat
    BY <1>1, <2>1, ReserveType
  <2>3. n \in Nat /\ n <= Affordable(Remaining)
    <3>1. n \in Nat
      BY <1>1, <2>1, ReadLimitType
    <3>2. n <= MaxOf(Plan.min, Affordable(Remaining) - Reserve(Affordable(Remaining)))
      <4>1. WordCount[Section] \in Nat
        BY <1>1, PlanTypes
      <4> QED
        BY <1>2, <2>1, <2>2, <4>1 DEF ReadLimit, MinOf, MaxOf, Section
    <3> QED
      BY <1>1, <1>2, <2>1, <2>2, <3>1, <3>2 DEF MaxOf
  <2>4. Price * n <= Remaining
    BY <1>2, <2>3, AffordableFits
  <2>5. Price * n \in Int
    BY <2>3, BuyAssumption
  <2> HIDE DEF n
  <2> QED
    BY <1>1, <1>2, <2>4, <2>5 DEF Remaining
<1>4. LedgerInv' /\ DiskInv'
  BY <1>1, LedgerSame, DiskSame DEF BuyInv
<1>5. PlanInv'
  BY <1>1 DEF BuyInv, PlanInv, Stage, Unopened, Exists, Budget
<1>6. MoneyInv'
  BY <1>1, <1>3 DEF BuyInv, MoneyInv, Stage, Unopened, Reading, Busy, Section, Plan, Budget
<1>7. WriteInv'
  BY <1>1 DEF WriteInv
<1> QED
  BY <1>4, <1>5, <1>6, <1>7 DEF BuyInv

\* A receipt that is reused is counted once, while nothing of this run is being served.
LEMMA ReuseKeeps ==
    ASSUME BuyInv, BuyTypes', Reuse
    PROVE  BuyInv'
<1> DEFINE receipt == receipts[<<ops[Section].by, Section>>]
<1>1. CASE pc' = "idle" /\ counted' = counted
  BY <1>1, IdleKeeps DEF Reuse, gateway
<1>2. CASE spent + receipt.paid <= Budget
  <2>1. /\ BuyTypes /\ pc = "load" /\ pc \in Working
        /\ UNCHANGED <<session, wire, cmd, run, disk, ranked>>
    BY DEF BuyInv, Reuse, gateway, Working
  <2>2. receipt.paid \in Nat
    <3>1. ops[Section].by \in Runs /\ Section \in Targets
      BY <2>1, AtWork DEF BuyInv, DiskInv, FileInv, Reuse, Reusable
    <3>2. receipt \in Receipts
      BY <2>1, <3>1 DEF BuyTypes, TypeOK, Sids
    <3> QED
      BY <3>2 DEF Receipts
  <2>10. /\ spent' = spent + receipt.paid
        /\ counted' = [counted EXCEPT ![run] = @ + receipt.paid]
        /\ at' = at + 1 /\ pc' \in {"idle", "select"}
    BY <1>2, <2>1, <2>2, AtWork DEF Reuse, GoOn, End, Goto
  <2> HIDE DEF receipt
  <2>3. \A s \in Targets : ~Busy(run, s)
    BY <2>1 DEF BuyInv, MoneyInv, Stage
  <2>4. counted[run] <= spent /\ counted'[run] = counted[run] + receipt.paid
    BY <2>1, <2>10, AtWork DEF BuyInv, MoneyInv, Stage, Unopened, BuyTypes, TypeOK
  <2>5. LedgerInv'
    <3>1. \A k \in Runs \ {run} : counted'[k] = counted[k]
      BY <2>10 DEF BuyTypes, TypeOK
    <3>2. counted'[run] <= Budget
      BY <1>2, <2>1, <2>2, <2>4, <2>10, AtWork
    <3> QED
      BY <2>1, <2>3, <3>1, <3>2, AtWork
         DEF BuyInv, LedgerInv, RunInv, SessionInv, Busy, Exists, Budget, Runs
  <2>6. DiskInv'
    BY <2>1, DiskSame DEF BuyInv
  <2>7. PlanInv'
    BY <1>2, <2>1, <2>10, AtWork DEF BuyInv, PlanInv, Stage, Unopened, Exists, Budget
  <2>8. MoneyInv'
    BY <2>1, <2>2, <2>3, <2>4, <2>10, AtWork DEF MoneyInv, Stage, Unopened, Reading, Busy
  <2>9. WriteInv'
    BY <2>10 DEF WriteInv
  <2> QED
    BY <2>5, <2>6, <2>7, <2>8, <2>9 DEF BuyInv
<1> QED
  BY <1>1, <1>2 DEF Reuse, End

\* The content of a file that is being written, and of the file meanwhile.
LEMMA WriteOpFiles ==
    ASSUME BuyTypes, pc \in Working, NEW op, NEW next, NEW how, WriteOp(op, next, how)
    PROVE  /\ \A s \in Targets \ {Section} : ops'[s] = ops[s]
           /\ ops'[Section].status = "torn"
           /\ writing'.what = "op" /\ writing'.op = op /\ writing'.next = next
           /\ pc' = "write" /\ UNCHANGED receipts
  BY AtWork DEF BuyTypes, TypeOK, WriteOp, Goto, NoOp, NoWrite

\* A torn operation file says nothing wrong.
LEMMA TornKeepsDisk ==
    ASSUME BuyInv, pc \in Working, UNCHANGED <<session, wire, receipts>>,
           \A s \in Targets \ {Section} : ops'[s] = ops[s],
           ops'[Section].status = "torn"
    PROVE  DiskInv'
<1> SUFFICES ASSUME NEW s \in Targets PROVE (FileInv(s) /\ RecordInv(s))'
  BY DEF DiskInv
<1>1. FileInv(s) /\ RecordInv(s)
  BY DEF BuyInv, DiskInv
<1>2. CASE s = Section
  BY <1>2 DEF FileInv, RecordInv
<1>3. CASE s # Section
  BY <1>1, <1>3 DEF FileInv, RecordInv, Traced, Saved, Busy, Exists
<1> QED
  BY <1>2, <1>3

\* The file says "started" before a session is opened.
LEMMA RecordStartedKeeps ==
    ASSUME BuyInv, BuyTypes', RecordStarted
    PROVE  BuyInv'
<1> DEFINE op == [Attempt("started") EXCEPT !.attempts = @ + 1]
<1>1. /\ BuyTypes /\ pc = "load" /\ pc \in Working
      /\ ops[Section].status # "torn" /\ WriteOp(op, "open", "none")
      /\ UNCHANGED <<session, wire, counted, cmd, run, ranked, at, spent, cap, words, paid, stop>>
  BY DEF BuyInv, RecordStarted, Working, gateway, planVars, readVars
<1>2. op.status = "started" /\ op.attempts = ops[Section].attempts + 1
  BY DEF Attempt
<1> HIDE DEF op
<1>3. /\ \A s \in Targets \ {Section} : ops'[s] = ops[s]
      /\ ops'[Section].status = "torn"
      /\ writing'.what = "op" /\ writing'.op = op /\ writing'.next = "open"
      /\ pc' = "write" /\ UNCHANGED receipts
  BY <1>1, WriteOpFiles
<1>4. Section' = Section /\ Section \in Targets /\ ops[Section].attempts \in Nat
  BY <1>1, AtWork DEF Section, Plan, Ops
<1>5. Begun(op, Section) /\ Traced(op, Section)
  BY <1>1, <1>2, <1>4 DEF BuyInv, DiskInv, RecordInv, Traced, Begun
<1>6. LedgerInv' /\ DiskInv'
  BY <1>1, <1>3, LedgerSame, TornKeepsDisk DEF BuyInv
<1>7. PlanInv'
  BY <1>1, <1>3 DEF BuyInv, PlanInv, Stage, Unopened, Exists, Budget
<1>8. MoneyInv'
  BY <1>1, <1>3, <1>4 DEF BuyInv, MoneyInv, Stage, Unopened, Reading, Busy, Budget
<1>9. WriteInv'
  BY <1>1, <1>3, <1>4, <1>5 DEF WriteInv, Begun, Traced, Exists
<1> QED
  BY <1>6, <1>7, <1>8, <1>9 DEF BuyInv

\* A read that fails leaves a trace, whatever its session has been charged.
LEMMA AmbiguousKeeps ==
    ASSUME BuyInv, BuyTypes', pc \in {"loop", "returned"}, GoAmbiguous,
           pc = "returned" => stop = "aborted",
           UNCHANGED <<session, wire, counted, cmd, run, ranked, at, spent>>
    PROVE  BuyInv'
<1> DEFINE op == Attempt("ambiguous")
<1>1. BuyTypes /\ pc \in Working /\ WriteOp(op, "idle", "ambiguous")
  BY DEF BuyInv, Working, GoAmbiguous
<1>2. op.status = "ambiguous" /\ op.attempts = ops[Section].attempts
  BY DEF Attempt
<1> HIDE DEF op
<1>3. /\ \A s \in Targets \ {Section} : ops'[s] = ops[s]
      /\ ops'[Section].status = "torn"
      /\ writing'.what = "op" /\ writing'.op = op /\ writing'.next = "idle"
      /\ pc' = "write" /\ UNCHANGED receipts
  BY <1>1, WriteOpFiles
<1>4. Section' = Section /\ Section \in Targets
  BY <1>1, AtWork DEF Section, Plan
<1>5. Traced(op, Section)
  <2>1. ops[Section].status = "started"
    BY DEF BuyInv, WriteInv
  <2> QED
    BY <1>2, <1>4, <2>1 DEF BuyInv, DiskInv, RecordInv, Traced
<1>6. LedgerInv' /\ DiskInv'
  BY <1>1, <1>3, LedgerSame, TornKeepsDisk DEF BuyInv
<1>7. PlanInv'
  BY <1>1, <1>3 DEF BuyInv, PlanInv, Stage, Unopened, Exists, Budget
<1>8. MoneyInv'
  BY <1>1, <1>3, <1>4 DEF BuyInv, MoneyInv, Stage, Unopened, Reading, Busy
<1>9. WriteInv'
  BY <1>1, <1>2, <1>3, <1>4, <1>5 DEF WriteInv, Traced, Exists
<1> QED
  BY <1>6, <1>7, <1>8, <1>9 DEF BuyInv

\* A write that is done leaves what it was meant to leave.
LEMMA WriteDoneKeeps ==
    ASSUME BuyInv, BuyTypes', WriteDone
    PROVE  BuyInv'
<1>1. /\ BuyTypes /\ pc = "write" /\ pc \in Working /\ pc' = writing.next
      /\ UNCHANGED <<session, wire, counted, cmd, run, ranked, at, spent, cap, words, paid, stop>>
  BY DEF BuyInv, WriteDone, Working, gateway, planVars, readVars
<1>2. /\ Section' = Section /\ Section \in Targets /\ run \in Runs /\ Sid = <<run, Section>>
      /\ Sid' = Sid /\ Sid \in Sids
  BY <1>1, AtWork DEF Section, Plan, Sid
<1>3. LedgerInv'
  BY <1>1, LedgerSame DEF BuyInv
<1>4. Stage = writing.next
  BY <1>1 DEF Stage
<1>5. CASE writing.what = "receipt"
  <2>1. /\ writing.next = "verify" /\ writing.receipt = Saved(session[Sid])
        /\ ops[Section].status = "started"
    BY <1>1, <1>5 DEF BuyInv, WriteInv
  <2>2. /\ UNCHANGED ops
        /\ receipts'[Sid] = Saved(session[Sid])
        /\ \A k \in Runs, s \in Targets :
              <<k, s>> # Sid => receipts'[<<k, s>>] = receipts[<<k, s>>]
    BY <1>2, <1>5, <2>1 DEF WriteDone, BuyInv, BuyTypes, TypeOK, Sids
  <2>3. DiskInv'
    <3> SUFFICES ASSUME NEW s \in Targets PROVE (FileInv(s) /\ RecordInv(s))'
      BY DEF DiskInv
    <3>1. FileInv(s) /\ RecordInv(s)
      BY DEF BuyInv, DiskInv
    <3>2. ops[s].status = "completed" => s # Section
      BY <2>1
    <3>3. \A k \in Runs : s # Section => <<k, s>> # Sid
      BY <1>2
    <3> QED
      BY <1>1, <2>2, <3>1, <3>2, <3>3 DEF FileInv, RecordInv, Traced, Saved, Busy, Exists
  <2>4. PlanInv'
    BY <1>1, <2>1 DEF BuyInv, PlanInv, Stage, Unopened, Exists, Budget
  <2>5. MoneyInv'
    BY <1>1, <1>2, <1>4, <2>1 DEF BuyInv, MoneyInv, Stage, Unopened, Reading, Busy, Exists
  <2>6. WriteInv'
    BY <1>1, <1>2, <2>1, <2>2 DEF WriteInv, Saved
  <2> QED
    BY <1>3, <2>3, <2>4, <2>5, <2>6 DEF BuyInv
<1>6. CASE writing.what = "op"
  <2>1. /\ Traced(writing.op, Section)
        /\ \/ writing.next = "open" /\ Begun(writing.op, Section)
           \/ writing.next = "idle" /\ writing.op.status = "ambiguous"
           \/ /\ writing.next = "bought"
              /\ writing.op.status = "completed" /\ writing.op.by = run
              /\ writing.op.amount = session[Sid].paid
              /\ Exists(run, Section)
              /\ receipts[Sid] = Saved(session[Sid])
    BY <1>1, <1>6 DEF BuyInv, WriteInv
  <2>2. /\ UNCHANGED receipts
        /\ ops'[Section] = writing.op
        /\ \A s \in Targets \ {Section} : ops'[s] = ops[s]
    BY <1>2, <1>6 DEF WriteDone, BuyInv, BuyTypes, TypeOK
  <2>3. DiskInv'
    <3> SUFFICES ASSUME NEW s \in Targets PROVE (FileInv(s) /\ RecordInv(s))'
      BY DEF DiskInv
    <3>1. FileInv(s) /\ RecordInv(s)
      BY DEF BuyInv, DiskInv
    <3>2. CASE s # Section
      BY <1>1, <2>2, <3>1, <3>2 DEF FileInv, RecordInv, Traced, Saved, Busy, Exists
    <3>3. CASE s = Section
      <4>1. RecordInv(s)'
        BY <1>1, <2>1, <2>2, <3>3 DEF RecordInv, Traced, Exists
      <4>2. writing.next = "bought" => ~Busy(run, Section)
        BY <1>1, <1>2, <1>4 DEF BuyInv, MoneyInv
      <4>3. FileInv(s)'
        BY <1>1, <1>2, <2>1, <2>2, <3>3, <4>2 DEF FileInv, Saved, Busy, Exists, Begun
      <4> QED
        BY <4>1, <4>3
    <3> QED
      BY <3>2, <3>3
  <2>4. PlanInv'
    BY <1>1, <2>1 DEF BuyInv, PlanInv, Stage, Unopened, Exists, Budget
  <2>5. MoneyInv'
    BY <1>1, <1>2, <1>4, <2>1 DEF BuyInv, MoneyInv, Stage, Unopened, Reading, Busy, Exists, Budget
  <2>6. WriteInv'
    BY <1>1, <1>2, <2>1, <2>2 DEF WriteInv, Begun, Exists
  <2> QED
    BY <1>3, <2>3, <2>4, <2>5, <2>6 DEF BuyInv
<1> QED
  BY <1>5, <1>6 DEF WriteDone

-----------------------------------------------------------------------------
(* The steps of the read loop.                                             *)

\* A session is opened only after the attempt is on record, and it is empty.
LEMMA OpenSessionKeeps ==
    ASSUME BuyInv, BuyTypes', OpenSession
    PROVE  BuyInv'
<1>1. /\ BuyTypes /\ pc = "open" /\ pc \in Working /\ Stage = "open"
      /\ UNCHANGED <<wire, counted, cmd, run, ranked, at, spent, cap, words, paid, stop>>
  BY DEF BuyInv, OpenSession, Working, Stage, planVars, readVars
<1>2. /\ Section' = Section /\ Section \in Targets /\ run \in Runs /\ Sid = <<run, Section>>
      /\ Sid' = Sid /\ Sid \in Sids /\ at \in DOMAIN ranked
  BY <1>1, AtWork DEF Section, Plan, Sid
<1>3. ~Exists(run, Section)
  BY <1>1, <1>2, AtWork DEF BuyInv, PlanInv, Unopened
<1>4. ops[Section].status = "started" /\ Begun(ops[Section], Section) /\ ~Busy(run, Section)
  BY <1>1, <1>2 DEF BuyInv, WriteInv, MoneyInv
<1>5. \/ session' = session
      \/ \E state \in {"open", "closed"} :
           session' = [session EXCEPT ![Sid] = [state |-> state, cap |-> cap, w |-> 0, paid |-> 0]]
  BY DEF OpenSession
<1>6. \A k \in Runs, s \in Targets : <<k, s>> # Sid => session'[<<k, s>>] = session[<<k, s>>]
  BY <1>2, <1>5 DEF BuyTypes, TypeOK, Sids
<1>7. \/ session'[Sid] = session[Sid]
      \/ /\ session'[Sid].state \in {"open", "closed"} /\ session'[Sid].cap = cap
         /\ session'[Sid].w = 0 /\ session'[Sid].paid = 0
  BY <1>1, <1>2, <1>5 DEF BuyTypes, TypeOK
<1>8. \A op : op.status # "none" /\ op.attempts = ops[Section].attempts => Traced(op, Section)'
  BY <1>2, <1>4, <1>6 DEF Traced, Begun, Exists
<1>9. LedgerInv'
  <2>1. \A k \in Runs, s \in Targets : <<k, s>> # Sid => SessionInv(k, s)'
    BY <1>1, <1>6 DEF BuyInv, LedgerInv, SessionInv, Busy, Exists, Budget
  <2>2. SessionInv(run, Section)'
    <3>1. SessionInv(run, Section)
      BY <1>2 DEF BuyInv, LedgerInv
    <3>2. wire[Sid].at = "none" /\ cap \in Nat
      BY <1>2, <1>3, <3>1 DEF SessionInv, BuyTypes, TypeOK, BuyInv
    <3>3. ~(run > run)
      BY <1>2 DEF Runs
    <3> QED
      BY <1>1, <1>2, <1>7, <3>1, <3>2, <3>3 DEF SessionInv, Busy, Exists, Budget
  <2>3. \A k \in Runs : RunInv(k)'
    BY <1>1 DEF BuyInv, LedgerInv, RunInv, Busy, Budget
  <2>4. ASSUME NEW k \in Runs, NEW s \in Targets PROVE SessionInv(k, s)'
    <3>1. CASE k = run /\ s = Section
      BY <1>1, <1>2, <2>2, <3>1 DEF SessionInv, Busy, Exists, Budget
    <3>2. CASE <<k, s>> # Sid
      BY <2>1, <3>2
    <3> QED
      BY <1>2, <3>1, <3>2
  <2> QED
    BY <2>3, <2>4 DEF LedgerInv
<1>10. PlanInv'
  <2>1. pc' \in {"loop", "write"} /\ Stage' \notin Unopened
    BY <1>1, WriteOpFiles DEF OpenSession, GoAmbiguous, Goto, Stage, Unopened
  <2>2. ASSUME NEW i \in DOMAIN ranked, i > at PROVE ~Exists(run, ranked[i].section)'
    <3>1. ~Exists(run, ranked[i].section) /\ ranked[i].section # Section /\ ranked[i].section \in Targets
      BY <1>1, <1>2, <2>2, AtWork DEF BuyInv, PlanInv
    <3> QED
      BY <1>1, <1>2, <1>6, <3>1 DEF Exists
  <2> QED
    BY <1>1, <2>1, <2>2 DEF BuyInv, PlanInv, Budget
<1>11. CASE GoAmbiguous
  <2> DEFINE op == Attempt("ambiguous")
  <2>1. op.status = "ambiguous" /\ op.attempts = ops[Section].attempts
    BY DEF Attempt
  <2>2. WriteOp(op, "idle", "ambiguous")
    BY <1>11 DEF GoAmbiguous
  <2> HIDE DEF op
  <2>3. /\ \A s \in Targets \ {Section} : ops'[s] = ops[s]
        /\ ops'[Section].status = "torn"
        /\ writing'.what = "op" /\ writing'.op = op /\ writing'.next = "idle"
        /\ pc' = "write" /\ UNCHANGED receipts
    BY <1>1, <2>2, WriteOpFiles
  <2>4. DiskInv'
    <3> SUFFICES ASSUME NEW s \in Targets PROVE (FileInv(s) /\ RecordInv(s))'
      BY DEF DiskInv
    <3>1. FileInv(s) /\ RecordInv(s)
      BY DEF BuyInv, DiskInv
    <3>2. CASE s # Section
      BY <1>1, <1>2, <1>6, <2>3, <3>1, <3>2 DEF FileInv, RecordInv, Traced, Saved, Busy, Exists
    <3>3. CASE s = Section
      BY <2>3, <3>3 DEF FileInv, RecordInv
    <3> QED
      BY <3>2, <3>3
  <2>5. MoneyInv'
    BY <1>1, <1>2, <1>4, <2>3 DEF BuyInv, MoneyInv, Stage, Unopened, Reading, Busy
  <2>6. WriteInv'
    BY <1>2, <1>8, <2>1, <2>3 DEF WriteInv
  <2> QED
    BY <1>9, <1>10, <2>4, <2>5, <2>6 DEF BuyInv
<1>12. CASE ~GoAmbiguous
  <2>1. /\ pc' = "loop" /\ UNCHANGED <<disk, ops, receipts>>
        /\ session'[Sid].state \in {"open", "closed"} /\ session'[Sid].cap = cap
        /\ session'[Sid].w = 0 /\ session'[Sid].paid = 0
    <3>1. /\ pc' = "loop" /\ UNCHANGED <<disk, ops, receipts>>
          /\ \E state \in {"open", "closed"} :
               session' = [session EXCEPT ![Sid] = [state |-> state, cap |-> cap, w |-> 0, paid |-> 0]]
      BY <1>12 DEF OpenSession, Goto, disk
    <3> QED
      BY <1>2, <1>5, <3>1 DEF BuyTypes, TypeOK
  <2>2. DiskInv'
    <3> SUFFICES ASSUME NEW s \in Targets PROVE (FileInv(s) /\ RecordInv(s))'
      BY DEF DiskInv
    <3>1. FileInv(s) /\ RecordInv(s)
      BY DEF BuyInv, DiskInv
    <3>2. CASE s # Section
      BY <1>1, <1>2, <1>6, <2>1, <3>1, <3>2 DEF FileInv, RecordInv, Traced, Saved, Busy, Exists
    <3>3. CASE s = Section
      BY <1>2, <1>4, <1>8, <2>1, <3>3 DEF FileInv, RecordInv, Traced, Exists
    <3> QED
      BY <3>2, <3>3
  <2>3. MoneyInv'
    <3>1. counted[run] <= spent /\ spent + cap <= Budget /\ words = 0 /\ paid = 0
      BY <1>1 DEF BuyInv, MoneyInv, Unopened
    <3> QED
      BY <1>1, <1>2, <1>4, <2>1, <3>1, AtWork
         DEF BuyInv, MoneyInv, Stage, Unopened, Reading, Busy, Exists, Budget
  <2>4. WriteInv'
    BY <1>2, <1>4, <2>1 DEF WriteInv
  <2> QED
    BY <1>9, <1>10, <2>2, <2>3, <2>4 DEF BuyInv
<1> QED
  BY <1>11, <1>12

\* The request that is sent leaves room in the budget for all its session may charge.
LEMMA SendKeeps ==
    ASSUME BuyInv, BuyTypes', Send
    PROVE  BuyInv'
<1>1. /\ BuyTypes /\ pc = "loop" /\ pc \in Working /\ Stage = "loop" /\ pc' = "await"
      /\ UNCHANGED <<session, counted, cmd, run, disk, ranked, at, spent, cap, words, paid, stop,
                     writing>>
  BY DEF BuyInv, Send, Goto, Working, Stage, planVars, readVars
<1>2. /\ Section' = Section /\ Section \in Targets /\ run \in Runs /\ Sid = <<run, Section>>
      /\ Sid' = Sid /\ Sid \in Sids
  BY <1>1, AtWork DEF Section, Plan, Sid
<1>3. /\ wire'[Sid].at = "sent"
      /\ \A k \in Runs, s \in Targets : <<k, s>> # Sid => wire'[<<k, s>>] = wire[<<k, s>>]
  BY <1>2 DEF Send, BuyInv, BuyTypes, TypeOK, Sids, NoRequest
<1>4. /\ spent + cap <= Budget /\ session[Sid].cap = cap /\ Exists(run, Section)
      /\ counted[run] <= spent + session[Sid].paid
      /\ \A s \in Targets : ~Busy(run, s)
  BY <1>1, <1>2 DEF BuyInv, MoneyInv, Reading
<1>5. LedgerInv'
  <2>1. \A k \in Runs, s \in Targets : <<k, s>> # Sid => SessionInv(k, s)'
    BY <1>1, <1>3 DEF BuyInv, LedgerInv, SessionInv, Busy, Exists, Budget
  <2>2. SessionInv(run, Section)'
    <3>1. SessionInv(run, Section)
      BY <1>2 DEF BuyInv, LedgerInv
    <3>2. session[Sid].paid \in Nat /\ session[Sid].cap \in Nat
      BY <1>1, AtWork DEF Rows
    <3>3. counted[run] - session[Sid].paid + session[Sid].cap <= Budget
      BY <1>1, <1>4, <3>2, AtWork
    <3> QED
      BY <1>1, <1>2, <1>3, <1>4, <3>1, <3>3 DEF SessionInv, Busy, Exists, Budget
  <2>3. \A k \in Runs : RunInv(k)'
    BY <1>1, <1>2, <1>3, <1>4 DEF BuyInv, LedgerInv, RunInv, Busy, Budget
  <2>4. ASSUME NEW k \in Runs, NEW s \in Targets PROVE SessionInv(k, s)'
    <3>1. CASE k = run /\ s = Section
      BY <1>1, <1>2, <2>2, <3>1 DEF SessionInv, Busy, Exists, Budget
    <3>2. CASE <<k, s>> # Sid
      BY <2>1, <3>2
    <3> QED
      BY <1>2, <3>1, <3>2
  <2> QED
    BY <2>3, <2>4 DEF LedgerInv
<1>6. DiskInv'
  <2>1. ops[Section].status = "started"
    BY <1>1 DEF BuyInv, WriteInv
  <2> QED
    BY <1>1, <1>2, <1>3, <2>1 DEF BuyInv, DiskInv, FileInv, RecordInv, Traced, Saved, Busy, Exists, disk
<1>7. PlanInv'
  BY <1>1 DEF BuyInv, PlanInv, Stage, Unopened, Exists, Budget
<1>8. MoneyInv'
  BY <1>1, <1>2, <1>3, <1>4 DEF MoneyInv, Stage, Unopened, Reading, Busy, Exists, Budget
<1>9. WriteInv'
  BY <1>1, <1>2 DEF BuyInv, WriteInv, disk
<1> QED
  BY <1>5, <1>6, <1>7, <1>8, <1>9 DEF BuyInv

\* What the loop takes over is what the ledger says; what it gives up it may still owe.
LEMMA LoopKeeps ==
    ASSUME BuyInv, BuyTypes', StopReading \/ Receive \/ GiveUp
    PROVE  BuyInv'
<1>1. /\ BuyTypes /\ pc \in {"loop", "await"} /\ pc \in Working /\ Stage = pc
      /\ pc' \in {"loop", "abort", "returned"}
      /\ UNCHANGED <<session, wire, counted, cmd, run, disk, ranked, at, spent, cap, writing>>
  BY DEF BuyInv, StopReading, Receive, GiveUp, Goto, Working, Stage, planVars, gateway
<1>2. /\ Section' = Section /\ Section \in Targets /\ run \in Runs /\ Sid = <<run, Section>>
      /\ Sid' = Sid /\ Sid \in Sids
  BY <1>1, AtWork DEF Section, Plan, Sid
<1>3. LedgerInv' /\ DiskInv'
  BY <1>1, LedgerSame, DiskSame DEF BuyInv
<1>4. PlanInv'
  BY <1>1 DEF BuyInv, PlanInv, Stage, Unopened, Exists, Budget
<1>5. WriteInv'
  BY <1>1, <1>2 DEF BuyInv, WriteInv, disk
<1>6. /\ spent + cap <= Budget /\ session[Sid].cap = cap /\ Exists(run, Section)
      /\ counted[run] <= spent + session[Sid].paid
  BY <1>1, <1>2 DEF BuyInv, MoneyInv, Reading
<1>7. MoneyInv'
  <2>1. CASE StopReading
    <3>1. pc = "loop" /\ pc' = "abort" /\ UNCHANGED <<words, paid>>
      BY <2>1 DEF StopReading, Goto
    <3>2. words = session[Sid].w /\ paid = session[Sid].paid /\ \A s \in Targets : ~Busy(run, s)
      BY <1>1, <1>2, <3>1 DEF BuyInv, MoneyInv, Reading
    <3> QED
      BY <1>1, <1>2, <1>6, <3>1, <3>2 DEF MoneyInv, Stage, Unopened, Reading, Busy, Exists, Budget
  <2>2. CASE Receive
    <3>1. /\ pc = "await" /\ wire[Sid].at = "answered" /\ words' = wire[Sid].w /\ paid' = wire[Sid].paid
          /\ pc' \in {"loop", "returned"}
          /\ pc' = "returned" => stop' = "article_completed"
      BY <2>2 DEF Receive, Goto
    <3>2. words' = session[Sid].w /\ paid' = session[Sid].paid
      BY <1>2, <3>1 DEF BuyInv, LedgerInv, SessionInv
    <3>3. \A s \in Targets : ~Busy(run, s)
      BY <1>1, <1>2, <3>1 DEF BuyInv, MoneyInv, Busy
    <3> QED
      BY <1>1, <1>2, <1>6, <3>1, <3>2, <3>3 DEF MoneyInv, Stage, Unopened, Reading, Busy, Exists, Budget
  <2>3. CASE GiveUp
    <3>1. pc = "await" /\ pc' = "abort" /\ stop' = "aborted"
      BY <2>3 DEF GiveUp, Goto
    <3>2. \A s \in Targets : Busy(run, s) => s = Section
      BY <1>1, <3>1 DEF BuyInv, MoneyInv
    <3> QED
      BY <1>1, <1>2, <1>6, <3>1, <3>2 DEF MoneyInv, Stage, Unopened, Reading, Busy, Exists, Budget
  <2> QED
    BY <2>1, <2>2, <2>3
<1> QED
  BY <1>3, <1>4, <1>5, <1>7 DEF BuyInv

\* The abort changes nothing that money depends on.
LEMMA AbortKeeps ==
    ASSUME BuyInv, BuyTypes', AbortSession
    PROVE  BuyInv'
<1>1. /\ BuyTypes /\ pc = "abort" /\ pc \in Working /\ Stage = "abort" /\ pc' = "returned"
      /\ UNCHANGED <<wire, counted, cmd, run, disk, ranked, at, spent, cap, words, paid, stop, writing>>
  BY DEF BuyInv, AbortSession, Goto, Working, Stage, planVars, readVars
<1>2. /\ Section' = Section /\ Section \in Targets /\ run \in Runs /\ Sid = <<run, Section>>
      /\ Sid' = Sid /\ Sid \in Sids
  BY <1>1, AtWork DEF Section, Plan, Sid
<1>3. Exists(run, Section)
  BY <1>1 DEF BuyInv, MoneyInv
<1>4. \A k \in Runs, s \in Targets :
         /\ session'[<<k, s>>].cap = session[<<k, s>>].cap
         /\ session'[<<k, s>>].w = session[<<k, s>>].w
         /\ session'[<<k, s>>].paid = session[<<k, s>>].paid
         /\ session'[<<k, s>>].state = "none" <=> session[<<k, s>>].state = "none"
  <2>1. session' = session \/ session' = [session EXCEPT ![Sid].state = "closed"]
    BY DEF AbortSession
  <2>2. session \in [Sids -> Rows] /\ \A k \in Runs, s \in Targets : <<k, s>> \in Sids
    BY DEF BuyInv, BuyTypes, TypeOK, Sids
  <2>3. CASE session' = [session EXCEPT ![Sid].state = "closed"]
    BY <1>2, <1>3, <2>2, <2>3 DEF Exists, Rows
  <2> QED
    BY <2>1, <2>3
<1>5. LedgerInv'
  BY <1>1, <1>4 DEF BuyInv, LedgerInv, RunInv, SessionInv, Busy, Exists, Budget
<1>6. DiskInv'
  BY ZenonT(60), <1>1, <1>4 DEF BuyInv, DiskInv, FileInv, RecordInv, Traced, Saved, Busy, Exists, disk
<1>7. PlanInv'
  BY <1>1, <1>2, <1>4, AtWork DEF BuyInv, PlanInv, Stage, Unopened, Exists, Budget
<1>8. MoneyInv'
  BY <1>1, <1>2, <1>4 DEF BuyInv, MoneyInv, Stage, Unopened, Reading, Busy, Exists, Budget
<1>9. WriteInv'
  BY <1>1, <1>2 DEF BuyInv, WriteInv, disk
<1> QED
  BY <1>5, <1>6, <1>7, <1>8, <1>9 DEF BuyInv

\* A receipt is written for what the ledger says, and counted before.
LEMMA ReceiptKeeps ==
    ASSUME BuyInv, BuyTypes', pc = "returned", stop # "aborted", spent + paid <= Budget,
           WriteReceipt(Receipt), spent' = spent + paid,
           UNCHANGED <<session, wire, counted, cmd, run, ranked, at, words, paid>>
    PROVE  BuyInv'
<1>1. BuyTypes /\ pc \in Working /\ Stage = "returned"
  BY DEF BuyInv, Working, Stage
<1>2. /\ Section' = Section /\ Section \in Targets /\ run \in Runs /\ Sid = <<run, Section>>
      /\ Sid' = Sid /\ Sid \in Sids
  BY <1>1, AtWork DEF Section, Plan, Sid
<1>3. /\ pc' = "write" /\ UNCHANGED ops /\ writing'.what = "receipt" /\ writing'.receipt = Receipt
      /\ writing'.next = "verify"
      /\ \A k \in Runs, s \in Targets :
            <<k, s>> # Sid => receipts'[<<k, s>>] = receipts[<<k, s>>]
  BY <1>1 DEF WriteReceipt, Goto, NoWrite, BuyTypes, TypeOK, Sids
<1>4. /\ Exists(run, Section) /\ words = session[Sid].w /\ paid = session[Sid].paid
      /\ counted[run] <= spent + session[Sid].paid
      /\ \A s \in Targets : ~Busy(run, s)
  BY <1>1 DEF BuyInv, MoneyInv, Reading
<1>5. ops[Section].status = "started"
  BY DEF BuyInv, WriteInv
<1>6. Receipt = Saved(session[Sid])
  BY <1>4 DEF Receipt, Saved
<1>7. LedgerInv'
  BY LedgerSame DEF BuyInv
<1>8. DiskInv'
  <2> SUFFICES ASSUME NEW s \in Targets PROVE (FileInv(s) /\ RecordInv(s))'
    BY DEF DiskInv
  <2>1. FileInv(s) /\ RecordInv(s)
    BY DEF BuyInv, DiskInv
  <2>2. ops[s].status = "completed" => \A k \in Runs : <<k, s>> # Sid
    BY <1>2, <1>5
  <2> QED
    BY <1>3, <2>1, <2>2 DEF FileInv, RecordInv, Traced, Saved, Busy, Exists
<1>9. PlanInv'
  BY <1>1, <1>3, AtWork DEF BuyInv, PlanInv, Stage, Unopened, Exists, Budget
<1>10. MoneyInv'
  BY <1>1, <1>2, <1>3, <1>4 DEF MoneyInv, Stage, Unopened, Reading, Busy, Exists
<1>11. WriteInv'
  BY <1>2, <1>3, <1>5, <1>6 DEF WriteInv, Saved
<1> QED
  BY <1>7, <1>8, <1>9, <1>10, <1>11 DEF BuyInv

\* The read is over: success writes a receipt, anything else a record of ambiguity.
LEMMA ReturnedKeeps ==
    ASSUME BuyInv, BuyTypes', Returned
    PROVE  BuyInv'
<1>1. CASE pc' = "idle"
  BY <1>1, IdleKeeps DEF Returned, gateway, WriteReceipt, GoAmbiguous, WriteOp, Goto
<1>2. CASE stop = "aborted"
  <2>1. GoAmbiguous /\ pc = "returned"
        /\ UNCHANGED <<session, wire, counted, cmd, run, ranked, at, spent>>
    BY <1>2 DEF Returned, gateway
  <2> QED
    BY <1>2, <2>1, AmbiguousKeeps
<1>3. CASE stop # "aborted" /\ pc' # "idle"
  <2>1. /\ pc = "returned" /\ spent + paid <= Budget /\ WriteReceipt(Receipt)
        /\ spent' = spent + paid
        /\ UNCHANGED <<session, wire, counted, cmd, run, ranked, at, words, paid>>
    <3>1. spent \in Nat /\ paid \in Nat /\ Budget \in Nat
      BY BuyAssumption DEF BuyInv, BuyTypes, TypeOK, Budget
    <3>2. pc = "returned" /\ ~(paid > cap \/ spent + paid > Budget)
      BY <1>3 DEF Returned, End
    <3> QED
      BY <1>3, <3>1, <3>2 DEF Returned, gateway, readVars
  <2> QED
    BY <1>3, <2>1, ReceiptKeeps
<1> QED
  BY <1>1, <1>2, <1>3

\* What is completed is what its receipt says.
LEMMA VerifyKeeps ==
    ASSUME BuyInv, BuyTypes', Verify
    PROVE  BuyInv'
<1> DEFINE op == [Attempt("completed") EXCEPT !.by = run, !.amount = paid]
<1>1. /\ BuyTypes /\ pc = "verify" /\ pc \in Working /\ Stage = "verify"
      /\ WriteOp(op, "bought", "none")
      /\ UNCHANGED <<session, wire, counted, cmd, run, ranked, at, spent>>
  BY DEF BuyInv, Verify, Working, Stage, gateway
<1>2. /\ op.status = "completed" /\ op.by = run /\ op.amount = paid
      /\ op.attempts = ops[Section].attempts
  BY DEF Attempt
<1> HIDE DEF op
<1>3. /\ Section' = Section /\ Section \in Targets /\ run \in Runs /\ Sid = <<run, Section>>
      /\ Sid' = Sid /\ Sid \in Sids
  BY <1>1, AtWork DEF Section, Plan, Sid
<1>4. /\ \A s \in Targets \ {Section} : ops'[s] = ops[s]
      /\ ops'[Section].status = "torn"
      /\ writing'.what = "op" /\ writing'.op = op /\ writing'.next = "bought"
      /\ pc' = "write" /\ UNCHANGED receipts
  BY <1>1, WriteOpFiles
<1>5. /\ Exists(run, Section) /\ paid = session[Sid].paid
      /\ receipts[Sid] = Saved(session[Sid]) /\ ops[Section].status = "started"
  BY <1>1 DEF BuyInv, MoneyInv, WriteInv
<1>6. Traced(op, Section)
  BY <1>2, <1>3, <1>5 DEF BuyInv, DiskInv, RecordInv, Traced
<1>7. LedgerInv' /\ DiskInv'
  BY <1>1, <1>4, LedgerSame, TornKeepsDisk DEF BuyInv
<1>8. PlanInv'
  BY <1>1, <1>4 DEF BuyInv, PlanInv, Stage, Unopened, Exists, Budget
<1>9. MoneyInv'
  BY <1>1, <1>3, <1>4 DEF BuyInv, MoneyInv, Stage, Unopened, Reading, Busy
<1>10. WriteInv'
  BY <1>1, <1>2, <1>3, <1>4, <1>5, <1>6 DEF WriteInv, Traced, Exists, Saved
<1> QED
  BY <1>7, <1>8, <1>9, <1>10 DEF BuyInv

\* The plan goes on with a section this run has opened no session for.
LEMMA BoughtKeeps ==
    ASSUME BuyInv, BuyTypes', Bought
    PROVE  BuyInv'
<1>1. CASE pc' = "idle"
  BY <1>1, IdleKeeps DEF Bought, gateway
<1>2. CASE pc' = "select"
  <2>1. /\ BuyTypes /\ pc = "bought" /\ pc \in Working /\ at' = at + 1
        /\ UNCHANGED <<session, wire, counted, cmd, run, disk, ranked, spent>>
    BY DEF BuyInv, Bought, GoOn, Working, gateway
  <2>2. LedgerInv' /\ DiskInv'
    BY <2>1, LedgerSame, DiskSame DEF BuyInv
  <2>3. PlanInv'
    <3>1. \A i \in DOMAIN ranked : i > at => ~Exists(run, ranked[i].section)
      BY <2>1 DEF BuyInv, PlanInv
    <3>2. \A i \in DOMAIN ranked : i > at + 1 \/ i = at + 1 => i > at
      BY <2>1, AtWork
    <3> QED
      BY <1>2, <2>1, <3>1, <3>2 DEF BuyInv, PlanInv, Exists, Budget
  <2>4. MoneyInv'
    BY <1>2, <2>1 DEF BuyInv, MoneyInv, Stage, Unopened, Reading, Busy
  <2>5. WriteInv'
    BY <1>2 DEF WriteInv
  <2> QED
    BY <2>2, <2>3, <2>4, <2>5 DEF BuyInv
<1> QED
  BY <1>1, <1>2 DEF Bought, GoOn, End, Goto

-----------------------------------------------------------------------------
(* The steps of the gateway.                                               *)

\* What the gateway admits, its session can pay for.
LEMMA AdmitKeeps ==
    ASSUME BuyInv, BuyTypes', NEW sid \in Sids, Admit(sid)
    PROVE  BuyInv'
<1>1. PICK k \in Runs, s \in Targets : sid = <<k, s>>
  BY DEF Sids
<1> DEFINE c == session[sid]
           a == Affordable(c.cap - c.paid)
           n == MinOf(MinOf(wire[sid].max, a), WordCount[s] - c.w)
<1>2. /\ BuyTypes /\ wire[sid].at = "sent" /\ c.state = "open"
      /\ wire' = [wire EXCEPT ![sid].at = "verified", ![sid].start = c.w, ![sid].n = n]
      /\ UNCHANGED <<session, counted, cmd, run, disk, ranked, at, spent, cap, words, paid, stop,
                     writing, pc>>
  BY <1>1 DEF BuyInv, Admit, planVars, readVars
<1>3. /\ c \in Rows /\ wire[sid] \in Messages /\ WordCount[s] \in Nat
      /\ c.paid \in Nat /\ c.cap \in Nat /\ c.w \in Nat /\ c.paid <= c.cap
  BY <1>1, <1>2, BuyAssumption DEF BuyInv, LedgerInv, SessionInv, BuyTypes, TypeOK, Rows
<1>4. n \in Int /\ n <= a
  <2>1. wire[sid].max \in Int /\ a \in Int /\ WordCount[s] - c.w \in Int
    BY <1>3, AffordableType DEF Messages
  <2> HIDE DEF a
  <2> QED
    BY <2>1 DEF MinOf
<1>5. Price * n <= c.cap - c.paid
  <2> HIDE DEF n
  <2>1. c.cap - c.paid \in Nat
    BY <1>3
  <2> HIDE DEF c
  <2> QED
    BY <1>4, <2>1, AffordableFits
<1> HIDE DEF n
<1>6. /\ wire'[sid].at = "verified" /\ wire'[sid].start = c.w /\ wire'[sid].n = n
      /\ \A j \in Runs, t \in Targets : <<j, t>> # sid => wire'[<<j, t>>] = wire[<<j, t>>]
  BY <1>1, <1>2 DEF BuyTypes, TypeOK, Sids
<1>7. \A j \in Runs, t \in Targets :
         wire[<<j, t>>].at \in {"sent", "verified"} <=> wire'[<<j, t>>].at \in {"sent", "verified"}
  BY <1>1, <1>2, <1>6
<1>8. LedgerInv'
  <2>1. \A j \in Runs : RunInv(j)'
    BY <1>2, <1>7 DEF BuyInv, LedgerInv, RunInv, Busy, Budget
  <2>2. ASSUME NEW j \in Runs, NEW t \in Targets PROVE SessionInv(j, t)'
    <3>1. SessionInv(j, t)
      BY DEF BuyInv, LedgerInv
    <3>2. CASE <<j, t>> # sid
      BY <1>2, <1>6, <3>1, <3>2 DEF SessionInv, Busy, Exists, Budget
    <3>3. CASE <<j, t>> = sid
      BY <1>2, <1>5, <1>6, <3>1, <3>3 DEF SessionInv, Busy, Exists, Budget
    <3> QED
      BY <3>2, <3>3
  <2> QED
    BY <2>1, <2>2 DEF LedgerInv
<1>9. DiskInv'
  <2> SUFFICES ASSUME NEW t \in Targets PROVE (FileInv(t) /\ RecordInv(t))'
    BY DEF DiskInv
  <2>1. FileInv(t) /\ RecordInv(t)
    BY DEF BuyInv, DiskInv
  <2>2. RecordInv(t)'
    BY <1>2, <2>1 DEF RecordInv, Traced, Exists, disk
  <2>3. FileInv(t)'
    BY <1>2, <1>7, <2>1 DEF FileInv, Saved, Busy, Exists, disk
  <2> QED
    BY <2>2, <2>3
<1>10. PlanInv'
  BY <1>2 DEF BuyInv, PlanInv, Stage, Unopened, Exists, Budget
<1>11. Section' = Section /\ Sid' = Sid
  BY <1>2 DEF Section, Sid, Plan
<1>12. MoneyInv'
  <2>1. pc # "idle" => run \in Runs
    BY <1>2 DEF BuyTypes
  <2> QED
    BY <1>2, <1>7, <1>11, <2>1 DEF BuyInv, MoneyInv, Stage, Unopened, Reading, Busy, Exists, Budget
<1>13. WriteInv'
  BY <1>2, <1>11 DEF BuyInv, WriteInv, Begun, Traced, Saved, Exists, disk
<1> QED
  BY <1>8, <1>9, <1>10, <1>12, <1>13 DEF BuyInv

\* A refusal charges nothing.
LEMMA RefuseKeeps ==
    ASSUME BuyInv, BuyTypes', NEW sid \in Sids, Refuse(sid)
    PROVE  BuyInv'
<1>1. PICK k \in Runs, s \in Targets : sid = <<k, s>>
  BY DEF Sids
<1>2. /\ BuyTypes /\ wire[sid].at \in {"sent", "verified"}
      /\ wire' = [wire EXCEPT ![sid].at = "refused"]
      /\ UNCHANGED <<session, counted, cmd, run, disk, ranked, at, spent, cap, words, paid, stop,
                     writing, pc>>
  BY <1>1 DEF BuyInv, Refuse, planVars, readVars
<1>3. /\ wire'[sid].at = "refused"
      /\ \A j \in Runs, t \in Targets : <<j, t>> # sid => wire'[<<j, t>>] = wire[<<j, t>>]
  BY <1>1, <1>2 DEF BuyTypes, TypeOK, Sids
<1>4. \A j \in Runs, t \in Targets :
         wire'[<<j, t>>].at \in {"sent", "verified"} => wire[<<j, t>>].at \in {"sent", "verified"}
  BY <1>3
<1>5. LedgerInv'
  <2>1. \A j \in Runs : RunInv(j)'
    BY <1>2, <1>4 DEF BuyInv, LedgerInv, RunInv, Busy, Budget
  <2>2. ASSUME NEW j \in Runs, NEW t \in Targets PROVE SessionInv(j, t)'
    <3>1. SessionInv(j, t)
      BY DEF BuyInv, LedgerInv
    <3>2. CASE <<j, t>> # sid
      BY <1>2, <1>3, <3>1, <3>2 DEF SessionInv, Busy, Exists, Budget
    <3>3. CASE <<j, t>> = sid
      BY <1>2, <1>3, <3>1, <3>3 DEF SessionInv, Busy, Exists, Budget
    <3> QED
      BY <3>2, <3>3
  <2> QED
    BY <2>1, <2>2 DEF LedgerInv
<1>6. DiskInv'
  BY <1>2, <1>4 DEF BuyInv, DiskInv, FileInv, RecordInv, Traced, Saved, Busy, Exists, disk
<1>7. PlanInv'
  BY <1>2 DEF BuyInv, PlanInv, Stage, Unopened, Exists, Budget
<1>8. Section' = Section /\ Sid' = Sid
  BY <1>2 DEF Section, Sid, Plan
<1>9. MoneyInv'
  <2>1. pc # "idle" => run \in Runs
    BY <1>2 DEF BuyTypes
  <2> QED
    BY <1>2, <1>4, <1>8, <2>1 DEF BuyInv, MoneyInv, Stage, Unopened, Reading, Busy, Exists, Budget
<1>10. WriteInv'
  BY <1>2, <1>8 DEF BuyInv, WriteInv, Begun, Traced, Saved, Exists, disk
<1> QED
  BY <1>5, <1>6, <1>7, <1>9, <1>10 DEF BuyInv

\* A late charge finds the room its request was sent with, and no receipt.
LEMMA CommitKeeps ==
    ASSUME BuyInv, BuyTypes', NEW sid \in Sids, Commit(sid)
    PROVE  BuyInv'
<1>1. PICK k \in Runs, s \in Targets : sid = <<k, s>>
  BY DEF Sids
<1> DEFINE c     == session[sid]
           price == Price * wire[sid].n
           w     == c.w + wire[sid].n
           owed  == c.paid + price
           ended == w >= WordCount[s]
<1>2. /\ BuyTypes /\ wire[sid].at = "verified"
      /\ session' = [session EXCEPT ![sid].w = w, ![sid].paid = owed,
                                    ![sid].state = IF ended THEN "closed" ELSE @]
      /\ wire' = [wire EXCEPT ![sid].at = "answered", ![sid].w = w, ![sid].paid = owed,
                              ![sid].done = ended]
      /\ counted' = [counted EXCEPT ![k] = @ + price]
      /\ UNCHANGED <<cmd, run, disk, ranked, at, spent, cap, words, paid, stop, writing, pc>>
  BY <1>1 DEF BuyInv, Commit, planVars, readVars
<1>3. /\ c \in Rows /\ wire[sid] \in Messages /\ counted[k] \in Nat /\ Budget \in Nat /\ spent \in Nat
      /\ c.paid \in Nat /\ c.cap \in Nat
  <2>1. c \in Rows /\ wire[sid] \in Messages
    BY <1>2 DEF BuyTypes, TypeOK
  <2>2. counted[k] \in Nat /\ spent \in Nat
    BY <1>1, <1>2 DEF BuyTypes, TypeOK
  <2>3. Budget \in Nat
    BY <1>2, BuyAssumption DEF BuyTypes, TypeOK, Budget
  <2> QED
    BY <2>1, <2>2, <2>3 DEF Rows
<1>4. price \in Nat
  BY <1>3, BuyAssumption DEF Messages
<1>5. /\ price <= c.cap - c.paid /\ Exists(k, s) /\ Busy(k, s)
      /\ counted[k] - c.paid + c.cap <= Budget
      /\ k <= run /\ run \in Nat
  BY SMTT(30), <1>1, <1>2 DEF BuyInv, LedgerInv, SessionInv, Busy, Exists, Runs, BuyTypes, TypeOK
<1> HIDE DEF price, ended
<1>6. /\ session'[sid].w = w /\ session'[sid].paid = owed /\ session'[sid].cap = c.cap
      /\ session'[sid].state # "none"
      /\ \A j \in Runs, t \in Targets : <<j, t>> # sid => session'[<<j, t>>] = session[<<j, t>>]
  <2>1. session \in [Sids -> Rows] /\ \A j \in Runs, t \in Targets : <<j, t>> \in Sids
    BY <1>2 DEF BuyTypes, TypeOK, Sids
  <2>2. \A j \in Runs, t \in Targets : <<j, t>> # sid => session'[<<j, t>>] = session[<<j, t>>]
    BY <1>2, <2>1
  <2>3. session'[sid] = [c EXCEPT !.w = w, !.paid = owed, !.state = IF ended THEN "closed" ELSE @]
    BY <1>2, <2>1
  <2>4. c.state # "none"
    BY <1>1, <1>5 DEF Exists
  <2>5. c \in Rows
    BY <1>3
  <2> HIDE DEF c, w, owed
  <2> QED
    BY <2>2, <2>3, <2>4, <2>5 DEF Rows
<1>7. /\ wire'[sid].at = "answered" /\ wire'[sid].w = w /\ wire'[sid].paid = owed
      /\ \A j \in Runs, t \in Targets : <<j, t>> # sid => wire'[<<j, t>>] = wire[<<j, t>>]
  <2>1. wire \in [Sids -> Messages] /\ \A j \in Runs, t \in Targets : <<j, t>> \in Sids
    BY <1>2 DEF BuyTypes, TypeOK, Sids
  <2>2. wire[sid] \in Messages
    BY <1>3
  <2> HIDE DEF w, owed
  <2> QED
    BY <1>2, <2>1, <2>2 DEF Messages
<1>8. /\ counted'[k] = counted[k] + price
      /\ \A j \in Runs \ {k} : counted'[j] = counted[j]
  BY <1>2 DEF BuyTypes, TypeOK
<1>9. \A j \in Runs, t \in Targets :
         /\ wire'[<<j, t>>].at \in {"sent", "verified"} =>
              <<j, t>> # sid /\ wire[<<j, t>>].at \in {"sent", "verified"}
         /\ session'[<<j, t>>].state = "none" <=> session[<<j, t>>].state = "none"
  BY <1>1, <1>5, <1>6, <1>7 DEF Exists
<1>10. \A t \in Targets : <<k, t>> # sid => ~Busy(k, t)
  BY <1>1, <1>5 DEF BuyInv, LedgerInv, RunInv
<1> HIDE DEF w
<1>11. LedgerInv'
  <2>1. ASSUME NEW j \in Runs PROVE RunInv(j)'
    <3>1. RunInv(j)
      BY DEF BuyInv, LedgerInv
    <3>2. counted'[j] <= Budget /\ (j > run => counted'[j] = 0)
      <4>1. CASE j = k
        BY <1>3, <1>4, <1>5, <1>8, <4>1 DEF Runs
      <4>2. CASE j # k
        BY <1>8, <3>1, <4>2 DEF RunInv
      <4> QED
        BY <4>1, <4>2
    <3> QED
      BY <1>2, <1>9, <3>1, <3>2 DEF RunInv, Busy, Budget
  <2>2. ASSUME NEW j \in Runs, NEW t \in Targets PROVE SessionInv(j, t)'
    <3>1. SessionInv(j, t)
      BY DEF BuyInv, LedgerInv
    <3>2. CASE <<j, t>> # sid
      <4>1. j = k => ~Busy(j, t)
        BY <1>10, <3>2
      <4> QED
        BY <1>2, <1>6, <1>7, <1>8, <3>1, <3>2, <4>1 DEF SessionInv, Busy, Exists, Budget
    <3>3. CASE <<j, t>> = sid
      <4>1. j = k /\ t = s
        BY <1>1, <3>3
      <4>2. owed <= c.cap
        BY <1>3, <1>4, <1>5
      <4> HIDE DEF owed
      <4>3. /\ session'[<<j, t>>].paid <= session'[<<j, t>>].cap
            /\ session'[<<j, t>>].state # "none" /\ wire'[<<j, t>>].at = "answered"
            /\ wire'[<<j, t>>].w = session'[<<j, t>>].w
            /\ wire'[<<j, t>>].paid = session'[<<j, t>>].paid
            /\ ~(j > run)
        <5>1. ~(j > run)
          BY <1>5, <4>1 DEF Runs
        <5> QED
          BY <1>6, <1>7, <3>3, <4>2, <5>1
      <4> QED
        BY <1>2, <4>3 DEF SessionInv, Busy, Exists
    <3> QED
      BY <3>2, <3>3
  <2> QED
    BY <2>1, <2>2 DEF LedgerInv
<1>12. DiskInv'
  <2> SUFFICES ASSUME NEW t \in Targets PROVE (FileInv(t) /\ RecordInv(t))'
    BY DEF DiskInv
  <2>1. FileInv(t) /\ RecordInv(t)
    BY DEF BuyInv, DiskInv
  <2>2. RecordInv(t)'
    <3>1. UNCHANGED ops
      BY <1>2 DEF disk
    <3>2. \A j \in Runs : session'[<<j, t>>].state # "none" <=> session[<<j, t>>].state # "none"
      BY <1>9
    <3> QED
      BY <2>1, <3>1, <3>2 DEF RecordInv, Traced, Exists
  <2>3. FileInv(t)'
    <3>1. ASSUME ops[t].status = "completed"
          PROVE  ops[t].by \in Runs /\ <<ops[t].by, t>> # sid
      BY <1>1, <1>2, <2>1, <3>1 DEF FileInv, Busy
    <3> QED
      BY ZenonT(60), <1>2, <1>6, <1>7, <2>1, <3>1 DEF FileInv, Saved, Busy, Exists, disk
  <2> QED
    BY <2>2, <2>3
<1>13. PlanInv'
  <2> SUFFICES ASSUME pc # "idle" PROVE PlanInv'
    BY <1>2 DEF BuyInv, PlanInv
  <2>1. ranked \in Seq(Plans) /\ run \in Runs
    BY <1>2 DEF BuyTypes, TypeOK
  <2>2. \A i \in DOMAIN ranked : ranked[i].section \in Targets
    <3>1. \A i \in DOMAIN ranked : ranked[i] \in Plans
      BY <2>1
    <3> QED
      BY <3>1 DEF Plans
  <2>3. \A i \in DOMAIN ranked : session'[<<run, ranked[i].section>>].state = "none"
                                   <=> session[<<run, ranked[i].section>>].state = "none"
    BY <1>9, <2>1, <2>2
  <2> QED
    BY <1>2, <2>3 DEF BuyInv, PlanInv, Stage, Unopened, Exists, Budget
<1>14. Section' = Section /\ Sid' = Sid /\ Stage' = Stage
  BY <1>2 DEF Section, Sid, Plan, Stage
<1>15. MoneyInv' /\ WriteInv'
  <2>1. CASE pc = "idle"
    BY <1>2, <2>1 DEF MoneyInv, WriteInv, Stage, Unopened, Reading
  <2> SUFFICES ASSUME pc # "idle" PROVE MoneyInv' /\ WriteInv'
    BY <2>1
  <2>2. run \in Runs /\ Sid = <<run, Section>>
    BY <1>2 DEF BuyTypes, Sid
  <2>3. pc \in Working => Section \in Targets
    BY <1>2, AtWork
  <2>4. \A t \in Targets : wire'[<<run, t>>].at \in {"sent", "verified"} => Busy(run, t)
    BY <1>9, <2>2 DEF Busy
  <2>5. \A j \in Runs : Section \in Targets =>
           (session'[<<j, Section>>].state = "none" <=> session[<<j, Section>>].state = "none")
    BY <1>9
  <2>6. CASE k # run
    <3>1. counted'[run] = counted[run]
      BY <1>8, <2>2, <2>6
    <3>2. Section \in Targets => session'[Sid] = session[Sid]
      BY <1>1, <1>6, <2>2, <2>6
    <3>3. MoneyInv'
      BY ZenonT(60), <1>2, <1>14, <2>2, <2>3, <2>4, <2>5, <3>1, <3>2
         DEF BuyInv, MoneyInv, Unopened, Reading, Busy, Exists, Budget, Working, Stage
    <3>4. UNCHANGED <<ops, receipts, pc, writing, run>>
      BY <1>2 DEF disk
    <3>5. WriteInv'
      BY ZenonT(60), <1>2, <1>14, <2>2, <2>3, <2>5, <3>2, <3>4
         DEF BuyInv, WriteInv, Begun, Traced, Saved, Exists, Working
    <3> QED
      BY <3>3, <3>5
  <2>7. CASE k = run
    <3>1. /\ sid = Sid /\ s = Section
          /\ Stage = "idle" \/ pc = "await" \/ (pc \in {"abort", "returned"} /\ stop = "aborted")
      BY <1>1, <1>5, <2>2, <2>7 DEF BuyInv, MoneyInv
    <3>2. pc = "await" => counted'[run] <= spent + session'[Sid].paid
      <4>1. pc = "await" => counted[run] <= spent + c.paid
        BY <3>1 DEF BuyInv, MoneyInv, Reading
      <4> QED
        BY <1>3, <1>4, <1>6, <1>8, <2>7, <3>1, <4>1
    <3>3. session'[Sid].cap = session[Sid].cap
      BY <1>6, <3>1
    <3>4. MoneyInv'
      BY ZenonT(60), <1>2, <1>14, <2>2, <2>3, <2>4, <2>5, <3>1, <3>2, <3>3
         DEF BuyInv, MoneyInv, Unopened, Reading, Busy, Exists, Budget, Working, Stage
    <3>5. WriteInv'
      BY ZenonT(60), <1>2, <1>14, <2>2, <2>3, <2>5, <3>1
         DEF BuyInv, WriteInv, Begun, Traced, Exists, disk, Working, Stage
    <3> QED
      BY <3>4, <3>5
  <2> QED
    BY <2>6, <2>7
<1> QED
  BY <1>11, <1>12, <1>13, <1>15 DEF BuyInv

-----------------------------------------------------------------------------
(* The theorems.                                                           *)

\* Every step keeps the inductive invariant.
LEMMA BuyNext == BuyInv /\ [Next]_vars => BuyInv'
<1> SUFFICES ASSUME BuyInv, [Next]_vars PROVE BuyInv'
  OBVIOUS
<1>0. BuyTypes'
  BY TypesNext DEF BuyInv
<1>1. CASE Start
  BY <1>0, <1>1, StartKeeps
<1>2. CASE Authenticate \/ ResolveWallet \/ CheckBalance \/ AskFaucet \/ Recheck
  <2>1. /\ pc \in Unopened \ {"load", "open"}
        /\ \/ \E label \in Unopened \ {"load", "open"} : Step(label)
           \/ \E advice : Unfunded(advice)
    BY <1>2 DEF Authenticate, ResolveWallet, CheckBalance, AskFaucet, Recheck, Command, Unopened
  <2>2. CASE \E label \in Unopened \ {"load", "open"} : Step(label)
    BY <1>0, <2>1, <2>2, EarlyKeeps DEF Step, Goto, gateway, planVars
  <2>3. CASE \E advice : Unfunded(advice)
    BY <1>0, <2>3, IdleKeeps DEF Unfunded, End, gateway, planVars
  <2> QED
    BY <2>1, <2>2, <2>3
<1>3. CASE SkipSection
  BY <1>0, <1>3, EarlyKeeps DEF SkipSection, gateway, Unopened
<1>4. CASE Finish \/ LoadTorn \/ WriteFails \/ Kill
  BY <1>0, <1>4, IdleKeeps DEF Finish, LoadTorn, WriteFails, Kill, End, gateway, planVars
<1>5. CASE SelectSection
  BY <1>0, <1>5, SelectKeeps
<1>6. CASE Reuse
  BY <1>0, <1>6, ReuseKeeps
<1>7. CASE RecordStarted
  BY <1>0, <1>7, RecordStartedKeeps
<1>8. CASE WriteDone
  BY <1>0, <1>8, WriteDoneKeeps
<1>9. CASE OpenSession
  BY <1>0, <1>9, OpenSessionKeeps
<1>10. CASE StopReading \/ Receive \/ GiveUp
  BY <1>0, <1>10, LoopKeeps
<1>11. CASE SignFails
  BY <1>0, <1>11, AmbiguousKeeps DEF SignFails, gateway, planVars
<1>12. CASE Send
  BY <1>0, <1>12, SendKeeps
<1>13. CASE AbortSession
  BY <1>0, <1>13, AbortKeeps
<1>14. CASE Returned
  BY <1>0, <1>14, ReturnedKeeps
<1>15. CASE Verify
  BY <1>0, <1>15, VerifyKeeps
<1>16. CASE Bought
  BY <1>0, <1>16, BoughtKeeps
<1>17. ASSUME NEW sid \in Sids, Admit(sid) \/ Refuse(sid) \/ Commit(sid) PROVE BuyInv'
  BY <1>0, <1>17, AdmitKeeps, RefuseKeeps, CommitKeeps
<1>18. CASE UNCHANGED vars
  <2>1. LedgerInv' /\ DiskInv'
    BY <1>18, LedgerSame, DiskSame DEF BuyInv, vars, disk
  <2>2. PlanInv' /\ MoneyInv' /\ WriteInv'
    BY SMTT(30), <1>18 DEF BuyInv, PlanInv, MoneyInv, WriteInv, vars, Stage, Reading, Section, Plan, Sid, Busy,
       Exists, Begun, Traced, Saved, Budget
  <2> QED
    BY <1>0, <2>1, <2>2 DEF BuyInv
<1> QED
  BY <1>1, <1>2, <1>3, <1>4, <1>5, <1>6, <1>7, <1>8, <1>9, <1>10, <1>11, <1>12, <1>13, <1>14,
     <1>15, <1>16, <1>17, <1>18 DEF Next, Buyer

\* Files, sessions and the run agree, in every state.
LEMMA BuyInvariant == Spec => []BuyInv
<1>1. Init => BuyInv
  BY BuyInit
<1>2. BuyInv /\ [Next]_vars => BuyInv'
  BY BuyNext
<1> QED
  BY <1>1, <1>2, PTL DEF Spec

\* Every variable of a repeated buy keeps its type: the run's place, its plan, its
\* files and the sessions at the gateway.
THEOREM BuyTypeCorrect == Spec => []TypeOK
<1>1. BuyInv => TypeOK
  BY DEF BuyInv, BuyTypes
<1> QED
  BY <1>1, BuyInvariant, PTL

\* For any budgets, plans, kills and late answers, what the gateway charged in the
\* sessions of one run and what that run reused stay within --max-usdc.
THEOREM CapHolds == Spec => []CapHoldsPerRun
<1>1. BuyInv => CapHoldsPerRun
  BY DEF BuyInv, LedgerInv, RunInv, CapHoldsPerRun
<1> QED
  BY <1>1, BuyInvariant, PTL

\* A completed operation is backed by a stored receipt that equals the gateway's
\* ledger, from then on: no request that is still out can charge its session.
THEOREM ReceiptsAreTheLedger == Spec => []ReceiptIsLedger
<1>1. BuyInv => ReceiptIsLedger
  BY DEF BuyInv, DiskInv, FileInv, Saved, ReceiptIsLedger
<1> QED
  BY <1>1, BuyInvariant, PTL

\* The cap, the records and the sessions together trace every charge.
LEMMA TracedFollows ==
    ASSUME BuyInv
    PROVE  ChargesAreTraced
<1> SUFFICES ASSUME NEW sid \in Sids, session[sid].paid > 0
             PROVE  \/ ops[sid[2]].status \in {"torn", "started", "ambiguous"}
                    \/ ops[sid[2]].attempts >= 2
                    \/ ops[sid[2]].status = "completed" /\ ops[sid[2]].by = sid[1]
  BY DEF ChargesAreTraced
<1>1. PICK k \in Runs, s \in Targets : sid = <<k, s>>
  BY DEF Sids
<1>2. Exists(k, s) /\ ops[s] \in Ops
  BY <1>1 DEF BuyInv, BuyTypes, TypeOK, LedgerInv, SessionInv
<1>3. CASE ops[s].status = "completed"
  <2>1. ops[s].by \in Runs /\ Exists(ops[s].by, s)
    BY <1>3 DEF BuyInv, DiskInv, FileInv
  <2>2. ops[s].by = k \/ ops[s].attempts >= 2
    BY <1>2, <1>3, <2>1 DEF BuyInv, DiskInv, RecordInv, Traced
  <2> QED
    BY <1>1, <1>3, <2>2
<1>4. CASE ops[s].status # "completed"
  <2>1. ops[s].status # "none"
    BY <1>2 DEF BuyInv, DiskInv, RecordInv, Traced
  <2> QED
    BY <1>1, <1>2, <1>4, <2>1 DEF Ops
<1> QED
  BY <1>3, <1>4

\* Money that moved is on record: the session that charged is the completed operation's,
\* or the record says that an attempt is open or that there were several.
THEOREM ChargesTraced == Spec => []ChargesAreTraced
BY BuyInvariant, TracedFollows, PTL

\* Only a record that is open, or a torn one, is written, and only then is a session opened.
LEMMA CompletedKept ==
    ASSUME BuyInv, [Next]_vars, NEW s \in Targets, ops[s].status = "completed"
    PROVE  /\ ops'[s] = ops[s]
           /\ \A k \in Runs : session[<<k, s>>].state = "none"
                                  => session'[<<k, s>>].state = "none"
<1> DEFINE Steady == /\ ops'[s] = ops[s]
                     /\ \A k \in Runs : session[<<k, s>>].state = "none"
                                            => session'[<<k, s>>].state = "none"
<1>1. BuyTypes /\ FileInv(s) /\ ops \in [Targets -> Ops] /\ session \in [Sids -> Rows]
      /\ \A k \in Runs : <<k, s>> \in Sids
  BY DEF BuyInv, DiskInv, BuyTypes, TypeOK, Sids
<1>2. CASE ops' = ops /\ session' = session
  BY <1>2
<1>3. CASE Start \/ Authenticate \/ ResolveWallet \/ CheckBalance \/ AskFaucet \/ Recheck
  BY <1>3, <1>2 DEF Start, Authenticate, ResolveWallet, CheckBalance, AskFaucet, Recheck, Command,
     Step, Unfunded, disk, gateway
<1>4. CASE SkipSection \/ SelectSection \/ Finish \/ LoadTorn \/ Reuse \/ WriteFails
           \/ StopReading \/ Send \/ Receive \/ GiveUp \/ Bought \/ Kill
  BY <1>4, <1>2 DEF SkipSection, SelectSection, Finish, LoadTorn, Reuse, WriteFails, StopReading,
     Send, Receive, GiveUp, Bought, Kill, disk, gateway
<1>5. CASE RecordStarted
  <2>1. s # Section
    BY <1>1, <1>5 DEF RecordStarted, Reusable, FileInv, Saved
  <2> QED
    BY <1>1, <1>5, <2>1 DEF RecordStarted, WriteOp, gateway
<1>6. ASSUME pc \in {"write", "open", "loop", "abort", "returned", "verify"} PROVE s # Section
  BY <1>6 DEF BuyInv, WriteInv
<1>7. CASE WriteDone
  BY <1>1, <1>6, <1>7 DEF WriteDone, gateway
<1>8. CASE OpenSession
  <2>1. s # Section /\ \A k \in Runs : <<k, s>> # Sid
    BY <1>6, <1>8 DEF OpenSession, Sid
  <2>2. ops'[s] = ops[s]
    BY <1>1, <1>8, <2>1 DEF OpenSession, GoAmbiguous, WriteOp, disk
  <2>3. \A k \in Runs : session'[<<k, s>>] = session[<<k, s>>]
    BY <1>1, <1>8, <2>1 DEF OpenSession
  <2> QED
    BY <2>2, <2>3
<1>9. CASE SignFails \/ Returned \/ Verify
  <2>1. s # Section
    BY <1>6, <1>9 DEF SignFails, Returned, Verify
  <2> QED
    BY <1>1, <1>9, <2>1 DEF SignFails, Returned, Verify, GoAmbiguous, WriteOp, WriteReceipt, disk,
       gateway
<1>10. CASE AbortSession
  <2>1. \A k \in Runs : <<k, s>> # Sid
    BY <1>6, <1>10 DEF AbortSession, Sid
  <2> QED
    BY <1>1, <1>10, <2>1 DEF AbortSession, disk
<1>11. ASSUME NEW sid \in Sids, Admit(sid) \/ Refuse(sid) PROVE Steady
  BY <1>2, <1>11 DEF Admit, Refuse, disk
<1>12. ASSUME NEW sid \in Sids, Commit(sid) PROVE Steady
  <2>1. ops' = ops
    BY <1>12 DEF Commit, disk
  <2>2. ASSUME NEW k \in Runs, session[<<k, s>>].state = "none"
        PROVE  session'[<<k, s>>].state = "none"
    <3>1. <<k, s>> # sid
      BY <1>12, <2>2 DEF Commit, BuyInv, LedgerInv, SessionInv, Exists
    <3> QED
      BY <1>1, <1>12, <2>2, <3>1 DEF Commit
  <2> QED
    BY <2>1, <2>2
<1>13. CASE UNCHANGED vars
  BY <1>2, <1>13 DEF vars
<1> QED
  BY <1>3, <1>4, <1>5, <1>7, <1>8, <1>9, <1>10, <1>11, <1>12, <1>13 DEF Next, Buyer

\* A purchase that completed is never made again: no step of any later run touches its
\* record or opens a session for its section.
THEOREM BoughtOnce == Spec => PaidOnce
<1>1. BuyInv /\ [Next]_vars =>
        [\A s \in Targets : ops[s].status = "completed" =>
            /\ ops'[s] = ops[s]
            /\ \A k \in Runs : session[<<k, s>>].state = "none"
                                   => session'[<<k, s>>].state = "none"]_vars
  BY CompletedKept
<1> QED
  BY <1>1, BuyInvariant, PTL DEF Spec, PaidOnce
-----------------------------------------------------------------------------
(* The embeddings runner.                                                  *)

\* What a runner in state s has done, for a list of sections and a table of hashes, when
\* nothing else has changed them since it started: it holds the sections there are; what
\* is no longer pending is in the table, and what it will delete is what it has seen.
Progress(s, list, hashed) ==
    s.alone =>
       /\ s.at \in {"hashes", "embed", "done"} => s.record = list
       /\ s.at = "embed" =>
             /\ s.pending \subseteq {i \in Ids : s.record[i] # Absent}
             /\ \A i \in Ids \ s.pending :
                   hashed[i] = IF s.record[i] = Absent THEN s.hashes[i] ELSE s.record[i]
       /\ s.at = "done" => hashed = list

\* The inductive invariant of the runners.
EmbedInv == E!TypeOK /\ \A r \in Runners : Progress(runner[r], sections, table)

Hashes    == [Ids -> Contents \cup {Absent}]
RunnerOf ==
    [at : {"idle", "get", "hashes", "embed", "done"}, record : Hashes, hashes : Hashes,
     pending : SUBSET Ids, alone : BOOLEAN]

\* An idle runner is one.
LEMMA IdleFits == E!Idle \in RunnerOf /\ ~E!Idle.alone /\ E!Idle.at = "idle"
  BY DEF E!Idle, RunnerOf, E!Nothing, Hashes

\* Before the first run the invariant holds, whatever the article.
LEMMA EmbedStarts ==
    ASSUME MaxChanges \in Nat, E!Init
    PROVE  EmbedInv
<1>1. runner \in [Runners -> RunnerOf] /\ \A r \in Runners : runner[r] = E!Idle
  BY IdleFits DEF E!Init
<1>2. E!TypeOK
  BY <1>1 DEF E!Init, E!TypeOK, RunnerOf, Hashes, E!Nothing
<1> QED BY <1>1, <1>2, IdleFits DEF EmbedInv, Progress

\* After an interruption no runner counts as alone.
LEMMA Interruption ==
    ASSUME EmbedInv
    PROVE  /\ E!Interrupted(runner) \in [Runners -> RunnerOf]
           /\ \A r \in Runners : ~E!Interrupted(runner)[r].alone
<1>1. \A r \in Runners :
        [runner[r] EXCEPT !.alone = FALSE] \in RunnerOf /\ ~[runner[r] EXCEPT !.alone = FALSE].alone
  BY DEF EmbedInv, E!TypeOK, RunnerOf, Hashes
<1> QED BY <1>1, Zenon DEF E!Interrupted

\* A step that changes the sections or the table, of a runner in state s, or of none.
LEMMA Disturbed ==
    ASSUME EmbedInv, NEW r \in Runners, NEW s \in RunnerOf, Progress(s, sections', table'),
           runner' = [E!Interrupted(runner) EXCEPT ![r] = s],
           live' \in BOOLEAN, sections' \in Hashes, table' \in Hashes, edited' \in 0 .. MaxChanges
    PROVE  EmbedInv'
<1>1. runner' \in [Runners -> RunnerOf]
  BY Interruption
<1>2. \A q \in Runners : q # r => ~runner'[q].alone
  BY Interruption
<1>3. runner'[r] = s
  BY Interruption
<1>4. E!TypeOK'
  BY <1>1 DEF E!TypeOK, RunnerOf, Hashes
<1> QED BY <1>2, <1>3, <1>4 DEF EmbedInv, Progress

\* One that does not.
LEMMA Undisturbed ==
    ASSUME EmbedInv, NEW r \in Runners, NEW s \in RunnerOf, Progress(s, sections, table),
           runner' = [runner EXCEPT ![r] = s], UNCHANGED <<live, sections, table, edited>>
    PROVE  EmbedInv'
<1>1. runner \in [Runners -> RunnerOf]
  BY DEF EmbedInv, E!TypeOK, RunnerOf, Hashes
<1>2. \A q \in Runners : runner'[q] = IF q = r THEN s ELSE runner[q]
  BY <1>1
<1>3. E!TypeOK'
  <2>1. runner' \in [Runners -> RunnerOf]
    BY <1>1
  <2> QED BY <2>1 DEF EmbedInv, E!TypeOK, RunnerOf, Hashes
<1> QED BY <1>2, <1>3 DEF EmbedInv, Progress, E!Of

\* Every step of creators and runners keeps the invariant.
LEMMA EmbedKept ==
    ASSUME MaxChanges \in Nat, EmbedInv, [E!Next]_(E!vars)
    PROVE  EmbedInv'
<1>0. /\ live \in BOOLEAN /\ sections \in Hashes /\ table \in Hashes /\ edited \in 0 .. MaxChanges
      /\ runner \in [Runners -> RunnerOf] /\ \A r \in Runners : Progress(runner[r], sections, table)
  BY DEF EmbedInv, E!TypeOK, Hashes, RunnerOf
<1>1. CASE E!Edit
  <2>1. /\ runner' \in [Runners -> RunnerOf] /\ \A r \in Runners : ~runner'[r].alone
    BY <1>1, Interruption DEF E!Edit
  <2>2. edited' \in 0 .. MaxChanges
    BY <1>0, <1>1 DEF E!Edit
  <2>3. live' \in BOOLEAN /\ sections' \in Hashes /\ table' = table
    BY <1>0, <1>1 DEF E!Edit, Hashes
  <2> QED BY <1>0, <2>1, <2>2, <2>3 DEF EmbedInv, E!TypeOK, RunnerOf, Hashes, Progress
<1>2. ASSUME NEW r \in Runners, E!Begin(r) PROVE EmbedInv'
  <2> DEFINE a == E!Alone(r)
             s == [E!Idle EXCEPT !.at = "get", !.alone = a]
  <2>1. a \in BOOLEAN
    BY DEF E!Alone
  <2>2. runner' = [E!Interrupted(runner) EXCEPT ![r] = s] /\ UNCHANGED <<live, sections, table, edited>>
    BY <1>2, Zenon DEF E!Begin
  <2> HIDE DEF a
  <2>3. s \in RunnerOf /\ s.at = "get"
    BY <2>1, IdleFits DEF RunnerOf, E!Idle
  <2> HIDE DEF s
  <2>4. Progress(s, sections', table')
    BY <2>3 DEF Progress
  <2> QED BY <1>0, <2>2, <2>3, <2>4, Disturbed
<1>3. ASSUME NEW r \in Runners, E!GetRecord(r) PROVE EmbedInv'
  <2> DEFINE s == [runner[r] EXCEPT !.at = "hashes", !.record = sections]
  <2>1. s \in RunnerOf /\ Progress(s, sections, table)
    <3>1. /\ s \in RunnerOf /\ s.at = "hashes" /\ s.record = sections
      BY <1>0 DEF RunnerOf
    <3> HIDE DEF s
    <3> QED BY <3>1 DEF Progress
  <2>2. PICK t \in {s, E!Idle} : runner' = [runner EXCEPT ![r] = t]
    BY <1>0, <1>3 DEF E!GetRecord
  <2> HIDE DEF s
  <2>3. t \in RunnerOf /\ Progress(t, sections, table)
    BY <2>1, <2>2, IdleFits DEF Progress
  <2> QED BY <1>3, <2>2, <2>3, Undisturbed DEF E!GetRecord
<1>4. ASSUME NEW r \in Runners, E!GetHashes(r) PROVE EmbedInv'
  <2> DEFINE todo == E!Changed(runner[r].record, table)
             s == [runner[r] EXCEPT !.at = "embed", !.hashes = table, !.pending = todo]
  <2>1. todo \subseteq E!Of(runner[r].record) /\ E!Of(runner[r].record) \subseteq Ids
    BY DEF E!Changed, E!Of
  <2>2. \A i \in Ids \ todo :
          table[i] = IF runner[r].record[i] = Absent THEN table[i] ELSE runner[r].record[i]
    BY DEF E!Changed, E!Of
  <2>3. runner' = [runner EXCEPT ![r] = s] /\ UNCHANGED <<live, sections, table, edited>>
    BY <1>0, <1>4 DEF E!GetHashes
  <2>4. runner[r] \in RunnerOf /\ runner[r].at = "hashes" /\ Progress(runner[r], sections, table)
    BY <1>0, <1>4 DEF E!GetHashes
  <2> HIDE DEF todo
  <2>5. s \in RunnerOf
    BY <1>0, <2>1, <2>4 DEF RunnerOf
  <2>6. /\ s.at = "embed" /\ s.record = runner[r].record /\ s.hashes = table /\ s.pending = todo
        /\ s.alone = runner[r].alone
    BY <2>4 DEF RunnerOf
  <2> HIDE DEF s
  <2>7. Progress(s, sections, table)
    BY <2>1, <2>2, <2>4, <2>6 DEF Progress, E!Of
  <2> QED BY <2>3, <2>5, <2>7, Undisturbed
<1>5. ASSUME NEW r \in Runners, E!EmbedBatch(r) PROVE EmbedInv'
  <2>1. PICK batch \in SUBSET runner[r].pending :
          /\ runner' = [E!Interrupted(runner) EXCEPT ![r] =
                          [runner[r] EXCEPT !.pending = runner[r].pending \ batch]]
          /\ table' = [i \in Ids |-> IF i \in batch THEN runner[r].record[i] ELSE table[i]]
    BY <1>5 DEF E!EmbedBatch
  <2> DEFINE s == [runner[r] EXCEPT !.pending = runner[r].pending \ batch]
  <2>2. runner[r] \in RunnerOf /\ runner[r].at = "embed" /\ Progress(runner[r], sections, table)
    BY <1>0, <1>5 DEF E!EmbedBatch
  <2>3. /\ s \in RunnerOf /\ s.at = "embed" /\ s.record = runner[r].record
        /\ s.hashes = runner[r].hashes /\ s.pending = runner[r].pending \ batch
        /\ s.alone = runner[r].alone
    BY <2>2 DEF RunnerOf
  <2>4. UNCHANGED <<live, sections, edited>>
    BY <1>5 DEF E!EmbedBatch
  <2>5. table' \in Hashes
    BY <1>0, <2>1, <2>2 DEF Hashes, RunnerOf
  <2>6. runner' = [E!Interrupted(runner) EXCEPT ![r] = s]
    BY <2>1
  <2> HIDE DEF s
  <2>7. Progress(s, sections', table')
    <3> SUFFICES ASSUME s.alone
                 PROVE  /\ s.record = sections
                        /\ s.pending \subseteq E!Of(s.record)
                        /\ \A i \in Ids \ s.pending : table'[i] =
                              IF s.record[i] = Absent THEN s.hashes[i] ELSE s.record[i]
      BY <2>3, <2>4 DEF Progress, E!Of
    <3>1. /\ s.record = sections /\ runner[r].pending \subseteq E!Of(s.record)
          /\ \A i \in Ids \ runner[r].pending :
                table[i] = IF s.record[i] = Absent THEN s.hashes[i] ELSE s.record[i]
      BY <2>2, <2>3 DEF Progress, E!Of
    <3> QED BY <2>1, <2>3, <3>1 DEF E!Of
  <2> QED BY <1>0, <2>3, <2>4, <2>5, <2>6, <2>7, Disturbed
<1>6. ASSUME NEW r \in Runners, E!DeleteStale(r) PROVE EmbedInv'
  <2> DEFINE s == [runner[r] EXCEPT !.at = "done"]
  <2>1. /\ runner' = [E!Interrupted(runner) EXCEPT ![r] = s]
        /\ table' = [i \in Ids |-> IF i \in E!Of(runner[r].hashes) \ E!Of(runner[r].record)
                                   THEN Absent ELSE table[i]]
        /\ UNCHANGED <<live, sections, edited>>
    BY <1>6 DEF E!DeleteStale
  <2>2. /\ runner[r] \in RunnerOf /\ runner[r].at = "embed" /\ runner[r].pending = {}
        /\ Progress(runner[r], sections, table)
    BY <1>0, <1>6 DEF E!DeleteStale
  <2>3. s \in RunnerOf /\ s.at = "done" /\ s.record = runner[r].record /\ s.alone = runner[r].alone
    BY <2>2 DEF RunnerOf
  <2>4. table' \in Hashes
    BY <1>0, <2>1 DEF Hashes
  <2> HIDE DEF s
  <2>5. s.alone => s.record = sections /\ table' = sections
    <3> SUFFICES ASSUME s.alone PROVE s.record = sections /\ table' = sections
      OBVIOUS
    <3>1. /\ runner[r].record = sections
          /\ \A i \in Ids : table[i] = IF sections[i] = Absent THEN runner[r].hashes[i]
                                        ELSE sections[i]
      BY <2>2, <2>3 DEF Progress
    <3>2. \A i \in Ids : table'[i] = sections[i]
      BY <2>1, <3>1 DEF E!Of
    <3> QED BY <1>0, <2>3, <2>4, <3>1, <3>2 DEF Hashes
  <2>6. Progress(s, sections', table')
    BY <2>1, <2>3, <2>5 DEF Progress
  <2> QED BY <1>0, <2>1, <2>3, <2>4, <2>6, Disturbed
<1>7. ASSUME NEW r \in Runners, E!End(r) \/ E!Fail(r) PROVE EmbedInv'
  <2>1. Progress(E!Idle, sections, table)
    BY IdleFits DEF Progress
  <2> QED BY <1>7, <2>1, IdleFits, Undisturbed DEF E!End, E!Fail
<1>8. CASE UNCHANGED E!vars
  BY <1>8 DEF E!vars, EmbedInv, E!TypeOK, Progress, E!Of
<1> QED BY <1>1, <1>2, <1>3, <1>4, <1>5, <1>6, <1>7, <1>8 DEF E!Next

\* An uninterrupted run brings the table in line, whatever it starts from.
THEOREM EmbeddingsInvariant ==
    ASSUME MaxChanges \in Nat
    PROVE  E!Spec => []EmbedInv
<1>1. E!Init => EmbedInv
  BY EmbedStarts
<1>2. EmbedInv /\ [E!Next]_(E!vars) => EmbedInv'
  BY EmbedKept
<1> QED BY <1>1, <1>2, PTL DEF E!Spec

-----------------------------------------------------------------------------
(* What the circle wrapper reads of a balance report.                      *)

\* parseBalanceAtomic: where the CLI reports by chain and the first entry of the chain is
\* an amount, no more is taken for spendable than that entry says, to the atomic unit.
THEOREM BalanceNeverOverstated ==
    ASSUME NEW report, NEW chain, NEW chains,
           report.balances \in Seq([chain : chains, amount : Nat])
    PROVE  BalanceIsSpendable(report, chain)
<1> DEFINE b == report.balances
<1>1. SUFFICES ASSUME NEW i \in DOMAIN b,
                      report.atomic = NoAmount, b[i].chain = chain,
                      \A j \in 1 .. (i - 1) : b[j].chain # chain
               PROVE  10 * BalanceOf(report, chain) <= b[i].amount
  BY DEF BalanceIsSpendable
<1> DEFINE here  == {k \in DOMAIN b : b[k].chain = chain}
           first == CHOOSE k \in here : \A j \in here : k <= j
<1>2. i \in here /\ here \subseteq Nat /\ \A j \in here : i <= j
  <2>1. DOMAIN b = 1 .. Len(b) /\ Len(b) \in Nat
    OBVIOUS
  <2> HIDE DEF b
  <2> QED BY <1>1, <2>1
<1>3. first = i
  <2> HIDE DEF here
  <2>1. first \in here /\ \A j \in here : first <= j
    BY <1>2
  <2> HIDE DEF first
  <2> QED BY <1>2, <2>1
<1>4. ChainBalance(b, chain) = b[i].amount
  <2>1. ChainBalance(b, chain) = b[first].amount
    BY <1>2 DEF ChainBalance
  <2> QED BY <1>3, <2>1
<1>5. b[i].amount \in Nat
  <2>1. b \in Seq([chain : chains, amount : Nat])
    OBVIOUS
  <2>2. ASSUME NEW T, NEW s \in Seq(T), NEW k \in DOMAIN s PROVE s[k] \in T
    OBVIOUS
  <2>3. b[i] \in [chain : chains, amount : Nat]
    BY <2>1, <2>2, <1>1, Zenon
  <2> HIDE DEF b
  <2> QED BY <2>3
<1>6. BalanceOf(report, chain) = Atomic(b[i].amount)
  <2>1. b[i].amount # NoAmount
    BY <1>5 DEF NoAmount
  <2> HIDE DEF b
  <2> QED BY <1>1, <1>4, <2>1 DEF BalanceOf, b
<1>7. ASSUME NEW a \in Nat PROVE 10 * Atomic(a) <= a
  BY DEF Atomic
<1> HIDE DEF b
<1> QED BY <1>5, <1>6, <1>7

-----------------------------------------------------------------------------
(* The market.                                                             *)

\* A step of one part is a step of its specification and leaves the others where they
\* are, so each part behaves as it does alone.
LEMMA MarketParts ==
    MarketSpec => Spec /\ S!Spec /\ E!Spec /\ P!Spec
<1> DEFINE step == [Buying \/ Selling \/ Embedding \/ Paying]_<<part, input, vars, stored,
                                                                 embedded, signing>>
<1>1. MarketInit => Init /\ S!Init /\ E!Init /\ P!Init
  BY DEF MarketInit
<1>2. step => [Next]_vars
  BY DEF Buying, Selling, Embedding, Paying
<1>3. step => [S!Next]_(S!vars)
  BY DEF Buying, Selling, Embedding, Paying, stored, S!vars
<1>4. step => [E!Next]_(E!vars)
  BY DEF Buying, Selling, Embedding, Paying, embedded, E!vars
<1>5. step => [P!Next]_(P!vars)
  BY DEF Buying, Selling, Embedding, Paying, signing, P!vars
<1> QED
  BY <1>1, <1>2, <1>3, <1>4, <1>5, PTL DEF MarketSpec, Spec, S!Spec, E!Spec, P!Spec

\* Sessions, for any catalogue, edits and restarts: every word delivered is a word of a
\* body the article has had, none twice in one life of the process.
THEOREM MarketWordsAreReal == MarketSpec => []WordsAreReal
<1>1. S!Spec => []S!WordsAreReal
  BY MarketAssumption, S!RealWords
<1> QED BY <1>1, MarketParts, PTL DEF WordsAreReal

\* And a session whose words are cut again from an article nobody changed goes on with
\* the words it was opened with.
THEOREM MarketRebuilds == MarketSpec => []RebuiltAsChosen
<1>1. S!Spec => []S!RebuiltAsChosen
  BY MarketAssumption, S!RebuiltSame
<1> QED BY <1>1, MarketParts, PTL DEF RebuiltAsChosen

\* The Base lane, for any edits of price, body and wallet between its reads: a body is
\* released for a settled payment of the whole price it was quoted at.
THEOREM MarketSalesExact == MarketSpec => []BaseSaleIsExact
<1>1. S!Spec => []S!BaseSaleIsExact
  BY MarketAssumption, S!BaseSalesExact
<1> QED BY <1>1, MarketParts, PTL DEF BaseSaleIsExact

\* The embeddings runner, for any number of runners that die, overlap and are edited
\* under: a run that nothing overlapped leaves the rows of the present sections.
THEOREM MarketConverges == MarketSpec => []EmbeddingsConverge
<1>1. EmbedInv => E!EmbeddingsConverge
  BY DEF EmbedInv, Progress, E!EmbeddingsConverge
<1>2. MaxChanges \in Nat
  BY MarketAssumption
<1> QED BY <1>1, <1>2, EmbeddingsInvariant, MarketParts, PTL DEF EmbeddingsConverge

\* Payment terms, for any readers of one session: what the gateway takes for words was
\* signed for those words.
THEOREM MarketPaysAsSigned == MarketSpec => []PaidAsSigned
<1>1. P!Spec => []P!PaidAsSigned
  BY MarketAssumption, P!WordsPaidAsSigned
<1> QED BY <1>1, MarketParts, PTL DEF PaidAsSigned

\* What does not move is an input that was given.
Given == input \in Fees \cup Ranges \cup Bodies \cup Balances \cup {NoInput}

LEMMA InputsStay == MarketSpec => []Given
<1>1. MarketInit => Given
  BY DEF MarketInit, Given
<1>2. Given /\ [Buying \/ Selling \/ Embedding \/ Paying]_<<part, input, vars, stored,
                                                            embedded, signing>> => Given'
  BY DEF Buying, Selling, Embedding, Paying, Given
<1> QED BY <1>1, <1>2, PTL DEF MarketSpec

\* An input says what it is.
LEMMA InputKinds ==
    ASSUME Given
    PROVE  /\ input.kind = "fee" => input \in Fees
           /\ input.kind = "range" => input \in Ranges
           /\ input.kind = "body" => input \in Bodies
           /\ input.kind = "balance" => input \in Balances
<1>1. /\ \A f \in Fees : f.kind = "fee"
      /\ \A r \in Ranges : r.kind = "range"
      /\ \A b \in Bodies : b.kind = "body"
      /\ \A b \in Balances : b.kind = "balance"
  BY MarketAssumption
<1>2. NoInput.kind = "none"
  BY DEF NoInput
<1> QED BY <1>1, <1>2 DEF Given

\* usageForWords: for every amount, price and fee among the inputs, however many there
\* are, what is reported stays within a unit a word of what is charged.
THEOREM MarketFeesAgree == MarketSpec => []FeesAgree
<1>1. Given => FeesAgree
  <2>1. SUFFICES ASSUME Given, input.kind = "fee"
                 PROVE  S!FeeGap(input.n, input.price, input.bps)
    BY DEF FeesAgree
  <2>2. input.n \in Nat /\ input.price \in Nat /\ input.bps \in Nat
    BY <2>1, InputKinds, MarketAssumption
  <2> QED BY <2>2, S!FeeGapBounded
<1> QED BY <1>1, InputsStay, PTL

\* The other pure functions, for every input, however many there are: the two places that
\* cut a range agree, sections made from headings share no word, and what a purchase is
\* gated on is there to be spent.
THEOREM MarketInputsFit == MarketSpec => []InputsFit
<1>1. ASSUME Given, input.kind = "range"
      PROVE  S!ClampsAgree([id |-> "s", start |-> input.start, count |-> input.count], input.total)
  <2> DEFINE s == [id |-> "s", start |-> input.start, count |-> input.count]
  <2>1. input.start \in Nat /\ input.count \in Nat /\ input.total \in Nat
    BY <1>1, InputKinds, MarketAssumption
  <2>2. s \in [id : {"s"}, start : Nat, count : Nat]
    BY <2>1
  <2> HIDE DEF s
  <2>3. S!ClampsAgree(s, input.total)
    BY <2>1, <2>2, S!ClampsAlwaysAgree
  <2> QED BY <2>3 DEF s
<1>2. ASSUME Given, input.kind = "body" PROVE S!SectionsApart(input.lines)
  <2>1. input \in [kind : {"body"}, lines : Seq(S!Line)]
    BY <1>2, InputKinds, MarketAssumption
  <2>2. input.lines \in S!Text
    BY <2>1 DEF S!Text
  <2> QED BY <2>2, S!SectionsNeverMeet
<1>3. ASSUME Given, input.kind = "balance" PROVE BalanceIsSpendable(input.report, Chain)
  <2>1. input.report.balances \in Seq([chain : STRING, amount : Nat])
    BY <1>3, InputKinds, MarketAssumption
  <2> QED BY <2>1, BalanceNeverOverstated
<1>4. Given => InputsFit
  BY <1>1, <1>2, <1>3 DEF InputsFit
<1> QED BY <1>4, InputsStay, PTL

\* No part leaves its types.
THEOREM MarketTypes == MarketSpec => []TypesOK
<1>1. S!Spec => []S!TypeOK
  BY MarketAssumption, S!StorefrontTypes
<1>2. P!Spec => []P!TypeOK
  BY MarketAssumption, P!TermsTypeCorrect
<1>3. EmbedInv => E!TypeOK
  BY DEF EmbedInv
<1>4. MaxChanges \in Nat
  BY MarketAssumption
<1>5. TypeOK /\ S!TypeOK /\ E!TypeOK /\ P!TypeOK => TypesOK
  BY DEF TypesOK
<1> QED
  BY <1>1, <1>2, <1>3, <1>4, <1>5, BuyTypeCorrect, EmbeddingsInvariant, MarketParts, PTL
=============================================================================

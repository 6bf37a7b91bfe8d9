----------------------------- MODULE BuyCommand -----------------------------
(***************************************************************************)
(* `rubicon buy`, run and re-run with the same flags on one machine: the   *)
(* plan over the sections the seller recommends, the operation and receipt *)
(* files under ~/.rubicon, the read loop of the agent SDK, and the gateway *)
(* sessions that loop pays.  A session is named by the run that opened it  *)
(* and its section, since a run opens at most one for each.                *)
(*                                                                         *)
(* Files are written in place, so a write that is cut short leaves a torn  *)
(* file.  A chunk request outlives the client that gave up on it: the      *)
(* gateway may serve it later.  What happens inside the gateway while it   *)
(* serves one is PaidReading's subject; here it admits, then commits.      *)
(***************************************************************************)
EXTENDS CircleCli

CONSTANTS
    Sections,     \* sections of the selected article
    FullArticle,  \* the alias that stands for all of it
    WordCount,    \* words of each section and of FullArticle
    Practical,    \* sections that reserveWordsForLater keeps words for
    Price,        \* atomic units per word, fee included
    Chunk,        \* --granularity as a number of words (32 unless given)
    Commands,     \* [mode, one, budget, wallet, testnet]: granularity, "purchase exactly
                  \* one" in the goal, --max-usdc in atomic units, the configured agent
                  \* wallet or NoWallet, and whether the faucet may be asked
    Assessments,  \* what the seller may answer: sections to [ev, min]
    Chain,        \* the chain the article is paid on
    Wallets,      \* wallets the profile may list
    Ends,         \* how a Circle CLI command may end
    Reports,      \* what it may print for a balance
    MaxRuns,      \* bound: how often the command is run
    MaxKills      \* bound: how often its process is killed

Targets == Sections \cup {FullArticle}
Floor    == 35    \* MIN_GOAL_FIT_EXPECTED_VALUE, in percent
Adequate == 75    \* expectedValue from which one section answers the goal

Runs == 1 .. MaxRuns
Sids == Runs \X Targets

ASSUME BuyAssumption ==
    /\ IsFiniteSet(Sections) /\ FullArticle \notin Sections
    /\ WordCount \in [Targets -> Nat]
    /\ Price \in Nat \ {0}
    /\ Chunk \in Nat \ {0}
    /\ \A c \in Commands :
         /\ DOMAIN c = {"mode", "one", "budget", "wallet", "testnet"}
         /\ c.mode \in {"chunks", "section", "article"}
         /\ c.one \in BOOLEAN
         /\ c.budget \in Nat
         /\ c.testnet \in BOOLEAN
    /\ \A a \in Assessments :
         /\ DOMAIN a \subseteq Sections
         /\ \A s \in DOMAIN a : a[s].ev \in 0 .. 100 /\ a[s].min \in Nat
    /\ Practical \subseteq Sections
    /\ \A end \in Ends : end.ok \in BOOLEAN /\ end.marks \subseteq Marks
    /\ \A r \in Reports : DOMAIN r = DOMAIN NoReport
    /\ MaxRuns \in Nat
    /\ MaxKills \in Nat

VARIABLES
    ops,       \* operation files, by section
    receipts,  \* receipt files, by session
    cmd,       \* the command line
    run,       \* which run this is, 0 before the first
    kills,
    pc,        \* where the run is; "idle" between runs
    outcome,   \* how the last run ended
    ranked,    \* the plan: sections with their assessment, best first
    at,        \* position in the plan
    spent,     \* what this run counts against the budget
    bought,    \* this run holds at least one receipt
    visited,   \* sections this run bought or reused
    limit,     \* words this section's read may buy
    cap,       \* sessionCap
    words,     \* the read loop's count of words, ...
    paid,      \* ... its amount paid ...
    stop,      \* ... and why it ended
    writing,   \* the file being written: what, its content, where the run goes on
    session,   \* the gateway's sessions
    wire,      \* the last chunk request of each session
    counted    \* money charged in or reused by each run

disk    == <<ops, receipts>>
planVars == <<ranked, at, spent, bought, visited>>
readVars == <<limit, cap, words, paid, stop>>
gateway == <<session, wire>>
vars == <<ops, receipts, cmd, run, kills, pc, outcome, ranked, at, spent, bought,
          visited, limit, cap, words, paid, stop, writing, session, wire, counted>>

-----------------------------------------------------------------------------
(* The plan.                                                               *)

MinOf(a, b) == IF a <= b THEN a ELSE b
MaxOf(a, b) == IF a >= b THEN a ELSE b

NoOp      == [status |-> "none", attempts |-> 0, by |-> 0, amount |-> 0]
NoReceipt == [status |-> "none", paid |-> 0, words |-> 0]
NoSession == [state |-> "none", cap |-> 0, w |-> 0, paid |-> 0]
NoRequest == [at |-> "none", max |-> 0, start |-> 0, n |-> 0, w |-> 0, paid |-> 0, done |-> FALSE]
NoWrite   == [what |-> "none", op |-> NoOp, receipt |-> NoReceipt, next |-> "idle", ends |-> "none"]
Plans     == [section : Targets, ev : 0 .. 100, min : Nat]

\* What rankSectionPlans keeps of an assessment: sections with words and enough value,
\* with the minimum clamped to what the section has.
Kept(a) ==
    {[section |-> s, ev |-> a[s].ev, min |-> MaxOf(1, MinOf(WordCount[s], a[s].min))] :
        s \in {t \in DOMAIN a : WordCount[t] > 0 /\ a[t].ev >= Floor}}

\* Value per word, then value; compared without dividing.
Better(p, q) ==
    \/ p.ev * q.min > q.ev * p.min
    \/ (p.ev * q.min = q.ev * p.min /\ p.ev > q.ev)

Orders(plans) ==
    {s \in [1 .. Cardinality(plans) -> plans] :
        \A i, j \in DOMAIN s : i < j => s[i] # s[j] /\ ~Better(s[j], s[i])}

Whole == [section |-> FullArticle, ev |-> 100, min |-> WordCount[FullArticle]]

Rankings(a) ==
    LET full == IF cmd.mode = "article" THEN {<<Whole>>} ELSE Orders(Kept(a))
    IN  {IF cmd.one /\ Len(s) > 1 THEN SubSeq(s, 1, 1) ELSE s : s \in full}

\* assessGoalFit: the seller has assessed something, and something is worth reading.
GoalFits(a) == \E s \in DOMAIN a : a[s].ev >= Floor

Budget == cmd.budget

Affordable(amount) == amount \div Price

\* The least that any plan costs, which the affordability gate compares to the budget.
Cheapest(plans) ==
    Price * (CHOOSE m \in {plans[i].min : i \in DOMAIN plans} :
                \A i \in DOMAIN plans : m <= plans[i].min)

\* reserveWordsForLater: the first other section of practical use not bought yet.
Reserve(affordable) ==
    LET later == {i \in DOMAIN ranked : /\ ranked[i].section # ranked[at].section
                                        /\ ranked[i].section \notin visited
                                        /\ ranked[i].section \in Practical}
        first == CHOOSE i \in later : \A j \in later : i <= j
    IN  IF cmd.mode # "article" /\ later # {} /\ affordable > 2 * ranked[first].min
        THEN ranked[first].min ELSE 0

\* Words of the next read.
ReadLimit(plan, affordable) ==
    MinOf(WordCount[plan.section], MaxOf(plan.min, affordable - Reserve(affordable)))

Answers(plan, n) == plan.ev >= Adequate /\ n >= plan.min

-----------------------------------------------------------------------------
(* The run.                                                                *)

Init ==
    /\ ops = [s \in Targets |-> NoOp]
    /\ receipts = [sid \in Sids |-> NoReceipt]
    /\ cmd \in Commands
    /\ run = 0 /\ kills = 0
    /\ pc = "idle" /\ outcome = "none"
    /\ ranked = <<>> /\ at = 1 /\ spent = 0 /\ bought = FALSE /\ visited = {}
    /\ limit = 0 /\ cap = 0 /\ words = 0 /\ paid = 0 /\ stop = "none"
    /\ writing = NoWrite
    /\ session = [sid \in Sids |-> NoSession]
    /\ wire = [sid \in Sids |-> NoRequest]
    /\ counted = [k \in Runs |-> 0]

Goto(label) == pc' = label /\ outcome' = "none"
End(how)    == pc' = "idle" /\ outcome' = how

\* Search, consultation and the two gates that stop a run before any payment.
Consult(a) ==
    \/ /\ ~GoalFits(a)
       /\ End("nothing")
       /\ UNCHANGED ranked
    \/ /\ GoalFits(a)
       /\ \E plans \in Rankings(a) :
            /\ ranked' = plans
            /\ IF plans = <<>> THEN End("failed")
               ELSE IF Cheapest(plans) > Budget THEN End("too_low") ELSE Goto("fund")

Start ==
    /\ pc = "idle"
    /\ run < MaxRuns
    /\ run' = run + 1
    /\ \/ \E a \in Assessments : Consult(a)
       \/ End("failed") /\ UNCHANGED ranked
    /\ at' = 1 /\ spent' = 0 /\ bought' = FALSE /\ visited' = {}
    /\ UNCHANGED <<disk, cmd, kills, readVars, writing, gateway, counted>>

Step(label) ==
    /\ Goto(label)
    /\ UNCHANGED <<disk, cmd, run, kills, planVars, readVars, writing, gateway, counted>>

\* The run stops before anything was paid, and says what its buyer should do about it.
Unfunded(advice) ==
    /\ End(advice)
    /\ UNCHANGED <<disk, cmd, run, kills, planVars, readVars, writing, gateway, counted>>

\* A command of the CLI, through the fallbacks of its binary.
CliEnds == {RunCircleCli("circle", TRUE, ends) : ends \in [Binaries -> Ends]}

\* A command that fails stops the run with what the failure is taken for.
Command(end, next) == IF end.ok THEN next ELSE Unfunded(Classify(end.marks))

Authenticate ==
    /\ pc = "fund"
    /\ \E end \in CliEnds : Command(end, Step("wallet"))

\* A configured wallet is not looked up.
ResolveWallet ==
    /\ pc = "wallet"
    /\ \/ cmd.wallet # NoWallet /\ Step("balance")
       \/ /\ cmd.wallet = NoWallet
          /\ \E end \in CliEnds, listed \in SUBSET Wallets :
                Command(end, IF AgentWallet(cmd.wallet, listed) = NoWallet
                             THEN Unfunded("command_failed") ELSE Step("balance"))

\* The wallet can pay the imminent read, or on a test network the faucet is asked.
CheckBalance ==
    /\ pc = "balance"
    /\ \E end \in CliEnds, report \in Reports,
          wallet \in IF cmd.wallet # NoWallet THEN {cmd.wallet} ELSE Wallets :
          Command(end,
              IF ~SameProfile(wallet, report) THEN Unfunded("profile_mismatch")
              ELSE IF BalanceOf(report, Chain) >= Cheapest(ranked) THEN Step("select")
              ELSE IF cmd.testnet THEN Step("faucet") ELSE Unfunded("deposit_required"))

AskFaucet ==
    /\ pc = "faucet"
    /\ \E end \in CliEnds :
          IF IsRateLimited(end) THEN Step("recheck_limited") ELSE Command(end, Step("recheck"))

\* After a faucet that answered, the run goes on whatever the balance; after one that is
\* rate limited, with whatever is left.
Recheck ==
    /\ pc \in {"recheck", "recheck_limited"}
    /\ \E end \in CliEnds, report \in Reports :
          Command(end, IF pc = "recheck" \/ BalanceOf(report, Chain) > 0
                       THEN Step("select") ELSE Unfunded("rate_limited"))

Plan    == ranked[at]
Section == Plan.section
Sid     == <<run, Section>>

\* Variation: every section is planned with the whole budget.
Remaining_Whole == Budget

\* What is left of the budget in this run.
Remaining == Budget - spent

SkipSection ==
    /\ pc = "select"
    /\ at <= Len(ranked)
    /\ Affordable(Remaining) < Plan.min
    /\ at' = at + 1
    /\ UNCHANGED <<disk, cmd, run, kills, pc, outcome, ranked, spent, bought, visited,
                   readVars, writing, gateway, counted>>

SelectSection ==
    LET n == ReadLimit(Plan, Affordable(Remaining))
    IN  /\ pc = "select"
        /\ at <= Len(ranked)
        /\ Affordable(Remaining) >= Plan.min
        /\ limit' = n
        /\ cap' = Price * n
        /\ words' = 0 /\ paid' = 0 /\ stop' = "none"
        /\ Goto("load")
        /\ UNCHANGED <<disk, cmd, run, kills, planVars, writing, gateway, counted>>

Finish ==
    /\ pc = "select"
    /\ at > Len(ranked)
    /\ End(IF bought THEN "success" ELSE "too_small")
    /\ UNCHANGED <<disk, cmd, run, kills, planVars, readVars, writing, gateway, counted>>

\* The plan goes on unless this section answers the goal.
GoOn(n) ==
    /\ at' = at + 1
    /\ IF Answers(Plan, n) THEN End("success") ELSE Goto("select")

-----------------------------------------------------------------------------
(* Operation and receipt files.                                            *)

\* writeFile truncates, then writes: until it is done the file cannot be parsed.
WriteOp(op, next, ends) ==
    /\ ops' = [ops EXCEPT ![Section] = [NoOp EXCEPT !.status = "torn"]]
    /\ writing' = [NoWrite EXCEPT !.what = "op", !.op = op, !.next = next, !.ends = ends]
    /\ Goto("write")
    /\ UNCHANGED receipts

WriteReceipt(receipt) ==
    /\ receipts' = [receipts EXCEPT ![Sid] = [NoReceipt EXCEPT !.status = "torn"]]
    /\ writing' = [NoWrite EXCEPT !.what = "receipt", !.receipt = receipt, !.next = "verify"]
    /\ Goto("write")
    /\ UNCHANGED ops

Attempt(status) ==
    [status |-> status, attempts |-> ops[Section].attempts, by |-> 0, amount |-> 0]

\* Variation: a status that no reader of the file knows.
GoAmbiguous_Failed == WriteOp(Attempt("failed"), "idle", "ambiguous")

\* Any failure of the read without a receipt, and an aborted one.
GoAmbiguous == WriteOp(Attempt("ambiguous"), "idle", "ambiguous")

WriteDone ==
    /\ pc = "write"
    /\ \/ /\ writing.what = "op"
          /\ ops' = [ops EXCEPT ![Section] = writing.op]
          /\ UNCHANGED receipts
       \/ /\ writing.what = "receipt"
          /\ receipts' = [receipts EXCEPT ![Sid] = writing.receipt]
          /\ UNCHANGED ops
    /\ pc' = writing.next
    /\ outcome' = IF writing.next = "idle" THEN writing.ends ELSE outcome
    /\ writing' = NoWrite
    /\ UNCHANGED <<cmd, run, kills, planVars, readVars, gateway, counted>>

\* The disk is full, or the file may not be written.
WriteFails ==
    /\ pc = "write"
    /\ writing' = NoWrite
    /\ End("failed")
    /\ UNCHANGED <<disk, cmd, run, kills, planVars, readVars, gateway, counted>>

\* Variation: only what this run bought is recognised.
Reusable_ThisRun(op) ==
    /\ op.status = "completed"
    /\ op.by = run
    /\ receipts[<<op.by, Section>>].status = "saved"

\* A completed operation whose receipt can be read.
Reusable(op) ==
    /\ op.status = "completed"
    /\ receipts[<<op.by, Section>>].status = "saved"

LoadTorn ==
    /\ pc = "load"
    /\ ops[Section].status = "torn"
    /\ End("failed")
    /\ UNCHANGED <<disk, cmd, run, kills, planVars, readVars, writing, gateway, counted>>

\* The receipt counts against the budget; one that no longer fits stops the run.
Reuse ==
    LET receipt == receipts[<<ops[Section].by, Section>>]
    IN  /\ pc = "load"
        /\ Reusable(ops[Section])
        /\ \/ /\ spent + receipt.paid > Budget
              /\ End("invariant")
              /\ UNCHANGED <<at, spent, bought, visited, counted>>
           \/ /\ spent + receipt.paid <= Budget
              /\ spent' = spent + receipt.paid
              /\ counted' = [counted EXCEPT ![run] = @ + receipt.paid]
              /\ bought' = TRUE
              /\ visited' = visited \cup {Section}
              /\ GoOn(receipt.words)
        /\ UNCHANGED <<disk, cmd, run, kills, ranked, readVars, writing, gateway>>

\* Variation: the record is written when the read is over.
RecordStarted_Late ==
    /\ pc = "load"
    /\ ops[Section].status # "torn"
    /\ ~Reusable(ops[Section])
    /\ Goto("open")
    /\ UNCHANGED <<disk, cmd, run, kills, planVars, readVars, writing, gateway, counted>>

\* The attempt is on disk before anything is paid.
RecordStarted ==
    /\ pc = "load"
    /\ ops[Section].status # "torn"
    /\ ~Reusable(ops[Section])
    /\ WriteOp([Attempt("started") EXCEPT !.attempts = @ + 1], "open", "none")
    /\ UNCHANGED <<cmd, run, kills, planVars, readVars, gateway, counted>>

-----------------------------------------------------------------------------
(* The read loop of the SDK.                                               *)

Total == WordCount[Section]

\* Reads of a whole section or article need a budget for all of it, take it in one
\* chunk, and stop nowhere else.
WholeRead == cmd.mode \in {"section", "article"}
Covers    == WholeRead => cap >= Price * Total

\* POST /sessions: created and known, created and unknown, or not created.  A read
\* that the cap cannot cover closes its session again and throws.
OpenSession ==
    /\ pc = "open"
    /\ \/ /\ \E state \in IF Covers THEN {"open"} ELSE {"open", "closed"} :
                session' = [session EXCEPT ![Sid] =
                              [state |-> state, cap |-> cap, w |-> 0, paid |-> 0]]
          /\ \/ Covers /\ Goto("loop") /\ UNCHANGED <<disk, writing>>
             \/ GoAmbiguous
       \/ UNCHANGED session /\ GoAmbiguous
    /\ UNCHANGED <<cmd, run, kills, planVars, readVars, wire, counted>>

\* The loop's own reasons to stop, in its order.
StopReason ==
    IF ~WholeRead /\ words >= limit THEN "max_words"
    ELSE IF paid + Price > cap THEN "budget_reached"
    ELSE IF ~WholeRead /\ Answers(Plan, words) THEN "stop_condition"
    ELSE "none"

\* What the command asks the loop to buy at a time, ...
Granularity == MinOf(Chunk, limit)

\* ... as the loop understands it.
BundleWords == IF WholeRead THEN Total ELSE Granularity

NextChunk ==
    LET wanted == IF WholeRead THEN Total ELSE limit - words
    IN  MinOf(MinOf(BundleWords, wanted), MinOf(Affordable(cap - paid), Total - words))

StopReading ==
    /\ pc = "loop"
    /\ StopReason # "none"
    /\ stop' = StopReason
    /\ Goto("abort")
    /\ UNCHANGED <<disk, cmd, run, kills, planVars, limit, cap, words, paid, writing,
                   gateway, counted>>

\* createChunkPayment signs outside the loop's try: its failure rejects the read and
\* leaves the session as it is.
SignFails ==
    /\ pc = "loop"
    /\ StopReason = "none"
    /\ GoAmbiguous
    /\ UNCHANGED <<cmd, run, kills, planVars, readVars, gateway, counted>>

Send ==
    /\ pc = "loop"
    /\ StopReason = "none"
    /\ wire' = [wire EXCEPT ![Sid] = [NoRequest EXCEPT !.at = "sent", !.max = NextChunk]]
    /\ Goto("await")
    /\ UNCHANGED <<disk, cmd, run, kills, planVars, readVars, writing, session, counted>>

\* The loop takes over the session's counters as the gateway reports them.
Receive ==
    /\ pc = "await"
    /\ wire[Sid].at = "answered"
    /\ words' = wire[Sid].w
    /\ paid' = wire[Sid].paid
    /\ stop' = IF wire[Sid].done THEN "article_completed" ELSE stop
    /\ Goto(IF wire[Sid].done THEN "returned" ELSE "loop")
    /\ UNCHANGED <<disk, cmd, run, kills, planVars, limit, cap, writing, gateway, counted>>

\* Variation: what was read so far is good enough.
GiveUp_KeepsReceipt ==
    /\ pc = "await"
    /\ stop' = IF words > 0 THEN "stop_condition" ELSE "aborted"
    /\ Goto("abort")
    /\ UNCHANGED <<disk, cmd, run, kills, planVars, limit, cap, words, paid, writing,
                   gateway, counted>>

\* Variation: without the request timeout only a refusal ends the wait.
GiveUp_OnRefusal ==
    /\ pc = "await"
    /\ wire[Sid].at = "refused"
    /\ stop' = "aborted"
    /\ Goto("abort")
    /\ UNCHANGED <<disk, cmd, run, kills, planVars, limit, cap, words, paid, writing,
                   gateway, counted>>

\* A refusal, a broken connection, or the request timeout, whatever the gateway does.
GiveUp ==
    /\ pc = "await"
    /\ stop' = "aborted"
    /\ Goto("abort")
    /\ UNCHANGED <<disk, cmd, run, kills, planVars, limit, cap, words, paid, writing,
                   gateway, counted>>

\* Best effort: the abort closes the session or is lost.
AbortSession ==
    /\ pc = "abort"
    /\ session' \in {session, [session EXCEPT ![Sid].state = "closed"]}
    /\ Goto("returned")
    /\ UNCHANGED <<disk, cmd, run, kills, planVars, readVars, writing, wire, counted>>

Receipt == [status |-> "saved", paid |-> paid, words |-> words]

\* It is judged and counted before it is stored.
Returned ==
    /\ pc = "returned"
    /\ \/ /\ stop = "aborted"
          /\ GoAmbiguous
          /\ UNCHANGED <<spent, visited>>
       \/ /\ stop # "aborted"
          /\ IF paid > cap \/ spent + paid > Budget
             THEN End("invariant") /\ UNCHANGED <<disk, writing, spent, visited>>
             ELSE /\ WriteReceipt(Receipt)
                  /\ spent' = spent + paid
                  /\ visited' = visited \cup {Section}
    /\ UNCHANGED <<cmd, run, kills, ranked, at, bought, readVars, gateway, counted>>

\* The stored receipt is read back; then the operation is completed.
Verify ==
    /\ pc = "verify"
    /\ bought' = TRUE
    /\ WriteOp([Attempt("completed") EXCEPT !.by = run, !.amount = paid], "bought", "none")
    /\ UNCHANGED <<cmd, run, kills, ranked, at, spent, visited, readVars, gateway, counted>>

Bought ==
    /\ pc = "bought"
    /\ GoOn(words)
    /\ UNCHANGED <<disk, cmd, run, kills, ranked, spent, bought, visited, readVars,
                   writing, gateway, counted>>

\* The process is killed, or the supervisor's patience ends.
Kill ==
    /\ pc # "idle"
    /\ kills < MaxKills
    /\ kills' = kills + 1
    /\ writing' = NoWrite
    /\ End("killed")
    /\ UNCHANGED <<disk, cmd, run, planVars, readVars, gateway, counted>>

-----------------------------------------------------------------------------
(* The gateway.                                                            *)

\* Guards passed, payment verified: nothing looks at the session's state again.
Admit(sid) ==
    LET n == MinOf(MinOf(wire[sid].max, Affordable(session[sid].cap - session[sid].paid)),
                   WordCount[sid[2]] - session[sid].w)
    IN  /\ wire[sid].at = "sent"
        /\ session[sid].state = "open"
        /\ n >= 1
        /\ wire' = [wire EXCEPT ![sid].at = "verified", ![sid].start = session[sid].w,
                                ![sid].n = n]
        /\ UNCHANGED <<disk, cmd, run, kills, pc, outcome, planVars, readVars, writing,
                       session, counted>>

Refuse(sid) ==
    /\ wire[sid].at \in {"sent", "verified"}
    /\ wire' = [wire EXCEPT ![sid].at = "refused"]
    /\ UNCHANGED <<disk, cmd, run, kills, pc, outcome, planVars, readVars, writing,
                   session, counted>>

Commit(sid) ==
    LET w     == session[sid].w + wire[sid].n
        owed  == session[sid].paid + Price * wire[sid].n
        ended == w >= WordCount[sid[2]]
    IN  /\ wire[sid].at = "verified"
        /\ session[sid].w = wire[sid].start
        /\ session' = [session EXCEPT ![sid].w = w, ![sid].paid = owed,
                                      ![sid].state = IF ended THEN "closed" ELSE @]
        /\ wire' = [wire EXCEPT ![sid].at = "answered", ![sid].w = w, ![sid].paid = owed,
                                ![sid].done = ended]
        /\ counted' = [counted EXCEPT ![sid[1]] = @ + Price * wire[sid].n]
        /\ UNCHANGED <<disk, cmd, run, kills, pc, outcome, planVars, readVars, writing>>

-----------------------------------------------------------------------------

Buyer ==
    \/ Authenticate \/ ResolveWallet \/ CheckBalance \/ AskFaucet \/ Recheck
    \/ SkipSection \/ SelectSection \/ Finish
    \/ LoadTorn \/ Reuse \/ RecordStarted \/ WriteDone \/ WriteFails
    \/ OpenSession \/ StopReading \/ SignFails \/ Send \/ Receive \/ GiveUp
    \/ AbortSession \/ Returned \/ Verify \/ Bought

Next ==
    \/ Start \/ Buyer \/ Kill
    \/ \E sid \in Sids : Admit(sid) \/ Refuse(sid) \/ Commit(sid)

Spec == Init /\ [][Next]_vars

\* The client's promises settle, if only by its own timeouts; the gateway owes nothing.
Fairness == WF_vars(Buyer)

-----------------------------------------------------------------------------
(* What a buyer may rely on.                                               *)

Labels   == {"idle", "fund", "wallet", "balance", "faucet", "recheck", "recheck_limited",
             "select", "load", "write", "open", "loop", "await", "abort", "returned",
             "verify", "bought"}
Advice   == {"network_unavailable", "otp_expired", "terms_not_accepted", "not_logged_in",
             "missing_cli", "command_failed", "profile_mismatch", "deposit_required",
             "rate_limited"}
Outcomes == {"none", "nothing", "too_low", "failed", "ambiguous", "invariant", "too_small",
             "success", "killed"} \cup Advice
Stops    == {"none", "max_words", "budget_reached", "stop_condition", "aborted",
             "article_completed"}
Ops      == [status : {"none", "torn", "started", "ambiguous", "completed"},
             attempts : Nat, by : Runs \cup {0}, amount : Nat]
Receipts == [status : {"none", "torn", "saved"}, paid : Nat, words : Nat]
Writes   == [what : {"none", "op", "receipt"}, op : Ops, receipt : Receipts,
             next : Labels, ends : Outcomes]
Rows     == [state : {"none", "open", "closed"}, cap : Nat, w : Nat, paid : Nat]
Messages == [at : {"none", "sent", "verified", "answered", "refused"}, max : Int,
             start : Nat, n : Nat, w : Nat, paid : Nat, done : BOOLEAN]

TypeOK ==
    /\ ops \in [Targets -> Ops]
    /\ receipts \in [Sids -> Receipts]
    /\ cmd \in Commands
    /\ run \in 0 .. MaxRuns
    /\ kills \in 0 .. MaxKills
    /\ pc \in Labels
    /\ outcome \in Outcomes
    /\ ranked \in Seq(Plans)
    /\ at \in Nat
    /\ spent \in Nat
    /\ bought \in BOOLEAN
    /\ visited \subseteq Targets
    /\ limit \in Nat /\ cap \in Nat /\ words \in Nat /\ paid \in Nat
    /\ stop \in Stops
    /\ writing \in Writes
    /\ session \in [Sids -> Rows]
    /\ wire \in [Sids -> Messages]
    /\ counted \in [Runs -> Nat]

\* The cap is cumulative within a run: what the gateway charged in a run's sessions,
\* chunks the client gave up on included, and the receipts it reused stay within it.
CapHoldsPerRun == \A k \in Runs : counted[k] <= Budget

\* A completed operation is backed by a stored receipt that says what the gateway's
\* ledger says, now and later: no late chunk is charged to a session with a receipt.
ReceiptIsLedger ==
    \A s \in Targets : ops[s].status = "completed" =>
        LET sid == <<ops[s].by, s>> IN
        /\ receipts[sid] = [status |-> "saved", paid |-> session[sid].paid,
                            words |-> session[sid].w]
        /\ ops[s].amount = session[sid].paid

\* Money never moves without a trace on this machine: a session that charged is the
\* one of the completed operation, or the record says that an attempt is unresolved,
\* or that there was more than one.
ChargesAreTraced ==
    \A sid \in Sids : session[sid].paid > 0 =>
        \/ ops[sid[2]].status \in {"torn", "started", "ambiguous"}
        \/ ops[sid[2]].attempts >= 2
        \/ ops[sid[2]].status = "completed" /\ ops[sid[2]].by = sid[1]

\* A purchase that completed is not made again: its record never changes, and no run
\* opens another session for its section, whatever later runs plan, fail at or are
\* killed in.
PaidOnce ==
    [][\A s \in Targets : ops[s].status = "completed" =>
          /\ ops'[s] = ops[s]
          /\ \A k \in Runs : session[<<k, s>>].state = "none"
                                 => session'[<<k, s>>].state = "none"]_vars

\* Every run ends, also when the gateway never answers: the client's timeouts see to it.
RunEnds == pc # "idle" ~> pc = "idle"

=============================================================================

---------------------------- MODULE PaidReading ----------------------------
(***************************************************************************)
(* One reading session of the gateway: the HTTP handlers that read, meter, *)
(* close and retry it, and the ledger that stores it.  Handlers are        *)
(* JavaScript async functions, so each handler is a request with a program *)
(* counter and every action below is the code between two awaits.          *)
(*                                                                         *)
(* The ledger has two implementations.  The Postgres one hands every       *)
(* handler its own copy of the session row, runs recordBundle as a         *)
(* transaction under the row lock, and has uniqueness constraints.  The    *)
(* in-memory one hands every handler the same live object, records in one  *)
(* synchronous step, and returns the counters of the original commit when  *)
(* a key is found again.                                                   *)
(***************************************************************************)
EXTENDS Integers, Sequences

CONSTANTS
    Requests,    \* the HTTP requests that ever arrive
    Kinds,       \* the handlers they call: subset of AllKinds
    Keys,        \* idempotency keys a client sends
    NoKey,       \* the client sent none: the handler derives a key
    Wants,       \* values of maxWords a client asks for, after normalisation
    Words,       \* number of billable words in the selection
    Price,       \* wordPaymentAtomic: what one word costs the buyer
    Budget,      \* session.budget.maxAmountAtomic
    Access,      \* "paid" or "free"
    Adapter,     \* "postgres" or "memory"
    SettleInline,\* the verifier's synchronousSettlement option
    MaxCrashes   \* bound: restarts of the gateway process

AllKinds == {"stream", "word", "abort", "terms"}

ASSUME ConstantsAssumption ==
    /\ Kinds \subseteq AllKinds
    /\ Wants \subseteq Nat \ {0}
    /\ Words \in Nat
    /\ Price \in Nat
    /\ Budget \in Nat
    /\ Access \in {"paid", "free"}
    /\ Access = "free" => Price = 0
    /\ Adapter \in {"postgres", "memory"}
    /\ SettleInline \in BOOLEAN
    /\ MaxCrashes \in Nat

Terminal == {"completed", "aborted", "expired"}

VARIABLES
    db,       \* the stream_sessions row (the live session object in memory)
    bundles,  \* read_bundles of the session, in commit order
    ttlOver,  \* expiresAt has passed
    crashes,  \* restarts so far
    pc,       \* where each request is
    arg,      \* what each request asked for
    snap,     \* the handler's own copy of the session (Postgres)
    plan,     \* the handler's locals: key, first word, words authorised, words sliced
    got,      \* the ledger's answer: which bundle, duplicate or not, counters
    reply,    \* the response sent
    queued,   \* settlements handed to the queue by afterCommit, in order
    charged   \* authorisations settled on the request path, in order

dbVars  == <<db, bundles>>
reqVars == <<pc, arg, snap, plan, got, reply>>
vars    == <<db, bundles, ttlOver, crashes, pc, arg, snap, plan, got, reply,
             queued, charged>>

-----------------------------------------------------------------------------
(* Helpers of the ledger and of the metering arithmetic.                   *)

MinOf(a, b) == IF a <= b THEN a ELSE b

\* The session as the handler of r sees it.
Cur(r) == IF Adapter = "memory" THEN db ELSE snap[r]

\* Assign to the handler's session object.
SetCur(r, s) ==
    IF Adapter = "memory"
    THEN db' = s /\ UNCHANGED snap
    ELSE snap' = [snap EXCEPT ![r] = s] /\ UNCHANGED db

Span(b) == b.start .. (b.start + b.n - 1)

\* word_deliveries of the session.
Covered == UNION {Span(bundles[i]) : i \in DOMAIN bundles}

\* Variation: the amount already paid is forgotten.
Affordable_IgnoresPaid(paid) == IF Price = 0 THEN Words ELSE Budget \div Price

\* affordableWordCount; a word that costs nothing is always affordable.
Affordable(paid) ==
    IF Price = 0 THEN Words
    ELSE IF Budget - paid <= 0 THEN 0 ELSE (Budget - paid) \div Price

\* Variation: the last word is never counted.
Remaining_OffByOne(w) == IF Words - w >= 1 THEN Words - w - 1 ELSE 0

Remaining(w) == IF Words - w >= 0 THEN Words - w ELSE 0

\* The key the handler derives when the client sends none.
DefaultKey(kind, w, n) == IF kind = "word" THEN <<w>> ELSE <<w, n>>

KeyOf(r, w, n) ==
    IF arg[r].key = NoKey THEN DefaultKey(arg[r].kind, w, n) ELSE arg[r].key

BundlesWith(key) == {i \in DOMAIN bundles : bundles[i].key = key}

\* getDeliveryByIdempotencyKey: a word row carries the bundle's key only when
\* the bundle has one word; in memory the first word of a longer bundle has it too.
DeliveriesWith(key) ==
    {i \in BundlesWith(key) : Adapter = "memory" \/ bundles[i].n = 1}

\* What a ledger lookup returns beside the bundle: the current row, or the
\* counters remembered at commit time.
CountersOf(i) ==
    IF Adapter = "memory"
    THEN [w |-> bundles[i].w, paid |-> bundles[i].paid]
    ELSE [w |-> db.w, paid |-> db.paid]

Found(i, dup) ==
    [idx |-> i, dup |-> dup, w |-> CountersOf(i).w, paid |-> CountersOf(i).paid]

\* Variation: the words of the bundle are added to counters that already hold them.
Applied_AddsAgain(s, g) ==
    [s EXCEPT !.w = g.w + bundles[g.idx].n, !.paid = g.paid, !.seq = bundles[g.idx].seq + 1]

\* applyBundleCounters
Applied(s, g) ==
    [s EXCEPT !.w = g.w, !.paid = g.paid, !.seq = bundles[g.idx].seq + 1]

NoResult == [idx |-> 0, dup |-> FALSE, w |-> 0, paid |-> 0]
NoPlan   == [key |-> NoKey, start |-> 0, n |-> 0, m |-> 0]
NewSession == [state |-> "open", w |-> 0, paid |-> 0, seq |-> 0]

Goto(r, label) == pc' = [pc EXCEPT ![r] = label] /\ UNCHANGED reply
Answer(r, code) ==
    /\ pc' = [pc EXCEPT ![r] = "done"]
    /\ reply' = [reply EXCEPT ![r] = code]
\* The handler has decided its answer but must write the session first.
SaveThen(r, code) ==
    /\ pc' = [pc EXCEPT ![r] = "save"]
    /\ reply' = [reply EXCEPT ![r] = code]

-----------------------------------------------------------------------------
(* The handlers.                                                           *)

Init ==
    /\ db = NewSession
    /\ bundles = <<>>
    /\ ttlOver = FALSE
    /\ crashes = 0
    /\ pc = [r \in Requests |-> "idle"]
    /\ arg = [r \in Requests |-> [kind |-> "none", key |-> NoKey, want |-> 0]]
    /\ snap = [r \in Requests |-> NewSession]
    /\ plan = [r \in Requests |-> NoPlan]
    /\ got = [r \in Requests |-> NoResult]
    /\ reply = [r \in Requests |-> "none"]
    /\ queued = <<>>
    /\ charged = <<>>

\* A request arrives and its handler loads the session.  The word route and the
\* free word route fix the sequence number, and with it the key, at once.
Request(r, kind, key, want) ==
    /\ pc[r] = "idle"
    /\ arg' = [arg EXCEPT ![r] = [kind |-> kind, key |-> key, want |-> want]]
    /\ plan' = [plan EXCEPT ![r] =
                 [key   |-> IF kind = "word" /\ key = NoKey
                            THEN DefaultKey(kind, db.w, 1) ELSE key,
                  start |-> IF kind = "word" THEN db.w ELSE 0,
                  n     |-> 0,
                  m     |-> 0]]
    /\ snap' = [snap EXCEPT ![r] = db]
    /\ Goto(r, CASE kind = "abort" -> "abort"
                 [] kind = "terms" -> "guard"
                 [] OTHER -> "lookup")
    /\ UNCHANGED <<db, bundles, ttlOver, crashes, got, queued, charged>>

\* Only the two reading routes take a key, only the stream route a number of words.
Arrive(r) ==
    \E kind \in Kinds, key \in Keys \cup {NoKey}, want \in Wants :
        /\ kind \in {"abort", "terms"} => key = NoKey
        /\ kind # "stream" => \A v \in Wants : want <= v
        /\ Request(r, kind, key, want)

\* Retries are answered from the ledger before any guard.  The stream route
\* looks for a bundle and refreshes its counters from it, the word route looks
\* for a delivered word and does not.
LookupHit(r) ==
    /\ pc[r] = "lookup"
    /\ plan[r].key # NoKey
    /\ \/ /\ arg[r].kind = "stream"
          /\ \E i \in BundlesWith(plan[r].key) :
                /\ got' = [got EXCEPT ![r] = Found(i, TRUE)]
                /\ SetCur(r, Applied(Cur(r), Found(i, TRUE)))
       \/ /\ arg[r].kind = "word"
          /\ \E i \in DeliveriesWith(plan[r].key) :
                got' = [got EXCEPT ![r] = Found(i, TRUE)]
          /\ UNCHANGED <<db, snap>>
    /\ Answer(r, "replay")
    /\ UNCHANGED <<bundles, ttlOver, crashes, arg, plan, queued, charged>>

LookupMiss(r) ==
    /\ pc[r] = "lookup"
    /\ plan[r].key # NoKey =>
          IF arg[r].kind = "stream" THEN BundlesWith(plan[r].key) = {}
                                    ELSE DeliveriesWith(plan[r].key) = {}
    /\ Goto(r, "guard")
    /\ UNCHANGED <<db, bundles, ttlOver, crashes, arg, snap, plan, got,
                   queued, charged>>

\* A terminal session refuses; an expired one is marked so and saved.
GuardTerminal(r) ==
    /\ pc[r] = "guard"
    /\ Cur(r).state \in Terminal
    /\ Answer(r, "refused")
    /\ UNCHANGED <<db, bundles, ttlOver, crashes, arg, snap, plan, got,
                   queued, charged>>

GuardExpired(r) ==
    /\ pc[r] = "guard"
    /\ Cur(r).state \notin Terminal
    /\ ttlOver
    /\ SetCur(r, [Cur(r) EXCEPT !.state = "expired"])
    /\ SaveThen(r, "expired")
    /\ UNCHANGED <<bundles, ttlOver, crashes, arg, plan, got, queued, charged>>

\* The free stream route derives its key here, before the article is resolved;
\* GET /payments answers with the terms.
GuardPass(r) ==
    /\ pc[r] = "guard"
    /\ Cur(r).state \notin Terminal
    /\ ~ttlOver
    /\ IF arg[r].kind = "terms" THEN Answer(r, "terms") ELSE Goto(r, "plan")
    /\ plan' = IF arg[r].kind = "stream" /\ Access = "free"
               THEN [plan EXCEPT ![r] = [@ EXCEPT !.key = KeyOf(r, Cur(r).w, arg[r].want)]]
               ELSE plan
    /\ UNCHANGED <<db, bundles, ttlOver, crashes, arg, snap, got, queued, charged>>

\* Nothing is left to read: PaidReadingWorkflow.complete.
Complete(r, code) ==
    /\ SetCur(r, [Cur(r) EXCEPT !.state = "completed"])
    /\ SaveThen(r, code)

\* The next word is not affordable: PaidReadingWorkflow.close("budget_exhausted").
CloseBudget(r) ==
    /\ SetCur(r, [Cur(r) EXCEPT !.state = "expired"])
    /\ SaveThen(r, "budget")

\* resolveStreamState finds no article: it was deleted after the session opened
\* and the handler does not hold it in streamStates.
Unavailable(r) ==
    /\ pc[r] = "plan"
    /\ Answer(r, "unavailable")
    /\ UNCHANGED <<db, bundles, ttlOver, crashes, arg, snap, plan, got,
                   queued, charged>>

\* POST /stream, paid: how many words this request may authorise.
Authorised(r) ==
    MinOf(MinOf(arg[r].want, Affordable(Cur(r).paid)), Remaining(Cur(r).w))

PlanStream(r) ==
    /\ pc[r] = "plan"
    /\ arg[r].kind = "stream"
    /\ Access = "paid"
    /\ \/ /\ Authorised(r) < 1
          /\ \/ Remaining(Cur(r).w) < 1 /\ Complete(r, "finished")
             \/ Remaining(Cur(r).w) >= 1 /\ CloseBudget(r)
          /\ UNCHANGED plan
       \/ /\ Authorised(r) >= 1
          /\ plan' = [plan EXCEPT ![r] = [@ EXCEPT
                        !.key = KeyOf(r, Cur(r).w, Authorised(r)), !.n = Authorised(r)]]
          /\ Goto(r, "recheck")
          /\ UNCHANGED <<db, snap>>
    /\ UNCHANGED <<bundles, ttlOver, crashes, arg, got, queued, charged>>

\* POST /payments, paid: exactly the word fixed when the request arrived.
PlanWord(r) ==
    /\ pc[r] = "plan"
    /\ arg[r].kind = "word"
    /\ Access = "paid"
    /\ \/ /\ plan[r].start >= Words
          /\ Complete(r, "finished")
          /\ UNCHANGED plan
       \/ /\ plan[r].start < Words
          /\ Cur(r).paid + Price > Budget
          /\ CloseBudget(r)
          /\ UNCHANGED plan
       \/ /\ plan[r].start < Words
          /\ Cur(r).paid + Price <= Budget
          /\ plan' = [plan EXCEPT ![r] = [@ EXCEPT !.n = 1]]
          /\ Goto(r, "verify")
          /\ UNCHANGED <<db, snap>>
    /\ UNCHANGED <<bundles, ttlOver, crashes, arg, got, queued, charged>>

\* releaseFreeChunk: both free routes.  No payment, no budget.
FreeWords(r) ==
    MinOf(IF arg[r].kind = "word" THEN 1 ELSE arg[r].want, Remaining(Cur(r).w))

PlanFree(r) ==
    /\ pc[r] = "plan"
    /\ Access = "free"
    /\ plan' = [plan EXCEPT ![r] = [@ EXCEPT !.start = Cur(r).w, !.n = FreeWords(r)]]
    /\ Goto(r, "recheck")
    /\ UNCHANGED <<db, bundles, ttlOver, crashes, arg, snap, got, queued, charged>>

\* The second idempotency lookup, with the final key.
RecheckHit(r) ==
    /\ pc[r] = "recheck"
    /\ \E i \in BundlesWith(plan[r].key) :
          /\ got' = [got EXCEPT ![r] = Found(i, TRUE)]
          /\ SetCur(r, Applied(Cur(r), Found(i, TRUE)))
    /\ Answer(r, "replay")
    /\ UNCHANGED <<bundles, ttlOver, crashes, arg, plan, queued, charged>>

\* Variation: a request that carries a key of its own skips the provider.
RecheckMiss_SkipsVerify(r) ==
    /\ pc[r] = "recheck"
    /\ BundlesWith(plan[r].key) = {}
    /\ Goto(r, IF arg[r].key # NoKey THEN "record" ELSE "verify")
    /\ UNCHANGED <<db, bundles, ttlOver, crashes, arg, snap, plan, got,
                   queued, charged>>

RecheckMiss(r) ==
    /\ pc[r] = "recheck"
    /\ BundlesWith(plan[r].key) = {}
    /\ IF Access = "free"
       THEN IF plan[r].n = 0 THEN Answer(r, "finished") ELSE Goto(r, "record")
       ELSE Goto(r, "verify")
    /\ UNCHANGED <<db, bundles, ttlOver, crashes, arg, snap, plan, got,
                   queued, charged>>

\* paymentVerifier.verify: the provider accepts or refuses the authorisation
\* (forged, unfunded, wrong amount, session halted).  With synchronousSettlement
\* accepting it moves the money.
VerifyReject(r) ==
    /\ pc[r] = "verify"
    /\ Answer(r, "rejected")
    /\ UNCHANGED <<db, bundles, ttlOver, crashes, arg, snap, plan, got,
                   queued, charged>>

VerifyAccept(r) ==
    /\ pc[r] = "verify"
    /\ Goto(r, "record")
    /\ charged' = IF SettleInline
                  THEN Append(charged, [req |-> r, amount |-> Price * plan[r].n])
                  ELSE charged
    /\ UNCHANGED <<db, bundles, ttlOver, crashes, arg, snap, plan, got, queued>>

-----------------------------------------------------------------------------
(* recordBundle.                                                           *)

\* Variation: recordBundle trusts the handler's earlier lookup.
RecordFinds_Never(key) == {}

\* The duplicate lookup recordBundle starts with.
RecordFinds(key) == BundlesWith(key)

\* The range the handler composes from its session: the stream route slices
\* from the session's counter as it is after verification, the other routes
\* from the sequence they fixed before it.
ComposedStart(r) ==
    IF Access = "paid" /\ arg[r].kind = "stream" THEN Cur(r).w ELSE plan[r].start

ComposedWords(r) == MinOf(plan[r].n, Remaining(ComposedStart(r)))

Compose(r) ==
    plan' = [plan EXCEPT ![r] =
               [@ EXCEPT !.start = ComposedStart(r), !.m = ComposedWords(r)]]

NewBundle(r, start, m, seq) ==
    [key |-> plan[r].key, seq |-> seq, start |-> start, n |-> m,
     gross |-> Price * m, w |-> db.w + m, paid |-> db.paid + Price * m]

\* The insert and the counter update of a bundle, atomically.
Insert(r, start, m, seq) ==
    /\ bundles' = Append(bundles, NewBundle(r, start, m, seq))
    /\ db' = [db EXCEPT !.w = @ + m, !.paid = @ + Price * m, !.seq = seq + 1]
    /\ got' = [got EXCEPT ![r] =
                [idx |-> Len(bundles) + 1, dup |-> FALSE,
                 w |-> db.w + m, paid |-> db.paid + Price * m]]

\* In memory: key check, range checks and insert run without an await.
RecordMemory(r) ==
    LET start == ComposedStart(r)
        m     == ComposedWords(r)
    IN  /\ pc[r] = "record"
        /\ Adapter = "memory"
        /\ Compose(r)
        /\ \/ /\ \E i \in RecordFinds(plan[r].key) :
                    got' = [got EXCEPT ![r] = Found(i, TRUE)]
              /\ Goto(r, "return")
              /\ UNCHANGED <<db, bundles>>
           \/ /\ RecordFinds(plan[r].key) = {}
              /\ m < 1 \/ db.w # start
              /\ Answer(r, "conflict")
              /\ UNCHANGED <<db, bundles, got>>
           \/ /\ RecordFinds(plan[r].key) = {}
              /\ m >= 1
              /\ db.w = start
              /\ Insert(r, start, m, db.seq)
              /\ Goto(r, "return")
        /\ UNCHANGED <<ttlOver, crashes, arg, snap, queued, charged>>

\* Postgres: the key lookup runs before the row lock is taken.
RecordDedup(r) ==
    LET m == ComposedWords(r)
    IN  /\ pc[r] = "record"
        /\ Adapter = "postgres"
        /\ Compose(r)
        /\ \/ /\ m < 1
              /\ Answer(r, "conflict")
              /\ UNCHANGED got
           \/ /\ m >= 1
              /\ \E i \in RecordFinds(plan[r].key) :
                    got' = [got EXCEPT ![r] = Found(i, TRUE)]
              /\ Goto(r, "return")
           \/ /\ m >= 1
              /\ RecordFinds(plan[r].key) = {}
              /\ Goto(r, "commit")
              /\ UNCHANGED got
        /\ UNCHANGED <<db, bundles, ttlOver, crashes, arg, snap, queued, charged>>

\* Variation: only the key is unique, nothing ties a bundle to its place.
Violates_KeyOnly(key, seq, start, m) == BundlesWith(key) # {}

\* What the unique indexes refuse: the bundle key, the (session, bundle
\* sequence) pair, the (session, word sequence) pair.
Violates(key, seq, start, m) ==
    \/ BundlesWith(key) # {}
    \/ \E i \in DOMAIN bundles : bundles[i].seq = seq
    \/ (start .. (start + m - 1)) \cap Covered # {}

\* Variation: a conflict starts the transaction over, on the same copy of the session.
CommitConflict_StartsOver(r) ==
    /\ pc[r] = "commit"
    /\ db.w # plan[r].start
    /\ Goto(r, "record")
    /\ UNCHANGED <<db, bundles, ttlOver, crashes, arg, snap, plan, got,
                   queued, charged>>

\* Under the row lock: the starting sequence must match the row.
CommitConflict(r) ==
    /\ pc[r] = "commit"
    /\ db.w # plan[r].start
    /\ Answer(r, "conflict")
    /\ UNCHANGED <<db, bundles, ttlOver, crashes, arg, snap, plan, got,
                   queued, charged>>

\* A constraint refused the insert: roll back, then look for the key again.
CommitRefused(r) ==
    /\ pc[r] = "commit"
    /\ db.w = plan[r].start
    /\ Violates(plan[r].key, snap[r].seq, plan[r].start, plan[r].m)
    /\ \/ /\ \E i \in BundlesWith(plan[r].key) :
                got' = [got EXCEPT ![r] = Found(i, TRUE)]
          /\ Goto(r, "return")
       \/ /\ BundlesWith(plan[r].key) = {}
          /\ Answer(r, "conflict")
          /\ UNCHANGED got
    /\ UNCHANGED <<db, bundles, ttlOver, crashes, arg, snap, plan, queued, charged>>

Commit(r) ==
    /\ pc[r] = "commit"
    /\ db.w = plan[r].start
    /\ ~Violates(plan[r].key, snap[r].seq, plan[r].start, plan[r].m)
    /\ Insert(r, plan[r].start, plan[r].m, snap[r].seq)
    /\ Goto(r, "return")
    /\ UNCHANGED <<ttlOver, crashes, arg, snap, plan, queued, charged>>

-----------------------------------------------------------------------------
(* After the ledger answered.                                              *)

\* Variation: duplicates are handed off too.
HandOff_Duplicates(r) ==
    queued' = IF Access = "paid" /\ ~SettleInline
              THEN Append(queued, [start |-> plan[r].start, n |-> plan[r].m,
                                   amount |-> Price * plan[r].n])
              ELSE queued

\* Variation: the handler returns early when the article is finished.
HandOff_NotLast(r) ==
    queued' = IF Access = "paid" /\ ~SettleInline /\ ~got[r].dup
                 /\ plan[r].start + plan[r].m < Words
              THEN Append(queued, [start |-> plan[r].start, n |-> plan[r].m,
                                   amount |-> Price * plan[r].n])
              ELSE queued

\* afterCommit: hand the authorisation to the settlement queue, unless the
\* bundle was a duplicate.
HandOff(r) ==
    queued' = IF Access = "paid" /\ ~SettleInline /\ ~got[r].dup
              THEN Append(queued, [start |-> plan[r].start, n |-> plan[r].m,
                                   amount |-> Price * plan[r].n])
              ELSE queued

\* The paid word route answers a duplicate from the winner's bundle and stops.
Return(r) ==
    LET s       == Applied(Cur(r), got[r])
        replays == Access = "paid" /\ arg[r].kind = "word" /\ got[r].dup
        ends    == ~replays /\ s.w >= Words
    IN  /\ pc[r] = "return"
        /\ SetCur(r, IF ends THEN [s EXCEPT !.state = "completed"] ELSE s)
        /\ HandOff(r)
        /\ \/ replays /\ Answer(r, "replay")
           \/ ends /\ SaveThen(r, "words")
           \/ ~replays /\ ~ends /\ Answer(r, "words")
        /\ UNCHANGED <<bundles, ttlOver, crashes, arg, plan, got, charged>>

\* Variation: abort writes a state the rest of the gateway does not know.
Abort_Cancelled(r) ==
    /\ pc[r] = "abort"
    /\ SetCur(r, [Cur(r) EXCEPT !.state = "cancelled"])
    /\ SaveThen(r, "aborted")
    /\ UNCHANGED <<bundles, ttlOver, crashes, arg, plan, got, queued, charged>>

\* POST /abort: no state guard, whatever the session's state is.  The client's
\* reason decides which terminal state is written.
Abort(r) ==
    /\ pc[r] = "abort"
    /\ \E state \in {"aborted", "expired"} :
          SetCur(r, [Cur(r) EXCEPT !.state = state])
    /\ SaveThen(r, "aborted")
    /\ UNCHANGED <<bundles, ttlOver, crashes, arg, plan, got, queued, charged>>

\* saveSession: the Postgres row takes every counter of the handler's copy; in
\* memory the object is already the stored one.
Save(r) ==
    /\ pc[r] = "save"
    /\ pc' = [pc EXCEPT ![r] = "done"]
    /\ db' = Cur(r)
    /\ UNCHANGED <<bundles, ttlOver, crashes, arg, snap, plan, got, reply,
                   queued, charged>>

Expire ==
    /\ ~ttlOver
    /\ ttlOver' = TRUE
    /\ UNCHANGED <<db, bundles, crashes, reqVars, queued, charged>>

\* The gateway process dies: every handler in flight is gone, the Postgres rows
\* stay.  (In-memory state dies with its process, so there is nothing to model.)
Crash ==
    /\ Adapter = "postgres"
    /\ crashes < MaxCrashes
    /\ crashes' = crashes + 1
    /\ pc' = [r \in Requests |-> IF pc[r] \in {"idle", "done"} THEN pc[r] ELSE "lost"]
    /\ UNCHANGED <<db, bundles, ttlOver, arg, snap, plan, got, reply, queued, charged>>

Step(r) ==
    \/ LookupHit(r) \/ LookupMiss(r)
    \/ GuardTerminal(r) \/ GuardExpired(r) \/ GuardPass(r)
    \/ Unavailable(r) \/ PlanStream(r) \/ PlanWord(r) \/ PlanFree(r)
    \/ RecheckHit(r) \/ RecheckMiss(r)
    \/ VerifyReject(r) \/ VerifyAccept(r)
    \/ RecordMemory(r) \/ RecordDedup(r)
    \/ CommitConflict(r) \/ CommitRefused(r) \/ Commit(r)
    \/ Return(r) \/ Abort(r) \/ Save(r)

Next ==
    \/ \E r \in Requests : Arrive(r) \/ Step(r)
    \/ Expire
    \/ Crash

Spec == Init /\ [][Next]_vars

\* Every promise a handler awaits settles and its continuation is scheduled.
Fairness == \A r \in Requests : WF_vars(Step(r))

-----------------------------------------------------------------------------
(* What the sessions of the gateway keep true.                             *)

States   == {"open"} \cup Terminal
KeySet   == Keys \cup {NoKey} \cup Seq(Nat)
SessionRows == [state : States, w : Nat, paid : Nat, seq : Nat]
Bundles  == [key : KeySet, seq : Nat, start : Nat, n : Nat, gross : Nat,
             w : Nat, paid : Nat]
Args     == [kind : AllKinds \cup {"none"}, key : Keys \cup {NoKey}, want : Nat]
Plans    == [key : KeySet, start : Nat, n : Nat, m : Nat]
Results  == [idx : Nat, dup : BOOLEAN, w : Nat, paid : Nat]
Ranges   == [start : Nat, n : Nat, amount : Nat]
Charges  == [req : Requests, amount : Nat]
Labels   == {"idle", "lookup", "guard", "plan", "recheck", "verify", "record",
             "commit", "return", "abort", "save", "done", "lost"}
Replies  == {"none", "replay", "refused", "expired", "terms", "unavailable",
             "finished", "budget", "rejected", "conflict", "words", "aborted"}

\* A handler that returns from the ledger holds an answer that names a bundle.
TypeOK ==
    /\ db \in SessionRows
    /\ bundles \in Seq(Bundles)
    /\ ttlOver \in BOOLEAN
    /\ crashes \in 0 .. MaxCrashes
    /\ pc \in [Requests -> Labels]
    /\ arg \in [Requests -> Args]
    /\ snap \in [Requests -> SessionRows]
    /\ plan \in [Requests -> Plans]
    /\ got \in [Requests -> Results]
    /\ reply \in [Requests -> Replies]
    /\ queued \in Seq(Ranges)
    /\ charged \in Seq(Charges)
    /\ \A r \in Requests : pc[r] = "return" => got[r].idx \in DOMAIN bundles

\* One past the last word the ledger holds.
Frontier ==
    IF bundles = <<>> THEN 0
    ELSE bundles[Len(bundles)].start + bundles[Len(bundles)].n

\* The committed ranges follow one another from word 0 without gap or overlap and
\* stay inside the article, whatever stale copies of the session concurrent
\* handlers write back: no word is delivered, or charged, twice.
LedgerTiles ==
    /\ \A i \in DOMAIN bundles :
         /\ bundles[i].n >= 1
         /\ bundles[i].start =
              IF i = 1 THEN 0 ELSE bundles[i - 1].start + bundles[i - 1].n
    /\ Frontier <= Words

\* Everything ever charged in the session stays within the buyer's budget, and a
\* bundle charges the word price for each word of its range and for no other.
WithinBudget ==
    /\ \A i \in DOMAIN bundles : bundles[i].gross = Price * bundles[i].n
    /\ Access = "paid" => Price * Frontier <= Budget

\* With settlement on the request path, words enter the ledger only against money that
\* was charged before: each bundle has a charge of its own that covers it, so the charges
\* cover the bundles at every moment.
ChargedBeforeRelease ==
    SettleInline /\ Access = "paid" =>
        \E pays \in [DOMAIN bundles -> DOMAIN charged] :
            /\ \A i, j \in DOMAIN bundles : pays[i] = pays[j] => i = j
            /\ \A i \in DOMAIN bundles : bundles[i].gross <= charged[pays[i]].amount

\* A session is marked completed only when the ledger holds every word: no save of
\* a stale copy and no replay makes an unfinished reading look finished.
CompletedMeansAllRead == db.state = "completed" => Covered = 0 .. (Words - 1)

\* An idempotency key never commits two bundles, however its retries interleave.
OneBundlePerKey ==
    \A i, j \in DOMAIN bundles : bundles[i].key = bundles[j].key => i = j

\* Every request that arrived is answered while the process lives: no handler waits
\* for another one for ever.
Answered == \A r \in Requests : pc[r] # "idle" ~> pc[r] = "done"

\* Every paid bundle reaches the settlement queue, unless the process dies first: the
\* words are already with the buyer, so a bundle that is not handed off is lost income.
EveryBundleBilled ==
    \A i \in 1 .. Words : Len(bundles) >= i ~> Len(queued) >= i

-----------------------------------------------------------------------------
(* The abstract promise, and how the ledger keeps it.                      *)

Handoff(i) == [start |-> bundles[i].start, n |-> bundles[i].n,
               amount |-> bundles[i].gross]

\* What is sold and spent is what the last commit answered to its client.
Promise == INSTANCE MeteredReading WITH
    Metered <- Access = "paid",
    sold    <- IF bundles = <<>> THEN 0 ELSE bundles[Len(bundles)].w,
    spent   <- IF bundles = <<>> THEN 0 ELSE bundles[Len(bundles)].paid,
    open    <- {Handoff(i) : i \in DOMAIN bundles} \ {queued[j] : j \in DOMAIN queued},
    billed  <- queued

\* Every interleaving of handlers, retries, stale saves and restarts sells the article
\* in order, at the word price, within the budget, and bills each range at most once.
KeepsPromise == Promise!Spec

\* The settlement queue receives committed bundles, each once and at its price: no
\* retry, lost race or shortened slice makes it settle another amount or range.
HandoffsAreBundles ==
    /\ \A j \in DOMAIN queued : \E i \in DOMAIN bundles : queued[j] = Handoff(i)
    /\ \A j, k \in DOMAIN queued : queued[j] = queued[k] => j = k

-----------------------------------------------------------------------------
(* The inductive invariant behind the safety properties of the Postgres    *)
(* ledger.  It says what a handler's stale copy can still be trusted for.  *)

\* Counters of one copy of the session agree with each other and never run ahead of
\* the ledger; they may lag behind it.
Honest(c) == c.w <= Frontier /\ c.paid = Price * c.w

LedgerInv ==
    /\ LedgerTiles
    /\ WithinBudget
    /\ Covered = 0 .. (Frontier - 1)
    /\ \A i, j \in DOMAIN bundles : i < j => bundles[i].start + bundles[i].n <= bundles[j].start

CountersInv ==
    /\ Honest(db)
    /\ \A r \in Requests : Honest(snap[r]) /\ Honest(got[r])

\* What a request in flight may rely on until it commits.
Planned == {"recheck", "verify", "record", "commit"}

PlanOK(r) ==
    /\ /\ pc[r] \in {"lookup", "guard", "plan"} \cup Planned
       /\ arg[r].kind = "word"
       /\ Access = "paid"
       => plan[r].start = snap[r].w
    /\ pc[r] \in Planned =>
         /\ snap[r].w + plan[r].n <= Words
         /\ Access = "free" => plan[r].start = snap[r].w
         /\ Access = "paid" => /\ arg[r].kind \in {"stream", "word"}
                              /\ plan[r].n >= 1
                              /\ Price * (snap[r].w + plan[r].n) <= Budget
    /\ pc[r] = "commit" =>
         plan[r].start = snap[r].w /\ plan[r].m = plan[r].n /\ plan[r].m >= 1

PlanInv == \A r \in Requests : PlanOK(r)

\* A bundle between its commit and its handoff belongs to one request, which has not
\* handed it off yet.
Awaiting(r) == pc[r] = "return" /\ ~got[r].dup

AwaitingOK(r) ==
    Awaiting(r) =>
        /\ plan[r].m = plan[r].n
        /\ bundles[got[r].idx].start = plan[r].start
        /\ bundles[got[r].idx].n = plan[r].m
        /\ \A j \in DOMAIN queued : queued[j] # Handoff(got[r].idx)

HandoffInv ==
    /\ \A r \in Requests : AwaitingOK(r)
    /\ \A q, r \in Requests :
          Awaiting(q) /\ Awaiting(r) /\ got[q].idx = got[r].idx => q = r

\* A copy about to be saved as completed has read the whole article.
CompletionInv ==
    /\ db.state = "completed" => Frontier = Words
    /\ \A r \in Requests :
         pc[r] = "save" /\ snap[r].state = "completed" => snap[r].w >= Words

LedgerStrong ==
    LedgerInv /\ CountersInv /\ PlanInv /\ HandoffInv /\ HandoffsAreBundles
    /\ CompletionInv
=============================================================================

------------------------- MODULE PaidReadingProofs -------------------------
(***************************************************************************)
(* Proofs about one reading session.  For both ledgers: types, and one     *)
(* bundle for each idempotency key.  For the Postgres one: safety under    *)
(* any number of concurrent requests, retries, stale saves and restarts.   *)
(* The strengthening LedgerStrong says what a handler's stale copy of the  *)
(* session is still good for: it never runs ahead of the ledger, so a      *)
(* commit that passes the row check and the unique indexes starts exactly  *)
(* where the ledger ends.                                                  *)
(***************************************************************************)
EXTENDS PaidReading, TLAPS

-----------------------------------------------------------------------------
(* What the helpers return.                                                *)

LEMMA AffordableNat ==
    ASSUME NEW paid \in Nat
    PROVE  Affordable(paid) \in Nat
<1>1. Words \in Nat /\ Price \in Nat /\ Budget \in Nat
  BY ConstantsAssumption DEF ConstantsAssumption
<1>2. CASE Price = 0
  BY <1>1, <1>2 DEF Affordable
<1>3. CASE Price # 0
  BY <1>1, <1>3 DEF Affordable
<1>4. QED
  BY <1>2, <1>3

LEMMA RemainingNat ==
    ASSUME NEW w \in Nat
    PROVE  Remaining(w) \in Nat /\ (w <= Words => Remaining(w) = Words - w)
BY ConstantsAssumption DEF ConstantsAssumption, Remaining

LEMMA AuthorisedFacts ==
    ASSUME TypeOK, NEW r \in Requests
    PROVE  /\ Authorised(r) \in Nat
           /\ Authorised(r) <= Affordable(Cur(r).paid)
           /\ Authorised(r) <= Remaining(Cur(r).w)
<1>1. arg[r].want \in Nat /\ Affordable(Cur(r).paid) \in Nat /\ Remaining(Cur(r).w) \in Nat
  BY AffordableNat, RemainingNat DEF TypeOK, Args, SessionRows, Cur
<1>2. QED
  BY <1>1 DEF Authorised, MinOf

LEMMA FreeWordsFacts ==
    ASSUME TypeOK, NEW r \in Requests
    PROVE  FreeWords(r) \in Nat /\ FreeWords(r) <= Remaining(Cur(r).w)
<1>1. arg[r].want \in Nat /\ Remaining(Cur(r).w) \in Nat
  BY RemainingNat DEF TypeOK, Args, SessionRows, Cur
<1>2. QED
  BY <1>1 DEF FreeWords, MinOf

LEMMA ComposedFacts ==
    ASSUME TypeOK, NEW r \in Requests
    PROVE  /\ ComposedStart(r) \in Nat
           /\ ComposedWords(r) \in Nat
           /\ ComposedWords(r) <= plan[r].n
           /\ plan[r].n <= Remaining(ComposedStart(r)) => ComposedWords(r) = plan[r].n
<1>1. Cur(r).w \in Nat /\ plan[r].start \in Nat /\ plan[r].n \in Nat
  BY DEF TypeOK, Cur, SessionRows, Plans
<1>2. ComposedStart(r) \in Nat
  BY <1>1 DEF ComposedStart
<1>3. Remaining(ComposedStart(r)) \in Nat
  BY <1>2, RemainingNat
<1>4. QED
  BY <1>1, <1>2, <1>3 DEF ComposedWords, MinOf

LEMMA DefaultKeyIsKey ==
    ASSUME NEW kind, NEW w \in Nat, NEW n \in Nat
    PROVE  DefaultKey(kind, w, n) \in KeySet
<1>1. <<w>> \in Seq(Nat) /\ <<w, n>> \in Seq(Nat)
  OBVIOUS
<1>2. QED
  BY <1>1 DEF DefaultKey, KeySet

LEMMA KeyOfIsKey ==
    ASSUME TypeOK, NEW r \in Requests, NEW w \in Nat, NEW n \in Nat
    PROVE  KeyOf(r, w, n) \in KeySet
<1>1. arg[r].key \in Keys \cup {NoKey}
  BY DEF TypeOK, Args
<1>2. QED
  BY <1>1, DefaultKeyIsKey DEF KeyOf, KeySet

LEMMA CurIsSession ==
    ASSUME TypeOK, NEW r \in Requests
    PROVE  Cur(r) \in SessionRows
BY DEF TypeOK, Cur

LEMMA SetCurType ==
    ASSUME TypeOK, NEW r \in Requests, NEW s \in SessionRows, SetCur(r, s)
    PROVE  db' \in SessionRows /\ snap' \in [Requests -> SessionRows]
BY DEF TypeOK, SetCur

LEMMA FoundIsResult ==
    ASSUME TypeOK, NEW i \in DOMAIN bundles, NEW dup \in BOOLEAN
    PROVE  Found(i, dup) \in Results /\ Found(i, dup).idx = i
<1>1. bundles[i] \in Bundles /\ i \in Nat
  BY DEF TypeOK
<1>2. QED
  BY <1>1 DEF TypeOK, Found, CountersOf, Results, Bundles, SessionRows

LEMMA AppliedIsSession ==
    ASSUME TypeOK, NEW s \in SessionRows, NEW g \in Results, g.idx \in DOMAIN bundles
    PROVE  Applied(s, g) \in SessionRows
<1>1. bundles[g.idx] \in Bundles
  BY DEF TypeOK
<1>2. bundles[g.idx].seq + 1 \in Nat
  BY <1>1 DEF Bundles
<1>3. g.w \in Nat /\ g.paid \in Nat
  BY DEF Results
<1>4. QED
  BY <1>2, <1>3 DEF Applied, SessionRows

LEMMA NewBundleIsBundle ==
    ASSUME TypeOK, NEW r \in Requests, NEW start \in Nat, NEW m \in Nat, NEW seq \in Nat
    PROVE  NewBundle(r, start, m, seq) \in Bundles
<1>1. Price * m \in Nat
  BY ConstantsAssumption DEF ConstantsAssumption
<1>2. plan[r].key \in KeySet /\ db.w \in Nat /\ db.paid \in Nat
  BY DEF TypeOK, Plans, SessionRows
<1>3. QED
  BY <1>1, <1>2 DEF NewBundle, Bundles

LEMMA InsertType ==
    ASSUME TypeOK, NEW r \in Requests, NEW start \in Nat, NEW m \in Nat, NEW seq \in Nat,
           Insert(r, start, m, seq)
    PROVE  /\ db' \in SessionRows
           /\ bundles' \in Seq(Bundles)
           /\ Len(bundles') = Len(bundles) + 1
           /\ got' \in [Requests -> Results]
           /\ got'[r].idx \in DOMAIN bundles'
<1>1. Price * m \in Nat
  BY ConstantsAssumption DEF ConstantsAssumption
<1>2. db \in SessionRows /\ bundles \in Seq(Bundles) /\ got \in [Requests -> Results]
  BY DEF TypeOK
<1>3. db' \in SessionRows
  <2>1. db.w + m \in Nat /\ db.paid + Price * m \in Nat /\ seq + 1 \in Nat
    BY <1>1, <1>2 DEF SessionRows
  <2>2. db' = [db EXCEPT !.w = db.w + m, !.paid = db.paid + Price * m, !.seq = seq + 1]
    BY DEF Insert
  <2>3. QED
    BY <1>2, <2>1, <2>2 DEF SessionRows
<1>4. bundles' \in Seq(Bundles) /\ Len(bundles') = Len(bundles) + 1
  BY <1>2, NewBundleIsBundle DEF Insert
<1>5. Len(bundles) + 1 \in DOMAIN bundles'
  BY <1>2, <1>4
<1>6. db.w + m \in Nat /\ db.paid + Price * m \in Nat /\ Len(bundles) + 1 \in Nat
  BY <1>1, <1>2 DEF SessionRows
<1>7. [idx |-> Len(bundles) + 1, dup |-> FALSE,
       w |-> db.w + m, paid |-> db.paid + Price * m] \in Results
  BY <1>6 DEF Results
<1>8. got' \in [Requests -> Results] /\ got'[r].idx = Len(bundles) + 1
  BY <1>2, <1>7 DEF Insert
<1>9. QED
  BY <1>3, <1>4, <1>5, <1>8

LEMMA MoveType ==
    ASSUME TypeOK, NEW r \in Requests, NEW label \in Labels, NEW code \in Replies,
           \/ Goto(r, label)
           \/ label = "done" /\ Answer(r, code)
           \/ label = "save" /\ SaveThen(r, code)
    PROVE  /\ pc' \in [Requests -> Labels]
           /\ reply' \in [Requests -> Replies]
           /\ pc'[r] = label
           /\ \A q \in Requests : q # r => pc'[q] = pc[q]
BY DEF TypeOK, Goto, Answer, SaveThen, Labels

-----------------------------------------------------------------------------
(* Type correctness, for both ledgers.                                     *)

\* The part of TypeOK a step of r keeps when it moves to a label other than "return"
\* and leaves the ledger's rows and answers to the other requests alone.
LEMMA StillType ==
    ASSUME TypeOK, NEW r \in Requests, NEW label \in Labels, label # "return",
           NEW code \in Replies,
           \/ Goto(r, label)
           \/ label = "done" /\ Answer(r, code)
           \/ label = "save" /\ SaveThen(r, code),
           db' \in SessionRows, snap' \in [Requests -> SessionRows],
           arg' \in [Requests -> Args], plan' \in [Requests -> Plans],
           got' \in [Requests -> Results],
           \A q \in Requests : q # r => got'[q] = got[q],
           charged' \in Seq(Charges),
           UNCHANGED <<bundles, ttlOver, crashes, queued>>
    PROVE  TypeOK'
<1>1. /\ pc' \in [Requests -> Labels]
      /\ reply' \in [Requests -> Replies]
      /\ pc'[r] = label
      /\ \A q \in Requests : q # r => pc'[q] = pc[q]
  BY MoveType
<1>2. \A q \in Requests : pc'[q] = "return" => got'[q].idx \in DOMAIN bundles'
  BY <1>1 DEF TypeOK
<1>3. QED
  BY <1>1, <1>2 DEF TypeOK

LEMMA ArriveType ==
    ASSUME TypeOK, NEW r \in Requests, Arrive(r)
    PROVE  TypeOK'
<1>1. PICK kind \in Kinds, key \in Keys \cup {NoKey}, want \in Wants :
        Request(r, kind, key, want)
  BY DEF Arrive
<1>2. kind \in AllKinds /\ want \in Nat
  BY ConstantsAssumption DEF ConstantsAssumption
<1>3. arg' \in [Requests -> Args]
  <2>1. [kind |-> kind, key |-> key, want |-> want] \in Args
    BY <1>2 DEF Args
  <2>2. QED
    BY <1>1, <2>1 DEF TypeOK, Request
<1>4. plan' \in [Requests -> Plans]
  <2>1. db.w \in Nat
    BY DEF TypeOK, SessionRows
  <2>2. (IF kind = "word" /\ key = NoKey THEN DefaultKey(kind, db.w, 1) ELSE key) \in KeySet
    BY <2>1, DefaultKeyIsKey DEF KeySet
  <2>3. (IF kind = "word" THEN db.w ELSE 0) \in Nat
    BY <2>1
  <2>4. QED
    BY <1>1, <2>2, <2>3 DEF TypeOK, Plans, Request
<1>5. /\ snap' \in [Requests -> SessionRows]
      /\ UNCHANGED <<db, bundles, ttlOver, crashes, got, queued, charged>>
  BY <1>1 DEF Request, TypeOK
<1>6. \E label \in {"abort", "guard", "lookup"} : Goto(r, label)
  BY <1>1 DEF Request
<1>7. {"abort", "guard", "lookup"} \subseteq Labels \ {"return"}
  BY DEF Labels
<1>8. QED
  BY <1>3, <1>4, <1>5, <1>6, <1>7, StillType DEF TypeOK, Replies

LEMMA LookupType ==
    ASSUME TypeOK, NEW r \in Requests, LookupHit(r) \/ RecheckHit(r)
    PROVE  TypeOK'
<1>1. PICK i \in DOMAIN bundles :
        /\ got' = [got EXCEPT ![r] = Found(i, TRUE)]
        /\ SetCur(r, Applied(Cur(r), Found(i, TRUE))) \/ UNCHANGED <<db, snap>>
  BY DEF LookupHit, RecheckHit, BundlesWith, DeliveriesWith
<1>2. Found(i, TRUE) \in Results /\ Found(i, TRUE).idx \in DOMAIN bundles
  BY FoundIsResult
<1>3. db' \in SessionRows /\ snap' \in [Requests -> SessionRows]
  <2>1. Applied(Cur(r), Found(i, TRUE)) \in SessionRows
    BY <1>2, CurIsSession, AppliedIsSession
  <2>2. QED
    BY <1>1, <2>1, SetCurType DEF TypeOK
<1>4. got' \in [Requests -> Results] /\ \A q \in Requests : q # r => got'[q] = got[q]
  BY <1>1, <1>2 DEF TypeOK
<1>5. Answer(r, "replay") /\ UNCHANGED <<bundles, ttlOver, crashes, arg, plan, queued, charged>>
  BY DEF LookupHit, RecheckHit
<1>6. QED
  BY <1>3, <1>4, <1>5, StillType DEF TypeOK, Labels, Replies

LEMMA QuietType ==
    ASSUME TypeOK, NEW r \in Requests,
           \/ LookupMiss(r) \/ GuardTerminal(r) \/ Unavailable(r)
           \/ RecheckMiss(r) \/ VerifyReject(r) \/ CommitConflict(r)
    PROVE  TypeOK'
<1>1. \E label \in Labels \ {"return"}, code \in Replies :
        Goto(r, label) \/ (label = "done" /\ Answer(r, code))
  BY DEF LookupMiss, GuardTerminal, Unavailable, RecheckMiss, VerifyReject, CommitConflict,
         Labels, Replies
<1>2. UNCHANGED <<db, bundles, ttlOver, crashes, arg, snap, plan, got, queued, charged>>
  BY DEF LookupMiss, GuardTerminal, Unavailable, RecheckMiss, VerifyReject, CommitConflict
<1>3. QED
  BY <1>1, <1>2, StillType DEF TypeOK

LEMMA GuardType ==
    ASSUME TypeOK, NEW r \in Requests, GuardExpired(r) \/ GuardPass(r)
    PROVE  TypeOK'
<1>1. CASE GuardExpired(r)
  <2>1. [Cur(r) EXCEPT !.state = "expired"] \in SessionRows
    BY CurIsSession DEF SessionRows, States, Terminal
  <2>2. db' \in SessionRows /\ snap' \in [Requests -> SessionRows]
    BY <1>1, <2>1, SetCurType DEF GuardExpired
  <2>3. SaveThen(r, "expired")
        /\ UNCHANGED <<bundles, ttlOver, crashes, arg, plan, got, queued, charged>>
    BY <1>1 DEF GuardExpired
  <2>4. QED
    BY <2>2, <2>3, StillType DEF TypeOK, Labels, Replies
<1>2. CASE GuardPass(r)
  <2>1. arg[r].want \in Nat /\ Cur(r).w \in Nat
    BY CurIsSession DEF TypeOK, Args, SessionRows
  <2>2. plan' \in [Requests -> Plans]
    BY <1>2, <2>1, KeyOfIsKey DEF GuardPass, TypeOK, Plans
  <2>3. \E label \in {"done", "plan"} : Goto(r, label) \/ (label = "done" /\ Answer(r, "terms"))
    BY <1>2 DEF GuardPass
  <2>4. UNCHANGED <<db, bundles, ttlOver, crashes, arg, snap, got, queued, charged>>
    BY <1>2 DEF GuardPass
  <2>5. QED
    BY <2>2, <2>3, <2>4, StillType DEF TypeOK, Labels, Replies
<1>3. QED
  BY <1>1, <1>2

LEMMA CloseType ==
    ASSUME TypeOK, NEW r \in Requests, NEW code \in Replies, NEW state \in States,
           SetCur(r, [Cur(r) EXCEPT !.state = state]), SaveThen(r, code),
           UNCHANGED <<bundles, ttlOver, crashes, arg, plan, got, queued, charged>>
    PROVE  TypeOK'
<1>1. [Cur(r) EXCEPT !.state = state] \in SessionRows
  BY CurIsSession DEF SessionRows
<1>2. db' \in SessionRows /\ snap' \in [Requests -> SessionRows]
  BY <1>1, SetCurType
<1>3. QED
  BY <1>2, StillType DEF TypeOK, Labels

LEMMA PlanType ==
    ASSUME TypeOK, NEW r \in Requests, PlanStream(r) \/ PlanWord(r) \/ PlanFree(r)
    PROVE  TypeOK'
<1>1. Cur(r) \in SessionRows /\ Cur(r).w \in Nat /\ Cur(r).paid \in Nat
      /\ arg[r].want \in Nat /\ plan \in [Requests -> Plans]
  BY CurIsSession DEF SessionRows, TypeOK, Args
<1>2. ASSUME Complete(r, "finished") \/ CloseBudget(r),
             UNCHANGED <<bundles, ttlOver, crashes, arg, plan, got, queued, charged>>
      PROVE  TypeOK'
  BY <1>2, CloseType DEF Complete, CloseBudget, States, Terminal, Replies
<1>3. ASSUME NEW p \in Plans, plan' = [plan EXCEPT ![r] = p],
             NEW label \in {"recheck", "verify"}, Goto(r, label),
             UNCHANGED <<db, bundles, ttlOver, crashes, arg, snap, got, queued, charged>>
      PROVE  TypeOK'
  <2>1. plan' \in [Requests -> Plans]
    BY <1>1, <1>3
  <2>2. "none" \in Replies /\ label \in Labels /\ label # "return"
    BY DEF Replies, Labels
  <2>3. QED
    BY <1>3, <2>1, <2>2, StillType DEF TypeOK
<1>4. CASE PlanStream(r)
  <2>1. CASE Authorised(r) < 1
    BY <1>2, <1>4, <2>1, AuthorisedFacts DEF PlanStream
  <2>2. CASE Authorised(r) >= 1
    <3>1. KeyOf(r, Cur(r).w, Authorised(r)) \in KeySet
      BY <1>1, AuthorisedFacts, KeyOfIsKey
    <3>2. [plan[r] EXCEPT !.key = KeyOf(r, Cur(r).w, Authorised(r)),
                          !.n = Authorised(r)] \in Plans
      BY <1>1, <3>1, AuthorisedFacts DEF Plans
    <3>3. QED
      BY <1>3, <1>4, <2>2, <3>2, AuthorisedFacts DEF PlanStream
  <2>3. QED
    BY <2>1, <2>2, AuthorisedFacts
<1>5. CASE PlanWord(r)
  <2>1. CASE plan' = [plan EXCEPT ![r] = [@ EXCEPT !.n = 1]] /\ Goto(r, "verify") /\ UNCHANGED <<db, snap>>
    <3>1. [plan[r] EXCEPT !.n = 1] \in Plans
      BY <1>1 DEF Plans
    <3>2. QED
      BY <1>3, <1>5, <2>1, <3>1 DEF PlanWord
  <2>2. QED
    BY <1>2, <1>5, <2>1 DEF PlanWord
<1>6. CASE PlanFree(r)
  <2>1. [plan[r] EXCEPT !.start = Cur(r).w, !.n = FreeWords(r)] \in Plans
    BY <1>1, FreeWordsFacts DEF Plans
  <2>2. QED
    BY <1>3, <1>6, <2>1 DEF PlanFree
<1>7. QED
  BY <1>4, <1>5, <1>6

LEMMA VerifyType ==
    ASSUME TypeOK, NEW r \in Requests, VerifyAccept(r)
    PROVE  TypeOK'
<1>1. Price * plan[r].n \in Nat
  BY ConstantsAssumption DEF ConstantsAssumption, TypeOK, Plans
<1>2. [req |-> r, amount |-> Price * plan[r].n] \in Charges
  BY <1>1 DEF Charges
<1>3. charged' \in Seq(Charges)
  BY <1>2 DEF VerifyAccept, TypeOK
<1>4. Goto(r, "record")
      /\ UNCHANGED <<db, bundles, ttlOver, crashes, arg, snap, plan, got, queued>>
  BY DEF VerifyAccept
<1>5. QED
  BY <1>3, <1>4, StillType DEF TypeOK, Labels, Replies

\* The part of TypeOK a step of r keeps when the ledger has answered it.
LEMMA AnsweredType ==
    ASSUME TypeOK, NEW r \in Requests, Goto(r, "return"),
           db' \in SessionRows, bundles' \in Seq(Bundles), Len(bundles') >= Len(bundles),
           plan' \in [Requests -> Plans], got' \in [Requests -> Results],
           got'[r].idx \in DOMAIN bundles',
           \A q \in Requests : q # r => got'[q] = got[q],
           UNCHANGED <<ttlOver, crashes, arg, snap, queued, charged>>
    PROVE  TypeOK'
<1>1. /\ pc' \in [Requests -> Labels]
      /\ reply' \in [Requests -> Replies]
      /\ \A q \in Requests : q # r => pc'[q] = pc[q]
  BY MoveType DEF Labels, Replies
<1>2. DOMAIN bundles \subseteq DOMAIN bundles'
  BY DEF TypeOK
<1>3. \A q \in Requests : pc'[q] = "return" => got'[q].idx \in DOMAIN bundles'
  BY <1>1, <1>2 DEF TypeOK
<1>4. QED
  BY <1>1, <1>3 DEF TypeOK

LEMMA DuplicateType ==
    ASSUME TypeOK, NEW r \in Requests, NEW i \in DOMAIN bundles, Goto(r, "return"),
           got' = [got EXCEPT ![r] = Found(i, TRUE)], plan' \in [Requests -> Plans],
           UNCHANGED <<db, bundles, ttlOver, crashes, arg, snap, queued, charged>>
    PROVE  TypeOK'
<1>1. Found(i, TRUE) \in Results /\ Found(i, TRUE).idx = i
  BY FoundIsResult
<1>2. got' \in [Requests -> Results] /\ got'[r] = Found(i, TRUE)
      /\ \A q \in Requests : q # r => got'[q] = got[q]
  BY <1>1 DEF TypeOK
<1>3. db' \in SessionRows /\ bundles' \in Seq(Bundles) /\ bundles' = bundles
      /\ Len(bundles) \in Nat
  BY DEF TypeOK
<1>4. got'[r].idx \in DOMAIN bundles'
  BY <1>1, <1>2, <1>3
<1>5. Len(bundles') >= Len(bundles) /\ UNCHANGED <<ttlOver, crashes, arg, snap, queued, charged>>
  BY <1>3
<1>6. QED
  BY <1>2, <1>3, <1>4, <1>5, AnsweredType

LEMMA InsertedType ==
    ASSUME TypeOK, NEW r \in Requests, NEW start \in Nat, NEW m \in Nat, NEW seq \in Nat,
           Insert(r, start, m, seq), Goto(r, "return"), plan' \in [Requests -> Plans],
           UNCHANGED <<ttlOver, crashes, arg, snap, queued, charged>>
    PROVE  TypeOK'
<1>1. \A q \in Requests : q # r => got'[q] = got[q]
  BY DEF Insert, TypeOK
<1>2. Len(bundles) \in Nat
  BY DEF TypeOK
<1>3. QED
  BY <1>1, <1>2, InsertType, AnsweredType

LEMMA ComposeType ==
    ASSUME TypeOK, NEW r \in Requests, Compose(r)
    PROVE  plan' \in [Requests -> Plans]
<1>1. [plan[r] EXCEPT !.start = ComposedStart(r), !.m = ComposedWords(r)] \in Plans
  BY ComposedFacts DEF TypeOK, Plans
<1>2. QED
  BY <1>1 DEF Compose, TypeOK

LEMMA ConflictType ==
    ASSUME TypeOK, NEW r \in Requests, Answer(r, "conflict"), plan' \in [Requests -> Plans],
           UNCHANGED <<db, bundles, ttlOver, crashes, arg, snap, got, queued, charged>>
    PROVE  TypeOK'
BY StillType DEF TypeOK, Labels, Replies

LEMMA RecordType ==
    ASSUME TypeOK, NEW r \in Requests, RecordMemory(r) \/ RecordDedup(r)
    PROVE  TypeOK'
<1>1. plan' \in [Requests -> Plans]
  BY ComposeType DEF RecordMemory, RecordDedup
<1>2. CASE Answer(r, "conflict") /\ UNCHANGED <<db, bundles, got>>
  BY <1>1, <1>2, ConflictType DEF RecordMemory, RecordDedup
<1>3. ASSUME NEW i \in DOMAIN bundles, got' = [got EXCEPT ![r] = Found(i, TRUE)],
             Goto(r, "return"), UNCHANGED <<db, bundles>>
      PROVE  TypeOK'
  BY <1>1, <1>3, DuplicateType DEF RecordMemory, RecordDedup
<1>4. CASE RecordMemory(r)
  <2>1. CASE Insert(r, ComposedStart(r), ComposedWords(r), db.seq) /\ Goto(r, "return")
    <3>1. db.seq \in Nat
      BY DEF TypeOK, SessionRows
    <3>2. QED
      BY <1>1, <1>4, <2>1, <3>1, ComposedFacts, InsertedType DEF RecordMemory
  <2>2. QED
    BY <1>2, <1>3, <1>4, <2>1 DEF RecordMemory, RecordFinds, BundlesWith
<1>5. CASE RecordDedup(r)
  <2>1. CASE Goto(r, "commit") /\ UNCHANGED got
    BY <1>1, <1>5, <2>1, StillType DEF RecordDedup, TypeOK, Labels, Replies
  <2>2. QED
    BY <1>2, <1>3, <1>5, <2>1 DEF RecordDedup, RecordFinds, BundlesWith
<1>6. QED
  BY <1>4, <1>5

LEMMA CommitType ==
    ASSUME TypeOK, NEW r \in Requests, CommitRefused(r) \/ Commit(r)
    PROVE  TypeOK'
<1>1. plan \in [Requests -> Plans] /\ snap[r].seq \in Nat
      /\ plan[r].start \in Nat /\ plan[r].m \in Nat
  BY DEF TypeOK, SessionRows, Plans
<1>2. CASE CommitRefused(r)
  <2>1. UNCHANGED <<db, bundles, ttlOver, crashes, arg, snap, plan, queued, charged>>
    BY <1>2 DEF CommitRefused
  <2>2. CASE \E i \in BundlesWith(plan[r].key) :
               got' = [got EXCEPT ![r] = Found(i, TRUE)] /\ Goto(r, "return")
    BY <1>1, <2>1, <2>2, DuplicateType DEF BundlesWith
  <2>3. CASE Answer(r, "conflict") /\ UNCHANGED got
    BY <1>1, <2>1, <2>3, ConflictType
  <2>4. QED
    BY <1>2, <2>2, <2>3 DEF CommitRefused
<1>3. CASE Commit(r)
  BY <1>1, <1>3, InsertedType DEF Commit
<1>4. QED
  BY <1>2, <1>3

LEMMA ReturnType ==
    ASSUME TypeOK, NEW r \in Requests, Return(r)
    PROVE  TypeOK'
<1> DEFINE s == Applied(Cur(r), got[r])
<1>1. s \in SessionRows
  BY CurIsSession, AppliedIsSession DEF Return, TypeOK
<1>2. \E t \in SessionRows : SetCur(r, t)
  <2>1. [s EXCEPT !.state = "completed"] \in SessionRows
    BY <1>1 DEF SessionRows, States, Terminal
  <2>2. QED
    BY <1>1, <2>1 DEF Return
<1>3. db' \in SessionRows /\ snap' \in [Requests -> SessionRows]
  BY <1>2, SetCurType
<1>4. queued' \in Seq(Ranges)
  <2>1. plan[r].start \in Nat /\ plan[r].m \in Nat /\ Price * plan[r].n \in Nat
    BY ConstantsAssumption DEF ConstantsAssumption, TypeOK, Plans
  <2>2. [start |-> plan[r].start, n |-> plan[r].m, amount |-> Price * plan[r].n] \in Ranges
    BY <2>1 DEF Ranges
  <2>3. QED
    BY <2>2 DEF Return, HandOff, TypeOK
<1>5. /\ pc' \in [Requests -> Labels]
      /\ reply' \in [Requests -> Replies]
      /\ pc'[r] # "return"
      /\ \A q \in Requests : q # r => pc'[q] = pc[q]
  <2>1. Answer(r, "replay") \/ SaveThen(r, "words") \/ Answer(r, "words")
    BY DEF Return
  <2>2. {"done", "save"} \subseteq Labels /\ {"replay", "words"} \subseteq Replies
    BY DEF Labels, Replies
  <2>3. QED
    BY <2>1, <2>2, MoveType
<1>6. UNCHANGED <<bundles, ttlOver, crashes, arg, plan, got, charged>>
  BY DEF Return
<1>7. QED
  BY <1>3, <1>4, <1>5, <1>6 DEF TypeOK

LEMMA CloseStepsType ==
    ASSUME TypeOK, NEW r \in Requests, Abort(r) \/ Save(r)
    PROVE  TypeOK'
<1>1. CASE Abort(r)
  BY <1>1, CloseType DEF Abort, States, Terminal, Replies
<1>2. CASE Save(r)
  <2>1. db' \in SessionRows
    BY <1>2, CurIsSession DEF Save
  <2>2. QED
    BY <1>2, <2>1 DEF Save, TypeOK, Labels
<1>3. QED
  BY <1>1, <1>2

LEMMA InitType ==
    ASSUME Init
    PROVE  TypeOK
<1>1. NewSession \in SessionRows /\ NoPlan \in Plans /\ NoResult \in Results
  BY DEF NewSession, SessionRows, States, NoPlan, Plans, KeySet, NoResult, Results
<1>2. [kind |-> "none", key |-> NoKey, want |-> 0] \in Args
  BY DEF Args
<1>3. MaxCrashes \in Nat
  BY ConstantsAssumption DEF ConstantsAssumption
<1>4. db \in SessionRows /\ snap \in [Requests -> SessionRows] /\ arg \in [Requests -> Args]
      /\ plan \in [Requests -> Plans] /\ got \in [Requests -> Results]
  BY <1>1, <1>2 DEF Init
<1>5. pc \in [Requests -> Labels] /\ reply \in [Requests -> Replies]
      /\ \A r \in Requests : pc[r] # "return"
  BY DEF Init, Labels, Replies
<1>6. bundles \in Seq(Bundles) /\ queued \in Seq(Ranges) /\ charged \in Seq(Charges)
  <2>1. bundles = <<>> /\ queued = <<>> /\ charged = <<>>
    BY DEF Init
  <2>2. \A S : <<>> \in Seq(S)
    OBVIOUS
  <2>3. QED
    BY <2>1, <2>2
<1>7. ttlOver \in BOOLEAN /\ crashes \in 0 .. MaxCrashes
  <2>1. ttlOver \in BOOLEAN
    BY DEF Init
  <2>2. crashes \in 0 .. MaxCrashes
    BY <1>3 DEF Init
  <2>3. QED
    BY <2>1, <2>2
<1>8. QED
  BY <1>4, <1>5, <1>6, <1>7 DEF TypeOK

LEMMA NextType ==
    ASSUME TypeOK, [Next]_vars
    PROVE  TypeOK'
<1>1. ASSUME NEW r \in Requests, Arrive(r) \/ Step(r) PROVE TypeOK'
  BY <1>1, ArriveType, LookupType, QuietType, GuardType, PlanType, VerifyType, RecordType,
     CommitType, ReturnType, CloseStepsType DEF Step
<1>2. CASE Expire
  BY <1>2 DEF Expire, reqVars, TypeOK
<1>3. CASE Crash
  BY <1>3, ConstantsAssumption DEF Crash, TypeOK, Labels, ConstantsAssumption
<1>4. CASE UNCHANGED vars
  BY <1>4 DEF vars, TypeOK
<1>5. QED
  BY <1>1, <1>2, <1>3, <1>4 DEF Next

\* Whatever the handlers do, the state of a session, of its ledger and of its requests
\* keeps its type, and an answer of the ledger names a bundle it holds.
THEOREM TypeCorrect == Spec => []TypeOK
<1>1. Init => TypeOK
  BY InitType
<1>2. TypeOK /\ [Next]_vars => TypeOK'
  BY NextType
<1>3. QED
  BY <1>1, <1>2, PTL DEF Spec

-----------------------------------------------------------------------------
(* Idempotency.                                                            *)

\* A step leaves the ledger alone, or adds one bundle under a key that has none: in
\* memory the lookup and the insert are one step, in Postgres the unique index decides.
LEMMA AppendsUnderNewKeys ==
    ASSUME TypeOK, [Next]_vars
    PROVE  \/ UNCHANGED bundles
           \/ \E r \in Requests : \E start, m, seq :
                 /\ BundlesWith(plan[r].key) = {}
                 /\ bundles' = Append(bundles, NewBundle(r, start, m, seq))
<1>1. ASSUME NEW r \in Requests, RecordMemory(r), ~UNCHANGED bundles
      PROVE  /\ BundlesWith(plan[r].key) = {}
             /\ \E start, m, seq : bundles' = Append(bundles, NewBundle(r, start, m, seq))
  BY <1>1, Zenon DEF RecordMemory, RecordFinds, Insert, BundlesWith
<1>2. ASSUME NEW r \in Requests, Commit(r)
      PROVE  /\ BundlesWith(plan[r].key) = {}
             /\ \E start, m, seq : bundles' = Append(bundles, NewBundle(r, start, m, seq))
  BY <1>2, Zenon DEF Commit, Violates, Insert
<1>3. ASSUME NEW r \in Requests, Arrive(r) \/ Step(r), ~RecordMemory(r), ~Commit(r)
      PROVE  UNCHANGED bundles
  BY <1>3 DEF Step, Arrive, Request, LookupHit, LookupMiss, RecheckHit, RecheckMiss,
     GuardTerminal, GuardExpired, GuardPass, Unavailable, PlanStream, PlanWord, PlanFree,
     VerifyReject, VerifyAccept, RecordDedup, CommitConflict, CommitRefused, Return, Abort, Save
<1>4. CASE Expire \/ Crash \/ UNCHANGED vars
  BY <1>4 DEF Expire, Crash, vars
<1> QED BY <1>1, <1>2, <1>3, <1>4 DEF Next

\* Over either ledger, whatever retries and replays interleave with one another, with
\* stale saves and with a restart, no idempotency key ever commits two bundles.
THEOREM KeyCommitsOnce == Spec => []OneBundlePerKey
<1>1. Init => OneBundlePerKey
  BY DEF Init, OneBundlePerKey
<1>2. ASSUME TypeOK, OneBundlePerKey, [Next]_vars PROVE OneBundlePerKey'
  <2>1. CASE UNCHANGED bundles
    BY <1>2, <2>1 DEF OneBundlePerKey
  <2>2. ASSUME NEW r \in Requests, NEW start, NEW m, NEW seq,
               BundlesWith(plan[r].key) = {},
               bundles' = Append(bundles, NewBundle(r, start, m, seq))
        PROVE  OneBundlePerKey'
    <3> DEFINE b == NewBundle(r, start, m, seq)
    <3>1. b.key = plan[r].key
      BY DEF NewBundle
    <3> HIDE DEF b
    <3>2. bundles \in Seq(Bundles) /\ Len(bundles) \in Nat /\ bundles' = Append(bundles, b)
      BY <1>2, <2>2 DEF TypeOK, b
    <3>3. /\ DOMAIN bundles' = 1 .. (Len(bundles) + 1)
          /\ bundles'[Len(bundles) + 1] = b
          /\ \A i \in 1 .. Len(bundles) : bundles'[i] = bundles[i] /\ bundles[i].key # plan[r].key
      BY <2>2, <3>2 DEF BundlesWith
    <3> QED BY <1>2, <3>1, <3>2, <3>3 DEF OneBundlePerKey
  <2> QED BY <1>2, <2>1, <2>2, AppendsUnderNewKeys
<1> QED BY <1>1, <1>2, TypeCorrect, PTL DEF Spec

-----------------------------------------------------------------------------
(* The Postgres ledger.                                                    *)

IInv == TypeOK /\ LedgerStrong

-----------------------------------------------------------------------------
(* Arithmetic of the word price.                                           *)

LEMMA PriceSum ==
    ASSUME NEW a \in Nat, NEW b \in Nat
    PROVE  /\ Price * a \in Nat
           /\ Price * (a + b) = Price * a + Price * b
           /\ a <= b => Price * a <= Price * b
BY ConstantsAssumption DEF ConstantsAssumption

LEMMA DivisionBound ==
    ASSUME NEW a \in Nat, NEW b \in Nat \ {0}
    PROVE  b * (a \div b) <= a
<1>1. a = b * (a \div b) + (a % b) /\ a % b \in Nat
  OBVIOUS
<1>2. b * (a \div b) \in Int
  OBVIOUS
<1>3. QED
  BY <1>1, <1>2

\* What affordableWordCount allows fits the rest of the budget.
LEMMA AffordableFits ==
    ASSUME NEW w \in Nat, NEW n \in Nat, Price * w <= Budget, n <= Affordable(Price * w), n >= 1
    PROVE  Price * (w + n) <= Budget
<1>1. Price \in Nat /\ Budget \in Nat /\ Price * w \in Nat
  BY ConstantsAssumption DEF ConstantsAssumption
<1>2. CASE Price = 0
  BY <1>1, <1>2
<1>3. CASE Price # 0
  <2> DEFINE rest == Budget - Price * w
  <2>1. rest \in Nat
    BY <1>1
  <2>2. n <= rest \div Price
    BY <1>1, <1>3, <2>1 DEF Affordable
  <2>3. rest \div Price \in Nat
    BY <1>1, <1>3, <2>1
  <2>4. Price * n <= Price * (rest \div Price)
    BY <2>2, <2>3, PriceSum
  <2>5. Price * (rest \div Price) <= rest
    BY <1>1, <1>3, <2>1, DivisionBound
  <2>6. Price * (w + n) = Price * w + Price * n /\ Price * n \in Nat
    BY PriceSum
  <2>7. Price * (rest \div Price) \in Nat
    BY <2>3, PriceSum
  <2>8. QED
    BY <1>1, <2>1, <2>4, <2>5, <2>6, <2>7
<1>4. QED
  BY <1>2, <1>3

-----------------------------------------------------------------------------
(* The ledger's end.                                                       *)

LEMMA FrontierNat ==
    ASSUME TypeOK
    PROVE  Frontier \in Nat
<1>1. CASE bundles = <<>>
  BY <1>1 DEF Frontier
<1>2. CASE bundles # <<>>
  <2>1. bundles[Len(bundles)] \in Bundles
    BY <1>2 DEF TypeOK
  <2>2. QED
    BY <1>2, <2>1 DEF Frontier, Bundles
<1>3. QED
  BY <1>1, <1>2

LEMMA EndsBeforeFrontier ==
    ASSUME TypeOK, LedgerInv, NEW i \in DOMAIN bundles
    PROVE  bundles[i].start + bundles[i].n <= Frontier
<1>1. bundles # <<>> /\ Len(bundles) \in DOMAIN bundles /\ i <= Len(bundles)
  BY DEF TypeOK
<1>2. bundles[i] \in Bundles /\ bundles[Len(bundles)] \in Bundles
  BY <1>1 DEF TypeOK
<1>3. Frontier = bundles[Len(bundles)].start + bundles[Len(bundles)].n
  BY <1>1 DEF Frontier
<1>4. CASE i = Len(bundles)
  BY <1>2, <1>3, <1>4 DEF Bundles
<1>5. CASE i < Len(bundles)
  <2>1. bundles[i].start + bundles[i].n <= bundles[Len(bundles)].start
    BY <1>1, <1>5 DEF LedgerInv
  <2>2. /\ bundles[i].start + bundles[i].n \in Nat
        /\ bundles[Len(bundles)].start \in Nat /\ bundles[Len(bundles)].n \in Nat
    BY <1>2 DEF Bundles
  <2>3. QED
    BY <1>3, <2>1, <2>2
<1>6. Len(bundles) \in Nat /\ i \in Nat
  BY DEF TypeOK
<1>7. QED
  BY <1>1, <1>4, <1>5, <1>6

-----------------------------------------------------------------------------
(* Steps on the Postgres ledger.                                           *)

LEMMA PgSetCur ==
    ASSUME Adapter = "postgres", TypeOK, NEW r \in Requests, NEW s, SetCur(r, s)
    PROVE  snap' = [snap EXCEPT ![r] = s] /\ snap'[r] = s /\ db' = db
BY DEF SetCur, TypeOK

LEMMA PgCur ==
    ASSUME Adapter = "postgres", NEW r \in Requests
    PROVE  Cur(r) = snap[r]
BY DEF Cur

\* A step of r leaves every other request where it was.
LEMMA OthersStay ==
    ASSUME TypeOK, NEW r \in Requests, Arrive(r) \/ Step(r), NEW q \in Requests, q # r
    PROVE  /\ pc'[q] = pc[q]
           /\ arg'[q] = arg[q]
           /\ snap'[q] = snap[q]
           /\ plan'[q] = plan[q]
           /\ got'[q] = got[q]
<1> USE DEF Goto, Answer, SaveThen, SetCur, TypeOK
<1>1. CASE Arrive(r)
  BY <1>1 DEF Arrive, Request
<1>2. CASE LookupHit(r) \/ LookupMiss(r) \/ RecheckHit(r) \/ RecheckMiss(r)
  BY <1>2 DEF LookupHit, LookupMiss, RecheckHit, RecheckMiss
<1>3. CASE GuardTerminal(r) \/ GuardExpired(r) \/ GuardPass(r) \/ Unavailable(r)
  BY <1>3 DEF GuardTerminal, GuardExpired, GuardPass, Unavailable
<1>4. CASE PlanStream(r) \/ PlanWord(r) \/ PlanFree(r)
  BY <1>4 DEF PlanStream, PlanWord, PlanFree, Complete, CloseBudget
<1>5. CASE VerifyReject(r) \/ VerifyAccept(r)
  BY <1>5 DEF VerifyReject, VerifyAccept
<1>6. CASE RecordMemory(r) \/ RecordDedup(r)
  BY <1>6 DEF RecordMemory, RecordDedup, Compose, Insert
<1>7. CASE CommitConflict(r) \/ CommitRefused(r) \/ Commit(r)
  BY <1>7 DEF CommitConflict, CommitRefused, Commit, Insert
<1>8. CASE Return(r) \/ Abort(r) \/ Save(r)
  BY <1>8 DEF Return, Abort, Save
<1>9. QED
  BY <1>1, <1>2, <1>3, <1>4, <1>5, <1>6, <1>7, <1>8 DEF Step

\* Only a commit changes the bundles.
LEMMA OnlyCommitAppends ==
    ASSUME Adapter = "postgres", TypeOK, NEW r \in Requests, Arrive(r) \/ Step(r), ~Commit(r)
    PROVE  UNCHANGED bundles
BY DEF Step, Arrive, Request, LookupHit, LookupMiss, RecheckHit, RecheckMiss, GuardTerminal,
       GuardExpired, GuardPass, Unavailable, PlanStream, PlanWord, PlanFree, VerifyReject,
       VerifyAccept, RecordMemory, RecordDedup, CommitConflict, CommitRefused, Return, Abort, Save

\* Only a commit and a save change the session row.
LEMMA OnlyCommitAndSaveWrite ==
    ASSUME Adapter = "postgres", TypeOK, NEW r \in Requests, Arrive(r) \/ Step(r),
           ~Commit(r), ~Save(r)
    PROVE  UNCHANGED db
BY DEF Step, Arrive, Request, LookupHit, LookupMiss, RecheckHit, RecheckMiss, GuardTerminal,
       GuardExpired, GuardPass, Unavailable, PlanStream, PlanWord, PlanFree, VerifyReject,
       VerifyAccept, RecordMemory, RecordDedup, CommitConflict, CommitRefused, Return, Abort,
       SetCur, Complete, CloseBudget

\* The row check and the unique indexes let a bundle in only where the ledger ends.
LEMMA CommitsAtFrontier ==
    ASSUME IInv, NEW r \in Requests, Commit(r)
    PROVE  /\ plan[r].start = Frontier
           /\ db.w = Frontier
           /\ plan[r].m = plan[r].n
           /\ plan[r].m \in Nat
           /\ plan[r].m >= 1
           /\ Frontier + plan[r].m <= Words
           /\ Access = "paid" => Price * (Frontier + plan[r].m) <= Budget
<1>1. plan[r].start \in Nat /\ plan[r].m \in Nat /\ db.w \in Nat /\ Frontier \in Nat
      /\ snap[r].w \in Nat
  BY FrontierNat DEF IInv, TypeOK, Plans, SessionRows
<1>2. db.w = plan[r].start /\ db.w <= Frontier
  BY DEF IInv, LedgerStrong, CountersInv, Honest, Commit
<1>3. PlanOK(r) /\ pc[r] = "commit"
  BY DEF IInv, LedgerStrong, PlanInv, Commit
<1>4. plan[r].start = snap[r].w /\ plan[r].m = plan[r].n /\ plan[r].m >= 1
      /\ snap[r].w + plan[r].n <= Words
      /\ (Access = "paid" => Price * (snap[r].w + plan[r].n) <= Budget)
  BY <1>3 DEF PlanOK, Planned
<1>5. plan[r].start \in plan[r].start .. (plan[r].start + plan[r].m - 1)
  BY <1>1, <1>4
<1>6. plan[r].start \notin Covered
  BY <1>5 DEF Commit, Violates
<1>7. Covered = 0 .. (Frontier - 1)
  BY DEF IInv, LedgerStrong, LedgerInv
<1>8. plan[r].start = Frontier
  BY <1>1, <1>2, <1>6, <1>7
<1>9. QED
  BY <1>1, <1>2, <1>4, <1>8

\* What a commit does to the ledger.
LEMMA CommitExtends ==
    ASSUME IInv, NEW r \in Requests, Commit(r)
    PROVE  /\ Len(bundles') = Len(bundles) + 1
           /\ DOMAIN bundles' = DOMAIN bundles \cup {Len(bundles) + 1}
           /\ \A i \in DOMAIN bundles : bundles'[i] = bundles[i]
           /\ bundles'[Len(bundles) + 1].start = Frontier
           /\ bundles'[Len(bundles) + 1].n = plan[r].m
           /\ bundles'[Len(bundles) + 1].gross = Price * plan[r].m
           /\ bundles'[Len(bundles) + 1].w = Frontier + plan[r].m
           /\ bundles'[Len(bundles) + 1].paid = Price * Frontier + Price * plan[r].m
           /\ Frontier' = Frontier + plan[r].m
           /\ Len(bundles) \in Nat
<1> DEFINE b == NewBundle(r, plan[r].start, plan[r].m, snap[r].seq)
<1>1. bundles' = Append(bundles, b)
  BY DEF Commit, Insert
<1>2. bundles \in Seq(Bundles) /\ Len(bundles) \in Nat
  BY DEF IInv, TypeOK
<1>3. b \in Bundles
  <2>1. plan[r].start \in Nat /\ plan[r].m \in Nat /\ snap[r].seq \in Nat
    BY DEF IInv, TypeOK, Plans, SessionRows
  <2>2. QED
    BY <2>1, NewBundleIsBundle DEF IInv
<1>4. Len(bundles') = Len(bundles) + 1 /\ bundles'[Len(bundles) + 1] = b
      /\ DOMAIN bundles' = 1 .. (Len(bundles) + 1) /\ DOMAIN bundles = 1 .. Len(bundles)
      /\ \A i \in DOMAIN bundles : bundles'[i] = bundles[i]
  BY <1>1, <1>2, <1>3
<1>5. DOMAIN bundles' = DOMAIN bundles \cup {Len(bundles) + 1}
  BY <1>2, <1>4
<1>6. db.paid = Price * db.w /\ db.w = Frontier /\ plan[r].start = Frontier
  BY CommitsAtFrontier DEF IInv, LedgerStrong, CountersInv, Honest
<1>7. b.start = Frontier /\ b.n = plan[r].m /\ b.gross = Price * plan[r].m
      /\ b.w = Frontier + plan[r].m /\ b.paid = Price * Frontier + Price * plan[r].m
  BY <1>6 DEF NewBundle
<1>8. bundles' # <<>>
  BY <1>2, <1>4
<1>9. Frontier' = Frontier + plan[r].m
  BY <1>4, <1>7, <1>8 DEF Frontier
<1>10. QED
  BY <1>2, <1>4, <1>5, <1>7, <1>9

\* The ledger only grows.
LEMMA FrontierGrows ==
    ASSUME Adapter = "postgres", IInv, NEW r \in Requests, Arrive(r) \/ Step(r)
    PROVE  Frontier' \in Nat /\ Frontier <= Frontier'
<1>1. Frontier \in Nat
  BY FrontierNat DEF IInv
<1>2. CASE Commit(r)
  BY <1>1, <1>2, CommitExtends, CommitsAtFrontier
<1>3. CASE ~Commit(r)
  BY <1>1, <1>3, OnlyCommitAppends DEF Frontier, IInv
<1>4. QED
  BY <1>2, <1>3

-----------------------------------------------------------------------------
(* Each part of the invariant is preserved by a step of a request.         *)

LEMMA LedgerKept ==
    ASSUME Adapter = "postgres", IInv, NEW r \in Requests, Arrive(r) \/ Step(r)
    PROVE  LedgerInv'
<1>1. CASE ~Commit(r)
  BY <1>1, OnlyCommitAppends
     DEF IInv, LedgerStrong, LedgerInv, LedgerTiles, WithinBudget, Covered, Frontier
<1>2. CASE Commit(r)
  <2> DEFINE new == Len(bundles) + 1
             m == plan[r].m
  <2>1. /\ DOMAIN bundles' = DOMAIN bundles \cup {new}
        /\ \A i \in DOMAIN bundles : bundles'[i] = bundles[i]
        /\ bundles'[new].start = Frontier
        /\ bundles'[new].n = m
        /\ bundles'[new].gross = Price * m
        /\ Frontier' = Frontier + m
        /\ Len(bundles) \in Nat
    BY <1>2, CommitExtends
  <2>2. /\ m \in Nat /\ m >= 1 /\ Frontier \in Nat
        /\ Frontier + m <= Words
        /\ Access = "paid" => Price * (Frontier + m) <= Budget
    BY <1>2, CommitsAtFrontier, FrontierNat DEF IInv
  <2>3. DOMAIN bundles = 1 .. Len(bundles)
    BY DEF IInv, TypeOK
  <2>4. \A i \in DOMAIN bundles : bundles[i].start + bundles[i].n <= Frontier
    BY EndsBeforeFrontier DEF IInv, LedgerStrong
  <2>5. LedgerTiles'
    <3>1. ASSUME NEW i \in DOMAIN bundles'
          PROVE  /\ bundles'[i].n >= 1
                 /\ bundles'[i].start =
                      IF i = 1 THEN 0 ELSE bundles'[i - 1].start + bundles'[i - 1].n
      <4>1. CASE i \in DOMAIN bundles
        <5>1. i = 1 \/ i - 1 \in DOMAIN bundles
          BY <2>3, <4>1
        <5>2. QED
          BY <2>1, <4>1, <5>1 DEF IInv, LedgerStrong, LedgerInv, LedgerTiles
      <4>2. CASE i = new
        <5>1. CASE bundles = <<>>
          BY <2>1, <2>2, <4>2, <5>1 DEF Frontier
        <5>2. CASE bundles # <<>>
          <6>1. Len(bundles) # 0
            BY <5>2 DEF IInv, TypeOK
          <6>2. i # 1 /\ i - 1 = Len(bundles) /\ Len(bundles) \in DOMAIN bundles
            BY <2>1, <2>3, <4>2, <6>1
          <6>3. Frontier = bundles[Len(bundles)].start + bundles[Len(bundles)].n
            BY <5>2 DEF Frontier
          <6>4. QED
            BY <2>1, <2>2, <4>2, <6>2, <6>3
        <5>3. QED
          BY <5>1, <5>2
      <4>3. QED
        BY <2>1, <4>1, <4>2
    <3>2. QED
      BY <2>1, <2>2, <3>1 DEF LedgerTiles
  <2>6. WithinBudget'
    BY <2>1, <2>2 DEF IInv, LedgerStrong, LedgerInv, WithinBudget
  <2>7. Covered' = 0 .. (Frontier' - 1)
    <3>1. \A i \in DOMAIN bundles : Span(bundles'[i]) = Span(bundles[i])
      BY <2>1
    <3>2. Covered' = Covered \cup Span(bundles'[new])
      BY <2>1, <3>1 DEF Covered
    <3>3. Span(bundles'[new]) = Frontier .. (Frontier + m - 1)
      BY <2>1 DEF Span
    <3>4. Covered = 0 .. (Frontier - 1)
      BY DEF IInv, LedgerStrong, LedgerInv
    <3>5. QED
      BY <2>1, <2>2, <3>2, <3>3, <3>4
  <2>8. \A i, j \in DOMAIN bundles' : i < j =>
          bundles'[i].start + bundles'[i].n <= bundles'[j].start
    <3> SUFFICES ASSUME NEW i \in DOMAIN bundles', NEW j \in DOMAIN bundles', i < j
                 PROVE  bundles'[i].start + bundles'[i].n <= bundles'[j].start
      OBVIOUS
    <3>1. i \in DOMAIN bundles
      BY <2>1, <2>3
    <3>2. CASE j = new
      BY <2>1, <2>4, <3>1, <3>2
    <3>3. CASE j \in DOMAIN bundles
      BY <2>1, <3>1, <3>3 DEF IInv, LedgerStrong, LedgerInv
    <3>4. QED
      BY <2>1, <3>2, <3>3
  <2>9. QED
    BY <2>5, <2>6, <2>7, <2>8 DEF LedgerInv
<1>3. QED
  BY <1>1, <1>2

\* A lookup answers with the current counters of the row.
LEMMA FoundHonest ==
    ASSUME Adapter = "postgres", IInv, NEW i \in DOMAIN bundles, NEW dup \in BOOLEAN
    PROVE  Honest(Found(i, dup))
BY DEF IInv, LedgerStrong, CountersInv, Honest, Found, CountersOf

LEMMA AppliedHonest ==
    ASSUME TypeOK, NEW s \in SessionRows, NEW g \in Results, Honest(g)
    PROVE  Honest(Applied(s, g))
BY DEF Honest, Applied, SessionRows

LEMMA ClosedHonest ==
    ASSUME NEW s \in SessionRows, NEW state \in States, Honest(s)
    PROVE  Honest([s EXCEPT !.state = state])
BY DEF Honest, SessionRows

\* What a step may write into the handler's copy of the session.
LEMMA SnapHonest ==
    ASSUME Adapter = "postgres", IInv, NEW r \in Requests, Arrive(r) \/ Step(r)
    PROVE  Honest(snap'[r])
<1> USE DEF IInv
<1>1. Honest(snap[r]) /\ Honest(db) /\ Honest(got[r]) /\ snap[r] \in SessionRows /\ got[r] \in Results
  BY DEF LedgerStrong, CountersInv, TypeOK
<1>2. CASE UNCHANGED snap
  BY <1>1, <1>2
<1>3. CASE Arrive(r)
  BY <1>1, <1>3 DEF Arrive, Request, TypeOK
<1>4. CASE \E i \in DOMAIN bundles : SetCur(r, Applied(Cur(r), Found(i, TRUE)))
  <2>1. PICK i \in DOMAIN bundles : snap'[r] = Applied(snap[r], Found(i, TRUE))
    BY <1>4, PgSetCur, PgCur
  <2>2. Found(i, TRUE) \in Results /\ Honest(Found(i, TRUE))
    BY FoundIsResult, FoundHonest
  <2>3. QED
    BY <1>1, <2>1, <2>2, AppliedHonest
<1>5. CASE \E state \in States : SetCur(r, [Cur(r) EXCEPT !.state = state])
  BY <1>1, <1>5, PgSetCur, PgCur, ClosedHonest
<1>6. CASE Return(r)
  <2> DEFINE s == Applied(snap[r], got[r])
  <2>1. s \in SessionRows /\ Honest(s)
    BY <1>1, <1>6, AppliedHonest, AppliedIsSession DEF Return, TypeOK
  <2>2. snap'[r] = s \/ snap'[r] = [s EXCEPT !.state = "completed"]
    BY <1>6, PgSetCur, PgCur DEF Return
  <2>3. QED
    BY <2>1, <2>2, ClosedHonest DEF States, Terminal
<1>7. CASE LookupHit(r) \/ RecheckHit(r)
  BY <1>2, <1>4, <1>7 DEF LookupHit, RecheckHit, BundlesWith
<1>8. CASE GuardExpired(r) \/ Abort(r)
  BY <1>5, <1>8 DEF GuardExpired, Abort, States, Terminal
<1>9. CASE PlanStream(r) \/ PlanWord(r)
  BY <1>2, <1>5, <1>9 DEF PlanStream, PlanWord, Complete, CloseBudget, States, Terminal
<1>10. CASE \/ LookupMiss(r) \/ GuardTerminal(r) \/ GuardPass(r) \/ Unavailable(r)
            \/ PlanFree(r) \/ RecheckMiss(r) \/ VerifyReject(r) \/ VerifyAccept(r)
            \/ RecordMemory(r) \/ RecordDedup(r) \/ CommitConflict(r)
            \/ CommitRefused(r) \/ Commit(r) \/ Save(r)
  BY <1>2, <1>10 DEF LookupMiss, GuardTerminal, GuardPass, Unavailable, PlanFree, RecheckMiss,
     VerifyReject, VerifyAccept, RecordMemory, RecordDedup, CommitConflict, CommitRefused,
     Commit, Save
<1>11. QED
  BY <1>3, <1>6, <1>7, <1>8, <1>9, <1>10 DEF Step

\* What a step may remember of the ledger's answer.
LEMMA GotHonest ==
    ASSUME Adapter = "postgres", IInv, NEW r \in Requests, Arrive(r) \/ Step(r)
    PROVE  got'[r].w <= Frontier' /\ got'[r].paid = Price * got'[r].w
<1> USE DEF IInv
<1>1. Honest(got[r]) /\ got[r] \in Results /\ Frontier \in Nat /\ Frontier' \in Nat
      /\ Frontier <= Frontier'
  BY FrontierGrows, FrontierNat DEF LedgerStrong, CountersInv, TypeOK
<1>2. CASE UNCHANGED got
  BY <1>1, <1>2 DEF Honest, Results
<1>3. CASE \E i \in DOMAIN bundles : got' = [got EXCEPT ![r] = Found(i, TRUE)]
  <2>1. PICK i \in DOMAIN bundles : got'[r] = Found(i, TRUE)
    BY <1>3 DEF TypeOK
  <2>2. Found(i, TRUE) \in Results /\ Honest(Found(i, TRUE))
    BY FoundIsResult, FoundHonest
  <2>3. PICK g \in Results : got'[r] = g /\ Honest(g)
    BY <2>1, <2>2
  <2>4. QED
    BY <1>1, <2>3 DEF Honest, Results
<1>4. CASE Commit(r)
  <2>1. got'[r].w = db.w + plan[r].m /\ got'[r].paid = db.paid + Price * plan[r].m
    BY <1>4 DEF Commit, Insert, TypeOK
  <2>2. db.w = Frontier /\ Frontier' = Frontier + plan[r].m /\ plan[r].m \in Nat
    BY <1>4, CommitsAtFrontier, CommitExtends
  <2>3. db.paid = Price * db.w
    BY DEF LedgerStrong, CountersInv, Honest
  <2>4. got'[r].w = Frontier'
    BY <2>1, <2>2
  <2>5. Price * (Frontier + plan[r].m) = Price * Frontier + Price * plan[r].m
    BY <1>1, <2>2, PriceSum
  <2>6. got'[r].paid = Price * got'[r].w
    BY <2>1, <2>2, <2>3, <2>4, <2>5
  <2>7. QED
    BY <1>1, <2>4, <2>6
<1>5. CASE LookupHit(r) \/ RecheckHit(r) \/ RecordDedup(r) \/ CommitRefused(r)
  BY <1>2, <1>3, <1>5 DEF LookupHit, RecheckHit, RecordDedup, CommitRefused, RecordFinds,
     BundlesWith, DeliveriesWith
<1>6. CASE \/ Arrive(r) \/ LookupMiss(r) \/ GuardTerminal(r) \/ GuardExpired(r) \/ GuardPass(r)
           \/ Unavailable(r) \/ PlanStream(r) \/ PlanWord(r) \/ PlanFree(r) \/ RecheckMiss(r)
           \/ VerifyReject(r) \/ VerifyAccept(r) \/ RecordMemory(r) \/ CommitConflict(r)
           \/ Return(r) \/ Abort(r) \/ Save(r)
  BY <1>2, <1>6 DEF Arrive, Request, LookupMiss, GuardTerminal, GuardExpired, GuardPass,
     Unavailable, PlanStream, PlanWord, PlanFree, RecheckMiss, VerifyReject, VerifyAccept,
     RecordMemory, CommitConflict, Return, Abort, Save
<1>7. QED
  BY <1>4, <1>5, <1>6 DEF Step

LEMMA CountersKept ==
    ASSUME Adapter = "postgres", IInv, NEW r \in Requests, Arrive(r) \/ Step(r)
    PROVE  CountersInv'
<1> USE DEF IInv
<1>1. Frontier \in Nat /\ Frontier' \in Nat /\ Frontier <= Frontier'
  BY FrontierGrows, FrontierNat
<1>2. CountersInv /\ TypeOK
  BY DEF LedgerStrong
<1>3. TypeOK'
  BY ArriveType, LookupType, QuietType, GuardType, PlanType, VerifyType, RecordType,
     CommitType, ReturnType, CloseStepsType DEF Step
<1>4. ASSUME NEW c \in SessionRows \cup Results, Honest(c)
      PROVE  c.w <= Frontier' /\ c.paid = Price * c.w
  BY <1>1, <1>4 DEF Honest, SessionRows, Results
<1>5. Honest(db)'
  <2>1. CASE Commit(r)
    <3>1. db'.w = db.w + plan[r].m /\ db'.paid = db.paid + Price * plan[r].m
      BY <1>2, <2>1 DEF Commit, Insert, TypeOK, SessionRows
    <3>2. db.w = Frontier /\ Frontier' = Frontier + plan[r].m /\ plan[r].m \in Nat
      BY <2>1, CommitsAtFrontier, CommitExtends
    <3>3. db.paid = Price * db.w
      BY <1>2 DEF CountersInv, Honest
    <3>4. Price * (Frontier + plan[r].m) = Price * Frontier + Price * plan[r].m
      BY <1>1, <3>2, PriceSum
    <3>5. db'.w = Frontier' /\ db'.paid = Price * db'.w
      BY <3>1, <3>2, <3>3, <3>4
    <3>6. QED
      BY <1>1, <3>5 DEF Honest
  <2>2. CASE Save(r)
    <3>1. db' = snap[r] /\ snap[r] \in SessionRows /\ Honest(snap[r])
      BY <1>2, <2>2, PgCur DEF Save, CountersInv, TypeOK
    <3>2. QED
      BY <1>4, <3>1 DEF Honest
  <2>3. CASE ~Commit(r) /\ ~Save(r)
    <3>1. db' = db /\ db \in SessionRows /\ Honest(db)
      BY <1>2, <2>3, OnlyCommitAndSaveWrite DEF CountersInv, TypeOK
    <3>2. QED
      BY <1>4, <3>1 DEF Honest
  <2>4. QED
    BY <2>1, <2>2, <2>3
<1>6. ASSUME NEW q \in Requests
      PROVE  Honest(snap[q])' /\ Honest(got[q])'
  <2>1. CASE q = r
    <3>1. snap'[r] \in SessionRows /\ Honest(snap'[r])
      BY <1>3, SnapHonest DEF TypeOK
    <3>2. QED
      BY <1>4, <2>1, <3>1, GotHonest DEF Honest
  <2>2. CASE q # r
    <3>1. snap'[q] = snap[q] /\ got'[q] = got[q]
      BY <1>2, <2>2, OthersStay
    <3>2. snap[q] \in SessionRows /\ got[q] \in Results /\ Honest(snap[q]) /\ Honest(got[q])
      BY <1>2 DEF CountersInv, TypeOK
    <3>3. QED
      BY <1>4, <3>1, <3>2 DEF Honest
  <2>3. QED
    BY <2>1, <2>2
<1>7. QED
  BY <1>5, <1>6 DEF CountersInv

\* PlanOK speaks of the request's own state only.
LEMMA PlanOKStays ==
    ASSUME TypeOK, NEW r \in Requests, Arrive(r) \/ Step(r), NEW q \in Requests, q # r, PlanOK(q)
    PROVE  PlanOK(q)'
BY OthersStay DEF PlanOK, Planned

LEMMA PlanMade ==
    ASSUME Adapter = "postgres", IInv, NEW r \in Requests,
           PlanStream(r) \/ PlanWord(r) \/ PlanFree(r)
    PROVE  PlanOK(r)'
<1> USE DEF IInv
<1>1. /\ snap \in [Requests -> SessionRows] /\ plan \in [Requests -> Plans]
      /\ arg \in [Requests -> Args] /\ pc \in [Requests -> Labels]
      /\ snap[r].w \in Nat /\ snap[r].paid \in Nat /\ Cur(r) = snap[r] /\ Frontier \in Nat
  BY PgCur, FrontierNat DEF TypeOK, SessionRows
<1>2. snap[r].w <= Frontier /\ snap[r].paid = Price * snap[r].w /\ Frontier <= Words
      /\ (Access = "paid" => Price * Frontier <= Budget) /\ PlanOK(r)
  BY DEF LedgerStrong, CountersInv, Honest, LedgerInv, LedgerTiles, WithinBudget, PlanInv
<1>3. Words \in Nat /\ Price \in Nat /\ Budget \in Nat /\ Access \in {"paid", "free"}
  BY ConstantsAssumption DEF ConstantsAssumption
<1>4. Access = "paid" => Price * snap[r].w <= Budget
  <2>1. Price * snap[r].w <= Price * Frontier
    BY <1>1, <1>2, PriceSum
  <2>2. Price * snap[r].w \in Nat /\ Price * Frontier \in Nat
    BY <1>1, PriceSum
  <2>3. QED
    BY <1>2, <1>3, <2>1, <2>2
<1>5. Remaining(snap[r].w) = Words - snap[r].w
  BY <1>1, <1>2, <1>3, RemainingNat
<1>6. CASE pc'[r] = "save"
  BY <1>6 DEF PlanOK, Planned
<1>7. CASE PlanStream(r) /\ pc'[r] # "save"
  <2>1. /\ Authorised(r) >= 1 /\ Access = "paid" /\ arg[r].kind = "stream"
        /\ plan' = [plan EXCEPT ![r] = [@ EXCEPT
                      !.key = KeyOf(r, Cur(r).w, Authorised(r)), !.n = Authorised(r)]]
        /\ Goto(r, "recheck") /\ UNCHANGED <<arg, snap>>
    BY <1>1, <1>7 DEF PlanStream, Complete, CloseBudget, SaveThen
  <2>2. plan'[r].n = Authorised(r) /\ pc'[r] = "recheck"
    BY <1>1, <2>1 DEF Plans, Goto
  <2>3. Authorised(r) \in Nat /\ Authorised(r) <= Affordable(Price * snap[r].w)
        /\ Authorised(r) <= Words - snap[r].w
    BY <1>1, <1>2, <1>5, AuthorisedFacts
  <2>4. Price * (snap[r].w + Authorised(r)) <= Budget
    BY <1>1, <1>4, <2>1, <2>3, AffordableFits
  <2>5. snap[r].w + Authorised(r) <= Words
    BY <1>1, <1>3, <2>3
  <2>6. QED
    BY <2>1, <2>2, <2>4, <2>5 DEF PlanOK, Planned
<1>8. CASE PlanWord(r) /\ pc'[r] # "save"
  <2>1. /\ plan[r].start < Words /\ Cur(r).paid + Price <= Budget
        /\ Access = "paid" /\ arg[r].kind = "word" /\ pc[r] = "plan"
        /\ plan' = [plan EXCEPT ![r] = [@ EXCEPT !.n = 1]]
        /\ Goto(r, "verify") /\ UNCHANGED <<arg, snap>>
    BY <1>1, <1>8 DEF PlanWord, Complete, CloseBudget, SaveThen
  <2>2. plan'[r].n = 1 /\ plan'[r].start = plan[r].start /\ pc'[r] = "verify"
    BY <1>1, <2>1 DEF Plans, Goto
  <2>3. plan[r].start = snap[r].w
    BY <1>2, <2>1 DEF PlanOK
  <2>4. Price * (snap[r].w + 1) = Price * snap[r].w + Price
    BY <1>1, <1>3, PriceSum
  <2>5. snap[r].w + 1 <= Words /\ Price * (snap[r].w + 1) <= Budget
    BY <1>1, <1>2, <1>3, <2>1, <2>3, <2>4
  <2>6. QED
    BY <2>1, <2>2, <2>3, <2>5 DEF PlanOK, Planned
<1>9. CASE PlanFree(r)
  <2>1. /\ Access = "free"
        /\ plan' = [plan EXCEPT ![r] = [@ EXCEPT !.start = Cur(r).w, !.n = FreeWords(r)]]
        /\ Goto(r, "recheck") /\ UNCHANGED <<arg, snap>>
    BY <1>9 DEF PlanFree
  <2>2. plan'[r].n = FreeWords(r) /\ plan'[r].start = snap[r].w /\ pc'[r] = "recheck"
    BY <1>1, <2>1 DEF Plans, Goto
  <2>3. FreeWords(r) \in Nat /\ FreeWords(r) <= Words - snap[r].w
    BY <1>1, <1>5, FreeWordsFacts
  <2>4. snap[r].w + FreeWords(r) <= Words
    BY <1>1, <1>3, <2>3
  <2>5. QED
    BY <2>1, <2>2, <2>4 DEF PlanOK, Planned
<1>10. QED
  BY <1>6, <1>7, <1>8, <1>9

LEMMA PlanComposed ==
    ASSUME Adapter = "postgres", IInv, NEW r \in Requests, RecordDedup(r)
    PROVE  PlanOK(r)' /\ (pc'[r] = "return" => got'[r].dup)
<1> USE DEF IInv
<1>1. /\ snap \in [Requests -> SessionRows] /\ plan \in [Requests -> Plans]
      /\ pc \in [Requests -> Labels] /\ got \in [Requests -> Results]
      /\ snap[r].w \in Nat /\ plan[r].n \in Nat /\ Cur(r) = snap[r]
      /\ Words \in Nat /\ Access \in {"paid", "free"}
  BY PgCur, ConstantsAssumption DEF TypeOK, SessionRows, Plans, ConstantsAssumption
<1>2. PlanOK(r) /\ pc[r] = "record" /\ UNCHANGED <<arg, snap>>
  BY DEF LedgerStrong, PlanInv, RecordDedup
<1>3. pc'[r] \in {"done", "return", "commit"}
  BY <1>1 DEF RecordDedup, Goto, Answer
<1>4. CASE pc'[r] # "commit"
  <2>1. PlanOK(r)'
    BY <1>3, <1>4 DEF PlanOK, Planned
  <2>2. pc'[r] = "return" => \E i \in DOMAIN bundles : got' = [got EXCEPT ![r] = Found(i, TRUE)]
    BY <1>1, <1>4 DEF RecordDedup, Goto, Answer, RecordFinds, BundlesWith
  <2>3. QED
    BY <1>1, <2>1, <2>2 DEF Found
<1>5. CASE pc'[r] = "commit"
  <2>1. ComposedWords(r) >= 1
    BY <1>1, <1>5 DEF RecordDedup, Goto, Answer
  <2>2. ComposedStart(r) = snap[r].w
    BY <1>1, <1>2 DEF PlanOK, Planned, ComposedStart
  <2>3. snap[r].w + plan[r].n <= Words
        /\ (Access = "paid" => /\ arg[r].kind \in {"stream", "word"}
                              /\ plan[r].n >= 1
                              /\ Price * (snap[r].w + plan[r].n) <= Budget)
    BY <1>2 DEF PlanOK, Planned
  <2>4. plan[r].n <= Remaining(ComposedStart(r))
    BY <1>1, <2>2, <2>3, RemainingNat
  <2>5. ComposedWords(r) = plan[r].n
    BY <2>4, ComposedFacts
  <2>6. plan'[r].start = snap[r].w /\ plan'[r].m = plan[r].n /\ plan'[r].n = plan[r].n
    BY <1>1, <2>2, <2>5 DEF RecordDedup, Compose, Plans
  <2>7. QED
    BY <1>2, <1>5, <2>1, <2>3, <2>5, <2>6 DEF PlanOK, Planned
<1>6. QED
  BY <1>4, <1>5

LEMMA PlanKept ==
    ASSUME Adapter = "postgres", IInv, NEW r \in Requests, Arrive(r) \/ Step(r)
    PROVE  PlanInv'
<1> USE DEF IInv
<1>1. /\ TypeOK /\ PlanOK(r) /\ Access \in {"paid", "free"}
      /\ pc \in [Requests -> Labels] /\ snap \in [Requests -> SessionRows]
      /\ plan \in [Requests -> Plans] /\ arg \in [Requests -> Args]
  BY ConstantsAssumption DEF LedgerStrong, PlanInv, TypeOK, ConstantsAssumption
<1>2. PlanOK(r)'
  <2>1. CASE pc'[r] \in {"idle", "return", "abort", "save", "done", "lost"}
    BY <2>1 DEF PlanOK, Planned
  <2>2. CASE Arrive(r)
    <3>1. PICK kind \in Kinds, key \in Keys \cup {NoKey}, want \in Wants :
            Request(r, kind, key, want)
      BY <2>2 DEF Arrive
    <3>2. pc'[r] \in {"abort", "guard", "lookup"} /\ arg'[r].kind = kind
          /\ snap'[r] = db /\ (kind = "word" => plan'[r].start = db.w)
      BY <1>1, <3>1 DEF Request, Goto
    <3>3. QED
      BY <3>2 DEF PlanOK, Planned
  <2>3. CASE LookupMiss(r)
    <3>1. pc[r] = "lookup" /\ pc'[r] = "guard" /\ UNCHANGED <<arg, snap, plan>>
      BY <1>1, <2>3 DEF LookupMiss, Goto
    <3>2. QED
      BY <1>1, <3>1 DEF PlanOK, Planned
  <2>4. CASE GuardPass(r)
    <3>1. pc[r] = "guard" /\ pc'[r] \in {"done", "plan"} /\ UNCHANGED <<arg, snap>>
      BY <1>1, <2>4 DEF GuardPass, Goto, Answer
    <3>2. Access = "paid" => UNCHANGED plan
      BY <2>4 DEF GuardPass
    <3>3. QED
      BY <1>1, <3>1, <3>2 DEF PlanOK, Planned
  <2>5. CASE PlanStream(r) \/ PlanWord(r) \/ PlanFree(r)
    BY <2>5, PlanMade
  <2>6. CASE RecheckMiss(r)
    <3>1. pc[r] = "recheck" /\ pc'[r] \in {"done", "record", "verify"}
          /\ UNCHANGED <<arg, snap, plan>>
      BY <1>1, <2>6 DEF RecheckMiss, Goto, Answer
    <3>2. QED
      BY <1>1, <3>1 DEF PlanOK, Planned
  <2>7. CASE VerifyAccept(r)
    <3>1. pc[r] = "verify" /\ pc'[r] = "record" /\ UNCHANGED <<arg, snap, plan>>
      BY <1>1, <2>7 DEF VerifyAccept, Goto
    <3>2. QED
      BY <1>1, <3>1 DEF PlanOK, Planned
  <2>8. CASE RecordDedup(r)
    BY <2>8, PlanComposed
  <2>9. CASE \/ LookupHit(r) \/ RecheckHit(r) \/ GuardTerminal(r) \/ Unavailable(r)
             \/ VerifyReject(r) \/ CommitConflict(r) \/ GuardExpired(r) \/ Abort(r) \/ Save(r)
    <3>1. pc'[r] \in {"done", "save"}
      BY <1>1, <2>9 DEF LookupHit, RecheckHit, GuardTerminal, Unavailable, VerifyReject,
         CommitConflict, GuardExpired, Abort, Save, Answer, SaveThen
    <3>2. QED
      BY <2>1, <3>1
  <2>10. CASE CommitRefused(r) \/ Commit(r) \/ Return(r)
    <3>1. pc'[r] \in {"done", "save", "return"}
      BY <1>1, <2>10 DEF CommitRefused, Commit, Return, Answer, SaveThen, Goto
    <3>2. QED
      BY <2>1, <3>1
  <2>11. ~RecordMemory(r)
    BY DEF RecordMemory
  <2>12. QED
    BY <2>2, <2>3, <2>4, <2>5, <2>6, <2>7, <2>8, <2>9, <2>10, <2>11 DEF Step
<1>3. ASSUME NEW q \in Requests, q # r PROVE PlanOK(q)'
  BY <1>1, <1>3, PlanOKStays DEF LedgerStrong, PlanInv
<1>4. QED
  BY <1>2, <1>3 DEF PlanInv

\* Ranges of different bundles start at different words.
LEMMA HandoffsDiffer ==
    ASSUME TypeOK, LedgerInv, NEW i \in DOMAIN bundles, NEW j \in DOMAIN bundles,
           Handoff(i) = Handoff(j)
    PROVE  i = j
<1>1. i \in Nat /\ j \in Nat /\ bundles[i] \in Bundles /\ bundles[j] \in Bundles
  BY DEF TypeOK
<1>2. bundles[i].start = bundles[j].start
  BY DEF Handoff
<1>3. bundles[i].n >= 1 /\ bundles[j].n >= 1
  BY DEF LedgerInv, LedgerTiles
<1>4. ~(i < j) /\ ~(j < i)
  BY <1>1, <1>2, <1>3 DEF LedgerInv, Bundles
<1>5. QED
  BY <1>1, <1>4

\* Which steps start or end the wait for a handoff.
LEMMA AwaitingStarts ==
    ASSUME Adapter = "postgres", IInv, NEW r \in Requests, Arrive(r) \/ Step(r), ~Commit(r)
    PROVE  ~Awaiting(r)'
<1> USE DEF IInv
<1>1. pc \in [Requests -> Labels] /\ got \in [Requests -> Results]
  BY DEF TypeOK
<1>2. CASE CommitRefused(r)
  <2>1. pc'[r] = "return" => \E i \in DOMAIN bundles : got' = [got EXCEPT ![r] = Found(i, TRUE)]
    BY <1>1, <1>2 DEF CommitRefused, Answer, Goto, BundlesWith
  <2>2. pc'[r] = "return" => got'[r].dup
    BY <1>1, <2>1 DEF Found
  <2>3. QED
    BY <2>2 DEF Awaiting
<1>3. CASE RecordDedup(r)
  BY <1>3, PlanComposed DEF Awaiting
<1>4. CASE ~CommitRefused(r) /\ ~RecordDedup(r)
  <2>1. ~RecordMemory(r)
    BY DEF RecordMemory
  <2>2. pc'[r] # "return"
    BY <1>1, <1>4, <2>1 DEF Step, Arrive, Request, LookupHit, LookupMiss, RecheckHit, RecheckMiss,
       GuardTerminal, GuardExpired, GuardPass, Unavailable, PlanStream, PlanWord, PlanFree,
       VerifyReject, VerifyAccept, CommitConflict, Return, Abort, Save, Goto, Answer, SaveThen,
       Complete, CloseBudget
  <2>3. QED
    BY <2>2 DEF Awaiting
<1>5. QED
  BY <1>2, <1>3, <1>4

\* Only the return of a request that waits hands a range over, and it hands over its own.
LEMMA QueueGrows ==
    ASSUME Adapter = "postgres", IInv, NEW r \in Requests, Arrive(r) \/ Step(r)
    PROVE  \/ UNCHANGED queued
           \/ /\ Return(r) /\ Awaiting(r)
              /\ queued' = Append(queued, Handoff(got[r].idx))
<1> USE DEF IInv
<1>1. CASE Return(r)
  <2>1. CASE got[r].dup
    BY <1>1, <2>1 DEF Return, HandOff
  <2>2. CASE ~got[r].dup
    <3>1. Awaiting(r)
      BY <1>1, <2>2 DEF Return, Awaiting
    <3>2. got[r].idx \in DOMAIN bundles
      BY <3>1 DEF Awaiting, TypeOK
    <3>3. plan[r].m = plan[r].n /\ bundles[got[r].idx].start = plan[r].start
          /\ bundles[got[r].idx].n = plan[r].m
      BY <3>1 DEF LedgerStrong, HandoffInv, AwaitingOK
    <3>4. bundles[got[r].idx].gross = Price * bundles[got[r].idx].n
      BY <3>2 DEF LedgerStrong, LedgerInv, WithinBudget
    <3>5. Handoff(got[r].idx) = [start |-> plan[r].start, n |-> plan[r].m,
                                 amount |-> Price * plan[r].n]
      BY <3>3, <3>4 DEF Handoff
    <3>6. QED
      BY <1>1, <3>1, <3>5 DEF Return, HandOff
  <2>3. QED
    BY <2>1, <2>2
<1>2. CASE ~Return(r)
  BY <1>2 DEF Step, Arrive, Request, LookupHit, LookupMiss, RecheckHit, RecheckMiss,
     GuardTerminal, GuardExpired, GuardPass, Unavailable, PlanStream, PlanWord, PlanFree,
     VerifyReject, VerifyAccept, RecordMemory, RecordDedup, CommitConflict, CommitRefused,
     Commit, Abort, Save
<1>3. QED
  BY <1>1, <1>2

LEMMA HandoffKept ==
    ASSUME Adapter = "postgres", IInv, NEW r \in Requests, Arrive(r) \/ Step(r)
    PROVE  HandoffInv' /\ HandoffsAreBundles'
<1> USE DEF IInv
<1>1. /\ TypeOK /\ LedgerInv /\ HandoffInv /\ HandoffsAreBundles
      /\ DOMAIN bundles = 1 .. Len(bundles) /\ Len(bundles) \in Nat
      /\ queued \in Seq(Ranges) /\ Len(queued) \in Nat /\ DOMAIN queued = 1 .. Len(queued)
  BY DEF LedgerStrong, TypeOK
<1>2. CASE Commit(r)
  <2> DEFINE new == Len(bundles) + 1
  <2>1. /\ DOMAIN bundles' = DOMAIN bundles \cup {new}
        /\ \A i \in DOMAIN bundles : bundles'[i] = bundles[i]
        /\ bundles'[new].start = Frontier
        /\ bundles'[new].n = plan[r].m
        /\ plan[r].start = Frontier /\ plan[r].m = plan[r].n
        /\ plan[r].m \in Nat /\ plan[r].m >= 1 /\ Frontier \in Nat
    BY <1>2, CommitExtends, CommitsAtFrontier, FrontierNat
  <2>2. UNCHANGED <<queued, plan>> /\ got'[r].idx = new
    BY <1>2 DEF Commit, Insert, TypeOK
  <2>3. ASSUME NEW i \in DOMAIN bundles
        PROVE  Handoff(i)' = Handoff(i) /\ Handoff(i).start # Frontier
    <3>1. bundles[i].start + bundles[i].n <= Frontier /\ bundles[i].n >= 1
          /\ bundles[i] \in Bundles
      BY <1>1, EndsBeforeFrontier DEF LedgerInv, LedgerTiles, TypeOK
    <3>2. bundles[i].start # Frontier
      BY <2>1, <3>1 DEF Bundles
    <3>3. bundles'[i] = bundles[i]
      BY <2>1
    <3>4. QED
      BY <3>2, <3>3 DEF Handoff
  <2>4. ASSUME NEW q \in Requests, Awaiting(q)', q # r
        PROVE  Awaiting(q) /\ got'[q] = got[q] /\ got[q].idx \in DOMAIN bundles
    <3>1. pc'[q] = pc[q] /\ got'[q] = got[q]
      BY <2>4, OthersStay DEF Step
    <3>2. Awaiting(q)
      BY <2>4, <3>1 DEF Awaiting
    <3>3. QED
      BY <3>1, <3>2 DEF Awaiting, TypeOK
  <2>5. ASSUME NEW q \in Requests, Awaiting(q)'
        PROVE  AwaitingOK(q)'
    <3>1. CASE q = r
      <4>1. ASSUME NEW j \in DOMAIN queued PROVE queued[j].start # Frontier
        <5>1. PICK i \in DOMAIN bundles : queued[j] = Handoff(i)
          BY <1>1 DEF HandoffsAreBundles
        <5>2. QED
          BY <2>3, <5>1
      <4>2. got'[q].idx = new /\ plan'[q] = plan[q] /\ queued' = queued
        BY <2>2, <3>1
      <4>3. Handoff(got[q].idx)'.start = Frontier
        BY <2>1, <4>2 DEF Handoff
      <4>4. \A j \in DOMAIN queued' : queued'[j] # Handoff(got[q].idx)'
        BY <4>1, <4>2, <4>3
      <4>5. bundles'[got'[q].idx].start = plan'[q].start /\ bundles'[got'[q].idx].n = plan'[q].m
            /\ plan'[q].m = plan'[q].n
        BY <2>1, <3>1, <4>2
      <4>6. QED
        BY <4>4, <4>5 DEF AwaitingOK
    <3>2. CASE q # r
      <4>1. Awaiting(q) /\ got'[q] = got[q] /\ got[q].idx \in DOMAIN bundles
        BY <2>4, <2>5, <3>2
      <4>2. AwaitingOK(q)
        BY <1>1 DEF HandoffInv
      <4>3. Handoff(got[q].idx)' = Handoff(got[q].idx)
        BY <2>1, <4>1 DEF Handoff
      <4>4. QED
        BY <2>1, <2>2, <4>1, <4>2, <4>3 DEF AwaitingOK, Handoff
    <3>3. QED
      BY <3>1, <3>2
  <2>6. ASSUME NEW p \in Requests, NEW q \in Requests, Awaiting(p)', Awaiting(q)',
               got'[p].idx = got'[q].idx
        PROVE  p = q
    <3>1. new \notin DOMAIN bundles
      BY <1>1
    <3>2. (p = r /\ q # r) => FALSE
      BY <2>2, <2>4, <2>6, <3>1
    <3>3. (p # r /\ q = r) => FALSE
      BY <2>2, <2>4, <2>6, <3>1
    <3>4. (p # r /\ q # r) => p = q
      BY <1>1, <2>4, <2>6 DEF HandoffInv
    <3>5. QED
      BY <3>2, <3>3, <3>4
  <2>7. HandoffsAreBundles'
    BY <1>1, <2>1, <2>2, <2>3 DEF HandoffsAreBundles
  <2>8. \A q \in Requests : AwaitingOK(q)'
    BY <2>5 DEF AwaitingOK
  <2>9. QED
    BY <2>6, <2>7, <2>8 DEF HandoffInv
<1>3. CASE ~Commit(r)
  <2>1. bundles' = bundles /\ ~Awaiting(r)'
    BY <1>1, <1>3, OnlyCommitAppends, AwaitingStarts
  <2>2. \A i : Handoff(i)' = Handoff(i)
    BY <2>1 DEF Handoff
  <2>3. ASSUME NEW q \in Requests, Awaiting(q)'
        PROVE  q # r /\ Awaiting(q) /\ got'[q] = got[q] /\ plan'[q] = plan[q]
               /\ got[q].idx \in DOMAIN bundles
    <3>1. q # r
      BY <2>1, <2>3
    <3>2. pc'[q] = pc[q] /\ got'[q] = got[q] /\ plan'[q] = plan[q]
      BY <1>1, <3>1, OthersStay
    <3>3. Awaiting(q)
      BY <2>3, <3>2 DEF Awaiting
    <3>4. QED
      BY <3>1, <3>2, <3>3 DEF Awaiting, TypeOK
  <2>4. ASSUME NEW p \in Requests, NEW q \in Requests, Awaiting(p)', Awaiting(q)',
               got'[p].idx = got'[q].idx
        PROVE  p = q
    BY <1>1, <2>3, <2>4 DEF HandoffInv
  <2>5. CASE UNCHANGED queued
    <3>1. HandoffsAreBundles'
      BY <1>1, <2>1, <2>2, <2>5 DEF HandoffsAreBundles
    <3>2. ASSUME NEW q \in Requests, Awaiting(q)' PROVE AwaitingOK(q)'
      <4>1. AwaitingOK(q) /\ Awaiting(q) /\ got'[q] = got[q] /\ plan'[q] = plan[q]
        BY <1>1, <2>3, <3>2 DEF HandoffInv
      <4>2. Handoff(got[q].idx)' = Handoff(got[q].idx)
        BY <2>1, <4>1 DEF Handoff
      <4>3. QED
        BY <2>1, <2>5, <4>1, <4>2 DEF AwaitingOK, Handoff
    <3>3. \A q \in Requests : AwaitingOK(q)'
      BY <3>2 DEF AwaitingOK
    <3>4. QED
      BY <2>4, <3>1, <3>3 DEF HandoffInv
  <2>6. CASE Awaiting(r) /\ queued' = Append(queued, Handoff(got[r].idx))
    <3> DEFINE mine == Handoff(got[r].idx)
    <3>1. AwaitingOK(r) /\ got[r].idx \in DOMAIN bundles
      BY <1>1, <2>6 DEF HandoffInv, Awaiting, TypeOK
    <3>2. \A j \in DOMAIN queued : queued[j] # mine
      BY <2>6, <3>1 DEF AwaitingOK
    <3>3. mine \in Ranges
      <4>1. bundles[got[r].idx] \in Bundles
        BY <1>1, <3>1 DEF TypeOK
      <4>2. QED
        BY <4>1 DEF Handoff, Ranges, Bundles
    <3>4. /\ DOMAIN queued' = DOMAIN queued \cup {Len(queued) + 1}
          /\ queued'[Len(queued) + 1] = mine
          /\ \A j \in DOMAIN queued : queued'[j] = queued[j]
      BY <1>1, <2>6, <3>3
    <3>5. HandoffsAreBundles'
      <4>1. \A j \in DOMAIN queued' : \E i \in DOMAIN bundles' : queued'[j] = Handoff(i)'
        BY <1>1, <2>1, <2>2, <3>1, <3>4 DEF HandoffsAreBundles
      <4>2. \A j, k \in DOMAIN queued' : queued'[j] = queued'[k] => j = k
        BY <1>1, <3>2, <3>4 DEF HandoffsAreBundles
      <4>3. QED
        BY <4>1, <4>2 DEF HandoffsAreBundles
    <3>6. ASSUME NEW q \in Requests, Awaiting(q)' PROVE AwaitingOK(q)'
      <4>1. AwaitingOK(q) /\ Awaiting(q) /\ got'[q] = got[q] /\ plan'[q] = plan[q] /\ q # r
            /\ got[q].idx \in DOMAIN bundles
        BY <1>1, <2>3, <3>6 DEF HandoffInv
      <4>2. got[q].idx # got[r].idx
        BY <1>1, <2>6, <4>1 DEF HandoffInv
      <4>3. Handoff(got[q].idx) # mine
        BY <1>1, <3>1, <4>1, <4>2, HandoffsDiffer
      <4>4. Handoff(got[q].idx)' = Handoff(got[q].idx)
        BY <2>1, <4>1 DEF Handoff
      <4>5. \A j \in DOMAIN queued' : queued'[j] # Handoff(got[q].idx)
        BY <3>4, <4>1, <4>3 DEF AwaitingOK
      <4>6. QED
        BY <2>1, <4>1, <4>4, <4>5 DEF AwaitingOK
    <3>7. \A q \in Requests : AwaitingOK(q)'
      BY <3>6 DEF AwaitingOK
    <3>8. QED
      BY <2>4, <3>5, <3>7 DEF HandoffInv
  <2>7. QED
    BY <2>5, <2>6, QueueGrows
<1>4. QED
  BY <1>2, <1>3

\* A copy is completed, or already the row, only after it has seen every word.
LEMMA CompletionKept ==
    ASSUME Adapter = "postgres", IInv, NEW r \in Requests, Arrive(r) \/ Step(r)
    PROVE  CompletionInv'
<1> USE DEF IInv
<1>1. /\ TypeOK /\ CompletionInv /\ Words \in Nat /\ Frontier \in Nat /\ Frontier' \in Nat
      /\ Frontier <= Frontier' /\ Frontier <= Words /\ Frontier' <= Words
      /\ snap[r] \in SessionRows /\ got[r] \in Results /\ Cur(r) = snap[r]
      /\ pc \in [Requests -> Labels] /\ snap \in [Requests -> SessionRows]
      /\ snap[r].w \in Nat
  BY FrontierNat, FrontierGrows, LedgerKept, PgCur, ConstantsAssumption
     DEF LedgerStrong, LedgerInv, LedgerTiles, TypeOK, ConstantsAssumption, SessionRows
<1>2. db'.state = "completed" => Frontier' = Words
  <2>1. CASE Commit(r)
    <3>1. db'.state = db.state
      BY <1>1, <2>1 DEF Commit, Insert, TypeOK, SessionRows
    <3>2. QED
      BY <1>1, <3>1 DEF CompletionInv
  <2>2. CASE Save(r)
    <3>1. db' = snap[r] /\ pc[r] = "save"
      BY <1>1, <2>2 DEF Save
    <3>2. snap[r].w <= Frontier
      BY DEF LedgerStrong, CountersInv, Honest
    <3>3. QED
      BY <1>1, <3>1, <3>2 DEF CompletionInv
  <2>3. CASE ~Commit(r) /\ ~Save(r)
    <3>1. db' = db
      BY <1>1, <2>3, OnlyCommitAndSaveWrite
    <3>2. QED
      BY <1>1, <3>1 DEF CompletionInv
  <2>4. QED
    BY <2>1, <2>2, <2>3
<1>3. ASSUME pc'[r] = "save", snap'[r].state = "completed"
      PROVE  snap'[r].w >= Words
  <2>1. CASE PlanStream(r)
    <3>1. \/ /\ Remaining(snap[r].w) < 1
             /\ snap' = [snap EXCEPT ![r] = [snap[r] EXCEPT !.state = "completed"]]
          \/ snap' = [snap EXCEPT ![r] = [snap[r] EXCEPT !.state = "expired"]]
      BY <1>1, <1>3, <2>1, PgSetCur DEF PlanStream, Complete, CloseBudget, Goto, SetCur
    <3>2. Remaining(snap[r].w) < 1 /\ snap'[r] = [snap[r] EXCEPT !.state = "completed"]
      BY <1>1, <1>3, <3>1 DEF SessionRows
    <3>3. QED
      BY <1>1, <3>2 DEF Remaining, SessionRows
  <2>2. CASE PlanWord(r)
    <3>1. \/ /\ plan[r].start >= Words
             /\ snap' = [snap EXCEPT ![r] = [snap[r] EXCEPT !.state = "completed"]]
          \/ snap' = [snap EXCEPT ![r] = [snap[r] EXCEPT !.state = "expired"]]
      BY <1>1, <1>3, <2>2, PgSetCur DEF PlanWord, Complete, CloseBudget, Goto, SetCur
    <3>2. plan[r].start >= Words /\ snap'[r] = [snap[r] EXCEPT !.state = "completed"]
      BY <1>1, <1>3, <3>1 DEF SessionRows
    <3>3. plan[r].start = snap[r].w
      BY <2>2 DEF PlanWord, LedgerStrong, PlanInv, PlanOK
    <3>4. QED
      BY <1>1, <3>2, <3>3 DEF SessionRows
  <2>3. CASE Return(r)
    <3>1. SetCur(r, [Applied(Cur(r), got[r]) EXCEPT !.state = "completed"])
          /\ Applied(Cur(r), got[r]).w >= Words
      BY <1>1, <1>3, <2>3 DEF Return, SaveThen, Answer
    <3>2. Applied(snap[r], got[r]) \in SessionRows
      BY <1>1, <2>3, AppliedIsSession DEF Return, TypeOK
    <3>3. snap'[r] = [Applied(snap[r], got[r]) EXCEPT !.state = "completed"]
      BY <1>1, <3>1, PgSetCur
    <3>4. QED
      BY <1>1, <3>1, <3>2, <3>3 DEF SessionRows
  <2>4. CASE Abort(r) \/ GuardExpired(r)
    <3>1. \E state \in {"aborted", "expired"} :
            snap' = [snap EXCEPT ![r] = [snap[r] EXCEPT !.state = state]]
      BY <1>1, <2>4 DEF Abort, GuardExpired, SetCur
    <3>2. snap'[r].state \in {"aborted", "expired"}
      BY <1>1, <3>1 DEF SessionRows
    <3>3. QED
      BY <1>3, <3>2
  <2>5. CASE ~PlanStream(r) /\ ~PlanWord(r) /\ ~Return(r) /\ ~Abort(r) /\ ~GuardExpired(r)
    <3>1. ~RecordMemory(r)
      BY DEF RecordMemory
    <3>2. pc'[r] # "save"
      BY <1>1, <2>5, <3>1 DEF Step, Arrive, Request, LookupHit, LookupMiss, RecheckHit,
         RecheckMiss, GuardTerminal, GuardPass, Unavailable, PlanFree, VerifyReject,
         VerifyAccept, RecordDedup, CommitConflict, CommitRefused, Commit, Save, Goto, Answer
    <3>3. QED
      BY <1>3, <3>2
  <2>6. QED
    BY <2>1, <2>2, <2>3, <2>4, <2>5
<1>4. ASSUME NEW q \in Requests, pc'[q] = "save", snap'[q].state = "completed"
      PROVE  snap'[q].w >= Words
  <2>1. CASE q = r
    BY <1>3, <1>4, <2>1
  <2>2. CASE q # r
    <3>1. pc'[q] = pc[q] /\ snap'[q] = snap[q]
      BY <1>1, <2>2, OthersStay
    <3>2. QED
      BY <1>1, <1>4, <3>1 DEF CompletionInv
  <2>3. QED
    BY <2>1, <2>2
<1>5. QED
  BY <1>2, <1>4 DEF CompletionInv

-----------------------------------------------------------------------------
(* The invariant.                                                          *)

LEMMA InitIInv ==
    ASSUME Init
    PROVE  IInv
<1>1. Words \in Nat /\ Price \in Nat /\ Budget \in Nat
  BY ConstantsAssumption DEF ConstantsAssumption
<1>2. TypeOK
  BY InitType
<1>3. bundles = <<>> /\ queued = <<>> /\ DOMAIN bundles = {} /\ DOMAIN queued = {}
      /\ Frontier = 0
  BY DEF Init, Frontier
<1>4. LedgerInv
  <2>1. Price * 0 = 0 /\ 0 .. (0 - 1) = {}
    BY <1>1
  <2>2. Covered = {}
    BY <1>3 DEF Covered
  <2>3. QED
    BY <1>1, <1>3, <2>1, <2>2 DEF LedgerInv, LedgerTiles, WithinBudget
<1>5. CountersInv
  BY <1>1, <1>3 DEF Init, CountersInv, Honest, NewSession, NoResult
<1>6. \A r \in Requests : pc[r] = "idle"
  BY DEF Init
<1>7. PlanInv /\ HandoffInv
  BY <1>6 DEF PlanInv, PlanOK, Planned, HandoffInv, AwaitingOK, Awaiting
<1>8. HandoffsAreBundles /\ CompletionInv
  BY <1>3, <1>6 DEF HandoffsAreBundles, CompletionInv, Init, NewSession
<1>9. QED
  BY <1>2, <1>4, <1>5, <1>7, <1>8 DEF IInv, LedgerStrong

\* A restart only loses handlers, and what is said of a lost handler is nothing.
LEMMA CrashKeeps ==
    ASSUME IInv, Crash
    PROVE  LedgerStrong'
<1> USE DEF IInv
<1>1. UNCHANGED <<db, bundles, arg, snap, plan, got, queued>>
  BY DEF Crash
<1>2. ASSUME NEW r \in Requests
      PROVE  pc'[r] = pc[r] \/ pc'[r] = "lost"
  BY DEF Crash
<1>3. LedgerInv' /\ CountersInv' /\ HandoffsAreBundles'
  BY <1>1 DEF LedgerStrong, LedgerInv, LedgerTiles, WithinBudget, Covered, Frontier,
     CountersInv, Honest, HandoffsAreBundles, Handoff
<1>4. PlanInv'
  BY <1>1, <1>2 DEF LedgerStrong, PlanInv, PlanOK, Planned
<1>5. CompletionInv'
  BY <1>1, <1>2 DEF LedgerStrong, CompletionInv, Frontier
<1>6. HandoffInv'
  <2>1. ASSUME NEW r \in Requests, Awaiting(r)' PROVE Awaiting(r)
    BY <1>1, <1>2, <2>1 DEF Awaiting
  <2>2. ASSUME NEW r \in Requests PROVE AwaitingOK(r)'
    BY <1>1, <2>1 DEF LedgerStrong, HandoffInv, AwaitingOK, Handoff
  <2>3. QED
    BY <1>1, <2>1, <2>2 DEF LedgerStrong, HandoffInv
<1>7. QED
  BY <1>3, <1>4, <1>5, <1>6 DEF LedgerStrong

LEMMA QuietKeeps ==
    ASSUME IInv, UNCHANGED <<db, bundles, reqVars, queued>>
    PROVE  LedgerStrong'
<1>1. UNCHANGED <<db, bundles, pc, arg, snap, plan, got, queued>>
  BY DEF reqVars
<1>2. LedgerInv' /\ CountersInv' /\ HandoffsAreBundles'
  BY <1>1 DEF IInv, LedgerStrong, LedgerInv, LedgerTiles, WithinBudget, Covered, Frontier,
     CountersInv, Honest, HandoffsAreBundles, Handoff
<1>3. PlanInv' /\ CompletionInv'
  BY <1>1 DEF IInv, LedgerStrong, PlanInv, PlanOK, CompletionInv, Frontier
<1>4. HandoffInv'
  BY <1>1 DEF IInv, LedgerStrong, HandoffInv, AwaitingOK, Awaiting, Handoff
<1>5. QED
  BY <1>2, <1>3, <1>4 DEF LedgerStrong

LEMMA NextKeeps ==
    ASSUME Adapter = "postgres", IInv, [Next]_vars
    PROVE  IInv'
<1>1. TypeOK'
  BY NextType DEF IInv
<1>2. ASSUME NEW r \in Requests, Arrive(r) \/ Step(r) PROVE LedgerStrong'
  BY <1>2, LedgerKept, CountersKept, PlanKept, HandoffKept, CompletionKept DEF LedgerStrong
<1>3. CASE Expire
  BY <1>1, <1>3, QuietKeeps DEF Expire, IInv
<1>4. CASE Crash
  BY <1>1, <1>4, CrashKeeps DEF IInv
<1>5. CASE UNCHANGED vars
  BY <1>1, <1>5, QuietKeeps DEF vars, reqVars, IInv
<1>6. QED
  BY <1>1, <1>2, <1>3, <1>4, <1>5 DEF Next, IInv

\* Every reachable state of the Postgres deployment satisfies the strengthening.
THEOREM InvariantHolds ==
    ASSUME Adapter = "postgres"
    PROVE  Spec => []IInv
<1>1. Init => IInv
  BY InitIInv
<1>2. IInv /\ [Next]_vars => IInv'
  BY NextKeeps
<1>3. QED
  BY <1>1, <1>2, PTL DEF Spec

\* recordBundle and saveSession: what the stale copies of concurrent handlers may still
\* be trusted for, while the ledger tiles the article within the budget.
THEOREM LedgerSafe ==
    ASSUME Adapter = "postgres"
    PROVE  Spec => []LedgerStrong
<1>1. IInv => LedgerStrong
  BY DEF IInv
<1>2. QED
  BY <1>1, InvariantHolds, PTL

\* recordBundle: committed ranges follow one another, whatever handlers write back.
THEOREM NoWordTwice ==
    ASSUME Adapter = "postgres"
    PROVE  Spec => []LedgerTiles
<1>1. IInv => LedgerTiles
  BY DEF IInv, LedgerStrong, LedgerInv
<1>2. QED
  BY <1>1, InvariantHolds, PTL

\* affordableWordCount on a stale copy still never lets the ledger outspend the budget.
THEOREM NeverOverBudget ==
    ASSUME Adapter = "postgres"
    PROVE  Spec => []WithinBudget
<1>1. IInv => WithinBudget
  BY DEF IInv, LedgerStrong, LedgerInv
<1>2. QED
  BY <1>1, InvariantHolds, PTL

\* saveSession never persists "completed" for an article that was not read to its end.
THEOREM CompletedIsComplete ==
    ASSUME Adapter = "postgres"
    PROVE  Spec => []CompletedMeansAllRead
<1>1. IInv => CompletedMeansAllRead
  BY DEF IInv, LedgerStrong, LedgerInv, CompletionInv, CompletedMeansAllRead
<1>2. QED
  BY <1>1, InvariantHolds, PTL

\* afterCommit: what reaches the settlement queue is a committed bundle at its price,
\* once.
THEOREM HandoffsExact ==
    ASSUME Adapter = "postgres"
    PROVE  Spec => []HandoffsAreBundles
<1>1. IInv => HandoffsAreBundles
  BY DEF IInv, LedgerStrong
<1>2. QED
  BY <1>1, InvariantHolds, PTL

-----------------------------------------------------------------------------
(* Settlement on the request path.                                         *)

\* Where a request can be once its words are in the ledger.
Past == {"return", "save", "done", "lost"}

\* A charge that pays for a bundle is that of a request which has been to the ledger, and
\* a request on its way there has one of its own, for all the words it planned.
Covers(pays) ==
    /\ pays \in [DOMAIN bundles -> DOMAIN charged]
    /\ \A i, j \in DOMAIN bundles : pays[i] = pays[j] => i = j
    /\ \A i \in DOMAIN bundles : bundles[i].gross <= charged[pays[i]].amount
    /\ \A i \in DOMAIN bundles : pc[charged[pays[i]].req] \in Past

OwnCharge(r) ==
    \E k \in DOMAIN charged : charged[k] = [req |-> r, amount |-> Price * plan[r].n]

Backed ==
    SettleInline /\ Access = "paid" =>
        /\ \E pays : Covers(pays)
        /\ \A r \in Requests : pc[r] \in {"record", "commit"} => OwnCharge(r)

\* Only requests bring authorisations that are charged.
LEMMA ChargersAreRequests ==
    ASSUME TypeOK
    PROVE  \A k \in DOMAIN charged : charged[k].req \in Requests
<1>1. charged \in Seq(Charges)
  BY DEF TypeOK
<1>2. \A k \in DOMAIN charged : charged[k] \in Charges
  BY <1>1
<1>3. QED
  BY <1>2 DEF Charges

\* A request that is past its charge stays there until it returns.
LEMMA PastStays ==
    ASSUME Adapter = "postgres", TypeOK, NEW r \in Requests, Arrive(r) \/ Step(r),
           NEW q \in Requests, pc[q] \in Past
    PROVE  pc'[q] \in Past
<1>1. CASE q # r
  BY <1>1, OthersStay
<1>2. CASE q = r
  <2>1. Return(r) \/ Save(r)
    BY <1>2 DEF Past, Step, Arrive, Request, LookupHit, LookupMiss, RecheckHit, RecheckMiss,
       GuardTerminal, GuardExpired, GuardPass, Unavailable, PlanStream, PlanWord, PlanFree,
       VerifyReject, VerifyAccept, RecordMemory, RecordDedup, CommitConflict, CommitRefused,
       Commit, Abort
  <2>2. QED
    BY <1>2, <2>1 DEF Return, Save, Answer, SaveThen, TypeOK, Past
<1>3. QED
  BY <1>1, <1>2

\* Charges are never taken back.
LEMMA ChargesGrow ==
    ASSUME Adapter = "postgres", TypeOK, NEW r \in Requests, Arrive(r) \/ Step(r)
    PROVE  /\ DOMAIN charged \subseteq DOMAIN charged'
           /\ \A k \in DOMAIN charged : charged'[k] = charged[k]
<1>1. CASE VerifyAccept(r)
  <2>1. charged' = charged \/ charged' = Append(charged, [req |-> r, amount |-> Price * plan[r].n])
    BY <1>1 DEF VerifyAccept
  <2>2. charged \in Seq(Charges) /\ Len(charged) \in Nat /\ DOMAIN charged = 1 .. Len(charged)
    BY DEF TypeOK
  <2>3. ASSUME NEW c, charged' = Append(charged, c)
        PROVE  /\ DOMAIN charged' = 1 .. (Len(charged) + 1)
               /\ \A k \in 1 .. Len(charged) : charged'[k] = charged[k]
    BY <2>2, <2>3
  <2>4. QED
    BY <2>1, <2>2, <2>3
<1>2. CASE ~VerifyAccept(r)
  BY <1>2 DEF Step, Arrive, Request, LookupHit, LookupMiss, RecheckHit, RecheckMiss,
     GuardTerminal, GuardExpired, GuardPass, Unavailable, PlanStream, PlanWord, PlanFree,
     VerifyReject, RecordMemory, RecordDedup, CommitConflict, CommitRefused, Commit, Return,
     Abort, Save
<1>3. QED
  BY <1>1, <1>2

\* A request is at the ledger only after the provider accepted, and plans nothing new.
LEMMA OwnChargeKept ==
    ASSUME Adapter = "postgres", SettleInline, Access = "paid", TypeOK, Backed,
           NEW r \in Requests, Arrive(r) \/ Step(r),
           NEW q \in Requests, pc'[q] \in {"record", "commit"}
    PROVE  OwnCharge(q)'
<1>1. CASE q # r
  <2>1. pc[q] \in {"record", "commit"} /\ plan'[q] = plan[q]
    BY <1>1, OthersStay
  <2>2. PICK k \in DOMAIN charged : charged[k] = [req |-> q, amount |-> Price * plan[q].n]
    BY <2>1 DEF Backed, OwnCharge
  <2>3. k \in DOMAIN charged' /\ charged'[k] = charged[k]
    BY ChargesGrow
  <2>4. QED
    BY <2>1, <2>2, <2>3 DEF OwnCharge
<1>2. CASE q = r
  <2>1. VerifyAccept(r) \/ RecordDedup(r)
    BY <1>2 DEF Step, Arrive, Request, LookupHit, LookupMiss, RecheckHit, RecheckMiss,
       GuardTerminal, GuardExpired, GuardPass, Unavailable, PlanStream, PlanWord, PlanFree,
       VerifyReject, RecordMemory, CommitConflict, CommitRefused, Commit, Return, Abort,
       Save, Goto, Answer, SaveThen, Complete, CloseBudget, TypeOK
  <2>2. CASE VerifyAccept(r)
    <3>1. charged' = Append(charged, [req |-> r, amount |-> Price * plan[r].n])
          /\ charged \in Seq(Charges) /\ plan' = plan
      BY <2>2 DEF VerifyAccept, TypeOK
    <3>2. Len(charged) + 1 \in DOMAIN charged'
          /\ charged'[Len(charged) + 1] = [req |-> r, amount |-> Price * plan[r].n]
      BY <3>1
    <3>3. QED
      BY <1>2, <3>1, <3>2 DEF OwnCharge
  <2>3. CASE RecordDedup(r)
    <3>1. pc[r] = "record" /\ charged' = charged
      BY <2>3 DEF RecordDedup
    <3>2. plan'[r].n = plan[r].n
      BY <2>3 DEF RecordDedup, Compose, TypeOK, Plans
    <3>3. QED
      BY <1>2, <3>1, <3>2 DEF Backed, OwnCharge
  <2>4. QED
    BY <2>1, <2>2, <2>3
<1>3. QED
  BY <1>1, <1>2

\* A commit takes the charge of its own request.
LEMMA CoversExtends ==
    ASSUME Adapter = "postgres", SettleInline, Access = "paid", IInv, Backed,
           NEW r \in Requests, Commit(r)
    PROVE  \E pays : Covers(pays)'
<1> USE DEF IInv
<1>1. PICK pays : Covers(pays)
  BY DEF Backed
<1>2. pc[r] = "commit" /\ charged' = charged /\ pc' = [pc EXCEPT ![r] = "return"]
  BY DEF Commit, Goto
<1>3. PICK k \in DOMAIN charged : charged[k] = [req |-> r, amount |-> Price * plan[r].n]
  BY <1>2 DEF Backed, OwnCharge
<1> DEFINE new  == Len(bundles) + 1
           more == [i \in DOMAIN bundles' |-> IF i = new THEN k ELSE pays[i]]
<1>4. new \notin DOMAIN bundles /\ Len(bundles) \in Nat
  BY DEF TypeOK
<1>5. DOMAIN bundles' = DOMAIN bundles \cup {new}
      /\ (\A i \in DOMAIN bundles : bundles'[i] = bundles[i])
      /\ bundles'[new].gross = Price * plan[r].m
  BY CommitExtends
<1>6. plan[r].m = plan[r].n
  BY CommitsAtFrontier
<1>7. bundles'[new].gross <= charged[k].amount
  <2>1. Price * plan[r].n \in Nat
    BY ConstantsAssumption DEF ConstantsAssumption, TypeOK, Plans
  <2>2. QED
    BY <1>3, <1>5, <1>6, <2>1
<1>8. \A i \in DOMAIN bundles : pays[i] \in DOMAIN charged /\ pays[i] # k
      /\ bundles[i].gross <= charged[pays[i]].amount /\ pc[charged[pays[i]].req] \in Past
  BY <1>1, <1>2, <1>3 DEF Covers, Past
<1>9. more \in [DOMAIN bundles' -> DOMAIN charged']
  BY <1>2, <1>3, <1>5, <1>8
<1>10. \A i, j \in DOMAIN bundles' : more[i] = more[j] => i = j
  BY <1>1, <1>4, <1>5, <1>8 DEF Covers
<1>11. \A i \in DOMAIN bundles' : bundles'[i].gross <= charged'[more[i]].amount
  BY <1>2, <1>4, <1>5, <1>7, <1>8
<1>12. \A i \in DOMAIN bundles' : pc'[charged'[more[i]].req] \in Past
  <2>1. \A q : pc[q] \in Past => q # r
    BY <1>2 DEF Past
  <2>2. pc'[r] \in Past
    BY <1>2 DEF Past, TypeOK
  <2>3. \A i \in DOMAIN charged : charged[i].req \in Requests
    BY ChargersAreRequests
  <2>4. \A i \in DOMAIN bundles : pc'[charged[pays[i]].req] = pc[charged[pays[i]].req]
    BY <1>2, <1>8, <2>1, <2>3 DEF TypeOK
  <2>5. QED
    BY <1>2, <1>3, <1>4, <1>5, <1>8, <2>2, <2>4
<1>13. QED
  BY <1>9, <1>10, <1>11, <1>12 DEF Covers

\* A step that moves no request across its charge keeps each bundle backed by its own.
LEMMA BackedKept ==
    ASSUME Adapter = "postgres", IInv, Backed, NEW r \in Requests, Arrive(r) \/ Step(r)
    PROVE  Backed'
<1> USE DEF IInv
<1> SUFFICES ASSUME SettleInline, Access = "paid"
             PROVE  /\ \E pays : Covers(pays)'
                    /\ \A q \in Requests : pc'[q] \in {"record", "commit"} => OwnCharge(q)'
  BY DEF Backed
<1>1. CASE ~Commit(r)
  <2>1. PICK pays : Covers(pays)
    BY DEF Backed
  <2>2. bundles' = bundles
    BY <1>1, OnlyCommitAppends
  <2>3. \A k \in DOMAIN charged : charged[k].req \in Requests
    BY ChargersAreRequests
  <2>4. \A i \in DOMAIN bundles :
          /\ pays[i] \in DOMAIN charged'
          /\ charged'[pays[i]] = charged[pays[i]]
          /\ pc'[charged[pays[i]].req] \in Past
    BY <2>1, <2>3, ChargesGrow, PastStays DEF Covers
  <2>5. Covers(pays)'
    BY <2>1, <2>2, <2>4 DEF Covers
  <2>6. QED
    BY <2>5, OwnChargeKept
<1>2. CASE Commit(r)
  BY <1>2, CoversExtends, OwnChargeKept
<1>3. QED
  BY <1>1, <1>2

\* Every step keeps the bundles backed.
LEMMA BackedNext ==
    ASSUME Adapter = "postgres", IInv, Backed, [Next]_vars
    PROVE  Backed'
<1>1. ASSUME NEW r \in Requests, Arrive(r) \/ Step(r) PROVE Backed'
  BY <1>1, BackedKept
<1>2. CASE Expire \/ UNCHANGED vars
  BY <1>2 DEF Expire, vars, reqVars, Backed, Covers, OwnCharge
<1>3. CASE Crash
  <2>1. UNCHANGED <<bundles, charged, plan>>
    BY <1>3 DEF Crash
  <2>2. \A r \in Requests : pc'[r] \in {pc[r], "lost"}
    BY <1>3 DEF Crash
  <2>3. \A k \in DOMAIN charged : charged[k].req \in Requests
    BY ChargersAreRequests DEF IInv
  <2>4. ASSUME NEW pays, Covers(pays) PROVE Covers(pays)'
    BY <2>1, <2>2, <2>3, <2>4 DEF Covers, Past
  <2>5. QED
    BY <2>1, <2>2, <2>4 DEF Backed, OwnCharge
<1>4. QED
  BY <1>1, <1>2, <1>3 DEF Next

\* CircleX402PaymentVerifier with synchronousSettlement: no words without a charge of
\* their own, however many requests verify and commit side by side.
THEOREM ChargesComeFirst ==
    ASSUME Adapter = "postgres"
    PROVE  Spec => []ChargedBeforeRelease
<1>1. Init => Backed
  <2>1. ASSUME Init PROVE Covers(<<>>) /\ \A r \in Requests : pc[r] = "idle"
    BY <2>1 DEF Init, Covers
  <2>2. QED
    BY <2>1 DEF Backed
<1>2. IInv /\ Backed /\ [Next]_vars => Backed'
  BY BackedNext
<1>3. Backed => ChargedBeforeRelease
  BY DEF Backed, Covers, ChargedBeforeRelease
<1>4. QED
  BY <1>1, <1>2, <1>3, InvariantHolds, PTL DEF Spec
=============================================================================

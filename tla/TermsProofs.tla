----------------------------- MODULE TermsProofs -----------------------------
(***************************************************************************)
(* Words are released for what was signed for them, for any number of      *)
(* readers of one session, any price, budget and length of article.  An    *)
(* authorisation is told apart by its fields alone: the gateway keeps no   *)
(* record of what it has offered beyond the issued requirement.            *)
(***************************************************************************)
EXTENDS PaymentTerms, TLAPS

\* What a reader can have signed.
Offers ==
    {Issued(0)} \cup {WithChunkRequirement(Issued(0), n, w) : n \in Nat \ {0}, w \in Nat}

Bundle == [start : 0 .. Words, n : 1 .. Words, key : Seq(Nat), signed : Offers]

Exchange ==
    [at : {"none", "sent", "refused", "asking", "funded", "answered"},
     mode : {"none", "chunk", "word"}, max : 0 .. Words \cup {1}, key : Seq(Nat),
     signed : Offers, start : 0 .. Words, n : 0 .. Words, why : Reasons, w : 0 .. Words,
     paid : Nat, done : BOOLEAN]

Loops ==
    [Readers -> [at : {"loop", "await", "abort", "stopped"}, words : 0 .. Words, paid : Nat]]
Rows  == [budget : Budgets, w : 0 .. Words, paid : Nat, open : BOOLEAN]

TermsTypes ==
    /\ row \in Rows
    /\ issued = Issued(0)
    /\ ledger \in Seq(Bundle)
    /\ loop \in Loops
    /\ request \in [Readers -> Exchange]

\* The authorisation is for n words from start on: the amount is theirs, and a chunk
\* names them.
Binds(signed, n, start) ==
    /\ signed.amount = Price * n
    /\ "maxWords" \in DOMAIN signed.extra =>
          signed.extra.maxWords = n /\ signed.extra.sequence = start

\* A request on its way to the ledger: words the session has, and bound to them.
Bound(q) ==
    q.at \in {"asking", "funded"} =>
       q.n >= 1 /\ q.start + q.n <= Words /\ Binds(q.signed, q.n, q.start)

\* The inductive invariant: what is on its way to the ledger is bound to the words it
\* will pay for, at the position it was judged at.
TermsInv ==
    /\ TermsTypes
    /\ \A r \in Readers : Bound(request[r])
    /\ PaidAsSigned

-----------------------------------------------------------------------------
(* Requirements by their fields.                                           *)

\* An issued requirement is for no chunk.
LEMMA IssuedFields ==
    ASSUME NEW w
    PROVE  /\ Issued(w).amount = Price
           /\ DOMAIN Issued(w).extra = {"sequence", "amountAtomic", "nonce", "idempotencyKey"}
           /\ Issued(w).extra["nonce"] = <<w>>
  BY DEF Issued

\* Written over other fields, those of a chunk stay.
LEMMA ChunkFields ==
    ASSUME NEW n, NEW w, NEW base
    PROVE  LET e == Spread(base, ChunkExtra(n, w)) IN
           /\ {"maxWords", "sequence", "nonce"} \subseteq DOMAIN e
           /\ e["maxWords"] = n /\ e["sequence"] = w /\ e["nonce"] = <<w, n>>
<1>1. /\ {"maxWords", "sequence", "nonce"} \subseteq DOMAIN ChunkExtra(n, w)
      /\ ChunkExtra(n, w)["maxWords"] = n
      /\ ChunkExtra(n, w)["sequence"] = w
      /\ ChunkExtra(n, w)["nonce"] = <<w, n>>
  BY DEF ChunkExtra
<1>2. \A f \in DOMAIN ChunkExtra(n, w) :
         /\ f \in DOMAIN Spread(base, ChunkExtra(n, w))
         /\ Spread(base, ChunkExtra(n, w))[f] = ChunkExtra(n, w)[f]
  BY Zenon DEF Spread
<1> QED BY <1>1, <1>2

\* The nonce of a chunk is never the nonce of a word.
LEMMA NoncesDiffer ==
    ASSUME NEW w, NEW n, NEW v
    PROVE  <<w, n>> # <<v>>
  OBVIOUS

\* The price of n words covers n words.
LEMMA CoversItsWords ==
    ASSUME TermsAssumption, NEW n \in Nat, n >= 1
    PROVE  WordsCovered(Price * n) = n
<1>1. (Price * n) \div Price = n
  BY DEF TermsAssumption
<1> QED BY <1>1 DEF WordsCovered

\* Of all that can be signed, only the issued requirement matches the issued one.
LEMMA OnlyIssuedMatches ==
    ASSUME NEW signed \in Offers, Matches(Issued(0), signed)
    PROVE  signed = Issued(0)
<1>1. SUFFICES ASSUME NEW n \in Nat \ {0}, NEW w \in Nat,
                      signed = WithChunkRequirement(Issued(0), n, w)
               PROVE  FALSE
  BY DEF Offers
<1>2. signed.extra = Spread(Issued(0).extra, ChunkExtra(n, w))
  BY <1>1 DEF WithChunkRequirement
<1>3. signed.extra["nonce"] = <<w, n>>
  BY <1>2, ChunkFields
<1>4. signed.extra["nonce"] = <<0>>
  BY IssuedFields DEF Matches
<1> QED BY <1>3, <1>4, NoncesDiffer

\* An authorisation that is taken for n words from w on is bound to them.
LEMMA MatchedBinds ==
    ASSUME TermsAssumption, issued = Issued(0), NEW signed \in Offers,
           NEW n \in Nat, n >= 1, NEW w \in Nat, Verdict(signed, n, w) = "matched"
    PROVE  Binds(signed, n, w)
<1> DEFINE offers == Acceptable(Price * n, w)
           found  == {i \in DOMAIN offers : Matches(offers[i], signed)}
           first  == CHOOSE i \in found : \A j \in found : i <= j
<1>1. found # {} /\ offers[first].amount = Price * n
  BY Zenon DEF Verdict
<1>2. PICK o \in DOMAIN offers : Matches(offers[o], signed) /\ offers[first].amount = Price * n
  BY <1>1
<1>3. first \in found
  <2>1. DOMAIN offers \in {1 .. 1, 1 .. 2}
    BY DEF Acceptable
  <2>2. \E i \in found : \A j \in found : i <= j
    <3> HIDE DEF offers
    <3>1. found \subseteq {1, 2} /\ found # {}
      BY <1>1, <2>1
    <3> HIDE DEF found, first
    <3>2. CASE 1 \in found
      BY <3>1, <3>2
    <3>3. CASE 1 \notin found
      <4>1. 2 \in found /\ \A j \in found : j = 2
        BY <3>1, <3>3
      <4> QED BY <4>1
    <3> QED BY <3>2, <3>3
  <2> HIDE DEF found
  <2> QED BY <2>2
<1>4. offers[first] \in {Issued(0), Mirrored(Issued(0), Price * n, w)}
  <2> HIDE DEF found, first
  <2> USE <1>3
  <2>1. first \in DOMAIN offers
    BY DEF found
  <2> QED BY <2>1 DEF Acceptable
<1>5. Matches(offers[first], signed)
  BY <1>3
<1> HIDE DEF offers, found, first
<1>6. CASE offers[first] = Issued(0)
  <2>1. signed = Issued(0)
    BY <1>5, <1>6, OnlyIssuedMatches
  <2> QED BY <1>1, <1>6, <2>1, IssuedFields DEF Binds
<1>7. CASE offers[first] = Mirrored(Issued(0), Price * n, w)
  <2>1. /\ signed.amount = Price * n
        /\ offers[first].extra = Spread(Issued(0).extra, ChunkExtra(n, w))
    BY <1>5, <1>7, CoversItsWords DEF Mirrored, Matches
  <2>2. signed.extra["maxWords"] = n /\ signed.extra["sequence"] = w
    BY <1>5, <2>1, ChunkFields DEF Matches
  <2> QED BY <2>1, <2>2 DEF Binds
<1> QED BY <1>4, <1>6, <1>7

-----------------------------------------------------------------------------
(* The steps.                                                              *)

\* No request is one.
LEMMA NoRequestFits ==
    ASSUME TermsAssumption
    PROVE  NoRequest \in Exchange /\ NoRequest.at = "none" /\ Bound(NoRequest)
<1>1. 0 \in 0 .. Words
  BY DEF TermsAssumption
<1>2. <<>> \in Seq(Nat) /\ Issued(0) \in Offers /\ "none" \in Reasons
  BY DEF Offers, Reasons
<1> QED BY <1>1, <1>2 DEF NoRequest, Exchange, Bound

\* The initial states satisfy the invariant.
LEMMA TermsStart ==
    ASSUME TermsAssumption, Init
    PROVE  TermsInv
<1>1. row \in Rows
  BY DEF Init, TermsAssumption, Rows
<1>2. ledger \in Seq(Bundle) /\ ledger = <<>>
  BY DEF Init
<1>3. loop \in Loops
  <2>1. 0 \in 0 .. Words
    BY DEF TermsAssumption
  <2> QED BY <2>1 DEF Init, Loops
<1>4. NoRequest \in Exchange /\ NoRequest.at = "none"
  BY NoRequestFits
<1>5. request \in [Readers -> Exchange] /\ \A r \in Readers : request[r].at = "none"
  BY <1>4 DEF Init
<1> QED BY <1>1, <1>2, <1>3, <1>5 DEF Init, TermsInv, TermsTypes, Bound, PaidAsSigned

\* A step that leaves the ledger and the issued requirement alone, and takes request r
\* to q, which is bound where it must be.
LEMMA RequestMoves ==
    ASSUME TermsInv, NEW r \in Readers, NEW q \in Exchange,
           request' = [request EXCEPT ![r] = q],
           Bound(q),
           row' \in Rows,
           loop' \in Loops,
           UNCHANGED <<issued, ledger>>
    PROVE  TermsInv'
<1>1. TermsTypes'
  BY DEF TermsInv, TermsTypes
<1>2. \A p \in Readers : request'[p] = IF p = r THEN q ELSE request[p]
  BY DEF TermsInv, TermsTypes
<1>3. PaidAsSigned'
  BY DEF TermsInv, PaidAsSigned
<1> QED BY <1>1, <1>2, <1>3 DEF TermsInv, Bound, Binds

\* A step that leaves the requests alone as well.
LEMMA LoopMoves ==
    ASSUME TermsInv,
           row' \in Rows,
           loop' \in Loops,
           UNCHANGED <<issued, ledger, request>>
    PROVE  TermsInv'
<1>1. TermsTypes' /\ PaidAsSigned'
  BY DEF TermsInv, TermsTypes, PaidAsSigned
<1> QED BY <1>1 DEF TermsInv, Bound, Binds

\* A loop that goes to another state.
LEMMA LoopAt ==
    ASSUME TermsInv, NEW r \in Readers, NEW at \in {"loop", "await", "abort", "stopped"}
    PROVE  [loop EXCEPT ![r].at = at] \in Loops
  BY DEF TermsInv, TermsTypes, Loops

\* Resolving an address, giving up, stopping and aborting sell nothing.
LEMMA QuietKeeps ==
    ASSUME TermsInv, NEW r \in Readers,
           \/ ResolveCli(r) \/ ResolveAgent(r) \/ SignFails(r) \/ GiveUp(r) \/ Stop(r)
           \/ AbortSession(r)
    PROVE  TermsInv'
<1>1. CASE ResolveCli(r) \/ ResolveAgent(r)
  BY <1>1, LoopMoves DEF ResolveCli, ResolveAgent, Resolved, TermsInv, TermsTypes
<1>2. CASE SignFails(r) \/ GiveUp(r) \/ Stop(r)
  <2>1. loop' \in Loops
    BY <1>2, LoopAt DEF SignFails, GiveUp, Stop
  <2> QED BY <1>2, <2>1, LoopMoves DEF SignFails, GiveUp, Stop, TermsInv, TermsTypes
<1>3. CASE AbortSession(r)
  <2>1. row' \in Rows
    BY <1>3 DEF AbortSession, TermsInv, TermsTypes, Rows
  <2>2. loop' \in Loops
    BY <1>3, LoopAt DEF AbortSession
  <2> QED BY <1>3, <2>1, <2>2, LoopMoves DEF AbortSession, TermsInv, TermsTypes
<1> QED BY <1>1, <1>2, <1>3

\* Either mode signs one of the offers.
LEMMA SendKeeps ==
    ASSUME TermsAssumption, TermsInv,
           NEW r \in Readers, NEW mode \in {"chunk", "word"}, NEW max \in 0 .. Words \cup {1},
           NEW key \in Seq(Nat), NEW signed \in Offers, Send(r, mode, max, key, signed)
    PROVE  TermsInv'
<1> DEFINE q == [NoRequest EXCEPT !.at = "sent", !.mode = mode, !.max = max,
                                  !.key = key, !.signed = signed]
<1>1. NoRequest \in Exchange
  BY NoRequestFits
<1>2. q \in Exchange /\ q.at = "sent" /\ Bound(q)
  BY <1>1 DEF Exchange, Bound
<1>3. request' = [request EXCEPT ![r] = q]
  BY Zenon DEF Send
<1>4. loop' \in Loops /\ UNCHANGED <<row, issued, ledger>>
  BY LoopAt DEF Send
<1> HIDE DEF q
<1> QED BY <1>2, <1>3, <1>4, RequestMoves DEF TermsInv, TermsTypes

\* The least of three whole numbers is one, and above none of them.
LEMMA LeastInt ==
    ASSUME NEW a \in Int, NEW b \in Int, NEW c \in Int
    PROVE  /\ MinOf(MinOf(a, b), c) \in Int
           /\ MinOf(MinOf(a, b), c) <= a /\ MinOf(MinOf(a, b), c) <= c
  BY DEF MinOf

\* A reader signs for the words it can still afford and has not read.
LEMMA SignKeeps ==
    ASSUME TermsAssumption, TermsInv, NEW r \in Readers,
           SignWord(r) \/ \E want \in Wants : SignChunk(r, want)
    PROVE  TermsInv'
<1>1. /\ loop[r].words \in Nat /\ loop[r].words <= Words
      /\ loop[r].paid \in Nat /\ row.budget \in Nat /\ issued = Issued(0)
  <2>1. /\ loop[r].words \in 0 .. Words /\ loop[r].paid \in Nat
        /\ row.budget \in Budgets /\ issued = Issued(0)
    BY DEF TermsInv, TermsTypes, Loops, Rows
  <2>2. Words \in Nat /\ Budgets \subseteq Nat
    BY DEF TermsAssumption
  <2>3. PICK w \in 0 .. Words, b \in Budgets : w = loop[r].words /\ b = row.budget
    BY <2>1
  <2>4. w \in Nat /\ w <= Words /\ b \in Nat
    BY <2>2, <2>3
  <2> QED BY <2>1, <2>3, <2>4
<1>2. CASE SignWord(r)
  <2>1. <<loop[r].words>> \in Seq(Nat) /\ issued \in Offers
    BY <1>1 DEF Offers
  <2> QED BY <1>2, <2>1, SendKeeps DEF SignWord
<1>3. ASSUME NEW want \in Wants, SignChunk(r, want) PROVE TermsInv'
  <2> DEFINE n == Wanted(r, want)
  <2>1. Affordable(loop[r].paid) \in Nat
    BY <1>1 DEF Affordable, TermsAssumption
  <2>2. n \in Int /\ n <= Words
    <3>1. want \in Int /\ Words - loop[r].words \in Int
      BY <1>1 DEF TermsAssumption
    <3> DEFINE can == Affordable(loop[r].paid)
               left == Words - loop[r].words
    <3>2. n = MinOf(MinOf(want, can), left)
      BY DEF Wanted
    <3>3. can \in Int /\ left \in Int
      BY <2>1, <3>1
    <3>4. left <= Words
      BY <1>1 DEF TermsAssumption
    <3>5. Words \in Nat
      BY DEF TermsAssumption
    <3> HIDE DEF can, left, n
    <3> QED BY <3>1, <3>2, <3>3, <3>4, <3>5, LeastInt
  <2>3. n \in Nat \ {0} /\ n \in 0 .. Words
    <3>1. n >= 1 /\ Words \in Nat
      BY <1>3 DEF SignChunk, TermsAssumption
    <3> HIDE DEF n
    <3> QED BY <2>2, <3>1
  <2> HIDE DEF n
  <2>4. <<loop[r].words, n>> \in Seq(Nat)
        /\ WithChunkRequirement(issued, n, loop[r].words) \in Offers
    BY <1>1, <2>3 DEF Offers
  <2>5. Send(r, "chunk", n, <<loop[r].words, n>>, WithChunkRequirement(issued, n, loop[r].words))
    BY <1>3, Zenon DEF SignChunk, n
  <2> QED BY <2>3, <2>4, <2>5, SendKeeps
<1> QED BY <1>2, <1>3

\* The gateway judges: what goes on to the provider is bound to the words it will buy.
LEMMA JudgeKeeps ==
    ASSUME TermsAssumption, TermsInv, NEW r \in Readers, Judge(r)
    PROVE  TermsInv'
<1> DEFINE n == Sellable(r)
           v == Verdict(request[r].signed, n, row.w)
<1>1. /\ request[r] \in Exchange /\ request[r].signed \in Offers /\ request[r].max \in Nat
      /\ row \in Rows /\ row.w \in Nat /\ row.w \in 0 .. Words
      /\ row.paid \in Nat /\ row.budget \in Nat /\ row.budget \in Budgets
      /\ issued = Issued(0) /\ loop \in Loops /\ Words \in Nat
  <2>1. /\ request[r] \in Exchange /\ row \in Rows /\ loop \in Loops /\ issued = Issued(0)
    BY DEF TermsInv, TermsTypes
  <2>2. /\ request[r].signed \in Offers /\ request[r].max \in 0 .. Words \cup {1}
        /\ row.w \in 0 .. Words /\ row.paid \in Nat /\ row.budget \in Budgets
    BY <2>1 DEF Exchange, Rows
  <2>3. Words \in Nat /\ Budgets \subseteq Nat
    BY DEF TermsAssumption
  <2>4. PICK m \in 0 .. Words \cup {1}, w \in 0 .. Words, b \in Budgets :
          m = request[r].max /\ w = row.w /\ b = row.budget
    BY <2>2
  <2>5. m \in Nat /\ w \in Nat /\ b \in Nat
    BY <2>3, <2>4
  <2> QED BY <2>1, <2>2, <2>3, <2>4, <2>5
<1>2. UNCHANGED <<issued, ledger, loop>>
  BY DEF Judge
<1>3. n \in Int /\ row.w + n <= Words
  <2>1. Affordable(row.paid) \in Int /\ Words - row.w \in Int
    BY <1>1 DEF Affordable, TermsAssumption
  <2> DEFINE max  == request[r].max
             can  == Affordable(row.paid)
             left == Words - row.w
  <2>2. n = MinOf(MinOf(max, can), left)
    BY DEF Sellable
  <2>3. max \in Int /\ can \in Int /\ left \in Int
    BY <1>1, <2>1
  <2>4. n \in Int /\ n <= left
    <3> HIDE DEF max, can, left, n
    <3> QED BY <2>2, <2>3, LeastInt
  <2> HIDE DEF n
  <2> QED BY <1>1, <2>4
<1>4. row' \in Rows
  BY <1>1 DEF Judge, Rows
<1>5. row'.w \in 0 .. Words /\ row'.paid \in Nat /\ row'.open \in BOOLEAN
  BY <1>4 DEF Rows
<1>6. CASE Answered(r)
  <2> DEFINE q == [request[r] EXCEPT !.at = "answered", !.w = row'.w, !.paid = row'.paid,
                                     !.done = ~row'.open]
  <2>1. request' = [request EXCEPT ![r] = q]
    BY <1>6 DEF Answered, TermsInv, TermsTypes
  <2>2. q \in Exchange /\ Bound(q)
    BY <1>1, <1>5 DEF Exchange, Bound
  <2> HIDE DEF q
  <2> QED BY <1>1, <1>2, <1>4, <2>1, <2>2, RequestMoves
<1>7. ASSUME NEW why \in Reasons, Refused(r, why) PROVE TermsInv'
  <2> DEFINE q == [request[r] EXCEPT !.at = "refused", !.why = why]
  <2>1. request' = [request EXCEPT ![r] = q]
    BY <1>7 DEF Refused, TermsInv, TermsTypes
  <2>2. q \in Exchange /\ Bound(q)
    BY <1>1 DEF Exchange, Bound
  <2> HIDE DEF q
  <2> QED BY <1>1, <1>2, <1>4, <2>1, <2>2, RequestMoves
<1>8. CASE /\ n >= 1
           /\ request' = [request EXCEPT
                            ![r].start = row.w, ![r].n = n, ![r].why = v,
                            ![r].at = IF v = "matched" THEN "asking" ELSE "refused"]
  <2> DEFINE at == IF v = "matched" THEN "asking" ELSE "refused"
             q  == [request[r] EXCEPT !.start = row.w, !.n = n, !.why = v, !.at = at]
  <2>1. v \in Reasons
    BY Zenon DEF Verdict, Reasons
  <2>2. v = "matched" => Binds(request[r].signed, n, row.w)
    BY <1>1, <1>3, <1>8, MatchedBinds
  <2> HIDE DEF v, n
  <2>3. request' = [request EXCEPT ![r] = q]
    BY <1>8, Zenon DEF TermsInv, TermsTypes
  <2>4. at \in {"asking", "refused"} /\ (at = "asking" => v = "matched")
    OBVIOUS
  <2> HIDE DEF at
  <2>5. n \in 0 .. Words /\ row.w + n <= Words /\ n >= 1
    BY <1>1, <1>3, <1>8
  <2>6. q \in Exchange /\ Bound(q)
    BY <1>1, <2>1, <2>2, <2>4, <2>5 DEF Exchange, Bound
  <2> HIDE DEF q
  <2> QED BY <1>1, <1>2, <1>4, <2>3, <2>6, RequestMoves
<1>9. "closed" \in Reasons /\ "budget_exhausted" \in Reasons
  BY DEF Reasons
<1> QED BY <1>6, <1>7, <1>8, <1>9 DEF Judge

\* The provider changes nothing of what is bound.
LEMMA ProviderKeeps ==
    ASSUME TermsInv, NEW r \in Readers, Provider(r)
    PROVE  TermsInv'
<1>1. PICK at \in {"funded", "refused"}, why \in Reasons :
        request' = [request EXCEPT ![r] = [request[r] EXCEPT !.at = at, !.why = why]]
  <2>1. request[r] \in Exchange
    BY DEF TermsInv, TermsTypes
  <2>2. CASE request' = [request EXCEPT ![r].at = "funded"]
    <3>1. [request[r] EXCEPT !.at = "funded"]
            = [request[r] EXCEPT !.at = "funded", !.why = request[r].why]
      BY <2>1 DEF Exchange
    <3>2. request' = [request EXCEPT ![r] = [request[r] EXCEPT !.at = "funded"]]
      BY <2>2 DEF TermsInv, TermsTypes
    <3>3. request[r].why \in Reasons
      BY <2>1 DEF Exchange
    <3> QED BY <3>1, <3>2, <3>3, Zenon
  <2>3. CASE Refused(r, "payment_verification_failed")
    BY <2>3 DEF Refused, TermsInv, TermsTypes, Reasons
  <2> QED BY <2>2, <2>3 DEF Provider
<1> DEFINE q == [request[r] EXCEPT !.at = at, !.why = why]
<1>2. /\ request[r] \in Exchange /\ row \in Rows /\ loop \in Loops
      /\ Bound(request[r]) /\ request[r].at = "asking"
  BY DEF TermsInv, TermsTypes, Provider
<1>3. q \in Exchange /\ Bound(q)
  BY <1>2 DEF Exchange, Bound
<1>4. request' = [request EXCEPT ![r] = q] /\ UNCHANGED <<row, issued, ledger, loop>>
  BY <1>1 DEF Provider
<1> HIDE DEF q
<1> QED BY <1>2, <1>3, <1>4, RequestMoves

\* Received: the loop takes over the counters.
LEMMA ReceiveKeeps ==
    ASSUME TermsAssumption, TermsInv, NEW r \in Readers, ReceiveChunk(r) \/ ReceiveWord(r)
    PROVE  TermsInv'
<1>1. Received(r)
  BY DEF ReceiveChunk, ReceiveWord
<1>2. NoRequest \in Exchange /\ Bound(NoRequest)
  BY NoRequestFits
<1>3. request[r].w \in 0 .. Words /\ request[r].paid \in Nat /\ row \in Rows
  BY DEF TermsInv, TermsTypes, Exchange
<1>4. loop' \in Loops
  BY <1>1, <1>3 DEF Received, TermsInv, TermsTypes, Loops
<1> QED BY <1>1, <1>2, <1>3, <1>4, RequestMoves DEF Received

\* The commit finds the session where the authorisation was judged, or refuses.
LEMMA CommitKeeps ==
    ASSUME TermsAssumption, TermsInv, NEW r \in Readers, Commit(r)
    PROVE  TermsInv'
<1>1. /\ request[r] \in Exchange /\ request[r].at = "funded"
      /\ request[r].n \in Nat /\ request[r].n >= 1
      /\ request[r].start \in Nat /\ request[r].start + request[r].n <= Words
      /\ Binds(request[r].signed, request[r].n, request[r].start)
      /\ row \in Rows /\ row.w \in Nat /\ row.paid \in Nat /\ loop \in Loops
      /\ Words \in Nat
  BY DEF TermsInv, TermsTypes, Commit, Exchange, Rows, Bound, TermsAssumption
<1>2. UNCHANGED <<issued, loop>>
  BY DEF Commit
<1>3. row' \in Rows
  <2>1. Price * request[r].n \in Nat /\ row.w + request[r].n \in Nat
    BY <1>1 DEF TermsAssumption
  <2> DEFINE new == [row EXCEPT !.w = row.w + request[r].n,
                                !.paid = row.paid + Price * request[r].n,
                                !.open = row.open /\ row.w + request[r].n < Words]
  <2>2. row.w = request[r].start => new \in Rows
    <3>1. row.paid + Price * request[r].n \in Nat
      BY <1>1, <2>1
    <3>2. (row.open /\ row.w + request[r].n < Words) \in BOOLEAN
      OBVIOUS
    <3>3. row.w = request[r].start => row.w + request[r].n \in 0 .. Words
      BY <1>1
    <3> QED BY <1>1, <3>1, <3>2, <3>3 DEF Rows
  <2>3. row' = row \/ (row.w = request[r].start /\ row' = new)
    BY DEF Commit
  <2> HIDE DEF new
  <2> QED BY <1>1, <2>2, <2>3
<1>4. row'.w \in 0 .. Words /\ row'.paid \in Nat /\ row'.open \in BOOLEAN
  BY <1>3 DEF Rows
<1> DEFINE ans == [request[r] EXCEPT !.at = "answered", !.w = row'.w, !.paid = row'.paid,
                                     !.done = ~row'.open]
           ref == [request[r] EXCEPT !.at = "refused", !.why = "bundle_session_conflict"]
<1>5. ans \in Exchange /\ ans.at = "answered" /\ ref \in Exchange /\ ref.at = "refused"
  BY <1>1, <1>4 DEF Exchange, Reasons
<1>6. PICK q \in {ans, ref} : request' = [request EXCEPT ![r] = q]
  BY DEF Commit, Answered, Refused, TermsInv, TermsTypes
<1> HIDE DEF ans, ref
<1>7. q \in Exchange /\ q.at \in {"answered", "refused"} /\ Bound(q)
  BY <1>5, <1>6 DEF Bound
<1>8. CASE UNCHANGED ledger
  BY <1>1, <1>2, <1>3, <1>6, <1>7, <1>8, RequestMoves
<1>9. CASE /\ row.w = request[r].start
           /\ ledger' = Append(ledger, [start |-> row.w, n |-> request[r].n,
                                        key |-> request[r].key, signed |-> request[r].signed])
  <2> DEFINE b == [start |-> row.w, n |-> request[r].n, key |-> request[r].key,
                   signed |-> request[r].signed]
  <2>1. b \in Bundle /\ Binds(b.signed, b.n, b.start)
    <3>1. /\ row.w \in 0 .. Words /\ request[r].n \in 1 .. Words
          /\ request[r].key \in Seq(Nat) /\ request[r].signed \in Offers
      BY <1>1, <1>9 DEF Exchange, Rows
    <3> QED BY <1>1, <1>9, <3>1 DEF Bundle
  <2> HIDE DEF b
  <2>2. ledger' = Append(ledger, b)
    BY <1>9 DEF b
  <2>3. TermsTypes'
    BY <1>2, <1>3, <1>6, <1>7, <2>1, <2>2 DEF TermsInv, TermsTypes
  <2>4. PaidAsSigned'
    BY <2>1, <2>2 DEF TermsInv, TermsTypes, PaidAsSigned, Binds
  <2>5. \A p \in Readers : request'[p] = IF p = r THEN q ELSE request[p]
    BY <1>6 DEF TermsInv, TermsTypes
  <2> QED BY <1>7, <2>3, <2>4, <2>5 DEF TermsInv, Bound, Binds
<1> QED BY <1>8, <1>9 DEF Commit

-----------------------------------------------------------------------------

\* From issuing a requirement to the ledger, what is judged, verified and committed stays
\* bound to the words it was judged for, and within the session.
THEOREM TermsInvariant ==
    ASSUME TermsAssumption
    PROVE  Spec => []TermsInv
<1>1. Init => TermsInv
  BY TermsStart
<1>2. TermsInv /\ [Next]_vars => TermsInv'
  <2>1. ASSUME TermsInv, Next PROVE TermsInv'
    BY <2>1, QuietKeeps, SignKeeps, JudgeKeeps, ProviderKeeps, ReceiveKeeps, CommitKeeps DEF Next
  <2>2. ASSUME TermsInv, UNCHANGED vars PROVE TermsInv'
    BY <2>2, LoopMoves DEF vars, TermsInv, TermsTypes
  <2> QED BY <2>1, <2>2
<1> QED BY <1>1, <1>2, PTL DEF Spec

\* For every price, budget and number of words and readers, a bundle is paid for by an
\* authorisation of exactly its amount, and one that names a chunk names this one: none
\* is taken for other words, however far the session moved since it was signed.
THEOREM WordsPaidAsSigned ==
    ASSUME TermsAssumption
    PROVE  Spec => []PaidAsSigned
<1>1. TermsInv => PaidAsSigned
  BY DEF TermsInv
<1> QED BY <1>1, TermsInvariant, PTL

\* Nobody reads, signs for or is charged for a word the session does not have, and the
\* variables keep their types.
THEOREM TermsTypeCorrect ==
    ASSUME TermsAssumption
    PROVE  Spec => []TypeOK
<1> DEFINE Engined ==
        engine \in [Readers -> [kind : {"cli", "agent"},
                               address : {"unknown", "known", "failed"}]]
<1>1. Init => Engined
  BY DEF Init, Engines
<1>2. Engined /\ [Next]_vars => Engined'
  <2>1. ASSUME NEW r \in Readers, ResolveCli(r) \/ ResolveAgent(r), Engined PROVE Engined'
    <3>1. PICK ok \in BOOLEAN : Resolved(r, ok)
      BY <2>1 DEF ResolveCli, ResolveAgent
    <3>2. PICK to \in {"known", "failed"} : engine' = [engine EXCEPT ![r].address = to]
      BY <3>1 DEF Resolved
    <3> QED BY <2>1, <3>2
  <2>2. ASSUME NEW r \in Readers,
               \/ \E want \in Wants : SignChunk(r, want)
               \/ SignWord(r) \/ SignFails(r) \/ Judge(r) \/ Provider(r) \/ Commit(r)
               \/ ReceiveChunk(r) \/ ReceiveWord(r) \/ GiveUp(r) \/ Stop(r) \/ AbortSession(r)
        PROVE  UNCHANGED engine
    <3>1. CASE SignWord(r) \/ \E want \in Wants : SignChunk(r, want)
      BY <3>1 DEF SignChunk, SignWord, Send
    <3>2. CASE SignFails(r) \/ GiveUp(r) \/ Stop(r) \/ AbortSession(r)
      BY <3>2 DEF SignFails, GiveUp, Stop, AbortSession
    <3>3. CASE Judge(r) \/ Provider(r) \/ Commit(r)
      BY <3>3, Zenon DEF Judge, Provider, Commit
    <3>4. CASE ReceiveChunk(r) \/ ReceiveWord(r)
      BY <3>4 DEF ReceiveChunk, ReceiveWord, Received
    <3> QED BY <2>2, <3>1, <3>2, <3>3, <3>4
  <2>3. UNCHANGED vars => UNCHANGED engine
    BY DEF vars
  <2> QED BY <2>1, <2>2, <2>3 DEF Next
<1>3. TermsInv /\ Engined => TypeOK
  <2>1. NoRequest \in Exchange
    BY NoRequestFits
  <2>2. ASSUME TermsInv, NEW r \in Readers
        PROVE  /\ request[r].at \in {"none", "sent", "refused", "asking", "funded", "answered"}
               /\ DOMAIN request[r] = DOMAIN NoRequest
               /\ request[r].max \in 0 .. Words \cup {1} /\ request[r].n \in 0 .. Words
               /\ request[r].why \in Reasons
    BY <2>1, <2>2 DEF TermsInv, TermsTypes, Exchange
  <2>3. ASSUME TermsInv, NEW i \in DOMAIN ledger PROVE ledger[i].n \in 1 .. Words
    <3>1. ledger[i] \in Bundle
      BY <2>3 DEF TermsInv, TermsTypes
    <3> QED BY <3>1 DEF Bundle
  <2> HIDE DEF Engined
  <2> QED BY <2>2, <2>3 DEF TypeOK, TermsInv, TermsTypes, Rows, Loops, Engined
<1> HIDE DEF Engined
<1> QED BY <1>1, <1>2, <1>3, TermsInvariant, PTL DEF Spec
=============================================================================

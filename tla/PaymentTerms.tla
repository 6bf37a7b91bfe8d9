---------------------------- MODULE PaymentTerms ----------------------------
(***************************************************************************)
(* What a buyer signs and what the gateway takes for it: the requirement   *)
(* issued with a session, the chunk and word authorisations the SDK's      *)
(* engines derive from it, and the requirements the Circle verifier makes  *)
(* up again to find the one that was signed.  The readers are SDK clients  *)
(* that share one session, each with its own idea of how far it is; the    *)
(* fields of a requirement no code changes are left out.  PaidReading      *)
(* follows the handlers between their awaits; here a handler loads, judges *)
(* and, after the provider's answer, commits.                              *)
(***************************************************************************)
EXTENDS Integers, Sequences, FiniteSets

CONSTANTS
    Readers,   \* SDK clients
    Wallets,   \* agent wallets the buyer's profile may list
    Words,     \* words of the selection
    Price,     \* wordPaymentAtomic
    Budgets,   \* budgets of the session, in atomic units
    Wants      \* words a reader asks for at a time

TermsAssumption ==
    /\ Words \in Nat
    /\ Price \in Nat \ {0}
    /\ Budgets \subseteq Nat
    /\ Wants \subseteq Nat \ {0}

VARIABLES
    row,      \* the session: budget, words delivered, amount paid, open or not
    issued,   \* its paymentRequired
    ledger,   \* bundles, with the authorisation that pays for each
    engine,   \* each reader's payment engine: its kind, and its signer's address
    loop,     \* each reader's loop: its state, words read and amount paid
    request   \* the last request of each reader

vars == <<row, issued, ledger, engine, loop, request>>

MinOf(a, b) == IF a <= b THEN a ELSE b

Affordable(paid) == IF row.budget <= paid THEN 0 ELSE (row.budget - paid) \div Price

-----------------------------------------------------------------------------
(* Requirements: an amount, and extra fields.                              *)

\* What is issued at word w of a session: one word, under a nonce of its own.
Issued(w) ==
    [amount |-> Price,
     extra  |-> [sequence |-> w, amountAtomic |-> Price, nonce |-> <<w>>,
                 idempotencyKey |-> <<w>>]]

\* The extra fields that make a requirement one for n words from word w on, ...
ChunkExtra(n, w) ==
    [amountAtomic |-> Price * n, maxWords |-> n, sequence |-> w,
     authorizationMode |-> "chunk", nonce |-> <<w, n>>, idempotencyKey |-> <<w, n>>]

\* { ...base, ...fields }
Spread(base, fields) ==
    [f \in DOMAIN base \cup DOMAIN fields |-> IF f \in DOMAIN fields THEN fields[f] ELSE base[f]]

\* ... as the buyer writes them over the issued ones ...
WithChunkRequirement(required, n, w) ==
    [amount |-> Price * n, extra |-> Spread(required.extra, ChunkExtra(n, w))]

\* ... and as the gateway does, from the amount it is owed.
WordsCovered(amount) == IF amount \div Price < 1 THEN 1 ELSE amount \div Price

Mirrored(required, amount, w) ==
    [amount |-> amount, extra |-> Spread(required.extra, ChunkExtra(WordsCovered(amount), w))]

\* Variation: the extra fields are no longer compared.
Acceptable_Bare(amount, w) == << issued, [amount |-> amount, extra |-> <<>>] >>

\* paymentRequirementsFromSession
Acceptable(amount, w) ==
    IF issued.amount = amount THEN <<issued>>
    ELSE <<issued, Mirrored(issued, amount, w)>>

\* The core fields agree and every extra field that is required was signed.
Matches(required, signed) ==
    /\ required.amount = signed.amount
    /\ \A f \in DOMAIN required.extra :
          f \in DOMAIN signed.extra /\ signed.extra[f] = required.extra[f]

\* What becomes of an authorisation for n words from word w on, before the provider
\* is asked.
Verdict(signed, n, w) ==
    LET offers == Acceptable(Price * n, w)
        found  == {i \in DOMAIN offers : Matches(offers[i], signed)}
        first  == CHOOSE i \in found : \A j \in found : i <= j
    IN  IF found = {} THEN "payment_does_not_match_session_terms"
        ELSE IF offers[first].amount # Price * n THEN "payment_amount_mismatch"
        ELSE "matched"

-----------------------------------------------------------------------------

NoRequest == [at |-> "none", mode |-> "none", max |-> 0, key |-> <<>>, signed |-> Issued(0),
              start |-> 0, n |-> 0, why |-> "none", w |-> 0, paid |-> 0, done |-> FALSE]

\* A signer that was given every address it needs never asks for one.
Engines == [kind : {"cli", "agent"}, address : {"unknown", "known"}]

Init ==
    /\ \E b \in Budgets : row = [budget |-> b, w |-> 0, paid |-> 0, open |-> TRUE]
    /\ issued = Issued(0)
    /\ ledger = <<>>
    /\ engine \in [Readers -> Engines]
    /\ loop = [r \in Readers |-> [at |-> "loop", words |-> 0, paid |-> 0]]
    /\ request = [r \in Readers |-> NoRequest]

Wanted(r, want) ==
    MinOf(MinOf(want, Affordable(loop[r].paid)), Words - loop[r].words)

\* parseCircleCliWalletAddress: the sole wallet that is listed.
SoleWallet(listed) == Cardinality(listed) = 1

\* The promise of the address is kept, also when it is rejected: the engine then
\* fails every payment it is asked for.
Resolved(r, ok) ==
    /\ engine' = [engine EXCEPT ![r].address = IF ok THEN "known" ELSE "failed"]
    /\ UNCHANGED <<row, issued, ledger, loop, request>>

\* The CLI lists the wallets, then the balance of the one it lists names the payer.
ResolveCli(r) ==
    /\ loop[r].at = "loop"
    /\ engine[r] = [kind |-> "cli", address |-> "unknown"]
    /\ \E listed \in SUBSET Wallets, backed \in BOOLEAN :
          Resolved(r, SoleWallet(listed) /\ backed)

\* The API names the address of the wallet that was configured, or it does not.
ResolveAgent(r) ==
    /\ loop[r].at = "loop"
    /\ engine[r] = [kind |-> "agent", address |-> "unknown"]
    /\ \E ok \in BOOLEAN : Resolved(r, ok)

Send(r, mode, max, key, signed) ==
    /\ loop' = [loop EXCEPT ![r].at = "await"]
    /\ request' = [request EXCEPT ![r] =
                     [NoRequest EXCEPT !.at = "sent", !.mode = mode, !.max = max,
                                       !.key = key, !.signed = signed]]
    /\ UNCHANGED <<row, issued, ledger, engine>>

MaySign(r) ==
    /\ loop[r].at = "loop"
    /\ engine[r].address = "known"
    /\ loop[r].paid + Price <= row.budget

SignChunk(r, want) ==
    LET n == Wanted(r, want)
        w == loop[r].words
    IN  /\ MaySign(r)
        /\ n >= 1
        /\ Send(r, "chunk", n, <<w, n>>, WithChunkRequirement(issued, n, w))

\* The issued requirement is signed as it is, whatever the word.
SignWord(r) ==
    /\ MaySign(r)
    /\ Send(r, "word", 1, <<loop[r].words>>, issued)

\* The signer has no address, or its wallet does not sign: read() throws, and the
\* session is left as it is.
SignFails(r) ==
    /\ loop[r].at = "loop"
    /\ engine[r].address # "unknown"
    /\ loop[r].paid + Price <= row.budget
    /\ loop' = [loop EXCEPT ![r].at = "stopped"]
    /\ UNCHANGED <<row, issued, ledger, engine, request>>

-----------------------------------------------------------------------------
(* The gateway.                                                            *)

Found(key) == \E i \in DOMAIN ledger : ledger[i].key = key

Refused(r, why) == request' = [request EXCEPT ![r].at = "refused", ![r].why = why]

Answered(r) ==
    request' = [request EXCEPT ![r].at = "answered", ![r].w = row'.w,
                               ![r].paid = row'.paid, ![r].done = ~row'.open]

\* Words the session can still sell to this request.
Sellable(r) == MinOf(MinOf(request[r].max, Affordable(row.paid)), Words - row.w)

Judge(r) ==
    LET n == Sellable(r)
        verdict == Verdict(request[r].signed, n, row.w)
    IN  /\ request[r].at = "sent"
        /\ \/ Found(request[r].key) /\ UNCHANGED row /\ Answered(r)
           \/ ~Found(request[r].key) /\ ~row.open /\ Refused(r, "closed") /\ UNCHANGED row
           \/ /\ ~Found(request[r].key) /\ row.open /\ n < 1
              /\ row' = [row EXCEPT !.open = FALSE]
              /\ IF row.w >= Words THEN Answered(r) ELSE Refused(r, "budget_exhausted")
           \/ /\ ~Found(request[r].key) /\ row.open /\ n >= 1
              /\ request' = [request EXCEPT
                               ![r].start = row.w, ![r].n = n, ![r].why = verdict,
                               ![r].at = IF verdict = "matched" THEN "asking" ELSE "refused"]
              /\ UNCHANGED row
        /\ UNCHANGED <<issued, ledger, engine, loop>>

\* The provider verifies the signature and the funds behind it.
Provider(r) ==
    /\ request[r].at = "asking"
    /\ \/ request' = [request EXCEPT ![r].at = "funded"]
       \/ Refused(r, "payment_verification_failed")
    /\ UNCHANGED <<row, issued, ledger, engine, loop>>

Commit(r) ==
    LET n == request[r].n
        w == row.w + n
    IN  /\ request[r].at = "funded"
        /\ \/ Found(request[r].key) /\ UNCHANGED <<row, ledger>> /\ Answered(r)
           \/ /\ ~Found(request[r].key) /\ row.w # request[r].start
              /\ Refused(r, "bundle_session_conflict") /\ UNCHANGED <<row, ledger>>
           \/ /\ ~Found(request[r].key) /\ row.w = request[r].start
              /\ row' = [row EXCEPT !.w = w, !.paid = @ + Price * n,
                                    !.open = @ /\ w < Words]
              /\ ledger' = Append(ledger, [start |-> row.w, n |-> n, key |-> request[r].key,
                                           signed |-> request[r].signed])
              /\ Answered(r)
        /\ UNCHANGED <<issued, engine, loop>>

-----------------------------------------------------------------------------
(* The reader again.                                                       *)

\* The loop takes over the counters of the answer.
Received(r) ==
    /\ loop' = [loop EXCEPT ![r] = [at |-> IF request[r].done THEN "stopped" ELSE "loop",
                                    words |-> request[r].w, paid |-> request[r].paid]]
    /\ request' = [request EXCEPT ![r] = NoRequest]
    /\ UNCHANGED <<row, issued, ledger, engine>>

ReceiveChunk(r) ==
    request[r].at = "answered" /\ request[r].mode = "chunk" /\ loop[r].at = "await" /\ Received(r)

ReceiveWord(r) ==
    request[r].at = "answered" /\ request[r].mode = "word" /\ loop[r].at = "await" /\ Received(r)

\* Any failure of the request ends the loop, whatever becomes of the request.
GiveUp(r) ==
    /\ loop[r].at = "await"
    /\ loop' = [loop EXCEPT ![r].at = "abort"]
    /\ UNCHANGED <<row, issued, ledger, engine, request>>

\* A reader that has enough, or cannot afford more.
Stop(r) ==
    /\ loop[r].at = "loop"
    /\ loop' = [loop EXCEPT ![r].at = "abort"]
    /\ UNCHANGED <<row, issued, ledger, engine, request>>

\* The abort is sent once and may be lost.
AbortSession(r) ==
    /\ loop[r].at = "abort"
    /\ loop' = [loop EXCEPT ![r].at = "stopped"]
    /\ row' \in {row, [row EXCEPT !.open = FALSE]}
    /\ UNCHANGED <<issued, ledger, engine, request>>

Next ==
    \E r \in Readers :
        \/ ResolveCli(r) \/ ResolveAgent(r)
        \/ \E want \in Wants : SignChunk(r, want)
        \/ SignWord(r) \/ SignFails(r)
        \/ Judge(r) \/ Provider(r) \/ Commit(r)
        \/ ReceiveChunk(r) \/ ReceiveWord(r) \/ GiveUp(r) \/ Stop(r) \/ AbortSession(r)

Spec == Init /\ [][Next]_vars

-----------------------------------------------------------------------------

Reasons == {"none", "matched", "closed", "budget_exhausted", "bundle_session_conflict",
            "payment_does_not_match_session_terms", "payment_amount_mismatch",
            "payment_verification_failed"}

TypeOK ==
    /\ row \in [budget : Budgets, w : 0 .. Words, paid : Nat, open : BOOLEAN]
    /\ issued = Issued(0)
    /\ \A i \in DOMAIN ledger : ledger[i].n \in 1 .. Words
    /\ engine \in [Readers -> [kind : {"cli", "agent"}, address : {"unknown", "known", "failed"}]]
    /\ loop \in [Readers -> [at : {"loop", "await", "abort", "stopped"},
                             words : 0 .. Words, paid : Nat]]
    /\ \A r \in Readers :
          /\ request[r].at \in {"none", "sent", "refused", "asking", "funded", "answered"}
          /\ DOMAIN request[r] = DOMAIN NoRequest
          /\ request[r].max \in 0 .. Words \cup {1} /\ request[r].n \in 0 .. Words
          /\ request[r].why \in Reasons

\* Words are released for what was signed for them and for nothing else: the amount is
\* the price of the words of the bundle, and an authorisation of a chunk names exactly
\* those words, however far other readers have moved the session since it was signed.
PaidAsSigned ==
    \A i \in DOMAIN ledger :
        LET b == ledger[i] IN
        /\ b.signed.amount = Price * b.n
        /\ "maxWords" \in DOMAIN b.signed.extra =>
              b.signed.extra.maxWords = b.n /\ b.signed.extra.sequence = b.start

\* The requirement the gateway makes up mirrors what the SDK signs: a chunk signed at the
\* position of the session, for words it sells, is not refused for its terms.
OwnTermsMatch ==
    \A r \in Readers :
        request[r].why = "payment_does_not_match_session_terms"
        => request[r].signed.extra.sequence # request[r].start \/ request[r].max # request[r].n
=============================================================================

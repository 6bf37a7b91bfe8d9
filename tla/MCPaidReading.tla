--------------------------- MODULE MCPaidReading ---------------------------
(* Instances of PaidReading for TLC.                                       *)
EXTENDS PaidReading, SequencesExt

Symmetry == Permutations(Requests)

\* The key the payment terms of a session carry is fixed when it opens, so every
\* client that echoes it sends the key of word 0.
TermsKey == <<0>>
ClientKeys == {TermsKey}

-----------------------------------------------------------------------------
(* What the repository says of the gateway and the code does not keep.     *)

Quiet == \A r \in Requests : pc[r] \in {"idle", "done", "lost"}

\* The session row's counters are durable: when no request is in flight they say how
\* far the ledger is.  saveSession writes back a copy loaded before a commit.
CountersDurable == Quiet => db.w = Frontier

\* A retried payment request whose key the ledger holds gets the released words back.
\* recordBundle looks the key up before it takes the row lock, so of two concurrent
\* retries the later one is told of a conflict instead.
RetryGetsItsWords ==
    [][\A r \in Requests :
         reply[r] # "conflict" /\ reply'[r] = "conflict" => BundlesWith(plan'[r].key) = {}]_vars

\* A range of words is never delivered or charged twice.  The in-memory ledger has no
\* constraint on words: a replay rewinds the live counters to those of its bundle.
NeverDeliveredTwice ==
    \A i, j \in DOMAIN bundles : i # j => Span(bundles[i]) \cap Span(bundles[j]) = {}
=============================================================================

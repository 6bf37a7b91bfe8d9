---------------------------- MODULE MCTransition ----------------------------
(* Instances of LedgerTransition for TLC.                                  *)
EXTENDS LedgerTransition

\* Old payments 1 and 2 are words 0 and 1 of one session; 3 and 4 are the bundles of a new
\* one, the first of two words.
InSession  == [p \in Payments |-> IF p \in Old THEN "old" ELSE "new"]
FirstWord  == [p \in Payments |-> CASE p = 1 -> 0 [] p = 2 -> 1 [] p = 3 -> 0 [] p = 4 -> 2]
NewOrdinal == [p \in New |-> p - 3]
Stamps     == [p \in Payments |-> p]
Settled    == [p \in New |-> p + 2]
Ranges     == { [from |-> 0, to |-> 100] }

-----------------------------------------------------------------------------
(* What the repository says of the finalizer and the code does not keep.   *)

\* The finalizer catches up the rows old gateways wrote after the migration: each payment
\* is in the ledger once.  It copies every row of word_payments, and new gateways write
\* those too: all but the first bundle of a session get a second one.
EachPaymentOnce == \A p \in payments : Cardinality({b \in bundles : b.of = p}) <= 1
=============================================================================

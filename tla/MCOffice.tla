------------------------------ MODULE MCOffice ------------------------------
(* An instance of Office for TLC.                                          *)
EXTENDS Office

TwoEvents == 1 .. 2

\* Old payments 1 and 2 are words 0 and 1 of one session; 3 and 4 are the bundles of a new
\* one, the first of two words.  Two microseconds make a millisecond, 1 and 3 share one;
\* the payments of one millisecond and their copies do not fill a page.
InSession  == [p \in Old \cup New |-> IF p \in Old THEN "old" ELSE "new"]
FirstWord  == <<0, 1, 0, 2>>
NewOrdinal == [p \in New |-> p - 3]
Stamps     == <<3, 5, 2, 6>>
Settled    == [p \in New |-> p + 2]
Ranges     == { [from |-> 0, to |-> 100], [from |-> 3, to |-> 6] }
=============================================================================

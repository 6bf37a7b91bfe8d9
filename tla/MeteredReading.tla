--------------------------- MODULE MeteredReading ---------------------------
(***************************************************************************)
(* What metered reading promises, with no request, retry, copy or crash in *)
(* it: an article is sold from its first word on, one range after another, *)
(* each range at the word price and while the budget lasts, and each range *)
(* sold may be handed to settlement, once.                                 *)
(***************************************************************************)
EXTENDS Integers, Sequences

CONSTANTS Words, Price, Budget, Metered

VARIABLES
    sold,    \* words released, always the first ones of the article
    spent,   \* what the buyer owes for them
    open,    \* ranges sold and not yet handed to settlement
    billed   \* ranges handed to settlement, in order

Range(k) == [start |-> sold, n |-> k, amount |-> Price * k]

Init == sold = 0 /\ spent = 0 /\ open = {} /\ billed = <<>>

Sell ==
    \E k \in 1 .. (Words - sold) :
        /\ Metered => spent + Price * k <= Budget
        /\ sold' = sold + k
        /\ spent' = spent + Price * k
        /\ open' = open \cup {Range(k)}
        /\ UNCHANGED billed

Bill ==
    \E range \in open :
        /\ open' = open \ {range}
        /\ billed' = Append(billed, range)
        /\ UNCHANGED <<sold, spent>>

Next == Sell \/ Bill

Spec == Init /\ [][Next]_<<sold, spent, open, billed>>
=============================================================================

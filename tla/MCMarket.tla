------------------------------ MODULE MCMarket ------------------------------
(* An instance of Market for TLC.                                          *)
EXTENDS Market, MCBuyCommand

Sel == INSTANCE Selection

\* "v1" has three words under two headings; "v2" lost a word and one heading.
Versions    == {"v1", "v2"}
Lengths     == [t \in Versions |-> IF t = "v1" THEN 3 ELSE 2]
RowsOf ==
    [t \in Versions |->
        IF t = "v1" THEN <<[id |-> "s1", start |-> 0, count |-> 1],
                           [id |-> "s2", start |-> 1, count |-> 2]>>
        ELSE <<[id |-> "s1", start |-> 0, count |-> 2]>>]
Asked       == {Sel!Article, Sel!Named(<<"s2">>), Sel!Named(<<"s2", "s1">>), Sel!Words(1, 9)}

\* Amounts to charge; ranges that have drifted from their body; texts of up to three
\* lines; balance reports.
SomeFees   == [kind : {"fee"}, n : 0 .. 40, price : {0, 1, 3, 7, 99, 10000}, bps : {0, 1, 500, 3333}]
SomeRanges == [kind : {"range"}, start : 0 .. 4, count : 0 .. 4, total : 0 .. 4]
SomeBodies ==
    [kind : {"body"}, lines : UNION {[1 .. k -> [head : BOOLEAN, id : {"h"}, n : 0 .. 2]] : k \in 0 .. 3}]
Printed    == [chain : {"arc", "base"}, amount : {0, 4, 5, 19}]
SomeBalances ==
    [kind : {"balance"},
     report : {[NoReport EXCEPT !.balances = b, !.total = t] :
                 b \in UNION {[1 .. k -> Printed] : k \in 0 .. 2}, t \in {NoAmount, 25}}]

\* All readers but one know their address from the start.
OneResolves ==
    part = "terms" => \A q \in Clients \ {CHOOSE p \in Clients : TRUE} :
                         engine[q] = [kind |-> "cli", address |-> "known"]

MCMarketInit == MarketInit /\ OneResolves

\* MarketSpec from these states.
MCMarketSpec ==
    /\ MCMarketInit
    /\ [][Buying \/ Selling \/ Embedding \/ Paying]_<<part, input, vars, stored, embedded, signing>>
    /\ Fairness
=============================================================================

-------------------------------- MODULE Market --------------------------------
(* What buyers meet, side by side; the first state chooses.                *)
(*   "buy":        the CLI's buy command;                                  *)
(*   "sessions":   sessions opened and streamed while the article is edited;*)
(*   "base":       whole articles sold on Base;                            *)
(*   "embeddings": the runner behind semantic search;                      *)
(*   "terms":      readers that sign for the words of one session;         *)
(*   "inputs":     nothing happens: an input of the pure functions.        *)
(* They share no state: each is the whole of its subsystem, so what holds  *)
(* of it alone holds of it here.  The instances bring what is proved of    *)
(* the storefront and of payment terms.                                    *)
EXTENDS BuyCommand

CONSTANTS
    Texts, NoText, Length, SectionRows, Prices, Selections, MaxPrice, Readers, Purchases,
    MaxEdits, MaxRestarts,                   \* of Storefront, where SectionRows is Rows
    Ids, Contents, Absent, Runners, Batch,
    MaxChanges,                              \* of Embeddings, where it is MaxEdits
    Clients, SessionWords, Budgets, Wants,   \* of PaymentTerms
    Fees, Ranges, Bodies, Balances           \* inputs of the pure functions

VARIABLES
    part, input,
    article, rows, wallet, edits, restarts, reader, opened, slices, rebuild, got, chosen,
    sale, signed, settled, released, facilitator,
    live, sections, table, runner, edited,
    row, issued, ledger, engine, loop, request

S == INSTANCE StorefrontProofs WITH
    session <- opened, words <- slices, paid <- settled, Rows <- SectionRows

E == INSTANCE Embeddings WITH MaxEdits <- MaxChanges

P == INSTANCE TermsProofs WITH Readers <- Clients, Words <- SessionWords

ASSUME MarketAssumption ==
    /\ S!StorefrontAssumption
    /\ P!TermsAssumption
    /\ MaxChanges \in Nat
    /\ Fees \subseteq [kind : {"fee"}, n : Nat, price : Nat, bps : Nat]
    /\ Ranges \subseteq [kind : {"range"}, start : Nat, count : Nat, total : Nat]
    /\ Bodies \subseteq [kind : {"body"}, lines : Seq(S!Line)]
    /\ \A b \in Balances : /\ b.kind = "balance"
                          /\ b.report.balances \in Seq([chain : STRING, amount : Nat])

NoInput == [kind |-> "none"]

stored   == <<article, rows, wallet, edits, restarts, reader, opened, slices, rebuild, got,
              chosen, sale, signed, settled, released, facilitator>>
embedded == <<live, sections, table, runner, edited>>
signing  == <<row, issued, ledger, engine, loop, request>>

\* What does not move starts in one of its states.
MarketInit ==
    /\ part \in {"buy", "sessions", "base", "embeddings", "terms", "inputs"}
    /\ input \in IF part = "inputs" THEN Fees \cup Ranges \cup Bodies \cup Balances ELSE {NoInput}
    /\ Init
    /\ part # "buy" => cmd = CHOOSE c \in Commands : TRUE
    /\ S!Init
    /\ part \notin {"sessions", "base"} =>
          article = CHOOSE a \in [live : {TRUE}, price : Prices, text : Texts] : TRUE
    /\ E!Init
    /\ part # "embeddings" => live /\ sections = E!Nothing
    /\ P!Init
    /\ part # "terms" => /\ engine = CHOOSE e \in [Clients -> P!Engines] : TRUE
                         /\ row.budget = CHOOSE b \in Budgets : TRUE

Buying == part = "buy" /\ Next /\ UNCHANGED <<part, input, stored, embedded, signing>>

Selling ==
    /\ \/ part = "sessions" /\ UNCHANGED sale
       \/ part = "base" /\ UNCHANGED reader
    /\ S!Next
    /\ UNCHANGED <<part, input, vars, embedded, signing>>

Embedding == part = "embeddings" /\ E!Next /\ UNCHANGED <<part, input, vars, stored, signing>>

Paying == part = "terms" /\ P!Next /\ UNCHANGED <<part, input, vars, stored, embedded>>

MarketSpec ==
    /\ MarketInit
    /\ [][Buying \/ Selling \/ Embedding \/ Paying]_<<part, input, vars, stored, embedded, signing>>
    /\ Fairness

-----------------------------------------------------------------------------

\* Each part's TypeOK, where the part is the one that moves.
TypesOK ==
    /\ part = "buy" => TypeOK
    /\ part \in {"sessions", "base"} => S!TypeOK
    /\ part = "embeddings" => E!TypeOK
    /\ part = "terms" => P!TypeOK

\* What Storefront, Embeddings and PaymentTerms say under these names.
WordsAreReal       == S!WordsAreReal
RebuiltAsChosen    == S!RebuiltAsChosen
BaseSaleIsExact    == S!BaseSaleIsExact
EmbeddingsConverge == E!EmbeddingsConverge
PaidAsSigned       == P!PaidAsSigned

\* The usage reported for n words stays within a unit a word of their charge, for every
\* amount among the inputs.
FeesAgree == input.kind = "fee" => S!FeeGap(input.n, input.price, input.bps)

\* ClampsAgree and SectionsApart, for the ranges and texts among the inputs, and
\* BalanceIsSpendable, for the reports.
InputsFit ==
    /\ input.kind = "range" =>
          S!ClampsAgree([id |-> "s", start |-> input.start, count |-> input.count], input.total)
    /\ input.kind = "body" => S!SectionsApart(input.lines)
    /\ input.kind = "balance" => BalanceIsSpendable(input.report, Chain)
=============================================================================

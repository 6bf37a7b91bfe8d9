---------------------------- MODULE MCBuyCommand ----------------------------
(* Instances of BuyCommand for TLC.                                        *)
EXTENDS BuyCommand, Functions, TLC

\* "a" has two words; "b" has three and is of practical use, so words are kept for it;
\* "title" is a heading without words.
Counts == [t \in Targets |-> CASE t = "a" -> 2 [] t = "b" -> 3 [] t = "title" -> 0 [] OTHER -> 5]

\* The seller may change its mind between runs: one section that answers the goal
\* alone, two that do not and whose order is open, nothing of value.
SellerSays ==
    { "a" :> [ev |-> 80, min |-> 1] @@ "b" :> [ev |-> 40, min |-> 1],
      "a" :> [ev |-> 50, min |-> 1] @@ "b" :> [ev |-> 50, min |-> 1],
      "b" :> [ev |-> 90, min |-> 3],
      "title" :> [ev |-> 60, min |-> 1],
      "a" :> [ev |-> 20, min |-> 1] }

\* Budgets: the whole article and some change; one section and a half.
AllCommands ==
    { [mode |-> "chunks",  one |-> FALSE, budget |-> 7,  wallet |-> NoWallet, testnet |-> TRUE],
      [mode |-> "chunks",  one |-> TRUE,  budget |-> 7,  wallet |-> "w1",     testnet |-> TRUE],
      [mode |-> "section", one |-> FALSE, budget |-> 7,  wallet |-> "w1",     testnet |-> FALSE],
      [mode |-> "section", one |-> FALSE, budget |-> 11, wallet |-> NoWallet, testnet |-> FALSE],
      [mode |-> "article", one |-> FALSE, budget |-> 11, wallet |-> NoWallet, testnet |-> TRUE] }

\* The CLI works, is not there, is not logged in, or its faucet is rate limited.
CliEndings == {Works, Fails({"missing"}), Fails({"login"}), Fails({"429"})}

\* Balances by chain, in all, or as a number; of this wallet, another, or unsaid.
CliReports ==
    { NoReport,
      [NoReport EXCEPT !.atomic = 1],
      [NoReport EXCEPT !.balances = <<[chain |-> "arc", amount |-> 219]>>, !.address = "w1"],
      [NoReport EXCEPT !.total = 300, !.address = "w2"] }

-----------------------------------------------------------------------------
(* What the repository says of a repeated buy and the code does not keep.  *)

\* The original cumulative cap still applies when the identical command is run again:
\* the gateway never charges more than the cap over all runs together.  A later run
\* counts only completed operations, not what an unresolved attempt has cost.
OriginalCapHolds == FoldFunction(LAMBDA x, sum : x + sum, 0, counted) <= Budget
=============================================================================

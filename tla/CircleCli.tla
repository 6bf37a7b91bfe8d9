------------------------------ MODULE CircleCli ------------------------------
(***************************************************************************)
(* The buyer's wrapper around the Circle CLI: which binary is run, what    *)
(* its failure is taken for, and what is read from what it prints.  The    *)
(* end of a process is [ok, marks]: marks are the words its message        *)
(* contains.  Amounts are printed in decimals finer than an atomic unit,   *)
(* here in tenths of it.                                                   *)
(***************************************************************************)
EXTENDS Integers, Sequences, FiniteSets

Binaries == {"circle", "circle-cli", "npx"}
Marks    == {"network", "otp", "terms", "login", "missing", "429"}

Fails(marks) == [ok |-> FALSE, marks |-> marks]
Works        == [ok |-> TRUE, marks |-> {}]

IsMissing(end) == ~end.ok /\ "missing" \in end.marks

\* Only the default command falls back, to its other name and then to npx, and only
\* when the binary is not there; the last one tried speaks for all of them.
RunCircleCli(command, npx, ends) ==
    IF command = "circle" /\ IsMissing(ends["circle"])
    THEN IF IsMissing(ends["circle-cli"]) /\ npx THEN ends["npx"] ELSE ends["circle-cli"]
    ELSE ends[command]

\* classifyCircleError: the first kind whose words occur.
Classify(marks) ==
    CASE "network" \in marks -> "network_unavailable"
      [] "network" \notin marks /\ "otp" \in marks -> "otp_expired"
      [] marks \cap {"network", "otp"} = {} /\ "terms" \in marks -> "terms_not_accepted"
      [] marks \cap {"network", "otp", "terms"} = {} /\ "login" \in marks -> "not_logged_in"
      [] marks \cap {"network", "otp", "terms", "login"} = {} /\ "missing" \in marks -> "missing_cli"
      [] OTHER -> "command_failed"

IsRateLimited(end) == ~end.ok /\ "429" \in end.marks

NoWallet == "none"

\* circleAgentWallet: the configured one, or the only one that is listed.
AgentWallet(configured, listed) ==
    IF configured # NoWallet THEN configured
    ELSE IF Cardinality(listed) = 1 THEN CHOOSE w \in listed : TRUE
    ELSE NoWallet

-----------------------------------------------------------------------------
(* A balance report: [atomic, balances, total, number, address]; balances  *)
(* is the list of [chain, amount] by network.                              *)

NoAmount == -1
NoReport == [atomic |-> NoAmount, balances |-> <<>>, total |-> NoAmount, number |-> NoAmount,
             address |-> NoWallet]

\* Variation: an amount is rounded to the nearest atomic unit.
Atomic_Nearest(amount) == (amount + 5) \div 10

\* decimalUsdcToAtomic: digits beyond an atomic unit are cut off.
Atomic(amount) == amount \div 10

\* The entry of the chain, or the only entry there is.
ChainBalance(balances, chain) ==
    LET here  == {i \in DOMAIN balances : balances[i].chain = chain}
        first == CHOOSE i \in here : \A j \in here : i <= j
    IN  IF here # {} THEN balances[first].amount
        ELSE IF Len(balances) = 1 THEN balances[1].amount
        ELSE NoAmount

\* parseBalanceAtomic
BalanceOf(report, chain) ==
    LET here == ChainBalance(report.balances, chain)
    IN  IF report.atomic # NoAmount THEN report.atomic
        ELSE IF here # NoAmount THEN Atomic(here)
        ELSE IF report.total # NoAmount THEN Atomic(report.total)
        ELSE IF report.number # NoAmount THEN Atomic(report.number)
        ELSE 0

\* assertGatewayProfileMatch: the report is for the wallet that will sign, or it does
\* not say whom it is for.
SameProfile(wallet, report) == report.address \in {NoWallet, wallet}

\* What a purchase is gated on is never more than the chain it is paid on holds, as long
\* as the report lists that chain: neither rounding nor the total of other chains adds
\* to it.
BalanceIsSpendable(report, chain) ==
    \A i \in DOMAIN report.balances :
        /\ report.atomic = NoAmount
        /\ report.balances[i].chain = chain
        /\ \A j \in 1 .. (i - 1) : report.balances[j].chain # chain
        => 10 * BalanceOf(report, chain) <= report.balances[i].amount
=============================================================================

----------------------------- MODULE Storefront -----------------------------
(***************************************************************************)
(* The two ways the gateway sells an article while its creator goes on     *)
(* editing it: reading sessions, opened by POST /sessions and streamed from*)
(* a copy of the words kept in memory, and whole-article purchases on Base.*)
(*                                                                         *)
(* Creators write articles, sections and wallets through another program,  *)
(* at any time, row by row.  The gateway reads them one query at a time.   *)
(* A text stands for a body; what a session reads is a list of words       *)
(* <<text, index>>.  How a stream request is charged and committed is      *)
(* PaidReading's subject: here it is one step.                             *)
(***************************************************************************)
EXTENDS Selection

CONSTANTS
    Texts,       \* bodies the article may have
    NoText,
    Length,      \* words of each
    Rows,        \* the section rows that go with each
    Prices,      \* word prices, 0 for a free article
    Wallets,     \* addresses
    Selections,  \* what buyers ask for
    MaxPrice,    \* maxArticlePriceAtomic of the Base lane
    Readers,     \* requests that open a session
    Purchases,   \* requests of one buyer on the Base lane
    MaxEdits,    \* bound: writes of the creator
    MaxRestarts  \* bound: restarts of the gateway

NoWallet == [addr |-> "none", verified |-> FALSE]

StorefrontAssumption ==
    /\ NoText \notin Texts
    /\ Length \in [Texts -> Nat]
    /\ Rows \in [Texts -> Seq(Section)]
    /\ Prices \subseteq Nat
    /\ Wallets # {}
    /\ Selections \subseteq Selectable
    /\ MaxPrice \in Nat
    /\ IsFiniteSet(Purchases)
    /\ MaxEdits \in Nat /\ MaxRestarts \in Nat

VARIABLES
    article,    \* the article's row: live, price, text
    rows,       \* its section rows
    wallet,     \* the creator's wallet
    edits, restarts,
    reader,     \* a request that opens a session: [at, sel, row, rows]
    session,    \* rows of stream_sessions: what was asked, the price, the recipient
    words,      \* PaidReadingWorkflow.streamStates: the words to slice, or none
    rebuild,    \* a stream request on its way to them after a restart
    got,        \* what a reader was delivered
    chosen,     \* what the session offered when it opened
    sale,       \* a purchase: [at, row, terms, auth]
    signed,     \* authorisations the buyer has signed: the terms, by purchase
    paid,       \* authorisations the facilitator has settled
    released,   \* bodies handed out: [text, price, to, auth]
    facilitator \* CdpBaseVerifier.ready: none, ready, failed

catalogue == <<article, rows, wallet>>
reading   == <<reader, session, words, rebuild, got, chosen>>
selling   == <<sale, signed, paid, released, facilitator>>
vars == <<article, rows, wallet, edits, restarts, reader, session, words, rebuild, got,
          chosen, sale, signed, paid, released, facilitator>>

-----------------------------------------------------------------------------

NoRow     == [live |-> FALSE, price |-> 0, text |-> NoText]
NoWords   == [known |-> FALSE, list |-> <<>>]
NoReader  == [at |-> "idle", sel |-> Article, row |-> NoRow, rows |-> <<>>]
NoSession == [open |-> FALSE, sel |-> Article, price |-> 0, to |-> NoWallet.addr]
NoRebuild == [at |-> "idle", row |-> NoRow]
NoTerms   == [amount |-> 0, to |-> NoWallet.addr]
NoSale    == [at |-> "idle", row |-> NoRow, terms |-> NoTerms, auth |-> {}]

Init ==
    /\ \E t \in Texts, p \in Prices :
          article = [live |-> TRUE, price |-> p, text |-> t] /\ rows = Rows[t]
    /\ wallet = [addr |-> CHOOSE w \in Wallets : TRUE, verified |-> TRUE]
    /\ edits = 0 /\ restarts = 0
    /\ reader = [r \in Readers |-> NoReader]
    /\ session = [r \in Readers |-> NoSession]
    /\ words = [r \in Readers |-> NoWords]
    /\ rebuild = [r \in Readers |-> NoRebuild]
    /\ got = [r \in Readers |-> <<>>]
    /\ chosen = [r \in Readers |-> <<>>]
    /\ sale = [p \in Purchases |-> NoSale]
    /\ signed = [p \in Purchases |-> NoTerms]
    /\ paid = {}
    /\ released = {}
    /\ facilitator = "none"

-----------------------------------------------------------------------------
(* The creator's side, another program.                                    *)

\* A new body, price or state; the section rows follow in a write of their own.
EditArticle ==
    /\ edits < MaxEdits
    /\ edits' = edits + 1
    /\ \E t \in Texts, p \in Prices, live \in BOOLEAN :
          article' = [live |-> live, price |-> p, text |-> t]
    /\ UNCHANGED <<rows, wallet, restarts, reading, selling>>

EditSections ==
    /\ rows # Rows[article.text]
    /\ rows' = Rows[article.text]
    /\ UNCHANGED <<article, wallet, edits, restarts, reading, selling>>

EditWallet ==
    /\ edits < MaxEdits
    /\ edits' = edits + 1
    /\ wallet' \in {NoWallet} \cup [addr : Wallets, verified : BOOLEAN]
    /\ UNCHANGED <<article, rows, restarts, reading, selling>>

-----------------------------------------------------------------------------
(* POST /sessions.                                                         *)

\* The words of a body under given section rows, as the repository hands them out:
\* the rows are cut to the body.
Sliced(text, secs, sel) ==
    LET fit == ClampSections(secs, Length[text])
        at  == Resolve(fit, Length[text], sel)
    IN  [k \in DOMAIN at |-> <<text, at[k]>>]

Refused(text, secs, sel) ==
    SelectionError(ClampSections(secs, Length[text]), Length[text], sel) # "none"

\* What either wallet query must find before anything is sold.
Payable == wallet.verified

\* getPublishedArticle, first query.
LoadArticle(r) ==
    /\ reader[r].at = "idle"
    /\ \E sel \in Selections :
          reader' = [reader EXCEPT ![r] =
                       IF article.live
                       THEN [NoReader EXCEPT !.at = "row", !.sel = sel, !.row = article]
                       ELSE [NoReader EXCEPT !.at = "answered"]]
    /\ UNCHANGED <<catalogue, edits, restarts, session, words, rebuild, got, chosen, selling>>

\* getPublishedArticle, second query.
LoadSections(r) ==
    /\ reader[r].at = "row"
    /\ reader' = [reader EXCEPT ![r] =
                    [@ EXCEPT !.at = IF reader[r].row.price = 0 THEN "select" ELSE "wallet", !.rows = rows]]
    /\ UNCHANGED <<catalogue, edits, restarts, session, words, rebuild, got, chosen, selling>>

\* The row of the session, as it will be inserted: everything is taken from the copy.
Opened(r, to) ==
    [open |-> FALSE, sel |-> reader[r].sel, price |-> reader[r].row.price, to |-> to]

\* The selection is resolved at once when the wallet is known; then come the awaits for
\* the conversation and the payment terms, which change nothing here.
Select(r, to) ==
    IF Refused(reader[r].row.text, reader[r].rows, reader[r].sel)
    THEN /\ reader' = [reader EXCEPT ![r].at = "answered"]
         /\ UNCHANGED session
    ELSE /\ reader' = [reader EXCEPT ![r].at = "insert"]
         /\ session' = [session EXCEPT ![r] = Opened(r, to)]

LoadWallet(r) ==
    /\ reader[r].at = "wallet"
    /\ IF Payable THEN Select(r, wallet.addr)
       ELSE reader' = [reader EXCEPT ![r].at = "answered"] /\ UNCHANGED session
    /\ UNCHANGED <<catalogue, edits, restarts, words, rebuild, got, chosen, selling>>

OpenFree(r) ==
    /\ reader[r].at = "select"
    /\ Select(r, NoWallet.addr)
    /\ UNCHANGED <<catalogue, edits, restarts, words, rebuild, got, chosen, selling>>

\* createSession, then rememberSession before anything else runs.
Insert(r) ==
    LET list == Sliced(reader[r].row.text, reader[r].rows, reader[r].sel)
    IN  /\ reader[r].at = "insert"
        /\ reader' = [reader EXCEPT ![r].at = "answered"]
        /\ session' = [session EXCEPT ![r].open = TRUE]
        /\ words' = [words EXCEPT ![r] = [known |-> TRUE, list |-> list]]
        /\ chosen' = [chosen EXCEPT ![r] = list]
        /\ UNCHANGED <<catalogue, edits, restarts, rebuild, got, selling>>

-----------------------------------------------------------------------------
(* Streaming.                                                              *)

\* The next words of the copy in memory, as many as the buyer asked and could pay for.
Stream(r) ==
    /\ session[r].open
    /\ words[r].known
    /\ rebuild[r].at = "idle"
    /\ \E n \in 1 .. Len(words[r].list) - Len(got[r]) :
          got' = [got EXCEPT ![r] = @ \o SubSeq(words[r].list, Len(@) + 1, Len(@) + n)]
    /\ UNCHANGED <<catalogue, edits, restarts, reader, session, words, rebuild, chosen, selling>>

\* After a restart the words are cut again: the article's row, in any state, ...
RebuildArticle(r) ==
    /\ session[r].open
    /\ ~words[r].known
    /\ rebuild[r].at = "idle"
    /\ rebuild' = [rebuild EXCEPT ![r] = [at |-> "row", row |-> article]]
    /\ UNCHANGED <<catalogue, edits, restarts, reader, session, words, got, chosen, selling>>

\* Variation: the selection stored with the session is not looked at.
Persisted_Label(r) == Article

\* The selection stored with the session.
Persisted(r) == session[r].sel

\* ... then its section rows, and the selection that was stored.
RebuildSections(r) ==
    LET row == rebuild[r].row
    IN  /\ rebuild[r].at = "row"
        /\ rebuild' = [rebuild EXCEPT ![r] = NoRebuild]
        /\ words' = IF Refused(row.text, rows, Persisted(r)) THEN words
                    ELSE [words EXCEPT ![r] =
                            [known |-> TRUE, list |-> Sliced(row.text, rows, Persisted(r))]]
        /\ UNCHANGED <<catalogue, edits, restarts, reader, session, got, chosen, selling>>

\* The process ends: requests in flight are lost, and so is what is only in memory.
Restart ==
    /\ restarts < MaxRestarts
    /\ restarts' = restarts + 1
    /\ words' = [r \in Readers |-> NoWords]
    /\ rebuild' = [r \in Readers |-> NoRebuild]
    /\ reader' = [r \in Readers |->
                    IF reader[r].at = "idle" THEN NoReader ELSE [NoReader EXCEPT !.at = "answered"]]
    /\ sale' = [p \in Purchases |->
                    IF sale[p].at = "idle" THEN NoSale ELSE [NoSale EXCEPT !.at = "answered"]]
    /\ facilitator' = "none"
    /\ UNCHANGED <<catalogue, edits, session, got, chosen, signed, paid, released>>

-----------------------------------------------------------------------------
(* POST /x402/articles: one purchase on Base.                              *)

WholePrice(row) == row.price * Length[row.text]

\* The article must be live, paid, and within the lane's limit.
LoadOffer(p) ==
    /\ sale[p].at = "idle"
    /\ \E auth \in SUBSET {q \in Purchases : signed[q] # NoTerms} :
          /\ Cardinality(auth) <= 1
          /\ sale' = [sale EXCEPT ![p] =
                IF article.live /\ WholePrice(article) \in 1 .. MaxPrice
                THEN [NoSale EXCEPT !.at = "wallet", !.row = article, !.auth = auth]
                ELSE [NoSale EXCEPT !.at = "answered"]]
    /\ UNCHANGED <<catalogue, edits, restarts, reading, signed, paid, released, facilitator>>

\* The terms of the article as it was read, payable to its creator.
Challenge(p) == [amount |-> WholePrice(sale[p].row), to |-> wallet.addr]

\* The recipient is the creator's verified wallet or nobody.  Without a payment the
\* challenge is the answer, and the buyer signs it.
LoadRecipient(p) ==
    /\ sale[p].at = "wallet"
    /\ \/ /\ ~Payable
          /\ sale' = [sale EXCEPT ![p].at = "answered"]
          /\ UNCHANGED signed
       \/ /\ Payable /\ sale[p].auth = {}
          /\ sale' = [sale EXCEPT ![p].at = "answered"]
          /\ signed' = [signed EXCEPT ![p] = Challenge(p)]
       \/ /\ Payable /\ sale[p].auth # {}
          /\ sale' = [sale EXCEPT ![p].at = "server", ![p].terms = Challenge(p)]
          /\ UNCHANGED signed
    /\ UNCHANGED <<catalogue, edits, restarts, reading, paid, released, facilitator>>

\* CdpBaseVerifier.server: the first use decides for the life of the process.
ReachFacilitator(p) ==
    /\ sale[p].at = "server"
    /\ facilitator' \in IF facilitator = "none" THEN {"ready", "failed"} ELSE {facilitator}
    /\ sale' = [sale EXCEPT ![p].at = IF facilitator' = "ready" THEN "verify" ELSE "answered"]
    /\ UNCHANGED <<catalogue, edits, restarts, reading, signed, paid, released>>

\* Variation: the terms are those the buyer signed.
Required_Buyers(p, q) == signed[q]

\* What the signature must authorise: the terms this request made.
Required(p, q) == sale[p].terms

\* The facilitator checks the signature against the terms; or it fails.
VerifyPayment(p) ==
    /\ sale[p].at = "verify"
    /\ \E q \in sale[p].auth, valid \in BOOLEAN :
          /\ valid => signed[q] = Required(p, q) /\ q \notin paid
          /\ sale' = [sale EXCEPT ![p].at = IF valid THEN "settle" ELSE "answered"]
    /\ UNCHANGED <<catalogue, edits, restarts, reading, signed, paid, released, facilitator>>

\* The settlement succeeds: an authorisation can be used once.
Accepted(p, q) == q \notin paid

\* The payment moves and the body is released; the payment moves and the answer is lost;
\* nothing moves.
SettlePayment(p) ==
    /\ sale[p].at = "settle"
    /\ sale' = [sale EXCEPT ![p].at = "answered"]
    /\ \E q \in sale[p].auth :
          \/ /\ Accepted(p, q)
             /\ paid' = paid \cup {q}
             /\ released' = released \cup
                  {[by |-> p, text |-> sale[p].row.text, price |-> sale[p].row.price, auth |-> q]}
          \/ /\ Accepted(p, q)
             /\ paid' = paid \cup {q}
             /\ UNCHANGED released
          \/ UNCHANGED <<paid, released>>
    /\ UNCHANGED <<catalogue, edits, restarts, reading, signed, facilitator>>

-----------------------------------------------------------------------------

Next ==
    \/ EditArticle \/ EditSections \/ EditWallet \/ Restart
    \/ \E r \in Readers :
          \/ LoadArticle(r) \/ LoadSections(r) \/ LoadWallet(r) \/ OpenFree(r) \/ Insert(r)
          \/ Stream(r) \/ RebuildArticle(r) \/ RebuildSections(r)
    \/ \E p \in Purchases :
          \/ LoadOffer(p) \/ LoadRecipient(p) \/ ReachFacilitator(p)
          \/ VerifyPayment(p) \/ SettlePayment(p)

Spec == Init /\ [][Next]_vars

-----------------------------------------------------------------------------
(* What buyers and creators may rely on.                                   *)

Copies     == [live : BOOLEAN, price : Prices \cup {0}, text : Texts \cup {NoText}]
Addresses  == Wallets \cup {NoWallet.addr}
Terms      == [amount : Nat, to : Addresses]

TypeOK ==
    /\ article \in [live : BOOLEAN, price : Prices, text : Texts]
    /\ rows \in {Rows[t] : t \in Texts}
    /\ wallet \in [addr : Addresses, verified : BOOLEAN]
    /\ edits \in 0 .. MaxEdits /\ restarts \in 0 .. MaxRestarts
    /\ reader \in [Readers -> [at : {"idle", "row", "wallet", "select", "insert", "answered"},
                               sel : Selections \cup {Article}, row : Copies,
                               rows : {Rows[t] : t \in Texts} \cup {<<>>}]]
    /\ session \in [Readers -> [open : BOOLEAN, sel : Selections \cup {Article},
                                price : Prices \cup {0}, to : Addresses]]
    /\ words \in [Readers -> [known : BOOLEAN, list : Seq(Texts \X Nat)]]
    /\ rebuild \in [Readers -> [at : {"idle", "row"}, row : Copies]]
    /\ got \in [Readers -> Seq(Texts \X Nat)]
    /\ chosen \in [Readers -> Seq(Texts \X Nat)]
    /\ sale \in [Purchases -> [at : {"idle", "wallet", "server", "verify", "settle", "answered"},
                               row : Copies, terms : Terms, auth : SUBSET Purchases]]
    /\ signed \in [Purchases -> Terms]
    /\ paid \subseteq Purchases
    /\ released \subseteq [by : Purchases, text : Texts, price : Prices, auth : Purchases]
    /\ facilitator \in {"none", "ready", "failed"}

\* Every word delivered is a word of a body the article has had, and none is delivered
\* twice in one life of the process, although the body and the section rows are read
\* apart from one another and from the edits that change them.
WordsAreReal ==
    \A r \in Readers : \A i, j \in DOMAIN got[r] :
        /\ got[r][i][2] \in 0 .. (Length[got[r][i][1]] - 1)
        /\ restarts = 0 /\ i # j => got[r][i] # got[r][j]

\* A session that is cut again from the body and the section rows it was opened with
\* goes on where it was: what it delivered is a beginning of what was chosen.
RebuiltAsChosen ==
    \A r \in Readers :
        edits = 0 => got[r] = SubSeq(chosen[r], 1, Len(got[r]))

\* A body is released for a settled payment of its whole price at the time it was read,
\* to a wallet the creator had verified, and one payment releases one body.
BaseSaleIsExact ==
    \A x \in released :
        /\ x.auth \in paid
        /\ signed[x.auth].amount = x.price * Length[x.text]
        /\ signed[x.auth].to \in Wallets
        /\ \A y \in released : y.auth = x.auth => y = x
=============================================================================

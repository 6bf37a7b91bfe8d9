------------------------------ MODULE Selection ------------------------------
(***************************************************************************)
(* What a request selects of an article, and what the words cost: the pure *)
(* functions of the core package and of words.ts.  A section is a record   *)
(* [id, start, count] over the article's words, which are numbered from 0. *)
(***************************************************************************)
EXTENDS Integers, Sequences, FiniteSets

FullArticleId == "full-article"

Lesser(a, b)  == IF a <= b THEN a ELSE b
Greater(a, b) == IF a >= b THEN a ELSE b

-----------------------------------------------------------------------------
(* Money, in atomic units; a fee is given in basis points and rounded down. *)

AddBasisPoints(amount, bps) == amount + (amount * bps) \div 10000

\* quotePerWord: the price of one word, on which every charge is based.
WordPayment(price, bps) == AddBasisPoints(price, bps)

\* Variation: the fee is rounded up where words are charged.
Charged_Up(n, price, bps) == n * (price + (price * bps + 9999) \div 10000)

\* What the buyer is charged for n words, in however many bundles.
Charged(n, price, bps) == n * WordPayment(price, bps)

\* usageForWords: what the usage event says the buyer paid for them.
Reported(n, price, bps) == AddBasisPoints(price * n, bps)

-----------------------------------------------------------------------------
(* Sections.                                                               *)

\* A line of a body: whether it is a heading, the name the heading makes, its words.
Line == [head : BOOLEAN, id : STRING, n : Nat]

\* How many words the first k lines have.
Before(lines, k) ==
    LET f[i \in 0 .. k] == IF i = 0 THEN 0 ELSE f[i - 1] + lines[i].n IN f[k]

\* The word at which the section opened by line i ends: where the next heading starts.
SectionEnd(lines, i) ==
    LET next == {j \in DOMAIN lines : j > i /\ lines[j].head}
    IN  IF next = {} THEN Before(lines, Len(lines))
        ELSE Before(lines, (CHOOSE j \in next : \A k \in next : j <= k) - 1)

\* sectionsFromMarkdown: a section holds what follows its heading, the words of the
\* heading are in the whole article only.
SectionsOf(lines) ==
    LET heads == {i \in DOMAIN lines : lines[i].head}
        Nth(k) == CHOOSE i \in heads : Cardinality({j \in heads : j < i}) = k - 1
        full  == [id |-> FullArticleId, start |-> 0, count |-> Before(lines, Len(lines))]
    IN  <<full>> \o
        [k \in 1 .. Cardinality(heads) |->
            LET i == Nth(k) IN
            [id |-> lines[i].id, start |-> Before(lines, i),
             count |-> SectionEnd(lines, i) - Before(lines, i)]]

Clamp(v, total) == Greater(0, Lesser(v, total))

\* Variation: only the start is brought inside the article.
ClampSection_Start(s, total) == [s EXCEPT !.start = Clamp(s.start, total)]

\* clampSectionsToWords: a stored range that no longer fits the body is cut.
ClampSection(s, total) ==
    LET start == Clamp(s.start, total)
    IN  [s EXCEPT !.start = start, !.count = Greater(0, Lesser(s.count, total - start))]

ClampSections(sections, total) ==
    [i \in DOMAIN sections |-> ClampSection(sections[i], total)]

-----------------------------------------------------------------------------
(* Selections: [mode, ids, start, count].                                  *)

Article    == [mode |-> "article", ids |-> <<>>, start |-> 0, count |-> 0]
Named(ids) == [mode |-> "sections", ids |-> ids, start |-> 0, count |-> 0]
Words(start, count) == [mode |-> "words", ids |-> <<>>, start |-> start, count |-> count]

\* What a stored section and a stored selection can be.
Section    == [id : STRING, start : Nat, count : Nat]
Selectable == [mode : {"article", "sections", "words"}, ids : Seq(STRING), start : Int, count : Int]

NoNumber == -1
NoId     == ""

OrZero(v) == IF v = NoNumber THEN 0 ELSE v

\* selectionFromRequest: a word range, else the list of sections, else the one section.
SelectionOf(req) ==
    IF req.start # NoNumber \/ req.count # NoNumber
    THEN Words(OrZero(req.start), OrZero(req.count))
    ELSE IF req.ids # <<>> THEN Named(req.ids)
    ELSE IF req.id \notin {NoId, FullArticleId} THEN Named(<<req.id>>)
    ELSE Article

\* The first section of that name: names derived from headings may repeat.
Find(sections, id) ==
    sections[CHOOSE i \in DOMAIN sections :
                /\ sections[i].id = id
                /\ \A j \in 1 .. (i - 1) : sections[j].id # id]

Known(sections, id) == id = FullArticleId \/ \E i \in DOMAIN sections : sections[i].id = id

\* Variation: a range is not cut to the body.
Within_Uncut(start, count, total) == start .. (start + count - 1)

Within(start, count, total) == Clamp(start, total) .. (Clamp(start + count, total) - 1)

\* The words a selection stands for, as a set.
Chosen(sections, total, sel) ==
    CASE sel.mode = "article"  -> 0 .. (total - 1)
      [] sel.mode = "sections" ->
            UNION {IF sel.ids[i] = FullArticleId THEN 0 .. (total - 1)
                   ELSE LET s == Find(sections, sel.ids[i])
                        IN  Within(s.start, s.count, total) : i \in DOMAIN sel.ids}
      [] sel.mode = "words"    -> Within(sel.start, sel.count, total)

\* resolveSelection: why a selection is refused, "none" when it is not.
SelectionError(sections, total, sel) ==
    IF sel.mode = "sections" /\ sel.ids = <<>> THEN "no_sections"
    ELSE IF sel.mode = "sections" /\ \E i \in DOMAIN sel.ids : ~Known(sections, sel.ids[i])
         THEN "section_not_found"
    ELSE IF sel.mode = "words" /\ (sel.start < 0 \/ sel.count <= 0) THEN "invalid_range"
    ELSE IF Chosen(sections, total, sel) = {} THEN "empty_selection"
    ELSE "none"

\* In the order of the article, each once.
InOrder(S) ==
    [k \in 1 .. Cardinality(S) |-> CHOOSE x \in S : Cardinality({y \in S : y < x}) = k - 1]

Resolve(sections, total, sel) == InOrder(Chosen(sections, total, sel))

-----------------------------------------------------------------------------
(* What must hold of them, for every input.                                *)

\* The usage a buyer is told never falls below what was charged, and exceeds it by less
\* than one atomic unit for each word: the fee is rounded once per word when words are
\* charged and once over the total when usage is reported.
FeeGap(n, price, bps) ==
    /\ Charged(n, price, bps) <= Reported(n, price, bps)
    /\ Reported(n, price, bps) - Charged(n, price, bps) <= IF n = 0 THEN 0 ELSE n - 1

\* The two places that cut a stored range to the body agree, whatever the range has
\* drifted to: cutting the sections when the article is loaded changes no selection,
\* and what is advertised is what can be sliced.
ClampsAgree(s, total) ==
    LET c == ClampSection(s, total)
    IN  /\ Within(c.start, c.count, total) = Within(s.start, s.count, total)
        /\ c.count = Cardinality(Within(s.start, s.count, total))

\* Sections made from headings share no word, so a union of them is never billed twice
\* for one, and none of them sells a heading.
SectionsApart(lines) ==
    LET secs    == SectionsOf(lines)
        Span(k) == secs[k].start .. (secs[k].start + secs[k].count - 1)
        heading == UNION {Before(lines, i - 1) .. (Before(lines, i) - 1) :
                            i \in {j \in DOMAIN lines : lines[j].head}}
    IN  \A j \in 2 .. Len(secs) :
            /\ secs[j].count >= 0
            /\ Span(j) \cap heading = {}
            /\ \A k \in 2 .. Len(secs) : j # k => Span(j) \cap Span(k) = {}
=============================================================================

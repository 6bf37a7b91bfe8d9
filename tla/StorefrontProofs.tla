-------------------------- MODULE StorefrontProofs --------------------------
(***************************************************************************)
(* What the pure functions of Selection guarantee for every price, fee,    *)
(* section and selection, where the runs try a table of them; and what     *)
(* both lanes keep, for any number of articles, wallets, readers,          *)
(* purchases, edits and restarts.  A reading session delivers real words,  *)
(* and the same ones as it was opened with as long as nothing changed      *)
(* behind it.  The Base lane sells at the price it quoted: what a verified *)
(* payment was signed for may have been edited since; what counts is that  *)
(* the terms judged, the body released and the price are of one copy of    *)
(* the row, and that a purchase is signed once.                            *)
(***************************************************************************)
EXTENDS Storefront, FiniteSetTheorems, SequenceTheorems, WellFoundedInduction, TLAPS

\* How AddBasisPoints rounds: a quotient by 10000 and its remainder.
LEMMA Rounding ==
    ASSUME NEW x \in Nat
    PROVE  \E q, r \in Nat : x = 10000 * q + r /\ r < 10000 /\ x \div 10000 = q
<1>1. x \div 10000 \in Nat
  BY SMT
<1>2. x % 10000 \in Nat /\ x % 10000 < 10000
  BY SMT
<1>3. x = 10000 * (x \div 10000) + (x % 10000)
  BY SMT
<1> QED BY <1>1, <1>2, <1>3

\* The quotient is the only number between the bounds.
LEMMA Quotient ==
    ASSUME NEW x \in Nat, NEW q \in Nat, 10000 * q <= x, x < 10000 * q + 10000
    PROVE  x \div 10000 = q
  BY SMT

\* A multiple of 10000 passes through the division.
LEMMA WholeFee ==
    ASSUME NEW a \in Nat, NEW b \in Nat
    PROVE  (10000 * a + b) \div 10000 = a + b \div 10000
<1>1. PICK q \in Nat, r \in Nat : b = 10000 * q + r /\ r < 10000 /\ b \div 10000 = q
  BY Rounding
<1>2. 10000 * (a + q) <= 10000 * a + b /\ 10000 * a + b < 10000 * (a + q) + 10000
  BY <1>1
<1> QED BY <1>1, <1>2, Quotient

\* n remainders below 10000 make less than n whole units.
LEMMA Remainders ==
    ASSUME NEW n \in Nat, NEW r \in Nat, r < 10000
    PROVE  /\ (n * r) \div 10000 \in Nat
           /\ (n * r) \div 10000 <= IF n = 0 THEN 0 ELSE n - 1
<1>1. n * r \in Nat /\ n * r <= n * 9999
  BY SMT
<1>2. PICK q \in Nat, s \in Nat :
        n * r = 10000 * q + s /\ s < 10000 /\ (n * r) \div 10000 = q
  BY <1>1, Rounding
<1>3. n = 0 => q = 0
  BY <1>1, <1>2
<1>4. n # 0 => q < n
  BY <1>1, <1>2
<1> QED BY <1>2, <1>3, <1>4

\* The usage reported for n words is never below their charge, and exceeds it by less
\* than one atomic unit a word, for every price and every fee.
THEOREM FeeGapBounded ==
    ASSUME NEW n \in Nat, NEW price \in Nat, NEW bps \in Nat
    PROVE  FeeGap(n, price, bps)
<1> DEFINE fee == price * bps
<1>1. fee \in Nat /\ price * n \in Nat /\ n * price = price * n
  BY SMT
<1>2. PICK q \in Nat, r \in Nat : fee = 10000 * q + r /\ r < 10000 /\ fee \div 10000 = q
  BY <1>1, Rounding
<1>3. Charged(n, price, bps) = price * n + n * q
  <2>1. Charged(n, price, bps) = n * (price + q)
    BY <1>2 DEF Charged, WordPayment, AddBasisPoints
  <2> QED BY <2>1, SMT
<1>4. Reported(n, price, bps) = price * n + n * q + (n * r) \div 10000
  <2>1. (price * n) * bps = n * fee
    BY SMT
  <2>2. n * fee = 10000 * (n * q) + n * r
    BY <1>2, SMT
  <2>3. n * q \in Nat /\ n * r \in Nat
    BY SMT
  <2>4. ((price * n) * bps) \div 10000 = n * q + (n * r) \div 10000
    BY <2>1, <2>2, <2>3, WholeFee
  <2> HIDE DEF fee
  <2> QED BY <1>1, <2>3, <2>4 DEF Reported, AddBasisPoints
<1>5. price * n + n * q \in Nat
  BY SMT
<1> QED BY <1>2, <1>3, <1>4, <1>5, Remainders DEF FeeGap

-----------------------------------------------------------------------------
(* Ranges that have drifted away from the body.                            *)

\* Clamp brings a number into the body, and leaves one that is there alone.
LEMMA Clamped ==
    ASSUME NEW v \in Nat, NEW total \in Nat
    PROVE  /\ Clamp(v, total) \in 0 .. total
           /\ v <= total => Clamp(v, total) = v
           /\ v > total => Clamp(v, total) = total
  BY DEF Clamp, Greater, Lesser

\* What clampSectionsToWords stores and what slicing takes of the range it was given are
\* the same words, and the count it advertises is how many there are, for every range.
THEOREM ClampsAlwaysAgree ==
    ASSUME NEW Ids, NEW s \in [id : Ids, start : Nat, count : Nat], NEW total \in Nat
    PROVE  ClampsAgree(s, total)
<1> DEFINE from == Clamp(s.start, total)
           to   == Clamp(s.start + s.count, total)
<1>0. s.start \in Nat /\ s.count \in Nat /\ s.start + s.count \in Nat
  OBVIOUS
<1>1. from \in 0 .. total /\ to \in 0 .. total /\ from <= to
  BY <1>0 DEF Clamp, Greater, Lesser
<1>2. Greater(0, Lesser(s.count, total - from)) = to - from
  BY <1>0 DEF Clamp, Greater, Lesser
<1>3. ClampSection(s, total).start = from /\ ClampSection(s, total).count = to - from
  <2> HIDE DEF to
  <2>1. ClampSection(s, total)
          = [s EXCEPT !.start = from, !.count = Greater(0, Lesser(s.count, total - from))]
    BY Zenon DEF ClampSection
  <2> HIDE DEF from
  <2>2. ClampSection(s, total) = [s EXCEPT !.start = from, !.count = to - from]
    BY <1>2, <2>1
  <2> QED BY <2>2
<1>4. Within(s.start, s.count, total) = from .. (to - 1)
  BY Zenon DEF Within
<1>5. Within(from, to - from, total) = from .. (to - 1)
  <2>1. Clamp(from, total) = from /\ Clamp(from + (to - from), total) = to
    <3> HIDE DEF from, to
    <3>1. from + (to - from) = to
      BY <1>1
    <3> QED BY <1>1, <3>1, Clamped
  <2> HIDE DEF from, to
  <2> QED BY <2>1 DEF Within
<1>6. Cardinality(from .. (to - 1)) = to - from
  <2> HIDE DEF from, to
  <2>1. from \in Int /\ to - 1 \in Int
    BY <1>1
  <2>2. Cardinality(from .. (to - 1)) = IF from > to - 1 THEN 0 ELSE (to - 1) - from + 1
    BY <2>1, FS_Interval
  <2> QED BY <1>1, <2>2
<1> HIDE DEF from, to
<1> QED BY <1>3, <1>4, <1>5, <1>6 DEF ClampsAgree

-----------------------------------------------------------------------------
(* Selections.                                                             *)

\* A set of naturals that has an element has a least one.
LEMMA LeastNatural ==
    ASSUME NEW T \in SUBSET Nat, T # {}
    PROVE  \E x \in T : \A y \in T : x <= y
<1>1. PICK x \in T : \A y \in T : <<y, x>> \notin OpToRel(<, Nat)
  BY WFMin, NatLessThanWellFounded
<1>2. \A y \in T : ~ (y < x)
  BY <1>1, Zenon DEF OpToRel
<1> QED
  BY <1>2

\* Each element of a finite set has a place of its own, below the size of the set, and
\* each such place is taken.
LEMMA Places ==
    ASSUME NEW S \in SUBSET Nat, IsFiniteSet(S)
    PROVE  /\ Cardinality(S) \in Nat
           /\ \A k \in 1 .. Cardinality(S) :
                 \E x \in S : Cardinality({y \in S : y < x}) = k - 1
<1> DEFINE n       == Cardinality(S)
           Less(x) == {y \in S : y < x}
           place   == [x \in S |-> Cardinality(Less(x))]
<1>1. n \in Nat
  BY FS_CardinalityType
<1>2. ASSUME NEW x \in S
      PROVE  IsFiniteSet(Less(x)) /\ Cardinality(Less(x)) \in 0 .. (n - 1)
  <2>1. Less(x) \subseteq S /\ x \notin Less(x)
    OBVIOUS
  <2>2. IsFiniteSet(Less(x)) /\ Cardinality(Less(x)) <= n /\ Cardinality(Less(x)) # n
    BY <2>1, FS_Subset
  <2>3. Cardinality(Less(x)) \in Nat
    BY <2>2, FS_CardinalityType
  <2> QED BY <1>1, <2>2, <2>3
<1>3. ASSUME NEW x \in S, NEW z \in S, x < z
      PROVE  Cardinality(Less(x)) < Cardinality(Less(z))
  <2>1. Less(x) \subseteq Less(z) /\ x \in Less(z) /\ x \notin Less(x)
    <3>1. x \in Nat /\ z \in Nat /\ \A y \in S : y \in Nat
      OBVIOUS
    <3>2. \A y \in S : y < x => y < z
      BY <1>3, <3>1
    <3>3. Less(x) \subseteq Less(z)
      BY <3>2
    <3>4. x \in Less(z)
      BY <1>3
    <3>5. ~ (x < x)
      BY <3>1
    <3>6. x \notin Less(x)
      BY <3>5
    <3> QED BY <3>3, <3>4, <3>6
  <2>2. Cardinality(Less(x)) <= Cardinality(Less(z)) /\ Cardinality(Less(x)) # Cardinality(Less(z))
    BY <1>2, <2>1, FS_Subset
  <2> QED BY <1>2, <2>2
<1>4. place \in Injection(S, 0 .. (n - 1))
  <2>1. place \in [S -> 0 .. (n - 1)]
    BY <1>2
  <2>2. ASSUME NEW x \in S, NEW z \in S, place[x] = place[z] PROVE x = z
    <3>1. Cardinality(Less(x)) = Cardinality(Less(z))
      BY <2>2
    <3>2. ~(x < z) /\ ~(z < x)
      BY <1>2, <1>3, <3>1
    <3> QED BY <3>2
  <2> HIDE DEF place
  <2> QED BY <2>1, <2>2 DEF Injection, IsInjective
<1>5. IsFiniteSet(0 .. (n - 1)) /\ Cardinality(0 .. (n - 1)) = n
  <2> HIDE DEF n
  <2>1. 0 \in Int /\ n - 1 \in Int
    BY <1>1
  <2>2. /\ IsFiniteSet(0 .. (n - 1))
        /\ Cardinality(0 .. (n - 1)) = IF 0 > n - 1 THEN 0 ELSE (n - 1) - 0 + 1
    BY <2>1, FS_Interval
  <2> QED BY <1>1, <2>2
<1>6. place \in Surjection(S, 0 .. (n - 1))
  BY <1>4, <1>5, FS_Injection
<1>7. ASSUME NEW k \in 1 .. n PROVE \E x \in S : Cardinality(Less(x)) = k - 1
  <2>1. k - 1 \in 0 .. (n - 1)
    BY <1>1
  <2>2. PICK x \in S : place[x] = k - 1
    BY <1>6, <2>1 DEF Surjection
  <2> QED BY <2>2
<1> QED BY <1>1, <1>7

\* InOrder lists a finite set of naturals, each element once.
LEMMA InOrderLists ==
    ASSUME NEW S \in SUBSET Nat, IsFiniteSet(S)
    PROVE  /\ InOrder(S) \in Seq(S)
           /\ \A j, k \in DOMAIN InOrder(S) : InOrder(S)[j] = InOrder(S)[k] => j = k
<1> DEFINE n       == Cardinality(S)
           item(k) == CHOOSE x \in S : Cardinality({y \in S : y < x}) = k - 1
<1>1. n \in Nat
  BY Places
<1>2. ASSUME NEW k \in 1 .. n
      PROVE  item(k) \in S /\ Cardinality({y \in S : y < item(k)}) = k - 1
  BY Places
<1>3. InOrder(S) = [k \in 1 .. n |-> item(k)]
  BY DEF InOrder
<1>4. InOrder(S) \in [1 .. n -> S]
  BY <1>2, <1>3
<1>5. ASSUME NEW j \in 1 .. n, NEW k \in 1 .. n, InOrder(S)[j] = InOrder(S)[k]
      PROVE  j = k
  <2>1. item(j) = item(k)
    BY <1>3, <1>5
  <2>2. j - 1 = k - 1
    BY <1>2, <2>1
  <2> QED BY <2>2
<1> QED BY <1>1, <1>4, <1>5

\* Cutting sections to a body leaves sections.
LEMMA FitSections ==
    ASSUME NEW secs \in Seq(Section), NEW total \in Nat
    PROVE  ClampSections(secs, total) \in Seq(Section)
<1>1. ASSUME NEW i \in DOMAIN secs PROVE ClampSection(secs[i], total) \in Section
  <2>1. secs[i] \in Section
    BY <1>1
  <2> DEFINE start == Clamp(secs[i].start, total)
             count == Greater(0, Lesser(secs[i].count, total - start))
  <2>2. start \in 0 .. total
    BY <2>1, Clamped DEF Section
  <2>3. count \in Nat
    <3> HIDE DEF start
    <3> QED BY <2>1, <2>2 DEF Section, Greater, Lesser
  <2>4. ClampSection(secs[i], total) = [secs[i] EXCEPT !.start = start, !.count = count]
    BY Zenon DEF ClampSection
  <2> HIDE DEF start, count
  <2>5. PICK sec \in Section : sec = secs[i]
    BY <2>1
  <2>6. PICK from \in Nat, size \in Nat : from = start /\ size = count
    BY <2>2, <2>3
  <2>7. PICK cut : cut = [sec EXCEPT !.start = from, !.count = size]
    OBVIOUS
  <2>8. cut = [id |-> sec.id, start |-> from, count |-> size]
    BY <2>7 DEF Section
  <2>9. cut \in Section
    BY <2>8 DEF Section
  <2> QED BY <2>4, <2>5, <2>6, <2>7, <2>9
<1>2. Len(secs) \in Nat /\ DOMAIN secs = 1 .. Len(secs)
  OBVIOUS
<1> QED BY <1>1, <1>2 DEF ClampSections

\* A section that is known is found.
LEMMA FindSection ==
    ASSUME NEW secs \in Seq(Section), NEW id, id # FullArticleId, Known(secs, id)
    PROVE  Find(secs, id) \in Section
<1> DEFINE same == {i \in DOMAIN secs : secs[i].id = id}
<1>1. same \in SUBSET Nat /\ same # {}
  BY DEF Known
<1>2. PICK i \in same : \A j \in same : i <= j
  BY <1>1, LeastNatural
<1>3. i \in DOMAIN secs /\ secs[i].id = id /\ \A j \in 1 .. (i - 1) : secs[j].id # id
  BY <1>2
<1> DEFINE first == CHOOSE k \in DOMAIN secs :
                      secs[k].id = id /\ \A j \in 1 .. (k - 1) : secs[j].id # id
<1>4. first \in DOMAIN secs
  BY <1>3
<1> HIDE DEF first
<1>5. secs[first] \in Section
  BY <1>4
<1> QED BY <1>5 DEF Find, first

\* A range is cut to the body.
LEMMA WithinBody ==
    ASSUME NEW start \in Int, NEW count \in Int, NEW total \in Nat
    PROVE  Within(start, count, total) \subseteq 0 .. (total - 1)
<1>1. Clamp(start, total) \in 0 .. total /\ Clamp(start + count, total) \in 0 .. total
  BY DEF Clamp, Greater, Lesser
<1> QED BY <1>1 DEF Within

\* A selection that is not refused stands for words of the body.
LEMMA ChosenInside ==
    ASSUME NEW secs \in Seq(Section), NEW total \in Nat, NEW sel \in Selectable,
           SelectionError(secs, total, sel) = "none"
    PROVE  Chosen(secs, total, sel) \subseteq 0 .. (total - 1)
<1>1. CASE sel.mode = "article"
  BY <1>1 DEF Chosen
<1>2. CASE sel.mode = "sections"
  <2>1. ASSUME NEW i \in DOMAIN sel.ids, sel.ids[i] # FullArticleId
        PROVE  Within(Find(secs, sel.ids[i]).start, Find(secs, sel.ids[i]).count, total)
                 \subseteq 0 .. (total - 1)
    <3>1. Known(secs, sel.ids[i])
      BY <1>2, <2>1 DEF SelectionError
    <3>2. Find(secs, sel.ids[i]) \in Section
      BY <2>1, <3>1, FindSection
    <3>3. Find(secs, sel.ids[i]).start \in Int /\ Find(secs, sel.ids[i]).count \in Int
      BY <3>2 DEF Section
    <3> QED BY <3>3, WithinBody
  <2> DEFINE part(i) == IF sel.ids[i] = FullArticleId THEN 0 .. (total - 1)
                        ELSE Within(Find(secs, sel.ids[i]).start, Find(secs, sel.ids[i]).count, total)
  <2>2. \A i \in DOMAIN sel.ids : part(i) \subseteq 0 .. (total - 1)
    BY <2>1
  <2>3. Chosen(secs, total, sel) = UNION {part(i) : i \in DOMAIN sel.ids}
    BY <1>2 DEF Chosen
  <2> HIDE DEF part
  <2> QED BY <2>2, <2>3
<1>3. CASE sel.mode = "words"
  <2>1. sel.start \in Int /\ sel.count \in Int
    BY DEF Selectable
  <2>2. Chosen(secs, total, sel) = Within(sel.start, sel.count, total)
    BY <1>3 DEF Chosen
  <2> QED BY <2>1, <2>2, WithinBody
<1> QED BY <1>1, <1>2, <1>3 DEF Selectable

-----------------------------------------------------------------------------
(* Sections made from headings.                                           *)

Text == Seq(Line)

\* What the lines of a text are.
LEMMA TextFields ==
    ASSUME NEW lines \in Text
    PROVE  /\ Len(lines) \in Nat /\ DOMAIN lines = 1 .. Len(lines)
           /\ \A i \in 1 .. Len(lines) : lines[i].n \in Nat /\ lines[i].head \in BOOLEAN
<1>1. Len(lines) \in Nat /\ DOMAIN lines = 1 .. Len(lines)
  BY DEF Text
<1>2. \A i \in 1 .. Len(lines) : lines[i] \in Line
  BY <1>1 DEF Text
<1> QED BY <1>1, <1>2 DEF Line

\* g counts the words of the lines up to each of the first m.
Counts(lines, m, g) ==
    g = [i \in 0 .. m |-> IF i = 0 THEN 0 ELSE g[i - 1] + lines[i].n]

\* There is such a count, up to any line.
LEMMA CountsExist ==
    ASSUME NEW lines \in Text, NEW m \in 0 .. Len(lines)
    PROVE  \E g \in [0 .. m -> Nat] : Counts(lines, m, g)
<1> DEFINE bad == {k \in 0 .. Len(lines) : ~ \E g \in [0 .. k -> Nat] : Counts(lines, k, g)}
<1>0. Len(lines) \in Nat /\ \A i \in 1 .. Len(lines) : lines[i].n \in Nat
  BY TextFields
<1>1. SUFFICES ASSUME bad # {} PROVE FALSE
  OBVIOUS
<1>2. PICK b \in bad : \A k \in bad : b <= k
  <2>1. bad \in SUBSET Nat
    BY <1>0
  <2> HIDE DEF bad
  <2> QED BY <1>1, <2>1, LeastNatural
<1>3. b # 0
  <2> DEFINE z == [i \in 0 .. 0 |-> 0]
  <2>1. z \in [0 .. 0 -> Nat]
    OBVIOUS
  <2>2. z = [i \in 0 .. 0 |-> IF i = 0 THEN 0 ELSE z[i - 1] + lines[i].n]
    OBVIOUS
  <2> HIDE DEF z
  <2> QED BY <1>2, <2>1, <2>2 DEF Counts
<1>4. b \in 1 .. Len(lines) /\ b - 1 \in 0 .. Len(lines) /\ b - 1 \notin bad
  <2>1. b \in 0 .. Len(lines)
    OBVIOUS
  <2>2. b \in 1 .. Len(lines) /\ b - 1 \in 0 .. Len(lines) /\ ~(b <= b - 1)
    BY <1>0, <1>3, <2>1
  <2> QED BY <1>2, <2>2
<1>5. PICK g \in [0 .. (b - 1) -> Nat] : Counts(lines, b - 1, g)
  BY <1>4
<1> DEFINE h == [i \in 0 .. b |-> IF i < b THEN g[i] ELSE g[b - 1] + lines[b].n]
<1>6. h \in [0 .. b -> Nat]
  BY <1>0, <1>4
<1>7. ASSUME NEW i \in 0 .. b PROVE h[i] = IF i = 0 THEN 0 ELSE h[i - 1] + lines[i].n
  <2>1. CASE i = b
    BY <1>4, <2>1
  <2>2. CASE i < b
    <3>1. i \in 0 .. (b - 1)
      BY <1>4, <2>2
    <3>2. g[i] = IF i = 0 THEN 0 ELSE g[i - 1] + lines[i].n
      BY <1>5, <3>1 DEF Counts
    <3> QED BY <1>4, <2>2, <3>1, <3>2
  <2> QED BY <1>4, <2>1, <2>2
<1> HIDE DEF h
<1>8. Counts(lines, b, h)
  BY <1>6, <1>7 DEF Counts
<1> QED BY <1>2, <1>6, <1>8

\* And no other: two counts agree as far as both go.
LEMMA CountsAgree ==
    ASSUME NEW lines \in Text, NEW m \in Nat, NEW k \in Nat,
           NEW g, NEW h, Counts(lines, m, g), Counts(lines, k, h)
    PROVE  \A i \in Nat : i <= m /\ i <= k => g[i] = h[i]
<1> SUFFICES ASSUME NEW i \in Nat, i <= m, i <= k PROVE g[i] = h[i]
  OBVIOUS
<1> DEFINE bad == {j \in 0 .. i : g[j] # h[j]}
<1>0. i \in Nat
  OBVIOUS
<1>1. SUFFICES ASSUME bad # {} PROVE FALSE
  OBVIOUS
<1>2. PICK b \in bad : \A j \in bad : b <= j
  <2>1. bad \in SUBSET Nat
    BY <1>0
  <2> HIDE DEF bad
  <2> QED BY <1>1, <2>1, LeastNatural
<1>3. b \in 0 .. m /\ b \in 0 .. k
  BY <1>2
<1>4. g[b] = (IF b = 0 THEN 0 ELSE g[b - 1] + lines[b].n)
  BY <1>3 DEF Counts
<1>5. h[b] = (IF b = 0 THEN 0 ELSE h[b - 1] + lines[b].n)
  BY <1>3 DEF Counts
<1>6. b # 0
  BY <1>2, <1>4, <1>5
<1>7. b - 1 \in 0 .. i /\ b - 1 \notin bad
  BY <1>2, <1>6
<1>8. g[b - 1] = h[b - 1]
  BY <1>7
<1> QED BY <1>2, <1>4, <1>5, <1>6, <1>8

\* Before is the count.
LEMMA BeforeCounts ==
    ASSUME NEW lines \in Text, NEW m \in 0 .. Len(lines)
    PROVE  \E g \in [0 .. m -> Nat] : Counts(lines, m, g) /\ Before(lines, m) = g[m]
<1> DEFINE f == CHOOSE f : f = [i \in 0 .. m |-> IF i = 0 THEN 0 ELSE f[i - 1] + lines[i].n]
<1>1. PICK g \in [0 .. m -> Nat] : Counts(lines, m, g)
  BY CountsExist
<1>2. Counts(lines, m, f)
  BY <1>1 DEF Counts
<1>3. Before(lines, m) = f[m]
  BY DEF Before
<1> HIDE DEF f
<1>4. f[m] = g[m]
  BY <1>1, <1>2, CountsAgree
<1> QED BY <1>1, <1>3, <1>4

\* So each line adds its words to those before it.
LEMMA BeforeStep ==
    ASSUME NEW lines \in Text
    PROVE  /\ Before(lines, 0) = 0
           /\ \A m \in 1 .. Len(lines) :
                 Before(lines, m) = Before(lines, m - 1) + lines[m].n
           /\ \A m \in 0 .. Len(lines) : Before(lines, m) \in Nat
<1>0. Len(lines) \in Nat /\ \A i \in 1 .. Len(lines) : lines[i].n \in Nat
  BY TextFields
<1>1. \A m \in 0 .. Len(lines) : Before(lines, m) \in Nat
  <2> TAKE m \in 0 .. Len(lines)
  <2>1. PICK g \in [0 .. m -> Nat] : Before(lines, m) = g[m]
    BY BeforeCounts
  <2> QED BY <1>0, <2>1
<1>2. Before(lines, 0) = 0
  <2>1. PICK g \in [0 .. 0 -> Nat] : Counts(lines, 0, g) /\ Before(lines, 0) = g[0]
    <3>1. 0 \in 0 .. Len(lines)
      BY <1>0
    <3> QED BY <3>1, BeforeCounts
  <2> QED BY <2>1 DEF Counts
<1>3. ASSUME NEW m \in 1 .. Len(lines) PROVE Before(lines, m) = Before(lines, m - 1) + lines[m].n
  <2>1. PICK j \in Nat, k \in Nat : k = m /\ j = m - 1 /\ j \in 0 .. Len(lines) /\ k \in 0 .. Len(lines)
    BY <1>0
  <2>2. PICK g : Counts(lines, k, g) /\ Before(lines, k) = g[k]
    BY <2>1, BeforeCounts
  <2>3. PICK h : Counts(lines, j, h) /\ Before(lines, j) = h[j]
    BY <2>1, BeforeCounts
  <2>4. \A i \in Nat : i <= k /\ i <= j => g[i] = h[i]
    BY <2>2, <2>3, CountsAgree
  <2>5. g[j] = h[j]
    BY <2>1, <2>4
  <2>6. k # 0 /\ k \in 0 .. k /\ k - 1 = j
    BY <1>0, <2>1
  <2>7. \A i \in 0 .. k : g[i] = IF i = 0 THEN 0 ELSE g[i - 1] + lines[i].n
    BY <2>2 DEF Counts
  <2> QED BY <2>1, <2>2, <2>3, <2>5, <2>6, <2>7
<1> QED BY <1>1, <1>2, <1>3

\* No line has words before those of an earlier one.
LEMMA BeforeGrows ==
    ASSUME NEW lines \in Text, NEW j \in 0 .. Len(lines), NEW k \in j .. Len(lines)
    PROVE  Before(lines, j) <= Before(lines, k)
<1> DEFINE bad == {i \in j .. Len(lines) : ~(Before(lines, j) <= Before(lines, i))}
<1>0. Len(lines) \in Nat /\ \A i \in 1 .. Len(lines) : lines[i].n \in Nat
  BY TextFields
<1>1. SUFFICES ASSUME bad # {} PROVE FALSE
  OBVIOUS
<1>2. PICK b \in bad : \A i \in bad : b <= i
  <2>1. bad \in SUBSET Nat
    BY <1>0
  <2> HIDE DEF bad
  <2> QED BY <1>1, <2>1, LeastNatural
<1>3. b # j
  BY <1>0, <1>2, BeforeStep
<1>4. b \in 1 .. Len(lines) /\ b - 1 \in j .. Len(lines) /\ b - 1 \notin bad
  BY <1>0, <1>2, <1>3
<1>5. Before(lines, b) = Before(lines, b - 1) + lines[b].n
  BY <1>4, BeforeStep
<1>6. Before(lines, j) <= Before(lines, b - 1)
  BY <1>4
<1>7. Before(lines, j) \in Nat /\ Before(lines, b - 1) \in Nat /\ lines[b].n \in Nat
  BY <1>0, <1>4, BeforeStep
<1> QED BY <1>2, <1>5, <1>6, <1>7
\* Where a section ends: after its heading, and before the next one.
LEMMA SectionEnds ==
    ASSUME NEW lines \in Text, NEW i \in 1 .. Len(lines)
    PROVE  \E e \in i .. Len(lines) :
              /\ SectionEnd(lines, i) = Before(lines, e)
              /\ \A h \in 1 .. Len(lines) : lines[h].head /\ h > i => e <= h - 1
<1> DEFINE next == {j \in DOMAIN lines : j > i /\ lines[j].head}
<1>0. Len(lines) \in Nat /\ DOMAIN lines = 1 .. Len(lines)
  BY TextFields
<1>1. CASE next = {}
  <2>1. SectionEnd(lines, i) = Before(lines, Len(lines))
    BY <1>1 DEF SectionEnd
  <2>2. Len(lines) \in i .. Len(lines)
    BY <1>0
  <2>3. \A h \in 1 .. Len(lines) : ~(lines[h].head /\ h > i)
    BY <1>0, <1>1
  <2> QED BY <2>1, <2>2, <2>3
<1>2. CASE next # {}
  <2>1. next \in SUBSET Nat
    BY <1>0
  <2>2. \E x \in next : \A k \in next : x <= k
    <3> HIDE DEF next
    <3> QED BY <1>2, <2>1, LeastNatural
  <2> DEFINE first == CHOOSE j \in next : \A k \in next : j <= k
  <2>3. first \in next /\ \A k \in next : first <= k
    BY <2>2
  <2>4. SectionEnd(lines, i) = Before(lines, first - 1)
    BY <1>2 DEF SectionEnd
  <2> HIDE DEF first
  <2>5. first - 1 \in i .. Len(lines)
    BY <1>0, <2>3
  <2>6. \A h \in 1 .. Len(lines) : lines[h].head /\ h > i => first - 1 <= h - 1
    <3> TAKE h \in 1 .. Len(lines)
    <3> HAVE lines[h].head /\ h > i
    <3>1. h \in next
      BY <1>0
    <3>2. first <= h /\ first \in Nat
      BY <2>1, <2>3, <3>1
    <3> QED BY <3>2
  <2> QED BY <2>4, <2>5, <2>6
<1> QED BY <1>1, <1>2

\* The lines that are headings, and the k-th of them.
Heads(lines) == {i \in DOMAIN lines : lines[i].head}

Nth(lines, k) ==
    CHOOSE i \in Heads(lines) : Cardinality({j \in Heads(lines) : j < i}) = k - 1

\* Each section after the whole article is opened by a heading of its own.
LEMMA SectionHeads ==
    ASSUME NEW lines \in Text
    PROVE  /\ Len(SectionsOf(lines)) \in Nat
           /\ \A j \in 2 .. Len(SectionsOf(lines)) :
                 LET i == Nth(lines, j - 1) IN
                 /\ i \in 1 .. Len(lines) /\ lines[i].head
                 /\ SectionsOf(lines)[j].start = Before(lines, i)
                 /\ SectionsOf(lines)[j].count = SectionEnd(lines, i) - Before(lines, i)
           /\ \A j, k \in 2 .. Len(SectionsOf(lines)) :
                 Nth(lines, j - 1) = Nth(lines, k - 1) => j = k
<1> DEFINE n     == Cardinality(Heads(lines))
           rest  == [k \in 1 .. n |->
                       [id |-> lines[Nth(lines, k)].id, start |-> Before(lines, Nth(lines, k)),
                        count |-> SectionEnd(lines, Nth(lines, k)) - Before(lines, Nth(lines, k))]]
           full  == [id |-> FullArticleId, start |-> 0, count |-> Before(lines, Len(lines))]
<1>0. Len(lines) \in Nat /\ DOMAIN lines = 1 .. Len(lines)
  BY TextFields
<1>1. Heads(lines) \in SUBSET Nat /\ IsFiniteSet(Heads(lines))
  <2>1. IsFiniteSet(1 .. Len(lines))
    BY <1>0, FS_Interval
  <2>2. Heads(lines) \subseteq 1 .. Len(lines)
    BY <1>0 DEF Heads
  <2> QED BY <1>0, <2>1, <2>2, FS_Subset
<1>2. n \in Nat
  BY <1>1, Places
<1>3. ASSUME NEW k \in 1 .. n
      PROVE  /\ Nth(lines, k) \in Heads(lines)
             /\ Cardinality({j \in Heads(lines) : j < Nth(lines, k)}) = k - 1
  BY <1>1, Places DEF Nth
<1>4. SectionsOf(lines) = <<full>> \o rest
  BY DEF SectionsOf, Heads, Nth
<1>5. rest \in Seq({rest[k] : k \in 1 .. n}) /\ Len(rest) = n
  <2> DEFINE R == {rest[k] : k \in 1 .. n}
  <2>1. rest \in [1 .. n -> R]
    OBVIOUS
  <2> HIDE DEF rest, R
  <2> QED BY <1>2, <2>1
<1>6. Len(SectionsOf(lines)) = n + 1 /\ \A j \in 2 .. (n + 1) : SectionsOf(lines)[j] = rest[j - 1]
  <2> HIDE DEF rest, full, n
  <2> QED BY <1>2, <1>4, <1>5
<1>7. ASSUME NEW j \in 2 .. (n + 1)
      PROVE  /\ j - 1 \in 1 .. n
             /\ Nth(lines, j - 1) \in 1 .. Len(lines) /\ lines[Nth(lines, j - 1)].head
             /\ SectionsOf(lines)[j].start = Before(lines, Nth(lines, j - 1))
             /\ SectionsOf(lines)[j].count =
                  SectionEnd(lines, Nth(lines, j - 1)) - Before(lines, Nth(lines, j - 1))
  <2>1. j - 1 \in 1 .. n
    BY <1>2
  <2>2. Nth(lines, j - 1) \in Heads(lines)
    BY <1>3, <2>1
  <2>3. Nth(lines, j - 1) \in 1 .. Len(lines) /\ lines[Nth(lines, j - 1)].head
    BY <1>0, <2>2 DEF Heads
  <2>4. SectionsOf(lines)[j] = rest[j - 1]
    BY <1>6
  <2>5. rest[j - 1] = [id |-> lines[Nth(lines, j - 1)].id, start |-> Before(lines, Nth(lines, j - 1)),
                       count |-> SectionEnd(lines, Nth(lines, j - 1)) - Before(lines, Nth(lines, j - 1))]
    BY <2>1
  <2> HIDE DEF rest
  <2> QED BY <2>1, <2>3, <2>4, <2>5
<1>8. ASSUME NEW j \in 2 .. (n + 1), NEW k \in 2 .. (n + 1), Nth(lines, j - 1) = Nth(lines, k - 1)
      PROVE  j = k
  <2>1. (j - 1) - 1 = (k - 1) - 1
    BY <1>3, <1>7, <1>8
  <2> QED BY <1>2, <2>1
<1> QED BY <1>2, <1>6, <1>7, <1>8

\* Ranges that follow one another share nothing.
LEMMA RangesApart ==
    ASSUME NEW a \in Nat, NEW b \in Nat, NEW c \in Nat, NEW d \in Nat, b <= c
    PROVE  (a .. (b - 1)) \cap (c .. (d - 1)) = {} /\ (c .. (d - 1)) \cap (a .. (b - 1)) = {}
  OBVIOUS

\* sectionsFromMarkdown, for every text of any length, with any headings: no two sections
\* share a word and none holds a word of a heading, so a union of sections is never billed
\* twice for a word.
THEOREM SectionsNeverMeet ==
    ASSUME NEW lines \in Text
    PROVE  SectionsApart(lines)
<1> DEFINE secs    == SectionsOf(lines)
           Span(k) == secs[k].start .. (secs[k].start + secs[k].count - 1)
           heading == UNION {Before(lines, i - 1) .. (Before(lines, i) - 1) :
                               i \in {j \in DOMAIN lines : lines[j].head}}
<1>0. Len(lines) \in Nat /\ DOMAIN lines = 1 .. Len(lines)
  BY TextFields
<1>1. ASSUME NEW j \in 2 .. Len(secs)
      PROVE  \E i \in 1 .. Len(lines), e \in 1 .. Len(lines) :
                /\ i = Nth(lines, j - 1) /\ i <= e
                /\ Before(lines, i) \in Nat /\ Before(lines, e) \in Nat
                /\ Before(lines, i) <= Before(lines, e)
                /\ secs[j].count = Before(lines, e) - Before(lines, i)
                /\ Span(j) = Before(lines, i) .. (Before(lines, e) - 1)
                /\ \A h \in 1 .. Len(lines) : lines[h].head /\ h > i => e <= h - 1
  <2>1. PICK i \in 1 .. Len(lines) :
           /\ i = Nth(lines, j - 1)
           /\ secs[j].start = Before(lines, i)
           /\ secs[j].count = SectionEnd(lines, i) - Before(lines, i)
    BY SectionHeads
  <2>2. PICK e \in i .. Len(lines) :
           /\ SectionEnd(lines, i) = Before(lines, e)
           /\ \A h \in 1 .. Len(lines) : lines[h].head /\ h > i => e <= h - 1
    BY SectionEnds
  <2>3. i \in 0 .. Len(lines) /\ e \in 0 .. Len(lines) /\ e \in 1 .. Len(lines) /\ i <= e
    BY <1>0
  <2>4. Before(lines, i) \in Nat /\ Before(lines, e) \in Nat /\ Before(lines, i) <= Before(lines, e)
    BY <2>3, BeforeStep, BeforeGrows
  <2>5. secs[j].start + secs[j].count - 1 = Before(lines, e) - 1
    BY <2>1, <2>2, <2>4
  <2> QED BY <2>1, <2>2, <2>3, <2>4, <2>5
<1>2. ASSUME NEW j \in 2 .. Len(secs) PROVE secs[j].count >= 0
  BY <1>1
<1>3. ASSUME NEW j \in 2 .. Len(secs) PROVE Span(j) \cap heading = {}
  <2>1. PICK i \in 1 .. Len(lines), e \in 1 .. Len(lines) :
           /\ Before(lines, i) \in Nat /\ Before(lines, e) \in Nat
           /\ Span(j) = Before(lines, i) .. (Before(lines, e) - 1)
           /\ \A h \in 1 .. Len(lines) : lines[h].head /\ h > i => e <= h - 1
    BY <1>1
  <2> HIDE DEF Span
  <2>2. ASSUME NEW h \in 1 .. Len(lines), lines[h].head
        PROVE  Span(j) \cap (Before(lines, h - 1) .. (Before(lines, h) - 1)) = {}
    <3>1. h \in 0 .. Len(lines) /\ h - 1 \in 0 .. Len(lines)
      BY <1>0
    <3>2. Before(lines, h) \in Nat /\ Before(lines, h - 1) \in Nat
      BY <3>1, BeforeStep
    <3>3. CASE h <= i
      <4>1. i \in h .. Len(lines)
        BY <1>0, <3>3
      <4>2. Before(lines, h) <= Before(lines, i)
        BY <3>1, <4>1, BeforeGrows
      <4> QED BY <2>1, <3>2, <4>2, RangesApart
    <3>4. CASE h > i
      <4>1. e \in 0 .. Len(lines) /\ h - 1 \in e .. Len(lines)
        BY <1>0, <2>1, <2>2, <3>4
      <4>2. Before(lines, e) <= Before(lines, h - 1)
        BY <4>1, BeforeGrows
      <4> QED BY <2>1, <3>2, <4>2, RangesApart
    <3> QED BY <1>0, <3>3, <3>4
  <2> QED BY <1>0, <2>2
<1>4. ASSUME NEW j \in 2 .. Len(secs), NEW k \in 2 .. Len(secs), j # k
      PROVE  Span(j) \cap Span(k) = {}
  <2>1. PICK i \in 1 .. Len(lines), e \in 1 .. Len(lines) :
           /\ i = Nth(lines, j - 1)
           /\ Before(lines, i) \in Nat /\ Before(lines, e) \in Nat
           /\ Span(j) = Before(lines, i) .. (Before(lines, e) - 1)
           /\ \A h \in 1 .. Len(lines) : lines[h].head /\ h > i => e <= h - 1
    BY <1>1
  <2>2. PICK p \in 1 .. Len(lines), q \in 1 .. Len(lines) :
           /\ p = Nth(lines, k - 1)
           /\ Before(lines, p) \in Nat /\ Before(lines, q) \in Nat
           /\ Span(k) = Before(lines, p) .. (Before(lines, q) - 1)
           /\ \A h \in 1 .. Len(lines) : lines[h].head /\ h > p => q <= h - 1
    BY <1>1
  <2> HIDE DEF Span
  <2>0. /\ Before(lines, i) \in Nat /\ Before(lines, e) \in Nat
        /\ Before(lines, p) \in Nat /\ Before(lines, q) \in Nat
    BY <2>1, <2>2
  <2>3. i # p /\ lines[i].head /\ lines[p].head
    BY <1>4, <2>1, <2>2, SectionHeads
  <2>4. CASE i < p
    <3>1. e \in 0 .. Len(lines) /\ p \in e .. Len(lines)
      BY <1>0, <2>1, <2>3, <2>4
    <3>2. Before(lines, e) <= Before(lines, p)
      BY <3>1, BeforeGrows
    <3>3. (Before(lines, i) .. (Before(lines, e) - 1)) \cap (Before(lines, p) .. (Before(lines, q) - 1)) = {}
      BY <2>0, <3>2, RangesApart
    <3> QED BY <2>1, <2>2, <3>3
  <2>5. CASE p < i
    <3>1. q \in 0 .. Len(lines) /\ i \in q .. Len(lines)
      BY <1>0, <2>2, <2>3, <2>5
    <3>2. Before(lines, q) <= Before(lines, i)
      BY <3>1, BeforeGrows
    <3>3. (Before(lines, i) .. (Before(lines, e) - 1)) \cap (Before(lines, p) .. (Before(lines, q) - 1)) = {}
      BY <2>0, <3>2, RangesApart
    <3> QED BY <2>1, <2>2, <3>3
  <2> QED BY <1>0, <2>3, <2>4, <2>5
<1> QED BY <1>2, <1>3, <1>4 DEF SectionsApart

-----------------------------------------------------------------------------
(* The Base lane.                                                          *)

Stages == {"idle", "wallet", "server", "verify", "settle", "answered"}
Sales  == [at : Stages, row : Copies, terms : Terms, auth : SUBSET Purchases]

\* The part of TypeOK that a purchase reads.
SaleTypes ==
    /\ article \in [live : BOOLEAN, price : Prices, text : Texts]
    /\ wallet \in [addr : Addresses, verified : BOOLEAN]
    /\ sale \in [Purchases -> Sales]
    /\ signed \in [Purchases -> Terms]
    /\ paid \subseteq Purchases
    /\ released \subseteq [by : Purchases, text : Texts, price : Prices, auth : Purchases]

\* Only wallets in the table are ever verified.
WalletKnown == wallet.verified => wallet.addr \in Wallets

\* The terms of a request are its copy's: the whole price, to a verified wallet.
TermsExact(s) ==
    s.at \in {"server", "verify", "settle"} =>
        s.terms.amount = s.row.price * Length[s.row.text] /\ s.terms.to \in Wallets

\* A request carries at most one authorisation, one that has been signed.
AuthSigned(s) ==
    /\ s.at = "idle" => s.auth = {}
    /\ \A q, o \in s.auth : q = o
    /\ \A q \in s.auth : signed[q] # NoTerms

\* What holds of purchase p when it stands at s.
SaleOk(p, s) ==
    /\ s.at \in {"wallet", "server", "verify", "settle"} =>
          s.row.price \in Prices /\ s.row.text \in Texts
    /\ s.at \in {"idle", "wallet"} => signed[p] = NoTerms
    /\ TermsExact(s)
    /\ AuthSigned(s)
    /\ s.at = "settle" => \A q \in s.auth : signed[q] = s.terms

\* The inductive invariant.
SaleInv ==
    /\ SaleTypes
    /\ WalletKnown
    /\ \A p \in Purchases : SaleOk(p, sale[p])
    /\ \A x \in released : signed[x.auth] # NoTerms
    /\ BaseSaleIsExact

\* A set of at most one element has no two.
LEMMA AtMostOne ==
    ASSUME NEW S, IsFiniteSet(S), Cardinality(S) <= 1, NEW x \in S, NEW y \in S
    PROVE  x = y
<1>1. IsFiniteSet({x, y}) /\ {x, y} \subseteq S
  BY FS_Singleton, FS_AddElement, FS_Subset
<1>2. Cardinality({x, y}) <= Cardinality(S)
  BY <1>1, FS_Subset
<1>3. CASE x # y
  <2>1. Cardinality({x}) = 1 /\ IsFiniteSet({x})
    BY FS_Singleton
  <2>2. Cardinality({x} \cup {y}) = 2
    <3>1. Cardinality({x} \cup {y}) = IF y \in {x} THEN Cardinality({x}) ELSE Cardinality({x}) + 1
      BY <2>1, FS_AddElement
    <3>2. y \notin {x}
      BY <1>3
    <3> QED BY <2>1, <3>1, <3>2
  <2>3. {x} \cup {y} = {x, y}
    OBVIOUS
  <2>4. Cardinality(S) \in Nat
    BY FS_CardinalityType
  <2> QED BY <1>2, <2>2, <2>3, <2>4
<1> QED BY <1>3

\* The whole price of a paid row is a number.
LEMMA PriceNat ==
    ASSUME StorefrontAssumption, NEW price \in Prices, NEW text \in Texts
    PROVE  price * Length[text] \in Nat
<1>1. price \in Nat /\ Length[text] \in Nat
  BY DEF StorefrontAssumption
<1> QED BY <1>1

\* NoSale and NoTerms are what their names say.
LEMMA Blanks ==
    ASSUME NEW p \in Purchases
    PROVE  /\ NoTerms \in Terms /\ NoSale \in Sales /\ [NoSale EXCEPT !.at = "answered"] \in Sales
           /\ signed[p] = NoTerms => SaleOk(p, NoSale)
           /\ SaleOk(p, [NoSale EXCEPT !.at = "answered"])
<1>1. NoTerms \in Terms
  BY DEF NoTerms, Terms, NoWallet, Addresses
<1>2. NoSale \in Sales /\ [NoSale EXCEPT !.at = "answered"] \in Sales
  BY <1>1 DEF NoSale, Sales, Stages, NoRow, Copies
<1>3. NoSale.at = "idle" /\ NoSale.auth = {}
  BY DEF NoSale
<1>4. [NoSale EXCEPT !.at = "answered"].at = "answered" /\ [NoSale EXCEPT !.at = "answered"].auth = {}
  BY DEF NoSale
<1> QED BY <1>1, <1>2, <1>3, <1>4 DEF SaleOk, TermsExact, AuthSigned

\* Init: nothing is signed, sold or released.
LEMMA SaleStarts ==
    ASSUME StorefrontAssumption, Init
    PROVE  SaleInv
<1>1. wallet.addr \in Wallets /\ wallet = [addr |-> wallet.addr, verified |-> TRUE]
  BY DEF Init, StorefrontAssumption
<1>2. NoTerms \in Terms /\ NoSale \in Sales
  BY DEF NoTerms, Terms, NoWallet, Addresses, NoSale, Sales, Stages, NoRow, Copies
<1>3. article \in [live : BOOLEAN, price : Prices, text : Texts]
  BY DEF Init
<1>4. SaleTypes
  BY <1>1, <1>2, <1>3 DEF Init, SaleTypes, Addresses
<1>5. ASSUME NEW p \in Purchases PROVE SaleOk(p, sale[p])
  BY Blanks DEF Init
<1> QED BY <1>1, <1>4, <1>5 DEF Init, SaleInv, WalletKnown, BaseSaleIsExact

\* What the creator does between two queries disturbs no sale.
LEMMA Untouched ==
    ASSUME SaleInv, UNCHANGED <<sale, signed, paid, released>>,
           article' \in [live : BOOLEAN, price : Prices, text : Texts],
           wallet' \in [addr : Addresses, verified : BOOLEAN], WalletKnown'
    PROVE  SaleInv'
  BY DEF SaleInv, SaleTypes, SaleOk, TermsExact, AuthSigned, BaseSaleIsExact

\* A step of one purchase that signs, pays and releases nothing.
LEMMA SaleMoves ==
    ASSUME SaleInv, NEW p \in Purchases, NEW s \in Sales, SaleOk(p, s),
           sale' = [sale EXCEPT ![p] = s],
           UNCHANGED <<article, wallet, signed, paid, released>>
    PROVE  SaleInv'
<1>1. SaleTypes' /\ WalletKnown' /\ BaseSaleIsExact'
  BY DEF SaleInv, SaleTypes, WalletKnown, BaseSaleIsExact
<1>2. ASSUME NEW q \in Purchases PROVE SaleOk(q, sale[q])'
  <2>1. sale'[q] = IF q = p THEN s ELSE sale[q]
    BY DEF SaleInv, SaleTypes
  <2>2. SaleOk(q, sale'[q])
    BY <2>1 DEF SaleInv
  <2> QED BY <2>2 DEF SaleOk, TermsExact, AuthSigned
<1> QED BY <1>1, <1>2 DEF SaleInv

\* The creator's edits, and every step of a reader.
LEMMA OthersKeep ==
    ASSUME SaleInv,
           \/ EditArticle \/ EditSections \/ EditWallet
           \/ \E r \in Readers :
                 \/ LoadArticle(r) \/ LoadSections(r) \/ LoadWallet(r) \/ OpenFree(r) \/ Insert(r)
                 \/ Stream(r) \/ RebuildArticle(r) \/ RebuildSections(r)
    PROVE  SaleInv'
<1>1. CASE EditArticle
  <2>1. article' \in [live : BOOLEAN, price : Prices, text : Texts]
    BY <1>1 DEF EditArticle
  <2> QED BY <1>1, <2>1, Untouched DEF EditArticle, selling, SaleInv, SaleTypes, WalletKnown
<1>2. CASE EditWallet
  <2>1. wallet' = NoWallet => wallet' \in [addr : Addresses, verified : BOOLEAN] /\ WalletKnown'
    BY DEF NoWallet, Addresses, WalletKnown
  <2>2. wallet' \in [addr : Wallets, verified : BOOLEAN]
        => wallet' \in [addr : Addresses, verified : BOOLEAN] /\ WalletKnown'
    BY DEF Addresses, WalletKnown
  <2>3. wallet' \in [addr : Addresses, verified : BOOLEAN] /\ WalletKnown'
    <3>1. wallet' \in {NoWallet} \cup [addr : Wallets, verified : BOOLEAN]
      BY <1>2 DEF EditWallet
    <3> QED BY <2>1, <2>2, <3>1
  <2> QED BY <1>2, <2>3, Untouched DEF EditWallet, selling, SaleInv, SaleTypes
<1>3. CASE ~EditArticle /\ ~EditWallet
  <2>1. UNCHANGED <<article, wallet, selling>>
    BY <1>3, Zenon DEF EditSections, LoadArticle, LoadSections, LoadWallet, OpenFree, Insert, Stream,
              RebuildArticle, RebuildSections, catalogue
  <2> QED BY <2>1, Untouched DEF selling, SaleInv, SaleTypes, WalletKnown
<1> QED BY <1>1, <1>2, <1>3

\* A restart answers every request in flight and keeps what was paid and released.
LEMMA RestartKeeps ==
    ASSUME SaleInv, Restart
    PROVE  SaleInv'
<1>1. UNCHANGED <<article, wallet, signed, paid, released>>
  BY DEF Restart, catalogue
<1>2. sale' = [p \in Purchases |->
                 IF sale[p].at = "idle" THEN NoSale ELSE [NoSale EXCEPT !.at = "answered"]]
  BY DEF Restart
<1>3. ASSUME NEW p \in Purchases PROVE sale'[p] \in Sales /\ SaleOk(p, sale'[p])
  <2>1. CASE sale[p].at = "idle"
    <3>1. sale'[p] = NoSale /\ signed[p] = NoTerms
      BY <1>2, <2>1 DEF SaleInv, SaleOk
    <3> QED BY <3>1, Blanks
  <2>2. CASE sale[p].at # "idle"
    <3>1. sale'[p] = [NoSale EXCEPT !.at = "answered"]
      BY <1>2, <2>2, Zenon
    <3> QED BY <3>1, Blanks
  <2> QED BY <2>1, <2>2
<1>4. SaleTypes' /\ WalletKnown' /\ BaseSaleIsExact'
  <2>1. sale' \in [Purchases -> Sales]
    BY <1>2, <1>3, Zenon
  <2> QED BY <1>1, <2>1 DEF SaleInv, SaleTypes, WalletKnown, BaseSaleIsExact
<1>5. ASSUME NEW p \in Purchases PROVE SaleOk(p, sale[p])'
  BY <1>1, <1>3 DEF SaleOk, TermsExact, AuthSigned
<1> QED BY <1>1, <1>4, <1>5 DEF SaleInv

\* The article is read: it is live, and its price is within the limit.
LEMMA LoadOfferKeeps ==
    ASSUME StorefrontAssumption, SaleInv, NEW p \in Purchases, LoadOffer(p)
    PROVE  SaleInv'
<1>1. PICK auth \in SUBSET {q \in Purchases : signed[q] # NoTerms} :
        /\ Cardinality(auth) <= 1
        /\ sale' = [sale EXCEPT ![p] =
              IF article.live /\ WholePrice(article) \in 1 .. MaxPrice
              THEN [NoSale EXCEPT !.at = "wallet", !.row = article, !.auth = auth]
              ELSE [NoSale EXCEPT !.at = "answered"]]
  BY DEF LoadOffer
<1>2. UNCHANGED <<article, wallet, signed, paid, released>>
  BY DEF LoadOffer, catalogue
<1>3. sale[p].at = "idle" /\ signed[p] = NoTerms
  BY DEF LoadOffer, SaleInv, SaleOk
<1> DEFINE s == [NoSale EXCEPT !.at = "wallet", !.row = article, !.auth = auth]
<1>4. CASE article.live /\ WholePrice(article) \in 1 .. MaxPrice
  <2>1. article \in Copies
    BY DEF Copies, SaleInv, SaleTypes
  <2>2. sale' = [sale EXCEPT ![p] = s]
    BY <1>1, <1>4, Zenon
  <2>3. /\ s \in Sales
        /\ s.at = "wallet" /\ s.row = article /\ s.auth = auth
    BY <2>1, Blanks DEF Sales, Stages
  <2>4. \A q, o \in auth : q = o
    <3>1. IsFiniteSet(auth)
      BY FS_Subset DEF StorefrontAssumption
    <3> QED BY <1>1, <3>1, AtMostOne
  <2>5. SaleOk(p, s)
    <3> HIDE DEF s
    <3> QED BY <1>3, <2>3, <2>4 DEF SaleOk, TermsExact, AuthSigned, SaleInv, SaleTypes
  <2> HIDE DEF s
  <2> QED BY <1>2, <2>2, <2>3, <2>5, SaleMoves
<1>5. CASE ~(article.live /\ WholePrice(article) \in 1 .. MaxPrice)
  <2>1. sale' = [sale EXCEPT ![p] = [NoSale EXCEPT !.at = "answered"]]
    BY <1>1, <1>5, Zenon
  <2> QED BY <1>2, <2>1, Blanks, SaleMoves
<1> QED BY <1>4, <1>5

\* A stage that is neither judged nor sold needs no terms.
LEMMA Answering ==
    ASSUME SaleInv, NEW p \in Purchases
    PROVE  /\ [sale[p] EXCEPT !.at = "answered"] \in Sales
           /\ SaleOk(p, [sale[p] EXCEPT !.at = "answered"])
<1> DEFINE s == [sale[p] EXCEPT !.at = "answered"]
<1>1. sale[p] \in Sales /\ SaleOk(p, sale[p])
  BY DEF SaleInv, SaleTypes
<1>2. s \in Sales /\ s.at = "answered" /\ s.auth = sale[p].auth
  BY <1>1 DEF Sales, Stages
<1> HIDE DEF s
<1>3. s \in Sales /\ SaleOk(p, s)
  BY <1>1, <1>2 DEF SaleOk, TermsExact, AuthSigned
<1> QED BY <1>3 DEF s

\* The challenge is the copy's whole price, payable to a wallet that is verified.
LEMMA ChallengeExact ==
    ASSUME StorefrontAssumption, SaleInv, NEW p \in Purchases, sale[p].at = "wallet", Payable
    PROVE  /\ Challenge(p) \in Terms
           /\ Challenge(p).amount = sale[p].row.price * Length[sale[p].row.text]
           /\ Challenge(p).to \in Wallets
<1>1. sale[p].row.price \in Prices /\ sale[p].row.text \in Texts
  BY DEF SaleInv, SaleOk
<1>2. WholePrice(sale[p].row) \in Nat
  BY <1>1, PriceNat DEF WholePrice
<1>3. wallet.addr \in Wallets /\ wallet.addr \in Addresses
  BY DEF SaleInv, WalletKnown, Payable, Addresses
<1> QED BY <1>2, <1>3 DEF Challenge, Terms, WholePrice

\* The buyer signs a challenge: nobody carries that authorisation yet, and no body
\* was released for it.
LEMMA SignKeeps ==
    ASSUME StorefrontAssumption, SaleInv, NEW p \in Purchases, sale[p].at = "wallet", Payable,
           sale' = [sale EXCEPT ![p].at = "answered"],
           signed' = [signed EXCEPT ![p] = Challenge(p)],
           UNCHANGED <<article, wallet, paid, released>>
    PROVE  SaleInv'
<1>1. signed[p] = NoTerms
  BY DEF SaleInv, SaleOk
<1>2. sale' = [sale EXCEPT ![p] = [sale[p] EXCEPT !.at = "answered"]]
  BY DEF SaleInv, SaleTypes
<1>3. SaleTypes' /\ WalletKnown'
  <2>1. sale' \in [Purchases -> Sales]
    BY <1>2, Answering DEF SaleInv, SaleTypes
  <2>2. signed' \in [Purchases -> Terms]
    BY ChallengeExact DEF SaleInv, SaleTypes
  <2> QED BY <2>1, <2>2 DEF SaleInv, SaleTypes, WalletKnown
<1>4. ASSUME NEW t \in Terms, t = NoTerms, NEW q \in Purchases, signed[q] # t
      PROVE  signed'[q] = signed[q]
  BY <1>1, <1>4 DEF SaleInv, SaleTypes
<1>5. ASSUME NEW q \in Purchases PROVE SaleOk(q, sale[q])'
  <2>1. CASE q = p
    <3>1. sale'[q] = [sale[p] EXCEPT !.at = "answered"]
      BY <1>2, <2>1 DEF SaleInv, SaleTypes
    <3>2. sale'[q].at = "answered" /\ sale'[q].auth = sale[p].auth /\ SaleOk(p, sale[p])
      BY <3>1 DEF SaleInv, SaleTypes, Sales
    <3>3. sale[p].auth \subseteq Purchases
      BY DEF SaleInv, SaleTypes, Sales
    <3> QED BY <1>4, <3>2, <3>3, Blanks DEF SaleOk, TermsExact, AuthSigned
  <2>2. CASE q # p
    <3>1. sale'[q] = sale[q] /\ signed'[q] = signed[q] /\ SaleOk(q, sale[q])
      BY <1>2, <2>2 DEF SaleInv, SaleTypes
    <3>2. sale[q].auth \subseteq Purchases
      BY DEF SaleInv, SaleTypes, Sales
    <3>3. \A o \in sale[q].auth : signed'[o] = signed[o]
      BY <1>4, <3>1, <3>2, Blanks DEF SaleOk, AuthSigned
    <3> QED BY <3>1, <3>3 DEF SaleOk, TermsExact, AuthSigned
  <2> QED BY <2>1, <2>2
<1>6. \A x \in released : x.auth \in Purchases /\ signed'[x.auth] = signed[x.auth]
  BY <1>4, Blanks DEF SaleInv, SaleTypes
<1>7. (\A x \in released : signed[x.auth] # NoTerms)' /\ BaseSaleIsExact'
  BY <1>6 DEF SaleInv, BaseSaleIsExact
<1> QED BY <1>3, <1>5, <1>7 DEF SaleInv

\* The wallet is read: refused, signed, or on its way with terms of its own.
LEMMA LoadRecipientKeeps ==
    ASSUME StorefrontAssumption, SaleInv, NEW p \in Purchases, LoadRecipient(p)
    PROVE  SaleInv'
<1>1. UNCHANGED <<article, wallet, paid, released>> /\ sale[p].at = "wallet"
  BY DEF LoadRecipient, catalogue
<1>2. CASE sale' = [sale EXCEPT ![p].at = "answered"] /\ UNCHANGED signed
  <2>1. sale' = [sale EXCEPT ![p] = [sale[p] EXCEPT !.at = "answered"]]
    BY <1>2 DEF SaleInv, SaleTypes
  <2> QED BY <1>1, <1>2, <2>1, Answering, SaleMoves
<1>3. CASE Payable /\ sale' = [sale EXCEPT ![p].at = "answered"]
           /\ signed' = [signed EXCEPT ![p] = Challenge(p)]
  BY <1>1, <1>3, SignKeeps
<1>4. CASE Payable /\ UNCHANGED signed
           /\ sale' = [sale EXCEPT ![p].at = "server", ![p].terms = Challenge(p)]
  <2> DEFINE s == [sale[p] EXCEPT !.at = "server", !.terms = Challenge(p)]
  <2>1. sale[p] \in Sales /\ SaleOk(p, sale[p])
    BY DEF SaleInv, SaleTypes
  <2>2. sale' = [sale EXCEPT ![p] = s]
    BY <1>4, <2>1 DEF SaleInv, SaleTypes
  <2>3. /\ s \in Sales /\ s.at = "server" /\ s.terms = Challenge(p)
        /\ s.row = sale[p].row /\ s.auth = sale[p].auth
    BY <1>1, <1>4, <2>1, ChallengeExact DEF Sales, Stages
  <2> HIDE DEF s
  <2>4. SaleOk(p, s)
    BY <1>1, <1>4, <2>1, <2>3, ChallengeExact DEF SaleOk, TermsExact, AuthSigned
  <2> QED BY <1>1, <1>4, <2>2, <2>3, <2>4, SaleMoves
<1> QED BY <1>2, <1>3, <1>4 DEF LoadRecipient

\* The facilitator is reached or not; the terms stay.
LEMMA ReachFacilitatorKeeps ==
    ASSUME SaleInv, NEW p \in Purchases, ReachFacilitator(p)
    PROVE  SaleInv'
<1>1. UNCHANGED <<article, wallet, signed, paid, released>> /\ sale[p].at = "server"
  BY DEF ReachFacilitator, catalogue
<1>2. sale[p] \in Sales /\ SaleOk(p, sale[p])
  BY DEF SaleInv, SaleTypes
<1>3. PICK next \in {"verify", "answered"} : sale' = [sale EXCEPT ![p].at = next]
  BY DEF ReachFacilitator
<1> DEFINE s == [sale[p] EXCEPT !.at = next]
<1>4. sale' = [sale EXCEPT ![p] = s]
  BY <1>2, <1>3 DEF SaleInv, SaleTypes
<1>5. /\ s \in Sales /\ s.at = next
      /\ s.row = sale[p].row /\ s.terms = sale[p].terms /\ s.auth = sale[p].auth
  BY <1>2 DEF Sales, Stages
<1> HIDE DEF s
<1>6. SaleOk(p, s)
  BY <1>1, <1>2, <1>3, <1>5 DEF SaleOk, TermsExact, AuthSigned
<1> QED BY <1>1, <1>4, <1>5, <1>6, SaleMoves

\* A payment that is found valid was signed for exactly the terms of this request, and
\* it is the only one the request carries.
LEMMA VerifyPaymentKeeps ==
    ASSUME SaleInv, NEW p \in Purchases, VerifyPayment(p)
    PROVE  SaleInv'
<1>1. UNCHANGED <<article, wallet, signed, paid, released>> /\ sale[p].at = "verify"
  BY DEF VerifyPayment, catalogue
<1>2. sale[p] \in Sales /\ SaleOk(p, sale[p])
  BY DEF SaleInv, SaleTypes
<1>3. PICK q \in sale[p].auth, valid \in BOOLEAN :
        /\ valid => signed[q] = sale[p].terms
        /\ sale' = [sale EXCEPT ![p].at = IF valid THEN "settle" ELSE "answered"]
  BY DEF VerifyPayment, Required
<1> DEFINE next == IF valid THEN "settle" ELSE "answered"
           s    == [sale[p] EXCEPT !.at = next]
<1>4. sale' = [sale EXCEPT ![p] = s]
  BY <1>2, <1>3 DEF SaleInv, SaleTypes
<1>5. /\ s \in Sales /\ s.at = next
      /\ s.row = sale[p].row /\ s.terms = sale[p].terms /\ s.auth = sale[p].auth
  BY <1>2 DEF Sales, Stages
<1>6. valid => \A o \in sale[p].auth : signed[o] = sale[p].terms
  BY <1>2, <1>3 DEF SaleOk, AuthSigned
<1> HIDE DEF s
<1>7. SaleOk(p, s)
  BY <1>1, <1>2, <1>5, <1>6 DEF SaleOk, TermsExact, AuthSigned
<1> QED BY <1>1, <1>4, <1>5, <1>7, SaleMoves

\* A payment that moves had not moved before, and the body released with it is the one
\* its terms were made of.
LEMMA SettlePaymentKeeps ==
    ASSUME SaleInv, NEW p \in Purchases, SettlePayment(p)
    PROVE  SaleInv'
<1>1. UNCHANGED <<article, wallet, signed>> /\ sale[p].at = "settle"
  BY DEF SettlePayment, catalogue
<1>2. sale[p] \in Sales /\ SaleOk(p, sale[p])
  BY DEF SaleInv, SaleTypes
<1> DEFINE s == [sale[p] EXCEPT !.at = "answered"]
<1>3. sale' = [sale EXCEPT ![p] = s]
  BY DEF SettlePayment, SaleInv, SaleTypes
<1>4. s \in Sales /\ SaleOk(p, s)
  BY Answering
<1> HIDE DEF s
<1>5. PICK q \in sale[p].auth :
         \/ q \notin paid /\ paid' = paid \cup {q}
            /\ released' = released \cup
                 {[by |-> p, text |-> sale[p].row.text, price |-> sale[p].row.price, auth |-> q]}
         \/ q \notin paid /\ paid' = paid \cup {q} /\ UNCHANGED released
         \/ UNCHANGED <<paid, released>>
  BY DEF SettlePayment, Accepted
<1> DEFINE x == [by |-> p, text |-> sale[p].row.text, price |-> sale[p].row.price, auth |-> q]
<1>6. /\ q \in Purchases /\ signed[q] = sale[p].terms /\ signed[q] # NoTerms
      /\ sale[p].row.price \in Prices /\ sale[p].row.text \in Texts
      /\ signed[q].amount = x.price * Length[x.text] /\ signed[q].to \in Wallets
  BY <1>1, <1>2, <1>5 DEF SaleOk, TermsExact, AuthSigned, Sales
<1>7. x \in [by : Purchases, text : Texts, price : Prices, auth : Purchases] /\ x.auth = q
  BY <1>6
<1>8. \/ q \notin paid /\ paid' = paid \cup {q} /\ released' = released \cup {x}
      \/ paid \subseteq paid' /\ paid' \subseteq paid \cup {q} /\ released' = released
  BY <1>5
<1> HIDE DEF x
<1>9. SaleTypes' /\ WalletKnown'
  BY <1>1, <1>3, <1>4, <1>6, <1>7, <1>8 DEF SaleInv, SaleTypes, WalletKnown
<1>10. ASSUME NEW o \in Purchases PROVE SaleOk(o, sale[o])'
  <2>1. SaleOk(o, sale'[o])
    BY <1>2, <1>3, <1>4 DEF SaleInv, SaleTypes
  <2> QED BY <1>1, <2>1 DEF SaleOk, TermsExact, AuthSigned
<1>11. \A y \in released : y.auth \in paid
  BY DEF SaleInv, BaseSaleIsExact
<1>12. (\A y \in released : signed[y.auth] # NoTerms)' /\ BaseSaleIsExact'
  <2>1. CASE q \notin paid /\ paid' = paid \cup {q} /\ released' = released \cup {x}
    BY <1>1, <1>6, <1>7, <1>11, <2>1 DEF SaleInv, BaseSaleIsExact
  <2>2. CASE paid \subseteq paid' /\ released' = released
    BY <1>1, <2>2 DEF SaleInv, BaseSaleIsExact
  <2> QED BY <1>8, <2>1, <2>2
<1> QED BY <1>9, <1>10, <1>12 DEF SaleInv

-----------------------------------------------------------------------------

\* Every step keeps the invariant.
LEMMA SaleKept ==
    ASSUME StorefrontAssumption, SaleInv, [Next]_vars
    PROVE  SaleInv'
<1>1. CASE Next
  BY <1>1, OthersKeep, RestartKeeps, LoadOfferKeeps, LoadRecipientKeeps,
     ReachFacilitatorKeeps, VerifyPaymentKeeps, SettlePaymentKeeps DEF Next
<1>2. CASE UNCHANGED vars
  BY <1>2, Untouched DEF vars, SaleInv, SaleTypes, WalletKnown
<1> QED BY <1>1, <1>2

\* A body is released on Base only for a settled payment of the whole price its row had
\* when it was read, to a wallet its creator had verified, and one payment releases one
\* body, however often articles, prices and wallets are edited meanwhile.
THEOREM BaseSalesExact ==
    ASSUME StorefrontAssumption
    PROVE  Spec => []BaseSaleIsExact
<1>1. Init => SaleInv
  BY SaleStarts
<1>2. SaleInv /\ [Next]_vars => SaleInv'
  BY SaleKept
<1>3. SaleInv => BaseSaleIsExact
  BY DEF SaleInv
<1> QED BY <1>1, <1>2, <1>3, PTL DEF Spec

-----------------------------------------------------------------------------
(* Reading sessions.                                                       *)

Opening  == [at : {"idle", "row", "wallet", "select", "insert", "answered"},
             sel : Selections \cup {Article}, row : Copies,
             rows : {Rows[t] : t \in Texts} \cup {<<>>}]
Sessions == [open : BOOLEAN, sel : Selections \cup {Article}, price : Prices \cup {0},
             to : Addresses]
Wordings == [known : BOOLEAN, list : Seq(Texts \X Nat)]
Rebuilds == [at : {"idle", "row"}, row : Copies]

\* The part of TypeOK that a reader touches.
ReadTypes ==
    /\ article \in [live : BOOLEAN, price : Prices, text : Texts]
    /\ rows \in {Rows[t] : t \in Texts}
    /\ wallet \in [addr : Addresses, verified : BOOLEAN]
    /\ edits \in 0 .. MaxEdits /\ restarts \in 0 .. MaxRestarts
    /\ reader \in [Readers -> Opening]
    /\ session \in [Readers -> Sessions]
    /\ words \in [Readers -> Wordings]
    /\ rebuild \in [Readers -> Rebuilds]
    /\ got \in [Readers -> Seq(Texts \X Nat)]
    /\ chosen \in [Readers -> Seq(Texts \X Nat)]

\* A word that a body has.
Real(w) == w[1] \in Texts /\ w[2] \in 0 .. (Length[w[1]] - 1)

\* A list of words to slice: real ones, each once.
Listing(list) ==
    /\ list \in Seq(Texts \X Nat)
    /\ \A k \in DOMAIN list : Real(list[k])
    /\ \A j, k \in DOMAIN list : list[j] = list[k] => j = k

\* A request that opens a session knows one row of the article, and later section rows;
\* what it inserts has been resolved, and its session is not open before.
ReaderOk(r) ==
    /\ reader[r].at \in {"row", "wallet", "select", "insert"} =>
          reader[r].row.text \in Texts /\ reader[r].row.price \in Prices
    /\ reader[r].at \in {"wallet", "select", "insert"} =>
          reader[r].rows \in {Rows[t] : t \in Texts}
    /\ reader[r].at = "insert" =>
          /\ ~Refused(reader[r].row.text, reader[r].rows, reader[r].sel)
          /\ session[r].sel = reader[r].sel
    /\ reader[r].at # "answered" => ~session[r].open

\* Until a session is open nothing is known of it and nothing delivered.
OpenOk(r) ==
    /\ ~session[r].open =>
          words[r] = NoWords /\ rebuild[r] = NoRebuild /\ got[r] = <<>> /\ chosen[r] = <<>>
    /\ words[r].known => Listing(words[r].list)
    /\ rebuild[r].at = "row" => rebuild[r].row.text \in Texts
    /\ Listing(chosen[r])
    /\ \A k \in DOMAIN got[r] : Real(got[r][k])

\* In the first life of the process, and as long as the creator changes nothing, the
\* words in memory are those that were chosen and delivery is at one point of them.
SameOk(r) ==
    restarts = 0 \/ edits = 0 =>
        /\ words[r].known => words[r].list = chosen[r]
        /\ Len(got[r]) <= Len(chosen[r])
        /\ got[r] = SubSeq(chosen[r], 1, Len(got[r]))

\* In the first life no session forgets its words.
FirstLifeOk(r) ==
    restarts = 0 /\ session[r].open => words[r].known /\ rebuild[r].at = "idle"

\* As long as the creator changes nothing every copy is of the one article.
UneditedOk(r) ==
    edits = 0 =>
        /\ rows = Rows[article.text]
        /\ reader[r].at \in {"row", "wallet", "select", "insert"} => reader[r].row = article
        /\ reader[r].at \in {"wallet", "select", "insert"} => reader[r].rows = rows
        /\ rebuild[r].at = "row" => rebuild[r].row = article
        /\ session[r].open =>
              chosen[r] = Sliced(article.text, rows, session[r].sel)

\* The inductive invariant of the session lane.
ReaderInv(r) ==
    ReaderOk(r) /\ OpenOk(r) /\ SameOk(r) /\ FirstLifeOk(r) /\ UneditedOk(r)

ReadInv == ReadTypes /\ \A r \in Readers : ReaderInv(r)

\* What is sliced of a body under a selection it does not refuse is a listing.
LEMMA SlicedLists ==
    ASSUME StorefrontAssumption, NEW text \in Texts, NEW secs \in Seq(Section),
           NEW sel \in Selectable, ~Refused(text, secs, sel)
    PROVE  Listing(Sliced(text, secs, sel))
<1> DEFINE total == Length[text]
           fit   == ClampSections(secs, total)
           S     == Chosen(fit, total, sel)
           at    == Resolve(fit, total, sel)
<1>1. total \in Nat
  BY DEF StorefrontAssumption
<1>2. fit \in Seq(Section)
  BY <1>1, FitSections
<1>3. S \subseteq 0 .. (total - 1)
  <2>1. SelectionError(fit, total, sel) = "none"
    BY DEF Refused
  <2> HIDE DEF fit, total
  <2> QED BY <1>1, <1>2, <2>1, ChosenInside
<1>4. S \in SUBSET Nat /\ IsFiniteSet(S)
  <2>1. IsFiniteSet(0 .. (total - 1)) /\ 0 .. (total - 1) \subseteq Nat
    <3> HIDE DEF total
    <3>1. 0 \in Int /\ total - 1 \in Int
      BY <1>1
    <3> QED BY <3>1, FS_Interval
  <2> HIDE DEF S
  <2> QED BY <1>3, <2>1, FS_Subset
<1>5. at \in Seq(S) /\ \A j, k \in DOMAIN at : at[j] = at[k] => j = k
  <2>1. at = InOrder(S)
    BY DEF Resolve
  <2> HIDE DEF S, at
  <2> QED BY <1>4, <2>1, InOrderLists
<1>6. Sliced(text, secs, sel) = [k \in DOMAIN at |-> <<text, at[k]>>]
  BY DEF Sliced
<1> HIDE DEF at, S, fit
<1>7. Len(at) \in Nat /\ DOMAIN at = 1 .. Len(at) /\ \A k \in DOMAIN at : at[k] \in S
  BY <1>5
<1> DEFINE list == [k \in DOMAIN at |-> <<text, at[k]>>]
<1>8. \A k \in DOMAIN at : list[k] = <<text, at[k]>> /\ at[k] \in 0 .. (Length[text] - 1)
  BY <1>3, <1>7
<1>9. list \in Seq(Texts \X Nat)
  <2>1. \A k \in DOMAIN at : <<text, at[k]>> \in Texts \X Nat
    BY <1>4, <1>7
  <2> QED BY <1>7, <2>1
<1>10. \A k \in DOMAIN list : Real(list[k])
  BY <1>8 DEF Real
<1>11. \A j, k \in DOMAIN list : list[j] = list[k] => j = k
  BY <1>5
<1> QED BY <1>6, <1>9, <1>10, <1>11 DEF Listing

\* A beginning of a list that goes on where it stopped is a beginning of it.
LEMMA GoesOn ==
    ASSUME NEW list \in Seq(Texts \X Nat), NEW m \in Nat, NEW n \in Nat, m + n <= Len(list)
    PROVE  /\ Len(SubSeq(list, 1, m + n)) = m + n
           /\ SubSeq(list, 1, m) \o SubSeq(list, m + 1, m + n) = SubSeq(list, 1, m + n)
<1>1. Len(list) \in Nat
  OBVIOUS
<1>2. 1 \in 1 .. Len(list) + 1 /\ m \in 1 - 1 .. Len(list) /\ m + n \in m .. Len(list)
  BY <1>1
<1>3. SubSeq(list, 1, m) \o SubSeq(list, m + 1, m + n) = SubSeq(list, 1, m + n)
  BY <1>2, ConcatAdjacentSubSeq
<1> QED BY <1>1, <1>3

\* Words read of a listing are real.
LEMMA RealMore ==
    ASSUME NEW list, Listing(list), NEW g \in Seq(Texts \X Nat),
           \A k \in DOMAIN g : Real(g[k]), NEW m \in Nat, NEW n \in Nat, m + n <= Len(list)
    PROVE  LET h == g \o SubSeq(list, m + 1, m + n)
           IN  h \in Seq(Texts \X Nat) /\ \A k \in DOMAIN h : Real(h[k])
<1> DEFINE more == SubSeq(list, m + 1, m + n)
           h    == g \o more
<1>1. list \in Seq(Texts \X Nat) /\ Len(list) \in Nat
  BY DEF Listing
<1>2. /\ more \in Seq(Texts \X Nat) /\ Len(more) = n
      /\ \A i \in 1 .. n : more[i] = list[m + i]
  BY <1>1
<1>3. \A i \in 1 .. n : Real(more[i])
  <2>1. \A i \in 1 .. n : m + i \in DOMAIN list
    BY <1>1
  <2> QED BY <1>2, <2>1 DEF Listing
<1> HIDE DEF more
<1>4. /\ h \in Seq(Texts \X Nat) /\ Len(h) = Len(g) + n /\ Len(g) \in Nat
      /\ DOMAIN h = 1 .. (Len(g) + n)
      /\ \A i \in 1 .. (Len(g) + n) : h[i] = IF i <= Len(g) THEN g[i] ELSE more[i - Len(g)]
  <2>1. /\ h \in Seq(Texts \X Nat) /\ Len(h) = Len(g) + Len(more)
        /\ \A i \in 1 .. Len(g) + Len(more) :
              h[i] = IF i <= Len(g) THEN g[i] ELSE more[i - Len(g)]
    BY <1>2, ConcatProperties
  <2>2. DOMAIN h = 1 .. Len(h) /\ Len(g) \in Nat
    BY <2>1, LenProperties
  <2> QED BY <1>2, <2>1, <2>2
<1>5. ASSUME NEW k \in DOMAIN h PROVE Real(h[k])
  <2>0. DOMAIN g = 1 .. Len(g) /\ k \in 1 .. (Len(g) + n)
    BY <1>4, LenProperties
  <2>1. CASE k <= Len(g)
    <3>1. h[k] = g[k] /\ k \in DOMAIN g
      BY <1>4, <2>0, <2>1
    <3> HIDE DEF h
    <3> QED BY <3>1
  <2>2. CASE ~(k <= Len(g))
    <3>1. h[k] = more[k - Len(g)] /\ k - Len(g) \in 1 .. n
      BY <1>4, <2>0, <2>2
    <3> HIDE DEF h
    <3> QED BY <1>3, <3>1
  <2> QED BY <2>1, <2>2
<1>6. h = g \o SubSeq(list, m + 1, m + n)
  BY DEF more
<1> HIDE DEF h
<1> QED BY <1>4, <1>5, <1>6

\* Before the first request no session has words.
LEMMA ReadStarts ==
    ASSUME StorefrontAssumption, Init
    PROVE  ReadInv
<1>1. wallet.addr \in Wallets /\ wallet = [addr |-> wallet.addr, verified |-> TRUE]
  BY DEF Init, StorefrontAssumption
<1>2. NoReader \in Opening /\ NoSession \in Sessions /\ NoWords \in Wordings /\ NoRebuild \in Rebuilds
  BY DEF NoReader, Opening, NoRow, Copies, NoSession, Sessions, NoWallet, Addresses, NoWords,
     Wordings, NoRebuild, Rebuilds
<1>3. /\ article \in [live : BOOLEAN, price : Prices, text : Texts]
      /\ rows = Rows[article.text]
  BY DEF Init
<1>4. ReadTypes
  <2>1. wallet \in [addr : Addresses, verified : BOOLEAN]
    <3>1. PICK a \in Wallets : wallet = [addr |-> a, verified |-> TRUE]
      BY <1>1
    <3> QED BY <3>1 DEF Addresses
  <2>2. edits \in 0 .. MaxEdits /\ restarts \in 0 .. MaxRestarts
    BY DEF Init, StorefrontAssumption
  <2>3. rows \in {Rows[t] : t \in Texts}
    BY <1>3
  <2> QED BY <1>2, <1>3, <2>1, <2>2, <2>3 DEF Init, ReadTypes
<1>5. ASSUME NEW r \in Readers PROVE ReaderInv(r)
  <2>1. /\ reader[r].at = "idle" /\ ~session[r].open /\ words[r] = NoWords
        /\ ~words[r].known /\ rebuild[r] = NoRebuild /\ rebuild[r].at = "idle"
        /\ got[r] = <<>> /\ chosen[r] = <<>>
    BY DEF Init, NoReader, NoSession, NoWords, NoRebuild
  <2>2. Listing(chosen[r])
    BY <2>1 DEF Listing
  <2>3. SameOk(r)
    BY <2>1 DEF SameOk
  <2> QED BY <1>3, <2>1, <2>2, <2>3 DEF ReaderInv, ReaderOk, OpenOk, FirstLifeOk, UneditedOk
<1> QED BY <1>4, <1>5 DEF ReadInv

\* A step of one reader leaves what is known of the others.
LEMMA OneReader ==
    ASSUME ReadInv, NEW r \in Readers, UNCHANGED <<article, rows, edits, restarts>>,
           \A q \in Readers \ {r} :
              /\ reader'[q] = reader[q] /\ session'[q] = session[q] /\ words'[q] = words[q]
              /\ rebuild'[q] = rebuild[q] /\ got'[q] = got[q] /\ chosen'[q] = chosen[q],
           ReadTypes', ReaderInv(r)'
    PROVE  ReadInv'
<1>1. ASSUME NEW q \in Readers, q # r PROVE ReaderInv(q)'
  <2>1. ReaderInv(q)
    BY DEF ReadInv
  <2>2. /\ reader'[q] = reader[q] /\ session'[q] = session[q] /\ words'[q] = words[q]
        /\ rebuild'[q] = rebuild[q] /\ got'[q] = got[q] /\ chosen'[q] = chosen[q]
    BY <1>1
  <2> QED BY <2>1, <2>2 DEF ReaderInv, ReaderOk, OpenOk, SameOk, FirstLifeOk, UneditedOk
<1> QED BY <1>1 DEF ReadInv

\* The request that opens session r comes to stand at o.
LEMMA ReaderMoves ==
    ASSUME ReadInv, NEW r \in Readers, NEW o \in Opening, reader' = [reader EXCEPT ![r] = o],
           UNCHANGED <<catalogue, edits, restarts, session, words, rebuild, got, chosen>>,
           o.at # "idle", o.at # "insert",
           o.at \in {"row", "wallet", "select"} =>
              /\ o.row.text \in Texts /\ o.row.price \in Prices /\ ~session[r].open
              /\ edits = 0 => o.row = article,
           o.at \in {"wallet", "select"} =>
              o.rows \in {Rows[t] : t \in Texts} /\ (edits = 0 => o.rows = rows)
    PROVE  ReadInv'
<1>1. UNCHANGED <<article, rows, wallet, edits, restarts, session, words, rebuild, got, chosen>>
  BY DEF catalogue
<1>2. /\ reader' \in [Readers -> Opening] /\ reader'[r] = o
      /\ \A q \in Readers \ {r} : reader'[q] = reader[q]
  BY DEF ReadInv, ReadTypes
<1>3. ReadTypes'
  BY <1>1, <1>2 DEF ReadInv, ReadTypes
<1>4. ReaderInv(r)'
  <2>1. ReaderInv(r)
    BY DEF ReadInv
  <2>2. ReaderOk(r)'
    <3>1. o.at \in {"row", "wallet", "select", "answered"}
      BY DEF Opening
    <3> QED BY <1>1, <1>2, <2>1, <3>1 DEF ReaderInv, ReaderOk
  <2>3. UneditedOk(r)'
    BY <1>1, <1>2, <2>1 DEF ReaderInv, UneditedOk
  <2> QED BY <1>1, <2>1, <2>2, <2>3 DEF ReaderInv, OpenOk, SameOk, FirstLifeOk
<1> QED BY <1>1, <1>2, <1>3, <1>4, OneReader

\* Opening a session reads the row of the article ...
LEMMA LoadArticleKeeps ==
    ASSUME ReadInv, NEW r \in Readers, LoadArticle(r)
    PROVE  ReadInv'
<1>1. PICK sel \in Selections :
        reader' = [reader EXCEPT ![r] =
                     IF article.live
                     THEN [NoReader EXCEPT !.at = "row", !.sel = sel, !.row = article]
                     ELSE [NoReader EXCEPT !.at = "answered"]]
  BY Zenon DEF LoadArticle
<1>2. UNCHANGED <<catalogue, edits, restarts, session, words, rebuild, got, chosen>>
  BY DEF LoadArticle
<1>3. article \in Copies /\ article.text \in Texts /\ article.price \in Prices
  BY DEF ReadInv, ReadTypes, Copies
<1>4. CASE article.live
  <2>1. PICK o : o = [NoReader EXCEPT !.at = "row", !.sel = sel, !.row = article]
    OBVIOUS
  <2>2. o = [at |-> "row", sel |-> sel, row |-> article, rows |-> <<>>]
    BY <2>1 DEF NoReader
  <2>3. reader' = [reader EXCEPT ![r] = o]
    BY <1>1, <1>4, <2>1, Zenon
  <2>4. o \in Opening /\ o.at = "row" /\ o.row = article
    BY <1>3, <2>2 DEF Opening
  <2>5. ~session[r].open
    BY DEF LoadArticle, ReadInv, ReaderInv, ReaderOk
  <2> QED BY <1>2, <1>3, <2>3, <2>4, <2>5, ReaderMoves
<1>5. CASE ~article.live
  <2>1. PICK o : o = [NoReader EXCEPT !.at = "answered"]
    OBVIOUS
  <2>2. o = [at |-> "answered", sel |-> Article, row |-> NoRow, rows |-> <<>>]
    BY <2>1 DEF NoReader
  <2>3. reader' = [reader EXCEPT ![r] = o]
    BY <1>1, <1>5, <2>1, Zenon
  <2>4. o \in Opening /\ o.at = "answered"
    BY <2>2 DEF Opening, NoRow, Copies
  <2> QED BY <1>2, <2>3, <2>4, ReaderMoves
<1> QED BY <1>4, <1>5

\* ... and then, in another query, its section rows, which may be newer.
LEMMA LoadSectionsKeeps ==
    ASSUME ReadInv, NEW r \in Readers, LoadSections(r)
    PROVE  ReadInv'
<1>1. PICK s \in Opening : s = reader[r]
  BY DEF ReadInv, ReadTypes
<1>2. UNCHANGED <<catalogue, edits, restarts, session, words, rebuild, got, chosen>>
  BY DEF LoadSections
<1>3. s.at = "row" /\ ReaderInv(r)
  BY <1>1 DEF LoadSections, ReadInv
<1>4. /\ s.row.text \in Texts /\ s.row.price \in Prices /\ ~session[r].open
      /\ edits = 0 => s.row = article
  BY <1>1, <1>3 DEF ReaderInv, ReaderOk, UneditedOk
<1>5. PICK at \in {"select", "wallet"} :
        reader' = [reader EXCEPT ![r] = [s EXCEPT !.at = at, !.rows = rows]]
  BY <1>1 DEF LoadSections, ReadInv, ReadTypes
<1>6. PICK o : o = [s EXCEPT !.at = at, !.rows = rows]
  OBVIOUS
<1>7. reader' = [reader EXCEPT ![r] = o]
  BY <1>5, <1>6, Zenon
<1>8. o \in Opening /\ o.at = at /\ o.row = s.row /\ o.rows = rows /\ rows \in {Rows[t] : t \in Texts}
  BY <1>6 DEF Opening, ReadInv, ReadTypes
<1> QED BY <1>2, <1>4, <1>5, <1>7, <1>8, ReaderMoves

\* The request is answered and goes no further.
LEMMA ReaderAnswered ==
    ASSUME ReadInv, NEW r \in Readers, reader' = [reader EXCEPT ![r].at = "answered"],
           UNCHANGED <<catalogue, edits, restarts, session, words, rebuild, got, chosen>>
    PROVE  ReadInv'
<1>1. PICK s \in Opening : s = reader[r]
  BY DEF ReadInv, ReadTypes
<1>2. PICK o : o = [s EXCEPT !.at = "answered"]
  OBVIOUS
<1>3. reader' = [reader EXCEPT ![r] = o]
  BY <1>1, <1>2 DEF ReadInv, ReadTypes
<1>4. o \in Opening /\ o.at = "answered"
  BY <1>2 DEF Opening
<1> QED BY <1>3, <1>4, ReaderMoves

\* The selection is made of what was read, whatever is stored by now.
LEMMA SelectKeeps ==
    ASSUME ReadInv, NEW r \in Readers, NEW to \in Addresses,
           reader[r].at \in {"wallet", "select"}, Select(r, to),
           UNCHANGED <<catalogue, edits, restarts, words, rebuild, got, chosen>>
    PROVE  ReadInv'
<1> DEFINE refused == Refused(reader[r].row.text, reader[r].rows, reader[r].sel)
<1>1. CASE refused
  BY <1>1, ReaderAnswered DEF Select
<1>2. CASE ~refused
  <2>1. PICK s \in Opening : s = reader[r]
    BY DEF ReadInv, ReadTypes
  <2>2. PICK o : o = [s EXCEPT !.at = "insert"]
    OBVIOUS
  <2>3. PICK t : t = Opened(r, to)
    OBVIOUS
  <2>4. reader' = [reader EXCEPT ![r] = o] /\ session' = [session EXCEPT ![r] = t]
    BY <1>2, <2>1, <2>2, <2>3 DEF Select, ReadInv, ReadTypes
  <2>5. ReaderInv(r)
    BY DEF ReadInv
  <2>6. /\ s.row.text \in Texts /\ s.row.price \in Prices /\ s.rows \in {Rows[x] : x \in Texts}
        /\ ~session[r].open
        /\ edits = 0 => s.row = article /\ s.rows = rows
    BY <2>1, <2>5 DEF ReaderInv, ReaderOk, UneditedOk
  <2>7. o \in Opening /\ o.at = "insert" /\ o.sel = s.sel /\ o.row = s.row /\ o.rows = s.rows
    BY <2>2 DEF Opening
  <2>8. t \in Sessions /\ t.open = FALSE /\ t.sel = s.sel
    BY <2>1, <2>3, <2>6 DEF Sessions, Opened, Opening
  <2>9. UNCHANGED <<article, rows, wallet, edits, restarts, words, rebuild, got, chosen>>
    BY DEF catalogue
  <2>10. /\ reader' \in [Readers -> Opening] /\ reader'[r] = o
         /\ session' \in [Readers -> Sessions] /\ session'[r] = t
         /\ \A q \in Readers \ {r} : reader'[q] = reader[q] /\ session'[q] = session[q]
    BY <2>4, <2>7, <2>8 DEF ReadInv, ReadTypes
  <2>11. ReadTypes'
    BY <2>9, <2>10 DEF ReadInv, ReadTypes
  <2>12. ~Refused(o.row.text, o.rows, o.sel)
    BY <1>2, <2>1, <2>7
  <2>13. ReaderOk(r)'
    BY <2>6, <2>7, <2>8, <2>10, <2>12 DEF ReaderOk, Refused
  <2>14. OpenOk(r)' /\ SameOk(r)' /\ FirstLifeOk(r)'
    BY <2>5, <2>6, <2>8, <2>9, <2>10 DEF ReaderInv, OpenOk, SameOk, FirstLifeOk
  <2>15. UneditedOk(r)'
    BY <2>5, <2>6, <2>7, <2>8, <2>9, <2>10 DEF ReaderInv, UneditedOk
  <2> QED BY <2>9, <2>10, <2>11, <2>13, <2>14, <2>15, OneReader DEF ReaderInv
<1> QED BY <1>1, <1>2

\* A free session needs no wallet; one with a price is paid to the creator's.
LEMMA OpeningKeeps ==
    ASSUME ReadInv, NEW r \in Readers, LoadWallet(r) \/ OpenFree(r)
    PROVE  ReadInv'
<1>1. UNCHANGED <<catalogue, edits, restarts, words, rebuild, got, chosen>>
  BY DEF LoadWallet, OpenFree
<1>2. reader[r].at \in {"wallet", "select"}
  BY DEF LoadWallet, OpenFree
<1>3. wallet.addr \in Addresses /\ NoWallet.addr \in Addresses
  BY DEF ReadInv, ReadTypes, Addresses
<1>4. \/ Select(r, wallet.addr)
      \/ Select(r, NoWallet.addr)
      \/ reader' = [reader EXCEPT ![r].at = "answered"] /\ UNCHANGED session
  BY Zenon DEF LoadWallet, OpenFree
<1> QED BY <1>1, <1>2, <1>3, <1>4, SelectKeeps, ReaderAnswered

\* What can be asked for, by its fields.
LEMMA SelectionTypes ==
    ASSUME StorefrontAssumption, NEW sel \in Selections \cup {Article}
    PROVE  sel \in Selectable
<1>1. Article \in Selectable
  BY DEF Article, Selectable
<1> QED BY <1>1 DEF StorefrontAssumption

\* The session opens with the words its selection stands for.
LEMMA InsertKeeps ==
    ASSUME StorefrontAssumption, ReadInv, NEW r \in Readers, Insert(r)
    PROVE  ReadInv'
<1>1. PICK s \in Opening : s = reader[r]
  BY DEF ReadInv, ReadTypes
<1>2. PICK v \in Sessions : v = session[r]
  BY DEF ReadInv, ReadTypes
<1>3. PICK list : list = Sliced(reader[r].row.text, reader[r].rows, reader[r].sel)
  OBVIOUS
<1>4. PICK o : o = [s EXCEPT !.at = "answered"]
  OBVIOUS
<1>5. PICK t : t = [v EXCEPT !.open = TRUE]
  OBVIOUS
<1>6. PICK u : u = [known |-> TRUE, list |-> list]
  OBVIOUS
<1>7. /\ reader' = [reader EXCEPT ![r] = o]
      /\ session' = [session EXCEPT ![r] = t]
      /\ words' = [words EXCEPT ![r] = u]
      /\ chosen' = [chosen EXCEPT ![r] = list]
  <2>1. reader' = [reader EXCEPT ![r] = o]
    BY <1>1, <1>4 DEF Insert, ReadInv, ReadTypes
  <2>2. session' = [session EXCEPT ![r] = t]
    BY <1>2, <1>5 DEF Insert, ReadInv, ReadTypes
  <2> QED BY <2>1, <2>2, <1>3, <1>6 DEF Insert
<1>8. UNCHANGED <<article, rows, wallet, edits, restarts, rebuild, got>>
  BY DEF Insert, catalogue
<1>9. ReaderInv(r) /\ s.at = "insert"
  BY <1>1 DEF ReadInv, Insert
<1>10. /\ s.row.text \in Texts /\ s.rows \in {Rows[x] : x \in Texts} /\ v.sel = s.sel /\ ~v.open
       /\ ~Refused(s.row.text, s.rows, s.sel)
       /\ edits = 0 => s.row = article /\ s.rows = rows
  BY <1>1, <1>2, <1>9 DEF ReaderInv, ReaderOk, UneditedOk
<1>11. got[r] = <<>> /\ rebuild[r] = NoRebuild
  BY <1>2, <1>9, <1>10 DEF ReaderInv, OpenOk
<1>12. Listing(list)
  <2>1. s.rows \in Seq(Section)
    BY <1>10 DEF StorefrontAssumption
  <2>2. s.sel \in Selectable
    BY <1>1, SelectionTypes DEF Opening
  <2> QED BY <1>1, <1>3, <1>10, <2>1, <2>2, SlicedLists
<1>13. o \in Opening /\ o.at = "answered"
  BY <1>4 DEF Opening
<1>14. t \in Sessions /\ t.open = TRUE /\ t.sel = s.sel
  BY <1>5, <1>10 DEF Sessions
<1>15. list \in Seq(Texts \X Nat) /\ u \in Wordings /\ u.known /\ u.list = list
  BY <1>6, <1>12 DEF Listing, Wordings
<1>16. /\ reader' \in [Readers -> Opening] /\ reader'[r] = o
       /\ session' \in [Readers -> Sessions] /\ session'[r] = t
       /\ words' \in [Readers -> Wordings] /\ words'[r] = u
       /\ chosen' \in [Readers -> Seq(Texts \X Nat)] /\ chosen'[r] = list
       /\ \A q \in Readers \ {r} :
             /\ reader'[q] = reader[q] /\ session'[q] = session[q]
             /\ words'[q] = words[q] /\ chosen'[q] = chosen[q]
  BY <1>7, <1>13, <1>14, <1>15 DEF ReadInv, ReadTypes
<1>17. ReadTypes'
  BY <1>8, <1>16 DEF ReadInv, ReadTypes
<1>18. ReaderOk(r)' /\ FirstLifeOk(r)'
  BY <1>8, <1>11, <1>13, <1>14, <1>15, <1>16 DEF ReaderOk, FirstLifeOk, NoRebuild
<1>19. OpenOk(r)'
  BY <1>8, <1>11, <1>12, <1>14, <1>15, <1>16 DEF OpenOk, NoRebuild, Listing, Real
<1>20. SameOk(r)'
  BY <1>8, <1>11, <1>15, <1>16 DEF SameOk
<1>21. UneditedOk(r)'
  <2>1. edits = 0 => rows = Rows[article.text]
    BY <1>9 DEF ReaderInv, UneditedOk
  <2>2. edits = 0 => list = Sliced(article.text, rows, t.sel)
    BY <1>1, <1>3, <1>10, <1>14
  <2> QED BY <1>8, <1>11, <1>13, <1>14, <1>16, <2>1, <2>2 DEF UneditedOk, NoRebuild, Sliced
<1> QED BY <1>8, <1>16, <1>17, <1>18, <1>19, <1>20, <1>21, OneReader DEF ReaderInv

\* Words are delivered from the copy in memory.
LEMMA StreamKeeps ==
    ASSUME ReadInv, NEW r \in Readers, Stream(r)
    PROVE  ReadInv'
<1> DEFINE list == words[r].list
           g    == got[r]
<1>1. list \in Seq(Texts \X Nat) /\ g \in Seq(Texts \X Nat) /\ Len(g) \in Nat /\ Len(list) \in Nat
  BY DEF ReadInv, ReadTypes, Wordings
<1>2. PICK n \in 1 .. Len(list) - Len(g) :
        got' = [got EXCEPT ![r] = g \o SubSeq(list, Len(g) + 1, Len(g) + n)]
  BY DEF Stream
<1>3. n \in Nat /\ Len(g) + n <= Len(list)
  BY <1>1, <1>2
<1>4. UNCHANGED <<article, rows, wallet, edits, restarts, reader, session, words, rebuild, chosen>>
  BY DEF Stream, catalogue
<1>5. ReaderInv(r) /\ session[r].open /\ words[r].known /\ rebuild[r].at = "idle"
  BY DEF ReadInv, Stream
<1>6. Listing(list) /\ \A k \in DOMAIN g : Real(g[k])
  BY <1>5 DEF ReaderInv, OpenOk
<1>7. PICK h : h = g \o SubSeq(list, Len(g) + 1, Len(g) + n)
  OBVIOUS
<1>8. h \in Seq(Texts \X Nat) /\ \A k \in DOMAIN h : Real(h[k])
  BY <1>1, <1>3, <1>6, <1>7, RealMore
<1>9. ASSUME restarts = 0 \/ edits = 0
      PROVE  list = chosen[r] /\ Len(h) <= Len(list) /\ h = SubSeq(list, 1, Len(h))
  <2>1. list = chosen[r] /\ g = SubSeq(list, 1, Len(g))
    BY <1>5, <1>9 DEF ReaderInv, SameOk
  <2> HIDE DEF list, g
  <2>2. Len(h) = Len(g) + n /\ h = SubSeq(list, 1, Len(g) + n)
    <3>1. PICK m \in Nat : m = Len(g)
      BY <1>1
    <3>2. m + n <= Len(list) /\ g = SubSeq(list, 1, m) /\ Len(g) = m
          /\ h = g \o SubSeq(list, m + 1, m + n)
      BY <1>3, <1>7, <2>1, <3>1
    <3>3. /\ Len(SubSeq(list, 1, m + n)) = m + n
          /\ SubSeq(list, 1, m) \o SubSeq(list, m + 1, m + n) = SubSeq(list, 1, m + n)
      BY <1>1, <1>3, <3>2, GoesOn
    <3> QED BY <3>1, <3>2, <3>3
  <2> QED BY <1>3, <2>1, <2>2
<1>10. /\ got' \in [Readers -> Seq(Texts \X Nat)] /\ got'[r] = h
       /\ \A q \in Readers \ {r} : got'[q] = got[q]
  BY <1>2, <1>7, <1>8 DEF ReadInv, ReadTypes
<1>11. ReadTypes'
  BY <1>4, <1>10 DEF ReadInv, ReadTypes
<1>12. ReaderOk(r)' /\ FirstLifeOk(r)' /\ UneditedOk(r)'
  BY <1>4, <1>5 DEF ReaderInv, ReaderOk, FirstLifeOk, UneditedOk
<1>13. OpenOk(r)'
  BY <1>4, <1>5, <1>8, <1>10 DEF ReaderInv, OpenOk, Listing, Real
<1>14. SameOk(r)'
  BY <1>4, <1>5, <1>9, <1>10 DEF ReaderInv, SameOk
<1> QED BY <1>4, <1>10, <1>11, <1>12, <1>13, <1>14, OneReader DEF ReaderInv

\* After a restart the article is read again.
LEMMA RebuildArticleKeeps ==
    ASSUME ReadInv, NEW r \in Readers, RebuildArticle(r)
    PROVE  ReadInv'
<1>1. UNCHANGED <<article, rows, wallet, edits, restarts, reader, session, words, got, chosen>>
  BY DEF RebuildArticle, catalogue
<1>2. ReaderInv(r) /\ session[r].open /\ ~words[r].known
  BY DEF ReadInv, RebuildArticle
<1>3. PICK b : b = [at |-> "row", row |-> article]
  OBVIOUS
<1>4. b \in Rebuilds /\ b.at = "row" /\ b.row = article /\ article.text \in Texts
  BY <1>3 DEF ReadInv, ReadTypes, Rebuilds, Copies
<1>5. /\ rebuild' \in [Readers -> Rebuilds] /\ rebuild'[r] = b
      /\ \A q \in Readers \ {r} : rebuild'[q] = rebuild[q]
  BY <1>3, <1>4 DEF RebuildArticle, ReadInv, ReadTypes
<1>6. ReadTypes'
  BY <1>1, <1>5 DEF ReadInv, ReadTypes
<1>7. restarts # 0
  BY <1>2 DEF ReaderInv, FirstLifeOk
<1>8. ReaderOk(r)' /\ SameOk(r)' /\ FirstLifeOk(r)'
  BY <1>1, <1>2, <1>7 DEF ReaderInv, ReaderOk, SameOk, FirstLifeOk
<1>9. OpenOk(r)' /\ UneditedOk(r)'
  BY <1>1, <1>2, <1>4, <1>5 DEF ReaderInv, OpenOk, UneditedOk
<1> QED BY <1>1, <1>5, <1>6, <1>8, <1>9, OneReader DEF ReaderInv

\* The words are cut again from it, and from the section rows and selection there are.
LEMMA RebuildSectionsKeeps ==
    ASSUME StorefrontAssumption, ReadInv, NEW r \in Readers, RebuildSections(r)
    PROVE  ReadInv'
<1>1. PICK row \in Copies : row = rebuild[r].row
  BY DEF ReadInv, ReadTypes, Rebuilds
<1>2. PICK sel \in Selectable : sel = session[r].sel
  BY SelectionTypes DEF ReadInv, ReadTypes, Sessions
<1>3. UNCHANGED <<article, rows, wallet, edits, restarts, reader, session, got, chosen>>
  BY DEF RebuildSections, catalogue
<1>4. /\ rebuild' = [rebuild EXCEPT ![r] = NoRebuild]
      /\ words' = IF Refused(row.text, rows, sel) THEN words
                  ELSE [words EXCEPT ![r] = [known |-> TRUE, list |-> Sliced(row.text, rows, sel)]]
  BY <1>1, <1>2, Zenon DEF RebuildSections, Persisted
<1>5. ReaderInv(r) /\ rebuild[r].at = "row"
  BY DEF ReadInv, RebuildSections
<1>6. row.text \in Texts /\ (edits = 0 => row = article) /\ session[r].open
  BY <1>1, <1>5 DEF ReaderInv, OpenOk, UneditedOk, NoRebuild
<1>7. restarts # 0
  BY <1>5, <1>6 DEF ReaderInv, FirstLifeOk
<1>8. /\ rebuild' \in [Readers -> Rebuilds] /\ rebuild'[r] = NoRebuild
      /\ \A q \in Readers \ {r} : rebuild'[q] = rebuild[q]
  <2>1. NoRebuild \in Rebuilds
    BY DEF NoRebuild, Rebuilds, NoRow, Copies
  <2> QED BY <1>4, <2>1 DEF ReadInv, ReadTypes
<1>9. PICK list : list = Sliced(row.text, rows, sel)
  OBVIOUS
<1>10. PICK u : u = [known |-> TRUE, list |-> list]
  OBVIOUS
<1>11. ~Refused(row.text, rows, sel) => Listing(list)
  <2>1. rows \in Seq(Section)
    BY DEF StorefrontAssumption, ReadInv, ReadTypes
  <2> QED BY <1>6, <1>9, <2>1, SlicedLists
<1>12. edits = 0 => list = chosen[r]
  BY <1>2, <1>5, <1>6, <1>9 DEF ReaderInv, UneditedOk
<1>13. \/ words' = words
       \/ ~Refused(row.text, rows, sel) /\ words' = [words EXCEPT ![r] = u]
  BY <1>4, <1>9, <1>10
<1>14. Listing(list) => u \in Wordings /\ u.known /\ u.list = list
  BY <1>10 DEF Listing, Wordings
<1>15. /\ words' \in [Readers -> Wordings]
       /\ \A q \in Readers \ {r} : words'[q] = words[q]
       /\ words'[r] = words[r] \/ (Listing(list) /\ words'[r] = u)
  BY ZenonT(60), <1>11, <1>13, <1>14 DEF ReadInv, ReadTypes
<1>16. ReadTypes'
  BY <1>3, <1>8, <1>15 DEF ReadInv, ReadTypes
<1>17. ReaderOk(r)' /\ FirstLifeOk(r)'
  BY <1>3, <1>5, <1>7 DEF ReaderInv, ReaderOk, FirstLifeOk
<1>18. OpenOk(r)'
  <2>1. (words'[r].known => Listing(words'[r].list))
    BY <1>5, <1>14, <1>15 DEF ReaderInv, OpenOk
  <2> QED BY <1>3, <1>5, <1>6, <1>8, <2>1 DEF ReaderInv, OpenOk, NoRebuild, Listing, Real
<1>19. SameOk(r)'
  BY <1>3, <1>5, <1>7, <1>12, <1>14, <1>15 DEF ReaderInv, SameOk
<1>20. UneditedOk(r)'
  BY <1>3, <1>5, <1>8 DEF ReaderInv, UneditedOk, NoRebuild
<1> QED BY <1>3, <1>8, <1>15, <1>16, <1>17, <1>18, <1>19, <1>20, OneReader DEF ReaderInv

\* The creator's writes: a change is counted, and section rows follow a change.
LEMMA EditKeeps ==
    ASSUME StorefrontAssumption, ReadInv, EditArticle \/ EditSections \/ EditWallet
    PROVE  ReadInv'
<1>1. UNCHANGED <<restarts, reader, session, words, rebuild, got, chosen>>
  BY DEF EditArticle, EditSections, EditWallet, reading
<1>2. /\ article' \in [live : BOOLEAN, price : Prices, text : Texts]
      /\ rows' \in {Rows[t] : t \in Texts}
      /\ edits' \in 0 .. MaxEdits
  <2>1. CASE EditArticle
    BY <2>1 DEF EditArticle, ReadInv, ReadTypes, StorefrontAssumption
  <2>2. CASE EditSections
    BY <2>2 DEF EditSections, ReadInv, ReadTypes
  <2>3. CASE EditWallet
    BY <2>3 DEF EditWallet, ReadInv, ReadTypes, StorefrontAssumption
  <2> QED BY <2>1, <2>2, <2>3
<1>3. wallet' \in [addr : Addresses, verified : BOOLEAN]
  <2>1. CASE EditWallet
    <3>1. NoWallet \in [addr : Addresses, verified : BOOLEAN]
      BY DEF NoWallet, Addresses
    <3>2. \A w \in [addr : Wallets, verified : BOOLEAN] : w \in [addr : Addresses, verified : BOOLEAN]
      BY DEF Addresses
    <3> QED BY <2>1, <3>1, <3>2 DEF EditWallet
  <2>2. CASE EditArticle \/ EditSections
    BY <2>2 DEF EditArticle, EditSections, ReadInv, ReadTypes
  <2> QED BY <2>1, <2>2
<1>4. ReadTypes'
  BY <1>1, <1>2, <1>3 DEF ReadInv, ReadTypes
<1>5. ASSUME NEW r \in Readers PROVE ReaderInv(r)'
  <2>1. ReaderInv(r)
    BY DEF ReadInv
  <2>2. edits' # 0
    <3>1. edits \in Nat
      BY DEF ReadInv, ReadTypes
    <3>2. CASE EditSections
      BY <2>1, <3>2 DEF EditSections, ReaderInv, UneditedOk
    <3>3. CASE EditArticle \/ EditWallet
      BY <3>1, <3>3 DEF EditArticle, EditWallet
    <3> QED BY <3>2, <3>3
  <2>3. SameOk(r)' /\ UneditedOk(r)'
    BY <1>1, <2>1, <2>2 DEF ReaderInv, SameOk, UneditedOk
  <2>4. ReaderOk(r)' /\ OpenOk(r)' /\ FirstLifeOk(r)'
    BY <1>1, <2>1 DEF ReaderInv, ReaderOk, OpenOk, FirstLifeOk
  <2> QED BY <2>3, <2>4 DEF ReaderInv
<1> QED BY <1>4, <1>5 DEF ReadInv

\* A restart loses the words in memory; what was opened and delivered stays.
LEMMA RestartKeepsReaders ==
    ASSUME StorefrontAssumption, ReadInv, Restart
    PROVE  ReadInv'
<1>1. UNCHANGED <<article, rows, wallet, edits, session, got, chosen>>
  BY DEF Restart, catalogue
<1>2. restarts' # 0 /\ restarts' \in 0 .. MaxRestarts
  <2>1. restarts \in 0 .. MaxRestarts /\ restarts < MaxRestarts /\ restarts' = restarts + 1
    BY DEF Restart, ReadInv, ReadTypes
  <2> QED BY <2>1, StorefrontAssumption DEF StorefrontAssumption
<1>3. PICK o : o = [NoReader EXCEPT !.at = "answered"]
  OBVIOUS
<1>4. o = [at |-> "answered", sel |-> Article, row |-> NoRow, rows |-> <<>>]
  BY <1>3 DEF NoReader
<1>5. o \in Opening /\ o.at = "answered" /\ NoReader \in Opening /\ NoReader.at = "idle"
  BY <1>4 DEF Opening, NoRow, Copies, NoReader
<1>6. \A r \in Readers : reader'[r] = IF reader[r].at = "idle" THEN NoReader ELSE o
  BY <1>3, Zenon DEF Restart
<1>7. reader' \in [Readers -> Opening]
  BY <1>3, <1>5 DEF Restart
<1>8. /\ words' = [r \in Readers |-> NoWords] /\ NoWords \in Wordings /\ ~NoWords.known
      /\ rebuild' = [r \in Readers |-> NoRebuild] /\ NoRebuild \in Rebuilds
      /\ NoRebuild.at = "idle"
  BY DEF Restart, NoWords, Wordings, NoRebuild, Rebuilds, NoRow, Copies
<1>9. ReadTypes'
  BY <1>1, <1>2, <1>7, <1>8 DEF ReadInv, ReadTypes
<1>10. ASSUME NEW r \in Readers PROVE ReaderInv(r)'
  <2>1. ReaderInv(r)
    BY DEF ReadInv
  <2>2. words'[r] = NoWords /\ ~words'[r].known /\ rebuild'[r] = NoRebuild /\ rebuild'[r].at = "idle"
    BY <1>8
  <2>3. reader'[r].at \in {"idle", "answered"} /\ (reader'[r].at = "idle" => reader[r].at = "idle")
    BY <1>5, <1>6
  <2>4. ReaderOk(r)' /\ OpenOk(r)'
    BY <1>1, <2>1, <2>2, <2>3 DEF ReaderInv, ReaderOk, OpenOk
  <2>5. SameOk(r)' /\ FirstLifeOk(r)' /\ UneditedOk(r)'
    BY <1>1, <1>2, <2>1, <2>2, <2>3 DEF ReaderInv, SameOk, FirstLifeOk, UneditedOk
  <2> QED BY <2>4, <2>5 DEF ReaderInv
<1> QED BY <1>9, <1>10 DEF ReadInv

\* Nothing that a reader sees changes.
LEMMA ReadersRest ==
    ASSUME ReadInv, UNCHANGED <<article, rows, wallet, edits, restarts, reader, session, words,
                                rebuild, got, chosen>>
    PROVE  ReadInv'
<1>1. ASSUME NEW r \in Readers PROVE ReaderInv(r)'
  BY DEF ReadInv, ReaderInv, ReaderOk, OpenOk, SameOk, FirstLifeOk, UneditedOk
<1>2. ReadTypes'
  BY DEF ReadInv, ReadTypes
<1> QED BY <1>1, <1>2 DEF ReadInv

\* Every step keeps the readers' invariant.
LEMMA ReadKept ==
    ASSUME StorefrontAssumption, ReadInv, [Next]_vars
    PROVE  ReadInv'
<1>1. ASSUME NEW p \in Purchases,
             \/ LoadOffer(p) \/ LoadRecipient(p) \/ ReachFacilitator(p)
             \/ VerifyPayment(p) \/ SettlePayment(p)
      PROVE  ReadInv'
  <2>1. UNCHANGED <<catalogue, edits, restarts, reading>>
    <3>1. LoadOffer(p) => UNCHANGED <<catalogue, edits, restarts, reading>>
      BY DEF LoadOffer
    <3>2. LoadRecipient(p) => UNCHANGED <<catalogue, edits, restarts, reading>>
      BY DEF LoadRecipient
    <3>3. ReachFacilitator(p) => UNCHANGED <<catalogue, edits, restarts, reading>>
      BY DEF ReachFacilitator
    <3>4. VerifyPayment(p) => UNCHANGED <<catalogue, edits, restarts, reading>>
      BY DEF VerifyPayment
    <3>5. SettlePayment(p) => UNCHANGED <<catalogue, edits, restarts, reading>>
      BY DEF SettlePayment
    <3> QED BY <1>1, <3>1, <3>2, <3>3, <3>4, <3>5
  <2> QED BY <2>1, ReadersRest DEF catalogue, reading
<1>2. CASE UNCHANGED vars
  BY <1>2, ReadersRest DEF vars
<1> QED BY <1>1, <1>2, LoadArticleKeeps, LoadSectionsKeeps, OpeningKeeps, InsertKeeps, StreamKeeps,
           RebuildArticleKeeps, RebuildSectionsKeeps, EditKeeps, RestartKeepsReaders DEF Next

\* rememberSession and resolveStreamState: what a session delivered was real when it was
\* cut, and as long as nothing changed behind it is a beginning of what was chosen.
THEOREM ReadersInvariant ==
    ASSUME StorefrontAssumption
    PROVE  Spec => []ReadInv
<1>1. Init => ReadInv
  BY ReadStarts
<1>2. ReadInv /\ [Next]_vars => ReadInv'
  BY ReadKept
<1> QED BY <1>1, <1>2, PTL DEF Spec

\* The invariant says what readers may rely on.
LEMMA WordsFollow == ReadInv => WordsAreReal
<1> SUFFICES ASSUME ReadInv, NEW r \in Readers, NEW i \in DOMAIN got[r], NEW j \in DOMAIN got[r]
             PROVE  /\ got[r][i][2] \in 0 .. (Length[got[r][i][1]] - 1)
                    /\ restarts = 0 /\ i # j => got[r][i] # got[r][j]
  BY DEF WordsAreReal
<1>1. ReaderInv(r) /\ got[r] \in Seq(Texts \X Nat) /\ chosen[r] \in Seq(Texts \X Nat)
  BY DEF ReadInv, ReadTypes
<1>2. got[r][i][2] \in 0 .. (Length[got[r][i][1]] - 1)
  BY <1>1 DEF ReaderInv, OpenOk, Real
<1>3. ASSUME restarts = 0, i # j PROVE got[r][i] # got[r][j]
  <2>1. got[r] = SubSeq(chosen[r], 1, Len(got[r])) /\ Len(got[r]) <= Len(chosen[r])
    BY <1>1, <1>3 DEF ReaderInv, SameOk
  <2>2. Len(got[r]) \in Nat /\ DOMAIN got[r] = 1 .. Len(got[r]) /\ Len(chosen[r]) \in Nat
        /\ DOMAIN chosen[r] = 1 .. Len(chosen[r])
    BY <1>1
  <2>3. \A k \in 1 .. Len(got[r]) : SubSeq(chosen[r], 1, Len(got[r]))[k] = chosen[r][k]
    BY <1>1, <2>1, <2>2
  <2>4. got[r][i] = chosen[r][i] /\ got[r][j] = chosen[r][j]
    BY <2>1, <2>2, <2>3
  <2>5. i \in DOMAIN chosen[r] /\ j \in DOMAIN chosen[r]
    BY <2>1, <2>2
  <2>6. \A m, k \in DOMAIN chosen[r] : chosen[r][m] = chosen[r][k] => m = k
    BY <1>1 DEF ReaderInv, OpenOk, Listing
  <2> QED BY <1>3, <2>4, <2>5, <2>6
<1> QED BY <1>2, <1>3

\* Every word delivered is a word of a body the article has had, none twice in one life of
\* the process, although body, rows and selection are read apart.
THEOREM RealWords ==
    ASSUME StorefrontAssumption
    PROVE  Spec => []WordsAreReal
BY ReadersInvariant, WordsFollow, PTL

\* A session whose words are cut again from an article nobody changed goes on where it was.
THEOREM RebuiltSame ==
    ASSUME StorefrontAssumption
    PROVE  Spec => []RebuiltAsChosen
<1>1. ReadInv => RebuiltAsChosen
  BY DEF ReadInv, ReaderInv, SameOk, RebuiltAsChosen
<1> QED BY <1>1, ReadersInvariant, PTL

\* Every variable of both lanes keeps its type.
THEOREM StorefrontTypes ==
    ASSUME StorefrontAssumption
    PROVE  Spec => []TypeOK
<1> DEFINE Facilitated == facilitator \in {"none", "ready", "failed"}
<1>1. Init => Facilitated
  BY DEF Init
<1>2. Facilitated /\ [Next]_vars => Facilitated'
  BY DEF Next, vars, EditArticle, EditSections, EditWallet, Restart, LoadArticle, LoadSections,
     LoadWallet, OpenFree, Insert, Stream, RebuildArticle, RebuildSections, LoadOffer,
     LoadRecipient, ReachFacilitator, VerifyPayment, SettlePayment, selling
<1>3. SaleInv /\ ReadInv /\ Facilitated => TypeOK
  BY DEF SaleInv, SaleTypes, ReadInv, ReadTypes, TypeOK, Opening, Sessions, Wordings, Rebuilds,
     Sales, Stages
<1>4. Spec => []SaleInv
  <2>1. Init => SaleInv
    BY SaleStarts
  <2>2. SaleInv /\ [Next]_vars => SaleInv'
    BY SaleKept
  <2> QED BY <2>1, <2>2, PTL DEF Spec
<1> HIDE DEF Facilitated
<1> QED BY <1>1, <1>2, <1>3, <1>4, ReadersInvariant, PTL DEF Spec
=============================================================================

--------------------------- MODULE AddressRanges ---------------------------
(***************************************************************************)
(* Sets of addresses as sorted lists of ranges: what every route list, the *)
(* kernel's sets and the cache zones are computed with.  A list is sorted  *)
(* and joined, another is subtracted from it with one pass over both, and  *)
(* the result is written as prefixes.  Addresses are machine words: one    *)
(* past the last is 0.                                                     *)
(***************************************************************************)
EXTENDS RangeBasics, SequencesExt

CONSTANTS
  Word,       \* bits of an address
  MaxRanges   \* bound: ranges in each of the two lists

ASSUME RangeConstants == Word \in Nat \ {0} /\ MaxRanges \in Nat

VARIABLES given,  \* the two lists: base and remove
          spans, cuts,   \* the two lists as Subtract uses them
          at,     \* Subtract: the span, the cut, and the address reached
          left,   \* what Subtract has returned so far
          prefixes,   \* the prefixes written so far
          rangePC     \* "given", "subtract", "prefixes", "done"

rangeVars == <<given, spans, cuts, at, left, prefixes, rangePC>>

Top == Pow2[Word] - 1
Add(x, y) == (x + y) % Pow2[Word]
From(lo, hi) == [lo |-> lo, hi |-> hi]
Ranges == {r \in [lo : 0..Top, hi : 0..Top] : r.lo <= r.hi}

Members(list) == UNION {r.lo..r.hi : r \in ToSet(list)}

\* Only two neighbours that overlap are joined.
touchesOverlapping(last, r) == r.lo < last.hi

touches(last, r) == r.lo <= last.hi \/ (last.hi # Top /\ r.lo = Add(last.hi, 1))

\* Collapse: sorted by start, neighbours that touch joined.
Join(out, r) ==
    IF out = <<>> \/ ~touches(Last(out), r) THEN Append(out, r)
    ELSE Append(Front(out), From(Last(out).lo, IF r.hi > Last(out).hi THEN r.hi ELSE Last(out).hi))

Collapse(list) ==
    LET sorted == Sorted(ToSet(list))
        joined[k \in 0..Len(sorted)] == IF k = 0 THEN <<>> ELSE Join(joined[k - 1], sorted[k])
    IN joined[Len(sorted)]

isNormalized(list) ==
    \A k \in DOMAIN list : /\ list[k].lo <= list[k].hi
                           /\ k > 1 => ~(list[k].lo <= Add(list[k-1].hi, 1))

Normalized(list) == IF isNormalized(list) THEN list ELSE Collapse(list)

\* Base is a set that was collapsed before; what is removed comes as a database
\* is walked, in any order.  The last address is in no list: it is not global.
RangeInit ==
    /\ given \in [base : {list \in SeqOf(Ranges, MaxRanges) : list = Collapse(list)},
                  remove : SeqOf({r \in Ranges : r.hi # Top}, MaxRanges)]
    /\ spans = <<>> /\ cuts = <<>>
    /\ at = [span |-> 1, cut |-> 1, cur |-> 0]
    /\ left = <<>> /\ prefixes = <<>>
    /\ rangePC = "given"

Start(span) == IF span <= Len(spans') THEN spans'[span].lo ELSE 0

SubtractBegins ==
    /\ rangePC = "given"
    /\ spans' = Normalized(given.base)
    /\ cuts' = Normalized(given.remove)
    /\ at' = [span |-> 1, cut |-> 1, cur |-> Start(1)]
    /\ rangePC' = "subtract"
    /\ UNCHANGED <<given, left, prefixes>>

NextSpan == [at EXCEPT !.span = @ + 1, !.cur = Start(at.span + 1)]

Span == spans[at.span]
Cut == cuts[at.cut]

\* The range before a cut.
Before == IF Cut.lo > at.cur THEN <<From(at.cur, Cut.lo - 1)>> ELSE <<>>

\* The passes of the inner loop: a cut that lies behind; no cut in this span;
\* a cut that ends it; a cut after which it goes on.
skipCut ==
    /\ at.cut <= Len(cuts) /\ Cut.hi < at.cur
    /\ at' = [at EXCEPT !.cut = @ + 1]
    /\ UNCHANGED left
keepSpan ==
    /\ IF at.cut > Len(cuts) THEN TRUE ELSE Cut.hi >= at.cur /\ Cut.lo > Span.hi
    /\ left' = Append(left, From(at.cur, Span.hi))
    /\ at' = NextSpan
cutEnd ==
    /\ at.cut <= Len(cuts) /\ Cut.hi >= at.cur /\ Cut.lo <= Span.hi /\ Cut.hi >= Span.hi
    /\ left' = left \o Before
    /\ at' = NextSpan
cutMiddle ==
    /\ at.cut <= Len(cuts) /\ Cut.hi >= at.cur /\ Cut.lo <= Span.hi /\ Cut.hi < Span.hi
    /\ left' = left \o Before
    /\ at' = [at EXCEPT !.cur = Add(Cut.hi, 1)]

Subtract ==
    /\ rangePC = "subtract"
    /\ at.span <= Len(spans)
    /\ UNCHANGED <<given, spans, cuts, prefixes, rangePC>>
    /\ skipCut \/ keepSpan \/ cutEnd \/ cutMiddle

SubtractEnds ==
    /\ rangePC = "subtract"
    /\ at.span > Len(spans)
    /\ at' = [span |-> 1, cut |-> 1, cur |-> IF left = <<>> THEN 0 ELSE left[1].lo]
    /\ rangePC' = "prefixes"
    /\ UNCHANGED <<given, spans, cuts, left, prefixes>>

\* The block of 2^k addresses from lo on is aligned and does not pass hi.
Fits(lo, hi, k) == lo % Pow2[k] = 0 /\ Add(lo, Pow2[k] - 1) <= hi

Largest(lo, hi) == CHOOSE k \in 0..Word : /\ \A m \in 0..k : Fits(lo, hi, m)
                                          /\ k = Word \/ ~Fits(lo, hi, k + 1)

\* rangeToPrefixes: the largest block, until the range or the addresses end.
rangeToPrefixes ==
    /\ rangePC = "prefixes"
    /\ at.span <= Len(left)
    /\ LET hi == left[at.span].hi
           k == Largest(at.cur, hi)
           size == Pow2[k] - 1
       IN /\ prefixes' = Append(prefixes, From(at.cur, Add(at.cur, size)))
          /\ at' = IF Add(at.cur, size) >= hi \/ Add(at.cur, size) < at.cur
                   THEN [at EXCEPT !.span = @ + 1,
                                   !.cur = IF at.span < Len(left) THEN left[at.span + 1].lo ELSE 0]
                   ELSE [at EXCEPT !.cur = Add(at.cur, size + 1)]
    /\ UNCHANGED <<given, spans, cuts, left, rangePC>>

RangesDone ==
    /\ rangePC = "prefixes"
    /\ at.span > Len(left)
    /\ rangePC' = "done"
    /\ UNCHANGED <<given, spans, cuts, at, left, prefixes>>

RangeNext == SubtractBegins \/ Subtract \/ SubtractEnds \/ rangeToPrefixes \/ RangesDone

RangeSpec == RangeInit /\ [][RangeNext]_rangeVars

\* sort.Search over the starts: the last range that starts at v or before.
locate(list, v) == CHOOSE k \in 0..Len(list) : /\ k = 0 \/ list[k].lo <= v
                                               /\ k = Len(list) \/ list[k + 1].lo > v

ContainsUint(list, v) == LET k == locate(list, v) IN k > 0 /\ list[k].hi >= v

\* sort.Search over the ends: the first range that ends at lo or after.
Overlaps(list, lo, hi) ==
    LET k == CHOOSE n \in 1..(Len(list) + 1) : /\ n = 1 \/ list[n-1].hi < lo
                                               /\ n > Len(list) \/ list[n].hi >= lo
    IN k <= Len(list) /\ list[k].lo <= hi

\* What is left are exactly the addresses of the base that were not removed, at
\* both ends of the address space too; the searches find exactly them; and the
\* prefixes written hold each of them once (ipset: Collapse,
\* Subtract, Contains, Overlaps, Prefixes).
RangesAreExact ==
    rangePC = "done" =>
        LET wanted == Members(given.base) \ Members(given.remove) IN
        /\ Members(left) = wanted
        /\ \A v \in 0..Top : ContainsUint(left, v) <=> v \in wanted
        /\ \A r \in Ranges : Overlaps(left, r.lo, r.hi) <=> (r.lo..r.hi) \cap wanted # {}
        /\ Members(prefixes) = wanted
        /\ \A i, j \in DOMAIN prefixes : i # j => Members(<<prefixes[i]>>) \cap Members(<<prefixes[j]>>) = {}
=============================================================================

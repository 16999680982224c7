---------------------------- MODULE RangeBasics ----------------------------
(***************************************************************************)
(* What every list of ranges is worked on with: the powers of two, and the *)
(* order in which a list is sorted before one pass joins, cuts or searches *)
(* it.  Both are recursive functions, so that they can be proved about.    *)
(***************************************************************************)
EXTENDS Integers, Sequences, FiniteSets

\* 1 << k
Pow2[k \in Nat] == IF k = 0 THEN 1 ELSE 2 * Pow2[k - 1]

\* By the first address, then by the last.
Earlier(a, b) == a.lo < b.lo \/ (a.lo = b.lo /\ a.hi <= b.hi)

\* Of those that tie, any one.
FirstOf(set) == CHOOSE a \in set : \A b \in set : Earlier(a, b)

\* sort.Slice
Sorted(set) ==
    LET n == Cardinality(set)
        rest[k \in 0..n] == IF k = 0 THEN set ELSE rest[k - 1] \ {FirstOf(rest[k - 1])}
    IN [k \in 1..n |-> FirstOf(rest[k - 1])]
=============================================================================

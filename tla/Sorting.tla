------------------------------- MODULE Sorting -------------------------------
(* Python's sort, for numbers and for any other order.                       *)
EXTENDS Integers, Sequences, FiniteSets

Ascending(s) == \A a, b \in DOMAIN s : a < b => s[a] < s[b]

\* How 1..n is lined up when R holds who comes before whom.
Arrange(n, R) ==
    [k \in 1..n |-> CHOOSE i \in 1..n : Cardinality({j \in 1..n : <<j, i>> \in R}) = k - 1]

\* The sort is stable.
NumberOrder(s) ==
    {p \in (DOMAIN s) \X (DOMAIN s) : s[p[1]] < s[p[2]] \/ (s[p[1]] = s[p[2]] /\ p[1] < p[2])}

SortedNumbers(s) == [k \in DOMAIN s |-> s[Arrange(Len(s), NumberOrder(s))[k]]]
=============================================================================

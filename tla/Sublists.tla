------------------------------ MODULE Sublists ------------------------------
(* Sequences that lose elements, as the linked lists of the code do.         *)
EXTENDS Naturals, Sequences, FiniteSets

\* The elements of s that are in A, in their order: SelectSeq with a set for
\* its test, by counting instead of recursion, so that it can be reasoned about.
Keep(s, A) ==
    LET I == {i \in DOMAIN s : s[i] \in A}
        nth(k) == CHOOSE i \in I : Cardinality({j \in I : j <= i}) = k
    IN [k \in 1 .. Cardinality(I) |-> s[nth(k)]]
=============================================================================

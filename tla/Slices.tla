------------------------------- MODULE Slices -------------------------------
(***************************************************************************)
(* The helpers the engine has for Go slices (internal/engine/engine.go,    *)
(* lines 603 to 627), on sequences: what is left when a loop has filtered a*)
(* slice, without recursion, so that theorems can use them.                *)
(***************************************************************************)
EXTENDS Integers, Sequences, FiniteSets, Functions

\* The subsequence of s at the positions I.  A loop that filters a slice keeps
\* exactly these elements, in order.
Rank(I, i) == Cardinality({j \in I : j <= i})
Nth(I, k) == CHOOSE i \in I : Rank(I, i) = k
Pick(s, I) == [k \in 1..Cardinality(I) |-> s[Nth(I, k)]]

Without(s, e) == Pick(s, {k \in DOMAIN s : s[k] # e})
WithOnce(s, e) == IF e \in Range(s) THEN s ELSE Append(s, e)

\* What a loop that adds w[1], ..., w[n] to `from` ends with.
Summed(from, w, n) ==
  LET acc[k \in 0..n] == IF k = 0 THEN from ELSE acc[k - 1] + w[k] IN acc[n]
=============================================================================

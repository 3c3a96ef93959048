----------------------------- MODULE Subsequences -----------------------------
(***************************************************************************)
(* The elements of a sequence at some of its places, in their order.       *)
(***************************************************************************)
EXTENDS Naturals, FiniteSets

(* The k-th smallest of a finite set of numbers.                           *)
Nth(S, k) == CHOOSE i \in S : Cardinality({j \in S : j <= i}) = k

Pick(s, S) == [k \in 1 .. Cardinality(S) |-> s[Nth(S, k)]]
=============================================================================

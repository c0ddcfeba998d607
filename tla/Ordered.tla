------------------------------- MODULE Ordered -------------------------------
(* Sorting and selecting, said by position so that a proof can expand it. *)
EXTENDS Naturals, FiniteSets

\* The numbers of K from the smallest to the largest.
InOrder(K) ==
  [n \in 1..Cardinality(K) |-> CHOOSE k \in K : Cardinality({j \in K : j <= k}) = n]

\* What is in keep of a sequence, in its order.
Select(s, keep) ==
  LET at == InOrder({i \in DOMAIN s : s[i] \in keep})
  IN  [n \in DOMAIN at |-> s[at[n]]]
=============================================================================

------------------------------- MODULE Measures -------------------------------
(* How far a call is from its end: a sequence of naturals, the outermost loop  *)
(* first.  The lexicographic order on sequences of one length is well-founded, *)
(* so that a call each of whose steps brings the sequence down does end.       *)
EXTENDS Naturals, Sequences

Measure(n) == {s \in Seq(Nat) : Len(s) = n}

Below(s, t) ==
  \E k \in DOMAIN t : s[k] < t[k] /\ \A m \in 1..(k - 1) : s[m] = t[m]
=============================================================================

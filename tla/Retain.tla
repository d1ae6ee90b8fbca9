------------------------------- MODULE Retain --------------------------------
(* Vec::retain, without recursion, so that it can be proved about.          *)
EXTENDS Integers, Sequences

\* The subsequence of s at the positions in I, as the only element of a set: its k-th
\* element is the one at f[k], where f enumerates I in ascending order.
Retained(s, I) ==
  UNION {{[k \in 1 .. n |-> s[f[k]]] :
            f \in {g \in [1 .. n -> DOMAIN s] :
                     /\ \A i, j \in 1 .. n : i < j => g[i] < g[j]
                     /\ {g[i] : i \in 1 .. n} = I}} : n \in 0 .. Len(s)}
=============================================================================

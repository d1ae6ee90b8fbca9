---------------------------- MODULE RetainProofs -----------------------------
(* What Retained keeps: some elements of the sequence, each at its position  *)
(* of a strictly ascending enumeration, and every position it was given.     *)
EXTENDS Retain, TLAPS

\* Element k of t is the one of s at f[k], and no position in I is left out.
Picked(s, I, t, f) ==
  /\ f \in [DOMAIN t -> DOMAIN s]
  /\ \A i, j \in DOMAIN t : i < j => f[i] < f[j]
  /\ \A k \in DOMAIN t : f[k] \in I /\ t[k] = s[f[k]]
  /\ \A i \in I : \E k \in DOMAIN t : f[k] = i

\* Vec::retain gives a vector of elements of the old one, in the old order, and drops none
\* it should keep.
LEMMA RetainedProperty ==
  ASSUME NEW S, NEW s \in Seq(S), NEW I, NEW t \in Retained(s, I)
  PROVE  /\ t \in Seq(S)
         /\ \E f : Picked(s, I, t, f)
PROOF
<1>1. PICK n \in 0 .. Len(s) :
        t \in {[k \in 1 .. n |-> s[f[k]]] :
                 f \in {g \in [1 .. n -> DOMAIN s] :
                          /\ \A i, j \in 1 .. n : i < j => g[i] < g[j]
                          /\ {g[i] : i \in 1 .. n} = I}}
  BY DEF Retained
<1>2. PICK f \in [1 .. n -> DOMAIN s] :
        /\ \A i, j \in 1 .. n : i < j => f[i] < f[j]
        /\ {f[i] : i \in 1 .. n} = I
        /\ t = [k \in 1 .. n |-> s[f[k]]]
  BY <1>1
<1>3. n \in Nat /\ DOMAIN t = 1 .. n
  BY <1>2
<1>4. \A k \in 1 .. n : t[k] = s[f[k]] /\ s[f[k]] \in S
  BY <1>2
<1>5. t \in Seq(S)
  BY <1>2, <1>3, <1>4
<1>6. \A k \in 1 .. n : f[k] \in I
  BY <1>2
<1>7. \A i \in I : \E k \in 1 .. n : f[k] = i
  BY <1>2
<1>8. f \in [DOMAIN t -> DOMAIN s]
  BY <1>3
<1>9. /\ \A i, j \in DOMAIN t : i < j => f[i] < f[j]
      /\ \A k \in DOMAIN t : f[k] \in I /\ t[k] = s[f[k]]
      /\ \A i \in I : \E k \in DOMAIN t : f[k] = i
  BY <1>2, <1>3, <1>4, <1>6, <1>7
<1> QED BY <1>5, <1>8, <1>9 DEF Picked
=============================================================================

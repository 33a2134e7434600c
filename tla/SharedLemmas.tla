---------------------------- MODULE SharedLemmas ----------------------------
(* Facts that several proofs rest on: numbers modulo the size of a ring,    *)
(* for the breaker's two windows, and sequences, for the health channels.   *)
EXTENDS Integers, Sequences, SequenceTheorems, TLAPS

(* Rings. *)

\* Quotient and remainder put a number together again.
LEMMA DivMod ==
    ASSUME NEW x \in Nat, NEW n \in Nat \ {0}
    PROVE  /\ x \div n \in Nat
           /\ x % n \in 0 .. n - 1
           /\ x = n * (x \div n) + (x % n)
OBVIOUS

\* Two numbers in the same place of the ring are a whole round apart.
LEMMA SameMod ==
    ASSUME NEW x \in Nat, NEW y \in Nat, NEW n \in Nat \ {0}, x % n = y % n, x < y
    PROVE  y - x >= n
OBVIOUS

\* A remainder is the one number of its range that leaves whole rounds.
LEMMA ModUnique ==
    ASSUME NEW x \in Nat, NEW n \in Nat \ {0}, NEW q \in Nat, NEW r \in Nat,
           x = n * q + r, r < n
    PROVE  x % n = r
OBVIOUS

\* A round more is the same place.
LEMMA ModRound ==
    ASSUME NEW x \in Nat, NEW n \in Nat \ {0}
    PROVE  (x + n) % n = x % n
<1> DEFINE q == x \div n
           r == x % n
<1>1. q \in Nat /\ r \in 0 .. n - 1 /\ x = n * q + r
    BY DivMod
<1> HIDE DEF q, r
<1>2. x + n = n * (q + 1) + r
    BY <1>1
<1>3. q + 1 \in Nat /\ r \in Nat /\ r < n /\ x + n \in Nat
    BY <1>1
<1>4. (x + n) % n = r
    BY <1>2, <1>3, ModUnique
<1>. QED
    BY <1>4 DEF r

\* Steps from a place of the ring are steps from the number it stands for.
LEMMA ModShift ==
    ASSUME NEW a \in Nat, NEW k \in Nat, NEW n \in Nat \ {0}
    PROVE  ((a % n) + k) % n = (a + k) % n
<1> DEFINE q == a \div n
           r == a % n
           p == (r + k) \div n
           s == (r + k) % n
<1>1. q \in Nat /\ r \in 0 .. n - 1 /\ a = n * q + r
    BY DivMod
<1>2. r + k \in Nat
    BY <1>1
<1>3. p \in Nat /\ s \in 0 .. n - 1 /\ r + k = n * p + s
    BY <1>2, DivMod
<1> HIDE DEF q, r, p, s
<1>4. a + k = n * (q + p) + s
    BY <1>1, <1>3
<1>5. q + p \in Nat /\ s \in Nat /\ s < n /\ a + k \in Nat
    BY <1>1, <1>3
<1>6. (a + k) % n = s
    BY <1>4, <1>5, ModUnique
<1>. QED
    BY <1>6 DEF r, s

\* Multiples compare as their factors do.
LEMMA Factors ==
    ASSUME NEW n \in Nat \ {0}, NEW p \in Int, NEW q \in Int, n * p < n * q + n
    PROVE  p <= q
OBVIOUS

-----------------------------------------------------------------------------
(* Sequences. *)

\* A function on 1 .. n is a sequence of length n.
LEMMA FunctionIsSeq ==
    ASSUME NEW n \in Nat, NEW S, NEW f \in [1 .. n -> S]
    PROVE  f \in Seq(S) /\ Len(f) = n
OBVIOUS

\* Taking the first of several events leaves the last one in place.
LEMMA LastOfTail ==
    ASSUME NEW S, NEW s \in Seq(S), s # <<>>
    PROVE  /\ Tail(s) = <<>> => Len(s) = 1
           /\ Tail(s) # <<>> => Tail(s)[Len(Tail(s))] = s[Len(s)]
<1>1. /\ Tail(s) \in Seq(S) /\ Len(Tail(s)) = Len(s) - 1 /\ Len(s) \in Nat
      /\ \A i \in 1 .. Len(Tail(s)) : Tail(s)[i] = s[i + 1]
  BY HeadTailProperties, LenProperties
<1>2. CASE Tail(s) = <<>>
  <2>1. Len(Tail(s)) = 0
    BY <1>2, EmptySeq
  <2>. QED
    BY <1>1, <1>2, <2>1
<1>3. CASE Tail(s) # <<>>
  <2>1. Len(Tail(s)) \in Nat \ {0}
    BY <1>1, <1>3, EmptySeq
  <2>2. Len(Tail(s)) \in 1 .. Len(Tail(s)) /\ Len(Tail(s)) + 1 = Len(s)
    BY <1>1, <2>1
  <2>3. Tail(s)[Len(Tail(s))] = s[Len(Tail(s)) + 1]
    BY <1>1, <2>2
  <2>. QED
    BY <1>3, <2>2, <2>3
<1>. QED
  BY <1>2, <1>3

=============================================================================

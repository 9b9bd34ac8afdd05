----------------------------- MODULE RingLemmas -----------------------------
(***************************************************************************)
(* Facts the proofs share: arithmetic on positions of a ring of C slots,   *)
(* least numbers, and functions that are defined by recursion on a number. *)
(***************************************************************************)
EXTENDS Integers, Sequences, WellFoundedInduction, TLAPS

\* A position has a slot of the ring.
LEMMA SlotInRing ==
  ASSUME NEW C \in Nat \ {0}, NEW a \in Nat
  PROVE  a % C \in 0..(C - 1)
OBVIOUS

\* Two positions less than a lap apart use different slots.
LEMMA SlotsDiffer ==
  ASSUME NEW C \in Nat \ {0}, NEW a \in Nat, NEW b \in Nat, a < b, b < a + C
  PROVE  a % C # b % C
<1>1. /\ a = C * (a \div C) + (a % C)
      /\ b = C * (b \div C) + (b % C)
      /\ a \div C \in Int /\ b \div C \in Int
  OBVIOUS
<1>2. SUFFICES ASSUME a % C = b % C PROVE FALSE
  OBVIOUS
<1>3. DEFINE d == (b \div C) - (a \div C)
<1>4. d \in Int /\ b - a = C * d
  BY <1>1, <1>2
<1>5. d >= 1 => C * d >= C
  BY <1>4
<1>6. d <= 0 => C * d <= 0
  BY <1>4
<1>7. QED
  BY <1>4, <1>5, <1>6

\* One lap later a position uses the same slot again.
LEMMA SlotAfterLap ==
  ASSUME NEW C \in Nat \ {0}, NEW a \in Nat
  PROVE  (a + C) % C = a % C
<1>1. /\ a = C * (a \div C) + (a % C)
      /\ a + C = C * ((a + C) \div C) + ((a + C) % C)
      /\ a \div C \in Int /\ (a + C) \div C \in Int
      /\ a % C \in 0..(C - 1) /\ (a + C) % C \in 0..(C - 1)
  OBVIOUS
<1>2. DEFINE d == ((a + C) \div C) - (a \div C) - 1
<1>3. d \in Int /\ (a % C) - ((a + C) % C) = C * d
  BY <1>1
<1>4. /\ d >= 1 => C * d >= C
      /\ d <= -1 => C * d <= -C
      /\ d = 0 => C * d = 0
  BY <1>3
<1>5. QED
  BY <1>1, <1>3, <1>4

\* So it does after any number of laps.
LEMMA SlotAfterLaps ==
  ASSUME NEW C \in Nat \ {0}, NEW a \in Nat, NEW k \in Int, a + C * k \in Nat
  PROVE  (a + C * k) % C = a % C
<1> DEFINE b == a + C * k
<1>1. /\ a = C * (a \div C) + (a % C)
      /\ b = C * (b \div C) + (b % C)
      /\ a \div C \in Int /\ b \div C \in Int
      /\ a % C \in 0..(C - 1) /\ b % C \in 0..(C - 1)
  OBVIOUS
<1>2. DEFINE d == (b \div C) - (a \div C) - k
<1>3. d \in Int /\ (a % C) - (b % C) = C * d
  BY <1>1
<1>4. /\ d >= 1 => C * d >= C
      /\ d <= -1 => C * d <= -C
      /\ d = 0 => C * d = 0
  BY <1>3
<1>5. QED
  BY <1>1, <1>3, <1>4

\* Within the lap that begins at r, one position has the slot of b; unless it is
\* b itself, b is at least a lap later.
LEMMA SlotInLap ==
  ASSUME NEW C \in Nat \ {0}, NEW r \in Nat, NEW b \in Nat, r <= b
  PROVE  \E q \in r..(r + C - 1) : q % C = b % C /\ (q = b \/ q + C <= b)
<1> DEFINE k == (b - r) \div C
           q == r + ((b - r) % C)
<1>1. /\ b - r = C * k + ((b - r) % C)
      /\ k \in Nat /\ (b - r) % C \in 0..(C - 1)
  OBVIOUS
<1>2. q \in r..(r + C - 1) /\ q \in Nat /\ b = q + C * k
  BY <1>1
<1> HIDE DEF k, q
<1>3. q % C = b % C
  <2>1. k \in Int /\ q + C * k \in Nat
    BY <1>1, <1>2
  <2>2. (q + C * k) % C = q % C
    BY <1>2, <2>1, SlotAfterLaps, Zenon
  <2>3. QED
    BY <1>2, <2>2
<1>4. q = b \/ q + C <= b
  <2>1. k = 0 => C * k = 0
    OBVIOUS
  <2>2. k >= 1 => C * k >= C
    BY <1>1
  <2>3. QED
    BY <1>1, <1>2, <2>1, <2>2
<1>5. QED
  BY <1>2, <1>3, <1>4

-----------------------------------------------------------------------------
\* A set of numbers that is not empty has a least one.
LEMMA LeastNumber ==
  ASSUME NEW S, S \subseteq Nat, S # {}
  PROVE  \E x \in S : \A y \in S : x <= y
<1> DEFINE R == OpToRel(<, Nat)
<1>1. IsWellFoundedOn(R, Nat)
  BY NatLessThanWellFounded, Zenon
<1>2. PICK x \in S : \A y \in S : ~(<<y, x>> \in R)
  BY <1>1, WFMin, Zenon
<1>3. \A a, b \in Nat : a < b => <<a, b>> \in R
  BY DEF OpToRel
<1> HIDE DEF R
<1>4. ASSUME NEW y \in S PROVE x <= y
  <2>1. x \in Nat /\ y \in Nat
    OBVIOUS
  <2>2. ~(y < x)
    BY <1>2, <1>3, <2>1, Zenon
  <2>3. QED
    BY <2>1, <2>2
<1>5. QED
  BY <1>4

\* What holds of 0 and passes from each number to the next holds of them all.
LEMMA UpTo ==
  ASSUME NEW N \in Nat, NEW T, 0 \in T, \A n \in 1..N : n - 1 \in T => n \in T
  PROVE  0..N \subseteq T
<1> DEFINE S == (0..N) \ T
<1>1. SUFFICES ASSUME S # {} PROVE FALSE
  OBVIOUS
<1>2. PICK x \in S : \A y \in S : x <= y
  <2>1. S \subseteq Nat
    OBVIOUS
  <2> HIDE DEF S
  <2>2. QED
    BY <1>1, <2>1, LeastNumber, Zenon
<1>3. x \in 1..N /\ x - 1 \in 0..N /\ x - 1 \notin S
  BY <1>2
<1>4. QED
  BY <1>2, <1>3

\* f starts with this value and takes these steps, N of them.
Steps(N, X) == [(1..N) \X X -> X]
Takes(f, N, X, first, step) ==
  /\ f \in [0..N -> X] /\ f[0] = first
  /\ \A n \in 1..N : f[n] = step[<<n, f[n - 1]>>]

\* A step function and a first value define the values up to N.
LEMMA Recursion ==
  ASSUME NEW N \in Nat, NEW X, NEW first \in X, NEW step \in Steps(N, X)
  PROVE  \E f : Takes(f, N, X, first, step)
<1> USE DEF Steps
<1> DEFINE Defines(f, k) ==
             f[0] = first /\ \A n \in 1..k : f[n] = step[<<n, f[n - 1]>>]
           T == {k \in 0..N : \E f \in [0..k -> X] : Defines(f, k)}
<1>1. 0 \in T
  <2> DEFINE f == [i \in 0..0 |-> first]
  <2>1. f \in [0..0 -> X] /\ Defines(f, 0)
    OBVIOUS
  <2> HIDE DEF f, Defines
  <2>2. QED
    BY <2>1
<1>2. ASSUME NEW n \in 1..N, n - 1 \in T PROVE n \in T
  <2>1. PICK f \in [0..(n - 1) -> X] : Defines(f, n - 1)
    BY <1>2
  <2> DEFINE g == [i \in 0..n |-> IF i = n THEN step[<<n, f[n - 1]>>] ELSE f[i]]
  <2>2. g \in [0..n -> X]
    BY <2>1
  <2>3. \A i \in 0..(n - 1) : g[i] = f[i]
    OBVIOUS
  <2>4. g[n] = step[<<n, f[n - 1]>>]
    OBVIOUS
  <2> HIDE DEF g
  <2>5. ASSUME NEW i \in 1..n PROVE g[i] = step[<<i, g[i - 1]>>]
    <3>1. CASE i = n
      <4>1. g[n - 1] = f[n - 1]
        BY <2>3
      <4>2. QED
        BY <3>1, <4>1, <2>4
    <3>2. CASE i # n
      <4>1. i \in 1..(n - 1) /\ i \in 0..(n - 1) /\ i - 1 \in 0..(n - 1)
        BY <3>2
      <4>2. f[i] = step[<<i, f[i - 1]>>]
        BY <2>1, <4>1
      <4>3. g[i] = f[i] /\ g[i - 1] = f[i - 1]
        BY <2>3, <4>1
      <4>4. QED
        BY <4>2, <4>3
    <3>3. QED
      BY <3>1, <3>2
  <2>6. g[0] = first
    BY <2>1, <2>3
  <2>7. Defines(g, n)
    BY <2>5, <2>6
  <2> HIDE DEF Defines
  <2>8. n \in 0..N
    OBVIOUS
  <2>9. QED
    BY <2>2, <2>7, <2>8
<1>3. N \in T
  <2> HIDE DEF T
  <2>1. 0..N \subseteq T
    BY <1>1, <1>2, UpTo
  <2>2. QED
    BY <2>1
<1>4. QED
  BY <1>3 DEF Takes
=============================================================================

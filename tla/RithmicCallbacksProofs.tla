----------------------- MODULE RithmicCallbacksProofs -----------------------
(***************************************************************************)
(* The order book of the gateway stays sorted, within its arrays and free  *)
(* of levels without a size, shows what the finished updates have quoted,  *)
(* and is what the last snapshot holds: for every number of levels, every  *)
(* set of prices and sizes, and every mixture of callbacks.                *)
(***************************************************************************)
EXTENDS RithmicCallbacks, RingLemmas, FiniteSetTheorems

Sorted(side, s) ==
  \A i, j \in DOMAIN s : s[i].qty > 0 /\ (i < j => Before(side, s[i].price, s[j].price))

\* What a side of the book may be.
Ordered(side) == {s \in Seq(Levels(side)) : Len(s) <= MaxLevels /\ Sorted(side, s)}

\* Prices and sizes are numbers.
LEMMA LevelNumbers ==
  ASSUME NEW side \in Sides, NEW level \in Levels(side)
  PROVE  level.price \in Nat /\ level.qty \in Nat
BY PricesAssumption, QuantitiesAssumption DEF Levels, Prices, Sides

\* The first loop of ApplyLevel finds the level with this price, if there is one.
LEMMA PositionFinds ==
  ASSUME NEW S, NEW s \in Seq(S), NEW price
  PROVE  LET pos == Position(s, price)
         IN \/ pos = 0 /\ \A i \in DOMAIN s : s[i].price # price
            \/ pos \in 1..Len(s) /\ s[pos].price = price
<1> DEFINE found == {i \in DOMAIN s : s[i].price = price}
<1>1. CASE found = {}
  BY <1>1 DEF Position
<1>2. CASE found # {}
  <2>1. found \subseteq Nat
    OBVIOUS
  <2> HIDE DEF found
  <2>2. \E i \in found : \A j \in found : i <= j
    BY <1>2, <2>1, LeastNumber, Zenon
  <2>3. Position(s, price) \in found
    BY <1>2, <2>2 DEF Position, found
  <2>4. QED
    BY <2>3 DEF found
<1>3. QED
  BY <1>1, <1>2

\* The insertion loop stops behind the levels that come before this price.
LEMMA InsertPositionFinds ==
  ASSUME NEW S, NEW s \in Seq(S), NEW side, NEW price
  PROVE  LET pos == InsertPosition(side, s, price)
         IN /\ pos \in 1..(Len(s) + 1)
            /\ \A i \in 1..(pos - 1) : Before(side, s[i].price, price)
            /\ pos <= Len(s) => ~Before(side, s[pos].price, price)
<1> DEFINE stops == {i \in DOMAIN s : ~Before(side, s[i].price, price)} \cup {Len(s) + 1}
           pos == InsertPosition(side, s, price)
<1>1. stops \subseteq 1..(Len(s) + 1) /\ Len(s) + 1 \in stops /\ Len(s) \in Nat
  OBVIOUS
<1>2. \E i \in stops : \A j \in stops : i <= j
  <2>1. stops \subseteq Nat /\ stops # {}
    BY <1>1
  <2> HIDE DEF stops
  <2>2. QED
    BY <2>1, LeastNumber, Zenon
<1>3. pos \in stops /\ \A j \in stops : pos <= j
  BY <1>2 DEF InsertPosition
<1>4. pos \in 1..(Len(s) + 1)
  BY <1>1, <1>3
<1>5. ASSUME NEW i \in 1..(pos - 1) PROVE Before(side, s[i].price, price)
  <2>1. i \in DOMAIN s /\ ~(pos <= i)
    BY <1>1, <1>4
  <2>2. QED
    BY <1>3, <2>1
<1>6. ASSUME pos <= Len(s) PROVE ~Before(side, s[pos].price, price)
  BY <1>1, <1>3, <1>6
<1>7. QED
  BY <1>4, <1>5, <1>6

\* A function on 1..n whose values are levels is a side, when it is sorted.
LEMMA OrderedWhen ==
  ASSUME NEW side \in Sides, NEW n \in Nat, n <= MaxLevels,
         NEW t \in [1..n -> Levels(side)],
         \A i \in 1..n : t[i].qty > 0,
         \A i, j \in 1..n : i < j => Before(side, t[i].price, t[j].price)
  PROVE  t \in Ordered(side)
<1>1. t \in Seq(Levels(side)) /\ Len(t) = n /\ DOMAIN t = 1..n
  OBVIOUS
<1>2. QED
  BY <1>1 DEF Ordered, Sorted

\* ApplyLevel keeps a side sorted, whether it updates, deletes, inserts or not.
LEMMA ApplyLevelOrdered ==
  ASSUME NEW side \in Sides, NEW s \in Ordered(side), NEW level \in Levels(side)
  PROVE  ApplyLevel(side, s, level) \in Ordered(side)
<1> DEFINE pos == Position(s, level.price)
           n == Len(s)
<1>1. /\ s \in Seq(Levels(side)) /\ s \in [1..n -> Levels(side)] /\ n \in Nat /\ n <= MaxLevels
      /\ \A i \in 1..n : s[i].qty > 0
      /\ \A i, j \in 1..n : i < j => Before(side, s[i].price, s[j].price)
  BY DEF Ordered, Sorted
<1>2. \/ pos = 0 /\ \A i \in 1..n : s[i].price # level.price
      \/ pos \in 1..n /\ s[pos].price = level.price
  BY <1>1, PositionFinds
<1>3. level.price \in Nat /\ level.qty \in Nat /\ \A i \in 1..n : s[i].price \in Nat
  BY <1>1, LevelNumbers
<1> HIDE DEF pos
<1>4. CASE pos > 0 /\ level.qty > 0
  <2> DEFINE t == [s EXCEPT ![pos] = level]
  <2>1. /\ pos \in 1..n /\ t \in [1..n -> Levels(side)] /\ t[pos] = level
        /\ \A i \in 1..n : t[i].price = s[i].price
        /\ \A i \in 1..n : i # pos => t[i] = s[i]
    BY <1>1, <1>2, <1>4
  <2> HIDE DEF t
  <2>2. \A i \in 1..n : t[i].qty > 0
    BY <1>1, <1>4, <2>1
  <2>3. \A i, j \in 1..n : i < j => Before(side, t[i].price, t[j].price)
    BY <1>1, <2>1
  <2>4. t \in Ordered(side)
    BY <1>1, <2>1, <2>2, <2>3, OrderedWhen, SMTT(20)
  <2>5. ApplyLevel(side, s, level) = t
    BY <1>4, SMTT(30) DEF ApplyLevel, pos, t
  <2>6. QED
    BY <2>4, <2>5
<1>5. CASE pos > 0 /\ level.qty = 0
  <2> DEFINE t == ShiftLeft(s, pos)
  <2>1. pos \in 1..n /\ n - 1 \in Nat /\ n - 1 <= MaxLevels
    BY <1>1, <1>2, <1>5, MaxLevelsAssumption, SMTT(30)
  <2>2. t \in [1..(n - 1) -> Levels(side)]
    BY <1>1, <2>1 DEF ShiftLeft
  <2>3. \A i \in 1..(n - 1) : t[i] = s[IF i < pos THEN i ELSE i + 1]
    BY <2>1 DEF ShiftLeft
  <2> HIDE DEF t
  <2>4. \A i \in 1..(n - 1) : t[i].qty > 0
    BY <1>1, <2>1, <2>3, SMTT(30)
  <2>5. ASSUME NEW i \in 1..(n - 1), NEW j \in 1..(n - 1), i < j
        PROVE  Before(side, t[i].price, t[j].price)
    <3> DEFINE k == IF i < pos THEN i ELSE i + 1
               l == IF j < pos THEN j ELSE j + 1
    <3>1. k \in 1..n /\ l \in 1..n /\ k < l
      BY <1>1, <2>1, <2>5, SMTT(30)
    <3>2. t[i] = s[k] /\ t[j] = s[l]
      BY <2>3
    <3> HIDE DEF k, l
    <3>3. QED
      BY <1>1, <3>1, <3>2, SMTT(30)
  <2>6. t \in Ordered(side)
    BY <2>1, <2>2, <2>4, <2>5, OrderedWhen, SMTT(20)
  <2>7. ApplyLevel(side, s, level) = t
    BY <1>5, SMTT(30) DEF ApplyLevel, pos, t
  <2>8. QED
    BY <2>6, <2>7
<1>6. CASE pos = 0 /\ level.qty > 0 /\ Len(s) < MaxLevels
  <2> DEFINE at == InsertPosition(side, s, level.price)
             t == ShiftRight(s, at, level)
  <2>1. /\ at \in 1..(n + 1)
        /\ \A i \in 1..(at - 1) : Before(side, s[i].price, level.price)
        /\ at <= n => ~Before(side, s[at].price, level.price)
    BY <1>1, InsertPositionFinds
  <2> HIDE DEF at
  <2>2. n + 1 \in Nat /\ n + 1 <= MaxLevels
    BY <1>1, <1>6, MaxLevelsAssumption, SMTT(30)
  <2>3. t \in [1..(n + 1) -> Levels(side)]
    BY <1>1, <2>1 DEF ShiftRight
  <2>4. \A i \in 1..(n + 1) : t[i] = IF i < at THEN s[i] ELSE IF i = at THEN level ELSE s[i - 1]
    BY DEF ShiftRight
  <2> HIDE DEF t
  <2>5. \A i \in 1..(n + 1) : t[i].qty > 0
    BY <1>1, <1>6, <2>1, <2>4, SMTT(20)
  <2>6. \A i \in at..n : Before(side, level.price, s[i].price)
    <3> SUFFICES ASSUME NEW i \in at..n PROVE Before(side, level.price, s[i].price)
      OBVIOUS
    <3>1. i \in 1..n /\ at \in 1..n /\ at <= n
      BY <1>1, <2>1
    <3>2. s[at].price # level.price /\ s[at].price \in Nat /\ s[i].price \in Nat
      BY <1>2, <1>3, <1>6, <3>1, SMTT(20)
    <3>3. Before(side, level.price, s[at].price)
      BY <1>3, <2>1, <3>1, <3>2, SMTT(20) DEF Before
    <3>4. i = at \/ Before(side, s[at].price, s[i].price)
      BY <1>1, <3>1
    <3>5. QED
      BY <1>3, <3>2, <3>3, <3>4, SMTT(20) DEF Before
  <2>7. ASSUME NEW i \in 1..(n + 1), NEW j \in 1..(n + 1), i < j
        PROVE  Before(side, t[i].price, t[j].price)
    <3>1. CASE j < at
      <4>1. i \in 1..n /\ j \in 1..n /\ t[i] = s[i] /\ t[j] = s[j]
        BY <1>1, <2>1, <2>4, <2>7, <3>1, SMTT(20)
      <4>2. QED
        BY <1>1, <2>7, <4>1, SMTT(20)
    <3>2. CASE j = at
      <4>1. i \in 1..(at - 1) /\ t[i] = s[i] /\ t[j] = level
        BY <1>1, <2>1, <2>4, <2>7, <3>2, SMTT(20)
      <4>2. QED
        BY <2>1, <4>1
    <3>3. CASE j > at /\ i = at
      <4>1. j - 1 \in at..n /\ t[i] = level /\ t[j] = s[j - 1]
        BY <1>1, <2>1, <2>4, <2>7, <3>3, SMTT(20)
      <4>2. QED
        BY <2>6, <4>1
    <3>4. CASE j > at /\ i # at
      <4> DEFINE k == IF i < at THEN i ELSE i - 1
      <4>1. k \in 1..n /\ j - 1 \in 1..n /\ k < j - 1 /\ t[i] = s[k] /\ t[j] = s[j - 1]
        BY <1>1, <2>1, <2>4, <2>7, <3>4, SMTT(20)
      <4> HIDE DEF k
      <4>2. QED
        BY <1>1, <4>1
    <3>5. QED
      BY <2>1, <3>1, <3>2, <3>3, <3>4, SMTT(20)
  <2>8. t \in Ordered(side)
    BY <2>2, <2>3, <2>5, <2>7, OrderedWhen, SMTT(20)
  <2>9. ApplyLevel(side, s, level) = t
    BY <1>6 DEF ApplyLevel, pos, t, at
  <2>10. QED
    BY <2>8, <2>9
<1>7. CASE pos = 0 /\ ~(level.qty > 0 /\ Len(s) < MaxLevels)
  BY <1>7 DEF ApplyLevel, pos
<1>8. QED
  BY <1>2, <1>3, <1>4, <1>5, <1>6, <1>7, SMTT(20)

\* The levels of a batch or of an update, applied one after the other.
LEMMA ApplyLevelsSteps ==
  ASSUME NEW side \in Sides, NEW s \in Ordered(side), NEW updates \in Seq(Levels(side))
  PROVE  \E f \in [0..Len(updates) -> Ordered(side)] :
           /\ f[0] = s /\ ApplyLevels(side, s, updates) = f[Len(updates)]
           /\ \A n \in 1..Len(updates) : f[n] = ApplyLevel(side, f[n - 1], updates[n])
<1> DEFINE N == Len(updates)
           after[n \in 0..N] == IF n = 0 THEN s ELSE ApplyLevel(side, after[n - 1], updates[n])
           Follows(f) == f = [n \in 0..N |-> IF n = 0 THEN s ELSE ApplyLevel(side, f[n - 1], updates[n])]
           step == [p \in (1..N) \X Ordered(side) |-> ApplyLevel(side, p[2], updates[p[1]])]
<1>1. N \in Nat /\ \A n \in 1..N : updates[n] \in Levels(side)
  OBVIOUS
<1>2. step \in [(1..N) \X Ordered(side) -> Ordered(side)]
  BY <1>1, ApplyLevelOrdered
<1>3. \A n \in 1..N, x \in Ordered(side) : step[<<n, x>>] = ApplyLevel(side, x, updates[n])
  OBVIOUS
<1>a. ApplyLevels(side, s, updates) = after[N]
  BY DEF ApplyLevels
<1> HIDE DEF N, step
<1>4. PICK f \in [0..N -> Ordered(side)] : f[0] = s /\ \A n \in 1..N : f[n] = step[<<n, f[n - 1]>>]
  <2> DEFINE X == Ordered(side)
  <2>1. step \in Steps(N, X) /\ s \in X
    BY <1>2 DEF Steps
  <2> HIDE DEF X
  <2>2. \E f : Takes(f, N, X, s, step)
    BY <1>1, <2>1, Recursion
  <2>3. QED
    BY <2>2, Zenon DEF X, Takes
<1>5. Follows(f)
  <2>1. ASSUME NEW n \in 0..N, n # 0 PROVE f[n] = ApplyLevel(side, f[n - 1], updates[n])
    BY <1>1, <1>3, <1>4, <2>1, SMTT(20)
  <2>2. QED
    BY <1>4, <2>1
<1>6. Follows(after)
  BY <1>5, Zenon
<1> HIDE DEF after
<1>7. after[0] = s /\ \A n \in 1..N : after[n] = ApplyLevel(side, after[n - 1], updates[n])
  BY <1>1, <1>6
<1> DEFINE T == {n \in 0..N : after[n] \in Ordered(side)}
<1>8. 0 \in T /\ \A n \in 1..N : n - 1 \in T => n \in T
  BY <1>1, <1>7, ApplyLevelOrdered, SMTT(20)
<1> HIDE DEF T
<1>9. 0..N \subseteq T
  BY <1>1, <1>8, UpTo, Zenon
<1>10. \A n \in 0..N : after[n] \in Ordered(side)
  BY <1>9, Zenon DEF T
<1>11. after \in [0..N -> Ordered(side)]
  BY <1>6, <1>10, Zenon
<1> QED
  BY <1>7, <1>11, <1>a, Zenon DEF N

\* They keep a side sorted too.
LEMMA ApplyLevelsOrdered ==
  ASSUME NEW side \in Sides, NEW s \in Ordered(side), NEW updates \in Seq(Levels(side))
  PROVE  ApplyLevels(side, s, updates) \in Ordered(side)
<1>1. PICK f \in [0..Len(updates) -> Ordered(side)] : ApplyLevels(side, s, updates) = f[Len(updates)]
  BY ApplyLevelsSteps, ZenonT(30)
<1>2. Len(updates) \in 0..Len(updates)
  OBVIOUS
<1> QED
  BY <1>1, <1>2, Zenon

\* What one level of an image adds to a side.
TakenFrom(image, n, x) == IF image[n].qty > 0 /\ Len(x) < MaxLevels THEN Append(x, image[n]) ELSE x

\* The levels of an image, taken one after the other.
LEMMA ApplyImageSteps ==
  ASSUME NEW side \in Sides, NEW image \in Seq(Levels(side))
  PROVE  \E f \in [0..Len(image) -> Seq(Levels(side))] :
           /\ f[0] = << >> /\ ApplyImage(image) = f[Len(image)]
           /\ \A n \in 1..Len(image) : f[n] = TakenFrom(image, n, f[n - 1])
<1> DEFINE N == Len(image)
           X == Seq(Levels(side))
           Taken(n, x) == TakenFrom(image, n, x)
           after[n \in 0..N] ==
             IF n = 0 THEN << >>
             ELSE IF image[n].qty > 0 /\ Len(after[n - 1]) < MaxLevels
                  THEN Append(after[n - 1], image[n])
                  ELSE after[n - 1]
           Follows(f) == f = [n \in 0..N |-> IF n = 0 THEN << >> ELSE Taken(n, f[n - 1])]
           step == [p \in (1..N) \X X |-> Taken(p[1], p[2])]
<1>1. N \in Nat /\ \A n \in 1..N : image[n] \in Levels(side)
  OBVIOUS
<1>2. \A n \in 1..N, x \in X : Taken(n, x) \in X
  BY <1>1 DEF TakenFrom
<1>3. Follows(after) <=> after = [n \in 0..N |->
             IF n = 0 THEN << >>
             ELSE IF image[n].qty > 0 /\ Len(after[n - 1]) < MaxLevels
                  THEN Append(after[n - 1], image[n])
                  ELSE after[n - 1]]
  BY SMTT(20) DEF TakenFrom
<1>4. (\E f : Follows(f)) => Follows(after)
  BY Zenon DEF TakenFrom
<1>a. ApplyImage(image) = after[N]
  BY Zenon DEF ApplyImage
<1> HIDE DEF Taken, X, N
<1>5. /\ step \in [(1..N) \X X -> X]
      /\ \A n \in 1..N, x \in X : step[<<n, x>>] = Taken(n, x)
  BY <1>2
<1> HIDE DEF step
<1>6. PICK f \in [0..N -> X] : f[0] = << >> /\ \A n \in 1..N : f[n] = step[<<n, f[n - 1]>>]
  <2>1. << >> \in X
    BY DEF X
  <2>2. step \in Steps(N, X)
    BY <1>5 DEF Steps
  <2>3. \E f : Takes(f, N, X, << >>, step)
    BY <1>1, <2>1, <2>2, Recursion
  <2>4. QED
    BY <2>3, Zenon DEF Takes
<1>7. Follows(f)
  <2>1. ASSUME NEW n \in 0..N, n # 0 PROVE f[n] = Taken(n, f[n - 1])
    <3>1. n \in 1..N /\ n - 1 \in 0..N
      BY <1>1, <2>1
    <3>2. f[n - 1] \in X
      BY <1>6, <3>1
    <3>3. QED
      BY <1>5, <1>6, <3>1, <3>2, ZenonT(30)
  <2>2. QED
    BY <1>6, <2>1
<1>8. Follows(after)
  BY <1>4, <1>7, Zenon
<1> HIDE DEF after
<1>9. after[0] = << >> /\ \A n \in 1..N : after[n] = Taken(n, after[n - 1])
  BY <1>1, <1>8
<1>10. after \in [0..N -> X]
  <2> DEFINE T == {n \in 0..N : after[n] \in X}
  <2>1. 0 \in T
    <3>1. << >> \in X /\ 0 \in 0..N
      BY <1>1 DEF X
    <3>2. QED
      BY <1>9, <3>1, Zenon
  <2>2. ASSUME NEW n \in 1..N, n - 1 \in T PROVE n \in T
    <3>1. n \in 0..N
      BY <1>1
    <3>2. QED
      BY <1>2, <1>9, <2>2, <3>1, Zenon
  <2> HIDE DEF T
  <2>3. 0..N \subseteq T
    BY <1>1, <2>1, <2>2, UpTo, Zenon
  <2>4. \A n \in 0..N : after[n] \in X
    BY <2>3, Zenon DEF T
  <2>5. QED
    BY <1>8, <2>4, Zenon
<1>11. QED
  BY <1>9, <1>10, <1>a, Zenon DEF N, X, Taken

\* An array that comes sorted, best price first, makes a sorted side.
LEMMA ApplyImageOrdered ==
  ASSUME NEW side \in Sides, NEW image \in Seq(Levels(side)),
         \A i, j \in DOMAIN image : i < j => Before(side, image[i].price, image[j].price)
  PROVE  ApplyImage(image) \in Ordered(side)
<1> DEFINE N == Len(image)
           Taken(n, x) == TakenFrom(image, n, x)
<1>1. N \in Nat /\ \A n \in 1..N : image[n] \in Levels(side)
  OBVIOUS
<1>2. PICK after \in [0..N -> Seq(Levels(side))] :
        /\ after[0] = << >> /\ ApplyImage(image) = after[N]
        /\ \A n \in 1..N : after[n] = Taken(n, after[n - 1])
  BY ApplyImageSteps, Zenon
<1>9. after[0] = << >> /\ \A n \in 1..N : after[n] = Taken(n, after[n - 1])
  BY <1>2, Zenon
<1> HIDE DEF Taken, N
<1> DEFINE Ahead(n) == \A i \in DOMAIN after[n], k \in (n + 1)..N :
                         Before(side, after[n][i].price, image[k].price)
           T == {n \in 0..N : after[n] \in Ordered(side) /\ Ahead(n)}
<1>10. 0 \in T
  <2>1. << >> \in Ordered(side)
    BY MaxLevelsAssumption DEF Ordered, Sorted
  <2>2. QED
    BY <1>1, <1>9, <2>1
<1>11. ASSUME NEW n \in 1..N, n - 1 \in T PROVE n \in T
  <2> DEFINE x == after[n - 1]
             y == after[n]
             m == Len(x)
  <2>1. /\ x \in Seq(Levels(side)) /\ m \in Nat /\ m <= MaxLevels /\ Sorted(side, x)
        /\ \A i \in 1..m, k \in n..N : Before(side, x[i].price, image[k].price)
    BY <1>1, <1>11 DEF Ordered
  <2>2. n \in 1..N /\ n \in n..N /\ \A k \in (n + 1)..N : k \in n..N /\ n < k /\ k \in 1..N
    BY <1>1
  <2>3. y = Taken(n, x)
    BY <1>9
  <2> HIDE DEF x, y
  <2>4. CASE image[n].qty > 0 /\ m < MaxLevels
    <3>1. y = Append(x, image[n])
      BY <2>3, <2>4 DEF Taken, TakenFrom
    <3>2. /\ y \in [1..(m + 1) -> Levels(side)] /\ y[m + 1] = image[n]
          /\ \A i \in 1..m : y[i] = x[i]
          /\ m + 1 \in Nat /\ m + 1 <= MaxLevels
          /\ DOMAIN y = 1..(m + 1)
      <4>1. image[n] \in Levels(side)
        BY <1>1
      <4>2. m + 1 \in Nat /\ m + 1 <= MaxLevels
        BY <2>1, <2>4, MaxLevelsAssumption, SMTT(20)
      <4>3. y \in Seq(Levels(side)) /\ Len(y) = m + 1 /\ \A i \in 1..m : y[i] = x[i]
        BY <2>1, <3>1, <4>1, SMTT(20)
      <4>4. y[m + 1] = image[n]
        BY <2>1, <3>1, <4>1, SMTT(20)
      <4>5. QED
        BY <4>2, <4>3, <4>4, SMTT(20)
    <3>3. \A i \in 1..(m + 1) : i \in 1..m \/ i = m + 1
      BY <2>1
    <3>4. \A i \in 1..(m + 1) : y[i].qty > 0
      BY <2>1, <2>4, <3>2, <3>3, SMTT(20) DEF Sorted
    <3>5. ASSUME NEW i \in 1..(m + 1), NEW j \in 1..(m + 1), i < j
          PROVE  Before(side, y[i].price, y[j].price)
      <4>1. i \in 1..m /\ y[i] = x[i]
        BY <2>1, <3>2, <3>5, SMTT(20)
      <4>2. CASE j \in 1..m
        BY <2>1, <3>2, <3>5, <4>1, <4>2, SMTT(20) DEF Sorted
      <4>3. CASE j = m + 1
        BY <2>1, <2>2, <3>2, <4>1, <4>3, SMTT(20)
      <4>4. QED
        BY <3>3, <4>2, <4>3
    <3>6. y \in Ordered(side)
      BY <3>2, <3>4, <3>5, OrderedWhen, Zenon
    <3>7. ASSUME NEW i \in 1..(m + 1), NEW k \in (n + 1)..N
          PROVE  Before(side, y[i].price, image[k].price)
      <4>1. CASE i \in 1..m
        BY <2>1, <2>2, <3>2, <4>1, SMTT(20)
      <4>2. CASE i = m + 1
        <5>1. n \in DOMAIN image /\ k \in DOMAIN image /\ n < k
          BY <2>2 DEF N
        <5>2. QED
          BY <3>2, <4>2, <5>1, SMTT(20)
      <4>3. QED
        BY <3>3, <4>1, <4>2
    <3>8. QED
      <4>1. n \in 0..N
        BY <1>1
      <4>2. Ahead(n)
        BY <3>2, <3>7 DEF y
      <4>3. QED
        BY <3>6, <4>1, <4>2, SMTT(30) DEF y
  <2>5. CASE ~(image[n].qty > 0 /\ m < MaxLevels)
    <3>1. y = x
      BY <2>3, <2>5 DEF Taken, TakenFrom
    <3>2. y \in Ordered(side) /\ \A i \in DOMAIN y, k \in (n + 1)..N : Before(side, y[i].price, image[k].price)
      BY <2>1, <2>2, <3>1, SMTT(20) DEF Ordered
    <3>3. QED
      BY <2>2, <3>2 DEF y
  <2>6. QED
    BY <2>4, <2>5
<1> HIDE DEF T
<1>12. 0..N \subseteq T
  BY <1>1, <1>10, <1>11, UpTo, Zenon
<1>13. after[N] \in Ordered(side)
  BY <1>1, <1>12 DEF T
<1>14. QED
  BY <1>2, <1>13, Zenon

-----------------------------------------------------------------------------
\* The shape of a book between and during its updates.
AnyLevel == UNION {Levels(s) : s \in Sides}
Book == [levels : [Sides -> Seq(AnyLevel)], pending : [Sides -> Seq(AnyLevel)], active : BOOLEAN]
Pending(side) == {s \in Seq(Levels(side)) : Len(s) <= MaxLevels}
Sound(b) ==
  b \in Book /\ \A s \in Sides : b.levels[s] \in Ordered(s) /\ b.pending[s] \in Pending(s)
BookInv == Sound(book) /\ (~book.active => \A s \in Sides : book.pending[s] = << >>)

\* A side's levels are levels.
LEMMA Widen ==
  ASSUME NEW side \in Sides
  PROVE  /\ Ordered(side) \subseteq Seq(AnyLevel)
         /\ Pending(side) \subseteq Seq(AnyLevel)
         /\ << >> \in Ordered(side) /\ << >> \in Pending(side)
<1>1. Levels(side) \subseteq AnyLevel
  BY DEF AnyLevel
<1>2. ASSUME NEW q \in Seq(Levels(side)) PROVE q \in Seq(AnyLevel)
  BY <1>1
<1>3. << >> \in Ordered(side) /\ << >> \in Pending(side)
  BY MaxLevelsAssumption DEF Ordered, Pending, Sorted
<1>4. QED
  BY <1>2, <1>3 DEF Ordered, Pending

\* New sides for a book, made of the levels it may have.
LEMMA WithSides ==
  ASSUME NEW l, NEW p, NEW a \in BOOLEAN,
         \A s \in Sides : l[s] \in Ordered(s) /\ p[s] \in Pending(s),
         l = [s \in Sides |-> l[s]], p = [s \in Sides |-> p[s]]
  PROVE  Sound([levels |-> l, pending |-> p, active |-> a])
<1>1. \A s \in Sides : l[s] \in Seq(AnyLevel) /\ p[s] \in Seq(AnyLevel)
  BY Widen
<1>2. l \in [Sides -> Seq(AnyLevel)] /\ p \in [Sides -> Seq(AnyLevel)]
  BY <1>1
<1>3. QED
  BY <1>2 DEF Sound, Book

\* The book that Init and CLEAR leave.
LEMMA EmptyBookSound ==
  Sound(EmptyBook) /\ \A s \in Sides : EmptyBook.pending[s] = << >>
<1> DEFINE none == [s \in Sides |-> << >>]
<1>1. /\ none = [s \in Sides |-> none[s]]
      /\ \A s \in Sides : none[s] \in Ordered(s) /\ none[s] \in Pending(s) /\ none[s] = << >>
  BY Widen
<1>2. EmptyBook = [levels |-> none, pending |-> none, active |-> FALSE]
  BY DEF EmptyBook
<1> HIDE DEF none
<1>3. Sound([levels |-> none, pending |-> none, active |-> FALSE])
  BY <1>1, WithSides, Zenon
<1>4. QED
  BY <1>1, <1>2, <1>3, SMTT(20)

\* The parts of a book, for WithSides.
LEMMA Parts ==
  ASSUME NEW b, Sound(b)
  PROVE  /\ b = [levels |-> b.levels, pending |-> b.pending, active |-> b.active]
         /\ b.active \in BOOLEAN
         /\ b.levels = [s \in Sides |-> b.levels[s]] /\ b.pending = [s \in Sides |-> b.pending[s]]
         /\ \A s \in Sides : b.levels[s] \in Ordered(s) /\ b.pending[s] \in Pending(s)
BY DEF Sound, Book

\* New levels for a book.
LEMMA NewLevels ==
  ASSUME NEW b, Sound(b), NEW l, l = [s \in Sides |-> l[s]], \A s \in Sides : l[s] \in Ordered(s)
  PROVE  Sound(WithLevels(b, l))
BY Parts, WithSides, Zenon DEF WithLevels

\* An empty batch for a book, begun or cancelled.
LEMMA EmptyBatch ==
  ASSUME NEW b, Sound(b)
  PROVE  /\ Sound(BeginBatch(b)) /\ BeginBatch(b).active
         /\ Sound(CancelBatch(b))
<1> DEFINE none == [s \in Sides |-> << >>]
<1>1. BeginBatch(b) = [levels |-> b.levels, pending |-> none, active |-> TRUE]
  BY DEF BeginBatch
<1>2. CancelBatch(b) = [levels |-> b.levels, pending |-> none, active |-> FALSE]
  BY DEF CancelBatch
<1>3. none = [s \in Sides |-> none[s]] /\ \A s \in Sides : none[s] \in Pending(s)
  BY Widen
<1> HIDE DEF none
<1>4. /\ Sound([levels |-> b.levels, pending |-> none, active |-> TRUE])
      /\ Sound([levels |-> b.levels, pending |-> none, active |-> FALSE])
  BY <1>3, Parts, WithSides, Zenon
<1>5. BeginBatch(b).active
  BY <1>1
<1>6. QED
  BY <1>1, <1>2, <1>4, <1>5

\* A level is buffered, or turned away.
LEMMA BufferedSound ==
  ASSUME NEW b, Sound(b), NEW side \in Sides, NEW level \in Levels(side) \cup {NoLevel}
  PROVE  Sound(Buffered(b, side, level)) /\ Buffered(b, side, level).active = b.active
<1>1. CASE level = NoLevel \/ Len(b.pending[side]) >= MaxLevels
  BY <1>1 DEF Buffered, BufferLevel
<1>2. CASE level # NoLevel /\ ~(Len(b.pending[side]) >= MaxLevels)
  <2> DEFINE q == Append(b.pending[side], level)
             p == [b.pending EXCEPT ![side] = q]
             c == [levels |-> b.levels, pending |-> p, active |-> b.active]
  <2>1. level \in Levels(side) /\ b.pending[side] \in Seq(Levels(side))
    BY <1>2, Parts, Zenon DEF Pending
  <2>2. q \in Seq(Levels(side)) /\ Len(q) = Len(b.pending[side]) + 1 /\ Len(b.pending[side]) \in Nat
    BY <2>1
  <2>3. q \in Pending(side)
    BY <1>2, <2>2, MaxLevelsAssumption DEF Pending
  <2> HIDE DEF q
  <2>4. p = [s \in Sides |-> IF s = side THEN q ELSE b.pending[s]]
    BY Parts, Zenon
  <2>5. p = [s \in Sides |-> p[s]] /\ \A s \in Sides : p[s] \in Pending(s)
    BY <2>3, <2>4, Parts, Zenon
  <2>6. Buffered(b, side, level) = c
    <3>1. Buffered(b, side, level) = [b EXCEPT !.pending[side] = q]
      BY <1>2 DEF Buffered, BufferLevel, q
    <3>2. QED
      BY <3>1, Parts, Zenon
  <2> HIDE DEF p
  <2>7. Sound(c)
    BY <2>5, Parts, WithSides, Zenon
  <2>8. QED
    BY <2>6, <2>7
<1>3. QED
  BY <1>1, <1>2

\* A commit applies what is pending and leaves nothing behind.
LEMMA CommitSound ==
  ASSUME NEW b, Sound(b)
  PROVE  Sound(CommitBatch(b)) /\ \A s \in Sides : CommitBatch(b).pending[s] = << >>
<1> DEFINE l == [s \in Sides |-> ApplyLevels(s, b.levels[s], b.pending[s])]
           none == [s \in Sides |-> << >>]
<1>1. \A s \in Sides : b.levels[s] \in Ordered(s) /\ b.pending[s] \in Seq(Levels(s))
  BY Parts, Zenon DEF Pending
<1>2. l = [s \in Sides |-> l[s]] /\ \A s \in Sides : l[s] \in Ordered(s)
  BY <1>1, ApplyLevelsOrdered
<1>3. none = [s \in Sides |-> none[s]] /\ \A s \in Sides : none[s] \in Pending(s)
  BY Widen
<1>4. CommitBatch(b) = [levels |-> l, pending |-> none, active |-> FALSE]
  BY DEF CommitBatch
<1> HIDE DEF l
<1>5. Sound([levels |-> l, pending |-> none, active |-> FALSE])
  <2> HIDE DEF none
  <2>1. QED
    BY <1>2, <1>3, WithSides, Zenon
<1>6. QED
  BY <1>4, <1>5

\* One level, applied at once.
LEMMA AppliedSound ==
  ASSUME NEW b, Sound(b), NEW side \in Sides, NEW level \in Levels(side)
  PROVE  /\ Sound(Applied(b, side, level))
         /\ Applied(b, side, level).pending = b.pending
         /\ Applied(b, side, level).active = b.active
<1> DEFINE q == ApplyLevel(side, b.levels[side], level)
           l == [b.levels EXCEPT ![side] = q]
           c == [levels |-> l, pending |-> b.pending, active |-> b.active]
<1>1. q \in Ordered(side)
  BY Parts, ApplyLevelOrdered, Zenon
<1>2. Applied(b, side, level) = [b EXCEPT !.levels[side] = q]
  BY DEF Applied
<1> HIDE DEF q
<1>3. l = [s \in Sides |-> IF s = side THEN q ELSE b.levels[s]]
  BY Parts, Zenon
<1>4. l = [s \in Sides |-> l[s]] /\ \A s \in Sides : l[s] \in Ordered(s)
  BY <1>1, <1>3, Parts, Zenon
<1>5. Applied(b, side, level) = c
  BY <1>2, Parts, Zenon
<1> HIDE DEF l
<1>6. Sound(c)
  BY <1>4, Parts, WithSides, Zenon
<1>7. QED
  BY <1>5, <1>6

\* What the arrays of LimitOrderBook are.
LEMMA ArraysSorted ==
  ASSUME NEW side \in Sides, NEW array \in Arrays[side], NEW s \in Sides
  PROVE  /\ Only(side, array)[s] \in Seq(Levels(s))
         /\ \A i, j \in DOMAIN Only(side, array)[s] : i < j =>
              Before(s, Only(side, array)[s][i].price, Only(side, array)[s][j].price)
<1>1. Cardinality(Prices(side)) \in Nat
  BY PricesAssumption, FS_CardinalityType DEF Prices
<1>2. /\ array \in UNION {[1..n -> Levels(side)] : n \in 0..Cardinality(Prices(side))}
      /\ \A i, j \in DOMAIN array : i < j => Before(side, array[i].price, array[j].price)
  BY DEF Arrays
<1>3. array \in Seq(Levels(side))
  <2>1. PICK m \in 0..Cardinality(Prices(side)) : array \in [1..m -> Levels(side)]
    BY <1>2, Zenon
  <2>2. m \in Nat
    BY <1>1, <2>1, SMTT(30)
  <2>3. QED
    BY <2>1, <2>2, SMTT(30)
<1>4. CASE s = side
  BY <1>2, <1>3, <1>4, SMTT(20) DEF Only
<1>5. CASE s # side
  BY <1>5 DEF Only
<1>6. QED
  BY <1>4, <1>5

\* Every callback keeps the book sound.
LEMMA CallbackKeepsBook ==
  BookInv /\ [Next]_vars => BookInv'
<1> SUFFICES ASSUME BookInv, [Next]_vars PROVE BookInv'
  OBVIOUS
<1>0. Sound(book) /\ (~book.active => \A s \in Sides : book.pending[s] = << >>)
  BY DEF BookInv
<1>1. CASE EndQuote
  BY <1>0, <1>1, CommitSound, SMTT(20) DEF EndQuote, BookInv
<1>2. ASSUME NEW side \in Sides, ClearQuote PROVE BookInv'
  BY <1>2, EmptyBookSound DEF ClearQuote, Clear, BookInv
<1>3. ASSUME NEW side \in Sides, NEW level \in Levels(side) \cup {NoLevel}, SoloQuote(side, level)
      PROVE  BookInv'
  <2>1. CASE level = NoLevel
    BY <1>0, <1>3, <2>1, SMTT(20) DEF SoloQuote, BookInv
  <2>2. CASE level # NoLevel
    <3>1. level \in Levels(side) /\ book' = Applied(book, side, level)
      BY <1>3, <2>2, SMTT(30) DEF SoloQuote
    <3>2. QED
      BY <1>0, <3>1, AppliedSound, SMTT(30) DEF BookInv
  <2>3. QED
    BY <2>1, <2>2, SMTT(30)
<1>4. ASSUME NEW side \in Sides, NEW level \in Levels(side) \cup {NoLevel}, BeginQuote(side, level)
      PROVE  BookInv'
  <2> DEFINE c == IF book.active THEN CancelBatch(book) ELSE book
  <2>1. Sound(c)
    BY <1>0, EmptyBatch
  <2>2. book' = Buffered(BeginBatch(c), side, level)
    BY <1>4 DEF BeginQuote
  <2> HIDE DEF c
  <2>3. QED
    BY <2>1, <2>2, EmptyBatch, BufferedSound, SMTT(20) DEF BookInv
<1>5. ASSUME NEW side \in Sides, NEW level \in Levels(side) \cup {NoLevel}, MiddleQuote(side, level)
      PROVE  BookInv'
  <2> DEFINE c == IF book.active THEN book ELSE BeginBatch(book)
  <2>1. Sound(c) /\ c.active
    BY <1>0, EmptyBatch
  <2>2. book' = Buffered(c, side, level)
    BY <1>5 DEF MiddleQuote
  <2> HIDE DEF c
  <2>3. QED
    BY <2>1, <2>2, BufferedSound, SMTT(20) DEF BookInv
<1>6. ASSUME NEW side \in Sides, NEW level \in Levels(side) \cup {NoLevel}, EndOfBatch(side, level)
      PROVE  BookInv'
  BY <1>0, <1>6, BufferedSound, CommitSound, SMTT(20) DEF EndOfBatch, BookInv
<1>7. ASSUME NEW side \in Sides, NEW array \in Arrays[side], LimitOrderBookImage(Only(side, array))
      PROVE  BookInv'
  <2> DEFINE l == [s \in Sides |-> ApplyImage(Only(side, array)[s])]
  <2>1. \A s \in Sides : ApplyImage(Only(side, array)[s]) \in Ordered(s)
    BY ArraysSorted, ApplyImageOrdered, SMTT(30)
  <2>2. l = [s \in Sides |-> l[s]] /\ \A s \in Sides : l[s] \in Ordered(s)
    BY <2>1
  <2>3. book' = WithLevels(book, l)
    BY <1>7 DEF LimitOrderBookImage
  <2> HIDE DEF l
  <2>4. Sound(book')
    BY <1>0, <2>2, <2>3, NewLevels, SMTT(30)
  <2>5. book'.pending = book.pending /\ book'.active = book.active
    BY <2>3, SMTT(30) DEF WithLevels
  <2>6. QED
    BY <1>0, <2>4, <2>5, SMTT(20) DEF BookInv
<1>8. ASSUME NEW side \in Sides, NEW array \in Arrays[side], LimitOrderBookUpdate(Only(side, array))
      PROVE  BookInv'
  <2> DEFINE u == Only(side, array)
             n(s) == IF Len(u[s]) < MaxLevels THEN Len(u[s]) ELSE MaxLevels
             l == [s \in Sides |-> ApplyLevels(s, book.levels[s], SubSeq(u[s], 1, n(s)))]
  <2>1. ASSUME NEW s \in Sides PROVE SubSeq(u[s], 1, n(s)) \in Seq(Levels(s))
    <3>1. u[s] \in Seq(Levels(s))
      BY ArraysSorted
    <3> HIDE DEF u
    <3>2. n(s) \in Nat /\ n(s) <= Len(u[s])
      BY <3>1, MaxLevelsAssumption
    <3> HIDE DEF n
    <3>3. QED
      BY <3>1, <3>2
  <2>2. \A s \in Sides : book.levels[s] \in Ordered(s)
    BY <1>0 DEF Sound
  <2>3. book' = WithLevels(book, l)
    BY <1>8 DEF LimitOrderBookUpdate
  <2> HIDE DEF u, n
  <2>4. l = [s \in Sides |-> l[s]] /\ \A s \in Sides : l[s] \in Ordered(s)
    BY <2>1, <2>2, ApplyLevelsOrdered, Zenon
  <2> HIDE DEF l
  <2>5. Sound(book')
    BY <1>0, <2>3, <2>4, NewLevels
  <2>6. book'.pending = book.pending /\ book'.active = book.active
    BY <2>3 DEF WithLevels
  <2>7. QED
    BY <1>0, <2>5, <2>6 DEF BookInv
<1>9. CASE UNCHANGED vars
  BY <1>0, <1>9, SMTT(30) DEF vars, BookInv
<1>10. ASSUME NEW side \in Sides, LimitOrderBook(side) PROVE BookInv'
  BY <1>7, <1>8, <1>10, SMTT(20) DEF LimitOrderBook
<1>11. ASSUME NEW side \in Sides, Quote(side) PROVE BookInv'
  BY <1>2, <1>3, <1>4, <1>5, <1>6, <1>11, SMTT(20) DEF Quote
<1>12. QED
  BY <1>1, <1>9, <1>10, <1>11, SMTT(20) DEF Next

\* A sound book has sorted sides.
LEMMA BookIsSorted ==
  BookInv => SidesSorted
BY DEF BookInv, Sound, Book, Ordered, Pending, Sorted, SidesSorted, TypeOK

\* Whatever mixture of callbacks the R|API delivers, on a book of any depth and
\* with any prices and sizes, each side stays strictly sorted within its array
\* and holds no level without a size, and nothing is pending outside a batch.
THEOREM BookStaysSorted == Spec => []SidesSorted
<1>1. Init => BookInv
  BY EmptyBookSound DEF Init, BookInv
<1>2. QED
  BY <1>1, BookIsSorted, CallbackKeepsBook, PTL DEF Spec

-----------------------------------------------------------------------------
(* What the book shows, against what was quoted. *)

Maps(side) == [Prices(side) -> Nat]

\* Every level has the quantity last quoted at its price, and every price with
\* a quantity has a level.
Truthful(s, map) == \A i \in DOMAIN s : s[i].qty = map[s[i].price]
Complete(s, map) == \A p \in DOMAIN map : map[p] > 0 => \E i \in DOMAIN s : s[i].price = p

\* One more quote.
With(map, level) == [map EXCEPT ![level.price] = level.qty]

\* A level with this price is found at most once on a sorted side.
LEMMA DistinctPrices ==
  ASSUME NEW side \in Sides, NEW s \in Seq(Levels(side)),
         \A i, j \in DOMAIN s : i < j => Before(side, s[i].price, s[j].price),
         NEW i \in DOMAIN s, NEW j \in DOMAIN s, s[i].price = s[j].price
  PROVE  i = j
<1>1. s[i].price \in Nat /\ s[j].price \in Nat /\ i \in Nat /\ j \in Nat
  <2>1. s[i] \in Levels(side) /\ s[j] \in Levels(side) /\ i \in Nat /\ j \in Nat
    OBVIOUS
  <2>2. QED
    BY <2>1, LevelNumbers
<1>2. ~Before(side, s[i].price, s[j].price) /\ ~Before(side, s[j].price, s[i].price)
  BY <1>1 DEF Before
<1>3. ~(i < j) /\ ~(j < i)
  BY <1>2
<1>4. QED
  BY <1>1, <1>3

\* What ApplyLevel does to a sorted side: the other levels stay, the level is
\* there if it has a size, unless the side was full of other prices.
LEMMA ApplyLevelMeans ==
  ASSUME NEW side \in Sides, NEW s \in Ordered(side), NEW level \in Levels(side)
  PROVE  LET t == ApplyLevel(side, s, level)
             Others == {k \in DOMAIN s : s[k].price # level.price}
         IN /\ \A i \in DOMAIN t : t[i] = level \/ \E k \in Others : t[i] = s[k]
            /\ \A k \in Others : \E i \in DOMAIN t : t[i] = s[k]
            /\ level.qty > 0 => \/ \E i \in DOMAIN t : t[i] = level
                                \/ Len(s) = MaxLevels /\ \A k \in DOMAIN s : s[k].price # level.price
<1> DEFINE pos == Position(s, level.price)
           n == Len(s)
           t == ApplyLevel(side, s, level)
           Others == {k \in DOMAIN s : s[k].price # level.price}
<1>1. /\ s \in Seq(Levels(side)) /\ n \in Nat /\ n <= MaxLevels /\ DOMAIN s = 1..n
      /\ s = [i \in 1..n |-> s[i]]
      /\ \A i, j \in DOMAIN s : i < j => Before(side, s[i].price, s[j].price)
  BY DEF Ordered, Sorted
<1>2. \/ pos = 0 /\ \A i \in 1..n : s[i].price # level.price
      \/ pos \in 1..n /\ s[pos].price = level.price
  BY <1>1, PositionFinds
<1>3. level.qty \in Nat
  BY LevelNumbers
<1>4. ASSUME pos \in 1..n, s[pos].price = level.price PROVE \A k \in 1..n : k # pos <=> k \in Others
  BY <1>1, <1>4, DistinctPrices, SMTT(30)
<1> HIDE DEF pos
<1>5. CASE pos > 0 /\ level.qty > 0
  <2>1. t = [s EXCEPT ![pos] = level] /\ pos \in 1..n /\ \A k \in 1..n : k # pos <=> k \in Others
    BY <1>2, <1>4, <1>5 DEF ApplyLevel, pos
  <2> HIDE DEF t, Others
  <2>2. DOMAIN t = 1..n /\ t[pos] = level /\ \A k \in 1..n : k # pos => t[k] = s[k]
    BY <1>1, <2>1
  <2>3. QED
    BY <1>1, <2>1, <2>2 DEF t, Others
<1>6. CASE pos > 0 /\ level.qty = 0
  <2>1. t = ShiftLeft(s, pos) /\ pos \in 1..n /\ \A k \in 1..n : k # pos <=> k \in Others
    BY <1>2, <1>4, <1>6 DEF ApplyLevel, pos
  <2> HIDE DEF t, Others
  <2>2. DOMAIN t = 1..(n - 1) /\ \A i \in 1..(n - 1) : t[i] = IF i < pos THEN s[i] ELSE s[i + 1]
    BY <1>1, <2>1 DEF ShiftLeft
  <2>3. ASSUME NEW i \in DOMAIN t PROVE \E k \in Others : t[i] = s[k]
    <3>1. CASE i < pos
      BY <1>1, <2>1, <2>2, <3>1
    <3>2. CASE ~(i < pos)
      <4>1. i + 1 \in 1..n /\ i + 1 # pos /\ t[i] = s[i + 1]
        BY <1>1, <2>1, <2>2, <3>2
      <4>2. QED
        BY <2>1, <4>1
    <3>3. QED
      BY <3>1, <3>2
  <2>4. ASSUME NEW k \in Others PROVE \E i \in DOMAIN t : t[i] = s[k]
    <3>1. k \in 1..n /\ k # pos
      BY <1>1, <2>1 DEF Others
    <3>2. CASE k < pos
      BY <1>1, <2>1, <2>2, <3>1, <3>2
    <3>3. CASE ~(k < pos)
      <4>1. k - 1 \in 1..(n - 1) /\ ~(k - 1 < pos) /\ (k - 1) + 1 = k
        BY <1>1, <2>1, <3>1, <3>3
      <4>2. QED
        BY <2>2, <4>1
    <3>4. QED
      BY <3>2, <3>3
  <2>5. QED
    BY <1>6, <2>3, <2>4 DEF t, Others
<1>7. CASE pos = 0 /\ level.qty > 0 /\ n < MaxLevels
  <2> DEFINE at == InsertPosition(side, s, level.price)
  <2>1. at \in 1..(n + 1)
    BY <1>1, InsertPositionFinds
  <2>2. t = ShiftRight(s, at, level) /\ Others = 1..n
    BY <1>1, <1>2, <1>7 DEF ApplyLevel, pos
  <2> HIDE DEF at, t, Others
  <2>3. /\ DOMAIN t = 1..(n + 1)
        /\ \A i \in 1..(n + 1) : t[i] = IF i < at THEN s[i] ELSE IF i = at THEN level ELSE s[i - 1]
    BY <2>2 DEF ShiftRight
  <2>4. ASSUME NEW i \in DOMAIN t PROVE t[i] = level \/ \E k \in Others : t[i] = s[k]
    <3>1. CASE i < at
      BY <1>1, <2>1, <2>2, <2>3, <3>1
    <3>2. CASE i > at
      <4>1. i - 1 \in 1..n /\ t[i] = s[i - 1]
        BY <1>1, <2>1, <2>3, <3>2
      <4>2. QED
        BY <2>2, <4>1
    <3>3. QED
      BY <1>1, <2>1, <2>3, <3>1, <3>2
  <2>5. ASSUME NEW k \in Others PROVE \E i \in DOMAIN t : t[i] = s[k]
    <3>1. CASE k < at
      BY <1>1, <2>1, <2>2, <2>3, <3>1
    <3>2. CASE ~(k < at)
      <4>1. k + 1 \in 1..(n + 1) /\ ~(k + 1 < at) /\ k + 1 # at /\ (k + 1) - 1 = k
        BY <1>1, <2>1, <2>2, <3>2
      <4>2. QED
        BY <2>3, <4>1
    <3>3. QED
      BY <3>1, <3>2
  <2>6. \E i \in DOMAIN t : t[i] = level
    BY <1>1, <2>1, <2>3
  <2>7. QED
    BY <2>4, <2>5, <2>6 DEF t, Others
<1>8. CASE pos = 0 /\ ~(level.qty > 0 /\ n < MaxLevels)
  <2>1. t = s /\ Others = 1..n
    BY <1>1, <1>2, <1>8 DEF ApplyLevel, pos
  <2>2. level.qty > 0 => n = MaxLevels
    BY <1>1, <1>8, MaxLevelsAssumption
  <2> HIDE DEF t
  <2>3. QED
    BY <1>1, <1>2, <1>8, <2>1, <2>2 DEF t
<1>9. pos > 0 \/ pos = 0
  BY <1>1, <1>2
<1>10. level.qty > 0 \/ level.qty = 0
  BY <1>3
<1> HIDE DEF t, Others
<1>11. QED
  <2>1. /\ \A i \in DOMAIN t : t[i] = level \/ \E k \in Others : t[i] = s[k]
        /\ \A k \in Others : \E i \in DOMAIN t : t[i] = s[k]
        /\ level.qty > 0 => \/ \E i \in DOMAIN t : t[i] = level
                            \/ Len(s) = MaxLevels /\ \A k \in DOMAIN s : s[k].price # level.price
    BY <1>5, <1>6, <1>7, <1>8, <1>9, <1>10, Zenon DEF t, Others
  <2>2. QED
    BY <2>1, Zenon DEF t, Others

\* One more quote counts for its price only.
LEMMA WithMap ==
  ASSUME NEW side \in Sides, NEW map \in Maps(side), NEW level \in Levels(side)
  PROVE  /\ With(map, level) \in Maps(side) /\ With(map, level)[level.price] = level.qty
         /\ \A p \in Prices(side) : p # level.price => With(map, level)[p] = map[p]
<1>1. level.price \in Prices(side) /\ level.qty \in Nat
  BY LevelNumbers DEF Levels
<1>2. QED
  BY <1>1 DEF Maps, With

\* The levels of a sorted side have a quoted price and a size.
LEMMA SideLevel ==
  ASSUME NEW side \in Sides, NEW s \in Ordered(side), NEW k \in DOMAIN s
  PROVE  s[k].price \in Prices(side) /\ s[k].qty > 0
<1>1. s \in Seq(Levels(side)) /\ Sorted(side, s)
  BY Zenon DEF Ordered
<1>2. s[k] \in Levels(side)
  BY <1>1
<1>3. s[k].price \in Prices(side)
  BY <1>2 DEF Levels
<1>4. s[k].qty > 0
  BY <1>1, Zenon DEF Sorted
<1>5. QED
  BY <1>3, <1>4

\* ApplyLevel leaves no quantity out of date.
LEMMA ApplyLevelTruthful ==
  ASSUME NEW side \in Sides, NEW s \in Ordered(side), NEW level \in Levels(side),
         NEW map \in Maps(side), Truthful(s, map)
  PROVE  Truthful(ApplyLevel(side, s, level), With(map, level))
<1> DEFINE t == ApplyLevel(side, s, level)
<1>1. \A k \in DOMAIN s : s[k].price \in Prices(side)
  BY SideLevel, Zenon
<1>2. ASSUME NEW i \in DOMAIN t PROVE t[i].qty = With(map, level)[t[i].price]
  <2>1. CASE t[i] = level
    <3>1. With(map, level)[level.price] = level.qty
      BY WithMap, Zenon
    <3>2. QED
      BY <2>1, <3>1, Zenon
  <2>2. CASE \E k \in DOMAIN s : s[k].price # level.price /\ t[i] = s[k]
    <3>1. PICK k \in DOMAIN s : s[k].price # level.price /\ t[i] = s[k]
      BY <2>2, Zenon
    <3>2. s[k].qty = map[s[k].price]
      BY Zenon DEF Truthful
    <3>3. With(map, level)[s[k].price] = map[s[k].price]
      BY <1>1, <3>1, WithMap, Zenon
    <3>4. QED
      BY <3>1, <3>2, <3>3, Zenon
  <2>3. QED
    BY <2>1, <2>2, ApplyLevelMeans
<1>3. QED
  BY <1>2, Zenon DEF Truthful

\* A side whose levels all have a quantity has no more of them than there are
\* such prices; with one more such price there is one more.
LEMMA MorePrices ==
  ASSUME NEW side \in Sides, NEW s \in Ordered(side), NEW map \in Maps(side),
         NEW q \in Prices(side), map[q] > 0,
         \A k \in DOMAIN s : s[k].price # q /\ map[s[k].price] > 0
  PROVE  Depth(map) \in Nat /\ Depth(map) >= Len(s) + 1
<1> DEFINE n == Len(s)
           P == {s[k].price : k \in 1..n}
           D == {p \in DOMAIN map : map[p] > 0}
           f == [k \in 1..n |-> s[k].price]
<1>1. /\ s \in Seq(Levels(side)) /\ n \in Nat /\ DOMAIN s = 1..n
      /\ \A i, j \in DOMAIN s : i < j => Before(side, s[i].price, s[j].price)
  BY DEF Ordered, Sorted
<1>a. \A k \in 1..n : s[k].price \in Prices(side)
  BY <1>1, SideLevel, Zenon
<1>2. \A i, j \in 1..n : s[i].price = s[j].price => i = j
  BY <1>1, DistinctPrices, Zenon
<1>3. ExistsBijection(1..n, P)
  <2>1. f \in [1..n -> P] /\ (\A i, j \in 1..n : f[i] = f[j] => i = j) /\ \A p \in P : \E k \in 1..n : f[k] = p
    BY <1>2
  <2> HIDE DEF f, P
  <2>2. f \in Bijection(1..n, P)
    BY <2>1, Zenon DEF Bijection, Injection, Surjection, IsInjective
  <2>3. QED
    BY <2>2, Zenon DEF ExistsBijection
<1>4. P \cup {q} \subseteq D /\ q \notin P /\ D \subseteq Prices(side)
  BY <1>1, <1>a, SMTT(30) DEF Maps
<1>5. IsFiniteSet(Prices(side))
  BY PricesAssumption DEF Prices
<1> HIDE DEF P, D, f
<1>6. IsFiniteSet(D)
  BY <1>4, <1>5, FS_Subset, Zenon
<1>7. IsFiniteSet(P) /\ Cardinality(P) = n
  <2>1. P \subseteq D
    BY <1>4, Zenon
  <2>2. IsFiniteSet(P)
    BY <1>6, <2>1, FS_Subset, Zenon
  <2>3. Cardinality(P) = n
    BY <1>1, <1>3, FS_CountingElements
  <2>4. QED
    BY <2>2, <2>3
<1>8. Cardinality(P \cup {q}) = n + 1
  BY <1>4, <1>7, FS_AddElement, Zenon
<1>9. Cardinality(P \cup {q}) <= Cardinality(D)
  BY <1>4, <1>6, FS_Subset, Zenon
<1>10. Cardinality(D) \in Nat
  BY <1>6, FS_CardinalityType, Zenon
<1>11. QED
  BY <1>1, <1>8, <1>9, <1>10 DEF Depth, D

\* It leaves no level out, unless more prices are quoted than a side can hold.
LEMMA ApplyLevelComplete ==
  ASSUME NEW side \in Sides, NEW s \in Ordered(side), NEW level \in Levels(side),
         NEW map \in Maps(side), Truthful(s, map), Complete(s, map),
         ~(Depth(With(map, level)) > MaxLevels)
  PROVE  Complete(ApplyLevel(side, s, level), With(map, level))
<1> DEFINE t == ApplyLevel(side, s, level)
           w == With(map, level)
<1>1. \A k \in DOMAIN s : s[k].price \in Prices(side) /\ s[k].qty > 0
  BY SideLevel, Zenon
<1>2. /\ w \in Maps(side) /\ w[level.price] = level.qty /\ level.price \in Prices(side)
      /\ \A p \in Prices(side) : p # level.price => w[p] = map[p]
  BY WithMap DEF Levels
<1> HIDE DEF w
<1>3. DOMAIN w = Prices(side) /\ DOMAIN map = Prices(side)
  BY <1>2, Zenon DEF Maps
<1>4. ASSUME NEW p \in DOMAIN w, w[p] > 0 PROVE \E i \in DOMAIN t : t[i].price = p
  <2>1. CASE p # level.price
    <3>1. map[p] > 0
      BY <1>2, <1>3, <1>4, <2>1, Zenon
    <3>2. PICK k \in DOMAIN s : s[k].price = p
      BY <1>3, <3>1, Zenon DEF Complete
    <3>3. PICK i \in DOMAIN t : t[i] = s[k]
      BY <2>1, <3>2, ApplyLevelMeans, SMTT(30)
    <3>4. QED
      BY <3>2, <3>3, Zenon
  <2>2. CASE p = level.price
    <3>1. level.qty > 0
      BY <1>2, <1>4, <2>2, Zenon
    <3>2. CASE Len(s) = MaxLevels /\ \A k \in DOMAIN s : s[k].price # level.price
      <4>1. \A k \in DOMAIN s : w[s[k].price] = s[k].qty
        BY <1>1, <1>2, <3>2, Zenon DEF Truthful
      <4>2. \A k \in DOMAIN s : s[k].price # level.price /\ w[s[k].price] > 0
        BY <1>1, <3>2, <4>1, Zenon
      <4>3. Depth(w) \in Nat /\ Depth(w) >= Len(s) + 1
        BY <1>2, <1>4, <2>2, <4>2, MorePrices, Zenon
      <4>4. QED
        BY <3>2, <4>3, MaxLevelsAssumption DEF w
    <3>3. QED
      BY <2>2, <3>1, <3>2, ApplyLevelMeans
  <2>3. QED
    BY <2>1, <2>2, Zenon
<1>5. QED
  BY <1>4, Zenon DEF Complete, w

\* The positions of a price among some levels, and the last of them.
At(levels, p) == {i \in DOMAIN levels : levels[i].price = p}
LatestOf(at) == CHOOSE i \in at : \A k \in at : i >= k

\* There is a last one if there is one.
LEMMA LastPosition ==
  ASSUME NEW n \in Nat, NEW at \in SUBSET (1..n), at # {}
  PROVE  LatestOf(at) \in at /\ \A k \in at : LatestOf(at) >= k
<1> DEFINE S == {m \in Nat : n - m \in at}
<1>1. S \subseteq Nat /\ S # {}
  <2>1. PICK i \in at : TRUE
    BY Zenon
  <2>2. n - i \in Nat /\ n - (n - i) = i
    BY <2>1
  <2>3. QED
    BY <2>1, <2>2
<1>2. PICK x \in S : \A y \in S : x <= y
  <2> HIDE DEF S
  <2>1. QED
    BY <1>1, LeastNumber, Zenon
<1> DEFINE i == n - x
<1>3. i \in at
  OBVIOUS
<1>4. \A k \in at : i >= k
  <2>1. SUFFICES ASSUME NEW k \in at PROVE i >= k
    OBVIOUS
  <2>2. n - k \in Nat /\ n - (n - k) = k
    OBVIOUS
  <2>3. x <= n - k /\ x \in Nat
    BY <1>2, <2>2
  <2>4. QED
    BY <2>2, <2>3
<1> HIDE DEF i
<1>5. QED
  BY <1>3, <1>4, Zenon DEF LatestOf

\* The quotes, price by price.
LEMMA QuotedAt ==
  ASSUME NEW side \in Sides, NEW map \in Maps(side), NEW levels \in Seq(Levels(side))
  PROVE  /\ Quotes(map, levels) \in Maps(side)
         /\ \A p \in Prices(side) : Quotes(map, levels)[p] =
              IF At(levels, p) = {} THEN map[p] ELSE levels[LatestOf(At(levels, p))].qty
<1>1. DOMAIN map = Prices(side) /\ \A p \in Prices(side) : map[p] \in Nat
  BY DEF Maps
<1>2. ASSUME NEW p \in Prices(side), At(levels, p) # {}
      PROVE  LatestOf(At(levels, p)) \in DOMAIN levels
  <2>1. At(levels, p) \in SUBSET (1..Len(levels)) /\ Len(levels) \in Nat
    BY DEF At
  <2>2. LatestOf(At(levels, p)) \in At(levels, p)
    BY <1>2, <2>1, LastPosition, Zenon
  <2>3. QED
    BY <2>2, Zenon DEF At
<1>3. ASSUME NEW i \in DOMAIN levels PROVE levels[i].qty \in Nat
  <2>1. levels[i] \in Levels(side)
    OBVIOUS
  <2>2. QED
    BY <2>1, LevelNumbers, Zenon
<1> DEFINE m == [p \in Prices(side) |->
                   IF At(levels, p) = {} THEN map[p] ELSE levels[LatestOf(At(levels, p))].qty]
<1>4. Quotes(map, levels) = m
  <2>1. CASE levels = << >>
    <3>1. \A p \in Prices(side) : At(levels, p) = {}
      BY <2>1 DEF At
    <3>2. m = map
      BY <1>1, <3>1 DEF Maps
    <3>3. QED
      BY <2>1, <3>2, Zenon DEF Quotes
  <2>2. CASE levels # << >>
    BY <1>1, <2>2, Zenon DEF Quotes, At, LatestOf
  <2>3. QED
    BY <2>1, <2>2, Zenon
<1>5. ASSUME NEW p \in Prices(side) PROVE m[p] \in Nat
  BY <1>1, <1>2, <1>3
<1>6. m \in Maps(side)
  BY <1>5, Zenon DEF Maps
<1>7. QED
  BY <1>4, <1>6, Zenon

\* One more level is one more quote.
LEMMA QuotesAppend ==
  ASSUME NEW side \in Sides, NEW map \in Maps(side), NEW v \in Seq(Levels(side)),
         NEW level \in Levels(side)
  PROVE  Quotes(map, Append(v, level)) = With(Quotes(map, v), level)
<1> DEFINE w == Append(v, level)
           n == Len(v)
           a == Quotes(map, w)
           b == With(Quotes(map, v), level)
<1>1. /\ w \in Seq(Levels(side)) /\ n \in Nat /\ DOMAIN v = 1..n /\ DOMAIN w = 1..(n + 1)
      /\ w[n + 1] = level /\ \A i \in 1..n : w[i] = v[i]
  OBVIOUS
<1> HIDE DEF w
<1>2. Quotes(map, v) \in Maps(side) /\ a \in Maps(side)
  BY <1>1, QuotedAt, Zenon
<1>3. b \in Maps(side)
  BY <1>2, WithMap, Zenon
<1>4. ASSUME NEW p \in Prices(side) PROVE a[p] = b[p]
  <2>1. a[p] = IF At(w, p) = {} THEN map[p] ELSE w[LatestOf(At(w, p))].qty
    BY <1>1, QuotedAt, Zenon
  <2>2. CASE p = level.price
    <3>1. n + 1 \in At(w, p) /\ At(w, p) \in SUBSET (1..(n + 1)) /\ n + 1 \in Nat
      BY <1>1, <2>2 DEF At
    <3>2. At(w, p) # {}
      BY <3>1, Zenon
    <3>3. LatestOf(At(w, p)) \in 1..(n + 1) /\ LatestOf(At(w, p)) >= n + 1
      BY <3>1, <3>2, LastPosition, Zenon
    <3>4. LatestOf(At(w, p)) = n + 1
      BY <1>1, <3>3
    <3>5. b[p] = level.qty
      BY <1>2, <2>2, WithMap, Zenon
    <3>6. QED
      BY <1>1, <2>1, <3>2, <3>4, <3>5, Zenon
  <2>3. CASE p # level.price
    <3>1. At(w, p) = At(v, p)
      BY <1>1, <2>3 DEF At
    <3>2. b[p] = Quotes(map, v)[p]
      BY <1>2, <2>3, WithMap, Zenon
    <3>3. b[p] = IF At(v, p) = {} THEN map[p] ELSE v[LatestOf(At(v, p))].qty
      BY <3>2, QuotedAt, Zenon
    <3>4. CASE At(v, p) # {}
      <4>1. At(v, p) \in SUBSET (1..n)
        BY <1>1, Zenon DEF At
      <4>2. LatestOf(At(v, p)) \in 1..n
        BY <1>1, <3>4, <4>1, LastPosition, Zenon
      <4>3. QED
        BY <1>1, <2>1, <3>1, <3>3, <3>4, <4>2, Zenon
    <3>5. QED
      BY <2>1, <3>1, <3>3, <3>4, Zenon
  <2>4. QED
    BY <2>2, <2>3, Zenon
<1> HIDE DEF a, b
<1>5. a = b
  BY <1>2, <1>3, <1>4 DEF Maps
<1>6. QED
  BY <1>5, Zenon DEF a, b, w

\* The levels of an image a side shows are the image's, and all that have a
\* size are there unless the side is full.
LEMMA ApplyImageMeans ==
  ASSUME NEW side \in Sides, NEW image \in Seq(Levels(side))
  PROVE  LET t == ApplyImage(image)
         IN /\ \A i \in DOMAIN t : \E k \in DOMAIN image : t[i] = image[k]
            /\ \/ Len(t) >= MaxLevels
               \/ \A k \in DOMAIN image : image[k].qty > 0 => \E i \in DOMAIN t : t[i] = image[k]
<1> DEFINE N == Len(image)
           X == Seq(Levels(side))
<1>1. N \in Nat /\ DOMAIN image = 1..N /\ \A n \in 1..N : image[n] \in Levels(side)
  OBVIOUS
<1>2. PICK f \in [0..N -> X] :
        /\ f[0] = << >> /\ ApplyImage(image) = f[N]
        /\ \A n \in 1..N : f[n] = TakenFrom(image, n, f[n - 1])
  BY ApplyImageSteps, Zenon
<1> DEFINE Of(n) == \A i \in DOMAIN f[n] : \E k \in 1..n : f[n][i] = image[k]
           All(n) == \/ Len(f[n]) >= MaxLevels
                     \/ \A k \in 1..n : image[k].qty > 0 => \E i \in DOMAIN f[n] : f[n][i] = image[k]
           T == {n \in 0..N : Of(n) /\ All(n)}
<1> HIDE DEF N
<1>3. 0 \in T
  <2>1. DOMAIN f[0] = {} /\ 1..0 = {} /\ 0 \in 0..N
    BY <1>1, <1>2
  <2>2. QED
    BY <2>1
<1>4. ASSUME NEW n \in 1..N, n - 1 \in T PROVE n \in T
  <2> DEFINE x == f[n - 1]
             y == f[n]
             m == Len(x)
  <2>1. n \in 0..N /\ n \in Nat /\ n - 1 \in 0..N /\ image[n] \in Levels(side)
    BY <1>1
  <2>2. x \in Seq(Levels(side)) /\ y = TakenFrom(image, n, x)
    BY <1>2, <2>1
  <2>3. /\ \A i \in DOMAIN x : \E k \in 1..(n - 1) : x[i] = image[k]
        /\ \/ m >= MaxLevels
           \/ \A k \in 1..(n - 1) : image[k].qty > 0 => \E i \in DOMAIN x : x[i] = image[k]
    BY <1>4
  <2>4. \A k \in 1..n : k = n \/ k \in 1..(n - 1)
    BY <2>1
  <2>5. \A k \in 1..(n - 1) : k \in 1..n
    BY <2>1
  <2> HIDE DEF x, y
  <2>6. CASE image[n].qty > 0 /\ m < MaxLevels
    <3>1. y = Append(x, image[n])
      BY <2>2, <2>6 DEF TakenFrom
    <3>2. /\ DOMAIN y = 1..(m + 1) /\ DOMAIN x = 1..m /\ m \in Nat
          /\ y[m + 1] = image[n] /\ \A i \in 1..m : y[i] = x[i]
      BY <2>1, <2>2, <3>1
    <3>3. \A i \in DOMAIN y : \E k \in 1..n : y[i] = image[k]
      <4>1. SUFFICES ASSUME NEW i \in 1..(m + 1) PROVE \E k \in 1..n : y[i] = image[k]
        BY <3>2
      <4>2. CASE i = m + 1
        BY <2>1, <3>2, <4>2
      <4>3. CASE i \in 1..m
        <5>1. PICK k \in 1..(n - 1) : x[i] = image[k]
          BY <2>3, <3>2, <4>3, Zenon
        <5>2. QED
          BY <2>5, <3>2, <4>3, <5>1, Zenon
      <4>4. i = m + 1 \/ i \in 1..m
        BY <3>2
      <4>5. QED
        BY <4>2, <4>3, <4>4, Zenon
    <3>4. \A k \in 1..n : image[k].qty > 0 => \E i \in DOMAIN y : y[i] = image[k]
      <4>1. SUFFICES ASSUME NEW k \in 1..n, image[k].qty > 0 PROVE \E i \in DOMAIN y : y[i] = image[k]
        OBVIOUS
      <4>2. CASE k = n
        BY <3>2, <4>2
      <4>3. CASE k \in 1..(n - 1)
        <5>1. ~(m >= MaxLevels)
          BY <2>6, <3>2, MaxLevelsAssumption
        <5>2. PICK i \in 1..m : x[i] = image[k]
          BY <2>3, <3>2, <4>1, <4>3, <5>1, Zenon
        <5>3. i \in 1..(m + 1) /\ y[i] = x[i]
          BY <3>2
        <5>4. QED
          BY <3>2, <5>2, <5>3
      <4>4. QED
        BY <2>4, <4>2, <4>3, Zenon
    <3>5. QED
      BY <2>1, <3>3, <3>4, Zenon DEF y
  <2>7. CASE ~(image[n].qty > 0 /\ m < MaxLevels)
    <3>1. y = x
      BY <2>2, <2>7 DEF TakenFrom
    <3>2. Of(n)
      BY <2>3, <2>5, <3>1, Zenon DEF y
    <3>3. All(n)
      <4>1. CASE m < MaxLevels
        BY <2>3, <2>4, <2>7, <3>1, <4>1, Zenon DEF y
      <4>2. CASE ~(m < MaxLevels)
        <5>1. m >= MaxLevels
          BY <2>2, <4>2, MaxLevelsAssumption
        <5>2. QED
          BY <3>1, <5>1, Zenon DEF y
      <4>3. QED
        BY <4>1, <4>2, Zenon
    <3>4. QED
      BY <2>1, <3>2, <3>3, Zenon
  <2>8. QED
    BY <2>6, <2>7, Zenon
<1> HIDE DEF T
<1>5. 0..N \subseteq T
  BY <1>1, <1>3, <1>4, UpTo, Zenon
<1>6. N \in T
  BY <1>1, <1>5
<1>7. QED
  <2>1. Of(N) /\ All(N)
    BY <1>6, Zenon DEF T
  <2>2. QED
    <3>1. /\ \A i \in DOMAIN f[N] : \E k \in DOMAIN image : f[N][i] = image[k]
          /\ \/ Len(f[N]) >= MaxLevels
             \/ \A k \in DOMAIN image : image[k].qty > 0 => \E i \in DOMAIN f[N] : f[N][i] = image[k]
      BY <1>1, <2>1, Zenon
    <3>2. QED
      BY <1>2, <3>1, ZenonT(30)

\* A side, the quotes it stands for, and what it has lost of them.
Losses == {"nothing", "levels", "updates"}
Matches(side, s, map, lost) ==
  /\ s \in Ordered(side) /\ map \in Maps(side) /\ lost \in Losses
  /\ lost # "updates" => Truthful(s, map)
  /\ lost = "nothing" => Complete(s, map)

\* A side still matches after updates it has had room to keep.
LEMMA UpdatesMatch ==
  ASSUME NEW side \in Sides, NEW s \in Ordered(side), NEW map \in Maps(side),
         NEW updates \in Seq(Levels(side)), Truthful(s, map)
  PROVE  LET t == ApplyLevels(side, s, updates)
             Fits == \A n \in 0..Len(updates) : ~(Depth(Quotes(map, SubSeq(updates, 1, n))) > MaxLevels)
         IN /\ Truthful(t, Quotes(map, updates))
            /\ Complete(s, map) /\ Fits => Complete(t, Quotes(map, updates))
<1> DEFINE N == Len(updates)
           Map(n) == Quotes(map, SubSeq(updates, 1, n))
           Fits == \A n \in 0..N : ~(Depth(Map(n)) > MaxLevels)
<1>1. N \in Nat /\ \A n \in 1..N : updates[n] \in Levels(side) /\ n - 1 \in 0..N /\ n \in 0..N
  OBVIOUS
<1>2. PICK f \in [0..N -> Ordered(side)] :
        /\ f[0] = s /\ ApplyLevels(side, s, updates) = f[N]
        /\ \A n \in 1..N : f[n] = ApplyLevel(side, f[n - 1], updates[n])
  BY ApplyLevelsSteps, Zenon
<1>3. ASSUME NEW n \in 0..N PROVE SubSeq(updates, 1, n) \in Seq(Levels(side))
  BY <1>1
<1>4. ASSUME NEW n \in 1..N
      PROVE  SubSeq(updates, 1, n) = Append(SubSeq(updates, 1, n - 1), updates[n])
  BY <1>1, SMTT(30)
<1>5. SubSeq(updates, 1, 0) = << >> /\ SubSeq(updates, 1, N) = updates
  BY <1>1
<1>6. Map(0) = map /\ Map(N) = Quotes(map, updates)
  <2>1. Quotes(map, << >>) = map
    BY Zenon DEF Quotes
  <2>2. QED
    BY <1>5, <2>1
<1>7. \A n \in 0..N : Map(n) \in Maps(side)
  BY <1>3, QuotedAt, Zenon
<1>8. ASSUME NEW n \in 1..N PROVE Map(n) = With(Map(n - 1), updates[n])
  <2>1. SubSeq(updates, 1, n - 1) \in Seq(Levels(side)) /\ updates[n] \in Levels(side)
    BY <1>1, <1>3, Zenon
  <2>2. QED
    BY <1>4, <2>1, QuotesAppend, ZenonT(30)
<1> HIDE DEF N, Map
<1> DEFINE T == {n \in 0..N : Truthful(f[n], Map(n)) /\ (Complete(s, map) /\ Fits => Complete(f[n], Map(n)))}
<1>9. 0 \in T
  <2>1. 0 \in 0..N
    BY <1>1
  <2>2. QED
    BY <1>2, <1>6, <2>1, Zenon
<1>10. ASSUME NEW n \in 1..N, n - 1 \in T PROVE n \in T
  <2>1. /\ n \in 0..N /\ updates[n] \in Levels(side) /\ f[n - 1] \in Ordered(side)
        /\ Map(n - 1) \in Maps(side) /\ f[n] = ApplyLevel(side, f[n - 1], updates[n])
    BY <1>1, <1>2, <1>7, Zenon
  <2>2. Truthful(f[n - 1], Map(n - 1))
    BY <1>10, Zenon
  <2>3. Truthful(f[n], Map(n))
    BY <1>8, <2>1, <2>2, ApplyLevelTruthful, Zenon
  <2>4. ASSUME Complete(s, map), Fits PROVE Complete(f[n], Map(n))
    <3>1. Complete(f[n - 1], Map(n - 1))
      BY <1>10, <2>4, Zenon
    <3>2. ~(Depth(With(Map(n - 1), updates[n])) > MaxLevels)
      BY <1>8, <2>1, <2>4, Zenon
    <3>3. QED
      BY <1>8, <2>1, <2>2, <3>1, <3>2, ApplyLevelComplete, Zenon
  <2>5. QED
    BY <2>1, <2>3, <2>4, Zenon
<1> HIDE DEF T
<1>11. 0..N \subseteq T
  BY <1>1, <1>9, <1>10, UpTo, Zenon
<1>12. N \in T
  BY <1>1, <1>11
<1>13. Truthful(f[N], Map(N)) /\ (Complete(s, map) /\ Fits => Complete(f[N], Map(N)))
  BY <1>12, Zenon DEF T
<1>14. QED
  BY <1>2, <1>6, <1>13, Zenon DEF N, Map

\* However many updates there are: those beyond MaxLevels are lost, and said to be.
LEMMA UpdateKeepsMatch ==
  ASSUME NEW side \in Sides, NEW s, NEW map, NEW lost, Matches(side, s, map, lost),
         NEW updates \in Seq(Levels(side)), NEW kept \in Seq(Levels(side)),
         ~(Len(updates) > MaxLevels) => kept = updates
  PROVE  Matches(side, ApplyLevels(side, s, kept), Quotes(map, updates), Worse(lost, Loses(map, updates)))
<1> DEFINE t == ApplyLevels(side, s, kept)
           now == Quotes(map, updates)
           lose == Loses(map, updates)
           Fits == \A n \in 0..Len(updates) : ~(Depth(Quotes(map, SubSeq(updates, 1, n))) > MaxLevels)
<1>0. /\ s \in Ordered(side) /\ map \in Maps(side) /\ lost \in Losses
      /\ (lost # "updates" => Truthful(s, map)) /\ (lost = "nothing" => Complete(s, map))
  BY Zenon DEF Matches
<1>1. t \in Ordered(side) /\ now \in Maps(side)
  BY <1>0, ApplyLevelsOrdered, QuotedAt, Zenon
<1>2. /\ Len(updates) > MaxLevels <=> lose = "updates"
      /\ ~(Len(updates) > MaxLevels) /\ ~Fits <=> lose = "levels"
      /\ ~(Len(updates) > MaxLevels) /\ Fits <=> lose = "nothing"
  <2>1. lose = IF Len(updates) > MaxLevels THEN "updates" ELSE IF ~Fits THEN "levels" ELSE "nothing"
    BY Zenon DEF Loses
  <2> HIDE DEF lose, Fits
  <2>2. QED
    BY <2>1
<1>3. lose \in Losses
  BY <1>2, Zenon DEF Losses
<1>4. /\ Worse(lost, lose) \in Losses
      /\ Worse(lost, lose) # "updates" => lost # "updates" /\ lose # "updates"
      /\ Worse(lost, lose) = "nothing" => lost = "nothing" /\ lose = "nothing"
  <2> HIDE DEF lose
  <2>1. QED
    BY <1>0, <1>3 DEF Worse, Losses
<1>5. ASSUME lost # "updates", lose # "updates"
      PROVE  Truthful(t, now) /\ (lost = "nothing" /\ Fits => Complete(t, now))
  <2>1. kept = updates
    BY <1>2, <1>5, Zenon
  <2>2. Truthful(t, now) /\ (Complete(s, map) /\ Fits => Complete(t, now))
    BY <1>0, <1>5, <2>1, UpdatesMatch
  <2>3. QED
    BY <1>0, <2>2, Zenon
<1> HIDE DEF t, now, lose, Fits
<1>6. Worse(lost, lose) # "updates" => Truthful(t, now)
  BY <1>4, <1>5, Zenon
<1>7. Worse(lost, lose) = "nothing" => Complete(t, now)
  BY <1>2, <1>4, <1>5
<1>8. QED
  BY <1>1, <1>4, <1>6, <1>7, Zenon DEF Matches, t, now, lose

\* An image makes a side that matches it, whatever was there.
LEMMA ImageMatches ==
  ASSUME NEW side \in Sides, NEW image \in Seq(Levels(side)),
         \A i, j \in DOMAIN image : i < j => Before(side, image[i].price, image[j].price)
  PROVE  LET map == Quotes(NoQuotes[side], image)
         IN Matches(side, ApplyImage(image), map, IF Depth(map) > MaxLevels THEN "levels" ELSE "nothing")
<1> DEFINE t == ApplyImage(image)
           none == NoQuotes[side]
           map == Quotes(none, image)
<1>1. none \in Maps(side) /\ \A p \in Prices(side) : none[p] = 0
  BY DEF NoQuotes, Maps
<1>2. t \in Ordered(side)
  BY ApplyImageOrdered, Zenon
<1> HIDE DEF none
<1>3. map \in Maps(side)
  BY <1>1, QuotedAt, Zenon
<1>4. ASSUME NEW k \in DOMAIN image PROVE image[k].price \in Prices(side)
  <2>1. image[k] \in Levels(side)
    OBVIOUS
  <2>2. QED
    BY <2>1 DEF Levels
<1>5. ASSUME NEW k \in DOMAIN image PROVE map[image[k].price] = image[k].qty
  <2> DEFINE at == At(image, image[k].price)
  <2>1. at = {k}
    BY DistinctPrices, Zenon DEF At
  <2>2. map[image[k].price] = IF at = {} THEN none[image[k].price] ELSE image[LatestOf(at)].qty
    BY <1>1, <1>4, QuotedAt, Zenon
  <2> HIDE DEF at
  <2>3. at # {} /\ at \in SUBSET (1..Len(image)) /\ Len(image) \in Nat
    BY <2>1
  <2>4. LatestOf(at) = k
    BY <2>1, <2>3, LastPosition, Zenon
  <2>5. QED
    BY <2>2, <2>3, <2>4, Zenon
<1>6. ASSUME NEW p \in Prices(side), map[p] > 0 PROVE \E k \in DOMAIN image : image[k].price = p
  <2>1. CASE At(image, p) = {}
    <3>1. map[p] = 0
      BY <1>1, <2>1, QuotedAt, Zenon
    <3>2. QED
      BY <1>6, <3>1
  <2>2. CASE At(image, p) # {}
    BY <2>2, Zenon DEF At
  <2>3. QED
    BY <2>1, <2>2, Zenon
<1> HIDE DEF t, map
<1>7. ASSUME NEW i \in DOMAIN t PROVE \E k \in DOMAIN image : t[i] = image[k]
  BY ApplyImageMeans, Zenon DEF t
<1>8. Truthful(t, map)
  BY <1>5, <1>7, Zenon DEF Truthful
<1>9. ASSUME ~(Depth(map) > MaxLevels) PROVE Complete(t, map)
  <2>1. SUFFICES ASSUME NEW p \in Prices(side), map[p] > 0, \A i \in DOMAIN t : t[i].price # p
                 PROVE  FALSE
    BY <1>3, Zenon DEF Complete, Maps
  <2>2. PICK k \in DOMAIN image : image[k].price = p
    BY <1>6, <2>1, Zenon
  <2>3. image[k].qty > 0
    BY <1>5, <2>1, <2>2
  <2>4. ~(\E i \in DOMAIN t : t[i] = image[k])
    BY <2>1, <2>2, Zenon
  <2>5. Len(t) >= MaxLevels
    BY <2>3, <2>4, ApplyImageMeans, Zenon DEF t
  <2>6. \A i \in DOMAIN t : t[i].price # p /\ map[t[i].price] > 0
    <3>1. \A i \in DOMAIN t : map[t[i].price] = t[i].qty /\ t[i].qty > 0
      BY <1>2, <1>8, SideLevel, Zenon DEF Truthful
    <3>2. QED
      BY <2>1, <3>1
  <2>7. Depth(map) \in Nat /\ Depth(map) >= Len(t) + 1
    BY <1>2, <1>3, <2>1, <2>6, MorePrices, Zenon
  <2>8. Len(t) \in Nat
    BY <1>2 DEF Ordered
  <2>9. QED
    BY <1>9, <2>5, <2>7, <2>8, MaxLevelsAssumption
<1> DEFINE lost == IF Depth(map) > MaxLevels THEN "levels" ELSE "nothing"
<1>10. lost \in Losses /\ lost # "updates" /\ (lost = "nothing" => ~(Depth(map) > MaxLevels))
  BY DEF Losses
<1> HIDE DEF lost
<1>11. Matches(side, t, map, lost)
  BY <1>2, <1>3, <1>8, <1>9, <1>10, Zenon DEF Matches
<1>12. QED
  BY <1>11, Zenon DEF t, map, none, lost

\* A cleared side.
LEMMA ClearedMatches ==
  ASSUME NEW side \in Sides
  PROVE  Matches(side, << >>, NoQuotes[side], "nothing")
<1>1. << >> \in Ordered(side)
  BY Widen, Zenon
<1>2. NoQuotes[side] \in Maps(side) /\ \A p \in DOMAIN NoQuotes[side] : ~(NoQuotes[side][p] > 0)
  BY DEF NoQuotes, Maps
<1>3. Truthful(<< >>, NoQuotes[side])
  BY DEF Truthful
<1>4. Complete(<< >>, NoQuotes[side])
  BY <1>2, Zenon DEF Complete
<1>5. "nothing" \in Losses /\ "nothing" # "updates"
  BY DEF Losses
<1>6. QED
  BY <1>1, <1>2, <1>3, <1>4, <1>5, Zenon DEF Matches

-----------------------------------------------------------------------------
\* The levels pending are the levels quoted since BEGIN, unless these are too many.
Holds(pending, q) ==
  /\ q = [s \in Sides |-> q[s]]
  /\ \A s \in Sides : q[s] \in Seq(Levels(s)) /\ (~(Len(q[s]) > MaxLevels) => pending[s] = q[s])
QuoteInv ==
  /\ BookInv
  /\ \A s \in Sides : Matches(s, book.levels[s], ref[s], short[s])
  /\ Holds(book.pending, quoted)
  /\ ~book.active => \A s \in Sides : quoted[s] = << >>

Noting(q, side, level) == IF level = NoLevel THEN q ELSE [q EXCEPT ![side] = Append(@, level)]

\* No level is pending and none is quoted.
LEMMA HoldsNothing ==
  Holds([s \in Sides |-> << >>], [s \in Sides |-> << >>])
BY DEF Holds

\* A level joins the batch as it joins the quotes.  The book's levels stay.
LEMMA BufferedHolds ==
  ASSUME NEW b, Sound(b), NEW q, Holds(b.pending, q),
         NEW side \in Sides, NEW level \in Levels(side) \cup {NoLevel}
  PROVE  /\ Holds(Buffered(b, side, level).pending, Noting(q, side, level))
         /\ Buffered(b, side, level).levels = b.levels
<1> DEFINE c == Buffered(b, side, level)
           r == Noting(q, side, level)
           l == Append(q[side], level)
<1>0. /\ q = [s \in Sides |-> q[s]]
      /\ \A s \in Sides : q[s] \in Seq(Levels(s)) /\ (~(Len(q[s]) > MaxLevels) => b.pending[s] = q[s])
  BY Zenon DEF Holds
<1>1. CASE level = NoLevel
  BY <1>1, Zenon DEF Buffered, Noting
<1>2. CASE level # NoLevel
  <2>1. level \in Levels(side) /\ r = [s \in Sides |-> IF s = side THEN l ELSE q[s]]
    BY <1>0, <1>2, Zenon DEF Noting
  <2>2. q[side] \in Seq(Levels(side))
    BY <1>0, Zenon
  <2>3. l \in Seq(Levels(side)) /\ Len(l) = Len(q[side]) + 1 /\ Len(q[side]) \in Nat
    BY <2>1, <2>2
  <2> HIDE DEF r
  <2>4. r = [s \in Sides |-> r[s]] /\ r[side] = l /\ \A s \in Sides : s # side => r[s] = q[s]
    BY <2>1, Zenon
  <2>5. \A s \in Sides : r[s] \in Seq(Levels(s))
    BY <1>0, <2>3, <2>4, Zenon
  <2>6. CASE Len(b.pending[side]) >= MaxLevels
    <3>1. c = b
      BY <2>6, Zenon DEF Buffered, BufferLevel
    <3>2. Len(l) > MaxLevels
      BY <1>0, <2>3, <2>6, MaxLevelsAssumption
    <3>3. \A s \in Sides : ~(Len(r[s]) > MaxLevels) => b.pending[s] = r[s]
      BY <1>0, <2>4, <3>2, Zenon
    <3>4. QED
      BY <2>4, <2>5, <3>1, <3>3, Zenon DEF Holds, r
  <2>7. CASE ~(Len(b.pending[side]) >= MaxLevels)
    <3>1. c = [b EXCEPT !.pending[side] = Append(@, level)]
      BY <1>2, <2>7, Zenon DEF Buffered, BufferLevel
    <3>2. b = [levels |-> b.levels, pending |-> b.pending, active |-> b.active]
      BY Parts, Zenon
    <3>3. b.pending = [s \in Sides |-> b.pending[s]]
      BY Parts, Zenon
    <3>4. /\ c.levels = b.levels /\ c.pending[side] = Append(b.pending[side], level)
          /\ \A s \in Sides : s # side => c.pending[s] = b.pending[s]
      <4> HIDE DEF c
      <4>1. QED
        BY <3>1, <3>2, <3>3
    <3>5. ~(Len(l) > MaxLevels) => ~(Len(q[side]) > MaxLevels)
      BY <2>3, MaxLevelsAssumption
    <3> HIDE DEF c
    <3>6. ASSUME NEW s \in Sides, ~(Len(r[s]) > MaxLevels) PROVE c.pending[s] = r[s]
      <4>1. CASE s = side
        BY <1>0, <2>4, <3>4, <3>5, <3>6, <4>1, Zenon
      <4>2. CASE s # side
        BY <1>0, <2>4, <3>4, <3>6, <4>2, Zenon
      <4>3. QED
        BY <4>1, <4>2, Zenon
    <3>7. QED
      BY <2>4, <2>5, <3>4, <3>6, Zenon DEF Holds, r, c
  <2>8. QED
    BY <2>6, <2>7, Zenon
<1>3. QED
  BY <1>1, <1>2, Zenon

\* Whatever was quoted.
LEMMA BufferedLevels ==
  ASSUME NEW b, Sound(b), NEW side \in Sides, NEW level \in Levels(side) \cup {NoLevel}
  PROVE  Buffered(b, side, level).levels = b.levels
<1>1. Holds(b.pending, b.pending)
  <2>1. b.pending = [s \in Sides |-> b.pending[s]]
    BY Parts, Zenon
  <2>2. \A s \in Sides : b.pending[s] \in Seq(Levels(s))
    BY Parts, Zenon DEF Pending
  <2> DEFINE q == b.pending
  <2>3. q = [s \in Sides |-> q[s]] /\ \A s \in Sides : q[s] \in Seq(Levels(s))
    BY <2>1, <2>2, Zenon
  <2> HIDE DEF q
  <2>4. Holds(q, q)
    BY <2>3, Zenon DEF Holds
  <2>5. QED
    BY <2>4, Zenon DEF q
<1>2. QED
  BY <1>1, BufferedHolds, SMTT(30)

\* A commit brings the book to what the batch has quoted.
LEMMA CommitMatches ==
  ASSUME NEW b, Sound(b), NEW q, Holds(b.pending, q), b.levels = book.levels,
         \A s \in Sides : Matches(s, book.levels[s], ref[s], short[s]),
         Record(q), NEW s \in Sides
  PROVE  Matches(s, CommitBatch(b).levels[s], ref'[s], short'[s])
<1>1. /\ ref'[s] = Quotes(ref[s], q[s])
      /\ short'[s] = Worse(short[s], Loses(ref[s], q[s]))
  BY Zenon DEF Record
<1>2. CommitBatch(b).levels[s] = ApplyLevels(s, book.levels[s], b.pending[s])
  BY DEF CommitBatch
<1>3. q[s] \in Seq(Levels(s)) /\ (~(Len(q[s]) > MaxLevels) => b.pending[s] = q[s])
  BY Zenon DEF Holds
<1>4. b.pending[s] \in Seq(Levels(s))
  BY Parts, Zenon DEF Pending
<1>5. Matches(s, book.levels[s], ref[s], short[s])
  BY Zenon
<1>6. Matches(s, ApplyLevels(s, book.levels[s], b.pending[s]), Quotes(ref[s], q[s]),
              Worse(short[s], Loses(ref[s], q[s])))
  BY <1>3, <1>4, <1>5, UpdateKeepsMatch, Zenon
<1>7. QED
  BY <1>1, <1>2, <1>6, Zenon

\* A level applied at once is an update of one level on its side.
LEMMA AppliedLevels ==
  ASSUME NEW b, Sound(b), NEW side \in Sides, NEW level \in Levels(side), NEW s \in Sides
  PROVE  /\ Applied(b, side, level).levels[s] = ApplyLevels(s, b.levels[s], Only(side, <<level>>)[s])
         /\ Only(side, <<level>>)[s] \in Seq(Levels(s))
<1> DEFINE u == Only(side, <<level>>)[s]
<1>0. /\ b = [levels |-> b.levels, pending |-> b.pending, active |-> b.active]
      /\ b.levels = [x \in Sides |-> b.levels[x]] /\ b.levels[s] \in Ordered(s)
  BY Parts, Zenon
<1>1. CASE s = side
  <2>1. u = <<level>> /\ u \in Seq(Levels(s)) /\ Len(u) = 1 /\ u[1] = level
    BY <1>1 DEF Only
  <2>2. Applied(b, side, level).levels[s] = ApplyLevel(s, b.levels[s], level)
    BY <1>0, <1>1 DEF Applied
  <2> HIDE DEF u
  <2>3. PICK f \in [0..Len(u) -> Ordered(s)] :
          /\ f[0] = b.levels[s] /\ ApplyLevels(s, b.levels[s], u) = f[Len(u)]
          /\ \A n \in 1..Len(u) : f[n] = ApplyLevel(s, f[n - 1], u[n])
    <3>1. b.levels[s] \in Ordered(s) /\ u \in Seq(Levels(s))
      BY <1>0, <2>1
    <3>2. QED
      BY <3>1, ApplyLevelsSteps, Zenon
  <2>4. 1 \in 1..1 /\ 1 - 1 = 0
    OBVIOUS
  <2>5. f[1] = ApplyLevel(s, f[0], level)
    BY <2>1, <2>3, <2>4
  <2>6. ApplyLevels(s, b.levels[s], u) = ApplyLevel(s, b.levels[s], level)
    BY <2>1, <2>3, <2>5
  <2>7. QED
    BY <2>1, <2>2, <2>6, Zenon DEF u
<1>2. CASE s # side
  <2>1. u = << >> /\ u \in Seq(Levels(s)) /\ Len(u) = 0
    BY <1>2 DEF Only
  <2>2. Applied(b, side, level).levels[s] = b.levels[s]
    BY <1>0, <1>2 DEF Applied
  <2> HIDE DEF u
  <2>3. PICK f \in [0..Len(u) -> Ordered(s)] :
          /\ f[0] = b.levels[s] /\ ApplyLevels(s, b.levels[s], u) = f[Len(u)]
          /\ \A n \in 1..Len(u) : f[n] = ApplyLevel(s, f[n - 1], u[n])
    <3>1. b.levels[s] \in Ordered(s) /\ u \in Seq(Levels(s))
      BY <1>0, <2>1
    <3>2. QED
      BY <3>1, ApplyLevelsSteps, Zenon
  <2>4. QED
    BY <2>1, <2>2, <2>3, Zenon DEF u
<1>3. QED
  BY <1>1, <1>2, Zenon

\* Every callback keeps the book to the quotes.
LEMMA CallbackKeepsQuotes ==
  QuoteInv /\ [Next]_vars => QuoteInv'
<1> SUFFICES ASSUME QuoteInv, [Next]_vars PROVE QuoteInv'
  OBVIOUS
<1> DEFINE none == [s \in Sides |-> << >>]
           Kept == \A s \in Sides : Matches(s, book'.levels[s], ref'[s], short'[s])
<1>0. /\ BookInv /\ Sound(book) /\ Holds(book.pending, quoted)
      /\ \A s \in Sides : Matches(s, book.levels[s], ref[s], short[s])
      /\ ~book.active => \A s \in Sides : quoted[s] = << >>
  BY Zenon DEF QuoteInv, BookInv
<1>a. BookInv'
  BY <1>0, CallbackKeepsBook, Zenon
<1>b. Holds(none, none) /\ \A s \in Sides : none[s] = << >>
  BY HoldsNothing, Zenon
<1>c. ASSUME Kept, book'.pending = none, quoted' = none PROVE QuoteInv'
  BY <1>a, <1>b, <1>c, Zenon DEF QuoteInv
<1>d. ASSUME Kept, book'.pending = book.pending, book'.active = book.active, quoted' = quoted PROVE QuoteInv'
  BY <1>0, <1>a, <1>d, Zenon DEF QuoteInv
<1>e. ASSUME book'.levels = book.levels, UNCHANGED <<ref, short>>, Holds(book'.pending, quoted'), book'.active
      PROVE  QuoteInv'
  BY <1>0, <1>a, <1>e, Zenon DEF QuoteInv
<1>f. \A b : CommitBatch(b).pending = none
  BY DEF CommitBatch
<1>1. CASE EndQuote
  <2>1. book' = CommitBatch(book) /\ Record(quoted) /\ quoted' = none
    BY <1>1, Zenon DEF EndQuote
  <2>2. Kept
    BY <1>0, <2>1, CommitMatches, Zenon
  <2>3. QED
    BY <1>c, <1>f, <2>1, <2>2, Zenon
<1>2. ASSUME NEW side \in Sides, ClearQuote PROVE QuoteInv'
  <2>1. book' = EmptyBook /\ ref' = NoQuotes /\ short' = [s \in Sides |-> "nothing"] /\ quoted' = none
    BY <1>2, Zenon DEF ClearQuote, Clear
  <2>2. EmptyBook.levels = none /\ EmptyBook.pending = none
    BY DEF EmptyBook
  <2>3. Kept
    BY <2>1, <2>2, ClearedMatches, Zenon
  <2>4. QED
    BY <1>c, <2>1, <2>2, <2>3, Zenon
<1>3. ASSUME NEW side \in Sides, NEW level \in Levels(side) \cup {NoLevel}, SoloQuote(side, level)
      PROVE  QuoteInv'
  <2>1. CASE level = NoLevel
    <3>1. book' = book /\ ref' = ref /\ short' = short /\ quoted' = quoted
      BY <1>3, <2>1, Zenon DEF SoloQuote
    <3>2. QED
      BY <1>0, <1>d, <3>1, Zenon
  <2>2. CASE level # NoLevel
    <3> DEFINE u == Only(side, <<level>>)
    <3>1. /\ level \in Levels(side) /\ book' = Applied(book, side, level)
          /\ Record(u) /\ quoted' = quoted
      BY <1>3, <2>2, Zenon DEF SoloQuote
    <3>2. book'.pending = book.pending /\ book'.active = book.active
      BY <1>0, <3>1, AppliedSound, Zenon
    <3>3. ASSUME NEW s \in Sides
          PROVE  /\ book'.levels[s] = ApplyLevels(s, book.levels[s], u[s])
                 /\ u[s] \in Seq(Levels(s))
      BY <1>0, <3>1, AppliedLevels, Zenon
    <3>4. ASSUME NEW s \in Sides
          PROVE  ref'[s] = Quotes(ref[s], u[s]) /\ short'[s] = Worse(short[s], Loses(ref[s], u[s]))
      BY <3>1, Zenon DEF Record
    <3> HIDE DEF u
    <3>5. Kept
      BY <1>0, <3>3, <3>4, UpdateKeepsMatch, Zenon
    <3>6. QED
      BY <1>d, <3>1, <3>2, <3>5, Zenon
  <2>3. QED
    BY <2>1, <2>2, Zenon
<1>4. ASSUME NEW side \in Sides, NEW level \in Levels(side) \cup {NoLevel}, BeginQuote(side, level)
      PROVE  QuoteInv'
  <2> DEFINE c == IF book.active THEN CancelBatch(book) ELSE book
             b == BeginBatch(c)
  <2>1. Sound(c) /\ c.levels = book.levels
    BY <1>0, EmptyBatch DEF CancelBatch
  <2>2. book' = Buffered(b, side, level) /\ UNCHANGED <<ref, short>>
    BY <1>4, Zenon DEF BeginQuote
  <2>3. quoted' = Noting(none, side, level)
    <3>1. quoted' = Only(side, IF level = NoLevel THEN << >> ELSE <<level>>)
      BY <1>4, Zenon DEF BeginQuote
    <3>2. Append(<< >>, level) = <<level>>
      OBVIOUS
    <3>3. CASE level = NoLevel
      BY <3>1, <3>3 DEF Only, Noting
    <3>4. CASE level # NoLevel
      BY <3>1, <3>2, <3>4 DEF Only, Noting
    <3>5. QED
      BY <3>3, <3>4, Zenon
  <2> HIDE DEF c
  <2>4. Sound(b) /\ b.active /\ b.pending = none /\ b.levels = book.levels
    BY <2>1, EmptyBatch DEF BeginBatch
  <2> HIDE DEF b
  <2>5. Holds(b.pending, none)
    BY <1>b, <2>4, Zenon
  <2> HIDE DEF none
  <2>6. Holds(book'.pending, quoted') /\ book'.levels = book.levels
    BY <2>2, <2>3, <2>4, <2>5, BufferedHolds, Zenon
  <2>7. book'.active
    BY <2>2, <2>4, BufferedSound, Zenon
  <2>8. QED
    BY <1>e, <2>2, <2>6, <2>7, Zenon
<1>5. ASSUME NEW side \in Sides, NEW level \in Levels(side) \cup {NoLevel}, MiddleQuote(side, level)
      PROVE  QuoteInv'
  <2> DEFINE b == IF book.active THEN book ELSE BeginBatch(book)
  <2>1. book' = Buffered(b, side, level) /\ quoted' = Noting(quoted, side, level) /\ UNCHANGED <<ref, short>>
    BY <1>5, Zenon DEF MiddleQuote, Noted, Noting
  <2>2. Sound(b) /\ b.active /\ b.levels = book.levels
    BY <1>0, EmptyBatch DEF BeginBatch
  <2>3. Holds(b.pending, quoted)
    <3>1. CASE book.active
      BY <1>0, <3>1, Zenon
    <3>2. CASE ~book.active
      <4>1. quoted = none
        BY <1>0, <3>2, Zenon DEF Holds
      <4>2. b.pending = none
        BY <3>2 DEF BeginBatch
      <4>3. QED
        BY <1>b, <4>1, <4>2, Zenon
    <3>3. QED
      BY <3>1, <3>2, Zenon
  <2> HIDE DEF b
  <2>4. Holds(book'.pending, quoted') /\ book'.levels = book.levels
    BY <2>1, <2>2, <2>3, BufferedHolds, Zenon
  <2>5. book'.active
    BY <2>1, <2>2, BufferedSound, Zenon
  <2>6. QED
    BY <1>e, <2>1, <2>4, <2>5, Zenon
<1>6. ASSUME NEW side \in Sides, NEW level \in Levels(side) \cup {NoLevel}, EndOfBatch(side, level)
      PROVE  QuoteInv'
  <2> DEFINE b == Buffered(book, side, level)
             q == Noting(quoted, side, level)
  <2>1. book' = CommitBatch(b) /\ Record(q) /\ quoted' = none
    BY <1>6, Zenon DEF EndOfBatch, Noted, Noting
  <2>2. Sound(b) /\ Holds(b.pending, q) /\ b.levels = book.levels
    <3>1. Sound(book) /\ Holds(book.pending, quoted)
      BY <1>0, Zenon
    <3>2. Sound(b)
      BY <3>1, BufferedSound, Zenon
    <3>3. Holds(b.pending, q) /\ b.levels = book.levels
      BY <3>1, BufferedHolds, Zenon
    <3>4. QED
      BY <3>2, <3>3, Zenon
  <2> HIDE DEF b, q
  <2>3. Kept
    BY <1>0, <2>1, <2>2, CommitMatches, Zenon
  <2>4. QED
    BY <1>c, <1>f, <2>1, <2>3, Zenon
<1>7. ASSUME NEW side \in Sides, NEW array \in Arrays[side], LimitOrderBookImage(Only(side, array))
      PROVE  QuoteInv'
  <2> DEFINE u == Only(side, array)
             map(s) == Quotes(NoQuotes[s], u[s])
  <2>1. /\ book' = WithLevels(book, [s \in Sides |-> ApplyImage(u[s])])
        /\ ref' = [s \in Sides |-> map(s)]
        /\ short' = [s \in Sides |-> IF Depth(ref'[s]) > MaxLevels THEN "levels" ELSE "nothing"]
        /\ quoted' = quoted
    BY <1>7, Zenon DEF LimitOrderBookImage
  <2>2. /\ book'.pending = book.pending /\ book'.active = book.active
        /\ book'.levels = [s \in Sides |-> ApplyImage(u[s])]
    BY <2>1 DEF WithLevels
  <2>3. ASSUME NEW s \in Sides
        PROVE  Matches(s, ApplyImage(u[s]), map(s), IF Depth(map(s)) > MaxLevels THEN "levels" ELSE "nothing")
    BY ArraysSorted, ImageMatches, Zenon
  <2> HIDE DEF map, u
  <2>4. ASSUME NEW s \in Sides PROVE Matches(s, book'.levels[s], ref'[s], short'[s])
    <3>1. ref'[s] = map(s) /\ book'.levels[s] = ApplyImage(u[s])
      BY <2>1, <2>2, Zenon
    <3>2. short'[s] = IF Depth(map(s)) > MaxLevels THEN "levels" ELSE "nothing"
      BY <2>1, <3>1, Zenon
    <3>3. QED
      BY <2>3, <3>1, <3>2, Zenon
  <2>5. QED
    BY <1>d, <2>1, <2>2, <2>4, Zenon
<1>8. ASSUME NEW side \in Sides, NEW array \in Arrays[side], LimitOrderBookUpdate(Only(side, array))
      PROVE  QuoteInv'
  <2> DEFINE u == Only(side, array)
             first(s) == SubSeq(u[s], 1, IF Len(u[s]) < MaxLevels THEN Len(u[s]) ELSE MaxLevels)
  <2>1. /\ book' = WithLevels(book, [s \in Sides |-> ApplyLevels(s, book.levels[s], first(s))])
        /\ Record(u) /\ quoted' = quoted
    BY <1>8, Zenon DEF LimitOrderBookUpdate
  <2>2. /\ book'.pending = book.pending /\ book'.active = book.active
        /\ book'.levels = [s \in Sides |-> ApplyLevels(s, book.levels[s], first(s))]
    BY <2>1 DEF WithLevels
  <2>3. \A s \in Sides : u[s] \in Seq(Levels(s))
    BY ArraysSorted, Zenon
  <2> HIDE DEF u
  <2>4. ASSUME NEW s \in Sides
        PROVE  first(s) \in Seq(Levels(s)) /\ (~(Len(u[s]) > MaxLevels) => first(s) = u[s])
    BY <2>3, MaxLevelsAssumption
  <2> HIDE DEF first
  <2>5. ASSUME NEW s \in Sides PROVE Matches(s, book'.levels[s], ref'[s], short'[s])
    <3>1. ref'[s] = Quotes(ref[s], u[s]) /\ short'[s] = Worse(short[s], Loses(ref[s], u[s]))
      BY <2>1, Zenon DEF Record
    <3>2. book'.levels[s] = ApplyLevels(s, book.levels[s], first(s))
      BY <2>2, Zenon
    <3>3. QED
      BY <1>0, <2>3, <2>4, <3>1, <3>2, UpdateKeepsMatch, Zenon
  <2>6. QED
    BY <1>d, <2>1, <2>2, <2>5, Zenon
<1>9. CASE UNCHANGED vars
  <2>1. book' = book /\ ref' = ref /\ short' = short /\ quoted' = quoted
    BY <1>9, Zenon DEF vars
  <2>2. QED
    BY <1>0, <1>d, <2>1, Zenon
<1>10. ASSUME NEW side \in Sides, LimitOrderBook(side) PROVE QuoteInv'
  BY <1>7, <1>8, <1>10, Zenon DEF LimitOrderBook
<1>11. ASSUME NEW side \in Sides, Quote(side) PROVE QuoteInv'
  BY <1>2, <1>3, <1>4, <1>5, <1>6, <1>11, Zenon DEF Quote
<1>12. QED
  BY <1>1, <1>9, <1>10, <1>11, Zenon DEF Next

\* What a matching side shows, as a map, is what was quoted.
LEMMA MatchesShows ==
  ASSUME NEW side \in Sides, NEW s, NEW map, Matches(side, s, map, "nothing")
  PROVE  AsMap(side, s) = map
<1> DEFINE none == NoQuotes[side]
           shown == Quotes(none, s)
<1>1. s \in Ordered(side) /\ map \in Maps(side)
  BY Zenon DEF Matches
<1>2. Truthful(s, map) /\ Complete(s, map)
  <2>1. "nothing" # "updates"
    OBVIOUS
  <2>2. QED
    BY <2>1, Zenon DEF Matches
<1>3. none \in Maps(side) /\ \A p \in Prices(side) : none[p] = 0
  BY DEF NoQuotes, Maps
<1>4. s \in Seq(Levels(side))
  BY <1>1, Zenon DEF Ordered
<1> HIDE DEF none
<1>5. shown \in Maps(side)
  BY <1>3, <1>4, QuotedAt, Zenon
<1>6. ASSUME NEW p \in Prices(side) PROVE shown[p] = map[p]
  <2>1. shown[p] = IF At(s, p) = {} THEN none[p] ELSE s[LatestOf(At(s, p))].qty
    BY <1>3, <1>4, QuotedAt, Zenon
  <2>2. CASE At(s, p) = {}
    <3>1. ~(map[p] > 0)
      BY <1>1, <1>2, <2>2, Zenon DEF Complete, At, Maps
    <3>2. map[p] \in Nat
      BY <1>1 DEF Maps
    <3>3. QED
      BY <1>3, <2>1, <2>2, <3>1, <3>2
  <2>3. CASE At(s, p) # {}
    <3>1. At(s, p) \in SUBSET (1..Len(s)) /\ Len(s) \in Nat
      BY <1>4 DEF At
    <3>2. LatestOf(At(s, p)) \in At(s, p)
      BY <2>3, <3>1, LastPosition, Zenon
    <3>3. s[LatestOf(At(s, p))].qty = map[p]
      BY <1>2, <3>2, Zenon DEF At, Truthful
    <3>4. QED
      BY <2>1, <2>3, <3>3, Zenon
  <2>4. QED
    BY <2>2, <2>3, Zenon
<1> HIDE DEF shown
<1>7. shown = map
  BY <1>1, <1>5, <1>6 DEF Maps
<1>8. QED
  BY <1>7, Zenon DEF AsMap, shown, none

\* The quotes and the book as they start.
LEMMA InitQuotes ==
  Init => QuoteInv
<1> SUFFICES ASSUME Init PROVE QuoteInv
  OBVIOUS
<1>1. /\ book = EmptyBook /\ ref = NoQuotes
      /\ quoted = [s \in Sides |-> << >>] /\ short = [s \in Sides |-> "nothing"]
  BY Zenon DEF Init, NoQuotes
<1>2. BookInv
  BY <1>1, EmptyBookSound, Zenon DEF BookInv
<1>3. book.levels = [s \in Sides |-> << >>] /\ book.pending = [s \in Sides |-> << >>]
  BY <1>1 DEF EmptyBook
<1>4. \A s \in Sides : Matches(s, book.levels[s], ref[s], short[s])
  BY <1>1, <1>3, ClearedMatches, Zenon
<1>5. Holds(book.pending, quoted) /\ \A s \in Sides : quoted[s] = << >>
  BY <1>1, <1>3, HoldsNothing, Zenon
<1>6. QED
  BY <1>2, <1>4, <1>5, Zenon DEF QuoteInv

\* Whatever mixture of quotes, batches, images, updates and clears the R|API
\* delivers, a side that has lost nothing shows exactly what was quoted, and one
\* that was too full shows nothing that is not.
THEOREM BookFollowsQuotes == Spec => []BookMatchesQuotes
<1>1. QuoteInv => BookMatchesQuotes
  <2> SUFFICES ASSUME QuoteInv PROVE BookMatchesQuotes
    OBVIOUS
  <2>1. BookInv /\ \A s \in Sides : Matches(s, book.levels[s], ref[s], short[s])
    BY Zenon DEF QuoteInv
  <2>2. SidesSorted
    BY <2>1, BookIsSorted, Zenon
  <2>3. ASSUME NEW s \in Sides, short[s] = "nothing" PROVE AsMap(s, book.levels[s]) = ref[s]
    BY <2>1, <2>3, MatchesShows, Zenon
  <2>4. ASSUME NEW s \in Sides, short[s] = "levels" PROVE Truthful(book.levels[s], ref[s])
    BY <2>1, <2>4 DEF Matches
  <2>5. QED
    BY <2>2, <2>3, <2>4, Zenon DEF BookMatchesQuotes, Truthful
<1>2. QED
  BY <1>1, InitQuotes, CallbackKeepsQuotes, PTL DEF Spec

\* After every callback the last snapshot pushed is the book, except that an
\* empty book may not have been pushed: no callback changes what the book shows
\* without pushing it, and a batch that is open or cancelled changes nothing of it.
THEOREM SnapshotsAreCurrent == Spec => []SnapshotIsCurrent
<1>1. Init => QuoteInv /\ SnapshotIsCurrent
  BY InitQuotes, Zenon DEF Init, SnapshotIsCurrent
<1>2. QuoteInv /\ SnapshotIsCurrent /\ [Next]_vars => SnapshotIsCurrent'
  <2> SUFFICES ASSUME QuoteInv, SnapshotIsCurrent, [Next]_vars PROVE SnapshotIsCurrent'
    OBVIOUS
  <2>0. Sound(book) /\ Holds(book.pending, quoted)
    BY Zenon DEF QuoteInv, BookInv
  <2>a. ASSUME PushSnapshot(book') PROVE SnapshotIsCurrent'
    BY <2>a, Zenon DEF PushSnapshot, SnapshotIsCurrent, IsEmpty
  <2>b. ASSUME book'.levels = book.levels, published' = published PROVE SnapshotIsCurrent'
    BY <2>b, Zenon DEF SnapshotIsCurrent, IsEmpty
  <2>1. CASE EndQuote
    BY <2>1, <2>a, Zenon DEF EndQuote
  <2>2. CASE ClearQuote
    BY <2>2, <2>a, Zenon DEF ClearQuote
  <2>3. ASSUME NEW side \in Sides, NEW level \in Levels(side) \cup {NoLevel}, SoloQuote(side, level)
        PROVE  SnapshotIsCurrent'
    BY <2>3, <2>a, Zenon DEF SoloQuote
  <2>4. ASSUME NEW side \in Sides, NEW level \in Levels(side) \cup {NoLevel}, BeginQuote(side, level)
        PROVE  SnapshotIsCurrent'
    <3> DEFINE c == IF book.active THEN CancelBatch(book) ELSE book
    <3>1. Sound(c) /\ c.levels = book.levels
      BY <2>0, EmptyBatch DEF CancelBatch
    <3>2. book' = Buffered(BeginBatch(c), side, level) /\ published' = published
      BY <2>4, Zenon DEF BeginQuote
    <3> HIDE DEF c
    <3>3. Sound(BeginBatch(c)) /\ BeginBatch(c).levels = book.levels
      BY <3>1, EmptyBatch DEF BeginBatch
    <3>4. book'.levels = book.levels
      BY <3>2, <3>3, BufferedLevels, Zenon
    <3>5. QED
      BY <2>b, <3>2, <3>4, Zenon
  <2>5. ASSUME NEW side \in Sides, NEW level \in Levels(side) \cup {NoLevel}, MiddleQuote(side, level)
        PROVE  SnapshotIsCurrent'
    <3> DEFINE c == IF book.active THEN book ELSE BeginBatch(book)
    <3>1. Sound(c) /\ c.levels = book.levels
      BY <2>0, EmptyBatch DEF BeginBatch
    <3>2. book' = Buffered(c, side, level) /\ published' = published
      BY <2>5, Zenon DEF MiddleQuote
    <3> HIDE DEF c
    <3>3. book'.levels = book.levels
      BY <3>1, <3>2, BufferedLevels, Zenon
    <3>4. QED
      BY <2>b, <3>2, <3>3, Zenon
  <2>6. ASSUME NEW side \in Sides, NEW level \in Levels(side) \cup {NoLevel}, EndOfBatch(side, level)
        PROVE  SnapshotIsCurrent'
    BY <2>6, <2>a, Zenon DEF EndOfBatch
  <2>7. ASSUME NEW arrays, LimitOrderBookImage(arrays) PROVE SnapshotIsCurrent'
    BY <2>7, <2>a, Zenon DEF LimitOrderBookImage
  <2>8. ASSUME NEW arrays, LimitOrderBookUpdate(arrays) PROVE SnapshotIsCurrent'
    BY <2>8, <2>a, Zenon DEF LimitOrderBookUpdate
  <2>9. CASE UNCHANGED vars
    BY <2>9, <2>b, Zenon DEF vars
  <2>10. QED
    BY <2>1, <2>2, <2>3, <2>4, <2>5, <2>6, <2>7, <2>8, <2>9, Zenon DEF Next, Quote, LimitOrderBook
<1>3. QED
  BY <1>1, <1>2, CallbackKeepsQuotes, PTL DEF Spec
=============================================================================

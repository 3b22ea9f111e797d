----------------------------- MODULE BuddyProofs -----------------------------
(***************************************************************************)
(* Proofs about module Buddy: for every size and granularity of the area   *)
(* and all sequences of requests, the free lists and the array blocks      *)
(* agree, the blocks divide the area, and the callers see a heap.          *)
(***************************************************************************)
EXTENDS Buddy, TextProofs, SequenceTheorems

(***************************************************************************)
(* Powers of two and aligned blocks.                                       *)
(***************************************************************************)
LEMMA Pow2 ==
    /\ pow2[0] = 1
    /\ \A k \in 1 .. MAXORDER : pow2[k] = 2 * pow2[k - 1]
    /\ \A k \in 0 .. MAXORDER : pow2[k] \in Nat /\ pow2[k] >= 1
<1>1. PICK n \in Nat : n = MAXORDER
  BY BuddyAssumption
<1>2. PICK step : step = [k \in 1 .. n |-> [x \in Nat |-> 2 * x]]
  OBVIOUS
<1>3. PICK g \in [0 .. n -> Nat] : g[0] = 1 /\ \A k \in 1 .. n : g[k] = step[k][g[k - 1]]
  <2>1. PICK D : D = Nat
    OBVIOUS
  <2>2. PICK a \in D : a = 1
    BY <2>1
  <2>3. step \in [1 .. n -> [D -> D]]
    BY <1>2, <2>1
  <2>4. \E g \in [0 .. n -> D] : Iterates(g, n, a, step)
    BY <2>3, Recursion
  <2> QED
    BY <2>1, <2>2, <2>4 DEF Iterates
<1>4. ASSUME NEW k \in 0 .. n PROVE g[k] = IF k = 0 THEN 1 ELSE 2 * g[k - 1]
  <2>1. CASE k = 0
    BY <1>3, <2>1
  <2>2. CASE k # 0
    <3>1. k \in 1 .. n /\ k - 1 \in 0 .. n
      BY <2>2
    <3>2. g[k - 1] \in Nat
      BY <3>1
    <3> QED
      BY <1>2, <1>3, <2>2, <3>1, <3>2
  <2> QED
    BY <2>1, <2>2
<1>5. g = [k \in 0 .. n |-> IF k = 0 THEN 1 ELSE 2 * g[k - 1]]
  BY <1>4
<1>6. pow2 = CHOOSE f : f = [k \in 0 .. n |-> IF k = 0 THEN 1 ELSE 2 * f[k - 1]]
  BY <1>1 DEF pow2
<1>7. PICK h : h = pow2
  OBVIOUS
<1>8. h = [k \in 0 .. n |-> IF k = 0 THEN 1 ELSE 2 * h[k - 1]]
  BY <1>5, <1>6, <1>7
<1>9. h[0] = 1 /\ \A k \in 1 .. n : h[k] = 2 * h[k - 1]
  BY <1>8
<1>10. \A k \in 0 .. n : h[k] \in Nat /\ h[k] >= 1
  <2>1. PICK T : T = {k \in Nat : k <= n => h[k] \in Nat /\ h[k] >= 1}
    OBVIOUS
  <2>2. 0 \in T
    BY <1>9, <2>1
  <2>3. ASSUME NEW k \in Nat, k \in T PROVE k + 1 \in T
    <3> SUFFICES ASSUME k + 1 <= n PROVE h[k + 1] \in Nat /\ h[k + 1] >= 1
      BY <2>1
    <3>1. h[k] \in Nat /\ h[k] >= 1
      BY <2>1, <2>3
    <3>2. k + 1 \in 1 .. n /\ (k + 1) - 1 = k
      OBVIOUS
    <3>3. h[k + 1] = 2 * h[k]
      BY <1>9, <3>2
    <3> QED
      BY <3>1, <3>3
  <2>4. \A k \in Nat : k \in T
    BY <2>2, <2>3, Induction
  <2> QED
    BY <2>1, <2>4
<1> QED
  BY <1>1, <1>7, <1>9, <1>10

(* b is a multiple of 2^k.                                                 *)
Aligned(b, k) == \E q \in Nat : b = q * pow2[k]

(* Two multiples differ by at least the power.                             *)
LEMMA Apart ==
    ASSUME NEW k \in 0 .. MAXORDER, NEW b, NEW c, Aligned(b, k), Aligned(c, k), b < c
    PROVE  b + pow2[k] <= c
<1>1. PICK p \in Nat : p = pow2[k] /\ p >= 1
  BY Pow2
<1>2. PICK q \in Nat, r \in Nat : b = q * p /\ c = r * p
  BY <1>1 DEF Aligned
<1>3. q < r
  <2>1. SUFFICES ASSUME r <= q PROVE FALSE
    OBVIOUS
  <2>2. PICK d \in Nat : q = r + d
    BY <2>1
  <2>3. q * p = r * p + d * p /\ d * p \in Nat
    BY <2>2
  <2> QED
    BY <1>2, <2>3
<1>4. PICK d \in Nat : r = q + 1 + d
  BY <1>3
<1>5. r * p = q * p + p + d * p /\ d * p \in Nat
  BY <1>4
<1> QED
  BY <1>1, <1>2, <1>5

LEMMA AlignedType == ASSUME NEW k \in 0 .. MAXORDER, NEW b, Aligned(b, k) PROVE b \in Nat
<1>1. PICK p \in Nat : p = pow2[k]
  BY Pow2
<1>2. PICK q \in Nat : b = q * p
  BY <1>1 DEF Aligned
<1> QED
  BY <1>2

(* The halves of an aligned block are aligned.                             *)
LEMMA Halves ==
    ASSUME NEW k \in 1 .. MAXORDER, NEW b, Aligned(b, k)
    PROVE  Aligned(b, k - 1) /\ Aligned(b + pow2[k - 1], k - 1)
<1>1. PICK p \in Nat : p = pow2[k - 1] /\ pow2[k] = 2 * p
  BY Pow2, BuddyAssumption
<1>2. PICK q \in Nat : b = q * (2 * p)
  BY <1>1 DEF Aligned
<1>3. PICK r \in Nat : r = 2 * q
  OBVIOUS
<1>4. b = r * p /\ b + p = (r + 1) * p
  BY <1>2, <1>3
<1> QED
  BY <1>1, <1>4 DEF Aligned

LEMMA Finer ==
    ASSUME NEW k \in 0 .. MAXORDER, NEW j \in 0 .. k, NEW b, Aligned(b, k)
    PROVE  Aligned(b, j)
<1>1. PICK T : T = {d \in Nat : d <= k => Aligned(b, k - d)}
  OBVIOUS
<1>2. 0 \in T
  BY <1>1, BuddyAssumption
<1>3. ASSUME NEW d \in Nat, d \in T PROVE d + 1 \in T
  <2> SUFFICES ASSUME d + 1 <= k PROVE Aligned(b, k - (d + 1))
    BY <1>1
  <2>1. PICK i \in 1 .. MAXORDER : i = k - d /\ Aligned(b, i)
    BY <1>1, <1>3, BuddyAssumption
  <2>2. Aligned(b, i - 1)
    BY <2>1, Halves
  <2>3. i - 1 = k - (d + 1)
    BY <2>1, BuddyAssumption
  <2> QED
    BY <2>2, <2>3
<1>4. k - j \in Nat /\ k - j <= k /\ k - (k - j) = j
  BY BuddyAssumption
<1>5. k - j \in T
  BY <1>2, <1>3, <1>4, Induction
<1> QED
  BY <1>1, <1>4, <1>5

LEMMA NextAligned ==
    ASSUME NEW k \in 0 .. MAXORDER, NEW b, Aligned(b, k)
    PROVE  Aligned(b + pow2[k], k)
<1>1. PICK p \in Nat : p = pow2[k]
  BY Pow2
<1>2. PICK q \in Nat : b = q * p
  BY <1>1 DEF Aligned
<1>3. b + p = (q + 1) * p
  BY <1>2
<1> QED
  BY <1>1, <1>3 DEF Aligned

LEMMA Doubles ==
    ASSUME NEW k \in 0 .. MAXORDER, NEW j \in 0 .. MAXORDER, j < k
    PROVE  pow2[j] < pow2[k]
<1>1. PICK T : T = {d \in Nat : j + 1 + d <= MAXORDER => pow2[j] < pow2[j + 1 + d]}
  OBVIOUS
<1>2. j \in Nat /\ k \in Nat /\ MAXORDER \in Nat /\ pow2[j] \in Nat /\ pow2[j] >= 1
  BY Pow2, BuddyAssumption
<1>3. 0 \in T
  <2> SUFFICES ASSUME j + 1 <= MAXORDER PROVE pow2[j] < pow2[j + 1 + 0]
    BY <1>1, <1>2
  <2>1. PICK i \in 1 .. MAXORDER : i = j + 1 /\ i - 1 = j /\ i = j + 1 + 0
    BY <1>2
  <2>2. pow2[i] = 2 * pow2[i - 1]
    BY Pow2
  <2> QED
    BY <1>2, <2>1, <2>2
<1>4. ASSUME NEW d \in Nat, d \in T PROVE d + 1 \in T
  <2> SUFFICES ASSUME j + 1 + (d + 1) <= MAXORDER PROVE pow2[j] < pow2[j + 1 + (d + 1)]
    BY <1>1
  <2>1. pow2[j] < pow2[j + 1 + d]
    BY <1>1, <1>2, <1>4
  <2>2. PICK i \in 1 .. MAXORDER : i = j + 1 + (d + 1) /\ i - 1 = j + 1 + d /\ i - 1 \in 0 .. MAXORDER
    BY <1>2
  <2>3. pow2[i] = 2 * pow2[i - 1] /\ pow2[i - 1] \in Nat /\ pow2[i - 1] >= 1
    BY <2>2, Pow2
  <2> QED
    BY <1>2, <2>1, <2>2, <2>3
<1>5. k - (j + 1) \in Nat /\ j + 1 + (k - (j + 1)) = k
  BY <1>2
<1>6. k - (j + 1) \in T
  BY <1>3, <1>4, <1>5, Induction
<1> QED
  BY <1>1, <1>2, <1>5, <1>6


LEMMA Product ==
    ASSUME NEW i \in 0 .. MAXORDER, NEW j \in 0 .. MAXORDER, i + j <= MAXORDER
    PROVE  pow2[i + j] = pow2[i] * pow2[j]
<1>1. PICK T : T = {d \in Nat : d + j <= MAXORDER => pow2[d + j] = pow2[d] * pow2[j]}
  OBVIOUS
<1>2. i \in Nat /\ j \in Nat /\ MAXORDER \in Nat /\ pow2[j] \in Nat
  BY Pow2, BuddyAssumption
<1>3. 0 \in T
  <2>1. 0 + j = j /\ pow2[0] = 1 /\ 1 * pow2[j] = pow2[j]
    BY <1>2, Pow2
  <2> QED
    BY <1>1, <2>1
<1>4. ASSUME NEW d \in Nat, d \in T PROVE d + 1 \in T
  <2> SUFFICES ASSUME (d + 1) + j <= MAXORDER PROVE pow2[(d + 1) + j] = pow2[d + 1] * pow2[j]
    BY <1>1
  <2>1. pow2[d + j] = pow2[d] * pow2[j]
    BY <1>1, <1>2, <1>4
  <2>2. PICK u \in 1 .. MAXORDER : u = d + 1 /\ u - 1 = d
    BY <1>2
  <2>3. PICK v \in 1 .. MAXORDER : v = (d + 1) + j /\ v - 1 = d + j
    BY <1>2
  <2>4. pow2[u] = 2 * pow2[d] /\ pow2[v] = 2 * pow2[d + j]
    BY <2>2, <2>3, Pow2
  <2>5. PICK a \in Nat : a = pow2[d]
    <3>1. d \in 0 .. MAXORDER
      BY <1>2
    <3> QED
      BY <3>1, Pow2
  <2>6. 2 * (a * pow2[j]) = (2 * a) * pow2[j]
    BY <1>2
  <2> QED
    BY <2>1, <2>2, <2>3, <2>4, <2>5, <2>6
<1>5. i \in T
  BY <1>2, <1>3, <1>4, Induction
<1> QED
  BY <1>1, <1>2, <1>5

LEMMA Orders ==
    /\ LOWER \in 1 .. UPPER /\ UPPER \in 1 .. (MAXORDER - 1) /\ MAXORDER \in Nat
    /\ LOWER \in 0 .. MAXORDER /\ UPPER \in 0 .. MAXORDER /\ UPPER - LOWER \in 0 .. MAXORDER
    /\ LOWER \in Nat /\ UPPER \in Nat
    /\ Size = pow2[UPPER] /\ Size \in Nat /\ Size >= 1
<1>1. /\ LOWER \in 1 .. UPPER /\ UPPER \in 1 .. (MAXORDER - 1) /\ MAXORDER \in Nat
      /\ LOWER \in 0 .. MAXORDER /\ UPPER \in 0 .. MAXORDER /\ UPPER - LOWER \in 0 .. MAXORDER
      /\ LOWER \in Nat /\ UPPER \in Nat
  BY BuddyAssumption
<1> QED
  BY <1>1, Pow2 DEF Size

(* The offsets are the multiples of the granularity within the area.       *)
LEMMA Offsets ==
    ASSUME NEW b
    PROVE  b \in Offset <=> Aligned(b, LOWER) /\ b < Size
<1>1. PICK p \in Nat, s \in Nat, g \in Nat :
          p = pow2[LOWER] /\ s = pow2[UPPER] /\ g = pow2[UPPER - LOWER] /\ p >= 1 /\ g >= 1
  BY Pow2, Orders
<1>2. s = g * p
  <2>1. PICK i \in 0 .. MAXORDER, j \in 0 .. MAXORDER : i = UPPER - LOWER /\ j = LOWER
    BY Orders
  <2>2. i + j = UPPER /\ i + j <= MAXORDER
    BY <2>1, Orders
  <2>3. pow2[i + j] = pow2[i] * pow2[j]
    BY <2>2, Product
  <2> QED
    BY <1>1, <2>1, <2>2, <2>3
<1>3. ASSUME b \in Offset PROVE Aligned(b, LOWER) /\ b < Size
  <2>1. PICK q \in 0 .. (g - 1) : b = q * p
    BY <1>1, <1>3 DEF Offset, Granule
  <2>2. PICK d \in Nat : g = q + 1 + d
    <3>1. g - (q + 1) \in Nat /\ g = q + 1 + (g - (q + 1))
      BY <2>1
    <3> QED
      BY <3>1
  <2>3. g * p = q * p + p + d * p /\ d * p \in Nat /\ q * p \in Nat
    BY <2>1, <2>2
  <2>4. b < s
    BY <1>1, <1>2, <2>1, <2>3
  <2> QED
    BY <1>1, <2>1, <2>4, Orders DEF Aligned
<1>4. ASSUME Aligned(b, LOWER), b < Size PROVE b \in Offset
  <2>1. PICK q \in Nat : b = q * p
    BY <1>1, <1>4 DEF Aligned
  <2>2. q < g
    <3>1. SUFFICES ASSUME g <= q PROVE FALSE
      OBVIOUS
    <3>2. PICK d \in Nat : q = g + d
      BY <3>1
    <3>3. q * p = g * p + d * p /\ d * p \in Nat /\ g * p \in Nat
      BY <3>2
    <3>4. b < s
      BY <1>1, <1>4, Orders
    <3> QED
      BY <1>2, <2>1, <3>3, <3>4
  <2>3. q \in 0 .. (g - 1)
    BY <2>2
  <2> QED
    BY <1>1, <2>1, <2>3 DEF Offset, Granule
<1> QED
  BY <1>3, <1>4

(* Each offset has an element of the array blocks to itself.               *)
LEMMA Indices ==
    /\ \A b \in Offset : idx(b) \in Granule /\ b = idx(b) * pow2[LOWER]
    /\ \A b \in Offset, c \in Offset : idx(b) = idx(c) => b = c
    /\ \A g \in Granule : g * pow2[LOWER] \in Offset /\ idx(g * pow2[LOWER]) = g
<1>1. PICK p \in Nat : p = pow2[LOWER] /\ p >= 1
  BY Pow2, Orders
<1>2. ASSUME NEW g \in Granule PROVE g * p \in Offset /\ idx(g * p) = g
  <2>1. g \in Nat
    BY Pow2, Orders DEF Granule
  <2>2. (g * p) \div p = g
    BY <1>1, <2>1
  <2> QED
    BY <1>1, <2>2 DEF Offset, idx
<1>3. ASSUME NEW b \in Offset PROVE idx(b) \in Granule /\ b = idx(b) * p
  <2>1. PICK g \in Granule : b = g * p
    BY <1>1 DEF Offset
  <2> QED
    BY <1>2, <2>1
<1>4. \A b \in Offset, c \in Offset : idx(b) = idx(c) => b = c
  BY <1>3
<1> QED
  BY <1>1, <1>2, <1>3, <1>4


(* An aligned block that begins in the area lies in it.                    *)
LEMMA Inside ==
    ASSUME NEW k \in LOWER .. UPPER, NEW b, Aligned(b, k), b < Size
    PROVE  /\ k \in 0 .. MAXORDER /\ k \in Nat /\ pow2[k] \in Nat /\ pow2[k] >= 1
           /\ b \in Offset /\ b \in Nat /\ b + pow2[k] <= Size
<1>1. k \in 0 .. MAXORDER /\ k \in 0 .. UPPER /\ k \in Nat /\ LOWER \in 0 .. k
  BY Orders
<1>2. pow2[k] \in Nat /\ pow2[k] >= 1
  BY <1>1, Pow2
<1>3. Aligned(Size, UPPER)
  <2>1. Size = 1 * pow2[UPPER]
    BY Orders
  <2> QED
    BY <2>1 DEF Aligned
<1>4. Aligned(Size, k)
  BY <1>1, <1>3, Finer, Orders
<1>5. b + pow2[k] <= Size
  BY <1>1, <1>4, Apart
<1>6. Aligned(b, LOWER)
  BY <1>1, Finer
<1> QED
  BY <1>1, <1>2, <1>5, <1>6, Offsets, AlignedType

(* b and c are the halves of an aligned block of size 2^(k+1).             *)
Twins(b, c, k) == k \in LOWER .. (UPPER - 1) /\ Aligned(b, k + 1) /\ c = b + pow2[k]

LEMMA TwinBlocks ==
    ASSUME NEW b, NEW c, NEW k, Twins(b, c, k), b < Size
    PROVE  /\ k \in LOWER .. UPPER /\ k + 1 \in LOWER .. UPPER /\ k \in 0 .. MAXORDER
           /\ k \in Nat /\ pow2[k] \in Nat /\ pow2[k] >= 1 /\ pow2[k + 1] = 2 * pow2[k]
           /\ b \in Offset /\ c \in Offset /\ b \in Nat /\ c \in Nat
           /\ Aligned(b, k) /\ Aligned(c, k) /\ Aligned(b, k + 1)
           /\ b + pow2[k + 1] <= Size /\ c + pow2[k] <= Size /\ b < c /\ c < Size
<1>1. /\ k \in LOWER .. UPPER /\ k + 1 \in LOWER .. UPPER /\ k + 1 \in 1 .. MAXORDER
      /\ k \in 0 .. MAXORDER /\ k \in Nat /\ (k + 1) - 1 = k
  BY Orders DEF Twins
<1>2. pow2[k] \in Nat /\ pow2[k] >= 1 /\ pow2[k + 1] = 2 * pow2[k]
  <2>1. PICK i \in 1 .. MAXORDER : i = k + 1 /\ i - 1 = k
    BY <1>1
  <2>2. pow2[i] = 2 * pow2[i - 1]
    BY Pow2
  <2> QED
    BY <1>1, <2>1, <2>2, Pow2
<1>3. Aligned(b, k + 1) /\ c = b + pow2[k]
  BY DEF Twins
<1>4. Aligned(b, k) /\ Aligned(c, k)
  <2>1. PICK i \in 1 .. MAXORDER : i = k + 1 /\ i - 1 = k
    BY <1>1
  <2>2. Aligned(b, i - 1) /\ Aligned(b + pow2[i - 1], i - 1)
    BY <1>3, <2>1, Halves
  <2> QED
    BY <1>3, <2>1, <2>2
<1>5. b \in Offset /\ b \in Nat /\ b + pow2[k + 1] <= Size
  <2>1. PICK i \in LOWER .. UPPER : i = k + 1
    BY <1>1
  <2>2. b \in Offset /\ b \in Nat /\ b + pow2[i] <= Size
    BY <1>3, <2>1, Inside
  <2> QED
    BY <2>1, <2>2
<1>6. c \in Nat /\ b < c /\ c < Size /\ c + pow2[k] <= Size
  BY <1>2, <1>3, <1>5, Orders
<1>7. c \in Offset
  BY <1>1, <1>4, <1>6, Inside
<1> QED
  BY <1>1, <1>2, <1>3, <1>4, <1>5, <1>6, <1>7

(* get_buddy finds the other half.                                         *)
LEMMA GetBuddy ==
    ASSUME NEW k \in LOWER .. (UPPER - 1), NEW b, Aligned(b, k), b < Size
    PROVE  Twins(b, get_buddy(b, k), k) \/ Twins(get_buddy(b, k), b, k)
<1>1. k \in 0 .. MAXORDER /\ k \in Nat /\ k + 1 \in 1 .. MAXORDER
  BY Orders
<1>2. PICK p \in Nat : p = pow2[k] /\ p >= 1
  BY <1>1, Pow2
<1>3. pow2[k + 1] = 2 * p
  <2>1. PICK i \in 1 .. MAXORDER : i = k + 1 /\ i - 1 = k
    BY <1>1
  <2>2. pow2[i] = 2 * pow2[i - 1]
    BY Pow2
  <2> QED
    BY <1>2, <2>1, <2>2
<1>4. PICK q \in Nat : b = q * p
  BY <1>2 DEF Aligned
<1>5. b \div p = q
  BY <1>2, <1>4
<1>6. get_buddy(b, k) = IF q % 2 = 1 THEN b - p ELSE b + p
  BY <1>2, <1>5 DEF get_buddy
<1>7. CASE q % 2 = 1
  <2>1. PICK r \in Nat : q = 2 * r + 1
    <3>1. q \div 2 \in Nat /\ q = 2 * (q \div 2) + 1
      BY <1>7
    <3> QED
      BY <3>1
  <2>2. b = r * (2 * p) + p
    BY <1>4, <2>1
  <2>3. PICK c \in Nat : c = r * (2 * p)
    OBVIOUS
  <2>4. get_buddy(b, k) = c /\ b = c + p
    BY <1>6, <1>7, <2>2, <2>3
  <2>5. Aligned(c, k + 1)
    BY <1>3, <2>3 DEF Aligned
  <2> QED
    BY <1>2, <2>4, <2>5 DEF Twins
<1>8. CASE q % 2 # 1
  <2>1. PICK r \in Nat : q = 2 * r
    <3>1. q \div 2 \in Nat /\ q = 2 * (q \div 2)
      BY <1>8
    <3> QED
      BY <3>1
  <2>2. b = r * (2 * p)
    BY <1>4, <2>1
  <2>3. Aligned(b, k + 1)
    BY <1>3, <2>2 DEF Aligned
  <2> QED
    BY <1>2, <1>6, <1>8, <2>3 DEF Twins
<1> QED
  BY <1>7, <1>8

(* A block has one twin.                                                   *)
LEMMA OneTwin ==
    ASSUME NEW b, NEW c, NEW d, NEW k, Twins(b, c, k), b < Size
    PROVE  /\ Twins(b, d, k) => d = c
           /\ Twins(d, c, k) => d = b
           /\ ~Twins(c, d, k)
           /\ ~Twins(d, b, k)
<1>1. /\ k \in LOWER .. UPPER /\ k + 1 \in LOWER .. UPPER /\ k + 1 \in 0 .. MAXORDER
      /\ pow2[k] \in Nat /\ pow2[k] >= 1 /\ pow2[k + 1] = 2 * pow2[k]
      /\ b \in Nat /\ c \in Nat /\ c = b + pow2[k] /\ Aligned(b, k + 1) /\ b < c /\ c < Size
  <2>1. /\ k \in LOWER .. UPPER /\ k + 1 \in LOWER .. UPPER
        /\ pow2[k] \in Nat /\ pow2[k] >= 1 /\ pow2[k + 1] = 2 * pow2[k]
        /\ b \in Nat /\ c \in Nat /\ Aligned(b, k + 1) /\ b < c /\ c < Size
    BY TwinBlocks
  <2>2. c = b + pow2[k]
    BY DEF Twins
  <2>3. k + 1 \in 0 .. MAXORDER
    BY <2>1, Orders
  <2> QED
    BY <2>1, <2>2, <2>3
<1>2. PICK i \in 0 .. MAXORDER : i = k + 1 /\ pow2[i] = 2 * pow2[k] /\ Aligned(b, i)
  BY <1>1
<1>3. Twins(b, d, k) => d = c
  BY <1>1 DEF Twins
<1>4. ASSUME Twins(d, c, k) PROVE d = b
  <2>1. c = d + pow2[k] /\ Aligned(d, i)
    BY <1>2, <1>4 DEF Twins
  <2>2. d \in Nat
    BY <2>1, AlignedType
  <2> QED
    BY <1>1, <2>1, <2>2
<1>5. ASSUME Twins(c, d, k) PROVE FALSE
  <2>1. Aligned(c, i)
    BY <1>2, <1>5 DEF Twins
  <2>2. b + pow2[i] <= c
    BY <1>1, <1>2, <2>1, Apart
  <2> QED
    BY <1>1, <1>2, <2>2
<1>6. ASSUME Twins(d, b, k) PROVE FALSE
  <2>1. Aligned(d, i) /\ b = d + pow2[k]
    BY <1>2, <1>6 DEF Twins
  <2>2. d \in Nat
    BY <2>1, AlignedType
  <2>3. d < b
    BY <1>1, <2>1, <2>2
  <2>4. d + pow2[i] <= b
    BY <1>2, <2>1, <2>3, Apart
  <2> QED
    BY <1>1, <1>2, <2>1, <2>2, <2>4
<1> QED
  BY <1>3, <1>4, <1>5, <1>6


(***************************************************************************)
(* Partitions of the area.  S gives the order of the block that begins at  *)
(* an offset, or 0 if none begins there.                                   *)
(***************************************************************************)
Orders0 == {0} \cup (LOWER .. UPPER)

Within(S)   == \A b \in Offset : S[b] # 0 => Aligned(b, S[b])
Separate(S) == \A b, c \in Offset : S[b] # 0 /\ S[c] # 0 /\ b < c => b + pow2[S[b]] <= c
Covering(S) == \A x \in 0 .. (Size - 1) :
                   \E b \in Offset : S[b] # 0 /\ b <= x /\ x < b + pow2[S[b]]

Partition(S) == S \in [Offset -> Orders0] /\ Within(S) /\ Separate(S) /\ Covering(S)

LEMMA BlockType ==
    ASSUME NEW S, Partition(S), NEW b \in Offset
    PROVE  /\ b \in Nat /\ b < Size
           /\ S[b] # 0 => /\ S[b] \in LOWER .. UPPER /\ Aligned(b, S[b])
                          /\ pow2[S[b]] \in Nat /\ pow2[S[b]] >= 1 /\ b + pow2[S[b]] <= Size
<1>1. Aligned(b, LOWER) /\ b < Size
  BY Offsets
<1>2. b \in Nat
  BY <1>1, Orders, AlignedType
<1>3. ASSUME S[b] # 0
      PROVE  /\ S[b] \in LOWER .. UPPER /\ Aligned(b, S[b])
             /\ pow2[S[b]] \in Nat /\ pow2[S[b]] >= 1 /\ b + pow2[S[b]] <= Size
  <2>1. PICK k \in LOWER .. UPPER : k = S[b]
    BY <1>3 DEF Partition, Orders0
  <2>2. Aligned(b, k)
    BY <1>3, <2>1 DEF Partition, Within
  <2>3. pow2[k] \in Nat /\ pow2[k] >= 1 /\ b + pow2[k] <= Size
    BY <1>1, <2>2, Inside
  <2> QED
    BY <2>1, <2>2, <2>3
<1> QED
  BY <1>1, <1>2, <1>3

(* The function g is f with one or two of its values replaced.             *)
Put(g, f, i, v)          == g = [f EXCEPT ![i] = v]
PutTwo(g, f, i, v, j, w) == g = [f EXCEPT ![i] = v, ![j] = w]

(* A split.                                                                *)
LEMMA SplitPartition ==
    ASSUME NEW S, Partition(S), NEW b \in Offset, NEW c, NEW k, Twins(b, c, k), S[b] = k + 1,
           NEW T, PutTwo(T, S, b, k, c, k)
    PROVE  c \in Offset /\ S[c] = 0 /\ c # b /\ Partition(T)
<1>1. b \in Nat /\ b < Size
  BY BlockType
<1>2. /\ k \in LOWER .. UPPER /\ k \in Nat /\ pow2[k] \in Nat /\ pow2[k] >= 1
      /\ pow2[k + 1] = 2 * pow2[k] /\ c \in Offset /\ c \in Nat /\ Aligned(b, k) /\ Aligned(c, k)
      /\ b < c /\ k # 0
  BY <1>1, TwinBlocks, Orders
<1>3. c = b + pow2[k]
  BY DEF Twins
<1>4. PICK p \in Nat : p = pow2[k] /\ p >= 1
  BY <1>2
<1>5. S[b] # 0 /\ pow2[S[b]] = 2 * p
  BY <1>2, <1>4
<1>6. S \in [Offset -> Orders0]
  BY DEF Partition
<1>7. ASSUME S[c] # 0 PROVE FALSE
  <2>1. b + pow2[S[b]] <= c
    BY <1>2, <1>5, <1>7 DEF Partition, Separate
  <2> QED
    BY <1>1, <1>3, <1>4, <1>5, <2>1
<1>8. /\ T \in [Offset -> Orders0] /\ T[b] = k /\ T[c] = k
      /\ \A x \in Offset : x # b /\ x # c => T[x] = S[x]
  BY <1>2, <1>6 DEF Orders0, PutTwo
<1>9. Within(T)
  <2> SUFFICES ASSUME NEW x \in Offset, T[x] # 0 PROVE Aligned(x, T[x])
    BY DEF Within
  <2>1. CASE x = b \/ x = c
    BY <1>2, <1>8, <2>1
  <2>2. CASE x # b /\ x # c
    BY <1>8, <2>2 DEF Partition, Within
  <2> QED
    BY <2>1, <2>2
<1>10. ASSUME NEW x \in Offset, x # b, x # c, S[x] # 0
       PROVE  /\ x \in Nat /\ pow2[S[x]] \in Nat /\ T[x] = S[x]
              /\ x < b => x + pow2[S[x]] <= b
              /\ x > b => b + 2 * p <= x
  <2>1. x \in Nat /\ pow2[S[x]] \in Nat
    BY <1>10, BlockType
  <2>2. x < b => x + pow2[S[x]] <= b
    BY <1>5, <1>10 DEF Partition, Separate
  <2>3. x > b => b + pow2[S[b]] <= x
    BY <1>1, <1>5, <1>10, <2>1 DEF Partition, Separate
  <2> QED
    BY <1>5, <1>8, <1>10, <2>1, <2>2, <2>3
<1>11. Separate(T)
  <2> SUFFICES ASSUME NEW x \in Offset, NEW y \in Offset, T[x] # 0, T[y] # 0, x < y
               PROVE  x + pow2[T[x]] <= y
    BY DEF Separate
  <2>1. CASE x = b /\ y = c
    BY <1>3, <1>8, <2>1
  <2>2. CASE x = c /\ y = b
    BY <1>1, <1>2, <2>2
  <2>3. CASE x \in {b, c} /\ y \notin {b, c}
    <3>1. S[y] # 0 /\ y \in Nat /\ y > b
      BY <1>1, <1>2, <1>8, <2>3, BlockType
    <3>2. b + 2 * p <= y
      BY <1>10, <2>3, <3>1
    <3>3. pow2[T[x]] = p
      BY <1>4, <1>8, <2>3
    <3> QED
      BY <1>1, <1>3, <1>4, <2>3, <3>1, <3>2, <3>3
  <2>4. CASE x \notin {b, c} /\ y \in {b, c}
    <3>1. S[x] # 0 /\ T[x] = S[x]
      BY <1>8, <2>4
    <3>2. /\ x \in Nat /\ pow2[S[x]] \in Nat
          /\ x < b => x + pow2[S[x]] <= b
          /\ x > b => b + 2 * p <= x
      BY <1>10, <2>4, <3>1
    <3>3. x < c
      BY <1>1, <1>2, <2>4, <3>2
    <3>4. x < b
      BY <1>1, <1>3, <1>4, <2>4, <3>2, <3>3
    <3> QED
      BY <1>1, <1>2, <2>4, <3>1, <3>2, <3>4
  <2>5. CASE x \notin {b, c} /\ y \notin {b, c}
    BY <1>8, <2>5 DEF Partition, Separate
  <2>6. CASE x = y
    BY <1>1, <2>6, BlockType
  <2> QED
    BY <2>1, <2>2, <2>3, <2>4, <2>5, <2>6
<1>12. Covering(T)
  <2> SUFFICES ASSUME NEW z \in 0 .. (Size - 1)
               PROVE  \E x \in Offset : T[x] # 0 /\ x <= z /\ z < x + pow2[T[x]]
    BY DEF Covering
  <2>1. PICK x \in Offset : S[x] # 0 /\ x <= z /\ z < x + pow2[S[x]]
    BY DEF Partition, Covering
  <2>2. CASE x = b
    <3>1. z \in Int /\ z < b + 2 * p
      BY <1>5, <2>1, <2>2, Orders
    <3>2. CASE z < c
      BY <1>2, <1>3, <1>8, <2>1, <2>2, <3>2
    <3>3. CASE z >= c
      <4>1. z < c + pow2[T[c]] /\ c <= z /\ T[c] # 0
        BY <1>1, <1>2, <1>3, <1>4, <1>8, <3>1, <3>3
      <4> QED
        BY <1>2, <4>1
    <3>4. z < c \/ z >= c
      BY <1>2, <3>1
    <3> QED
      BY <3>2, <3>3, <3>4
  <2>3. CASE x # b
    BY <1>7, <1>8, <2>1, <2>3
  <2> QED
    BY <2>2, <2>3
<1>13. c # b
  BY <1>1, <1>2
<1> QED
  BY <1>2, <1>7, <1>8, <1>9, <1>11, <1>12, <1>13 DEF Partition

(* A merge.                                                                *)
LEMMA MergePartition ==
    ASSUME NEW S, Partition(S), NEW b \in Offset, NEW c, NEW k, Twins(b, c, k),
           S[b] = k, S[c] = k, NEW T, PutTwo(T, S, b, k + 1, c, 0)
    PROVE  c \in Offset /\ c # b /\ Partition(T)
<1>1. b \in Nat /\ b < Size
  BY BlockType
<1>2. /\ k \in LOWER .. UPPER /\ k + 1 \in LOWER .. UPPER /\ k \in Nat
      /\ pow2[k] \in Nat /\ pow2[k] >= 1
      /\ pow2[k + 1] = 2 * pow2[k] /\ c \in Offset /\ c \in Nat /\ Aligned(b, k + 1)
      /\ b < c /\ k # 0
  BY <1>1, TwinBlocks, Orders
<1>3. c = b + pow2[k]
  BY DEF Twins
<1>4. PICK p \in Nat : p = pow2[k] /\ p >= 1
  BY <1>2
<1>5. S \in [Offset -> Orders0]
  BY DEF Partition
<1>6. /\ T \in [Offset -> Orders0] /\ T[b] = k + 1 /\ T[c] = 0 /\ pow2[T[b]] = 2 * p
      /\ \A x \in Offset : x # b /\ x # c => T[x] = S[x]
  BY <1>1, <1>2, <1>4, <1>5 DEF Orders0, PutTwo
<1>7. Within(T)
  <2> SUFFICES ASSUME NEW x \in Offset, T[x] # 0 PROVE Aligned(x, T[x])
    BY DEF Within
  <2>1. CASE x = b
    BY <1>2, <1>6, <2>1
  <2>2. CASE x # b
    BY <1>6, <2>2 DEF Partition, Within
  <2> QED
    BY <2>1, <2>2
<1>8. ASSUME NEW x \in Offset, x # b, x # c, S[x] # 0
      PROVE  /\ x \in Nat /\ pow2[S[x]] \in Nat
             /\ x < b => x + pow2[S[x]] <= b
             /\ x > b => b + 2 * p <= x
  <2>1. x \in Nat /\ pow2[S[x]] \in Nat
    BY <1>8, BlockType
  <2>2. x < b => x + pow2[S[x]] <= b
    BY <1>2, <1>8 DEF Partition, Separate
  <2>3. x > b => b + pow2[S[b]] <= x
    BY <1>1, <1>2, <1>8, <2>1 DEF Partition, Separate
  <2>4. x > c => c + pow2[S[c]] <= x
    BY <1>2, <1>8, <2>1 DEF Partition, Separate
  <2> QED
    BY <1>1, <1>2, <1>3, <1>4, <1>8, <2>1, <2>2, <2>3, <2>4
<1>9. Separate(T)
  <2> SUFFICES ASSUME NEW x \in Offset, NEW y \in Offset, T[x] # 0, T[y] # 0, x < y
               PROVE  x + pow2[T[x]] <= y
    BY DEF Separate
  <2>1. x # c /\ y # c
    BY <1>6
  <2>2. CASE x = b
    <3>1. y # b /\ S[y] # 0 /\ y > b
      BY <1>1, <1>6, <2>1, <2>2, BlockType
    <3> QED
      BY <1>6, <1>8, <2>1, <2>2, <3>1
  <2>3. CASE y = b
    <3>1. x # b /\ S[x] # 0 /\ T[x] = S[x]
      BY <1>1, <1>6, <2>1, <2>3, BlockType
    <3> QED
      BY <1>8, <2>1, <2>3, <3>1
  <2>4. CASE x # b /\ y # b
    BY <1>6, <2>1, <2>4 DEF Partition, Separate
  <2> QED
    BY <2>2, <2>3, <2>4
<1>10. Covering(T)
  <2> SUFFICES ASSUME NEW z \in 0 .. (Size - 1)
               PROVE  \E x \in Offset : T[x] # 0 /\ x <= z /\ z < x + pow2[T[x]]
    BY DEF Covering
  <2>1. PICK x \in Offset : S[x] # 0 /\ x <= z /\ z < x + pow2[S[x]]
    BY DEF Partition, Covering
  <2>2. CASE x = b \/ x = c
    <3>1. pow2[S[x]] = p /\ z \in Int
      BY <1>4, <2>2, Orders
    <3>2. b <= z /\ z < b + 2 * p
      BY <1>1, <1>2, <1>3, <1>4, <2>1, <2>2, <3>1
    <3> QED
      BY <1>2, <1>6, <3>2
  <2>3. CASE x # b /\ x # c
    BY <1>6, <2>1, <2>3
  <2> QED
    BY <2>2, <2>3
<1>11. c # b
  BY <1>1, <1>2
<1> QED
  BY <1>2, <1>6, <1>7, <1>9, <1>10, <1>11 DEF Partition

(***************************************************************************)
(* The inductive invariant.  S, U and F are the sizes and the use of the   *)
(* blocks by offset and the free lists; X is the set of the blocks that    *)
(* the call under way has taken off their list or is about to hand out.    *)
(***************************************************************************)
ByOffset(f) == [b \in Offset |-> f[idx(b)]]

IsArray(f)  == f = [g \in Granule |-> f[g]]

SZ == ByOffset(sizem)
US == ByOffset(used)

Available(b, S, U, k, X) == S[b] = k /\ ~U[b] /\ b \notin X

(* A free list holds each free block of its size once, and nothing else.   *)
Listed(list, S, U, k, X) ==
    /\ list \in Seq(Offset)
    /\ IsInjective(list)
    /\ \A b \in Offset : b \in ToSet(list) <=> Available(b, S, U, k, X)

Lists(F, S, U, X) ==
    /\ F = [k \in Order |-> F[k]]
    /\ \A k \in Order : Listed(F[k], S, U, k, X)

(* The blocks in use are those of the callers, and each is large enough.   *)
Owned(h, S, U) ==
    /\ h = [b \in DOMAIN h |-> h[b]]
    /\ DOMAIN h \subseteq Offset
    /\ \A b \in Offset : U[b] <=> b \in DOMAIN h
    /\ \A b \in DOMAIN h : S[b] # 0 /\ h[b] \in Nat /\ h[b] <= pow2[S[b]]

(* No two free blocks could be merged, those of X excepted.                *)
Compact(S, U, X) ==
    \A b, c \in Offset :
        Twins(b, c, S[b]) /\ S[c] = S[b] /\ ~U[b] /\ ~U[c] => b \in X \/ c \in X

Detached == IF pc = "merge" THEN {block} ELSE {}
Loose    == IF pc = "merge" THEN {block}
            ELSE IF pc = "split" THEN {Head(freelist[cm])} ELSE {}

BlocksOK ==
    /\ IsArray(sizem)
    /\ used \in [Granule -> BOOLEAN]
    /\ Partition(SZ)
    /\ Lists(freelist, SZ, US, Detached)
    /\ Owned(held, SZ, US)
    /\ Compact(SZ, US, Loose)

Splitting ==
    /\ m \in LOWER .. UPPER /\ cm \in m .. UPPER /\ freelist[cm] # <<>>
    /\ nbytes \in Requests /\ nbytes <= pow2[m]

Merging == block \in Offset /\ m = SZ[block] /\ m # 0 /\ ~US[block]

(* A refusal is remembered until the next call: no list could have served. *)
Refused ==
    \A n \in refused : /\ n \in Requests
                       /\ \A k \in mforsize(n) .. MAXORDER : freelist[k] = <<>>

CallOK ==
    /\ pc \in {"idle", "split", "merge"}
    /\ pc = "split" => Splitting
    /\ pc = "merge" => Merging
    /\ refused # {} => pc = "idle" /\ Refused
    /\ panic \in {"none", "exhausted"}
    /\ USERLAND => panic = "none"

BInv == BlocksOK /\ CallOK

(***************************************************************************)
(* The free lists.                                                         *)
(***************************************************************************)
LEMMA Removed ==
    ASSUME NEW S, NEW s \in Seq(S), IsInjective(s), NEW e, e \in ToSet(s)
    PROVE  /\ RemoveFirst(s, e) \in Seq(S) /\ IsInjective(RemoveFirst(s, e))
           /\ ToSet(RemoveFirst(s, e)) = ToSet(s) \ {e}
<1>1. PICK n \in Nat : n = Len(s) /\ DOMAIN s = 1 .. n /\ \A i \in 1 .. n : s[i] \in S
  BY LenProperties, ElementOfSeq
<1>2. PICK I : I = {i \in 1 .. n : s[i] = e}
  OBVIOUS
<1>3. I # {} /\ I \in SUBSET Nat
  BY <1>1, <1>2 DEF ToSet
<1>4. PICK p \in 1 .. n : p = Min(I) /\ s[p] = e
  BY <1>2, <1>3, Least
<1>5. RemoveFirst(s, e) = SubSeq(s, 1, p - 1) \o SubSeq(s, p + 1, n)
  BY <1>1, <1>2, <1>3, <1>4 DEF RemoveFirst, RemoveAt, SelectInSeq, SelectInSubSeq
<1>6. PICK u, v : u = SubSeq(s, 1, p - 1) /\ v = SubSeq(s, p + 1, n)
  OBVIOUS
<1>7. u \in Seq(S) /\ Len(u) = p - 1 /\ \A i \in 1 .. (p - 1) : u[i] = s[i]
  <2>1. PICK o \in Nat, q \in Nat : o = 1 /\ q = p - 1
    OBVIOUS
  <2> QED
    BY <1>1, <1>6, <2>1, SubSeqProperties
<1>8. v \in Seq(S) /\ Len(v) = n - p /\ \A i \in 1 .. (n - p) : v[i] = s[p + i]
  <2>1. v \in Seq(S)
    BY <1>1, <1>6, SubSeqProperties
  <2>2. Len(v) = n - p
    BY <1>1, <1>6, SubSeqProperties
  <2>3. ASSUME NEW i \in 1 .. (n - p) PROVE v[i] = s[p + i]
    BY <1>1, <1>6
  <2> QED
    BY <2>1, <2>2, <2>3
<1>9. PICK t : t = u \o v
  OBVIOUS
<1>10. /\ t \in Seq(S) /\ DOMAIN t = 1 .. (n - 1)
       /\ \A j \in 1 .. (n - 1) : t[j] = IF j < p THEN s[j] ELSE s[j + 1]
  <2>1. t \in Seq(S) /\ Len(t) = Len(u) + Len(v)
    BY <1>7, <1>8, <1>9, ConcatProperties
  <2>2. Len(t) = n - 1 /\ DOMAIN t = 1 .. (n - 1)
    BY <1>7, <1>8, <2>1
  <2>3. ASSUME NEW j \in 1 .. (n - 1) PROVE t[j] = IF j < p THEN s[j] ELSE s[j + 1]
    <3>1. t[j] = IF j <= Len(u) THEN u[j] ELSE v[j - Len(u)]
      BY <1>7, <1>8, <1>9, <2>1, <2>2, ConcatProperties
    <3>2. CASE j < p
      BY <1>7, <3>1, <3>2
    <3>3. CASE j >= p
      <4>1. j - (p - 1) \in 1 .. (n - p) /\ p + (j - (p - 1)) = j + 1
        BY <3>3
      <4>2. v[j - (p - 1)] = s[p + (j - (p - 1))]
        BY <1>8, <4>1
      <4> QED
        BY <1>7, <3>1, <3>3, <4>1, <4>2
    <3> QED
      BY <3>2, <3>3
  <2> QED
    BY <2>1, <2>2, <2>3
<1>11. IsInjective(t)
  <2> SUFFICES ASSUME NEW i \in 1 .. (n - 1), NEW j \in 1 .. (n - 1), t[i] = t[j] PROVE i = j
    BY <1>10 DEF IsInjective
  <2>1. PICK a \in 1 .. n : t[i] = s[a] /\ a = IF i < p THEN i ELSE i + 1
    BY <1>10
  <2>2. PICK b \in 1 .. n : t[j] = s[b] /\ b = IF j < p THEN j ELSE j + 1
    BY <1>10
  <2>3. a = b
    BY <1>1, <2>1, <2>2 DEF IsInjective
  <2> QED
    BY <2>1, <2>2, <2>3
<1>12. ASSUME NEW x \in ToSet(t) PROVE x \in ToSet(s) \ {e}
  <2>1. PICK j \in 1 .. (n - 1) : x = t[j]
    BY <1>10, <1>12 DEF ToSet
  <2>2. PICK a \in 1 .. n : x = s[a] /\ a # p
    BY <1>10, <2>1
  <2>3. x # e
    BY <1>1, <1>4, <2>2 DEF IsInjective
  <2> QED
    BY <1>1, <2>2, <2>3 DEF ToSet
<1>13. ASSUME NEW x \in ToSet(s) \ {e} PROVE x \in ToSet(t)
  <2>1. PICK a \in 1 .. n : x = s[a] /\ a # p
    BY <1>1, <1>4 DEF ToSet
  <2>2. PICK j \in 1 .. (n - 1) : j = IF a < p THEN a ELSE a - 1
    BY <2>1
  <2>3. t[j] = s[a]
    BY <1>10, <2>1, <2>2
  <2> QED
    BY <1>10, <2>1, <2>3 DEF ToSet
<1> QED
  BY <1>5, <1>6, <1>9, <1>10, <1>11, <1>12, <1>13

LEMMA Added ==
    ASSUME NEW S, NEW s \in Seq(S), IsInjective(s), NEW e \in S, e \notin ToSet(s)
    PROVE  /\ <<e>> \o s \in Seq(S) /\ IsInjective(<<e>> \o s)
           /\ ToSet(<<e>> \o s) = ToSet(s) \cup {e}
           /\ <<e>> \o s # <<>> /\ Head(<<e>> \o s) = e
<1>1. PICK n \in Nat : n = Len(s) /\ DOMAIN s = 1 .. n
  BY LenProperties
<1>2. PICK u : u = <<e>> /\ u \in Seq(S) /\ Len(u) = 1 /\ u[1] = e
  <2>1. <<e>> \in Seq(S) /\ Len(<<e>>) = 1 /\ <<e>>[1] = e
    OBVIOUS
  <2> QED
    BY <2>1
<1>3. PICK t : t = u \o s
  OBVIOUS
<1>4. t \in Seq(S) /\ Len(t) = n + 1
  BY <1>1, <1>2, <1>3, ConcatProperties
<1>5. /\ DOMAIN t = 1 .. (n + 1)
      /\ \A i \in 1 .. (n + 1) : t[i] = IF i = 1 THEN e ELSE s[i - 1]
  <2>1. DOMAIN t = 1 .. (n + 1)
    BY <1>4, LenProperties
  <2>2. ASSUME NEW i \in 1 .. (n + 1) PROVE t[i] = IF i = 1 THEN e ELSE s[i - 1]
    <3>1. t[i] = IF i <= Len(u) THEN u[i] ELSE s[i - Len(u)]
      BY <1>1, <1>2, <1>3, <1>4, ConcatProperties
    <3> QED
      BY <1>2, <3>1
  <2> QED
    BY <2>1, <2>2
<1>6. \A i \in 1 .. n : s[i] \in ToSet(s)
  BY <1>1 DEF ToSet
<1>7. IsInjective(t)
  <2> SUFFICES ASSUME NEW i \in 1 .. (n + 1), NEW j \in 1 .. (n + 1), t[i] = t[j] PROVE i = j
    BY <1>5 DEF IsInjective
  <2>1. CASE i = 1 \/ j = 1
    BY <1>5, <1>6, <2>1
  <2>2. CASE i # 1 /\ j # 1
    <3>1. PICK a \in 1 .. n, b \in 1 .. n : a = i - 1 /\ b = j - 1
      BY <2>2
    <3>2. s[a] = s[b]
      BY <1>5, <2>2, <3>1
    <3>3. a = b
      BY <1>1, <3>2 DEF IsInjective
    <3> QED
      BY <3>1, <3>3
  <2> QED
    BY <2>1, <2>2
<1>8. ASSUME NEW x PROVE x \in ToSet(t) <=> x \in ToSet(s) \/ x = e
  <2>1. ASSUME x \in ToSet(t) PROVE x \in ToSet(s) \/ x = e
    <3>1. PICK i \in 1 .. (n + 1) : x = t[i]
      BY <1>5, <2>1 DEF ToSet
    <3> QED
      BY <1>5, <1>6, <3>1
  <2>2. ASSUME x = e PROVE x \in ToSet(t)
    <3>1. 1 \in 1 .. (n + 1) /\ t[1] = e
      BY <1>5
    <3> QED
      BY <1>5, <2>2, <3>1 DEF ToSet
  <2>3. ASSUME x \in ToSet(s) PROVE x \in ToSet(t)
    <3>1. PICK a \in 1 .. n : x = s[a]
      BY <1>1, <2>3 DEF ToSet
    <3>2. a + 1 \in 1 .. (n + 1) /\ t[a + 1] = s[a]
      BY <1>5
    <3> QED
      BY <1>5, <3>1, <3>2 DEF ToSet
  <2> QED
    BY <2>1, <2>2, <2>3
<1>9. t # <<>> /\ Head(t) = e
  BY <1>4, <1>5
<1> QED
  BY <1>2, <1>3, <1>4, <1>7, <1>8, <1>9

LEMMA Heads ==
    ASSUME NEW S, NEW s \in Seq(S), s # <<>>
    PROVE  Head(s) \in ToSet(s) /\ Head(s) \in S /\ Contains(s, Head(s))
<1>1. PICK n \in Nat : n = Len(s) /\ DOMAIN s = 1 .. n /\ n >= 1
  BY EmptySeq, LenProperties
<1>2. Head(s) = s[1] /\ 1 \in 1 .. n
  BY <1>1
<1> QED
  BY <1>1, <1>2, ElementOfSeq DEF ToSet, Contains

(* Writing an element of the array blocks, seen by offset.                 *)
LEMMA Poke ==
    ASSUME NEW f, IsArray(f), NEW b \in Offset, NEW v, NEW f1,
           Put(f1, f, idx(b), v)
    PROVE  /\ Put(ByOffset(f1), ByOffset(f), b, v)
           /\ IsArray(f1)
           /\ ByOffset(f)[b] = f[idx(b)]
<1>1. \A x \in Offset : f1[idx(x)] = IF x = b THEN v ELSE f[idx(x)]
  BY Indices DEF IsArray, Put
<1>2. IsArray(f1)
  BY DEF IsArray, Put
<1>3. ByOffset(f1) = [x \in Offset |-> IF x = b THEN v ELSE f[idx(x)]]
  BY <1>1 DEF ByOffset
<1>4. [ByOffset(f) EXCEPT ![b] = v] = [x \in Offset |-> IF x = b THEN v ELSE f[idx(x)]]
  BY DEF ByOffset
<1>5. ByOffset(f)[b] = f[idx(b)]
  BY DEF ByOffset
<1> QED
  BY <1>2, <1>3, <1>4, <1>5 DEF Put

LEMMA PokeTwo ==
    ASSUME NEW f, IsArray(f), NEW b \in Offset, NEW v, NEW c \in Offset, NEW w, NEW f1,
           PutTwo(f1, f, idx(b), v, idx(c), w)
    PROVE  PutTwo(ByOffset(f1), ByOffset(f), b, v, c, w) /\ IsArray(f1)
<1>1. \A x \in Offset : f1[idx(x)] = IF x = c THEN w ELSE IF x = b THEN v ELSE f[idx(x)]
  BY Indices DEF IsArray, PutTwo
<1>2. IsArray(f1)
  BY DEF IsArray, PutTwo
<1>3. ByOffset(f1) = [x \in Offset |-> IF x = c THEN w ELSE IF x = b THEN v ELSE f[idx(x)]]
  BY <1>1 DEF ByOffset
<1>4. [ByOffset(f) EXCEPT ![b] = v, ![c] = w]
        = [x \in Offset |-> IF x = c THEN w ELSE IF x = b THEN v ELSE f[idx(x)]]
  BY DEF ByOffset
<1> QED
  BY <1>2, <1>3, <1>4 DEF PutTwo

(* The loop of mforsize stops at the first power of two above a request.   *)
LEMMA ForSizeStops ==
    ASSUME NEW n \in Requests
    PROVE  /\ n \in Nat
           /\ \E k \in 0 .. MAXORDER :
                 /\ pow2[k] > n /\ \A j \in 0 .. (k - 1) : pow2[j] <= n
                 /\ mforsize(n) = IF k >= LOWER THEN k ELSE LOWER
<1>1. n \in Nat /\ n < pow2[MAXORDER] /\ MAXORDER \in Nat
  BY BuddyAssumption, Pow2
<1>2. PICK A : A = {k \in 0 .. MAXORDER : pow2[k] > n}
  OBVIOUS
<1>3. A \in SUBSET Nat /\ A # {}
  <2>1. MAXORDER \in 0 .. MAXORDER /\ pow2[MAXORDER] \in Nat
    BY <1>1, Pow2
  <2> QED
    BY <1>1, <1>2, <2>1
<1>4. PICK a \in A : \A x \in A : a <= x
  BY <1>3, Least
<1>5. a \in 0 .. MAXORDER /\ pow2[a] > n /\ \A j \in 0 .. (a - 1) : pow2[j] <= n
  <2>1. a \in 0 .. MAXORDER /\ pow2[a] > n
    BY <1>2, <1>4
  <2>2. ASSUME NEW j \in 0 .. (a - 1) PROVE pow2[j] <= n
    <3>1. j \in 0 .. MAXORDER /\ j \notin A
      BY <1>1, <1>4, <2>1
    <3>2. pow2[j] \in Nat
      BY <3>1, Pow2
    <3> QED
      BY <1>1, <1>2, <3>1, <3>2
  <2> QED
    BY <2>1, <2>2
<1>6. PICK k : k = CHOOSE i \in 0 .. MAXORDER : pow2[i] > n /\ \A j \in 0 .. (i - 1) : pow2[j] <= n
  OBVIOUS
<1>7. k \in 0 .. MAXORDER /\ pow2[k] > n /\ \A j \in 0 .. (k - 1) : pow2[j] <= n
  BY <1>5, <1>6
<1>8. mforsize(n) = IF k >= LOWER THEN k ELSE LOWER
  BY <1>6 DEF mforsize
<1> QED
  BY <1>1, <1>7, <1>8

(* The order of a request.                                                 *)
LEMMA ForSize ==
    ASSUME NEW n \in Requests
    PROVE  mforsize(n) \in Order /\ n \in Nat /\ n <= pow2[mforsize(n)]
<1>1. n \in Nat
  BY ForSizeStops
<1>7. PICK k \in 0 .. MAXORDER : pow2[k] > n /\ mforsize(n) = IF k >= LOWER THEN k ELSE LOWER
  BY ForSizeStops
<1>8. mforsize(n) = IF k >= LOWER THEN k ELSE LOWER
  BY <1>7
<1>9. pow2[k] \in Nat /\ pow2[LOWER] \in Nat
  BY <1>7, Orders, Pow2
<1>10. CASE k >= LOWER
  BY <1>1, <1>7, <1>8, <1>9, <1>10, Orders DEF Order
<1>11. CASE k < LOWER
  <2>1. pow2[k] < pow2[LOWER]
    BY <1>7, <1>11, Doubles, Orders
  <2> QED
    BY <1>1, <1>7, <1>8, <1>9, <1>11, <2>1, Orders DEF Order
<1> QED
  BY <1>7, <1>10, <1>11, Orders

(* A list whose size no free block has is empty.                           *)
LEMMA NoBlock ==
    ASSUME NEW list, NEW S, NEW U, NEW k, NEW X, Listed(list, S, U, k, X),
           \A b \in Offset : S[b] # k
    PROVE  list = <<>>
<1>1. list \in Seq(Offset) /\ \A b \in Offset : b \notin ToSet(list)
  BY DEF Listed, Available
<1> QED
  BY <1>1, Heads

LEMMA FirstBlock ==
    ASSUME NEW list, NEW S, NEW U, NEW k, NEW X, Listed(list, S, U, k, X), list # <<>>
    PROVE  /\ Head(list) \in Offset /\ Head(list) \in ToSet(list)
           /\ S[Head(list)] = k /\ ~U[Head(list)] /\ Head(list) \notin X
<1>1. list \in Seq(Offset)
  BY DEF Listed
<1>2. Head(list) \in ToSet(list) /\ Head(list) \in Offset
  BY <1>1, Heads
<1>3. PICK b \in Offset : b = Head(list) /\ b \in ToSet(list)
  BY <1>2
<1>4. S[b] = k /\ ~U[b] /\ b \notin X
  BY <1>3 DEF Listed, Available
<1> QED
  BY <1>3, <1>4

LEMMA Unchanged ==
    ASSUME BInv, UNCHANGED vars
    PROVE  BInv'
<1>1. SZ' = SZ /\ US' = US /\ Detached' = Detached /\ Loose' = Loose
  BY DEF SZ, US, Detached, Loose, vars, blockVars
<1>2. BlocksOK'
  BY <1>1 DEF BInv, BlocksOK, vars, blockVars
<1>3. CallOK'
  BY <1>1 DEF BInv, CallOK, Splitting, Merging, Refused, vars, blockVars
<1> QED
  BY <1>2, <1>3 DEF BInv

LEMMA ListSame ==
    ASSUME NEW list, NEW S, NEW U, NEW k, NEW X, Listed(list, S, U, k, X), NEW T, NEW V, NEW Y,
           \A x \in Offset : Available(x, T, V, k, Y) <=> Available(x, S, U, k, X)
    PROVE  Listed(list, T, V, k, Y)
BY DEF Listed

LEMMA ListLess ==
    ASSUME NEW list, NEW S, NEW U, NEW k, NEW X, Listed(list, S, U, k, X), NEW T, NEW V, NEW Y,
           NEW b, b \in ToSet(list),
           \A x \in Offset : Available(x, T, V, k, Y) <=> Available(x, S, U, k, X) /\ x # b
    PROVE  Listed(remove_from_freelist(list, b), T, V, k, Y)
<1>1. list \in Seq(Offset) /\ IsInjective(list)
  BY DEF Listed
<1>2. PICK t : t = RemoveFirst(list, b)
  OBVIOUS
<1>3. t \in Seq(Offset) /\ IsInjective(t) /\ ToSet(t) = ToSet(list) \ {b}
  BY <1>1, <1>2, Removed
<1> QED
  BY <1>2, <1>3 DEF Listed, remove_from_freelist

LEMMA ListMore ==
    ASSUME NEW list, NEW S, NEW U, NEW k, NEW X, Listed(list, S, U, k, X), NEW T, NEW V, NEW Y,
           NEW b \in Offset, ~Available(b, S, U, k, X),
           \A x \in Offset : Available(x, T, V, k, Y) <=> Available(x, S, U, k, X) \/ x = b
    PROVE  /\ Listed(add_to_freelist(list, b), T, V, k, Y)
           /\ add_to_freelist(list, b) # <<>> /\ Head(add_to_freelist(list, b)) = b
<1>1. list \in Seq(Offset) /\ IsInjective(list) /\ b \notin ToSet(list)
  BY DEF Listed
<1>2. PICK t : t = <<b>> \o list
  OBVIOUS
<1>3. /\ t \in Seq(Offset) /\ IsInjective(t) /\ ToSet(t) = ToSet(list) \cup {b}
      /\ t # <<>> /\ Head(t) = b
  BY <1>1, <1>2, Added
<1> QED
  BY <1>2, <1>3 DEF Listed, add_to_freelist

LEMMA CompactMore ==
    ASSUME NEW S, NEW U, NEW X, Compact(S, U, X), NEW Y, X \subseteq Y
    PROVE  Compact(S, U, Y)
BY DEF Compact

(* What the invariant says of a call that begins.                          *)
LEMMA OrderType ==
    /\ \A k \in LOWER .. UPPER : k \in Order /\ k \in Nat /\ k # 0 /\ k \in 0 .. MAXORDER
    /\ \A k \in Order : k \in Nat /\ k # 0
BY Orders DEF Order

LEMMA Above ==
    ASSUME BlocksOK, NEW k \in Order, k > UPPER
    PROVE  freelist[k] = <<>>
<1>1. Listed(freelist[k], SZ, US, k, Detached)
  BY DEF BlocksOK, Lists
<1>2. ASSUME NEW b \in Offset PROVE SZ[b] # k
  <2>1. SZ[b] \in Orders0 /\ k \in Nat /\ k # 0
    BY OrderType DEF BlocksOK, Partition
  <2> QED
    BY <2>1, Orders DEF Orders0
<1> QED
  BY <1>1, <1>2, NoBlock

LEMMA StepAlloc ==
    ASSUME BInv, NEW n \in Requests, buddy_alloc(n)
    PROVE  BInv'
<1>1. PICK k \in Order : k = mforsize(n) /\ n \in Nat /\ n <= pow2[k] /\ k \in Nat
  BY ForSize, OrderType
<1>2. /\ pc = "idle" /\ panic = "none" /\ pc' = "split" /\ m' = k /\ nbytes' = n /\ refused' = {}
      /\ freelist[k] # <<>> \/ LargerFree(k) # {}
      /\ cm' = IF freelist[k] # <<>> THEN k ELSE Smallest(LargerFree(k))
      /\ UNCHANGED <<sizem, used, freelist, held, block, panic>>
  BY <1>1 DEF buddy_alloc, Idle, blockVars
<1>3. BlocksOK /\ panic = "none"
  BY <1>2 DEF BInv
<1>4. k \in LOWER .. UPPER /\ cm' \in k .. UPPER /\ freelist[cm'] # <<>>
  <2>1. CASE freelist[k] # <<>>
    <3>1. k <= UPPER
      BY <1>3, <2>1, Above, Orders DEF Order
    <3> QED
      BY <1>2, <2>1, <3>1 DEF Order
  <2>2. CASE freelist[k] = <<>>
    <3>1. PICK A : A = LargerFree(k)
      OBVIOUS
    <3>2. A \in SUBSET Nat /\ A # {} /\ \A j \in A : j \in (k + 1) .. UPPER /\ freelist[j] # <<>>
      BY <1>1, <1>2, <2>2, <3>1, Orders DEF LargerFree
    <3>3. Smallest(A) = Min(A)
      BY DEF Smallest, Min
    <3>4. Smallest(A) \in A
      BY <3>2, <3>3, Least
    <3>5. cm' \in A
      BY <1>2, <2>2, <3>1, <3>4
    <3>6. cm' \in (k + 1) .. UPPER /\ freelist[cm'] # <<>>
      BY <3>2, <3>5
    <3>7. k \in LOWER .. MAXORDER
      BY DEF Order
    <3>8. PICK j : j = cm' /\ j \in (k + 1) .. UPPER
      BY <3>6
    <3>9. k \in LOWER .. UPPER /\ j \in k .. UPPER
      BY <1>1, <3>7, <3>8, Orders
    <3> QED
      BY <3>6, <3>8, <3>9
  <2> QED
    BY <2>1, <2>2
<1>5. SZ' = SZ /\ US' = US /\ Detached' = Detached /\ Loose = {}
  BY <1>2 DEF SZ, US, Detached, Loose
<1>6. Compact(SZ', US', Loose')
  BY <1>3, <1>5, CompactMore DEF BlocksOK
<1>7. BlocksOK'
  BY <1>2, <1>3, <1>5, <1>6 DEF BlocksOK
<1>8. CallOK'
  BY <1>1, <1>2, <1>4 DEF BInv, CallOK, Splitting
<1> QED
  BY <1>7, <1>8 DEF BInv

(* No smaller order would do.                                              *)
LEMMA ForSizeLeast ==
    ASSUME NEW n \in Requests, NEW i \in Order, pow2[i] > n
    PROVE  mforsize(n) <= i
<1>1. PICK k \in 0 .. MAXORDER : /\ \A j \in 0 .. (k - 1) : pow2[j] <= n
                               /\ mforsize(n) = IF k >= LOWER THEN k ELSE LOWER
  BY ForSizeStops
<1>2. i \in Nat /\ LOWER \in Nat /\ LOWER <= i /\ pow2[i] \in Nat /\ n \in Nat
  BY ForSize, OrderType, Orders, Pow2 DEF Order
<1>3. i \notin 0 .. (k - 1)
  BY <1>1, <1>2
<1>4. k <= i
  BY <1>2, <1>3
<1> QED
  BY <1>1, <1>2, <1>4

LEMMA StepExhausted ==
    ASSUME BInv, NEW n \in Requests, alloc_exhausted(n)
    PROVE  BInv'
<1>1. PICK k \in Order : k = mforsize(n) /\ k \in Nat
  BY ForSize, OrderType
<1>2. /\ pc = "idle" /\ panic = "none" /\ freelist[k] = <<>> /\ LargerFree(k) = {}
      /\ refused' = {n} /\ panic' = IF USERLAND THEN panic ELSE "exhausted"
      /\ UNCHANGED <<sizem, used, freelist, held, pc, m, cm, block, nbytes>>
  BY <1>1 DEF alloc_exhausted, Idle, blockVars
<1>3. SZ' = SZ /\ US' = US /\ Detached' = Detached /\ Loose' = Loose
  BY <1>2 DEF SZ, US, Detached, Loose
<1>4. BlocksOK /\ CallOK
  BY DEF BInv
<1>5. BlocksOK'
  BY <1>2, <1>3, <1>4 DEF BlocksOK
<1>6. ASSUME NEW j \in k .. MAXORDER PROVE freelist[j] = <<>>
  <2>1. CASE j = k
    BY <1>2, <2>1
  <2>2. CASE j # k /\ j <= UPPER
    <3>1. j \in (k + 1) .. UPPER
      BY <1>1, <2>2, Orders
    <3> QED
      BY <1>2, <3>1 DEF LargerFree
  <2>3. CASE j > UPPER
    <3>1. j \in Order
      BY <1>1, Orders DEF Order
    <3> QED
      BY <1>4, <2>3, <3>1, Above
  <2> QED
    BY <1>1, <2>1, <2>2, <2>3, Orders
<1>7. Refused'
  BY <1>1, <1>2, <1>6 DEF Refused
<1>8. CallOK'
  BY <1>2, <1>4, <1>7 DEF CallOK
<1> QED
  BY <1>5, <1>8 DEF BInv

LEMMA StepTake ==
    ASSUME BInv, alloc_take
    PROVE  /\ BInv'
           /\ \E b \in Offset, n \in Requests :
                 /\ b \notin DOMAIN held /\ SZ[b] # 0 /\ n \in Nat /\ n <= pow2[SZ[b]]
                 /\ held' = [c \in DOMAIN held \cup {b} |-> IF c = b THEN n ELSE held[c]]
<1>1. PICK b : b = Head(freelist[m])
  OBVIOUS
<1>2. /\ pc = "split" /\ panic = "none" /\ cm = m /\ pc' = "idle"
      /\ used' = [used EXCEPT ![idx(b)] = TRUE]
      /\ freelist' = [freelist EXCEPT ![m] = remove_from_freelist(@, b)]
      /\ held' = [c \in DOMAIN held \cup {b} |-> IF c = b THEN nbytes ELSE held[c]]
      /\ panic' = IF used[idx(b)] \/ sizem[idx(b)] # m THEN "buddy_alloc" ELSE panic
      /\ UNCHANGED <<sizem, refused>>
  BY <1>1 DEF alloc_take, Return
<1>3. /\ BlocksOK /\ m \in LOWER .. UPPER /\ freelist[m] # <<>> /\ nbytes \in Requests
      /\ nbytes <= pow2[m] /\ refused = {} /\ (USERLAND => panic = "none")
  BY <1>2 DEF BInv, CallOK, Splitting
<1>4. PICK S, U, F, h : S = SZ /\ U = US /\ F = freelist /\ h = held
  OBVIOUS
<1>5. /\ Partition(S) /\ Lists(F, S, U, {}) /\ Owned(h, S, U) /\ Compact(S, U, {b})
      /\ IsArray(sizem) /\ used \in [Granule -> BOOLEAN]
  BY <1>1, <1>2, <1>3, <1>4 DEF BlocksOK, Detached, Loose
<1>6. m \in Order /\ m # 0 /\ nbytes \in Nat
  BY <1>3, OrderType, ForSize
<1>7. Listed(F[m], S, U, m, {}) /\ F[m] # <<>>
  BY <1>3, <1>4, <1>5, <1>6 DEF Lists
<1>8. b \in Offset /\ b \in ToSet(F[m]) /\ S[b] = m /\ ~U[b]
  BY <1>1, <1>4, <1>7, FirstBlock
<1>9. PICK V : V = US'
  OBVIOUS
<1>10. V = [U EXCEPT ![b] = TRUE] /\ U[b] = used[idx(b)]
  <2>1. PICK f, f1, v : f = used /\ f1 = used' /\ v = TRUE /\ f1 = [f EXCEPT ![idx(b)] = v]
    BY <1>2
  <2>2. IsArray(f) /\ Put(f1, f, idx(b), v)
    BY <1>5, <2>1 DEF IsArray, Put
  <2>3. /\ Put(ByOffset(f1), ByOffset(f), b, v)
        /\ ByOffset(f)[b] = f[idx(b)]
    BY <1>8, <2>1, <2>2, Poke
  <2>4. US = ByOffset(f) /\ US' = ByOffset(f1)
    BY <2>1 DEF US, ByOffset
  <2> QED
    BY <1>4, <1>9, <2>1, <2>3, <2>4 DEF Put
<1>11. S[b] = sizem[idx(b)] /\ SZ' = S
  BY <1>2, <1>4, <1>8 DEF SZ, ByOffset
<1>12. panic' = panic
  BY <1>2, <1>8, <1>10, <1>11
<1>13. used' \in [Granule -> BOOLEAN]
  BY <1>2, <1>5
<1>14. DOMAIN U = Offset
  BY <1>4 DEF US, ByOffset
<1>15. \A x \in Offset : V[x] = IF x = b THEN TRUE ELSE U[x]
  BY <1>10, <1>14
<1>16. PICK G : G = freelist' /\ G = [F EXCEPT ![m] = remove_from_freelist(F[m], b)]
  BY <1>2, <1>4
<1>17. Lists(G, S, V, {})
  <2>1. F = [k \in Order |-> F[k]] /\ G = [k \in Order |-> G[k]]
        /\ \A k \in Order : G[k] = IF k = m THEN remove_from_freelist(F[m], b) ELSE F[k]
    BY <1>5, <1>6, <1>16 DEF Lists
  <2>2. Listed(remove_from_freelist(F[m], b), S, V, m, {})
    <3>1. \A x \in Offset : Available(x, S, V, m, {}) <=> Available(x, S, U, m, {}) /\ x # b
      BY <1>8, <1>15 DEF Available
    <3> QED
      BY <1>7, <1>8, <3>1, ListLess
  <2>3. ASSUME NEW k \in Order, k # m PROVE Listed(F[k], S, V, k, {})
    <3>1. \A x \in Offset : Available(x, S, V, k, {}) <=> Available(x, S, U, k, {})
      BY <1>8, <1>15, <2>3 DEF Available
    <3>2. Listed(F[k], S, U, k, {})
      BY <1>5 DEF Lists
    <3> QED
      BY <3>1, <3>2, ListSame
  <2> QED
    BY <2>1, <2>2, <2>3 DEF Lists
<1>18. PICK g : g = held' /\ g = [c \in DOMAIN h \cup {b} |-> IF c = b THEN nbytes ELSE h[c]]
  BY <1>2, <1>4
<1>19. Owned(g, S, V)
  <2>1. /\ DOMAIN g = DOMAIN h \cup {b} /\ g[b] = nbytes
        /\ \A c \in DOMAIN h : c # b => g[c] = h[c]
    BY <1>18
  <2>2. DOMAIN h \subseteq Offset /\ (\A x \in Offset : U[x] <=> x \in DOMAIN h)
        /\ \A c \in DOMAIN h : S[c] # 0 /\ h[c] \in Nat /\ h[c] <= pow2[S[c]]
    BY <1>5 DEF Owned
  <2>3. g = [c \in DOMAIN g |-> g[c]]
    BY <1>18
  <2>4. DOMAIN g \subseteq Offset /\ \A x \in Offset : V[x] <=> x \in DOMAIN g
    BY <1>8, <1>15, <2>1, <2>2
  <2>5. ASSUME NEW c \in DOMAIN g PROVE S[c] # 0 /\ g[c] \in Nat /\ g[c] <= pow2[S[c]]
    <3>1. CASE c = b
      BY <1>3, <1>6, <1>8, <2>1, <3>1
    <3>2. CASE c # b
      BY <2>1, <2>2, <3>2
    <3> QED
      BY <3>1, <3>2
  <2> QED
    BY <2>3, <2>4, <2>5 DEF Owned
<1>20. Compact(S, V, {})
  BY <1>5, <1>15 DEF Compact
<1>21. BlocksOK'
  BY <1>2, <1>5, <1>9, <1>11, <1>13, <1>16, <1>17, <1>18, <1>19, <1>20
     DEF BlocksOK, Detached, Loose
<1>22. CallOK'
  BY <1>2, <1>3, <1>12 DEF CallOK
<1>23. b \notin DOMAIN held /\ SZ[b] # 0 /\ nbytes <= pow2[SZ[b]]
  BY <1>3, <1>4, <1>5, <1>6, <1>8 DEF Owned
<1> QED
  BY <1>2, <1>3, <1>6, <1>8, <1>21, <1>22, <1>23 DEF BInv

LEMMA StepFree ==
    ASSUME BInv, NEW b \in Offset, buddy_free(b)
    PROVE  BInv'
<1>1. /\ pc = "idle" /\ panic = "none" /\ b \in DOMAIN held /\ pc' = "merge" /\ refused' = {}
      /\ held' = [c \in DOMAIN held \ {b} |-> held[c]]
      /\ used' = [used EXCEPT ![idx(b)] = FALSE]
      /\ block' = b /\ m' = sizem[idx(b)]
      /\ panic' = IF used[idx(b)] /\ sizem[idx(b)] \in LOWER .. UPPER
                  THEN panic ELSE "buddy_free"
      /\ UNCHANGED <<sizem, freelist>>
  BY DEF buddy_free, Idle
<1>2. PICK S, U, F, h : S = SZ /\ U = US /\ F = freelist /\ h = held
  OBVIOUS
<1>3. /\ Partition(S) /\ Lists(F, S, U, {}) /\ Owned(h, S, U) /\ Compact(S, U, {})
      /\ IsArray(sizem) /\ used \in [Granule -> BOOLEAN]
      /\ USERLAND => panic = "none"
  BY <1>1, <1>2 DEF BInv, CallOK, BlocksOK, Detached, Loose
<1>4. PICK V : V = US'
  OBVIOUS
<1>5. V = [U EXCEPT ![b] = FALSE] /\ U[b] = used[idx(b)]
  <2>1. PICK f, f1, v : f = used /\ f1 = used' /\ v = FALSE /\ f1 = [f EXCEPT ![idx(b)] = v]
    BY <1>1
  <2>2. IsArray(f) /\ Put(f1, f, idx(b), v)
    BY <1>3, <2>1 DEF IsArray, Put
  <2>3. /\ Put(ByOffset(f1), ByOffset(f), b, v)
        /\ ByOffset(f)[b] = f[idx(b)]
    BY <2>1, <2>2, Poke
  <2>4. US = ByOffset(f) /\ US' = ByOffset(f1)
    BY <2>1 DEF US, ByOffset
  <2> QED
    BY <1>2, <1>4, <2>1, <2>3, <2>4 DEF Put
<1>6. S[b] = sizem[idx(b)] /\ SZ' = S
  BY <1>1, <1>2 DEF SZ, ByOffset
<1>7. U[b] /\ S[b] # 0 /\ S[b] \in LOWER .. UPPER
  BY <1>1, <1>2, <1>3 DEF Owned, Partition, Orders0
<1>8. panic' = panic
  BY <1>1, <1>5, <1>6, <1>7
<1>9. used' \in [Granule -> BOOLEAN]
  BY <1>1, <1>3
<1>10. \A x \in Offset : V[x] = IF x = b THEN FALSE ELSE U[x]
  <2>1. DOMAIN U = Offset
    BY <1>2 DEF US, ByOffset
  <2> QED
    BY <1>5, <2>1
<1>11. Lists(F, S, V, {b})
  <2>1. ASSUME NEW k \in Order PROVE Listed(F[k], S, V, k, {b})
    <3>1. \A x \in Offset : Available(x, S, V, k, {b}) <=> Available(x, S, U, k, {})
      BY <1>7, <1>10 DEF Available
    <3>2. Listed(F[k], S, U, k, {})
      BY <1>3 DEF Lists
    <3> QED
      BY <3>1, <3>2, ListSame
  <2> QED
    BY <1>3, <2>1 DEF Lists
<1>12. PICK g : g = held' /\ g = [c \in DOMAIN h \ {b} |-> h[c]]
  BY <1>1, <1>2
<1>13. Owned(g, S, V)
  <2>1. DOMAIN g = DOMAIN h \ {b} /\ \A c \in DOMAIN g : g[c] = h[c]
    BY <1>12
  <2>2. DOMAIN h \subseteq Offset /\ (\A x \in Offset : U[x] <=> x \in DOMAIN h)
        /\ \A c \in DOMAIN h : S[c] # 0 /\ h[c] \in Nat /\ h[c] <= pow2[S[c]]
    BY <1>3 DEF Owned
  <2>3. g = [c \in DOMAIN g |-> g[c]]
    BY <1>12
  <2>4. DOMAIN g \subseteq Offset /\ \A x \in Offset : V[x] <=> x \in DOMAIN g
    BY <1>10, <2>1, <2>2
  <2>5. \A c \in DOMAIN g : S[c] # 0 /\ g[c] \in Nat /\ g[c] <= pow2[S[c]]
    BY <2>1, <2>2
  <2> QED
    BY <2>3, <2>4, <2>5 DEF Owned
<1>14. Compact(S, V, {b})
  BY <1>3, <1>10 DEF Compact
<1>15. BlocksOK'
  BY <1>1, <1>2, <1>3, <1>4, <1>6, <1>9, <1>11, <1>12, <1>13, <1>14
     DEF BlocksOK, Detached, Loose
<1>16. Merging'
  BY <1>1, <1>4, <1>6, <1>7, <1>10 DEF Merging
<1>17. CallOK'
  BY <1>1, <1>3, <1>8, <1>16 DEF CallOK
<1> QED
  BY <1>15, <1>17 DEF BInv

LEMMA StepSplit ==
    ASSUME BInv, alloc_split
    PROVE  BInv'
<1>1. PICK b, c, k : b = Head(freelist[cm]) /\ k = cm - 1 /\ c = b + pow2[k]
  OBVIOUS
<1>2. /\ pc = "split" /\ panic = "none" /\ cm > m /\ pc' = "split" /\ cm' = k
      /\ sizem' = [sizem EXCEPT ![idx(b)] = k, ![idx(c)] = k]
      /\ freelist' = [freelist EXCEPT ![cm] = remove_from_freelist(@, b),
                          ![k] = add_to_freelist(add_to_freelist(@, c), b)]
      /\ panic' = IF /\ ~used[idx(b)] /\ ~used[idx(c)] /\ sizem[idx(b)] = cm
                     /\ b + pow2[k] <= Size /\ c + pow2[k] <= Size
                  THEN panic ELSE "buddy_alloc"
      /\ UNCHANGED <<used, held, m, nbytes, refused>>
  BY <1>1 DEF alloc_split, half2_of, AddAsserts
<1>3. /\ m \in LOWER .. UPPER /\ cm \in m .. UPPER /\ freelist[cm] # <<>> /\ nbytes \in Requests
      /\ nbytes <= pow2[m] /\ refused = {} /\ (USERLAND => panic = "none")
  BY <1>2 DEF BInv, CallOK, Splitting
<1>4. PICK S, U, F : S = SZ /\ U = US /\ F = freelist
  OBVIOUS
<1>5. /\ Partition(S) /\ Lists(F, S, U, {}) /\ Owned(held, S, U) /\ Compact(S, U, {b})
      /\ IsArray(sizem) /\ used \in [Granule -> BOOLEAN]
  BY <1>1, <1>2, <1>4 DEF BInv, BlocksOK, Detached, Loose
<1>6. /\ cm \in LOWER .. UPPER /\ cm \in Order /\ cm # 0 /\ cm \in Nat /\ k \in LOWER .. (UPPER - 1)
      /\ k \in Order /\ k # 0 /\ k \in Nat /\ cm = k + 1 /\ k # cm /\ k \in m .. UPPER
  BY <1>1, <1>2, <1>3, Orders DEF Order
<1>7. Listed(F[cm], S, U, cm, {}) /\ F[cm] # <<>> /\ Listed(F[k], S, U, k, {})
  BY <1>3, <1>4, <1>5, <1>6 DEF Lists
<1>8. b \in Offset /\ b \in ToSet(F[cm]) /\ S[b] = cm /\ ~U[b]
  BY <1>1, <1>4, <1>7, FirstBlock
<1>9. Twins(b, c, k) /\ b < Size
  BY <1>1, <1>5, <1>6, <1>8, BlockType DEF Twins
<1>10. c \in Offset /\ b + pow2[k] <= Size /\ c + pow2[k] <= Size
  <2>1. /\ c \in Offset /\ b + pow2[k + 1] <= Size /\ c + pow2[k] <= Size /\ b \in Nat
        /\ pow2[k] \in Nat /\ pow2[k + 1] = 2 * pow2[k]
    BY <1>9, TwinBlocks
  <2> QED
    BY <2>1, Orders
<1>11. PICK T : T = SZ' /\ PutTwo(T, S, b, k, c, k) /\ IsArray(sizem')
  <2>1. PICK f, f1 : f = sizem /\ f1 = sizem' /\ PutTwo(f1, f, idx(b), k, idx(c), k)
    BY <1>2 DEF PutTwo
  <2>2. IsArray(f)
    BY <1>5, <2>1
  <2>3. PutTwo(ByOffset(f1), ByOffset(f), b, k, c, k) /\ IsArray(f1)
    BY <1>8, <1>10, <2>1, <2>2, PokeTwo
  <2>4. SZ = ByOffset(f) /\ SZ' = ByOffset(f1)
    BY <2>1 DEF SZ, ByOffset
  <2> QED
    BY <1>4, <2>1, <2>3, <2>4
<1>12. S[c] = 0 /\ c # b /\ Partition(T)
  BY <1>5, <1>6, <1>8, <1>9, <1>11, SplitPartition
<1>13. \A x \in Offset : T[x] = IF x = b \/ x = c THEN k ELSE S[x]
  BY <1>5, <1>8, <1>10, <1>11 DEF PutTwo, Partition
<1>14. ~U[c] /\ b \notin DOMAIN held /\ c \notin DOMAIN held
  BY <1>5, <1>8, <1>10, <1>12 DEF Owned
<1>15. panic' = panic
  <2>1. S[b] = sizem[idx(b)] /\ U[b] = used[idx(b)] /\ U[c] = used[idx(c)]
    BY <1>4, <1>8, <1>10 DEF SZ, US, ByOffset
  <2> QED
    BY <1>2, <1>8, <1>10, <1>14, <2>1
<1>16. PICK G : G = freelist'
  OBVIOUS
<1>17. /\ G = [j \in Order |-> G[j]]
       /\ G[cm] = remove_from_freelist(F[cm], b)
       /\ G[k] = add_to_freelist(add_to_freelist(F[k], c), b)
       /\ \A j \in Order : j # cm /\ j # k => G[j] = F[j]
  <2>1. F = [j \in Order |-> F[j]]
    BY <1>5 DEF Lists
  <2> QED
    BY <1>2, <1>4, <1>6, <1>16, <2>1
<1>18. Listed(G[cm], T, U, cm, {})
  <2>1. \A x \in Offset : Available(x, T, U, cm, {}) <=> Available(x, S, U, cm, {}) /\ x # b
    BY <1>6, <1>12, <1>13 DEF Available
  <2> QED
    BY <1>7, <1>8, <1>17, <2>1, ListLess
<1>19. Listed(G[k], T, U, k, {}) /\ G[k] # <<>> /\ Head(G[k]) = b
  <2>1. PICK R : \A x \in Offset : R[x] = IF x = c THEN k ELSE S[x]
    <3>1. PICK R : R = [x \in Offset |-> IF x = c THEN k ELSE S[x]]
      OBVIOUS
    <3> QED
      BY <3>1
  <2>2. PICK l : l = add_to_freelist(F[k], c)
    OBVIOUS
  <2>3. ~Available(c, S, U, k, {})
    BY <1>6, <1>12 DEF Available
  <2>4. \A x \in Offset : Available(x, R, U, k, {}) <=> Available(x, S, U, k, {}) \/ x = c
    BY <1>14, <2>1 DEF Available
  <2>5. Listed(l, R, U, k, {})
    BY <1>7, <1>10, <2>2, <2>3, <2>4, ListMore
  <2>6. ~Available(b, R, U, k, {})
    BY <1>6, <1>8, <1>12, <2>1 DEF Available
  <2>7. \A x \in Offset : Available(x, T, U, k, {}) <=> Available(x, R, U, k, {}) \/ x = b
    BY <1>8, <1>13, <2>1 DEF Available
  <2>8. /\ Listed(add_to_freelist(l, b), T, U, k, {})
        /\ add_to_freelist(l, b) # <<>> /\ Head(add_to_freelist(l, b)) = b
    <3>1. PICK X : X = {}
      OBVIOUS
    <3>2. Listed(l, R, U, k, X) /\ ~Available(b, R, U, k, X)
      BY <2>5, <2>6, <3>1
    <3>3. \A x \in Offset : Available(x, T, U, k, X) <=> Available(x, R, U, k, X) \/ x = b
      BY <2>7, <3>1
    <3>4. /\ Listed(add_to_freelist(l, b), T, U, k, X)
          /\ add_to_freelist(l, b) # <<>> /\ Head(add_to_freelist(l, b)) = b
      BY <1>8, <3>2, <3>3, ListMore
    <3> QED
      BY <3>1, <3>4
  <2> QED
    BY <1>17, <2>2, <2>8
<1>20. Lists(G, T, U, {})
  <2>1. ASSUME NEW j \in Order, j # cm, j # k PROVE Listed(F[j], T, U, j, {})
    <3>1. j # 0
      BY OrderType
    <3>2. \A x \in Offset : Available(x, T, U, j, {}) <=> Available(x, S, U, j, {})
      BY <1>8, <1>12, <1>13, <2>1, <3>1 DEF Available
    <3>3. Listed(F[j], S, U, j, {})
      BY <1>5 DEF Lists
    <3> QED
      BY <3>2, <3>3, ListSame
  <2> QED
    BY <1>17, <1>18, <1>19, <2>1 DEF Lists
<1>21. Owned(held, T, U)
  BY <1>5, <1>13, <1>14 DEF Owned
<1>22. Compact(T, U, {b})
  <2> SUFFICES ASSUME NEW x \in Offset, NEW y \in Offset, Twins(x, y, T[x]), T[y] = T[x],
                      ~U[x], ~U[y], x # b, y # b
               PROVE  FALSE
    BY DEF Compact
  <2>1. CASE x = c
    BY <1>9, <1>13, <2>1, OneTwin
  <2>2. CASE y = c
    BY <1>9, <1>13, <2>2, OneTwin
  <2>3. CASE x # c /\ y # c
    BY <1>5, <1>13, <2>3 DEF Compact
  <2> QED
    BY <2>1, <2>2, <2>3
<1>23. Loose' = {b} /\ Detached' = {} /\ US' = U
  BY <1>2, <1>4, <1>16, <1>19 DEF Loose, Detached, US
<1>24. BlocksOK'
  BY <1>2, <1>5, <1>11, <1>12, <1>16, <1>20, <1>21, <1>22, <1>23 DEF BlocksOK
<1>25. Splitting'
  BY <1>2, <1>3, <1>6, <1>16, <1>19 DEF Splitting
<1>26. CallOK'
  BY <1>2, <1>3, <1>15, <1>25 DEF CallOK
<1> QED
  BY <1>24, <1>26 DEF BInv

LEMMA StepMerge ==
    ASSUME BInv, free_merge
    PROVE  BInv'
<1>1. PICK c, lo, hi : /\ c = get_buddy(block, m)
                       /\ lo = IF block > c THEN c ELSE block
                       /\ hi = IF block > c THEN block ELSE c
  OBVIOUS
<1>2. /\ pc = "merge" /\ panic = "none" /\ m < UPPER /\ ~used[idx(c)] /\ sizem[idx(c)] = m
      /\ freelist' = [freelist EXCEPT ![m] = remove_from_freelist(@, c)]
      /\ sizem' = [sizem EXCEPT ![idx(lo)] = m + 1, ![idx(hi)] = 0]
      /\ block' = lo /\ m' = m + 1
      /\ panic' = IF Contains(freelist[m], c) THEN panic ELSE "remove_from_freelist"
      /\ UNCHANGED <<used, held, pc, refused>>
  BY <1>1 DEF free_merge, MayMerge, RemoveAsserts
<1>3. PICK S, U, F, b : S = SZ /\ U = US /\ F = freelist /\ b = block
  OBVIOUS
<1>4. /\ b \in Offset /\ m = S[b] /\ m # 0 /\ ~U[b] /\ refused = {} /\ (USERLAND => panic = "none")
      /\ Partition(S) /\ Lists(F, S, U, {b}) /\ Owned(held, S, U) /\ Compact(S, U, {b})
      /\ IsArray(sizem) /\ used \in [Granule -> BOOLEAN]
  BY <1>2, <1>3 DEF BInv, CallOK, Merging, BlocksOK, Detached, Loose
<1>5. /\ m \in LOWER .. UPPER /\ m \in LOWER .. (UPPER - 1) /\ m \in Order /\ m \in Nat
      /\ Aligned(b, m) /\ b < Size /\ b \in Nat
  <2>1. m \in LOWER .. UPPER /\ Aligned(b, m) /\ b < Size /\ b \in Nat
    BY <1>4, BlockType
  <2> QED
    BY <1>2, <2>1, Orders DEF Order
<1>6. Twins(b, c, m) \/ Twins(c, b, m)
  BY <1>1, <1>3, <1>5, GetBuddy
<1>7. /\ Twins(lo, hi, m) /\ lo < Size /\ {lo, hi} = {b, c} /\ lo \in Offset /\ hi \in Offset
      /\ lo # hi /\ c \in Offset
  <2>1. CASE Twins(b, c, m)
    <3>1. c \in Offset /\ b < c /\ c \in Nat
      BY <1>5, <2>1, TwinBlocks
    <3>2. lo = b /\ hi = c
      BY <1>1, <1>3, <1>5, <3>1
    <3> QED
      BY <1>4, <1>5, <2>1, <3>1, <3>2
  <2>2. CASE Twins(c, b, m)
    <3>1. c \in Nat /\ c < Size /\ c < b
      <4>1. c + pow2[m] = b
        BY <2>2 DEF Twins
      <4>2. PICK j \in 0 .. MAXORDER : j = m + 1 /\ Aligned(c, j)
        BY <1>5, <2>2, Orders DEF Twins
      <4>3. c \in Nat /\ pow2[m] \in Nat /\ pow2[m] >= 1
        BY <1>5, <4>2, AlignedType, Pow2, OrderType
      <4> QED
        BY <1>5, <4>1, <4>3, Orders
    <3>2. c \in Offset
      BY <2>2, <3>1, TwinBlocks
    <3>3. lo = c /\ hi = b
      BY <1>1, <1>3, <1>5, <3>1
    <3> QED
      BY <1>4, <1>5, <2>2, <3>1, <3>2, <3>3
  <2> QED
    BY <1>6, <2>1, <2>2
<1>8. S[c] = m /\ ~U[c]
  <2>1. S[c] = sizem[idx(c)] /\ U[c] = used[idx(c)]
    BY <1>3, <1>7 DEF SZ, US, ByOffset
  <2> QED
    BY <1>2, <2>1
<1>9. S[lo] = m /\ S[hi] = m /\ ~U[lo] /\ ~U[hi]
  BY <1>4, <1>7, <1>8
<1>10. c # b
  BY <1>7
<1>11. Listed(F[m], S, U, m, {b}) /\ c \in ToSet(F[m])
  <2>1. Listed(F[m], S, U, m, {b})
    BY <1>4, <1>5 DEF Lists
  <2>2. Available(c, S, U, m, {b})
    BY <1>8, <1>10 DEF Available
  <2> QED
    BY <1>7, <2>1, <2>2 DEF Listed
<1>12. panic' = panic
  <2>1. F[m] \in Seq(Offset)
    BY <1>11 DEF Listed
  <2>2. Contains(F[m], c)
    BY <1>11, <2>1 DEF Contains, ToSet
  <2> QED
    BY <1>2, <1>3, <2>2
<1>13. PICK T : T = SZ' /\ PutTwo(T, S, lo, m + 1, hi, 0) /\ IsArray(sizem')
  <2>1. PICK f, f1, p, z : /\ f = sizem /\ f1 = sizem' /\ p = m + 1 /\ z = 0
                           /\ PutTwo(f1, f, idx(lo), p, idx(hi), z)
    BY <1>2 DEF PutTwo
  <2>2. IsArray(f)
    BY <1>4, <2>1
  <2>3. PutTwo(ByOffset(f1), ByOffset(f), lo, p, hi, z) /\ IsArray(f1)
    BY <1>7, <2>1, <2>2, PokeTwo
  <2>4. SZ = ByOffset(f) /\ SZ' = ByOffset(f1)
    BY <2>1 DEF SZ, ByOffset
  <2> QED
    BY <1>3, <2>1, <2>3, <2>4
<1>14. Partition(T)
  BY <1>4, <1>7, <1>9, <1>13, MergePartition
<1>15. \A x \in Offset : T[x] = IF x = hi THEN 0 ELSE IF x = lo THEN m + 1 ELSE S[x]
  BY <1>4, <1>7, <1>13 DEF PutTwo, Partition
<1>16. b \notin DOMAIN held /\ c \notin DOMAIN held
  BY <1>4, <1>7, <1>8 DEF Owned
<1>17. PICK G : G = freelist'
  OBVIOUS
<1>18. /\ G = [j \in Order |-> G[j]]
       /\ G[m] = remove_from_freelist(F[m], c)
       /\ \A j \in Order : j # m => G[j] = F[j]
  <2>1. F = [j \in Order |-> F[j]]
    BY <1>4 DEF Lists
  <2> QED
    BY <1>2, <1>3, <1>5, <1>17, <2>1
<1>19. Listed(G[m], T, U, m, {lo})
  <2>1. \A x \in Offset : Available(x, T, U, m, {lo}) <=> Available(x, S, U, m, {b}) /\ x # c
    BY <1>4, <1>5, <1>7, <1>15 DEF Available
  <2> QED
    BY <1>11, <1>18, <2>1, ListLess
<1>20. Lists(G, T, U, {lo})
  <2>1. ASSUME NEW j \in Order, j # m PROVE Listed(F[j], T, U, j, {lo})
    <3>1. j # 0
      BY OrderType
    <3>2. \A x \in Offset : Available(x, T, U, j, {lo}) <=> Available(x, S, U, j, {b})
      BY <1>7, <1>9, <1>15, <2>1, <3>1 DEF Available
    <3>3. Listed(F[j], S, U, j, {b})
      BY <1>4 DEF Lists
    <3> QED
      BY <3>2, <3>3, ListSame
  <2> QED
    BY <1>18, <1>19, <2>1 DEF Lists
<1>21. Owned(held, T, U)
  BY <1>4, <1>7, <1>15, <1>16 DEF Owned
<1>22. Compact(T, U, {lo})
  <2> SUFFICES ASSUME NEW x \in Offset, NEW y \in Offset, Twins(x, y, T[x]), T[y] = T[x],
                      ~U[x], ~U[y], x # lo, y # lo
               PROVE  FALSE
    BY DEF Compact
  <2>1. T[x] # 0
    BY Orders DEF Twins
  <2>2. x # hi /\ y # hi
    BY <1>15, <2>1
  <2>3. x # b /\ y # b /\ T[x] = S[x] /\ T[y] = S[y]
    BY <1>7, <1>15, <2>2
  <2> QED
    BY <1>4, <2>3 DEF Compact
<1>23. Loose' = {lo} /\ Detached' = {lo} /\ US' = U
  BY <1>2, <1>3 DEF Loose, Detached, US
<1>24. BlocksOK'
  BY <1>2, <1>4, <1>13, <1>14, <1>17, <1>20, <1>21, <1>22, <1>23 DEF BlocksOK
<1>25. Merging'
  BY <1>2, <1>5, <1>7, <1>9, <1>13, <1>15, <1>23 DEF Merging
<1>26. CallOK'
  BY <1>2, <1>4, <1>12, <1>25 DEF CallOK
<1> QED
  BY <1>24, <1>26 DEF BInv

LEMMA StepDone ==
    ASSUME BInv, free_done
    PROVE  BInv'
<1>1. PICK S, U, F, b : S = SZ /\ U = US /\ F = freelist /\ b = block
  OBVIOUS
<1>2. /\ pc = "merge" /\ panic = "none" /\ ~MayMerge /\ pc' = "idle"
      /\ freelist' = [freelist EXCEPT ![m] = add_to_freelist(@, b)]
      /\ panic' = IF b + pow2[m] <= Size THEN panic ELSE "add_to_freelist"
      /\ UNCHANGED <<sizem, used, held, refused>>
  BY <1>1 DEF free_done, Return, AddAsserts, blockVars
<1>3. /\ b \in Offset /\ m = S[b] /\ m # 0 /\ ~U[b] /\ refused = {} /\ (USERLAND => panic = "none")
      /\ Partition(S) /\ Lists(F, S, U, {b}) /\ Owned(held, S, U) /\ Compact(S, U, {b})
      /\ IsArray(sizem) /\ used \in [Granule -> BOOLEAN]
  BY <1>1, <1>2 DEF BInv, CallOK, Merging, BlocksOK, Detached, Loose
<1>4. /\ m \in LOWER .. UPPER /\ m \in Order /\ m \in Nat /\ Aligned(b, m)
      /\ b < Size /\ b + pow2[m] <= Size
  BY <1>3, BlockType, OrderType
<1>5. panic' = panic
  BY <1>2, <1>4
<1>6. PICK G : G = freelist'
  OBVIOUS
<1>7. /\ G = [j \in Order |-> G[j]]
      /\ G[m] = add_to_freelist(F[m], b)
      /\ \A j \in Order : j # m => G[j] = F[j]
  <2>1. F = [j \in Order |-> F[j]]
    BY <1>3 DEF Lists
  <2> QED
    BY <1>1, <1>2, <1>4, <1>6, <2>1
<1>8. Lists(G, S, U, {})
  <2>1. Listed(G[m], S, U, m, {})
    <3>1. ~Available(b, S, U, m, {b})
      BY DEF Available
    <3>2. \A x \in Offset : Available(x, S, U, m, {}) <=> Available(x, S, U, m, {b}) \/ x = b
      BY <1>3 DEF Available
    <3>3. Listed(F[m], S, U, m, {b})
      BY <1>3, <1>4 DEF Lists
    <3>4. PICK X, Y, l, k : X = {b} /\ Y = {} /\ l = F[m] /\ k = m
      OBVIOUS
    <3>5. Listed(l, S, U, k, X) /\ ~Available(b, S, U, k, X)
      BY <3>1, <3>3, <3>4
    <3>6. \A x \in Offset : Available(x, S, U, k, Y) <=> Available(x, S, U, k, X) \/ x = b
      BY <3>2, <3>4
    <3>7. Listed(add_to_freelist(l, b), S, U, k, Y)
      BY <1>3, <3>5, <3>6, ListMore
    <3> QED
      BY <1>7, <3>4, <3>7
  <2>2. ASSUME NEW j \in Order, j # m PROVE Listed(F[j], S, U, j, {})
    <3>1. \A x \in Offset : Available(x, S, U, j, {}) <=> Available(x, S, U, j, {b})
      BY <1>3, <2>2 DEF Available
    <3>2. Listed(F[j], S, U, j, {b})
      BY <1>3 DEF Lists
    <3> QED
      BY <3>1, <3>2, ListSame
  <2> QED
    BY <1>7, <2>1, <2>2 DEF Lists
<1>9. Compact(S, U, {})
  <2> SUFFICES ASSUME NEW x \in Offset, NEW y \in Offset, Twins(x, y, S[x]), S[y] = S[x],
                      ~U[x], ~U[y]
               PROVE  FALSE
    BY DEF Compact
  <2>1. x = b \/ y = b
    BY <1>3 DEF Compact
  <2>2. S[x] = m /\ S[y] = m /\ Twins(x, y, m)
    BY <1>3, <2>1
  <2>3. m \in LOWER .. (UPPER - 1) /\ m < UPPER
    BY <1>4, <2>2, Orders DEF Twins
  <2>4. PICK c : c = get_buddy(b, m)
    OBVIOUS
  <2>5. Twins(b, c, m) \/ Twins(c, b, m)
    BY <1>4, <2>3, <2>4, GetBuddy
  <2>6. x < Size /\ y < Size
    BY <1>3, BlockType
  <2>7. {x, y} = {b, c}
    BY <2>1, <2>2, <2>5, <2>6, OneTwin
  <2>8. x # y
    <3>1. x < y /\ x \in Nat /\ y \in Nat
      BY <2>2, <2>6, TwinBlocks
    <3> QED
      BY <3>1
  <2>9. c \in Offset /\ S[c] = m /\ ~U[c]
    BY <2>2, <2>7, <2>8
  <2>10. sizem[idx(c)] = m /\ ~used[idx(c)]
    <3>1. S[c] = sizem[idx(c)] /\ U[c] = used[idx(c)]
      BY <1>1, <2>9 DEF SZ, US, ByOffset
    <3> QED
      BY <2>9, <3>1
  <2> QED
    BY <1>1, <1>2, <2>3, <2>4, <2>10 DEF MayMerge
<1>10. SZ' = S /\ US' = U /\ Detached' = {} /\ Loose' = {}
  BY <1>1, <1>2 DEF SZ, US, Detached, Loose
<1>11. BlocksOK'
  BY <1>2, <1>3, <1>6, <1>8, <1>9, <1>10 DEF BlocksOK
<1>12. CallOK'
  BY <1>2, <1>3, <1>5 DEF CallOK
<1> QED
  BY <1>11, <1>12 DEF BInv

LEMMA Initially == Init => BInv
<1> SUFFICES ASSUME Init PROVE BInv
  OBVIOUS
<1>1. /\ sizem = [g \in Granule |-> IF g = 0 THEN UPPER ELSE 0]
      /\ used = [g \in Granule |-> FALSE]
      /\ freelist = [k \in Order |-> IF k = UPPER THEN <<0>> ELSE <<>>]
      /\ held = [b \in {} |-> 0] /\ pc = "idle" /\ refused = {} /\ panic = "none"
  BY DEF Init, buddy_init
<1>2. 0 \in Offset /\ Aligned(0, UPPER)
  <2>1. pow2[LOWER] \in Nat /\ pow2[UPPER] \in Nat
    BY Orders, Pow2
  <2>2. 0 = 0 * pow2[LOWER] /\ 0 = 0 * pow2[UPPER]
    BY <2>1
  <2>3. Aligned(0, LOWER) /\ Aligned(0, UPPER) /\ 0 < Size
    BY <2>2, Orders DEF Aligned
  <2> QED
    BY <2>3, Offsets
<1>3. PICK S, U : S = SZ /\ U = US
  OBVIOUS
<1>4. \A b \in Offset : S[b] = IF b = 0 THEN UPPER ELSE 0
  <2> SUFFICES ASSUME NEW b \in Offset PROVE S[b] = IF b = 0 THEN UPPER ELSE 0
    OBVIOUS
  <2>1. idx(b) \in Granule /\ (idx(b) = 0 <=> b = 0)
    <3>1. idx(b) \in Granule /\ b = idx(b) * pow2[LOWER] /\ idx(0) * pow2[LOWER] = 0
      BY <1>2, Indices
    <3>2. pow2[LOWER] \in Nat /\ pow2[LOWER] >= 1 /\ idx(0) = 0 \div pow2[LOWER]
      BY Orders, Pow2 DEF idx
    <3>3. idx(0) = 0
      BY <3>2
    <3>4. 0 * pow2[LOWER] = 0
      BY <3>2
    <3> QED
      BY <3>1, <3>3, <3>4
  <2> QED
    BY <1>1, <1>3, <2>1 DEF SZ, ByOffset
<1>5. S \in [Offset -> Orders0]
  <2>1. S = [b \in Offset |-> S[b]]
    BY <1>3 DEF SZ, ByOffset
  <2>2. \A b \in Offset : S[b] \in Orders0
    BY <1>4, Orders DEF Orders0
  <2> QED
    BY <2>1, <2>2
<1>6. \A b \in Offset : ~U[b]
  BY <1>1, <1>3, Indices DEF US, ByOffset
<1>7. Partition(S)
  <2>1. Within(S)
    BY <1>2, <1>4 DEF Within
  <2>2. \A b \in Offset : b \in Nat
    BY Offsets, AlignedType, Orders
  <2>3. Separate(S)
    BY <1>4, <2>2 DEF Separate
  <2>4. ASSUME NEW x \in 0 .. (Size - 1)
        PROVE  \E b \in Offset : S[b] # 0 /\ b <= x /\ x < b + pow2[S[b]]
    <3>1. S[0] # 0 /\ 0 <= x /\ x < 0 + pow2[S[0]]
      BY <1>2, <1>4, Orders
    <3> QED
      BY <1>2, <3>1
  <2> QED
    BY <1>5, <2>1, <2>3, <2>4 DEF Partition, Covering
<1>8. Lists(freelist, S, U, {})
  <2>1. freelist = [k \in Order |-> freelist[k]]
    BY <1>1
  <2>2. ASSUME NEW k \in Order PROVE Listed(freelist[k], S, U, k, {})
    <3>1. k # 0
      BY OrderType
    <3>2. CASE k = UPPER
      <4>1. freelist[k] = <<0>>
        BY <1>1, <3>2
      <4>2. <<0>> \in Seq(Offset) /\ IsInjective(<<0>>) /\ ToSet(<<0>>) = {0}
        BY <1>2 DEF IsInjective, ToSet
      <4>3. \A b \in Offset : b \in {0} <=> Available(b, S, U, k, {})
        BY <1>4, <1>6, <3>1, <3>2 DEF Available
      <4> QED
        BY <4>1, <4>2, <4>3 DEF Listed
    <3>3. CASE k # UPPER
      <4>1. freelist[k] = <<>>
        BY <1>1, <3>3
      <4>2. <<>> \in Seq(Offset) /\ IsInjective(<<>>) /\ ToSet(<<>>) = {}
        BY DEF IsInjective, ToSet
      <4>3. \A b \in Offset : b \in {} <=> Available(b, S, U, k, {})
        BY <1>4, <3>1, <3>3 DEF Available
      <4> QED
        BY <4>1, <4>2, <4>3 DEF Listed
    <3> QED
      BY <3>2, <3>3
  <2> QED
    BY <2>1, <2>2 DEF Lists
<1>9. Owned(held, S, U)
  BY <1>1, <1>6 DEF Owned
<1>10. Compact(S, U, {})
  <2> SUFFICES ASSUME NEW b \in Offset, NEW c \in Offset, Twins(b, c, S[b]) PROVE FALSE
    BY DEF Compact
  <2>1. S[b] \in LOWER .. (UPPER - 1)
    BY DEF Twins
  <2> QED
    BY <1>4, <2>1, Orders
<1>11. BlocksOK
  BY <1>1, <1>3, <1>7, <1>8, <1>9, <1>10 DEF BlocksOK, IsArray, Detached, Loose
<1>12. CallOK
  BY <1>1 DEF CallOK
<1> QED
  BY <1>11, <1>12 DEF BInv

(* The invariant is inductive: in the middle of every call of buddy_alloc  *)
(* and buddy_free too, the array blocks divides the area, the free lists   *)
(* hold exactly the free blocks and no two free blocks wait to be merged.  *)
THEOREM BuddyInvariance == Spec => []BInv
<1>1. BInv /\ [Next]_vars => BInv'
  <2> SUFFICES ASSUME BInv, [Next]_vars PROVE BInv'
    OBVIOUS
  <2>1. CASE UNCHANGED vars
    BY <2>1, Unchanged
  <2>2. ASSUME NEW n \in Requests, buddy_alloc(n) PROVE BInv'
    BY <2>2, StepAlloc
  <2>3. ASSUME NEW n \in Requests, alloc_exhausted(n) PROVE BInv'
    BY <2>3, StepExhausted
  <2>4. ASSUME NEW b \in Offset, buddy_free(b) PROVE BInv'
    BY <2>4, StepFree
  <2>5. CASE alloc_split
    BY <2>5, StepSplit
  <2>6. CASE alloc_take
    BY <2>6, StepTake
  <2>7. CASE free_merge
    BY <2>7, StepMerge
  <2>8. CASE free_done
    BY <2>8, StepDone
  <2> QED
    BY <2>1, <2>2, <2>3, <2>4, <2>5, <2>6, <2>7, <2>8 DEF Next
<1> QED
  BY <1>1, Initially, PTL DEF Spec

(* No assertion of buddy.c fails.  In the test program, where a refused    *)
(* request is no panic, nothing panics at all; in the kernel the only      *)
(* panic is the one of an exhausted heap.                                  *)
THEOREM BuddyNeverPanics ==
    /\ Spec => [](panic \in {"none", "exhausted"})
    /\ USERLAND => (Spec => []NoPanic)
<1>1. BInv => panic \in {"none", "exhausted"}
  BY DEF BInv, CallOK
<1>2. ASSUME USERLAND PROVE BInv => NoPanic
  BY <1>2 DEF BInv, CallOK, NoPanic
<1>3. Spec => [](panic \in {"none", "exhausted"})
  BY <1>1, BuddyInvariance, PTL
<1>4. ASSUME USERLAND PROVE Spec => []NoPanic
  <2>1. BInv => NoPanic
    BY <1>2, <1>4
  <2> QED
    BY <2>1, BuddyInvariance, PTL
<1> QED
  BY <1>3, <1>4

(* buddy_alloc and buddy_free are the abstract heap: the block that a call *)
(* hands out lies in the area, is long enough and meets no other block.    *)
THEOREM BuddyIsHeap == Spec => HeapSpec
<1>1. Init => H!HInit
  BY DEF Init, H!HInit
<1>2. BInv /\ [Next]_vars => [H!HNext]_held
  <2> SUFFICES ASSUME BInv, [Next]_vars PROVE H!HNext \/ held' = held
    OBVIOUS
  <2>1. ASSUME NEW b \in Offset, buddy_free(b) PROVE H!HNext
    <3>1. b \in 0 .. (Size - 1)
      BY Offsets, AlignedType, Orders
    <3>2. H!Free(b)
      BY <2>1 DEF buddy_free, H!Free, H!Delete
    <3> QED
      BY <3>1, <3>2 DEF H!HNext
  <2>2. CASE alloc_take
    <3>1. PICK b \in Offset, n \in Requests :
              /\ b \notin DOMAIN held /\ SZ[b] # 0 /\ n \in Nat /\ n <= pow2[SZ[b]]
              /\ held' = [c \in DOMAIN held \cup {b} |-> IF c = b THEN n ELSE held[c]]
      BY <2>2, StepTake
    <3>2. PICK S : S = SZ /\ Partition(S) /\ Owned(held, S, US)
      BY DEF BInv, BlocksOK
    <3>3. b \in Nat /\ pow2[S[b]] \in Nat /\ b + pow2[S[b]] <= Size /\ b \in 0 .. (Size - 1)
      <4>1. b \in Nat /\ b < Size /\ pow2[S[b]] \in Nat /\ b + pow2[S[b]] <= Size
        BY <3>1, <3>2, BlockType
      <4> QED
        BY <4>1, Orders
    <3>4. b + n <= Size
      BY <3>1, <3>2, <3>3, Orders
    <3>5. ASSUME NEW c \in DOMAIN held PROVE H!Disjoint(b, n, c, held[c])
      <4>1. c \in Offset /\ S[c] # 0 /\ held[c] \in Nat /\ held[c] <= pow2[S[c]]
        BY <3>2 DEF Owned
      <4>2. c \in Nat /\ pow2[S[c]] \in Nat
        BY <3>2, <4>1, BlockType
      <4>3. b < c => b + pow2[S[b]] <= c
        BY <3>1, <3>2, <4>1 DEF Partition, Separate
      <4>4. c < b => c + pow2[S[c]] <= b
        BY <3>1, <3>2, <4>1 DEF Partition, Separate
      <4>5. b # c
        BY <3>1
      <4>6. n \in Nat /\ n <= pow2[S[b]]
        BY <3>1, <3>2
      <4>7. b + n <= c \/ c + held[c] <= b
        BY <3>3, <4>1, <4>2, <4>3, <4>4, <4>5, <4>6
      <4> QED
        BY <4>7 DEF H!Disjoint
    <3>6. H!Alloc(b, n)
      BY <3>1, <3>4, <3>5 DEF H!Alloc, H!Insert
    <3> QED
      BY <3>1, <3>3, <3>6 DEF H!HNext
  <2>3. CASE alloc_split \/ free_merge \/ free_done \/ UNCHANGED vars
    BY <2>3 DEF alloc_split, free_merge, free_done, vars
  <2>4. ASSUME NEW n \in Requests, buddy_alloc(n) \/ alloc_exhausted(n) PROVE held' = held
    BY <2>4 DEF buddy_alloc, alloc_exhausted
  <2> QED
    BY <2>1, <2>2, <2>3, <2>4 DEF Next
<1> QED
  BY <1>1, <1>2, BuddyInvariance, PTL DEF Spec, HeapSpec, H!HSpec

(***************************************************************************)
(* Between the calls.                                                      *)
(***************************************************************************)
AreBlocks(B, S, A) ==
    /\ \A b \in A : b \in Offset /\ S[b] # 0 /\ <<b, S[b]>> \in B
    /\ \A x \in B : \E b \in A : x = <<b, S[b]>>

LEMMA BlocksBetween ==
    ASSUME BInv, pc = "idle"
    PROVE  /\ AreBlocks(FreeBlocks, SZ, {b \in Offset : SZ[b] # 0 /\ ~US[b]})
           /\ AreBlocks(UsedBlocks, SZ, {b \in Offset : SZ[b] # 0 /\ US[b]})
<1>1. PICK S, U, F : S = SZ /\ U = US /\ F = freelist
  OBVIOUS
<1>2. Partition(S) /\ Lists(F, S, U, {}) /\ Owned(held, S, U)
  BY <1>1 DEF BInv, BlocksOK, Detached
<1>3. PICK A : A = {b \in Offset : S[b] # 0 /\ ~U[b]}
  OBVIOUS
<1>4. AreBlocks(FreeBlocks, S, A)
  <2>1. ASSUME NEW b \in A PROVE b \in Offset /\ S[b] # 0 /\ <<b, S[b]>> \in FreeBlocks
    <3>1. b \in Offset /\ S[b] # 0 /\ ~U[b]
      BY <1>3
    <3>2. PICK k \in Order : k = S[b]
      BY <1>2, <3>1, OrderType DEF Partition, Orders0
    <3>3. b \in ToSet(F[k])
      BY <1>2, <3>1, <3>2 DEF Lists, Listed, Available
    <3>4. <<b, k>> \in {<<x, k>> : x \in ToSet(freelist[k])}
      BY <1>1, <3>3
    <3>5. <<b, k>> \in FreeBlocks
      BY <3>4 DEF FreeBlocks
    <3> QED
      BY <3>1, <3>2, <3>5
  <2>2. ASSUME NEW x \in FreeBlocks PROVE \E b \in A : x = <<b, S[b]>>
    <3>1. PICK k \in Order : x \in {<<b, k>> : b \in ToSet(freelist[k])}
      BY DEF FreeBlocks
    <3>2. PICK b \in ToSet(F[k]) : x = <<b, k>>
      BY <1>1, <3>1
    <3>3. Listed(F[k], S, U, k, {})
      BY <1>2 DEF Lists
    <3>4. b \in Offset
      <4>1. F[k] \in Seq(Offset)
        BY <3>3 DEF Listed
      <4> QED
        BY <4>1 DEF ToSet
    <3>5. S[b] = k /\ ~U[b] /\ k # 0
      BY <3>3, <3>4, OrderType DEF Listed, Available
    <3> QED
      BY <1>3, <3>2, <3>4, <3>5
  <2> QED
    BY <2>1, <2>2 DEF AreBlocks
<1>5. PICK B : B = {b \in Offset : S[b] # 0 /\ U[b]}
  OBVIOUS
<1>6. AreBlocks(UsedBlocks, S, B)
  <2>1. ASSUME NEW b \in Offset PROVE b \in B <=> b \in DOMAIN held
    BY <1>2, <1>5 DEF Owned
  <2>2. \A b \in Offset : S[b] = sizem[idx(b)]
    BY <1>1 DEF SZ, ByOffset
  <2>3. DOMAIN held \subseteq Offset
    BY <1>2 DEF Owned
  <2>4. UsedBlocks = {<<b, S[b]>> : b \in DOMAIN held}
    BY <2>2, <2>3 DEF UsedBlocks
  <2>5. B = DOMAIN held
    BY <1>5, <2>1, <2>3
  <2> QED
    BY <1>5, <2>4, <2>5 DEF AreBlocks
<1> QED
  BY <1>1, <1>3, <1>4, <1>5, <1>6

LEMMA BytesOf ==
    ASSUME NEW b, NEW k
    PROVE  Bytes(<<b, k>>) = b .. (b + pow2[k] - 1)
BY DEF Bytes

LEMMA Divided ==
    ASSUME BInv, pc = "idle"
    PROVE  AreaPartitioned
<1>1. PICK S, U, F : S = SZ /\ U = US /\ F = freelist
  OBVIOUS
<1>2. Partition(S) /\ Lists(F, S, U, {}) /\ Owned(held, S, U)
  BY <1>1 DEF BInv, BlocksOK, Detached
<1>3. PICK A, B : /\ A = {b \in Offset : S[b] # 0 /\ ~U[b]} /\ B = {b \in Offset : S[b] # 0 /\ U[b]}
                  /\ AreBlocks(FreeBlocks, S, A) /\ AreBlocks(UsedBlocks, S, B)
  BY <1>1, BlocksBetween
<1>4. PICK X : X = FreeBlocks \cup UsedBlocks
  OBVIOUS
<1>5. ASSUME NEW x \in X
      PROVE  \E b \in Offset : S[b] # 0 /\ x = <<b, S[b]>> /\ Bytes(x) = b .. (b + pow2[S[b]] - 1)
  <2>1. PICK b \in Offset : S[b] # 0 /\ x = <<b, S[b]>>
    BY <1>3, <1>4 DEF AreBlocks
  <2> QED
    BY <2>1, BytesOf
<1>6. ASSUME NEW b \in Offset, S[b] # 0 PROVE <<b, S[b]>> \in X
  BY <1>3, <1>4, <1>6 DEF AreBlocks
<1>7. \A x \in X : Bytes(x) \subseteq 0 .. (Size - 1)
  <2> SUFFICES ASSUME NEW x \in X PROVE Bytes(x) \subseteq 0 .. (Size - 1)
    OBVIOUS
  <2>1. PICK b \in Offset : S[b] # 0 /\ Bytes(x) = b .. (b + pow2[S[b]] - 1)
    BY <1>5
  <2>2. b \in Nat /\ pow2[S[b]] \in Nat /\ b + pow2[S[b]] <= Size
    BY <1>2, <2>1, BlockType
  <2> QED
    BY <2>1, <2>2, Orders
<1>8. \A z \in 0 .. (Size - 1) : \E x \in X : z \in Bytes(x)
  <2> SUFFICES ASSUME NEW z \in 0 .. (Size - 1) PROVE \E x \in X : z \in Bytes(x)
    OBVIOUS
  <2>1. PICK b \in Offset : S[b] # 0 /\ b <= z /\ z < b + pow2[S[b]]
    BY <1>2 DEF Partition, Covering
  <2>2. b \in Nat /\ pow2[S[b]] \in Nat
    BY <1>2, <2>1, BlockType
  <2>3. z \in b .. (b + pow2[S[b]] - 1)
    BY <2>1, <2>2, Orders
  <2>4. Bytes(<<b, S[b]>>) = b .. (b + pow2[S[b]] - 1)
    BY BytesOf
  <2> QED
    BY <1>6, <2>1, <2>3, <2>4
<1>9. UNION {Bytes(x) : x \in X} = 0 .. (Size - 1)
  BY <1>7, <1>8
<1>10. \A x, y \in X : x # y => Bytes(x) \cap Bytes(y) = {}
  <2> SUFFICES ASSUME NEW x \in X, NEW y \in X, x # y, NEW z \in Bytes(x), z \in Bytes(y)
               PROVE  FALSE
    OBVIOUS
  <2>1. PICK b \in Offset : S[b] # 0 /\ x = <<b, S[b]>> /\ Bytes(x) = b .. (b + pow2[S[b]] - 1)
    BY <1>5
  <2>2. PICK c \in Offset : S[c] # 0 /\ y = <<c, S[c]>> /\ Bytes(y) = c .. (c + pow2[S[c]] - 1)
    BY <1>5
  <2>3. /\ b \in Nat /\ pow2[S[b]] \in Nat /\ c \in Nat /\ pow2[S[c]] \in Nat
    BY <1>2, <2>1, <2>2, BlockType
  <2>4. b # c
    BY <2>1, <2>2
  <2>5. (b < c => b + pow2[S[b]] <= c) /\ (c < b => c + pow2[S[c]] <= b)
    BY <1>2, <2>1, <2>2 DEF Partition, Separate
  <2> QED
    BY <2>1, <2>2, <2>3, <2>4, <2>5
<1>11. FreeBlocks \cap UsedBlocks = {}
  <2> SUFFICES ASSUME NEW x \in FreeBlocks, x \in UsedBlocks PROVE FALSE
    OBVIOUS
  <2>1. PICK b \in A : x = <<b, S[b]>>
    BY <1>3 DEF AreBlocks
  <2>2. PICK c \in B : x = <<c, S[c]>>
    BY <1>3 DEF AreBlocks
  <2>3. b = c
    BY <2>1, <2>2
  <2> QED
    BY <1>3, <2>1, <2>2, <2>3
<1>12. \A k \in Order : IsInjective(freelist[k])
  BY <1>1, <1>2 DEF Lists, Listed
<1>13. \A g \in Granule : used[g] <=> g * pow2[LOWER] \in DOMAIN held
  <2> SUFFICES ASSUME NEW g \in Granule PROVE used[g] <=> g * pow2[LOWER] \in DOMAIN held
    OBVIOUS
  <2>1. PICK b \in Offset : b = g * pow2[LOWER] /\ idx(b) = g
    BY Indices
  <2>2. U[b] = used[g]
    BY <1>1, <2>1 DEF US, ByOffset
  <2>3. U[b] <=> b \in DOMAIN held
    BY <1>2 DEF Owned
  <2> QED
    BY <2>1, <2>2, <2>3
<1> QED
  BY <1>4, <1>9, <1>10, <1>11, <1>12, <1>13 DEF AreaPartitioned

(* Between the calls the free blocks and those of the callers divide the   *)
(* area: splits and merges lose no byte and hand out none twice.           *)
THEOREM BuddyDivides == Spec => []AreaPartitioned
<1>1. BInv => AreaPartitioned
  <2>1. BInv /\ pc = "idle" => AreaPartitioned
    BY Divided
  <2>2. pc # "idle" => AreaPartitioned
    BY DEF AreaPartitioned
  <2> QED
    BY <2>1, <2>2
<1> QED
  BY <1>1, BuddyInvariance, PTL

(***************************************************************************)
(* A region of the size of a block that no block in use meets would hold a *)
(* smallest free block and, next to it, its twin, which cannot be smaller; *)
(* both would have been merged.                                            *)
(***************************************************************************)
Clear(x, S, b, f)  == x + pow2[S[x]] <= b \/ b + pow2[f] <= x
InRegion(x, S, U, b, f) ==
    /\ x \in Offset /\ S[x] # 0 /\ ~U[x] /\ S[x] < f
    /\ b <= x /\ x + pow2[S[x]] <= b + pow2[f]

LEMMA RegionCovered ==
    ASSUME NEW S, Partition(S), NEW U, NEW f \in LOWER .. UPPER, NEW b, Aligned(b, f), b < Size,
           \A x \in Offset : S[x] # 0 /\ ~U[x] => S[x] < f,
           \A x \in Offset : S[x] # 0 /\ U[x] => Clear(x, S, b, f),
           NEW z \in Nat, b <= z, z < b + pow2[f]
    PROVE  \E x \in Offset : InRegion(x, S, U, b, f) /\ x <= z /\ z < x + pow2[S[x]]
<1>1. f \in 0 .. MAXORDER /\ f \in Nat /\ pow2[f] \in Nat /\ b \in Nat /\ b + pow2[f] <= Size
  BY Inside
<1>2. z \in 0 .. (Size - 1)
  BY <1>1, Orders
<1>3. PICK x \in Offset : S[x] # 0 /\ x <= z /\ z < x + pow2[S[x]]
  BY <1>2 DEF Partition, Covering
<1>4. /\ x \in Nat /\ S[x] \in LOWER .. UPPER /\ Aligned(x, S[x])
      /\ pow2[S[x]] \in Nat /\ pow2[S[x]] >= 1
  BY <1>3, BlockType
<1>5. ~Clear(x, S, b, f)
  BY <1>1, <1>3, <1>4 DEF Clear
<1>6. ~U[x] /\ S[x] < f
  BY <1>3, <1>5
<1>7. PICK j \in 0 .. f : j = S[x] /\ j \in 0 .. MAXORDER /\ j \in Nat
  BY <1>1, <1>4, <1>6, Orders
<1>8. Aligned(b, j) /\ Aligned(b + pow2[f], j)
  <2>1. PICK e : e = b + pow2[f] /\ Aligned(e, f)
    BY <1>1, NextAligned
  <2> QED
    BY <1>1, <2>1, Finer
<1>9. Aligned(x, j)
  BY <1>4, <1>7
<1>10. x < b => x + pow2[j] <= b
  BY <1>7, <1>8, <1>9, Apart
<1>11. x < b + pow2[f] => x + pow2[j] <= b + pow2[f]
  <2>1. PICK e : e = b + pow2[f] /\ Aligned(e, j)
    BY <1>8
  <2>2. x < e => x + pow2[j] <= e
    BY <1>7, <1>9, <2>1, Apart
  <2> QED
    BY <2>1, <2>2
<1>12. b <= x /\ x + pow2[S[x]] <= b + pow2[f]
  BY <1>1, <1>3, <1>4, <1>7, <1>10, <1>11
<1> QED
  BY <1>3, <1>6, <1>12 DEF InRegion

LEMMA NoFreeRegion ==
    ASSUME NEW S, Partition(S), NEW U, Compact(S, U, {}),
           NEW f \in LOWER .. UPPER, NEW b, Aligned(b, f), b < Size,
           \A x \in Offset : S[x] # 0 /\ ~U[x] => S[x] < f,
           \A x \in Offset : S[x] # 0 /\ U[x] => Clear(x, S, b, f)
    PROVE  FALSE
<1>1. /\ f \in 0 .. MAXORDER /\ f \in Nat /\ pow2[f] \in Nat /\ pow2[f] >= 1
      /\ b \in Nat /\ b + pow2[f] <= Size
  BY Inside
<1>2. PICK e \in Nat : e = b + pow2[f] /\ Aligned(e, f) /\ e <= Size /\ b < e
  BY <1>1, NextAligned
<1>3. ASSUME NEW z \in Nat, b <= z, z < e
      PROVE  \E x \in Offset : InRegion(x, S, U, b, f) /\ x <= z /\ z < x + pow2[S[x]]
  BY <1>2, <1>3, RegionCovered
<1>4. ASSUME NEW x, InRegion(x, S, U, b, f)
      PROVE  /\ x \in Offset /\ S[x] # 0 /\ ~U[x] /\ x \in Nat /\ S[x] \in LOWER .. UPPER
             /\ S[x] \in Nat /\ S[x] < f /\ Aligned(x, S[x]) /\ pow2[S[x]] \in Nat
             /\ b <= x /\ x + pow2[S[x]] <= e /\ pow2[S[x]] >= 1 /\ x < Size
  <2>1. /\ x \in Offset /\ S[x] # 0 /\ ~U[x] /\ S[x] < f /\ b <= x /\ x + pow2[S[x]] <= e
    BY <1>2, <1>4 DEF InRegion
  <2> QED
    BY <2>1, BlockType, OrderType
<1>5. PICK O : O = {S[x] : x \in {y \in Offset : InRegion(y, S, U, b, f)}}
  OBVIOUS
<1>6. O \in SUBSET Nat /\ O # {}
  <2>1. \E x \in Offset : InRegion(x, S, U, b, f)
    BY <1>1, <1>2, <1>3
  <2> QED
    BY <1>4, <1>5, <2>1
<1>7. PICK k \in O : \A o \in O : k <= o
  BY <1>6, Least
<1>8. PICK x \in Offset : InRegion(x, S, U, b, f) /\ S[x] = k
  BY <1>5, <1>7
<1>9. /\ ~U[x] /\ x \in Nat /\ k \in LOWER .. UPPER /\ k \in Nat /\ k < f /\ Aligned(x, k)
      /\ pow2[k] \in Nat /\ b <= x /\ x + pow2[k] <= e /\ pow2[k] >= 1 /\ x < Size /\ k # 0
  BY <1>4, <1>8
<1>10. k \in LOWER .. (UPPER - 1) /\ k + 1 \in 0 .. MAXORDER /\ k + 1 \in 0 .. f /\ k \in 0 .. MAXORDER
  BY <1>1, <1>9, Orders
<1>11. PICK lo, hi, y : /\ Twins(lo, hi, k) /\ lo < Size /\ lo \in Nat
                        /\ (x = lo /\ y = hi) \/ (x = hi /\ y = lo)
  <2>1. PICK c : c = get_buddy(x, k)
    OBVIOUS
  <2>2. Twins(x, c, k) \/ Twins(c, x, k)
    BY <1>9, <1>10, <2>1, GetBuddy
  <2>3. CASE Twins(x, c, k)
    BY <1>9, <2>3
  <2>4. CASE Twins(c, x, k)
    <3>1. x = c + pow2[k] /\ Aligned(c, k + 1)
      BY <2>4 DEF Twins
    <3>2. c \in Nat
      BY <1>10, <3>1, AlignedType
    <3>3. c < Size
      BY <1>9, <3>1, <3>2, Orders
    <3> QED
      BY <2>4, <3>2, <3>3
  <2> QED
    BY <2>2, <2>3, <2>4
<1>12. /\ hi = lo + pow2[k] /\ Aligned(lo, k + 1) /\ pow2[k + 1] = 2 * pow2[k] /\ lo \in Offset
       /\ hi \in Offset /\ Aligned(lo, k) /\ Aligned(hi, k)
  BY <1>11, TwinBlocks DEF Twins
<1>13. PICK i \in 0 .. MAXORDER : i = k + 1 /\ i \in 0 .. f /\ pow2[i] = 2 * pow2[k] /\ Aligned(lo, i)
  BY <1>10, <1>12
<1>14. b <= lo /\ lo + pow2[i] <= e
  <2>1. Aligned(b, i) /\ Aligned(e, i)
    BY <1>1, <1>2, <1>13, Finer
  <2>2. (lo < b => lo + pow2[i] <= b) /\ (lo < e => lo + pow2[i] <= e)
    BY <1>13, <2>1, Apart
  <2>3. lo <= x /\ x < lo + pow2[i] /\ x < e
    BY <1>9, <1>11, <1>12, <1>13
  <2> QED
    BY <1>1, <1>2, <1>9, <1>11, <1>13, <2>2, <2>3
<1>15. /\ y \in Nat /\ lo <= y /\ y < lo + pow2[i] /\ b <= y /\ y < e /\ y # x /\ Aligned(y, k)
       /\ y \in Offset
  BY <1>1, <1>2, <1>9, <1>11, <1>12, <1>13, <1>14
<1>16. PICK z \in Offset : InRegion(z, S, U, b, f) /\ z <= y /\ y < z + pow2[S[z]]
  BY <1>3, <1>15
<1>17. PICK j \in 0 .. MAXORDER : /\ j = S[z] /\ j >= k /\ j \in Nat /\ z \in Nat /\ ~U[z] /\ S[z] # 0
                                  /\ Aligned(z, j) /\ pow2[j] \in Nat /\ y < z + pow2[j]
  <2>1. S[z] \in O
    BY <1>5, <1>16
  <2> QED
    BY <1>4, <1>7, <1>16, <2>1, OrderType
<1>18. CASE j = k
  <2>1. z < y => z + pow2[k] <= y
    BY <1>10, <1>15, <1>17, <1>18, Apart
  <2>2. z = y
    BY <1>9, <1>15, <1>16, <1>17, <1>18, <2>1
  <2>3. S[lo] = k /\ S[hi] = k /\ ~U[lo] /\ ~U[hi]
    BY <1>8, <1>9, <1>11, <1>17, <1>18, <2>2
  <2> QED
    BY <1>11, <1>12, <2>3 DEF Compact
<1>19. CASE j > k
  <2>1. i \in 0 .. j
    BY <1>9, <1>13, <1>17, <1>19
  <2>2. PICK d : d = z + pow2[j] /\ Aligned(d, j) /\ d \in Nat
    BY <1>17, NextAligned
  <2>3. Aligned(z, i) /\ Aligned(d, i)
    BY <1>17, <2>1, <2>2, Finer
  <2>4. (lo < z => lo + pow2[i] <= z) /\ (lo < d => lo + pow2[i] <= d)
    BY <1>13, <2>3, Apart
  <2>5. z <= lo /\ lo + pow2[i] <= d
    BY <1>9, <1>11, <1>13, <1>15, <1>16, <1>17, <2>2, <2>4
  <2>6. z <= x /\ x < d
    BY <1>9, <1>11, <1>12, <1>13, <1>17, <2>2, <2>5
  <2>7. z # x
    BY <1>8, <1>9, <1>17, <1>19
  <2>8. z + pow2[S[z]] <= x
    <3>1. z < x /\ S[x] # 0
      BY <1>8, <1>9, <1>17, <2>6, <2>7
    <3> QED
      BY <1>17, <3>1 DEF Partition, Separate
  <2> QED
    BY <1>9, <1>17, <2>2, <2>6, <2>8
<1> QED
  BY <1>9, <1>17, <1>18, <1>19

EmptyFrom(f) == \A k \in f .. MAXORDER : freelist[k] = <<>>

(* With every list from order f on empty, callers' blocks meet all places. *)
LEMMA RefusedRight ==
    ASSUME BInv, pc = "idle", NEW f \in LOWER .. UPPER, EmptyFrom(f)
    PROVE  NoneLeft(f)
<1>1. pc = "idle" /\ \A k \in f .. MAXORDER : freelist[k] = <<>>
  BY DEF EmptyFrom
<1>2. f \in Nat /\ f \in 0 .. MAXORDER
  BY Orders
<1>3. PICK S, U, F : S = SZ /\ U = US /\ F = freelist
  OBVIOUS
<1>4. Partition(S) /\ Lists(F, S, U, {}) /\ Compact(S, U, {})
  BY <1>1, <1>3 DEF BInv, BlocksOK, Detached, Loose
<1>5. ASSUME NEW x \in Offset, S[x] # 0, ~U[x] PROVE S[x] < f
  <2>1. PICK k \in LOWER .. UPPER : k = S[x] /\ k \in Order
    BY <1>4, <1>5, OrderType DEF Partition, Orders0
  <2>2. Listed(F[k], S, U, k, {})
    BY <1>4, <2>1 DEF Lists
  <2>3. x \in ToSet(F[k])
    BY <1>5, <2>1, <2>2 DEF Listed, Available
  <2>4. F[k] # <<>>
    BY <2>3 DEF ToSet
  <2>5. k \notin f .. MAXORDER
    BY <1>1, <1>3, <2>4
  <2> QED
    BY <1>2, <2>1, <2>5, Orders
<1>6. PICK p \in Nat, q \in Nat : p = pow2[f] /\ q = pow2[UPPER - f] /\ p >= 1 /\ Size = q * p
  <2>1. PICK i \in 0 .. MAXORDER : i = UPPER - f /\ i + f = UPPER /\ i + f <= MAXORDER
    BY <1>2, Orders
  <2>2. pow2[i + f] = pow2[i] * pow2[f]
    BY <1>2, <2>1, Product
  <2>3. pow2[i] \in Nat /\ pow2[f] \in Nat /\ pow2[f] >= 1
    BY <1>2, <2>1, Pow2
  <2> QED
    BY <2>1, <2>2, <2>3, Orders
<1>7. ASSUME NEW b \in {j * pow2[f] : j \in 0 .. (pow2[UPPER - f] - 1)},
             \A x \in UsedBlocks : Bytes(x) \cap Bytes(<<b, f>>) = {}
      PROVE  FALSE
  <2>1. PICK j \in 0 .. (q - 1) : b = j * p
    BY <1>2, <1>6, <1>7
  <2>2. Aligned(b, f) /\ b \in Nat
    BY <1>6, <2>1 DEF Aligned
  <2>3. b < Size
    <3>1. PICK d \in Nat : q = j + 1 + d
      <4>1. q - (j + 1) \in Nat /\ q = j + 1 + (q - (j + 1))
        BY <2>1
      <4> QED
        BY <4>1
    <3>2. q * p = j * p + p + d * p /\ d * p \in Nat /\ j * p \in Nat
      BY <2>1, <3>1
    <3> QED
      BY <1>6, <2>1, <3>2
  <2>4. ASSUME NEW x \in Offset, S[x] # 0, U[x] PROVE Clear(x, S, b, f)
    <3>1. <<x, S[x]>> \in UsedBlocks
      BY <1>1, <1>3, <2>4, BlocksBetween DEF AreBlocks
    <3>2. Bytes(<<x, S[x]>>) = x .. (x + pow2[S[x]] - 1) /\ Bytes(<<b, f>>) = b .. (b + p - 1)
      BY <1>6, BytesOf
    <3>3. x \in Nat /\ pow2[S[x]] \in Nat /\ pow2[S[x]] >= 1
      BY <1>4, <2>4, BlockType
    <3>4. \A z : ~(z \in x .. (x + pow2[S[x]] - 1) /\ z \in b .. (b + p - 1))
      BY <1>2, <1>7, <3>1, <3>2
    <3>5. ~(x \in b .. (b + p - 1)) /\ ~(b \in x .. (x + pow2[S[x]] - 1))
      <4>1. x \in x .. (x + pow2[S[x]] - 1) /\ b \in b .. (b + p - 1)
        BY <1>6, <2>2, <3>3
      <4> QED
        BY <3>4, <4>1
    <3>6. x + pow2[S[x]] <= b \/ b + p <= x
      BY <2>2, <3>3, <3>5
    <3> QED
      BY <1>6, <3>6 DEF Clear
  <2> QED
    BY <1>4, <1>5, <2>2, <2>3, <2>4, NoFreeRegion
<1> QED
  BY <1>7 DEF NoneLeft

(* buddy_alloc refuses a request only when no aligned block longer than it *)
(* is clear of the callers' memory: merging is as eager as it can be, and  *)
(* the search starts at the smallest power of two above the request.       *)
THEOREM BuddyRefusesRightly == Spec => []RefusedOnlyWhenFull
<1>1. BInv => RefusedOnlyWhenFull
  <2>1. SUFFICES ASSUME BInv, NEW n \in refused, NEW k \in LOWER .. UPPER, pow2[k] > n
                 PROVE  NoneLeft(k)
    BY DEF RefusedOnlyWhenFull
  <2>2. pc = "idle" /\ n \in Requests /\ \A j \in mforsize(n) .. MAXORDER : freelist[j] = <<>>
    BY <2>1 DEF BInv, CallOK, Refused
  <2>3. k \in Order /\ mforsize(n) \in Nat
    BY <2>2, ForSize, OrderType, Orders DEF Order
  <2>4. mforsize(n) <= k
    BY <2>1, <2>2, <2>3, ForSizeLeast
  <2>5. EmptyFrom(k)
    BY <2>2, <2>3, <2>4, Orders DEF EmptyFrom
  <2> QED
    BY <2>1, <2>2, <2>5, RefusedRight
<1> QED
  BY <1>1, BuddyInvariance, PTL

=============================================================================

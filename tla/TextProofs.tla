----------------------------- MODULE TextProofs -----------------------------
(***************************************************************************)
(* Induction over the natural numbers, and what follows from it about the  *)
(* operators of module Text.                                               *)
(***************************************************************************)
EXTENDS Text, FiniteSetTheorems, TLAPS

(* A set that contains 0 and with each number the next one contains all    *)
(* numbers.  If it left out n, adding 1 would map its part below n one to  *)
(* one into itself, but onto a smaller set.                                *)
LEMMA Induction ==
    ASSUME NEW T, 0 \in T, \A n \in Nat : n \in T => n + 1 \in T
    PROVE  \A n \in Nat : n \in T
<1> SUFFICES ASSUME NEW n \in Nat, n \notin T PROVE FALSE
  OBVIOUS
<1>1. PICK A : A = {k \in 0 .. n : k \in T}
  OBVIOUS
<1>2. IsFiniteSet(A)
  <2>1. IsFiniteSet(0 .. n)
    BY FS_Interval
  <2> QED
    BY <1>1, <2>1, FS_Subset
<1>3. 0 \in A /\ \A k \in A : k \in Nat /\ k + 1 \in A
  BY <1>1
<1>4. PICK f : f = [k \in A |-> k + 1]
  OBVIOUS
<1>5. f \in Injection(A, A)
  BY <1>3, <1>4 DEF Injection, IsInjective
<1>6. f \in Surjection(A, A)
  BY <1>2, <1>5, FS_Injection
<1>7. PICK k \in A : f[k] = 0
  BY <1>3, <1>6 DEF Surjection
<1> QED
  BY <1>3, <1>4, <1>7

(* memmove towards lower addresses reads every byte before it is           *)
(* overwritten.                                                            *)
Moved(mem, dst, src, n) ==
    [i \in DOMAIN mem |-> IF i \in dst .. (dst + n - 1) THEN mem[src + (i - dst)] ELSE mem[i]]

LEMMA MemmoveDown ==
    ASSUME NEW D \in SUBSET Int, NEW S, NEW mem \in [D -> S],
           NEW dst \in Nat, NEW src \in Nat, NEW n \in Nat, dst <= src,
           \A i \in src .. (src + n - 1) : i \in D
    PROVE  memmove(mem, dst, src, n) = Moved(mem, dst, src, n)
<1>1. PICK f : f = [k \in 0 .. n |-> Moved(mem, dst, src, k)]
  OBVIOUS
<1>2. ASSUME NEW k \in 1 .. n
      PROVE  Moved(mem, dst, src, k)
               = [Moved(mem, dst, src, k - 1) EXCEPT
                    ![dst + k - 1] = Moved(mem, dst, src, k - 1)[src + k - 1]]
  <2>1. src + k - 1 \in D /\ src + k - 1 \notin dst .. (dst + (k - 1) - 1)
    OBVIOUS
  <2>2. Moved(mem, dst, src, k - 1)[src + k - 1] = mem[src + k - 1]
    BY <2>1 DEF Moved
  <2>3. ASSUME NEW i \in D
        PROVE  Moved(mem, dst, src, k)[i] =
                 IF i = dst + k - 1 THEN mem[src + k - 1] ELSE Moved(mem, dst, src, k - 1)[i]
    <3>1. i \in Int
      OBVIOUS
    <3>2. CASE i = dst + k - 1
      <4>1. i \in dst .. (dst + k - 1) /\ src + (i - dst) = src + k - 1
        BY <3>2
      <4> QED
        BY <3>2, <4>1 DEF Moved
    <3>3. CASE i # dst + k - 1
      <4>1. i \in dst .. (dst + k - 1) <=> i \in dst .. (dst + (k - 1) - 1)
        BY <3>1, <3>3
      <4> QED
        BY <3>3, <4>1 DEF Moved
    <3> QED
      BY <3>2, <3>3
  <2>4. /\ Moved(mem, dst, src, k) = [i \in D |-> Moved(mem, dst, src, k)[i]]
        /\ Moved(mem, dst, src, k - 1) = [i \in D |-> Moved(mem, dst, src, k - 1)[i]]
    BY DEF Moved
  <2> QED
    BY <2>2, <2>3, <2>4
<1>3. Moved(mem, dst, src, 0) = mem
  <2>1. dst .. (dst + 0 - 1) = {}
    OBVIOUS
  <2> QED
    BY <2>1 DEF Moved
<1>4. f = [k \in 0 .. n |->
             IF k = 0 THEN mem
             ELSE LET m == f[k - 1] IN [m EXCEPT ![dst + k - 1] = m[src + k - 1]]]
  <2>1. ASSUME NEW k \in 0 .. n
        PROVE  f[k] = IF k = 0 THEN mem
                      ELSE [f[k - 1] EXCEPT ![dst + k - 1] = f[k - 1][src + k - 1]]
    <3>1. CASE k = 0
      BY <1>1, <1>3, <3>1
    <3>2. CASE k # 0
      <4>1. k \in 1 .. n /\ k - 1 \in 0 .. n
        BY <3>2
      <4>2. f[k] = Moved(mem, dst, src, k) /\ f[k - 1] = Moved(mem, dst, src, k - 1)
        BY <1>1, <4>1
      <4> QED
        BY <1>2, <3>2, <4>1, <4>2
    <3> QED
      BY <3>1, <3>2
  <2> QED
    BY <1>1, <2>1
<1>5. PICK h : h = CHOOSE g : g = [k \in 0 .. n |->
             IF k = 0 THEN mem
             ELSE LET m == g[k - 1] IN [m EXCEPT ![dst + k - 1] = m[src + k - 1]]]
  OBVIOUS
<1>6. memmove(mem, dst, src, n) = h[n]
  BY <1>5 DEF memmove
<1>7. h = [k \in 0 .. n |->
             IF k = 0 THEN mem
             ELSE LET m == h[k - 1] IN [m EXCEPT ![dst + k - 1] = m[src + k - 1]]]
  BY <1>4, <1>5
<1>8. PICK T : T = {k \in Nat : k <= n => h[k] = Moved(mem, dst, src, k)}
  OBVIOUS
<1>9. 0 \in T
  BY <1>3, <1>7, <1>8
<1>10. ASSUME NEW k \in Nat, k \in T PROVE k + 1 \in T
  <2> SUFFICES ASSUME k + 1 <= n PROVE h[k + 1] = Moved(mem, dst, src, k + 1)
    BY <1>8
  <2>1. h[k] = Moved(mem, dst, src, k)
    BY <1>8, <1>10
  <2>2. PICK j \in 1 .. n : j = k + 1 /\ j - 1 = k
    OBVIOUS
  <2>3. h[j] = [h[j - 1] EXCEPT ![dst + j - 1] = h[j - 1][src + j - 1]]
    <3>1. j \in 0 .. n /\ j # 0
      OBVIOUS
    <3>2. \A i \in 0 .. n : i # 0 =>
            h[i] = [h[i - 1] EXCEPT ![dst + i - 1] = h[i - 1][src + i - 1]]
      BY <1>7, Zenon
    <3> QED
      BY <3>1, <3>2
  <2> QED
    BY <1>2, <2>1, <2>2, <2>3
<1>11. n \in T
  BY <1>9, <1>10, Induction
<1> QED
  BY <1>6, <1>8, <1>11

(* The least number of a set.                                              *)
LEMMA Least ==
    ASSUME NEW S \in SUBSET Nat, S # {}
    PROVE  Min(S) \in S /\ \A x \in S : Min(S) <= x
<1>1. PICK T : T = {n \in Nat : (\E x \in S : x <= n) => \E x \in S : \A y \in S : x <= y}
  OBVIOUS
<1>2. 0 \in T
  BY <1>1
<1>3. ASSUME NEW n \in Nat, n \in T PROVE n + 1 \in T
  <2> SUFFICES ASSUME NEW x \in S, x <= n + 1
               PROVE  \E z \in S : \A y \in S : z <= y
    BY <1>1
  <2>1. CASE \E y \in S : y <= n
    BY <1>1, <1>3, <2>1
  <2>2. CASE ~\E y \in S : y <= n
    <3>1. \A y \in S : x <= y
      BY <2>2
    <3> QED
      BY <3>1
  <2> QED
    BY <2>1, <2>2
<1>4. PICK n \in S : n \in Nat
  OBVIOUS
<1>5. n \in T
  BY <1>2, <1>3, <1>4, Induction
<1>6. \E x \in S : \A y \in S : x <= y
  BY <1>1, <1>4, <1>5
<1> QED
  BY <1>6 DEF Min

LEMMA MinOfTwo ==
    ASSUME NEW a \in Nat, NEW b \in Nat
    PROVE  Min({a, b}) = IF a <= b THEN a ELSE b
<1>1. Min({a, b}) \in {a, b} /\ \A x \in {a, b} : Min({a, b}) <= x
  BY Least
<1> QED
  BY <1>1

(* A function that is defined step by step exists.                         *)
Iterates(g, n, a, step) == g[0] = a /\ \A k \in 1 .. n : g[k] = step[k][g[k - 1]]

LEMMA Recursion ==
    ASSUME NEW D, NEW n \in Nat, NEW a \in D, NEW step \in [1 .. n -> [D -> D]]
    PROVE  \E g \in [0 .. n -> D] : Iterates(g, n, a, step)
<1>1. PICK T : T = {m \in Nat : m <= n => \E g \in [0 .. m -> D] : Iterates(g, m, a, step)}
  OBVIOUS
<1>2. 0 \in T
  <2>1. PICK g : g = [k \in 0 .. 0 |-> a]
    OBVIOUS
  <2>2. g \in [0 .. 0 -> D] /\ Iterates(g, 0, a, step)
    BY <2>1 DEF Iterates
  <2> QED
    BY <1>1, <2>2
<1>3. ASSUME NEW m \in Nat, m \in T PROVE m + 1 \in T
  <2> SUFFICES ASSUME m + 1 <= n PROVE \E g \in [0 .. (m + 1) -> D] : Iterates(g, m + 1, a, step)
    BY <1>1
  <2>1. PICK g \in [0 .. m -> D] : Iterates(g, m, a, step)
    BY <1>1, <1>3
  <2>2. m + 1 \in 1 .. n /\ m \in 0 .. m /\ step[m + 1][g[m]] \in D
    OBVIOUS
  <2>3. PICK h : h = [k \in 0 .. (m + 1) |-> IF k = m + 1 THEN step[m + 1][g[m]] ELSE g[k]]
    OBVIOUS
  <2>4. h \in [0 .. (m + 1) -> D]
    BY <2>2, <2>3
  <2>5. \A k \in 0 .. m : h[k] = g[k]
    BY <2>3
  <2>6. h[m + 1] = step[m + 1][g[m]]
    BY <2>3
  <2>7. h[0] = a
    BY <2>1, <2>5 DEF Iterates
  <2>8. ASSUME NEW k \in 1 .. (m + 1) PROVE h[k] = step[k][h[k - 1]]
    <3>1. CASE k = m + 1
      <4>1. k - 1 = m /\ h[m] = g[m]
        BY <2>5, <3>1
      <4> QED
        BY <2>6, <3>1, <4>1
    <3>2. CASE k # m + 1
      <4>1. k \in 1 .. m /\ k \in 0 .. m /\ k - 1 \in 0 .. m
        BY <3>2
      <4> QED
        BY <2>1, <2>5, <4>1 DEF Iterates
    <3> QED
      BY <3>1, <3>2
  <2>9. Iterates(h, m + 1, a, step)
    BY <2>7, <2>8 DEF Iterates
  <2> QED
    BY <2>4, <2>9
<1>4. n \in T
  BY <1>2, <1>3, Induction
<1> QED
  BY <1>1, <1>4

(***************************************************************************)
(* The fields of a text, as a scan from left to right meets them.          *)
(***************************************************************************)
Below(S, i) == {j \in S : j < i}

(* The number of a set that has k - 1 smaller ones in it is the k-th.      *)
LEMMA NthIs ==
    ASSUME NEW S \in SUBSET Nat, IsFiniteSet(S), NEW i \in S
    PROVE  Nth(S, Cardinality(Below(S, i)) + 1) = i
<1>1. \A j \in S : IsFiniteSet(Below(S, j)) /\ Cardinality(Below(S, j)) \in Nat
  BY FS_Subset, FS_CardinalityType DEF Below
<1>2. ASSUME NEW a \in S, NEW b \in S, a < b
      PROVE  Cardinality(Below(S, a)) < Cardinality(Below(S, b))
  <2>1. PICK A, B : A = Below(S, a) /\ B = Below(S, b)
    OBVIOUS
  <2>2. A \subseteq B /\ a \in B /\ a \notin A
    <3>1. ~(a < a) /\ \A j \in S : j < a => j < b
      BY <1>2
    <3> QED
      BY <1>2, <2>1, <3>1 DEF Below
  <2>3. A # B
    BY <2>2
  <2>4. IsFiniteSet(B)
    BY <1>1, <2>1
  <2>5. Cardinality(A) <= Cardinality(B) /\ Cardinality(A) # Cardinality(B)
    BY <2>2, <2>3, <2>4, FS_Subset
  <2> QED
    BY <1>1, <2>1, <2>5
<1>3. PICK n \in Nat : n = Cardinality(Below(S, i))
  BY <1>1
<1>4. \A j \in S : Cardinality(Below(S, j)) = n <=> j = i
  <2> SUFFICES ASSUME NEW j \in S, Cardinality(Below(S, j)) = n PROVE j = i
    BY <1>3
  <2>1. j \in Nat /\ i \in Nat /\ ~(j < i) /\ ~(i < j)
    BY <1>2, <1>3
  <2> QED
    BY <2>1
<1>5. n + 1 - 1 = n
  OBVIOUS
<1>6. Nth(S, n + 1) = CHOOSE j \in S : Cardinality(Below(S, j)) = n + 1 - 1
  BY SMTT(30) DEF Nth, Below
<1>7. Nth(S, n + 1) = CHOOSE j \in S : j = i
  BY <1>4, <1>5, <1>6
<1> QED
  BY <1>3, <1>7

Rank(s, seps, i) == Cardinality(Below(FieldStarts(s, seps), i))

(* The scan has come to position i, and the text from start on is one      *)
(* piece so far.                                                           *)
Piece(s, seps, start, i) ==
    /\ start = 1 \/ s[start - 1] \in seps
    /\ \A k \in start .. (i - 1) : s[k] \notin seps

Ends(s, seps, i) == i = Len(s) + 1 \/ s[i] \in seps

LEMMA StartsFinite ==
    ASSUME NEW C, NEW s \in Seq(C), NEW seps
    PROVE  /\ FieldStarts(s, seps) \in SUBSET (1 .. Len(s))
           /\ FieldStarts(s, seps) \in SUBSET Nat
           /\ IsFiniteSet(FieldStarts(s, seps))
           /\ Cardinality(FieldStarts(s, seps)) \in Nat
           /\ \A i \in Nat : Rank(s, seps, i) \in Nat
<1>1. Len(s) \in Nat /\ DOMAIN s = 1 .. Len(s)
  OBVIOUS
<1>2. FieldStarts(s, seps) \in SUBSET (1 .. Len(s))
  BY <1>1 DEF FieldStarts
<1>3. IsFiniteSet(1 .. Len(s))
  BY <1>1, FS_Interval
<1>4. IsFiniteSet(FieldStarts(s, seps))
  BY <1>2, <1>3, FS_Subset
<1>5. \A i \in Nat : IsFiniteSet(Below(FieldStarts(s, seps), i))
  BY <1>4, FS_Subset DEF Below
<1> QED
  BY <1>1, <1>2, <1>4, <1>5, FS_CardinalityType DEF Rank

LEMMA FieldsLen ==
    ASSUME NEW C, NEW s \in Seq(C), NEW seps
    PROVE  /\ Rank(s, seps, 1) = 0
           /\ Rank(s, seps, Len(s) + 2) \in Nat
           /\ DOMAIN Fields(s, seps) = 1 .. Rank(s, seps, Len(s) + 2)
           /\ Len(Fields(s, seps)) = Rank(s, seps, Len(s) + 2)
<1>1. PICK S : S = FieldStarts(s, seps)
  OBVIOUS
<1>2. Len(s) \in Nat /\ S \subseteq 1 .. Len(s) /\ Cardinality(S) \in Nat
  BY <1>1, StartsFinite
<1>3. Below(S, 1) = {} /\ Below(S, Len(s) + 2) = S
  <2>1. \A j \in S : ~(j < 1) /\ j < Len(s) + 2
    BY <1>2
  <2> QED
    BY <2>1 DEF Below
<1>4. Cardinality(Below(S, 1)) = 0
  BY <1>3, FS_EmptySet
<1>5. PICK n \in Nat : n = Cardinality(S) /\ n = Rank(s, seps, Len(s) + 2)
  BY <1>1, <1>2, <1>3 DEF Rank
<1>6. Fields(s, seps) = [k \in 1 .. n |-> FieldAt(s, seps, Nth(S, k))]
  BY <1>1, <1>5 DEF Fields
<1>7. DOMAIN Fields(s, seps) = 1 .. n /\ Len(Fields(s, seps)) = n
  BY <1>6
<1> QED
  BY <1>1, <1>4, <1>5, <1>7 DEF Rank

(* What the end of a piece at position i adds to the fields: nothing if    *)
(* the piece is empty, the piece itself otherwise.                         *)
LEMMA FieldEnds ==
    ASSUME NEW C, NEW s \in Seq(C), NEW seps, NEW start \in Nat, NEW i \in Nat,
           1 <= start, start <= i, i <= Len(s) + 1,
           Piece(s, seps, start, i), Ends(s, seps, i)
    PROVE  /\ start = i => Rank(s, seps, i + 1) = Rank(s, seps, start)
           /\ start < i => /\ Rank(s, seps, i + 1) = Rank(s, seps, start) + 1
                           /\ Rank(s, seps, start) + 1 \in DOMAIN Fields(s, seps)
                           /\ Fields(s, seps)[Rank(s, seps, start) + 1] = SubSeq(s, start, i - 1)
<1>1. PICK S : S = FieldStarts(s, seps)
  OBVIOUS
<1>2. /\ Len(s) \in Nat /\ DOMAIN s = 1 .. Len(s) /\ S \in SUBSET Nat
      /\ S \subseteq 1 .. Len(s) /\ IsFiniteSet(S) /\ Cardinality(S) \in Nat
  <2>1. Len(s) \in Nat /\ DOMAIN s = 1 .. Len(s)
    OBVIOUS
  <2> QED
    BY <1>1, <2>1, StartsFinite
<1>3. \A j \in 1 .. Len(s) : j \in S <=> s[j] \notin seps /\ (j = 1 \/ s[j - 1] \in seps)
  BY <1>1, <1>2 DEF FieldStarts
<1>4. ASSUME start = i PROVE Rank(s, seps, i + 1) = Rank(s, seps, start)
  <2>1. i \notin S
    BY <1>2, <1>3 DEF Ends
  <2>2. Below(S, i + 1) = Below(S, start)
    <3>1. \A j \in S : j < i + 1 <=> j < start
      BY <1>2, <1>4, <2>1
    <3> QED
      BY <3>1 DEF Below
  <2> QED
    BY <1>1, <2>2 DEF Rank
<1>5. ASSUME start < i
      PROVE  /\ Rank(s, seps, i + 1) = Rank(s, seps, start) + 1
             /\ Rank(s, seps, start) + 1 \in DOMAIN Fields(s, seps)
             /\ Fields(s, seps)[Rank(s, seps, start) + 1] = SubSeq(s, start, i - 1)
  <2>1. start \in S
    BY <1>2, <1>3, <1>5 DEF Piece
  <2>2. ASSUME NEW j \in S, start < j, j < i + 1 PROVE FALSE
    <3>1. j \in 1 .. Len(s) /\ s[j] \notin seps /\ s[j - 1] \in seps
      BY <1>2, <1>3, <2>2
    <3>2. j # i
      BY <1>2, <3>1 DEF Ends
    <3>3. j - 1 \in start .. (i - 1)
      BY <2>2, <3>1
    <3> QED
      BY <3>1, <3>3 DEF Piece
  <2>3. Below(S, i + 1) = Below(S, start) \cup {start} /\ start \notin Below(S, start)
    <3>1. ~(start < start) /\ \A j \in S : j < i + 1 <=> j < start \/ j = start
      BY <1>2, <1>5, <2>2
    <3> QED
      BY <2>1, <3>1 DEF Below
  <2>4. IsFiniteSet(Below(S, start))
    BY <1>2, FS_Subset DEF Below
  <2>5. PICK n \in Nat : n = Cardinality(Below(S, start)) /\ n = Rank(s, seps, start)
    BY <1>1, <2>4, FS_CardinalityType DEF Rank
  <2>6. Cardinality(Below(S, i + 1)) = n + 1
    BY <2>3, <2>4, <2>5, FS_AddElement
  <2>7. n + 1 <= Cardinality(S)
    <3>1. Below(S, i + 1) \subseteq S
      BY DEF Below
    <3> QED
      BY <1>2, <2>6, <3>1, FS_Subset
  <2>8. Nth(S, n + 1) = start
    BY <1>2, <2>1, <2>5, NthIs
  <2>9. FieldAt(s, seps, start) = SubSeq(s, start, i - 1)
    <3>1. PICK A : A = {j \in (start + 1) .. Len(s) : s[j] \in seps} \cup {Len(s) + 1}
      OBVIOUS
    <3>2. A \in SUBSET Nat /\ A # {} /\ i \in A
      BY <1>2, <1>5, <3>1 DEF Ends
    <3>3. PICK m : m = Min(A)
      OBVIOUS
    <3>4. m \in A /\ \A x \in A : m <= x
      BY <3>2, <3>3, Least
    <3>5. m \in Nat /\ m <= i
      BY <3>2, <3>4
    <3>6. ~(m < i)
      <4> SUFFICES ASSUME m < i PROVE FALSE
        OBVIOUS
      <4>1. m \in (start + 1) .. Len(s) /\ s[m] \in seps
        BY <1>2, <3>1, <3>4
      <4>2. m \in start .. (i - 1)
        BY <4>1
      <4> QED
        BY <4>1, <4>2 DEF Piece
    <3>7. m = i
      BY <3>5, <3>6
    <3> QED
      BY <3>1, <3>3, <3>7 DEF FieldAt
  <2>10. PICK c \in Nat : c = Cardinality(S) /\ n + 1 \in 1 .. c
    BY <1>2, <2>7
  <2>11. Fields(s, seps) = [k \in 1 .. c |-> FieldAt(s, seps, Nth(S, k))]
    BY <1>1, <2>10 DEF Fields
  <2>12. /\ n + 1 \in DOMAIN Fields(s, seps)
         /\ Fields(s, seps)[n + 1] = FieldAt(s, seps, Nth(S, n + 1))
    BY <2>10, <2>11
  <2> QED
    BY <1>1, <2>5, <2>6, <2>8, <2>9, <2>12 DEF Rank
<1> QED
  BY <1>4, <1>5

(* st[i] is the start of the piece that the scan is in after position i.   *)
Scans(st, s, seps) ==
    /\ st[0] = 1
    /\ \A i \in 1 .. (Len(s) + 1) : st[i] = IF Ends(s, seps, i) THEN i + 1 ELSE st[i - 1]

LEMMA ScanPieces ==
    ASSUME NEW C, NEW s \in Seq(C), NEW seps, NEW st, Scans(st, s, seps)
    PROVE  /\ \A i \in 1 .. (Len(s) + 1) :
                /\ st[i - 1] \in Nat /\ 1 <= st[i - 1] /\ st[i - 1] <= i
                /\ Piece(s, seps, st[i - 1], i)
           /\ st[Len(s) + 1] = Len(s) + 2
<1>1. Len(s) \in Nat
  OBVIOUS
<1>2. PICK T : T = {n \in Nat : n <= Len(s) =>
                      /\ st[n] \in Nat /\ 1 <= st[n] /\ st[n] <= n + 1
                      /\ Piece(s, seps, st[n], n + 1)}
  OBVIOUS
<1>3. 0 \in T
  <2>1. \A k \in 1 .. (0 + 1 - 1) : FALSE
    OBVIOUS
  <2> QED
    BY <1>2, <2>1 DEF Scans, Piece
<1>4. ASSUME NEW n \in Nat, n \in T PROVE n + 1 \in T
  <2> SUFFICES ASSUME n + 1 <= Len(s)
               PROVE  /\ st[n + 1] \in Nat /\ 1 <= st[n + 1] /\ st[n + 1] <= n + 2
                      /\ Piece(s, seps, st[n + 1], n + 2)
    <3>1. n + 1 + 1 = n + 2
      OBVIOUS
    <3> QED
      BY <1>2, <3>1
  <2>1. /\ st[n] \in Nat /\ 1 <= st[n] /\ st[n] <= n + 1
        /\ Piece(s, seps, st[n], n + 1)
    BY <1>1, <1>2, <1>4
  <2>2. PICK i \in 1 .. (Len(s) + 1) : i = n + 1 /\ i - 1 = n /\ i # Len(s) + 1
    BY <1>1
  <2>3. st[i] = IF Ends(s, seps, i) THEN i + 1 ELSE st[n]
    BY <2>2 DEF Scans
  <2>4. CASE s[i] \in seps
    <3>1. st[i] = i + 1
      BY <2>3, <2>4 DEF Ends
    <3>2. i + 1 - 1 = i /\ \A k \in (i + 1) .. (n + 2 - 1) : FALSE
      BY <2>2
    <3>3. Piece(s, seps, i + 1, n + 2)
      BY <2>4, <3>2 DEF Piece
    <3> QED
      BY <2>2, <3>1, <3>3
  <2>5. CASE s[i] \notin seps
    <3>1. st[i] = st[n]
      BY <2>2, <2>3, <2>5 DEF Ends
    <3>2. \A k \in st[n] .. (n + 2 - 1) : k \in st[n] .. (n + 1 - 1) \/ k = i
      BY <2>1, <2>2
    <3>3. Piece(s, seps, st[n], n + 2)
      BY <2>1, <2>5, <3>2 DEF Piece
    <3> QED
      BY <2>1, <2>2, <3>1, <3>3
  <2> QED
    BY <2>4, <2>5
<1>5. \A n \in Nat : n \in T
  BY <1>3, <1>4, Induction
<1>6. ASSUME NEW i \in 1 .. (Len(s) + 1)
      PROVE  /\ st[i - 1] \in Nat /\ 1 <= st[i - 1] /\ st[i - 1] <= i
             /\ Piece(s, seps, st[i - 1], i)
  <2>1. PICK n \in Nat : n = i - 1 /\ n + 1 = i /\ n <= Len(s)
    BY <1>1
  <2> QED
    BY <1>2, <1>5, <2>1
<1>7. st[Len(s) + 1] = Len(s) + 2
  <2>1. PICK i \in 1 .. (Len(s) + 1) : i = Len(s) + 1 /\ i + 1 = Len(s) + 2
    BY <1>1
  <2> QED
    BY <2>1 DEF Scans, Ends
<1> QED
  BY <1>6, <1>7

(* One step of the scan, and the fields it has met.                        *)
Completes(s, seps, start, i) == Ends(s, seps, i) /\ i > start

Meets(s, seps, a, b, i) ==
    /\ ~Completes(s, seps, a, i) => Rank(s, seps, b) = Rank(s, seps, a)
    /\ Completes(s, seps, a, i) =>
         /\ Rank(s, seps, b) = Rank(s, seps, a) + 1
         /\ Rank(s, seps, b) \in DOMAIN Fields(s, seps)
         /\ Fields(s, seps)[Rank(s, seps, b)] = SubSeq(s, a, i - 1)

LEMMA ScanStep ==
    ASSUME NEW C, NEW s \in Seq(C), NEW seps, NEW st, Scans(st, s, seps),
           NEW i \in 1 .. (Len(s) + 1)
    PROVE  Meets(s, seps, st[i - 1], st[i], i)
<1>1. PICK a \in Nat : a = st[i - 1] /\ 1 <= a /\ a <= i /\ Piece(s, seps, a, i)
  BY ScanPieces
<1>2. Len(s) \in Nat /\ i \in Nat /\ i <= Len(s) + 1
  OBVIOUS
<1>3. st[i] = IF Ends(s, seps, i) THEN i + 1 ELSE a
  BY <1>1 DEF Scans
<1>4. ASSUME Ends(s, seps, i)
      PROVE  /\ a = i => Rank(s, seps, i + 1) = Rank(s, seps, a)
             /\ a < i => /\ Rank(s, seps, i + 1) = Rank(s, seps, a) + 1
                         /\ Rank(s, seps, a) + 1 \in DOMAIN Fields(s, seps)
                         /\ Fields(s, seps)[Rank(s, seps, a) + 1] = SubSeq(s, a, i - 1)
  BY <1>1, <1>2, <1>4, FieldEnds
<1>5. CASE ~Ends(s, seps, i)
  BY <1>1, <1>3, <1>5 DEF Completes, Meets
<1>6. CASE Ends(s, seps, i) /\ a = i
  <2>1. ~(i > a) /\ st[i] = i + 1 /\ Rank(s, seps, i + 1) = Rank(s, seps, a)
    BY <1>2, <1>3, <1>4, <1>6
  <2> QED
    BY <1>1, <1>6, <2>1 DEF Completes, Meets
<1>7. CASE Ends(s, seps, i) /\ a < i
  <2>1. /\ i > a /\ st[i] = i + 1 /\ Rank(s, seps, i + 1) = Rank(s, seps, a) + 1
        /\ Rank(s, seps, a) + 1 \in DOMAIN Fields(s, seps)
        /\ Fields(s, seps)[Rank(s, seps, a) + 1] = SubSeq(s, a, i - 1)
    BY <1>1, <1>2, <1>3, <1>4, <1>7
  <2> QED
    BY <1>1, <1>7, <2>1 DEF Completes, Meets
<1> QED
  BY <1>1, <1>2, <1>5, <1>6, <1>7

LEMMA ScanExists ==
    ASSUME NEW C, NEW s \in Seq(C), NEW seps
    PROVE  \E st : Scans(st, s, seps)
<1>0. PICK n \in Nat : n = Len(s) + 1
  OBVIOUS
<1>1. PICK one \in Nat : one = 1
  OBVIOUS
<1>2. PICK step \in [1 .. n -> [Nat -> Nat]] :
         \A i \in 1 .. n : \A a \in Nat : step[i][a] = IF Ends(s, seps, i) THEN i + 1 ELSE a
  <2>1. PICK step : step = [i \in 1 .. n |-> [a \in Nat |-> IF Ends(s, seps, i) THEN i + 1 ELSE a]]
    OBVIOUS
  <2>2. step \in [1 .. n -> [Nat -> Nat]]
    BY <2>1
  <2>3. \A i \in 1 .. n : \A a \in Nat : step[i][a] = IF Ends(s, seps, i) THEN i + 1 ELSE a
    BY <2>1
  <2> QED
    BY <2>2, <2>3
<1>3. PICK g \in [0 .. n -> Nat] : Iterates(g, n, one, step)
  BY Recursion
<1>4. \A i \in 1 .. n : g[i] = IF Ends(s, seps, i) THEN i + 1 ELSE g[i - 1]
  <2> SUFFICES ASSUME NEW i \in 1 .. n PROVE g[i] = IF Ends(s, seps, i) THEN i + 1 ELSE g[i - 1]
    OBVIOUS
  <2>1. g[i - 1] \in Nat /\ g[i] = step[i][g[i - 1]]
    BY <1>3 DEF Iterates
  <2> QED
    BY <1>2, <2>1
<1> QED
  BY <1>0, <1>1, <1>3, <1>4 DEF Scans, Iterates

(* A piece of a text without a separator.                                  *)
IsField(f, s, seps) ==
    \E a, b \in 1 .. Len(s) :
        a <= b /\ f = SubSeq(s, a, b) /\ \A j \in a .. b : s[j] \notin seps

LEMMA EachField ==
    ASSUME NEW C, NEW s \in Seq(C), NEW seps
    PROVE  \A k \in DOMAIN Fields(s, seps) : IsField(Fields(s, seps)[k], s, seps)
<1>1. PICK n \in Nat : n = Len(s) + 1
  OBVIOUS
<1>2. PICK F : F = Fields(s, seps)
  OBVIOUS
<1>3. PICK st : Scans(st, s, seps)
  BY ScanExists
<1>4. PICK T : T = {m \in Nat : m <= n => \A k \in 1 .. Rank(s, seps, st[m]) : IsField(F[k], s, seps)}
  OBVIOUS
<1>5. 0 \in T
  <2>1. Rank(s, seps, st[0]) = 0
    BY <1>3, FieldsLen DEF Scans
  <2> QED
    BY <1>4, <2>1
<1>6. ASSUME NEW m \in Nat, m \in T PROVE m + 1 \in T
  <2> SUFFICES ASSUME m + 1 <= n PROVE \A k \in 1 .. Rank(s, seps, st[m + 1]) : IsField(F[k], s, seps)
    BY <1>4
  <2>1. \A k \in 1 .. Rank(s, seps, st[m]) : IsField(F[k], s, seps)
    BY <1>4, <1>6
  <2>2. PICK i \in 1 .. (Len(s) + 1) : i = m + 1 /\ i - 1 = m
    BY <1>1
  <2>3. st[m] \in Nat /\ 1 <= st[m] /\ st[m] <= i /\ Piece(s, seps, st[m], i)
    BY <1>3, <2>2, ScanPieces
  <2>4. Meets(s, seps, st[m], st[i], i)
    <3>1. Meets(s, seps, st[i - 1], st[i], i)
      BY <1>3, ScanStep
    <3> QED
      BY <2>2, <3>1
  <2>5. CASE ~Completes(s, seps, st[m], i)
    BY <2>1, <2>2, <2>4, <2>5 DEF Meets
  <2>6. CASE Completes(s, seps, st[m], i)
    <3>1. PICK r \in Nat : r = Rank(s, seps, st[m])
      BY <2>3, StartsFinite
    <3>2. Rank(s, seps, st[i]) = r + 1 /\ F[r + 1] = SubSeq(s, st[m], i - 1)
      BY <1>2, <2>4, <2>6, <3>1 DEF Meets
    <3>3. IsField(F[r + 1], s, seps)
      <4>1. PICK a, b \in 1 .. Len(s) : a = st[m] /\ b = i - 1 /\ a <= b
        BY <2>2, <2>3, <2>6 DEF Completes
      <4>2. \A j \in a .. b : s[j] \notin seps
        BY <2>3, <4>1 DEF Piece
      <4> QED
        BY <3>2, <4>1, <4>2 DEF IsField
    <3>4. \A k \in 1 .. (r + 1) : k \in 1 .. r \/ k = r + 1
      OBVIOUS
    <3> QED
      BY <2>1, <2>2, <3>1, <3>2, <3>3, <3>4
  <2> QED
    BY <2>5, <2>6
<1>7. n \in T
  BY <1>5, <1>6, Induction
<1>8. st[n] = Len(s) + 2
  BY <1>1, <1>3, ScanPieces
<1> QED
  BY <1>1, <1>2, <1>4, <1>7, <1>8, FieldsLen

LEMMA FieldsType ==
    ASSUME NEW C, NEW s \in Seq(C), NEW seps
    PROVE  Fields(s, seps) \in Seq(Seq(C))
<1>0. PICK F : F = Fields(s, seps)
  OBVIOUS
<1>1. PICK n \in Nat : F = Fields(s, seps) /\ DOMAIN F = 1 .. n /\ Len(F) = n
  BY <1>0, FieldsLen
<1>2. PICK S : S = FieldStarts(s, seps)
  OBVIOUS
<1>3. F = [k \in 1 .. Cardinality(S) |-> FieldAt(s, seps, Nth(S, k))]
  BY <1>1, <1>2 DEF Fields
<1>4. 1 .. Cardinality(S) = 1 .. n
  BY <1>1, <1>3
<1>5. \A k \in 1 .. n : F[k] \in Seq(C)
  <2> SUFFICES ASSUME NEW k \in 1 .. n PROVE F[k] \in Seq(C)
    OBVIOUS
  <2>1. IsField(F[k], s, seps)
    BY <1>1, EachField
  <2>2. PICK a, b \in 1 .. Len(s) : a <= b /\ F[k] = SubSeq(s, a, b)
    BY <2>1 DEF IsField
  <2> QED
    BY <2>2
<1>6. F \in [1 .. n -> Seq(C)]
  BY <1>3, <1>4, <1>5
<1> QED
  BY <1>1, <1>6

(***************************************************************************)
(* Strings in memory.                                                      *)
(***************************************************************************)
Excerpt(mem, a, l) == [i \in 1 .. l |-> mem[a + i - 1]]

(* A string ends before the first NUL.                                     *)
LEMMA StringAt ==
    ASSUME NEW mem, NEW size \in Nat, DOMAIN mem = 0 .. (size - 1),
           NEW a \in Nat, NEW l \in Nat, a + l < size, mem[a + l] = NUL,
           \A i \in a .. (a + l - 1) : mem[i] # NUL
    PROVE  /\ CString(mem, a) = Excerpt(mem, a, l)
           /\ Len(CString(mem, a)) = l
<1>1. Cardinality(DOMAIN mem) = size
  <2>1. PICK hi \in Int : hi = size - 1
    OBVIOUS
  <2>2. Cardinality(0 .. hi) = IF 0 > hi THEN 0 ELSE hi - 0 + 1
    BY FS_Interval
  <2> QED
    BY <2>1, <2>2
<1>2. PICK S : S = {i \in DOMAIN mem : i >= a /\ mem[i] = NUL} \cup {size}
  OBVIOUS
<1>3. S \in SUBSET Nat /\ a + l \in S
  BY <1>2
<1>4. PICK m : m = Min(S) /\ m \in S /\ \A x \in S : m <= x
  BY <1>3, Least
<1>5. m \in Nat /\ m <= a + l
  BY <1>3, <1>4
<1>6. m = a + l
  <2> SUFFICES ASSUME m < a + l PROVE FALSE
    BY <1>5
  <2>1. m \in DOMAIN mem /\ m >= a /\ mem[m] = NUL
    BY <1>2, <1>4
  <2>2. m \in a .. (a + l - 1)
    BY <1>5, <2>1
  <2> QED
    BY <2>1, <2>2
<1>7. strlen(mem, a) = l
  <2>1. strlen(mem, a) = m - a
    BY <1>1, <1>2, <1>4 DEF strlen
  <2> QED
    BY <1>6, <2>1
<1>8. CString(mem, a) = Excerpt(mem, a, l)
  BY <1>7 DEF CString, Excerpt
<1> QED
  BY <1>8 DEF Excerpt

(* A NUL at an address ends every string that starts before it.            *)
LEMMA StringEnds ==
    ASSUME NEW G, NEW N \in Nat, NEW mem \in [0 .. N -> G],
           NEW a \in Nat, NEW nl \in Nat, a <= nl, nl <= N, mem[nl] = NUL
    PROVE  \E l \in Nat :
             /\ a + l <= nl /\ mem[a + l] = NUL
             /\ \A i \in a .. (a + l - 1) : mem[i] # NUL
             /\ CString(mem, a) = Excerpt(mem, a, l)
             /\ Len(CString(mem, a)) = l /\ CString(mem, a) \in Seq(G)
<1>1. PICK S : S = {i \in a .. nl : mem[i] = NUL}
  OBVIOUS
<1>2. S \in SUBSET Nat /\ nl \in S
  BY <1>1
<1>3. PICK m : m = Min(S) /\ m \in S /\ \A x \in S : m <= x
  BY <1>2, Least
<1>4. PICK l \in Nat : a + l = m
  <2>1. m - a \in Nat /\ a + (m - a) = m
    BY <1>1, <1>3
  <2> QED
    BY <2>1
<1>5. a + l <= nl /\ mem[a + l] = NUL
  BY <1>1, <1>3, <1>4
<1>6. ASSUME NEW i \in a .. (a + l - 1) PROVE mem[i] # NUL
  <2>1. i \in a .. nl /\ i < m
    BY <1>4, <1>5
  <2> QED
    BY <1>1, <1>3, <2>1
<1>7. PICK size \in Nat : size = N + 1
  OBVIOUS
<1>8. DOMAIN mem = 0 .. (size - 1) /\ a + l < size
  BY <1>5, <1>7
<1>9. CString(mem, a) = Excerpt(mem, a, l) /\ Len(CString(mem, a)) = l
  BY <1>5, <1>6, <1>8, StringAt
<1>10. \A i \in 1 .. l : mem[a + i - 1] \in G
  <2> SUFFICES ASSUME NEW i \in 1 .. l PROVE mem[a + i - 1] \in G
    OBVIOUS
  <2>1. a + i - 1 \in 0 .. N
    BY <1>5
  <2> QED
    BY <2>1
<1>11. CString(mem, a) \in [1 .. l -> G]
  BY <1>9, <1>10 DEF Excerpt
<1>12. CString(mem, a) \in Seq(G)
  BY <1>11
<1> QED
  BY <1>5, <1>6, <1>9, <1>12

(* A finite set of numbers has a k-th smallest one for each k up to its    *)
(* size.                                                                   *)
LEMMA NthExists ==
    ASSUME NEW N \in Nat, NEW S \in SUBSET (1 .. N), NEW k \in 1 .. Cardinality(S)
    PROVE  \E i \in S : Cardinality(Below(S, i)) = k - 1 /\ Nth(S, k) = i
<1>1. IsFiniteSet(S)
  <2>1. IsFiniteSet(1 .. N)
    BY FS_Interval
  <2> QED
    BY <2>1, FS_Subset
<1>2. ASSUME NEW m \in Nat PROVE IsFiniteSet(Below(S, m)) /\ Cardinality(Below(S, m)) \in Nat
  <2>1. Below(S, m) \subseteq S
    BY DEF Below
  <2> QED
    BY <1>1, <2>1, FS_Subset, FS_CardinalityType
<1>3. Cardinality(S) \in Nat
  BY <1>1, FS_CardinalityType
<1>4. k \in Nat /\ k >= 1 /\ k <= Cardinality(S)
  BY <1>3
<1>5. PICK T : T = {m \in Nat : Cardinality(Below(S, m)) >= k =>
                        \E i \in S : Cardinality(Below(S, i)) = k - 1}
  OBVIOUS
<1>6. 0 \in T
  <2>1. \A j \in S : ~(j < 0)
    OBVIOUS
  <2>2. Below(S, 0) = {}
    BY <2>1 DEF Below
  <2>3. ~(Cardinality(Below(S, 0)) >= k)
    BY <1>4, <2>2, FS_EmptySet
  <2> QED
    BY <1>5, <2>3
<1>7. ASSUME NEW m \in Nat, m \in T PROVE m + 1 \in T
  <2> SUFFICES ASSUME Cardinality(Below(S, m + 1)) >= k
               PROVE  \E i \in S : Cardinality(Below(S, i)) = k - 1
    BY <1>5
  <2>1. PICK c \in Nat, e \in Nat : c = Cardinality(Below(S, m)) /\ e = Cardinality(Below(S, m + 1))
    BY <1>2
  <2>2. CASE c >= k
    BY <1>5, <1>7, <2>1, <2>2
  <2>3. CASE ~(c >= k) /\ m \in S
    <3>1. ~(m < m) /\ \A j \in S : j < m + 1 <=> j < m \/ j = m
      OBVIOUS
    <3>2. Below(S, m + 1) = Below(S, m) \cup {m} /\ m \notin Below(S, m)
      BY <2>3, <3>1 DEF Below
    <3>3. e = c + 1
      BY <1>2, <2>1, <3>2, FS_AddElement
    <3>4. c = k - 1
      BY <1>4, <2>1, <2>3, <3>3
    <3> QED
      BY <2>1, <2>3, <3>4
  <2>4. CASE ~(c >= k) /\ m \notin S
    <3>1. \A j \in S : j < m + 1 <=> j < m
      BY <2>4
    <3>2. Below(S, m + 1) = Below(S, m)
      BY <3>1 DEF Below
    <3> QED
      BY <2>1, <2>4, <3>2
  <2> QED
    BY <2>2, <2>3, <2>4
<1>8. N + 1 \in T
  <2>1. N + 1 \in Nat
    OBVIOUS
  <2> QED
    BY <1>6, <1>7, <2>1, Induction
<1>9. Below(S, N + 1) = S
  <2>1. \A j \in S : j < N + 1
    OBVIOUS
  <2> QED
    BY <2>1 DEF Below
<1>10. PICK i \in S : Cardinality(Below(S, i)) = k - 1
  BY <1>4, <1>5, <1>8, <1>9
<1>11. Nth(S, k) = i
  <2>1. S \in SUBSET Nat
    OBVIOUS
  <2>2. Nth(S, Cardinality(Below(S, i)) + 1) = i
    BY <1>1, <2>1, NthIs
  <2>3. k - 1 + 1 = k
    BY <1>4
  <2> QED
    BY <1>10, <2>2, <2>3
<1> QED
  BY <1>10, <1>11

(* The k-th smallest number is the same in a lower part of the set.        *)
LEMMA NthPrefix ==
    ASSUME NEW N \in Nat, NEW S \in SUBSET (1 .. N), NEW p \in Nat,
           NEW U, U = {i \in S : i <= p}
    PROVE  /\ Cardinality(U) \in Nat /\ Cardinality(S) \in Nat /\ Cardinality(U) <= Cardinality(S)
           /\ \A k \in 1 .. Cardinality(U) : Nth(S, k) = Nth(U, k) /\ Nth(U, k) \in U
<1>1. IsFiniteSet(S) /\ U \in SUBSET S
  <2>1. IsFiniteSet(1 .. N)
    BY FS_Interval
  <2> QED
    BY <2>1, FS_Subset
<1>2. Cardinality(U) \in Nat /\ Cardinality(S) \in Nat /\ Cardinality(U) <= Cardinality(S)
  BY <1>1, FS_Subset, FS_CardinalityType
<1>3. ASSUME NEW k \in 1 .. Cardinality(U) PROVE Nth(S, k) = Nth(U, k) /\ Nth(U, k) \in U
  <2>1. U \in SUBSET (1 .. N)
    BY <1>1
  <2>2. PICK i \in U : Cardinality(Below(U, i)) = k - 1 /\ Nth(U, k) = i
    BY <2>1, NthExists
  <2>3. i \in S /\ i \in Nat /\ i <= p
    OBVIOUS
  <2>4. \A j \in S : j < i => j <= p
    BY <2>3
  <2>5. Below(U, i) = Below(S, i)
    BY <2>4 DEF Below
  <2>6. S \in SUBSET Nat
    OBVIOUS
  <2>7. Nth(S, Cardinality(Below(S, i)) + 1) = i
    BY <1>1, <2>3, <2>6, NthIs
  <2>8. k - 1 + 1 = k
    BY <1>2
  <2> QED
    BY <2>2, <2>5, <2>7, <2>8
<1> QED
  BY <1>2, <1>3

LEMMA SliceType ==
    ASSUME NEW C, NEW text \in Seq(C), NEW a \in Nat, NEW e \in Nat, 1 <= a, e <= Len(text)
    PROVE  SubSeq(text, a, e) \in Seq(C)
<1>1. PICK w : w = SubSeq(text, a, e)
  OBVIOUS
<1>2. PICK d \in Int : d = e - a + 1
  OBVIOUS
<1>3. w = [i \in 1 .. d |-> text[a + i - 1]]
  BY <1>1, <1>2
<1>4. \A i \in 1 .. d : text[a + i - 1] \in C
  <2> SUFFICES ASSUME NEW i \in 1 .. d PROVE text[a + i - 1] \in C
    OBVIOUS
  <2>1. a + i - 1 \in 1 .. Len(text)
    BY <1>2
  <2> QED
    BY <2>1
<1>5. PICK l \in Nat : 1 .. d = 1 .. l
  <2>1. CASE d >= 0
    BY <2>1
  <2>2. CASE ~(d >= 0)
    <3>1. 1 .. d = 1 .. 0
      BY <2>2
    <3> QED
      BY <3>1
  <2> QED
    BY <2>1, <2>2
<1>6. w \in [1 .. l -> C]
  BY <1>3, <1>4, <1>5
<1>7. w \in Seq(C)
  BY <1>6
<1> QED
  BY <1>1, <1>7

=============================================================================

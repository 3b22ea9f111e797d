---------------------------- MODULE FilesProofs ----------------------------
(***************************************************************************)
(* Proofs about modules Image and Files: for every tree of the host,       *)
(* fstool lays out an image in which the kernel finds exactly what the     *)
(* tree holds; path names keep to their buffers and mean what a walk       *)
(* through the tree means; and processes that share a handle read its file *)
(* in order.                                                               *)
(***************************************************************************)
EXTENDS Files, TextProofs, SequenceTheorems

(***************************************************************************)
(* Path names of places.                                                   *)
(***************************************************************************)
Full(at) == IF at = <<>> THEN <<>> ELSE PathOf(at)

Joined(text, name) == text \o <<SLASH>> \o name

Spelt(t, at) == t[0] = <<>> /\ \A k \in 1 .. Len(at) : t[k] = Joined(t[k - 1], at[k])

(* The path name of a place is spelt name by name.                         *)
LEMMA SpellSteps ==
    ASSUME NEW C, SLASH \in C, NEW at \in Seq(Seq(C))
    PROVE  \E t \in [0 .. Len(at) -> Seq(C)] : Spelt(t, at) /\ t[Len(at)] = Full(at)
<1>1. PICK n \in Nat : n = Len(at)
  OBVIOUS
<1>2. PICK D : D = Seq(C)
  OBVIOUS
<1>3. PICK d \in D : d = <<>>
  <2>1. <<>> \in Seq(C)
    OBVIOUS
  <2> QED
    BY <1>2, <2>1
<1>4. PICK step : step = [k \in 1 .. n |-> [e \in D |-> Joined(e, at[k])]]
  OBVIOUS
<1>5. ASSUME NEW k \in 1 .. n, NEW e \in D PROVE Joined(e, at[k]) \in D
  <2>1. PICK w \in Seq(C) : w = at[k]
    BY <1>1
  <2>2. PICK s : s = <<SLASH>>
    OBVIOUS
  <2>3. s \in Seq(C)
    BY <2>2
  <2>4. e \o s \o w \in Seq(C)
    BY <1>2, <2>3
  <2> QED
    BY <1>2, <2>1, <2>2, <2>4 DEF Joined
<1>6. step \in [1 .. n -> [D -> D]]
  BY <1>4, <1>5
<1>8. PICK f \in [0 .. n -> D] : Iterates(f, n, d, step)
  BY <1>6, Recursion
<1>9. ASSUME NEW k \in 0 .. n
      PROVE  f[k] = IF k = 0 THEN d ELSE Joined(f[k - 1], at[k])
  <2>1. CASE k = 0
    BY <1>8, <2>1 DEF Iterates
  <2>2. CASE k # 0
    <3>1. k \in 1 .. n /\ k - 1 \in 0 .. n
      BY <2>2
    <3>2. f[k] = step[k][f[k - 1]] /\ f[k - 1] \in D
      BY <1>8, <3>1 DEF Iterates
    <3> QED
      BY <1>4, <2>2, <3>1, <3>2
  <2> QED
    BY <2>1, <2>2
<1>10. f = [k \in 0 .. n |-> IF k = 0 THEN d ELSE Joined(f[k - 1], at[k])]
  BY <1>9
<1>11. PICK h : h = CHOOSE g : g = [k \in 0 .. n |-> IF k = 0 THEN d ELSE Joined(g[k - 1], at[k])]
  OBVIOUS
<1>12. h = [k \in 0 .. n |-> IF k = 0 THEN d ELSE Joined(h[k - 1], at[k])]
  BY <1>10, <1>11
<1>13. PathOf(at) = IF at = <<>> THEN <<SLASH>> ELSE h[n]
  BY <1>1, <1>3, <1>11 DEF PathOf, Joined
<1>14. \A k \in 0 .. n : h[k] = IF k = 0 THEN d ELSE Joined(h[k - 1], at[k])
  BY <1>12, Zenon
<1>15. Spelt(h, at)
  <2>1. 0 \in 0 .. n
    OBVIOUS
  <2>2. \A k \in 1 .. n : k \in 0 .. n /\ k # 0
    OBVIOUS
  <2> QED
    BY <1>1, <1>3, <1>14, <2>1, <2>2 DEF Spelt
<1>16. DOMAIN h = 0 .. n
  BY <1>12
<1>17. \A k \in Nat : k <= n => h[k] \in D
  <2>1. PICK T : T = {k \in Nat : k <= n => h[k] \in D}
    OBVIOUS
  <2>2. 0 \in T
    BY <1>3, <1>15, <2>1 DEF Spelt
  <2>3. ASSUME NEW k \in Nat, k \in T PROVE k + 1 \in T
    <3> SUFFICES ASSUME k + 1 <= n PROVE h[k + 1] \in D
      BY <2>1
    <3>1. h[k] \in D
      BY <2>1, <2>3
    <3>2. PICK j \in 1 .. n : j = k + 1 /\ j - 1 = k
      OBVIOUS
    <3>3. h[j] = Joined(h[k], at[j])
      BY <1>1, <1>15, <3>2 DEF Spelt
    <3> QED
      BY <1>5, <3>1, <3>2, <3>3
  <2>4. \A k \in Nat : k \in T
    BY <2>2, <2>3, Induction
  <2> QED
    BY <2>1, <2>4
<1>18. h \in [0 .. n -> D]
  <2>1. \A k \in 0 .. n : h[k] \in D
    BY <1>17
  <2>2. h = [k \in 0 .. n |-> h[k]]
    BY <1>12, <1>14, Zenon
  <2> QED
    BY <2>1, <2>2
<1>19. h[n] = Full(at)
  <2>1. CASE at = <<>>
    <3>1. n = 0
      BY <1>1, <2>1
    <3> QED
      BY <1>15, <2>1, <3>1 DEF Full, Spelt
  <2>2. CASE at # <<>>
    BY <1>13, <2>2 DEF Full
  <2> QED
    BY <2>1, <2>2
<1> QED
  BY <1>1, <1>2, <1>15, <1>18, <1>19

Agree(s, t, m) == \A k \in 1 .. m : s[k] = t[k]

(* Places that agree so far are spelt the same so far.                     *)
LEMMA SpeltSame ==
    ASSUME NEW t, NEW u, NEW at, NEW bt, Spelt(t, at), Spelt(u, bt), NEW m \in Nat,
           Len(at) \in Nat, Len(bt) \in Nat, m <= Len(at), m <= Len(bt), Agree(at, bt, m)
    PROVE  t[m] = u[m]
<1>1. PICK T : T = {k \in Nat : k <= m => t[k] = u[k]}
  OBVIOUS
<1>2. 0 \in T
  BY <1>1 DEF Spelt
<1>3. ASSUME NEW k \in Nat, k \in T PROVE k + 1 \in T
  <2> SUFFICES ASSUME k + 1 <= m PROVE t[k + 1] = u[k + 1]
    BY <1>1
  <2>1. t[k] = u[k]
    BY <1>1, <1>3
  <2>2. PICK j \in 1 .. m : j = k + 1 /\ j - 1 = k /\ j \in 1 .. Len(at) /\ j \in 1 .. Len(bt)
    OBVIOUS
  <2>3. t[j] = Joined(t[k], at[j]) /\ u[j] = Joined(u[k], bt[j])
    BY <2>2 DEF Spelt
  <2>4. at[j] = bt[j]
    BY DEF Agree
  <2> QED
    BY <2>1, <2>2, <2>3, <2>4
<1>4. m \in T
  BY <1>2, <1>3, Induction
<1> QED
  BY <1>1, <1>4

(* One name more: a slash and the name.                                    *)
LEMMA PathSnoc ==
    ASSUME NEW C, SLASH \in C, NEW at \in Seq(Seq(C)), NEW name \in Seq(C)
    PROVE  /\ Full(at) \in Seq(C)
           /\ PathOf(Append(at, name)) = Joined(Full(at), name)
           /\ Full(Append(at, name)) = Joined(Full(at), name)
<1>0. PICK W : W = Seq(C)
  OBVIOUS
<1>1. PICK bt : bt = Append(at, name)
  OBVIOUS
<1>2. PICK n \in Nat : n = Len(at)
  OBVIOUS
<1>3. /\ bt \in Seq(W) /\ Len(bt) = n + 1 /\ bt[n + 1] = name /\ bt # <<>>
      /\ \A k \in 1 .. n : at[k] = bt[k]
  <2>1. at \in Seq(W) /\ name \in W
    BY <1>0
  <2> QED
    BY <1>1, <1>2, <2>1, SMTT(30)
<1>4. PICK t \in [0 .. Len(at) -> Seq(C)] : Spelt(t, at) /\ t[Len(at)] = Full(at)
  BY SpellSteps
<1>5. PICK u \in [0 .. Len(bt) -> Seq(C)] : Spelt(u, bt) /\ u[Len(bt)] = Full(bt)
  BY <1>0, <1>3, SpellSteps
<1>6. t[n] = u[n]
  <2>1. n <= Len(at) /\ n <= Len(bt) /\ Len(at) \in Nat /\ Len(bt) \in Nat
    BY <1>2, <1>3
  <2>2. Agree(at, bt, n)
    BY <1>3 DEF Agree
  <2> QED
    BY <1>4, <1>5, <2>1, <2>2, SpeltSame
<1>7. u[n + 1] = Joined(u[n], name)
  <2>1. PICK j \in 1 .. Len(bt) : j = n + 1 /\ j - 1 = n
    BY <1>3
  <2> QED
    BY <1>3, <1>5, <2>1 DEF Spelt
<1>8. Full(at) \in Seq(C)
  <2>1. n \in 0 .. Len(at)
    BY <1>2
  <2>2. t[n] \in Seq(C)
    BY <1>4, <2>1
  <2> QED
    BY <1>2, <1>4, <2>2
<1>9. Full(bt) = Joined(Full(at), name)
  BY <1>2, <1>3, <1>4, <1>5, <1>6, <1>7
<1> QED
  BY <1>1, <1>3, <1>8, <1>9 DEF Full

(* Where the names of a place are in its path name.                        *)
Laid(path, at, L) ==
    /\ L[0] = 0 /\ Len(path) = L[Len(at)]
    /\ \A k \in 1 .. Len(at) :
         /\ L[k] = L[k - 1] + 1 + Len(at[k])
         /\ path[L[k - 1] + 1] = SLASH
         /\ \A j \in 1 .. Len(at[k]) : path[L[k - 1] + 1 + j] = at[k][j]

Concat(both, text, more) ==
    /\ Len(text) \in Nat /\ Len(both) = Len(text) + Len(more)
    /\ \A i \in 1 .. Len(text) : both[i] = text[i]
    /\ \A i \in 1 .. Len(more) : both[Len(text) + i] = more[i]

(* What a concatenation is, position by position.                          *)
LEMMA Concatenated ==
    ASSUME NEW C, NEW text \in Seq(C), NEW more \in Seq(C), NEW both, both = text \o more
    PROVE  both \in Seq(C) /\ Concat(both, text, more)
BY DEF Concat

(* Text, a slash and a name.                                               *)
IsJoined(v, text, name) ==
    LET x == Len(text) IN
    /\ x \in Nat /\ Len(name) \in Nat /\ Len(v) = x + 1 + Len(name)
    /\ \A i \in 1 .. x : v[i] = text[i]
    /\ v[x + 1] = SLASH
    /\ \A j \in 1 .. Len(name) : v[x + 1 + j] = name[j]

(* What Joined is, position by position.                                   *)
LEMMA JoinedIs ==
    ASSUME NEW C, SLASH \in C, NEW text \in Seq(C), NEW name \in Seq(C),
           NEW v, v = Joined(text, name)
    PROVE  v \in Seq(C) /\ IsJoined(v, text, name)
<1>0. PICK x, y \in Nat : x = Len(text) /\ y = Len(name)
  OBVIOUS
<1>1. PICK s : s = <<SLASH>>
  OBVIOUS
<1>2. s \in Seq(C) /\ Len(s) = 1 /\ s[1] = SLASH
  BY <1>1
<1>3. PICK u : u = text \o s
  OBVIOUS
<1>4. u \in Seq(C) /\ Len(u) = x + 1 /\ (\A i \in 1 .. x : u[i] = text[i]) /\ u[x + 1] = SLASH
  <2>1. u \in Seq(C) /\ Concat(u, text, s)
    BY <1>2, <1>3, Concatenated
  <2>2. 1 \in 1 .. Len(s)
    BY <1>2
  <2>3. u[Len(text) + 1] = s[1]
    BY <2>1, <2>2 DEF Concat
  <2>4. Len(u) = x + 1 /\ \A i \in 1 .. x : u[i] = text[i]
    BY <1>0, <1>2, <2>1 DEF Concat
  <2> QED
    BY <1>0, <1>2, <2>1, <2>3, <2>4
<1>5. v = u \o name
  BY <1>1, <1>3 DEF Joined
<1>7. /\ v \in Seq(C) /\ Len(v) = (x + 1) + y /\ (\A i \in 1 .. (x + 1) : v[i] = u[i])
      /\ \A j \in 1 .. y : v[(x + 1) + j] = name[j]
  <2>1. v \in Seq(C) /\ Concat(v, u, name)
    BY <1>4, <1>5, Concatenated
  <2> QED
    BY <1>0, <1>4, <2>1 DEF Concat
<1>8. (x + 1) + y = x + 1 + y /\ x + 1 \in 1 .. (x + 1) /\ \A i \in 1 .. x : i \in 1 .. (x + 1)
  OBVIOUS
<1>9. \A j \in 1 .. y : (x + 1) + j = x + 1 + j
  OBVIOUS
<1>10. \A i \in 1 .. x : v[i] = text[i]
  BY <1>4, <1>7, <1>8
<1>11. v[x + 1] = SLASH
  BY <1>4, <1>7, <1>8
<1>12. \A j \in 1 .. y : v[x + 1 + j] = name[j]
  BY <1>7, <1>9
<1> QED
  BY <1>0, <1>7, <1>8, <1>10, <1>11, <1>12 DEF IsJoined

(* Where in the path name each name lies.                                  *)
LEMMA PathLaid ==
    ASSUME NEW C, SLASH \in C, NEW at \in Seq(Seq(C))
    PROVE  \E L \in [0 .. Len(at) -> Nat] : Laid(Full(at), at, L)
<1>1. PICK n \in Nat : n = Len(at)
  OBVIOUS
<1>2. PICK t \in [0 .. n -> Seq(C)] : Spelt(t, at) /\ t[n] = Full(at)
  BY <1>1, SpellSteps
<1>3. PICK L : L = [k \in 0 .. n |-> Len(t[k])]
  OBVIOUS
<1>4. L \in [0 .. n -> Nat]
  BY <1>3
<1>5. ASSUME NEW k \in 1 .. n
      PROVE  /\ k \in 0 .. n /\ k - 1 \in 0 .. n /\ t[k - 1] \in Seq(C) /\ at[k] \in Seq(C)
             /\ t[k] = Joined(t[k - 1], at[k])
  <2>1. k \in 0 .. n /\ k - 1 \in 0 .. n /\ k \in 1 .. Len(at)
    BY <1>1
  <2>2. t[k - 1] \in Seq(C)
    BY <2>1
  <2>3. at[k] \in Seq(C)
    BY <2>1
  <2>4. t[k] = Joined(t[k - 1], at[k])
    BY <1>2, <2>1 DEF Spelt
  <2> QED
    BY <2>1, <2>2, <2>3, <2>4
<1>6. PICK T : T = {m \in Nat : m <= n => \A k \in 0 .. m : L[k] <= L[m] /\
                                  \A i \in 1 .. L[k] : t[k][i] = t[m][i]}
  OBVIOUS
<1>7. 0 \in T
  <2>1. L[0] \in Nat /\ \A k \in 0 .. 0 : k = 0
    BY <1>4
  <2> QED
    BY <1>6, <2>1
<1>8. ASSUME NEW m \in Nat, m \in T PROVE m + 1 \in T
  <2> SUFFICES ASSUME m + 1 <= n, NEW k \in 0 .. (m + 1)
               PROVE  L[k] <= L[m + 1] /\ \A i \in 1 .. L[k] : t[k][i] = t[m + 1][i]
    BY <1>6
  <2>1. PICK q \in 1 .. n : q = m + 1 /\ q - 1 = m
    OBVIOUS
  <2>2. m \in 0 .. n /\ L[q] \in Nat /\ L[m] \in Nat /\ L[k] \in Nat
    BY <1>4, <2>1
  <2>3. CASE k = q
    BY <2>1, <2>2, <2>3
  <2>4. CASE k # q
    <3>1. k \in 0 .. m
      BY <2>1, <2>4
    <3>2. L[k] <= L[m] /\ \A i \in 1 .. L[k] : t[k][i] = t[m][i]
      BY <1>6, <1>8, <2>2, <3>1
    <3>3. PICK a, w \in Seq(C) : a = t[m] /\ w = at[q] /\ t[q] = Joined(a, w)
      <4>1. t[q - 1] \in Seq(C) /\ at[q] \in Seq(C) /\ t[q] = Joined(t[q - 1], at[q])
        BY <1>5
      <4> QED
        BY <2>1, <4>1
    <3>8. PICK v, x, y : v = t[q] /\ x = Len(a) /\ y = Len(w)
      OBVIOUS
    <3>9. x \in Nat /\ y \in Nat /\ v = Joined(a, w)
      BY <3>3, <3>8
    <3>10. IsJoined(v, a, w)
      BY <3>9, JoinedIs
    <3>4. Len(v) = x + 1 + y /\ \A i \in 1 .. x : v[i] = a[i]
      BY <3>8, <3>10 DEF IsJoined
    <3>5. L[m] = Len(t[m]) /\ L[q] = Len(t[q])
      BY <1>3, <2>1, <2>2
    <3>11. L[m] = x /\ L[q] = x + 1 + y
      BY <3>3, <3>4, <3>5, <3>8
    <3>12. \A i \in 1 .. L[m] : t[q][i] = t[m][i]
      BY <3>3, <3>4, <3>8, <3>11
    <3>6. L[m] <= L[q] /\ \A i \in 1 .. L[m] : t[q][i] = t[m][i]
      BY <3>9, <3>11, <3>12
    <3>7. \A i \in 1 .. L[k] : i \in 1 .. L[m]
      BY <2>2, <3>2
    <3>13. \A i \in 1 .. L[k] : t[k][i] = t[q][i]
      BY <3>2, <3>6, <3>7
    <3>14. L[k] <= L[q]
      BY <2>2, <3>2, <3>6, SMTT(30)
    <3> QED
      BY <2>1, <3>13, <3>14
  <2> QED
    BY <2>3, <2>4
<1>9. n \in T
  BY <1>7, <1>8, Induction
<1>10. PICK path : path = t[n]
  OBVIOUS
<1>11. L[0] = 0 /\ Len(path) = L[n]
  <2>1. t[0] = <<>>
    BY <1>2 DEF Spelt
  <2> QED
    BY <1>3, <1>10, <2>1
<1>12. ASSUME NEW k \in 1 .. n
       PROVE  /\ L[k] = L[k - 1] + 1 + Len(at[k])
              /\ path[L[k - 1] + 1] = SLASH
              /\ \A j \in 1 .. Len(at[k]) : path[L[k - 1] + 1 + j] = at[k][j]
  <2>1. PICK a, w \in Seq(C) : a = t[k - 1] /\ w = at[k] /\ t[k] = Joined(a, w)
    BY <1>5
  <2>3. PICK x, y \in Nat : x = Len(a) /\ y = Len(w)
    OBVIOUS
  <2>0. PICK v : v = t[k]
    OBVIOUS
  <2>2. /\ Len(v) = x + 1 + y /\ v[x + 1] = SLASH
        /\ \A j \in 1 .. y : v[x + 1 + j] = w[j]
    <3>1. IsJoined(v, a, w)
      BY <2>0, <2>1, JoinedIs
    <3> QED
      BY <2>3, <3>1 DEF IsJoined
  <2>4. L[k - 1] = x /\ L[k] = x + 1 + y
    BY <1>3, <1>5, <2>0, <2>1, <2>2, <2>3
  <2>5. k \in 0 .. n
    OBVIOUS
  <2>6. \A i \in 1 .. L[k] : t[k][i] = path[i]
    BY <1>6, <1>9, <1>10, <2>5
  <2>7. x + 1 \in 1 .. L[k] /\ \A j \in 1 .. y : x + 1 + j \in 1 .. L[k]
    BY <2>4
  <2>8. path[x + 1] = SLASH
    BY <2>0, <2>2, <2>6, <2>7
  <2>9. \A j \in 1 .. y : path[x + 1 + j] = w[j]
    BY <2>0, <2>2, <2>6, <2>7
  <2> QED
    BY <2>1, <2>3, <2>4, <2>8, <2>9
<1>13. Laid(path, at, L)
  BY <1>1, <1>11, <1>12 DEF Laid
<1> QED
  BY <1>1, <1>2, <1>4, <1>10, <1>13

(***************************************************************************)
(* Sequences, and how path names grow and shrink.                          *)
(***************************************************************************)
(* A largest member is the maximum.                                        *)
LEMMA MaxIs ==
    ASSUME NEW S \in SUBSET Int, NEW m \in S, \A x \in S : x <= m
    PROVE  Max(S) = m
<1>1. m \in Int /\ \A x \in S : x \in Int
  OBVIOUS
<1>2. \A x \in S : m >= x
  BY <1>1
<1>3. \A y \in S : (\A x \in S : y >= x) => y = m
  BY <1>1
<1> QED
  BY <1>2, <1>3 DEF Max

(* A bounded set has a maximum.                                            *)
LEMMA Greatest ==
    ASSUME NEW N \in Nat, NEW S \in SUBSET (0 .. N), S # {}
    PROVE  Max(S) \in S /\ \A x \in S : x <= Max(S)
<1>1. PICK T : T = {n \in Nat : n <= N /\ N - n \in S}
  OBVIOUS
<1>2. T \in SUBSET Nat
  BY <1>1
<1>3. T # {}
  <2>1. PICK x \in S : x \in 0 .. N
    OBVIOUS
  <2>2. PICK n \in Nat : n = N - x /\ n <= N /\ N - n = x
    BY <2>1
  <2> QED
    BY <1>1, <2>2
<1>4. PICK n \in T : \A y \in T : n <= y
  BY <1>2, <1>3, Least
<1>5. PICK m \in S : m = N - n /\ m \in Int /\ n \in Nat
  BY <1>1
<1>6. \A x \in S : x <= m
  <2> SUFFICES ASSUME NEW x \in S PROVE x <= m
    OBVIOUS
  <2>1. PICK k \in Nat : k = N - x /\ k <= N /\ N - k = x
    OBVIOUS
  <2>2. k \in T
    BY <1>1, <2>1
  <2>3. n <= k
    BY <1>4, <2>2
  <2> QED
    BY <1>5, <2>1, <2>3
<1>7. S \in SUBSET Int
  OBVIOUS
<1>8. Max(S) = m
  BY <1>6, <1>7, MaxIs
<1> QED
  BY <1>6, <1>8

(* The larger of two.                                                      *)
LEMMA MaxOfTwo ==
    ASSUME NEW a \in Int, NEW b \in Int
    PROVE  Max({a, b}) = IF a <= b THEN b ELSE a
<1>1. {a, b} \in SUBSET Int
  OBVIOUS
<1>2. CASE a <= b
  <2>1. \A x \in {a, b} : x <= b
    BY <1>2
  <2> QED
    BY <1>1, <1>2, <2>1, MaxIs
<1>3. CASE ~(a <= b)
  <2>1. \A x \in {a, b} : x <= a
    BY <1>3
  <2> QED
    BY <1>1, <1>3, <2>1, MaxIs
<1> QED
  BY <1>2, <1>3

(***************************************************************************)
(* One component of a relative path name.                                  *)
(***************************************************************************)
(* What a prefix is.                                                       *)
LEMMA PrefixIs ==
    ASSUME NEW C, NEW text \in Seq(C), NEW p \in Nat, p <= Len(text)
    PROVE  /\ SubSeq(text, 1, p) \in Seq(C) /\ Len(SubSeq(text, 1, p)) = p
           /\ \A i \in 1 .. p : SubSeq(text, 1, p)[i] = text[i]
OBVIOUS

(* RemoveLast leaves a path name, not a longer one.                        *)
LEMMA RemoveLastType ==
    ASSUME NEW C, NEW abs \in Seq(C), abs # <<>>
    PROVE  /\ RemoveLast(abs) \in Seq(C) /\ RemoveLast(abs) # <<>>
           /\ Len(RemoveLast(abs)) <= Len(abs)
<1>1. PICK n \in Nat : n = Len(abs) /\ DOMAIN abs = 1 .. n /\ n >= 1
  OBVIOUS
<1>2. PICK S : S = Slashes(abs)
  OBVIOUS
<1>3. S \in SUBSET (0 .. n) /\ S # {} /\ 1 \in S /\ \A x \in S : 1 <= x
  BY <1>1, <1>2 DEF Slashes
<1>4. PICK m \in 1 .. n : m = Max(S)
  <2>1. PICK x \in S : x = Max(S)
    BY <1>3, Greatest
  <2>2. x \in 0 .. n /\ 1 <= x
    BY <1>3
  <2> QED
    BY <2>1, <2>2
<1>5. PICK k \in 1 .. n : k = Max({1, m - 1})
  <2>1. Max({1, m - 1}) = IF 1 <= m - 1 THEN m - 1 ELSE 1
    BY MaxOfTwo
  <2>2. CASE 1 <= m - 1
    BY <1>1, <2>1, <2>2
  <2>3. CASE ~(1 <= m - 1)
    BY <1>1, <2>1, <2>3
  <2> QED
    BY <2>2, <2>3
<1>6. RemoveLast(abs) = SubSeq(abs, 1, k)
  BY <1>2, <1>4, <1>5 DEF RemoveLast, Slashes
<1>7. k \in Nat /\ k <= Len(abs)
  BY <1>1
<1>8. SubSeq(abs, 1, k) \in Seq(C) /\ Len(SubSeq(abs, 1, k)) = k
  BY <1>7, PrefixIs
<1>9. SubSeq(abs, 1, k) # <<>>
  BY <1>8
<1> QED
  BY <1>6, <1>7, <1>8, <1>9

(* With a name added, a path name does not get shorter.                    *)
LEMMA LongerType ==
    ASSUME NEW C, SLASH \in C, NEW abs \in Seq(C), NEW name \in Seq(C)
    PROVE  /\ Longer(abs, name) \in Seq(C)
           /\ Len(Longer(abs, name)) \in Nat /\ Len(abs) \in Nat
           /\ Len(abs) <= Len(Longer(abs, name))
<1>1. PICK s : s = Sep(abs)
  OBVIOUS
<1>2. s \in Seq(C) /\ Len(s) \in Nat
  BY <1>1 DEF Sep
<1>3. PICK u : u = abs \o s
  OBVIOUS
<1>4. u \in Seq(C) /\ Concat(u, abs, s)
  BY <1>2, <1>3, Concatenated
<1>5. PICK v : v = u \o name
  OBVIOUS
<1>6. v \in Seq(C) /\ Concat(v, u, name)
  BY <1>4, <1>5, Concatenated
<1>7. Len(name) \in Nat /\ Len(u) = Len(abs) + Len(s) /\ Len(v) = Len(u) + Len(name) /\ Len(abs) \in Nat
  BY <1>4, <1>6 DEF Concat
<1>8. Len(abs) <= Len(v) /\ Len(v) \in Nat
  BY <1>2, <1>7
<1> QED
  BY <1>1, <1>3, <1>5, <1>6, <1>7, <1>8 DEF Longer

(* AddName never fills the buffer, and adds all of a name that fits.       *)
LEMMA AddNameIs ==
    ASSUME NEW C, SLASH \in C, NEW abs \in Seq(C), NEW name \in Seq(C),
           NEW max \in Nat, max >= 1, Len(abs) < max,
           NEW v, v = Longer(abs, name)
    PROVE  /\ Len(v) < max => AddName(abs, name, max) = v
           /\ AddName(abs, name, max) \in Seq(C)
           /\ Len(abs) <= Len(AddName(abs, name, max)) /\ Len(AddName(abs, name, max)) < max
<1>1. v \in Seq(C) /\ Len(v) \in Nat /\ Len(abs) \in Nat /\ Len(abs) <= Len(v)
  BY LongerType
<1>2. PICK x, y, q \in Nat : x = Len(abs) /\ y = Len(v) /\ q = max - 1 /\ x <= y /\ x <= q
  BY <1>1
<1>3. PICK m \in Nat : m = Min({y, q}) /\ m = IF y <= q THEN y ELSE q
  <2>1. Min({y, q}) = IF y <= q THEN y ELSE q
    BY MinOfTwo
  <2> QED
    BY <2>1
<1>4. Max({x, m}) = m
  <2>1. Max({x, m}) = IF x <= m THEN m ELSE x
    BY MaxOfTwo
  <2> QED
    BY <1>2, <1>3, <2>1
<1>5. AddName(abs, name, max) = SubSeq(v, 1, m)
  BY <1>2, <1>3, <1>4 DEF AddName, Longer, Sep
<1>6. m <= Len(v) /\ x <= m /\ m < max
  BY <1>2, <1>3
<1>7. SubSeq(v, 1, m) \in Seq(C) /\ Len(SubSeq(v, 1, m)) = m
  BY <1>1, <1>6, PrefixIs
<1>8. ASSUME Len(v) < max PROVE SubSeq(v, 1, m) = v
  <2>1. m = Len(v)
    BY <1>2, <1>3, <1>8
  <2> QED
    BY <1>1, <2>1
<1> QED
  BY <1>2, <1>5, <1>6, <1>7, <1>8

(* Sequences with the same items are equal.                                *)
LEMMA SameText ==
    ASSUME NEW C, NEW f \in Seq(C), NEW g \in Seq(C), Len(f) = Len(g),
           \A i \in 1 .. Len(f) : f[i] = g[i]
    PROVE  f = g
OBVIOUS

(* A sequence of one item.                                                 *)
LEMMA OneCell ==
    ASSUME NEW C, NEW c \in C, NEW s, s = <<c>>
    PROVE  s \in Seq(C) /\ Len(s) = 1 /\ s[1] = c /\ s # <<>>
OBVIOUS

(* The path name of the root.                                              *)
LEMMA OneSlash ==
    ASSUME NEW s, s = <<SLASH>>
    PROVE  SLASH \in STRING /\ s \in Seq(STRING) /\ Len(s) = 1 /\ s[1] = SLASH /\ s # <<>>
<1>1. SLASH \in STRING
  BY HostsAssumption
<1> QED
  BY <1>1, OneCell

(* A name has no slash and is not empty.                                   *)
LEMMA NameType ==
    ASSUME NEW n \in Name
    PROVE  /\ n \in Seq(STRING) /\ Len(n) \in Nat /\ Len(n) >= 1
           /\ \A i \in 1 .. Len(n) : n[i] # SLASH
<1>1. n \in Seq(STRING) /\ n # <<>> /\ \A i \in DOMAIN n : n[i] # SLASH
  BY DEF Name
<1>2. PICK m \in Nat : DOMAIN n = 1 .. m /\ Len(n) = m
  BY <1>1
<1>3. m # 0
  BY <1>1, <1>2
<1> QED
  BY <1>1, <1>2, <1>3

(* A place is a sequence of texts.                                         *)
LEMMA PlaceType ==
    ASSUME NEW at \in Seq(Name)
    PROVE  at \in Seq(Seq(STRING))
<1>1. PICK W : W = Seq(STRING)
  OBVIOUS
<1>2. Name \in SUBSET W
  BY <1>1 DEF Name
<1>3. PICK n \in Nat : DOMAIN at = 1 .. n /\ Len(at) = n
  OBVIOUS
<1>4. at \in [1 .. n -> W]
  BY <1>2, <1>3
<1>5. at \in Seq(W)
  BY <1>4
<1> QED
  BY <1>1, <1>5

(* A path name ends with the last name of the place.                       *)
LEMMA PathEnd ==
    ASSUME NEW at \in Seq(Name)
    PROVE  /\ PathOf(at) \in Seq(STRING) /\ PathOf(at) # <<>> /\ Full(at) \in Seq(STRING)
           /\ at = <<>> => PathOf(at) = <<SLASH>> /\ Full(at) = <<>>
           /\ at # <<>> =>
                \E up \in Seq(Name), n \in Name :
                   /\ at = Append(up, n) /\ up = SubSeq(at, 1, Len(at) - 1) /\ n = at[Len(at)]
                   /\ PathOf(at) = Joined(Full(up), n) /\ Full(at) = PathOf(at)
                   /\ Full(up) \in Seq(STRING)
<1>1. CASE at = <<>>
  <2>1. PathOf(at) = <<SLASH>> /\ Full(at) = <<>>
    BY <1>1 DEF PathOf, Full
  <2>2. PICK s : s = <<SLASH>>
    OBVIOUS
  <2>3. s \in Seq(STRING) /\ s # <<>>
    BY <2>2, OneSlash
  <2>4. PICK e : e = <<>>
    OBVIOUS
  <2>5. e \in Seq(STRING)
    BY <2>4
  <2> QED
    BY <1>1, <2>1, <2>2, <2>3, <2>4, <2>5
<1>2. CASE at # <<>>
  <2>1. PICK m \in Nat : m = Len(at) /\ m >= 1
    BY <1>2
  <2>2. PICK up : up = SubSeq(at, 1, m - 1)
    OBVIOUS
  <2>3. PICK n \in Name : n = at[m]
    BY <2>1
  <2>4. up \in Seq(Name) /\ Len(up) = m - 1 /\ \A i \in 1 .. (m - 1) : up[i] = at[i]
    BY <2>1, <2>2
  <2>5. PICK bt : bt = Append(up, n)
    OBVIOUS
  <2>6. bt \in Seq(Name) /\ Len(bt) = m /\ bt[m] = n /\ \A i \in 1 .. (m - 1) : bt[i] = up[i]
    BY <2>1, <2>4, <2>5
  <2>7. at = bt
    <3>1. \A i \in 1 .. m : i = m \/ i \in 1 .. (m - 1)
      OBVIOUS
    <3>2. \A i \in 1 .. m : at[i] = bt[i]
      BY <2>3, <2>4, <2>6, <3>1
    <3> QED
      BY <2>1, <2>6, <3>2
  <2>8. up \in Seq(Seq(STRING)) /\ n \in Seq(STRING) /\ SLASH \in STRING
    BY <2>4, NameType, PlaceType, OneSlash
  <2>9. PICK C : C = STRING
    OBVIOUS
  <2>10. Full(up) \in Seq(C) /\ PathOf(Append(up, n)) = Joined(Full(up), n)
    <3>1. SLASH \in C /\ up \in Seq(Seq(C)) /\ n \in Seq(C)
      BY <2>8, <2>9
    <3> QED
      BY <3>1, PathSnoc
  <2>11. PICK f, v : f = Full(up) /\ v = PathOf(at)
    OBVIOUS
  <2>12. v = Joined(f, n) /\ f \in Seq(STRING)
    BY <2>5, <2>7, <2>9, <2>10, <2>11
  <2>13. v \in Seq(C) /\ IsJoined(v, f, n)
    BY <2>8, <2>9, <2>12, JoinedIs
  <2>14. v # <<>>
    <3>1. Len(v) = Len(f) + 1 + Len(n) /\ Len(f) \in Nat /\ Len(n) \in Nat
      BY <2>13 DEF IsJoined
    <3>2. Len(v) # 0
      BY <3>1
    <3> QED
      BY <3>2
  <2>15. Full(at) = v
    BY <1>2, <2>11 DEF Full
  <2> QED
    BY <1>2, <2>1, <2>2, <2>3, <2>4, <2>5, <2>7, <2>9, <2>11, <2>12, <2>13, <2>14, <2>15
<1> QED
  BY <1>1, <1>2

(* Adding a name to the path name of a place.                              *)
LEMMA PathGrows ==
    ASSUME NEW at \in Seq(Name), NEW name \in Name
    PROVE  /\ Append(at, name) \in Seq(Name)
           /\ Longer(PathOf(at), name) = PathOf(Append(at, name))
<1>1. /\ SLASH \in STRING /\ at \in Seq(Seq(STRING)) /\ name \in Seq(STRING)
  BY NameType, PlaceType, OneSlash
<1>2. PathOf(Append(at, name)) = Joined(Full(at), name)
  BY <1>1, PathSnoc
<1>3. CASE at = <<>>
  <2>1. PathOf(at) = <<SLASH>> /\ Full(at) = <<>>
    BY <1>3, PathEnd
  <2>2. PICK s, e : s = <<SLASH>> /\ e = <<>>
    OBVIOUS
  <2>3. s \in Seq(STRING) /\ Len(s) = 1 /\ s[1] = SLASH
    BY <2>2, OneSlash
  <2>4. Sep(s) = e
    BY <2>2, <2>3 DEF Sep
  <2>5. s \o e = s /\ e \o s = s
    BY <2>2, <2>3
  <2>6. Longer(s, name) = s \o name
    BY <2>4, <2>5 DEF Longer
  <2>7. Joined(e, name) = s \o name
    BY <2>2, <2>5 DEF Joined
  <2> QED
    BY <1>2, <2>1, <2>2, <2>6, <2>7, SMTT(30)
<1>4. CASE at # <<>>
  <2>1. PICK up \in Seq(Name), n \in Name : /\ PathOf(at) = Joined(Full(up), n)
                                           /\ Full(at) = PathOf(at) /\ Full(up) \in Seq(STRING)
    BY <1>4, PathEnd
  <2>2. PICK C, f, v : C = STRING /\ f = Full(up) /\ v = PathOf(at)
    OBVIOUS
  <2>3. n \in Seq(C) /\ SLASH \in C /\ f \in Seq(C) /\ v = Joined(f, n)
    BY <2>1, <2>2, NameType, OneSlash
  <2>4. IsJoined(v, f, n)
    BY <2>3, JoinedIs
  <2>5. PICK x, y \in Nat : x = Len(f) /\ y = Len(n) /\ y >= 1 /\ \A i \in 1 .. y : n[i] # SLASH
    <3>1. Len(n) \in Nat /\ Len(n) >= 1 /\ \A i \in 1 .. Len(n) : n[i] # SLASH
      BY NameType
    <3>2. Len(f) \in Nat
      BY <2>3
    <3> QED
      BY <3>1, <3>2
  <2>6. Len(v) = x + 1 + y /\ \A j \in 1 .. y : v[x + 1 + j] = n[j]
    BY <2>4, <2>5 DEF IsJoined
  <2>7. y \in 1 .. y
    BY <2>5
  <2>8. v[Len(v)] # SLASH
    BY <2>5, <2>6, <2>7
  <2>9. Sep(v) = <<SLASH>>
    BY <2>8 DEF Sep
  <2>10. Longer(v, name) = Joined(v, name)
    BY <2>9 DEF Longer, Joined
  <2> QED
    BY <1>2, <2>1, <2>2, <2>10
<1>5. Append(at, name) \in Seq(Name)
  OBVIOUS
<1> QED
  BY <1>3, <1>4, <1>5

(* RemoveLast goes to the directory above.                                 *)
LEMMA PathShrinks ==
    ASSUME NEW at \in Seq(Name), NEW up, up = SubSeq(at, 1, Max({0, Len(at) - 1}))
    PROVE  up \in Seq(Name) /\ RemoveLast(PathOf(at)) = PathOf(up)
<1>0. Len(at) \in Nat /\ Max({0, Len(at) - 1}) = IF 0 <= Len(at) - 1 THEN Len(at) - 1 ELSE 0
  BY MaxOfTwo
<1>1. CASE at = <<>>
  <2>1. Len(at) = 0
    BY <1>1
  <2>2. up = <<>>
    BY <1>0, <1>1, <2>1
  <2>3. PICK s : s = <<SLASH>>
    OBVIOUS
  <2>4. PathOf(at) = s /\ PathOf(up) = s
    BY <1>1, <2>2, <2>3, PathEnd
  <2>5. s \in Seq(STRING) /\ Len(s) = 1 /\ s # <<>>
    BY <2>3, OneSlash
  <2>6. PICK r : r = RemoveLast(s)
    OBVIOUS
  <2> QED
    <3>1. Slashes(s) = {1}
      BY <2>3, <2>5 DEF Slashes
    <3>2. Max({1}) = 1
      <4>1. {1} \in SUBSET Int /\ 1 \in {1} /\ \A x \in {1} : x <= 1
        OBVIOUS
      <4> QED
        BY <4>1, MaxIs
    <3>3. Max({1, 1 - 1}) = 1
      BY MaxOfTwo
    <3>4. r = SubSeq(s, 1, 1)
      BY <2>6, <3>1, <3>2, <3>3 DEF RemoveLast, Slashes
    <3>5. r = s
      BY <2>5, <3>4
    <3> QED
      BY <1>1, <2>2, <2>4, <2>6, <3>5
<1>2. CASE at # <<>>
  <2>1. PICK bt \in Seq(Name), n \in Name :
                   /\ at = Append(bt, n) /\ bt = SubSeq(at, 1, Len(at) - 1)
                   /\ PathOf(at) = Joined(Full(bt), n) /\ Full(bt) \in Seq(STRING)
    BY <1>2, PathEnd
  <2>2. up = bt
    <3>1. Len(at) # 0
      BY <1>2
    <3>2. Max({0, Len(at) - 1}) = Len(at) - 1
      BY <1>0, <3>1
    <3> QED
      BY <2>1, <3>2
  <2>3. PICK C, f, v : C = STRING /\ f = Full(bt) /\ v = PathOf(at)
    OBVIOUS
  <2>4. n \in Seq(C) /\ SLASH \in C /\ f \in Seq(C) /\ v = Joined(f, n)
    BY <2>1, <2>3, NameType, OneSlash
  <2>5. v \in Seq(C) /\ IsJoined(v, f, n)
    BY <2>4, JoinedIs
  <2>6. PICK x, y \in Nat : x = Len(f) /\ y = Len(n) /\ y >= 1 /\ \A i \in 1 .. y : n[i] # SLASH
    <3>1. Len(n) \in Nat /\ Len(n) >= 1 /\ \A i \in 1 .. Len(n) : n[i] # SLASH
      BY NameType
    <3>2. Len(f) \in Nat
      BY <2>4
    <3> QED
      BY <3>1, <3>2
  <2>7. /\ Len(v) = x + 1 + y /\ (\A j \in 1 .. y : v[x + 1 + j] = n[j]) /\ v[x + 1] = SLASH
        /\ \A i \in 1 .. x : v[i] = f[i]
    BY <2>5, <2>6 DEF IsJoined
  <2>8. PICK S : S = Slashes(v)
    OBVIOUS
  <2>9. S \in SUBSET Int /\ x + 1 \in S
    BY <2>5, <2>6, <2>7, <2>8 DEF Slashes
  <2>10. \A i \in S : i <= x + 1
    <3> SUFFICES ASSUME NEW i \in S, ~(i <= x + 1) PROVE FALSE
      OBVIOUS
    <3>1. i \in 1 .. (x + 1 + y) /\ v[i] = SLASH
      BY <2>5, <2>6, <2>7, <2>8 DEF Slashes
    <3>2. PICK j \in 1 .. y : i = x + 1 + j
      <4>1. i - x - 1 \in 1 .. y /\ i = x + 1 + (i - x - 1)
        BY <2>6, <3>1, SMTT(30)
      <4> QED
        BY <4>1
    <3> QED
      BY <2>6, <2>7, <3>1, <3>2
  <2>11. Max(S) = x + 1
    BY <2>9, <2>10, MaxIs
  <2>12. Max({1, (x + 1) - 1}) = IF 1 <= x THEN x ELSE 1
    <3>1. (x + 1) - 1 = x
      BY <2>6
    <3> QED
      BY <2>6, <3>1, MaxOfTwo
  <2>13. RemoveLast(v) = SubSeq(v, 1, IF 1 <= x THEN x ELSE 1)
    BY <2>8, <2>11, <2>12 DEF RemoveLast, Slashes
  <2>14. CASE bt = <<>>
    <3>1. f = <<>> /\ PathOf(bt) = <<SLASH>>
      BY <2>3, <2>14, PathEnd
    <3>2. x = 0
      BY <2>6, <3>1
    <3>3. RemoveLast(v) = SubSeq(v, 1, 1) /\ v[1] = SLASH /\ Len(v) >= 1
      BY <2>6, <2>7, <2>13, <3>2
    <3>4. SubSeq(v, 1, 1) = <<SLASH>>
      <4>1. PICK r, s : r = SubSeq(v, 1, 1) /\ s = <<SLASH>>
        OBVIOUS
      <4>2. r \in Seq(C) /\ Len(r) = 1 /\ r[1] = SLASH
        BY <2>5, <3>3, <4>1
      <4>3. s \in Seq(C) /\ Len(s) = 1 /\ s[1] = SLASH
        BY <2>3, <4>1, OneSlash
      <4>4. \A i \in 1 .. Len(r) : i = 1
        BY <4>2
      <4>5. Len(r) = Len(s) /\ \A i \in 1 .. Len(r) : r[i] = s[i]
        BY <4>2, <4>3, <4>4
      <4>6. r = s
        BY <4>2, <4>3, <4>5, SameText
      <4> QED
        BY <4>1, <4>6
    <3> QED
      BY <2>2, <2>3, <3>1, <3>3, <3>4
  <2>15. CASE bt # <<>>
    <3>1. f = PathOf(bt) /\ f # <<>>
      BY <2>3, <2>15, PathEnd
    <3>2. 1 <= x
      BY <2>4, <2>6, <3>1
    <3>3. RemoveLast(v) = SubSeq(v, 1, x) /\ x <= Len(v)
      BY <2>6, <2>7, <2>13, <3>2
    <3>4. PICK r : r = SubSeq(v, 1, x)
      OBVIOUS
    <3>5. r \in Seq(C) /\ Len(r) = x /\ \A i \in 1 .. x : r[i] = v[i]
      BY <2>5, <3>3, <3>4, PrefixIs
    <3>7. Len(r) = Len(f) /\ \A i \in 1 .. Len(r) : r[i] = f[i]
      BY <2>6, <2>7, <3>5
    <3>6. r = f
      BY <2>4, <3>5, <3>7, SameText
    <3> QED
      BY <2>2, <2>3, <3>1, <3>3, <3>4, <3>6
  <2> QED
    BY <2>1, <2>2, <2>14, <2>15
<1> QED
  BY <1>1, <1>2

(***************************************************************************)
(* The scan of relative_to_absolute.                                       *)
(***************************************************************************)
(* What the buffer may hold.                                               *)
Buffers(C, max) == {a \in Seq(C) : a # <<>> /\ Len(a) < max}

(* The buffer after each position, next to the start of the piece.         *)
Follows(ab, st, base, rel, max) ==
    /\ ab[0] = Begin(base, rel)
    /\ \A i \in 1 .. (Len(rel) + 1) :
         ab[i] = IF Breaks(rel, i) /\ i > st[i - 1]
                 THEN Step(ab[i - 1], SubSeq(rel, st[i - 1], i - 1), max) ELSE ab[i - 1]

(* One component keeps to the buffer.                                      *)
LEMMA StepType ==
    ASSUME NEW C, SLASH \in C, NEW max \in Nat, max >= 2,
           NEW abs \in Buffers(C, max), NEW name \in Seq(C)
    PROVE  Step(abs, name, max) \in Buffers(C, max)
<1>1. abs \in Seq(C) /\ abs # <<>> /\ Len(abs) < max /\ Len(abs) \in Nat /\ Len(abs) # 0
  BY DEF Buffers
<1>2. RemoveLast(abs) \in Buffers(C, max)
  <2>1. PICK r : r = RemoveLast(abs)
    OBVIOUS
  <2>2. r \in Seq(C) /\ r # <<>> /\ Len(r) <= Len(abs)
    BY <1>1, <2>1, RemoveLastType
  <2>3. Len(r) < max
    BY <1>1, <2>2
  <2> QED
    BY <2>1, <2>2, <2>3 DEF Buffers
<1>3. AddName(abs, name, max) \in Buffers(C, max)
  <2>1. PICK r : r = AddName(abs, name, max)
    OBVIOUS
  <2>2. r \in Seq(C) /\ Len(abs) <= Len(r) /\ Len(r) < max
    BY <1>1, <2>1, AddNameIs
  <2>3. r # <<>>
    BY <1>1, <2>2
  <2> QED
    BY <2>1, <2>2, <2>3 DEF Buffers
<1> QED
  BY <1>2, <1>3 DEF Step

(* So does the start.                                                      *)
LEMMA BeginType ==
    ASSUME NEW C, SLASH \in C, NEW max \in Nat, max >= 2, NEW base \in Buffers(C, max), NEW rel
    PROVE  Begin(base, rel) \in Buffers(C, max)
<1>1. PICK s : s = <<SLASH>>
  OBVIOUS
<1>2. s \in Seq(C) /\ Len(s) = 1 /\ s # <<>>
  BY <1>1, OneCell
<1>3. s \in Buffers(C, max)
  BY <1>2 DEF Buffers
<1> QED
  BY <1>1, <1>3 DEF Begin

(* relative_to_absolute, position by position: it keeps to its buffer.     *)
LEMMA RelSteps ==
    ASSUME NEW C, SLASH \in C, NEW max \in Nat, max >= 2, NEW base \in Buffers(C, max),
           NEW rel \in Seq(C)
    PROVE  \E st, ab : /\ Scans(st, rel, {SLASH}) /\ Follows(ab, st, base, rel, max)
                       /\ \A i \in 0 .. (Len(rel) + 1) : ab[i] \in Buffers(C, max)
                       /\ relative_to_absolute(base, rel, max) = ab[Len(rel) + 1]
<1>1. PICK n \in Nat : n = Len(rel) + 1 /\ n - 1 = Len(rel)
  OBVIOUS
<1>2. PICK A : A = Buffers(C, max)
  OBVIOUS
<1>3. PICK D : D = [start : Nat \ {0}, abs : A]
  OBVIOUS
<1>4. PICK a \in A : a = Begin(base, rel)
  BY <1>2, BeginType
<1>5. PICK d \in D : d = [start |-> 1, abs |-> a]
  <2>1. [start |-> 1, abs |-> a] \in D
    BY <1>3
  <2> QED
    BY <2>1
<1>6. PICK step : step = [k \in 1 .. n |-> [e \in D |-> Advance(e, rel, k, max)]]
  OBVIOUS
<1>7. ASSUME NEW k \in 1 .. n, NEW e \in D PROVE Advance(e, rel, k, max) \in D
  <2>1. PICK s \in Nat \ {0}, b \in A : s = e.start /\ b = e.abs
    BY <1>3
  <2>2. PICK w : w = SubSeq(rel, s, k - 1)
    OBVIOUS
  <2>3. w \in Seq(C)
    <3>1. k - 1 \in Nat /\ k - 1 <= Len(rel) /\ 1 <= s
      BY <1>1
    <3> QED
      BY <2>2, <3>1, SliceType
  <2>4. PICK b2 \in A : b2 = Step(b, w, max)
    BY <1>2, <2>3, StepType
  <2>5. k + 1 \in Nat \ {0}
    OBVIOUS
  <2>6. PICK b3 \in A : b3 = IF k > s THEN b2 ELSE b
    OBVIOUS
  <2>7. Advance(e, rel, k, max) = IF ~Breaks(rel, k) THEN e ELSE [start |-> k + 1, abs |-> b3]
    BY <2>1, <2>2, <2>4, <2>6 DEF Advance
  <2>8. [start |-> k + 1, abs |-> b3] \in D
    BY <1>3, <2>5
  <2> QED
    BY <2>7, <2>8
<1>8. step \in [1 .. n -> [D -> D]]
  BY <1>6, <1>7
<1>9. PICK f \in [0 .. n -> D] : Iterates(f, n, d, step)
  BY <1>8, Recursion
<1>10. ASSUME NEW k \in 0 .. n
       PROVE  f[k] = IF k = 0 THEN d ELSE Advance(f[k - 1], rel, k, max)
  <2>1. CASE k = 0
    BY <1>9, <2>1 DEF Iterates
  <2>2. CASE k # 0
    <3>1. k \in 1 .. n /\ k - 1 \in 0 .. n
      BY <2>2
    <3>2. f[k] = step[k][f[k - 1]] /\ f[k - 1] \in D
      BY <1>9, <3>1 DEF Iterates
    <3> QED
      BY <1>6, <2>2, <3>1, <3>2
  <2> QED
    BY <2>1, <2>2
<1>11. f = [k \in 0 .. n |-> IF k = 0 THEN d ELSE Advance(f[k - 1], rel, k, max)]
  BY <1>10
<1>12. PICK h : h = CHOOSE g : g = [k \in 0 .. n |-> IF k = 0 THEN d ELSE Advance(g[k - 1], rel, k, max)]
  OBVIOUS
<1>13. h = [k \in 0 .. n |-> IF k = 0 THEN d ELSE Advance(h[k - 1], rel, k, max)]
  BY <1>11, <1>12
<1>14. relative_to_absolute(base, rel, max) = h[n].abs
  BY <1>1, <1>4, <1>5, <1>12 DEF relative_to_absolute, Advance, Step, Begin
<1>15. \A k \in 0 .. n : h[k] = IF k = 0 THEN d ELSE Advance(h[k - 1], rel, k, max)
  BY <1>13, Zenon
<1>16. h[0] = d
  <2>1. 0 \in 0 .. n
    OBVIOUS
  <2> QED
    BY <1>15, <2>1
<1>17. \A k \in 1 .. n : h[k] = Advance(h[k - 1], rel, k, max)
  <2>1. \A k \in 1 .. n : k \in 0 .. n /\ k # 0
    OBVIOUS
  <2> QED
    BY <1>15, <2>1
<1>18. \A k \in Nat : k <= n => h[k] \in D
  <2>1. PICK T : T = {k \in Nat : k <= n => h[k] \in D}
    OBVIOUS
  <2>2. 0 \in T
    BY <1>16, <2>1
  <2>3. ASSUME NEW k \in Nat, k \in T PROVE k + 1 \in T
    <3> SUFFICES ASSUME k + 1 <= n PROVE h[k + 1] \in D
      BY <2>1
    <3>1. h[k] \in D
      BY <2>1, <2>3
    <3>2. PICK j \in 1 .. n : j = k + 1 /\ j - 1 = k
      OBVIOUS
    <3> QED
      BY <1>7, <1>17, <3>1, <3>2
  <2>4. \A k \in Nat : k \in T
    BY <2>2, <2>3, Induction
  <2> QED
    BY <2>1, <2>4
<1>19. PICK st, ab : st = [k \in 0 .. n |-> h[k].start] /\ ab = [k \in 0 .. n |-> h[k].abs]
  OBVIOUS
<1>20. \A k \in 0 .. n : st[k] = h[k].start /\ ab[k] = h[k].abs
  BY <1>19
<1>21. \A k \in 0 .. n : ab[k] \in A
  <2>1. \A k \in 0 .. n : h[k] \in D
    BY <1>18
  <2> QED
    BY <1>3, <1>20, <2>1
<1>22. st[0] = 1 /\ ab[0] = a
  <2>1. 0 \in 0 .. n
    OBVIOUS
  <2> QED
    BY <1>5, <1>16, <1>20, <2>1
<1>23. ASSUME NEW k \in 1 .. n
       PROVE  /\ st[k] = IF Ends(rel, {SLASH}, k) THEN k + 1 ELSE st[k - 1]
              /\ ab[k] = IF Breaks(rel, k) /\ k > st[k - 1]
                         THEN Step(ab[k - 1], SubSeq(rel, st[k - 1], k - 1), max) ELSE ab[k - 1]
  <2>1. k \in 0 .. n /\ k - 1 \in 0 .. n
    OBVIOUS
  <2>2. PICK e : e = h[k - 1]
    OBVIOUS
  <2>3. h[k] = Advance(e, rel, k, max) /\ st[k - 1] = e.start /\ ab[k - 1] = e.abs
    BY <1>17, <1>20, <2>1, <2>2
  <2>4. Ends(rel, {SLASH}, k) <=> Breaks(rel, k)
    BY DEF Ends, Breaks
  <2>5. CASE ~Breaks(rel, k)
    <3>1. h[k] = e
      BY <2>3, <2>5 DEF Advance
    <3> QED
      BY <1>20, <2>1, <2>3, <2>4, <2>5, <3>1
  <2>6. CASE Breaks(rel, k)
    <3>1. PICK w : w = SubSeq(rel, e.start, k - 1)
      OBVIOUS
    <3>2. PICK x : x = Step(e.abs, w, max)
      OBVIOUS
    <3>3. h[k] = [start |-> k + 1, abs |-> IF k > e.start THEN x ELSE e.abs]
      BY <2>3, <2>6, <3>1, <3>2 DEF Advance
    <3>4. h[k].start = k + 1 /\ h[k].abs = IF k > e.start THEN x ELSE e.abs
      BY <3>3
    <3>5. st[k] = k + 1 /\ ab[k] = IF k > e.start THEN x ELSE e.abs
      BY <1>20, <2>1, <3>4
    <3>6. x = Step(ab[k - 1], SubSeq(rel, st[k - 1], k - 1), max)
      BY <2>3, <3>1, <3>2
    <3> QED
      BY <2>3, <2>4, <2>6, <3>5, <3>6
  <2> QED
    BY <2>5, <2>6
<1>24. Scans(st, rel, {SLASH})
  BY <1>1, <1>22, <1>23 DEF Scans
<1>25. Follows(ab, st, base, rel, max)
  BY <1>1, <1>4, <1>22, <1>23 DEF Follows
<1>26. n \in 0 .. n
  OBVIOUS
<1>27. relative_to_absolute(base, rel, max) = ab[Len(rel) + 1]
  BY <1>1, <1>14, <1>20, <1>26
<1>28. \A i \in 0 .. (Len(rel) + 1) : ab[i] \in Buffers(C, max)
  BY <1>1, <1>2, <1>21
<1> QED
  BY <1>24, <1>25, <1>27, <1>28

(***************************************************************************)
(* The walk through the tree that a path name stands for.                  *)
(***************************************************************************)
(* The names of a path name.                                               *)
LEMMA NamesType ==
    ASSUME NEW path \in Seq(STRING)
    PROVE  /\ Len(Names(path)) \in Nat /\ DOMAIN Names(path) = 1 .. Len(Names(path))
           /\ \A k \in 1 .. Len(Names(path)) : Names(path)[k] \in Name
<1>1. PICK C, F : C = STRING /\ F = Fields(path, {SLASH}) /\ F = Names(path)
  BY DEF Names
<1>2. path \in Seq(C)
  BY <1>1
<1>3. F \in Seq(Seq(C))
  BY <1>1, <1>2, FieldsType
<1>4. Len(F) \in Nat /\ DOMAIN F = 1 .. Len(F)
  BY <1>3
<1>5. ASSUME NEW k \in 1 .. Len(F) PROVE F[k] \in Name
  <2>1. IsField(F[k], path, {SLASH})
    <3>1. \A j \in DOMAIN Fields(path, {SLASH}) : IsField(Fields(path, {SLASH})[j], path, {SLASH})
      BY <1>2, EachField
    <3> QED
      BY <1>1, <1>4, <3>1
  <2>2. PICK a, b \in 1 .. Len(path) :
           a <= b /\ F[k] = SubSeq(path, a, b) /\ \A j \in a .. b : path[j] \notin {SLASH}
    BY <2>1 DEF IsField
  <2>3. PICK f : f = SubSeq(path, a, b)
    OBVIOUS
  <2>4. f \in Seq(C) /\ Len(f) = b - a + 1 /\ \A j \in 1 .. (b - a + 1) : f[j] = path[a + j - 1]
    <3>1. a \in 1 .. Len(path) /\ b \in 1 .. Len(path) /\ Len(path) \in Nat /\ a <= b
      BY <1>2, <2>2
    <3> QED
      BY <1>2, <2>3, <3>1
  <2>5. f # <<>> /\ DOMAIN f = 1 .. (b - a + 1)
    <3>1. Len(f) # 0 /\ DOMAIN f = 1 .. Len(f)
      BY <2>2, <2>4
    <3> QED
      BY <2>4, <3>1
  <2>6. \A i \in DOMAIN f : f[i] # SLASH
    <3> SUFFICES ASSUME NEW i \in 1 .. (b - a + 1) PROVE f[i] # SLASH
      BY <2>5
    <3>1. a + i - 1 \in a .. b
      BY <2>2
    <3> QED
      BY <2>2, <2>4, <3>1
  <2>7. f \in Seq(STRING)
    BY <1>1, <2>4
  <2>8. f \in Name
    BY <2>5, <2>6, <2>7 DEF Name
  <2> QED
    BY <2>2, <2>3, <2>8
<1> QED
  BY <1>1, <1>4, <1>5

(* One name leads from place to place.                                     *)
LEMMA TurnType ==
    ASSUME NEW at \in Seq(Name), NEW name \in Name
    PROVE  Turn(at, name) \in Seq(Name)
<1>1. PICK up : up = SubSeq(at, 1, Max({0, Len(at) - 1}))
  OBVIOUS
<1>2. up \in Seq(Name)
  BY <1>1, PathShrinks
<1>3. Append(at, name) \in Seq(Name)
  BY PathGrows
<1> QED
  BY <1>1, <1>2, <1>3 DEF Turn

(* The walk, name by name.                                                 *)
LEMMA WalkSteps ==
    ASSUME NEW from \in Seq(Name), NEW path \in Seq(STRING), NEW n, n = Len(Names(path))
    PROVE  /\ Walk(from, path)[0] = From(from, path)
           /\ \A k \in 1 .. n : Walk(from, path)[k] = Turn(Walk(from, path)[k - 1], Names(path)[k])
           /\ \A k \in 0 .. n : Walk(from, path)[k] \in Seq(Name)
<1>1. n \in Nat
  BY NamesType
<1>2. PICK D, F : D = Seq(Name) /\ F = Names(path)
  OBVIOUS
<1>3. PICK d \in D : d = From(from, path)
  <2>1. PICK e : e = <<>>
    OBVIOUS
  <2>2. e \in Seq(Name)
    BY <2>1
  <2>3. From(from, path) \in D
    BY <1>2, <2>1, <2>2 DEF From
  <2> QED
    BY <2>3
<1>4. PICK step : step = [k \in 1 .. n |-> [e \in D |-> Turn(e, F[k])]]
  OBVIOUS
<1>5. ASSUME NEW k \in 1 .. n, NEW e \in D PROVE Turn(e, F[k]) \in D
  BY <1>2, TurnType, NamesType
<1>6. step \in [1 .. n -> [D -> D]]
  BY <1>4, <1>5
<1>8. PICK f \in [0 .. n -> D] : Iterates(f, n, d, step)
  BY <1>1, <1>6, Recursion
<1>9. ASSUME NEW k \in 0 .. n
      PROVE  f[k] = IF k = 0 THEN d ELSE Turn(f[k - 1], F[k])
  <2>1. CASE k = 0
    BY <1>8, <2>1 DEF Iterates
  <2>2. CASE k # 0
    <3>1. k \in 1 .. n /\ k - 1 \in 0 .. n
      BY <1>1, <2>2
    <3>2. f[k] = step[k][f[k - 1]] /\ f[k - 1] \in D
      BY <1>8, <3>1 DEF Iterates
    <3> QED
      BY <1>4, <2>2, <3>1, <3>2
  <2> QED
    BY <2>1, <2>2
<1>10. f = [k \in 0 .. n |-> IF k = 0 THEN d ELSE Turn(f[k - 1], F[k])]
  BY <1>9
<1>11. PICK h : h = CHOOSE g : g = [k \in 0 .. n |-> IF k = 0 THEN d ELSE Turn(g[k - 1], F[k])]
  OBVIOUS
<1>12. h = [k \in 0 .. n |-> IF k = 0 THEN d ELSE Turn(h[k - 1], F[k])]
  BY <1>10, <1>11
<1>13. Walk(from, path) = h
  BY <1>2, <1>3, <1>11 DEF Walk, Turn, From
<1>14. \A k \in 0 .. n : h[k] = IF k = 0 THEN d ELSE Turn(h[k - 1], F[k])
  BY <1>12, Zenon
<1>15. h[0] = d /\ \A k \in 1 .. n : h[k] = Turn(h[k - 1], F[k])
  <2>1. 0 \in 0 .. n
    BY <1>1
  <2>2. \A k \in 1 .. n : k \in 0 .. n /\ k # 0
    BY <1>1
  <2> QED
    BY <1>14, <2>1, <2>2
<1>17. \A k \in Nat : k <= n => h[k] \in D
  <2>1. PICK T : T = {k \in Nat : k <= n => h[k] \in D}
    OBVIOUS
  <2>2. 0 \in T
    BY <1>15, <2>1
  <2>3. ASSUME NEW k \in Nat, k \in T PROVE k + 1 \in T
    <3> SUFFICES ASSUME k + 1 <= n PROVE h[k + 1] \in D
      BY <2>1
    <3>1. h[k] \in D
      BY <1>1, <2>1, <2>3
    <3>2. PICK j \in 1 .. n : j = k + 1 /\ j - 1 = k
      BY <1>1
    <3> QED
      BY <1>5, <1>15, <3>1, <3>2
  <2>4. \A k \in Nat : k \in T
    BY <2>2, <2>3, Induction
  <2> QED
    BY <2>1, <2>4
<1>18. \A k \in 0 .. n : h[k] \in Seq(Name)
  BY <1>1, <1>2, <1>17
<1> QED
  BY <1>2, <1>3, <1>13, <1>15, <1>18

(* relative_to_absolute yields the path name of where the walk ends.       *)
LEMMA Relative ==
    ASSUME PATH_MAX \in Nat, PATH_MAX >= 2, NEW base \in Buffers(STRING, PATH_MAX),
           NEW from \in Seq(Name), NEW path \in Seq(STRING), Fits(from, path),
           base = PathOf(from) \/ (path # <<>> /\ path[1] = SLASH)
    PROVE  /\ Destination(from, path) \in Seq(Name)
           /\ relative_to_absolute(base, path, PATH_MAX) = PathOf(Destination(from, path))
<1>0. PICK C : C = STRING
  OBVIOUS
<1>1. SLASH \in C /\ path \in Seq(C) /\ base \in Buffers(C, PATH_MAX)
  BY <1>0, OneSlash
<1>2. PICK st, ab : /\ Scans(st, path, {SLASH}) /\ Follows(ab, st, base, path, PATH_MAX)
                    /\ \A i \in 0 .. (Len(path) + 1) : ab[i] \in Buffers(C, PATH_MAX)
                    /\ relative_to_absolute(base, path, PATH_MAX) = ab[Len(path) + 1]
  BY <1>1, RelSteps
<1>3. PICK n \in Nat, N \in Nat : n = Len(path) + 1 /\ N = Len(Names(path))
  BY <1>1, NamesType
<1>4. PICK w : w = Walk(from, path)
  OBVIOUS
<1>5. /\ w[0] = From(from, path)
      /\ \A k \in 1 .. N : w[k] = Turn(w[k - 1], Names(path)[k])
      /\ \A k \in 0 .. N : w[k] \in Seq(Name)
  BY <1>3, <1>4, WalkSteps
<1>6. \A k \in 0 .. N : Len(PathOf(w[k])) < PATH_MAX
  BY <1>3, <1>4 DEF Fits
<1>7. PICK S : S = {SLASH}
  OBVIOUS
<1>8. PICK T : T = {m \in Nat : m <= n => ab[m] = PathOf(w[Rank(path, S, st[m])])}
  OBVIOUS
<1>9. 0 \in T
  <2>1. st[0] = 1 /\ Rank(path, S, 1) = 0
    BY <1>1, <1>2, FieldsLen DEF Scans
  <2>2. ab[0] = Begin(base, path)
    BY <1>2 DEF Follows
  <2>3. Begin(base, path) = PathOf(From(from, path))
    <3>1. PathOf(<<>>) = <<SLASH>>
      <4>1. PICK e : e = <<>>
        OBVIOUS
      <4>2. PathOf(e) = <<SLASH>>
        BY <4>1 DEF PathOf
      <4> QED
        BY <4>1, <4>2
    <3> QED
      BY <3>1 DEF Begin, From
  <2> QED
    BY <1>5, <1>8, <2>1, <2>2, <2>3
<1>10. ASSUME NEW m \in Nat, m \in T PROVE m + 1 \in T
  <2> SUFFICES ASSUME m + 1 <= n PROVE ab[m + 1] = PathOf(w[Rank(path, S, st[m + 1])])
    BY <1>8
  <2>1. ab[m] = PathOf(w[Rank(path, S, st[m])])
    BY <1>8, <1>10
  <2>2. PICK i \in 1 .. (Len(path) + 1) : i = m + 1 /\ i - 1 = m /\ m \in 0 .. (Len(path) + 1)
    BY <1>3
  <2>3. PICK a \in Nat : /\ a = st[m] /\ 1 <= a /\ a <= i
                         /\ Meets(path, S, a, st[i], i)
    <3>1. st[i - 1] \in Nat /\ 1 <= st[i - 1] /\ st[i - 1] <= i
      BY <1>1, <1>2, ScanPieces
    <3>2. Meets(path, S, st[i - 1], st[i], i)
      BY <1>1, <1>2, <1>7, ScanStep
    <3> QED
      BY <2>2, <3>1, <3>2
  <2>4. PICK r \in Nat : r = Rank(path, S, a)
    BY <1>1, <2>3, StartsFinite
  <2>5. ab[i] = IF Breaks(path, i) /\ i > a THEN Step(ab[m], SubSeq(path, a, i - 1), PATH_MAX) ELSE ab[m]
    BY <1>2, <2>2, <2>3 DEF Follows
  <2>6. (Breaks(path, i) /\ i > a) <=> Completes(path, S, a, i)
    BY <1>7 DEF Breaks, Completes, Ends
  <2>7. CASE ~Completes(path, S, a, i)
    <3>1. ab[i] = ab[m]
      BY <2>5, <2>6, <2>7
    <3>2. Rank(path, S, st[i]) = Rank(path, S, a)
      BY <2>3, <2>7 DEF Meets
    <3> QED
      BY <2>1, <2>2, <2>3, <3>1, <3>2
  <2>8. CASE Completes(path, S, a, i)
    <3>1. PICK x : x = SubSeq(path, a, i - 1)
      OBVIOUS
    <3>2. ab[i] = Step(ab[m], x, PATH_MAX)
      BY <2>5, <2>6, <2>8, <3>1
    <3>3. /\ Rank(path, S, st[i]) = r + 1 /\ r + 1 \in DOMAIN Names(path)
          /\ Names(path)[r + 1] = x
      BY <1>7, <2>3, <2>4, <2>8, <3>1 DEF Meets, Names
    <3>4. PICK k \in 1 .. N : k = r + 1 /\ k - 1 = r /\ k \in 0 .. N /\ r \in 0 .. N
      BY <1>3, <3>3, NamesType
    <3>5. PICK at \in Seq(Name), bt \in Seq(Name) : at = w[r] /\ bt = w[k]
      BY <1>5, <3>4
    <3>6. x \in Name
      BY <1>3, <3>3, <3>4, NamesType
    <3>7. bt = Turn(at, x)
      BY <1>5, <3>3, <3>4, <3>5
    <3>8. ab[m] = PathOf(at)
      BY <2>1, <2>3, <2>4, <3>5
    <3>9. Len(PathOf(bt)) < PATH_MAX /\ Len(PathOf(at)) < PATH_MAX
      BY <1>6, <3>4, <3>5
    <3>10. Step(PathOf(at), x, PATH_MAX) = PathOf(bt)
      <4>1. CASE x = DOT
        <5>1. bt = at
          BY <3>7, <4>1 DEF Turn, DOT, DOTDOT
        <5>2. Step(PathOf(at), x, PATH_MAX) = PathOf(at)
          BY <4>1 DEF Step, DOT, DOTDOT
        <5> QED
          BY <5>1, <5>2
      <4>2. CASE x # DOT /\ x = DOTDOT
        <5>1. bt = SubSeq(at, 1, Max({0, Len(at) - 1}))
          BY <3>7, <4>2 DEF Turn
        <5>2. RemoveLast(PathOf(at)) = PathOf(bt)
          BY <5>1, PathShrinks
        <5> QED
          BY <4>2, <5>2 DEF Step
      <4>3. CASE x # DOT /\ x # DOTDOT
        <5>1. bt = Append(at, x)
          BY <3>7, <4>3 DEF Turn
        <5>2. Longer(PathOf(at), x) = PathOf(bt)
          BY <3>6, <5>1, PathGrows
        <5>3. PathOf(at) \in Seq(C) /\ x \in Seq(C)
          BY <1>0, <3>6, PathEnd, NameType
        <5>4. AddName(PathOf(at), x, PATH_MAX) = PathOf(bt)
          <6>1. PICK u, v : u = PathOf(at) /\ v = PathOf(bt)
            OBVIOUS
          <6>2. u \in Seq(C) /\ v = Longer(u, x) /\ Len(u) < PATH_MAX /\ Len(v) < PATH_MAX
            BY <3>9, <5>2, <5>3, <6>1
          <6>3. PATH_MAX >= 1
            OBVIOUS
          <6>4. AddName(u, x, PATH_MAX) = v
            BY <1>1, <5>3, <6>2, <6>3, AddNameIs
          <6> QED
            BY <6>1, <6>4
        <5> QED
          BY <4>3, <5>4 DEF Step
      <4> QED
        BY <4>1, <4>2, <4>3
    <3> QED
      BY <2>2, <3>2, <3>3, <3>4, <3>5, <3>8, <3>10
  <2> QED
    BY <2>7, <2>8
<1>11. n \in T
  BY <1>9, <1>10, Induction
<1>12. ab[n] = PathOf(w[Rank(path, S, st[n])])
  BY <1>8, <1>11
<1>13. st[Len(path) + 1] = Len(path) + 2
  BY <1>1, <1>2, ScanPieces
<1>14. Rank(path, S, Len(path) + 2) = N
  <2>1. Len(Fields(path, S)) = Rank(path, S, Len(path) + 2)
    BY <1>1, FieldsLen
  <2> QED
    BY <1>3, <1>7, <2>1 DEF Names
<1>15. N \in 0 .. N
  OBVIOUS
<1>16. Destination(from, path) = w[N]
  BY <1>3, <1>4 DEF Destination
<1> QED
  BY <1>2, <1>3, <1>5, <1>12, <1>13, <1>14, <1>15, <1>16

(***************************************************************************)
(* The tree of the host.                                                   *)
(***************************************************************************)
Distinct(s) == \A i, j \in DOMAIN s : s[i] = s[j] => i = j

Selects(f, names, kept) ==
    /\ \A k \in 1 .. Len(f) : \E i \in kept : f[k] = names[i]
    /\ \A i \in kept : \E k \in 1 .. Len(f) : f[k] = names[i]

(* The listing selects the kept names, each once.                          *)
LEMMA SelectIs ==
    ASSUME NEW W, NEW names \in Seq(W), Distinct(names), NEW kept \in SUBSET DOMAIN names,
           NEW f, f = [k \in 1 .. Cardinality(kept) |-> names[Nth(kept, k)]]
    PROVE  f \in Seq(W) /\ Distinct(f) /\ Selects(f, names, kept)
<1>1. PICK N \in Nat : N = Len(names) /\ DOMAIN names = 1 .. N
  OBVIOUS
<1>2. kept \in SUBSET (1 .. N) /\ kept \in SUBSET Nat
  BY <1>1
<1>3. IsFiniteSet(kept)
  <2>1. IsFiniteSet(1 .. N)
    BY FS_Interval
  <2> QED
    BY <1>2, <2>1, FS_Subset
<1>4. PICK c \in Nat : c = Cardinality(kept)
  BY <1>3, FS_CardinalityType
<1>5. \A k \in 1 .. c : \E i \in kept : Cardinality(Below(kept, i)) = k - 1 /\ Nth(kept, k) = i
  BY <1>2, <1>4, NthExists
<1>6. DOMAIN f = 1 .. c /\ \A k \in 1 .. c : f[k] = names[Nth(kept, k)]
  BY <1>4, Zenon
<1>10. \A k \in 1 .. c : \E i \in kept : f[k] = names[i]
  BY <1>5, <1>6, Zenon
<1>7. ASSUME NEW k \in 1 .. c PROVE f[k] \in W
  <2>1. PICK i \in kept : f[k] = names[i]
    BY <1>10
  <2>2. names[i] \in W
    OBVIOUS
  <2> QED
    BY <2>1, <2>2
<1>8. f \in [1 .. c -> W]
  <2>1. f = [k \in 1 .. c |-> f[k]]
    BY <1>4, <1>6, Zenon
  <2> QED
    BY <1>7, <2>1
<1>9. f \in Seq(W) /\ Len(f) = c
  <2>1. PICK g \in [1 .. c -> W] : g = f
    BY <1>8
  <2>2. g \in Seq(W) /\ Len(g) = c
    OBVIOUS
  <2> QED
    BY <2>1, <2>2
<1>11. ASSUME NEW i \in kept PROVE \E k \in 1 .. c : f[k] = names[i]
  <2>1. IsFiniteSet(Below(kept, i)) /\ Cardinality(Below(kept, i)) \in Nat
    BY <1>3, FS_Subset, FS_CardinalityType DEF Below
  <2>2. PICK n \in Nat : n = Cardinality(Below(kept, i))
    BY <2>1
  <2>3. Nth(kept, n + 1) = i
    BY <1>2, <1>3, <2>2, NthIs
  <2>4. n + 1 <= c
    <3>1. i \notin Below(kept, i) /\ Below(kept, i) \cup {i} \in SUBSET kept
      BY <1>2 DEF Below
    <3>2. Cardinality(Below(kept, i) \cup {i}) = n + 1
      BY <2>1, <2>2, <3>1, FS_AddElement
    <3> QED
      BY <1>3, <1>4, <3>1, <3>2, FS_Subset
  <2>5. n + 1 \in 1 .. c
    BY <2>4
  <2> QED
    BY <1>6, <2>3, <2>5
<1>12. ASSUME NEW k \in 1 .. c, NEW m \in 1 .. c, f[k] = f[m] PROVE k = m
  <2>1. PICK i \in kept : Cardinality(Below(kept, i)) = k - 1 /\ Nth(kept, k) = i
    BY <1>5
  <2>2. PICK j \in kept : Cardinality(Below(kept, j)) = m - 1 /\ Nth(kept, m) = j
    BY <1>5
  <2>3. names[i] = names[j]
    BY <1>6, <1>12, <2>1, <2>2
  <2>4. i = j
    BY <2>3 DEF Distinct
  <2> QED
    BY <2>1, <2>2, <2>4
<1>13. Distinct(f)
  BY <1>6, <1>12, ZenonT(60) DEF Distinct
<1>14. Selects(f, names, kept)
  BY <1>9, <1>10, <1>11 DEF Selects
<1> QED
  BY <1>9, <1>13, <1>14

(* Equal sequences have equal last items and equal rests.                  *)
LEMMA AppendSame ==
    ASSUME NEW W, NEW a \in Seq(W), NEW b \in Seq(W), NEW x \in W, NEW y \in W,
           Append(a, x) = Append(b, y)
    PROVE  a = b /\ x = y
<1>1. PICK m, n \in Nat : m = Len(a) /\ n = Len(b)
  OBVIOUS
<1>2. PICK u : u = Append(a, x) /\ u = Append(b, y)
  OBVIOUS
<1>3. Len(u) = m + 1 /\ u[m + 1] = x /\ \A i \in 1 .. m : u[i] = a[i]
  BY <1>1, <1>2
<1>4. Len(u) = n + 1 /\ u[n + 1] = y /\ \A i \in 1 .. n : u[i] = b[i]
  BY <1>1, <1>2
<1>5. m = n
  BY <1>3, <1>4
<1>6. x = y
  BY <1>3, <1>4, <1>5
<1>7. \A i \in 1 .. Len(a) : a[i] = b[i]
  BY <1>1, <1>3, <1>4, <1>5
<1>8. Len(a) = Len(b)
  BY <1>1, <1>5
<1>9. a = b
  BY <1>7, <1>8, SameText
<1> QED
  BY <1>6, <1>9

(* What Append is.                                                         *)
LEMMA AppendIs ==
    ASSUME NEW W, NEW a \in Seq(W), NEW x \in W, NEW u, u = Append(a, x)
    PROVE  /\ u \in Seq(W) /\ u # <<>> /\ Len(u) = Len(a) + 1 /\ Len(a) \in Nat
           /\ DOMAIN u = 1 .. (Len(a) + 1) /\ DOMAIN a = 1 .. Len(a)
           /\ u[Len(a) + 1] = x /\ \A i \in 1 .. Len(a) : u[i] = a[i]
OBVIOUS

(* A place that is a directory.                                            *)
IsDir(at) == at \in Places /\ host[at].type = "dir"

(* What is known of a directory's listing.                                 *)
Lists(at, names) ==
    /\ names \in Seq(Name) /\ Distinct(names)
    /\ \A i \in 1 .. Len(names) : Append(at, names[i]) \in Places
    /\ \A n \in Name : Append(at, n) \in Places => \E i \in 1 .. Len(names) : names[i] = n

(* What is known of a place.                                               *)
LEMMA PlaceIs ==
    ASSUME IsTree(host), NEW at \in Places
    PROVE  /\ at \in Seq(Name) /\ at \in DOMAIN host /\ \A k \in DOMAIN at : ~ignore_file(at[k])
           /\ host[at].type \in {"file", "dir"}
           /\ host[at].type = "file" => host[at].bytes \in Seq(STRING)
           /\ host[at].type = "dir" => host[at].names \in Seq(Name) /\ Distinct(host[at].names)
<1>1. at \in DOMAIN host /\ \A k \in DOMAIN at : ~ignore_file(at[k])
  BY DEF Places
<1>2. at \in Seq(Name) /\ IsNode(host[at])
  BY <1>1 DEF IsTree
<1> QED
  BY <1>1, <1>2 DEF IsNode, Distinct

(* The root is a directory.                                                *)
LEMMA RootPlace ==
    ASSUME IsTree(host)
    PROVE  IsDir(<<>>)
<1>1. PICK e : e = <<>>
  OBVIOUS
<1>2. e \in DOMAIN host /\ host[e].type = "dir"
  BY <1>1 DEF IsTree
<1>3. \A k \in DOMAIN e : ~ignore_file(e[k])
  BY <1>1
<1>4. IsDir(e)
  BY <1>2, <1>3 DEF IsDir, Places
<1> QED
  BY <1>1, <1>4

(* What lies below a directory is what it lists.                           *)
LEMMA PlaceBelow ==
    ASSUME IsTree(host), NEW at \in Seq(Name), NEW name \in Name
    PROVE  /\ Append(at, name) \in Places =>
                /\ IsDir(at) /\ ~ignore_file(name)
                /\ \E i \in DOMAIN host[at].names : host[at].names[i] = name
           /\ \A i \in DOMAIN host[at].names :
                IsDir(at) /\ host[at].names[i] = name /\ ~ignore_file(name) => Append(at, name) \in Places
<1>1. PICK u : u = Append(at, name)
  OBVIOUS
<1>2. /\ u \in Seq(Name) /\ u # <<>> /\ Len(u) = Len(at) + 1 /\ Len(at) \in Nat
      /\ DOMAIN u = 1 .. (Len(at) + 1) /\ DOMAIN at = 1 .. Len(at)
      /\ u[Len(at) + 1] = name /\ \A i \in 1 .. Len(at) : u[i] = at[i]
  BY <1>1, AppendIs
<1>3. (\A k \in DOMAIN u : ~ignore_file(u[k])) <=>
         (\A k \in DOMAIN at : ~ignore_file(at[k])) /\ ~ignore_file(name)
  <2>1. \A k \in 1 .. (Len(at) + 1) : k \in 1 .. Len(at) \/ k = Len(at) + 1
    BY <1>2
  <2>2. (Len(at) + 1) \in 1 .. (Len(at) + 1) /\ \A k \in 1 .. Len(at) : k \in 1 .. (Len(at) + 1)
    BY <1>2
  <2> QED
    BY <1>2, <2>1, <2>2
<1>4. ASSUME u \in Places
      PROVE  /\ IsDir(at) /\ ~ignore_file(name)
             /\ \E i \in DOMAIN host[at].names : host[at].names[i] = name
  <2>1. u \in DOMAIN host /\ \A k \in DOMAIN u : ~ignore_file(u[k])
    BY <1>4 DEF Places
  <2>0. PICK up \in {a \in DOMAIN host : host[a].type = "dir"} :
              \E i \in DOMAIN host[up].names : u = Append(up, host[up].names[i])
    BY <1>2, <2>1 DEF IsTree
  <2>2. PICK i \in DOMAIN host[up].names :
           up \in DOMAIN host /\ host[up].type = "dir" /\ u = Append(up, host[up].names[i])
    BY <2>0
  <2>3. up \in Seq(Name) /\ host[up].names \in Seq(Name)
    <3>1. up \in Seq(Name) /\ IsNode(host[up])
      BY <2>2 DEF IsTree
    <3> QED
      BY <2>2, <3>1 DEF IsNode
  <2>4. PICK n \in Name : n = host[up].names[i]
    BY <2>2, <2>3
  <2>5. Append(at, name) = Append(up, n)
    BY <1>1, <2>2, <2>4
  <2>6. at = up /\ name = n
    BY <2>3, <2>5, AppendSame
  <2>7. at \in Places
    BY <1>3, <2>1, <2>2, <2>6 DEF Places
  <2>8. ~ignore_file(name)
    BY <1>3, <2>1
  <2> QED
    BY <2>2, <2>4, <2>6, <2>7, <2>8 DEF IsDir
<1>5. ASSUME NEW i \in DOMAIN host[at].names, IsDir(at), host[at].names[i] = name, ~ignore_file(name)
      PROVE  u \in Places
  <2>1. at \in DOMAIN host /\ host[at].type = "dir" /\ \A k \in DOMAIN at : ~ignore_file(at[k])
    BY <1>5 DEF IsDir, Places
  <2>2. name \notin {DOT, DOTDOT}
    BY <1>5 DEF ignore_file
  <2>3. u \in DOMAIN host
    BY <1>1, <1>5, <2>1, <2>2 DEF IsTree
  <2> QED
    BY <1>3, <1>5, <2>1, <2>3 DEF Places
<1> QED
  BY <1>1, <1>4, <1>5

(* The listing of a directory.                                             *)
LEMMA ListingIs ==
    ASSUME IsTree(host), NEW at, IsDir(at)
    PROVE  Lists(at, listing(at))
<1>1. PICK names : names = host[at].names
  OBVIOUS
<1>2. PICK kept : kept = {i \in DOMAIN names : ~ignore_file(names[i])}
  OBVIOUS
<1>3. at \in Seq(Name) /\ names \in Seq(Name) /\ Distinct(names)
  BY <1>1, PlaceIs DEF IsDir
<1>4. kept \in SUBSET DOMAIN names
  BY <1>2
<1>5. PICK f : f = [k \in 1 .. Cardinality(kept) |-> names[Nth(kept, k)]]
  OBVIOUS
<1>6. f = listing(at)
  BY <1>1, <1>2, <1>5 DEF listing
<1>7. f \in Seq(Name) /\ Distinct(f) /\ Selects(f, names, kept)
  BY <1>3, <1>4, <1>5, SelectIs
<1>8. ASSUME NEW i \in 1 .. Len(f) PROVE Append(at, f[i]) \in Places
  <2>1. PICK j \in kept : f[i] = names[j]
    BY <1>7 DEF Selects
  <2>2. j \in DOMAIN names /\ ~ignore_file(names[j]) /\ names[j] \in Name
    BY <1>2, <1>3
  <2>3. PICK n \in Name : n = names[j]
    BY <2>2
  <2>4. Append(at, n) \in Places
    BY <1>1, <1>3, <2>2, <2>3, PlaceBelow
  <2> QED
    BY <2>1, <2>3, <2>4
<1>9. ASSUME NEW n \in Name, Append(at, n) \in Places PROVE \E i \in 1 .. Len(f) : f[i] = n
  <2>1. ~ignore_file(n) /\ \E i \in DOMAIN names : names[i] = n
    BY <1>1, <1>3, <1>9, PlaceBelow
  <2>2. PICK i \in DOMAIN names : names[i] = n
    BY <2>1
  <2>3. i \in kept
    BY <1>2, <2>1, <2>2
  <2> QED
    BY <1>7, <2>2, <2>3 DEF Selects
<1> QED
  BY <1>6, <1>7, <1>8, <1>9 DEF Lists

(***************************************************************************)
(* The image under construction.  loc gives the location of every place    *)
(* that has one already.                                                   *)
(***************************************************************************)
(* The cells of the image, and the calls of process_dir.                   *)
Entry == [name : Name \cup {ROOT}, type : {"file", "dir"}, location : Nat, size : Nat]
Cells == Entry \cup [count : Nat] \cup [byte : STRING]
Frames == [path : Seq(Name), diroffset : Nat, entries : Seq(Entry), i : Nat]

Kid(at, i) == Append(at, listing(at)[i])

(* The entry of the i-th name of a directory, with a location.             *)
EntryAt(at, i, l) ==
    [name |-> listing(at)[i], type |-> host[Kid(at, i)].type, location |-> l,
     size |-> IF host[Kid(at, i)].type = "file" THEN Len(host[Kid(at, i)].bytes) ELSE 0]

(* The number of cells of a place.                                         *)
Extent(at) == Len(Content(at)) + IF host[at].type = "file" THEN 0 ELSE 1

(* A file, and a directory with the right locations, is in the image.      *)
FileStored(o, at, l) ==
    \A i \in 1 .. Len(host[at].bytes) : o[l + i] = [byte |-> host[at].bytes[i]]

DirStored(o, at, loc) ==
    /\ o[loc[at] + 1] = [count |-> Len(listing(at))]
    /\ \A i \in 1 .. Len(listing(at)) :
         /\ Kid(at, i) \in DOMAIN loc
         /\ o[loc[at] + 1 + i] = EntryAt(at, i, loc[Kid(at, i)])

Apart(loc, a, b) == loc[a] + Extent(a) <= loc[b] \/ loc[b] + Extent(b) <= loc[a]

Covers(loc, a, c) == loc[a] <= c /\ c < loc[a] + Extent(a)

(* The n cells so far are those of the places with a location, apart from  *)
(* each other and without a gap.                                           *)
Placed(loc, n) ==
    /\ DOMAIN loc \in SUBSET Places
    /\ <<>> \in DOMAIN loc /\ loc[<<>>] = 1
    /\ \A a \in DOMAIN loc : loc[a] \in Nat /\ loc[a] >= 1 /\ loc[a] + Extent(a) <= n
    /\ \A a, b \in DOMAIN loc : a # b => Apart(loc, a, b)
    /\ \A c \in 1 .. (n - 1) : \E a \in DOMAIN loc : Covers(loc, a, c)
    /\ \A a \in Seq(Name), x \in Name : Append(a, x) \in DOMAIN loc => a \in DOMAIN loc

(* A call of process_dir: the entries before f.i have their locations.     *)
FrameOK(f, loc) ==
    LET names == listing(f.path) IN
    /\ IsDir(f.path) /\ f.path \in DOMAIN loc /\ f.diroffset = loc[f.path]
    /\ 1 <= f.i /\ f.i <= Len(names) + 1 /\ Len(f.entries) = Len(names)
    /\ \A j \in 1 .. Len(names) :
         IF j < f.i
         THEN /\ Kid(f.path, j) \in DOMAIN loc
              /\ f.entries[j] = EntryAt(f.path, j, loc[Kid(f.path, j)])
         ELSE Kid(f.path, j) \notin DOMAIN loc /\ f.entries[j] = EntryAt(f.path, j, 0)

(* How many cells a place takes.                                           *)
LEMMA ExtentIs ==
    ASSUME IsTree(host), NEW at \in Places
    PROVE  /\ Extent(at) \in Nat /\ Len(Content(at)) \in Nat
           /\ host[at].type = "file" => Extent(at) = Len(host[at].bytes) /\ host[at].bytes \in Seq(STRING)
           /\ host[at].type = "dir" => /\ IsDir(at) /\ Extent(at) = Len(listing(at)) + 1
                                       /\ Lists(at, listing(at)) /\ Len(listing(at)) \in Nat
<1>1. CASE host[at].type = "file"
  <2>1. host[at].bytes \in Seq(STRING) /\ Len(host[at].bytes) \in Nat
    BY <1>1, PlaceIs
  <2> QED
    BY <1>1, <2>1 DEF Extent, Content
<1>2. CASE host[at].type = "dir"
  <2>1. IsDir(at)
    BY <1>2 DEF IsDir
  <2>2. Lists(at, listing(at))
    BY <2>1, ListingIs
  <2>3. PICK f : f = listing(at) /\ f \in Seq(Name)
    BY <2>2 DEF Lists
  <2>4. Len(f) \in Nat
    BY <2>3
  <2> QED
    BY <1>2, <2>1, <2>2, <2>3, <2>4 DEF Extent, Content
<1> QED
  BY <1>1, <1>2, PlaceIs

(* An entry of a directory is a place.                                     *)
LEMMA KidIs ==
    ASSUME IsTree(host), NEW at, IsDir(at), NEW i \in 1 .. Len(listing(at))
    PROVE  /\ at \in Seq(Name) /\ listing(at)[i] \in Name /\ Kid(at, i) \in Places
           /\ Kid(at, i) = Append(at, listing(at)[i]) /\ Kid(at, i) \in Seq(Name)
           /\ \A l \in Nat : EntryAt(at, i, l) \in Entry
<1>1. PICK names : names = listing(at) /\ Lists(at, names)
  BY ListingIs
<1>2. at \in Seq(Name)
  BY PlaceIs DEF IsDir
<1>3. names[i] \in Name /\ Append(at, names[i]) \in Places
  BY <1>1 DEF Lists
<1>4. PICK kid \in Places : kid = Kid(at, i) /\ kid = Append(at, listing(at)[i])
  BY <1>1, <1>3 DEF Kid
<1>5. host[kid].type \in {"file", "dir"} /\ kid \in Seq(Name)
      /\ (host[kid].type = "file" => Len(host[kid].bytes) \in Nat)
  BY PlaceIs
<1>6. ASSUME NEW l \in Nat PROVE EntryAt(at, i, l) \in Entry
  <2>1. PICK n \in Name, t \in {"file", "dir"} : n = listing(at)[i] /\ t = host[kid].type
    BY <1>1, <1>3, <1>5
  <2>2. PICK s \in Nat : s = IF t = "file" THEN Len(host[kid].bytes) ELSE 0
    BY <1>5, <2>1
  <2>3. EntryAt(at, i, l) = [name |-> n, type |-> t, location |-> l, size |-> s]
    BY <1>4, <2>1, <2>2 DEF EntryAt
  <2>4. [name |-> n, type |-> t, location |-> l, size |-> s] \in Entry
    BY DEF Entry
  <2> QED
    BY <2>3, <2>4
<1> QED
  BY <1>1, <1>2, <1>3, <1>4, <1>5, <1>6

(* No place is listed twice.                                               *)
LEMMA KidsDiffer ==
    ASSUME IsTree(host), NEW a, IsDir(a), NEW b, IsDir(b),
           NEW i \in 1 .. Len(listing(a)), NEW j \in 1 .. Len(listing(b)), Kid(a, i) = Kid(b, j)
    PROVE  a = b /\ i = j
<1>1. /\ a \in Seq(Name) /\ listing(a)[i] \in Name /\ Kid(a, i) = Append(a, listing(a)[i])
      /\ b \in Seq(Name) /\ listing(b)[j] \in Name /\ Kid(b, j) = Append(b, listing(b)[j])
  BY KidIs
<1>2. a = b /\ listing(a)[i] = listing(b)[j]
  <2>1. PICK x \in Name, y \in Name : x = listing(a)[i] /\ y = listing(b)[j]
    BY <1>1
  <2>2. Append(a, x) = Append(b, y)
    BY <1>1, <2>1
  <2> QED
    BY <1>1, <2>1, <2>2, AppendSame, SMTT(30)
<1>3. PICK names : names = listing(a) /\ names \in Seq(Name) /\ Distinct(names)
  BY ListingIs DEF Lists
<1>4. i \in DOMAIN names /\ j \in DOMAIN names /\ names[i] = names[j]
  BY <1>2, <1>3
<1> QED
  BY <1>2, <1>3, <1>4 DEF Distinct

(* The entries of a directory before they have locations.                  *)
LEMMA NewdirectIs ==
    ASSUME IsTree(host), NEW at, IsDir(at)
    PROVE  /\ newdirect(at) \in Seq(Entry) /\ Len(newdirect(at)) = Len(listing(at))
           /\ \A j \in 1 .. Len(listing(at)) : newdirect(at)[j] = EntryAt(at, j, 0)
<1>1. PICK names : names = listing(at) /\ names \in Seq(Name)
  BY ListingIs DEF Lists
<1>2. PICK n \in Nat : n = Len(names) /\ DOMAIN names = 1 .. n
  BY <1>1
<1>3. \A j \in 1 .. n : EntryFor(at, names[j]) = EntryAt(at, j, 0)
  BY <1>1 DEF EntryFor, EntryAt, Kid
<1>4. newdirect(at) = [j \in 1 .. n |-> EntryFor(at, names[j])]
  BY <1>1, <1>2 DEF newdirect
<1>5. PICK d : d = [j \in 1 .. n |-> EntryAt(at, j, 0)]
  OBVIOUS
<1>6. newdirect(at) = d
  BY <1>3, <1>4, <1>5
<1>7. \A j \in 1 .. n : EntryAt(at, j, 0) \in Entry
  BY <1>1, <1>2, KidIs
<1>8. d \in [1 .. n -> Entry]
  BY <1>5, <1>7
<1>9. d \in Seq(Entry) /\ Len(d) = n
  <2>1. PICK E : E = Entry
    OBVIOUS
  <2>2. d \in [1 .. n -> E]
    BY <1>8, <2>1
  <2>3. d \in Seq(E) /\ Len(d) = n
    BY <2>2
  <2> QED
    BY <2>1, <2>3
<1>10. \A j \in 1 .. n : d[j] = EntryAt(at, j, 0)
  BY <1>5
<1> QED
  BY <1>1, <1>2, <1>6, <1>9, <1>10

(* The block of a directory.                                               *)
LEMMA BlockIs ==
    ASSUME NEW entries \in Seq(Entry)
    PROVE  /\ Block(entries) \in Seq(Cells) /\ Len(Block(entries)) = Len(entries) + 1
           /\ Len(entries) \in Nat
           /\ Block(entries)[1] = [count |-> Len(entries)]
           /\ \A i \in 1 .. Len(entries) : Block(entries)[1 + i] = entries[i]
<1>1. PICK n \in Nat : n = Len(entries)
  OBVIOUS
<1>2. PICK E, C : E = Entry /\ C = Cells
  OBVIOUS
<1>3. E \in SUBSET C /\ [count |-> n] \in C
  BY <1>2 DEF Cells
<1>4. PICK c \in C : c = [count |-> n]
  BY <1>3
<1>5. PICK s : s = <<c>>
  OBVIOUS
<1>6. s \in Seq(C) /\ Len(s) = 1 /\ s[1] = c
  BY <1>5, OneCell
<1>7. entries \in Seq(C)
  <2>1. entries \in [1 .. n -> E]
    BY <1>1, <1>2
  <2>2. entries \in [1 .. n -> C]
    BY <1>3, <2>1
  <2> QED
    BY <2>2
<1>8. PICK b : b = s \o entries
  OBVIOUS
<1>9. b \in Seq(C) /\ Concat(b, s, entries)
  BY <1>6, <1>7, <1>8, Concatenated
<1>10. Block(entries) = b
  BY <1>1, <1>4, <1>5, <1>8 DEF Block
<1>11. Len(b) = 1 + n /\ \A i \in 1 .. n : b[1 + i] = entries[i]
  BY <1>1, <1>6, <1>9 DEF Concat
<1>12. b[1] = c
  <2>1. 1 \in 1 .. Len(s)
    BY <1>6
  <2> QED
    BY <1>6, <1>9, <2>1 DEF Concat
<1> QED
  BY <1>1, <1>2, <1>4, <1>9, <1>10, <1>11, <1>12

(* The cells of a file.                                                    *)
LEMMA BytesIs ==
    ASSUME IsTree(host), NEW at \in Places, host[at].type = "file"
    PROVE  /\ Bytes(at) \in Seq(Cells) /\ Len(Bytes(at)) = Extent(at)
           /\ \A i \in 1 .. Len(host[at].bytes) : Bytes(at)[i] = [byte |-> host[at].bytes[i]]
<1>1. PICK s, C, X : s = host[at].bytes /\ C = Cells /\ X = STRING
  OBVIOUS
<1>2. s \in Seq(X) /\ Extent(at) = Len(s)
  BY <1>1, ExtentIs
<1>3. PICK n \in Nat : n = Len(s) /\ DOMAIN s = 1 .. n /\ \A i \in 1 .. n : s[i] \in X
  BY <1>2
<1>4. \A i \in 1 .. n : [byte |-> s[i]] \in C
  <2>1. \A x \in STRING : [byte |-> x] \in C
    BY <1>1 DEF Cells
  <2> QED
    BY <1>1, <1>3, <2>1
<1>5. PICK b : b = [i \in 1 .. n |-> [byte |-> s[i]]]
  OBVIOUS
<1>6. b \in [1 .. n -> C] /\ \A i \in 1 .. n : b[i] = [byte |-> s[i]]
  BY <1>4, <1>5
<1>7. b \in Seq(C) /\ Len(b) = n
  BY <1>6
<1>8. Bytes(at) = b
  BY <1>1, <1>3, <1>5 DEF Bytes
<1> QED
  BY <1>1, <1>2, <1>3, <1>6, <1>7, <1>8

(***************************************************************************)
(* A place is laid out at the end of the image.                            *)
(***************************************************************************)
(* A place is given the location l.                                        *)
With(loc, at, l) == [a \in DOMAIN loc \cup {at} |-> IF a = at THEN l ELSE loc[a]]

Widens(loc2, loc, at, l) ==
    /\ DOMAIN loc2 = DOMAIN loc \cup {at} /\ loc2[at] = l
    /\ \A a \in DOMAIN loc : loc2[a] = loc[a] /\ a # at

(* One more place has a location.                                          *)
LEMMA WithIs ==
    ASSUME NEW loc, NEW at, at \notin DOMAIN loc, NEW l, NEW loc2, loc2 = With(loc, at, l)
    PROVE  Widens(loc2, loc, at, l)
<1>1. loc2 = [a \in DOMAIN loc \cup {at} |-> IF a = at THEN l ELSE loc[a]]
  BY DEF With
<1>2. DOMAIN loc2 = DOMAIN loc \cup {at}
  BY <1>1
<1>3. \A a \in DOMAIN loc \cup {at} : loc2[a] = IF a = at THEN l ELSE loc[a]
  BY <1>1
<1> QED
  BY <1>2, <1>3 DEF Widens

(* A place laid out at the end keeps the areas apart and without gaps.     *)
LEMMA PlacedGrows ==
    ASSUME IsTree(host), NEW loc, NEW n \in Nat, Placed(loc, n), n >= 1,
           NEW up \in Seq(Name), NEW x \in Name, NEW kid, kid = Append(up, x), kid \in Places,
           up \in DOMAIN loc, kid \notin DOMAIN loc,
           NEW loc2, loc2 = With(loc, kid, n)
    PROVE  Placed(loc2, n + Extent(kid))
<1>0. PICK e \in Nat : e = Extent(kid)
  BY ExtentIs
<1>1. PICK D : D = DOMAIN loc /\ e = Extent(kid)
  BY <1>0
<1>2. DOMAIN loc2 = D \cup {kid} /\ loc2[kid] = n /\ \A a \in D : loc2[a] = loc[a] /\ a # kid
  <2>1. Widens(loc2, loc, kid, n)
    BY WithIs
  <2> QED
    BY <1>1, <2>1 DEF Widens
<1>3. D \in SUBSET Places /\ \A a \in D : Extent(a) \in Nat
  BY <1>1, ExtentIs DEF Placed
<1>4. DOMAIN loc2 \in SUBSET Places
  BY <1>2, <1>3
<1>5. <<>> \in DOMAIN loc2 /\ loc2[<<>>] = 1
  <2>1. <<>> \in D /\ loc[<<>>] = 1
    BY <1>1 DEF Placed
  <2> QED
    BY <1>2, <2>1
<1>6. \A a \in D : loc[a] \in Nat /\ loc[a] >= 1 /\ loc[a] + Extent(a) <= n
  BY <1>1 DEF Placed
<1>7. ASSUME NEW a \in DOMAIN loc2
      PROVE  loc2[a] \in Nat /\ loc2[a] >= 1 /\ loc2[a] + Extent(a) <= n + e
  <2>1. CASE a = kid
    BY <1>1, <1>2, <2>1
  <2>2. CASE a \in D
    <3>1. PICK p, q \in Nat : p = loc[a] /\ q = Extent(a) /\ p >= 1 /\ p + q <= n
      BY <1>3, <1>6, <2>2
    <3>2. p + q <= n + e
      BY <3>1
    <3> QED
      BY <1>2, <2>2, <3>1, <3>2
  <2> QED
    BY <1>2, <2>1, <2>2
<1>8. ASSUME NEW a \in DOMAIN loc2, NEW b \in DOMAIN loc2, a # b PROVE Apart(loc2, a, b)
  <2>1. CASE a \in D /\ b \in D
    <3>1. Apart(loc, a, b)
      BY <1>1, <1>8, <2>1 DEF Placed
    <3> QED
      BY <1>2, <2>1, <3>1 DEF Apart
  <2>2. CASE a = kid /\ b \in D
    BY <1>2, <1>6, <2>2 DEF Apart
  <2>3. CASE b = kid /\ a \in D
    BY <1>2, <1>6, <2>3 DEF Apart
  <2> QED
    BY <1>2, <1>8, <2>1, <2>2, <2>3
<1>9. ASSUME NEW c \in 1 .. (n + e - 1) PROVE \E a \in DOMAIN loc2 : Covers(loc2, a, c)
  <2>1. CASE c <= n - 1
    <3>1. c \in 1 .. (n - 1)
      BY <2>1
    <3>2. PICK a \in D : Covers(loc, a, c)
      BY <1>1, <3>1 DEF Placed
    <3>3. Covers(loc2, a, c)
      BY <1>2, <3>2 DEF Covers
    <3> QED
      BY <1>2, <3>2, <3>3
  <2>2. CASE ~(c <= n - 1)
    <3>1. n <= c /\ c < n + e
      BY <2>2
    <3>2. Covers(loc2, kid, c)
      BY <1>1, <1>2, <3>1 DEF Covers
    <3> QED
      BY <1>2, <3>2
  <2> QED
    BY <2>1, <2>2
<1>10. ASSUME NEW a \in Seq(Name), NEW y \in Name, Append(a, y) \in DOMAIN loc2
       PROVE  a \in DOMAIN loc2
  <2>1. CASE Append(a, y) \in D
    <3>1. a \in D
      BY <1>1, <2>1 DEF Placed
    <3> QED
      BY <1>2, <3>1
  <2>2. CASE Append(a, y) = kid
    <3>1. Append(a, y) = Append(up, x)
      BY <2>2
    <3>2. a = up
      BY <3>1, AppendSame
    <3> QED
      BY <1>2, <1>1, <3>2
  <2> QED
    BY <1>2, <1>10, <2>1, <2>2
<1> QED
  BY <1>1, <1>4, <1>5, <1>7, <1>8, <1>9, <1>10, SMTT(30) DEF Placed

(* A call on the stack is not disturbed by a new location elsewhere.       *)
LEMMA FrameStays ==
    ASSUME IsTree(host), NEW loc, NEW f, FrameOK(f, loc), NEW up, IsDir(up),
           NEW i \in 1 .. Len(listing(up)), Kid(up, i) \notin DOMAIN loc, f.path # up,
           NEW l, NEW loc2, loc2 = With(loc, Kid(up, i), l)
    PROVE  FrameOK(f, loc2)
<1>1. PICK D, kid : D = DOMAIN loc /\ kid = Kid(up, i)
  OBVIOUS
<1>2. DOMAIN loc2 = D \cup {kid} /\ \A a \in D : loc2[a] = loc[a] /\ a # kid
  <2>1. Widens(loc2, loc, kid, l)
    BY <1>1, WithIs
  <2> QED
    BY <1>1, <2>1 DEF Widens
<1>3. PICK at, n : at = f.path /\ n = Len(listing(at))
  OBVIOUS
<1>4. /\ IsDir(at) /\ at \in D /\ f.diroffset = loc[at]
      /\ 1 <= f.i /\ f.i <= n + 1 /\ Len(f.entries) = n
  BY <1>1, <1>3 DEF FrameOK
<1>5. ASSUME NEW j \in 1 .. n
      PROVE  IF j < f.i
             THEN Kid(at, j) \in DOMAIN loc2 /\ f.entries[j] = EntryAt(at, j, loc2[Kid(at, j)])
             ELSE Kid(at, j) \notin DOMAIN loc2 /\ f.entries[j] = EntryAt(at, j, 0)
  <2>1. IF j < f.i
        THEN Kid(at, j) \in D /\ f.entries[j] = EntryAt(at, j, loc[Kid(at, j)])
        ELSE Kid(at, j) \notin D /\ f.entries[j] = EntryAt(at, j, 0)
    BY <1>1, <1>3 DEF FrameOK
  <2>2. Kid(at, j) # kid
    BY <1>1, <1>3, <1>4, KidsDiffer
  <2> QED
    BY <1>2, <2>1, <2>2
<1> QED
  BY <1>2, <1>3, <1>4, <1>5 DEF FrameOK

(* The record of a call after it has gone on to the next entry.            *)
LEMMA FrameFields ==
    ASSUME NEW at, NEW d, NEW es, NEW m, NEW g,
           g = [path |-> at, diroffset |-> d, entries |-> es, i |-> m]
    PROVE  g.path = at /\ g.diroffset = d /\ g.entries = es /\ g.i = m
OBVIOUS

Advanced(f, l) == [f EXCEPT !.entries[f.i].location = l, !.i = @ + 1]

(* The call that has given its entry a location.                           *)
LEMMA FrameMoves ==
    ASSUME IsTree(host), NEW loc, NEW f \in Frames, FrameOK(f, loc), f.i <= Len(f.entries),
           NEW l \in Nat, NEW loc2, loc2 = With(loc, Kid(f.path, f.i), l),
           NEW g, g = Advanced(f, l)
    PROVE  g \in Frames /\ FrameOK(g, loc2) /\ g.path = f.path
<1>1. PICK at \in Seq(Name), d \in Nat, es \in Seq(Entry), m \in Nat :
         at = f.path /\ d = f.diroffset /\ es = f.entries /\ m = f.i
  BY DEF Frames
<1>2. PICK n \in Nat : n = Len(es) /\ n = Len(listing(at)) /\ m \in 1 .. n /\ DOMAIN es = 1 .. n
  <2>1. Len(es) \in Nat /\ DOMAIN es = 1 .. Len(es)
    OBVIOUS
  <2> QED
    BY <1>1, <2>1 DEF FrameOK
<1>3. IsDir(at) /\ at \in DOMAIN loc /\ d = loc[at]
  BY <1>1 DEF FrameOK
<1>4. \A j \in 1 .. n :
         IF j < m
         THEN Kid(at, j) \in DOMAIN loc /\ es[j] = EntryAt(at, j, loc[Kid(at, j)])
         ELSE Kid(at, j) \notin DOMAIN loc /\ es[j] = EntryAt(at, j, 0)
  BY <1>1, <1>2 DEF FrameOK
<1>5. PICK kid, D : kid = Kid(at, m) /\ D = DOMAIN loc
  OBVIOUS
<1>6. kid \notin D /\ es[m] = EntryAt(at, m, 0)
  <2>1. ~(m < m)
    OBVIOUS
  <2> QED
    BY <1>2, <1>4, <1>5, <2>1
<1>7. DOMAIN loc2 = D \cup {kid} /\ loc2[kid] = l /\ \A a \in D : loc2[a] = loc[a] /\ a # kid
  <2>1. Widens(loc2, loc, kid, l)
    BY <1>1, <1>5, <1>6, WithIs
  <2> QED
    BY <1>5, <2>1 DEF Widens
<1>8. PICK es2 : es2 = [es EXCEPT ![m].location = l]
  OBVIOUS
<1>9. g = [f EXCEPT !.entries = es2, !.i = m + 1]
  BY <1>1, <1>8 DEF Advanced
<1>10. [es[m] EXCEPT !.location = l] = EntryAt(at, m, l)
  BY <1>6, SMTT(30) DEF EntryAt
<1>11. EntryAt(at, m, l) \in Entry
  BY <1>2, <1>3, KidIs
<1>12. PICK E : E = Entry
  OBVIOUS
<1>13. es2 = [es EXCEPT ![m] = EntryAt(at, m, l)]
  BY <1>8, <1>10
<1>14. /\ es2 \in Seq(E) /\ Len(es2) = n /\ es2[m] = EntryAt(at, m, l)
       /\ \A j \in 1 .. n : j # m => es2[j] = es[j]
  <2>1. PICK x \in E : x = EntryAt(at, m, l)
    BY <1>11, <1>12
  <2>2. es \in Seq(E) /\ es2 = [es EXCEPT ![m] = x]
    BY <1>12, <1>13, <2>1
  <2>3. es2 \in Seq(E) /\ Len(es2) = n /\ es2[m] = x /\ \A j \in 1 .. n : j # m => es2[j] = es[j]
    BY <1>2, <2>2
  <2> QED
    BY <2>1, <2>3
<1>15. g = [path |-> at, diroffset |-> d, entries |-> es2, i |-> m + 1]
  BY <1>1, <1>9 DEF Frames
<1>16. g \in Frames
  BY <1>12, <1>14, <1>15 DEF Frames
<1>17. g.path = at /\ g.diroffset = d /\ g.entries = es2 /\ g.i = m + 1
  <2>1. PICK q, h : q = m + 1 /\ h = [path |-> at, diroffset |-> d, entries |-> es2, i |-> q]
    OBVIOUS
  <2>2. h.path = at /\ h.diroffset = d /\ h.entries = es2 /\ h.i = q
    BY <2>1, FrameFields
  <2>3. g = h
    BY <1>15, <2>1
  <2> QED
    BY <2>1, <2>2, <2>3
<1>18. at \in DOMAIN loc2 /\ d = loc2[at]
  BY <1>3, <1>5, <1>7
<1>19. 1 <= m + 1 /\ m + 1 <= n + 1
  BY <1>2
<1>20. ASSUME NEW j \in 1 .. n
       PROVE  IF j < m + 1
              THEN Kid(at, j) \in DOMAIN loc2 /\ es2[j] = EntryAt(at, j, loc2[Kid(at, j)])
              ELSE Kid(at, j) \notin DOMAIN loc2 /\ es2[j] = EntryAt(at, j, 0)
  <2>1. CASE j = m
    <3>1. j < m + 1
      BY <1>2, <2>1
    <3> QED
      BY <1>5, <1>7, <1>14, <2>1, <3>1
  <2>2. CASE j # m
    <3>1. Kid(at, j) # kid
      BY <1>2, <1>3, <1>5, <2>2, KidsDiffer
    <3>2. j < m + 1 <=> j < m
      BY <1>2, <2>2
    <3> QED
      BY <1>4, <1>5, <1>7, <1>14, <2>2, <3>1, <3>2
  <2> QED
    BY <2>1, <2>2
<1>21. FrameOK(g, loc2)
  BY <1>2, <1>3, <1>14, <1>17, <1>18, <1>19, <1>20 DEF FrameOK
<1> QED
  BY <1>1, <1>16, <1>17, <1>21

(* A call at its start.                                                    *)
LEMMA FrameStarts ==
    ASSUME IsTree(host), NEW at, IsDir(at), NEW l \in Nat, NEW loc, at \in DOMAIN loc, loc[at] = l,
           \A i \in 1 .. Len(listing(at)) : Kid(at, i) \notin DOMAIN loc
    PROVE  Frame(at, l) \in Frames /\ FrameOK(Frame(at, l), loc) /\ Frame(at, l).path = at
<1>1. PICK es : es = newdirect(at)
  OBVIOUS
<1>2. /\ es \in Seq(Entry) /\ Len(es) = Len(listing(at))
      /\ \A j \in 1 .. Len(listing(at)) : es[j] = EntryAt(at, j, 0)
  BY <1>1, NewdirectIs
<1>3. PICK g : g = Frame(at, l) /\ g = [path |-> at, diroffset |-> l, entries |-> es, i |-> 1]
  BY <1>1 DEF Frame
<1>4. at \in Seq(Name)
  BY PlaceIs DEF IsDir
<1>5. g \in Frames /\ g.path = at /\ g.diroffset = l /\ g.entries = es /\ g.i = 1
  BY <1>2, <1>3, <1>4 DEF Frames
<1>6. PICK n \in Nat : n = Len(listing(at))
  BY ExtentIs DEF IsDir
<1>7. \A j \in 1 .. n : ~(j < 1) /\ Kid(at, j) \notin DOMAIN loc /\ es[j] = EntryAt(at, j, 0)
  BY <1>2, <1>6
<1>8. 1 <= n + 1
  BY <1>6
<1>9. FrameOK(g, loc)
  BY <1>2, <1>5, <1>6, <1>7, <1>8 DEF FrameOK
<1> QED
  BY <1>3, <1>5, <1>9

(***************************************************************************)
(* The image and the stack of calls together.                              *)
(***************************************************************************)
OnStack(s, at) == \E k \in 1 .. Len(s) : s[k].path = at

Calls(s, loc) ==
    /\ s \in Seq(Frames)
    /\ \A k \in 1 .. Len(s) : FrameOK(s[k], loc)
    /\ \A k, m \in 1 .. Len(s) : s[k].path = s[m].path => k = m

Stored(o, s, loc, at) ==
    /\ host[at].type = "file" => FileStored(o, at, loc[at])
    /\ host[at].type = "dir" => OnStack(s, at) \/ DirStored(o, at, loc)

(* The image o and the calls s of process_dir, part of the way.            *)
Laying(o, s, loc) ==
    /\ o \in Seq(Cells) /\ Len(o) >= 1 /\ o[1] = Root
    /\ Placed(loc, Len(o))
    /\ Calls(s, loc)
    /\ \A at \in DOMAIN loc : Stored(o, s, loc, at)

(* The cells of an area of e cells at location l are the same.             *)
Keeps(o2, o, l, e) == \A c \in 1 .. e : o2[l + c] = o[l + c]

(* A file stays stored where its cells are not changed.                    *)
LEMMA FileKept ==
    ASSUME IsTree(host), NEW at \in Places, host[at].type = "file", NEW o, NEW o2,
           NEW l, Keeps(o2, o, l, Extent(at)), FileStored(o, at, l)
    PROVE  FileStored(o2, at, l)
<1>1. PICK e \in Nat : e = Extent(at) /\ e = Len(host[at].bytes)
  BY ExtentIs
<1> QED
  BY <1>1 DEF FileStored, Keeps

(* So does a directory.                                                    *)
LEMMA DirKept ==
    ASSUME IsTree(host), NEW at, IsDir(at), NEW o, NEW o2, NEW loc, NEW loc2,
           loc[at] \in Nat, Keeps(o2, o, loc[at], Extent(at)), at \in DOMAIN loc,
           \A a \in DOMAIN loc : a \in DOMAIN loc2 /\ loc2[a] = loc[a],
           DirStored(o, at, loc)
    PROVE  DirStored(o2, at, loc2)
<1>1. PICK e \in Nat : Extent(at) = e + 1 /\ e = Len(listing(at))
  BY ExtentIs DEF IsDir
<1>2. PICK l \in Nat : l = loc[at] /\ l = loc2[at]
  OBVIOUS
<1>4. o2[l + 1] = o[l + 1] /\ \A i \in 1 .. e : o2[l + 1 + i] = o[l + 1 + i]
  <2>1. \A c \in 1 .. (e + 1) : o2[l + c] = o[l + c]
    BY <1>1, <1>2 DEF Keeps
  <2>2. 1 \in 1 .. (e + 1) /\ \A i \in 1 .. e : 1 + i \in 1 .. (e + 1) /\ l + (1 + i) = l + 1 + i
    OBVIOUS
  <2> QED
    BY <2>1, <2>2
<1>5. /\ o[l + 1] = [count |-> e]
      /\ \A i \in 1 .. e : Kid(at, i) \in DOMAIN loc /\ o[l + 1 + i] = EntryAt(at, i, loc[Kid(at, i)])
  BY <1>1, <1>2 DEF DirStored
<1>6. o2[l + 1] = [count |-> e]
  BY <1>4, <1>5
<1>7. ASSUME NEW i \in 1 .. e
      PROVE  Kid(at, i) \in DOMAIN loc2 /\ o2[l + 1 + i] = EntryAt(at, i, loc2[Kid(at, i)])
  BY <1>4, <1>5
<1> QED
  BY <1>1, <1>2, <1>6, <1>7 DEF DirStored

Grown(o, s, loc, f, kid, loc2, more, o2, g) ==
    /\ o2 \in Seq(Cells) /\ Len(o2) >= 1 /\ o2[1] = Root
    /\ Placed(loc2, Len(o2)) /\ Len(o) \in Nat
    /\ \A i \in 1 .. Extent(kid) : o2[Len(o) + i] = more[i]
    /\ kid \notin DOMAIN loc /\ Widens(loc2, loc, kid, Len(o))
    /\ g \in Frames /\ FrameOK(g, loc2) /\ g.path = f.path
    /\ \A k \in 1 .. (Len(s) - 1) : FrameOK(s[k], loc2) /\ s[k].path # f.path
    /\ \A at \in DOMAIN loc : host[at].type = "file" => FileStored(o2, at, loc2[at])
    /\ \A at \in DOMAIN loc : IsDir(at) /\ DirStored(o, at, loc) => DirStored(o2, at, loc2)

(* What process_file and process_dir have in common.                       *)
LEMMA Grows ==
    ASSUME IsTree(host), NEW o, NEW s, NEW loc, Laying(o, s, loc), NEW n \in Nat, n = Len(s), n >= 1,
           NEW f, f = s[n], f.i <= Len(f.entries), NEW kid, kid = Kid(f.path, f.i),
           NEW l, l = Len(o), NEW loc2, loc2 = With(loc, kid, l),
           NEW more \in Seq(Cells), Len(more) = Extent(kid), NEW o2, o2 = o \o more,
           NEW g, g = Advanced(f, l)
    PROVE  kid \in Places /\ Grown(o, s, loc, f, kid, loc2, more, o2, g)
<1>1. /\ o \in Seq(Cells) /\ l >= 1 /\ o[1] = Root /\ Placed(loc, l)
      /\ s \in Seq(Frames) /\ \A at \in DOMAIN loc : Stored(o, s, loc, at)
  BY DEF Laying, Calls
<1>2. /\ \A k \in 1 .. n : FrameOK(s[k], loc)
      /\ \A k, m \in 1 .. n : s[k].path = s[m].path => k = m
  BY DEF Laying, Calls
<1>3. l \in Nat
  BY <1>1
<1>4. n \in 1 .. n /\ f \in Frames /\ FrameOK(f, loc)
  BY <1>1, <1>2
<1>5. PICK up, i : up = f.path /\ i = f.i
  OBVIOUS
<1>6. IsDir(up) /\ i \in 1 .. Len(listing(up)) /\ Kid(up, i) \notin DOMAIN loc /\ up \in DOMAIN loc
  <2>1. /\ IsDir(up) /\ up \in DOMAIN loc /\ 1 <= i /\ i <= Len(f.entries)
        /\ Len(f.entries) = Len(listing(up))
    BY <1>4, <1>5 DEF FrameOK
  <2>2. i \in Nat /\ Len(listing(up)) \in Nat
    <3>1. i \in Nat
      BY <1>4, <1>5 DEF Frames
    <3> QED
      BY <2>1, <3>1, ExtentIs DEF IsDir
  <2>3. i \in 1 .. Len(listing(up)) /\ ~(i < i)
    BY <2>1, <2>2
  <2>4. Kid(up, i) \notin DOMAIN loc
    BY <1>4, <1>5, <2>3 DEF FrameOK
  <2> QED
    BY <2>1, <2>3, <2>4
<1>7. PICK x \in Name : /\ up \in Seq(Name) /\ kid \in Places /\ kid = Append(up, x)
                        /\ kid \notin DOMAIN loc
  <2>1. /\ up \in Seq(Name) /\ listing(up)[i] \in Name /\ Kid(up, i) \in Places
        /\ Kid(up, i) = Append(up, listing(up)[i])
    BY <1>6, KidIs
  <2> QED
    BY <1>5, <1>6, <2>1
<1>8. PICK e \in Nat : e = Extent(kid)
  BY <1>7, ExtentIs
<1>9. /\ o2 \in Seq(Cells) /\ Len(o2) = l + e
      /\ (\A c \in 1 .. l : o2[c] = o[c]) /\ \A c \in 1 .. e : o2[l + c] = more[c]
  <2>1. PICK C : C = Cells
    OBVIOUS
  <2>2. o2 \in Seq(C) /\ Concat(o2, o, more)
    BY <1>1, <2>1, Concatenated
  <2> QED
    BY <1>8, <2>1, <2>2 DEF Concat
<1>10. 1 \in 1 .. l /\ l + e >= 1
  BY <1>1, <1>3
<1>11. o2[1] = Root /\ Len(o2) >= 1
  BY <1>1, <1>9, <1>10
<1>12. Placed(loc2, Len(o2))
  <2>1. Placed(loc2, l + Extent(kid))
    BY <1>1, <1>3, <1>6, <1>7, PlacedGrows
  <2> QED
    BY <1>8, <1>9, <2>1
<1>13. Widens(loc2, loc, kid, l)
  BY <1>7, WithIs
<1>14. g \in Frames /\ FrameOK(g, loc2) /\ g.path = f.path
  <2>1. loc2 = With(loc, Kid(f.path, f.i), l)
    OBVIOUS
  <2> QED
    BY <1>3, <1>4, <2>1, FrameMoves
<1>15. ASSUME NEW k \in 1 .. (n - 1) PROVE FrameOK(s[k], loc2) /\ s[k].path # f.path
  <2>1. k \in 1 .. n /\ k # n
    OBVIOUS
  <2>2. s[k].path # f.path
    BY <1>2, <1>4, <2>1
  <2>3. PICK q : q = s[k]
    OBVIOUS
  <2>4. FrameOK(q, loc) /\ q.path # up
    BY <1>2, <1>5, <2>1, <2>2, <2>3
  <2>5. loc2 = With(loc, Kid(up, i), l)
    BY <1>5
  <2>6. FrameOK(q, loc2)
    BY <1>6, <2>4, <2>5, FrameStays
  <2> QED
    BY <2>2, <2>3, <2>6
<1>16. \A at \in DOMAIN loc : /\ at \in Places /\ loc[at] \in Nat /\ loc[at] >= 1
                              /\ loc[at] + Extent(at) <= l
  BY <1>1 DEF Placed
<1>17. \A at \in DOMAIN loc : at \in DOMAIN loc2 /\ loc2[at] = loc[at]
  BY <1>13 DEF Widens
<1>21. ASSUME NEW at \in DOMAIN loc PROVE Keeps(o2, o, loc[at], Extent(at))
  <2>1. PICK p, q \in Nat : p = loc[at] /\ q = Extent(at) /\ p >= 1 /\ p + q <= l
    BY <1>16, ExtentIs
  <2>2. \A c \in 1 .. q : p + c \in 1 .. l
    BY <1>3, <2>1
  <2> QED
    BY <1>9, <2>1, <2>2 DEF Keeps
<1>18. ASSUME NEW at \in DOMAIN loc, host[at].type = "file" PROVE FileStored(o2, at, loc2[at])
  <2>1. FileStored(o, at, loc[at])
    BY <1>1, <1>18 DEF Stored
  <2>2. PICK p : p = loc[at] /\ p = loc2[at]
    BY <1>17
  <2>3. FileStored(o2, at, p)
    BY <1>16, <1>18, <1>21, <2>1, <2>2, FileKept
  <2> QED
    BY <2>2, <2>3
<1>19. ASSUME NEW at \in DOMAIN loc, IsDir(at), DirStored(o, at, loc) PROVE DirStored(o2, at, loc2)
  BY <1>16, <1>17, <1>19, <1>21, DirKept
<1>20. \A c \in 1 .. Extent(kid) : o2[l + c] = more[c]
  BY <1>8, <1>9
<1> QED
  BY <1>1, <1>3, <1>7, <1>9, <1>11, <1>12, <1>13, <1>14, <1>15, <1>18, <1>19, <1>20 DEF Grown

(***************************************************************************)
(* Steps of fstool.                                                        *)
(***************************************************************************)
Popped(s) == SubSeq(s, 1, Len(s) - 1)

(* The stack without its top.                                              *)
LEMMA BelowIs ==
    ASSUME NEW F, NEW s \in Seq(F), NEW n \in Nat, n = Len(s), n >= 1, NEW r, r = Popped(s)
    PROVE  r \in Seq(F) /\ Len(r) = n - 1 /\ \A k \in 1 .. (n - 1) : r[k] = s[k]
BY DEF Popped

Pushed(r, g, h) == r \o <<g, h>>

IsPushed(u, r, g, h) ==
    /\ Len(u) = Len(r) + 2
    /\ (\A k \in 1 .. Len(r) : u[k] = r[k]) /\ u[Len(r) + 1] = g /\ u[Len(r) + 2] = h

(* A stack with two more calls.                                            *)
LEMMA TwoMore ==
    ASSUME NEW F, NEW r \in Seq(F), NEW g \in F, NEW h \in F, NEW u, u = Pushed(r, g, h)
    PROVE  u \in Seq(F) /\ IsPushed(u, r, g, h)
<1>1. PICK t : t = <<g, h>>
  OBVIOUS
<1>2. t \in Seq(F) /\ Len(t) = 2 /\ t[1] = g /\ t[2] = h
  BY <1>1
<1>3. u \in Seq(F) /\ Concat(u, r, t)
  BY <1>1, <1>2, Concatenated DEF Pushed
<1>4. 1 \in 1 .. Len(t) /\ 2 \in 1 .. Len(t)
  BY <1>2
<1> QED
  BY <1>2, <1>3, <1>4 DEF Concat, IsPushed

(* process_file keeps the image laid out.                                  *)
LEMMA FileLaid ==
    ASSUME IsTree(host), NEW o, NEW s, NEW loc, Laying(o, s, loc), s # <<>>,
           NEW f, f = s[Len(s)], f.i <= Len(f.entries), NEW kid, kid = Kid(f.path, f.i),
           host[kid].type = "file", NEW o2, o2 = o \o Bytes(kid),
           NEW s2, s2 = Append(Popped(s), Advanced(f, Len(o)))
    PROVE  s2 # <<>> /\ \E loc2 : Laying(o2, s2, loc2)
<1>1. s \in Seq(Frames)
  BY DEF Laying, Calls
<1>2. PICK n \in Nat : n = Len(s) /\ n >= 1
  BY <1>1
<1>3. PICK l, loc2, g, more : /\ l = Len(o) /\ loc2 = With(loc, kid, l) /\ g = Advanced(f, l)
                              /\ more = Bytes(kid)
  OBVIOUS
<1>4. f.i \in 1 .. Len(listing(f.path)) /\ IsDir(f.path)
  <2>1. n \in 1 .. n
    BY <1>2
  <2>2. FrameOK(f, loc) /\ f \in Frames
    BY <1>1, <1>2, <2>1 DEF Laying, Calls
  <2>3. f.i \in Nat
    BY <2>2 DEF Frames
  <2>4. IsDir(f.path) /\ 1 <= f.i /\ Len(f.entries) = Len(listing(f.path))
    BY <2>2 DEF FrameOK
  <2>5. Len(listing(f.path)) \in Nat
    BY <2>4, ExtentIs DEF IsDir
  <2> QED
    BY <2>3, <2>4, <2>5
<1>5. kid \in Places
  BY <1>4, KidIs
<1>6. /\ more \in Seq(Cells) /\ Len(more) = Extent(kid)
      /\ Extent(kid) = Len(host[kid].bytes)
      /\ \A i \in 1 .. Len(host[kid].bytes) : more[i] = [byte |-> host[kid].bytes[i]]
  BY <1>3, <1>5, BytesIs, ExtentIs
<1>0. Grown(o, s, loc, f, kid, loc2, more, o2, g)
  <2>1. o2 = o \o more /\ f = s[n]
    BY <1>2, <1>3
  <2> QED
    BY <1>2, <1>3, <1>6, <2>1, Grows
<1>7. /\ o2 \in Seq(Cells) /\ Len(o2) >= 1 /\ o2[1] = Root
      /\ Placed(loc2, Len(o2)) /\ l \in Nat /\ kid \notin DOMAIN loc
      /\ Widens(loc2, loc, kid, l)
      /\ g \in Frames /\ FrameOK(g, loc2) /\ g.path = f.path
  BY <1>0, <1>3 DEF Grown
<1>71. \A k \in 1 .. (n - 1) : FrameOK(s[k], loc2) /\ s[k].path # f.path
  BY <1>0, <1>2 DEF Grown
<1>72. \A i \in 1 .. Extent(kid) : o2[l + i] = more[i]
  BY <1>0, <1>3 DEF Grown
<1>73. \A at \in DOMAIN loc : host[at].type = "file" => FileStored(o2, at, loc2[at])
  BY <1>0 DEF Grown
<1>74. \A at \in DOMAIN loc : IsDir(at) /\ DirStored(o, at, loc) => DirStored(o2, at, loc2)
  BY <1>0 DEF Grown
<1>75. \A at \in DOMAIN loc : Stored(o, s, loc, at)
  BY DEF Laying
<1>8. PICK r : r = Popped(s)
  OBVIOUS
<1>9. PICK F : F = Frames
  OBVIOUS
<1>10. r \in Seq(F) /\ Len(r) = n - 1 /\ \A k \in 1 .. (n - 1) : r[k] = s[k]
  BY <1>1, <1>2, <1>8, <1>9, BelowIs
<1>11. s2 = Append(r, g)
  BY <1>3, <1>8
<1>12. s2 \in Seq(F) /\ Len(s2) = n /\ s2[n] = g /\ \A k \in 1 .. (n - 1) : s2[k] = s[k]
  <2>1. g \in F /\ n - 1 \in Nat
    BY <1>2, <1>7, <1>9
  <2>2. /\ s2 \in Seq(F) /\ Len(s2) = (n - 1) + 1
        /\ s2[(n - 1) + 1] = g /\ \A k \in 1 .. (n - 1) : s2[k] = r[k]
    BY <1>10, <1>11, <2>1, AppendIs
  <2>3. (n - 1) + 1 = n
    OBVIOUS
  <2> QED
    BY <1>10, <2>2, <2>3
<1>13. \A k \in 1 .. n : k \in 1 .. (n - 1) \/ k = n
  OBVIOUS
<1>14. \A k \in 1 .. n : s2[k].path = s[k].path
  BY <1>2, <1>7, <1>12, <1>13
<1>15. Calls(s2, loc2)
  <2>1. \A k \in 1 .. n : FrameOK(s2[k], loc2)
    BY <1>7, <1>71, <1>12, <1>13
  <2>2. \A k, m \in 1 .. n : s2[k].path = s2[m].path => k = m
    BY <1>2, <1>14 DEF Laying, Calls
  <2> QED
    BY <1>9, <1>12, <2>1, <2>2 DEF Calls
<1>16. ASSUME NEW at \in DOMAIN loc2 PROVE Stored(o2, s2, loc2, at)
  <2>1. CASE at = kid
    <3>1. loc2[kid] = l
      BY <1>7 DEF Widens
    <3>2. FileStored(o2, kid, l)
      <4>1. ASSUME NEW i \in 1 .. Len(host[kid].bytes)
            PROVE  o2[l + i] = [byte |-> host[kid].bytes[i]]
        <5>1. i \in 1 .. Extent(kid) /\ more[i] = [byte |-> host[kid].bytes[i]]
          BY <1>6
        <5> QED
          BY <1>72, <5>1
      <4> QED
        BY <4>1 DEF FileStored
    <3> QED
      BY <2>1, <3>1, <3>2 DEF Stored
  <2>2. CASE at # kid
    <3>1. at \in DOMAIN loc
      BY <1>7, <2>2 DEF Widens
    <3>2. host[at].type = "file" => FileStored(o2, at, loc2[at])
      BY <1>73, <3>1
    <3>3. ASSUME host[at].type = "dir" PROVE OnStack(s2, at) \/ DirStored(o2, at, loc2)
      <4>1. OnStack(s, at) \/ DirStored(o, at, loc)
        BY <1>75, <3>1, <3>3 DEF Stored
      <4>2. CASE OnStack(s, at)
        <5>1. PICK k \in 1 .. n : s[k].path = at
          BY <1>2, <4>2 DEF OnStack
        <5> QED
          BY <1>12, <1>14, <5>1 DEF OnStack
      <4>3. CASE DirStored(o, at, loc)
        <5>1. IsDir(at)
          <6>1. DOMAIN loc \in SUBSET Places
            BY DEF Laying, Placed
          <6> QED
            BY <3>1, <3>3, <6>1 DEF IsDir
        <5> QED
          BY <1>74, <3>1, <4>3, <5>1
      <4> QED
        BY <4>1, <4>2, <4>3
    <3> QED
      BY <3>2, <3>3 DEF Stored
  <2> QED
    BY <2>1, <2>2
<1>17. Laying(o2, s2, loc2)
  BY <1>7, <1>15, <1>16 DEF Laying
<1>18. s2 # <<>>
  BY <1>2, <1>12
<1> QED
  BY <1>17, <1>18

(* process_dir keeps the image laid out.                                   *)
LEMMA DirLaid ==
    ASSUME IsTree(host), NEW o, NEW s, NEW loc, Laying(o, s, loc), s # <<>>,
           NEW f, f = s[Len(s)], f.i <= Len(f.entries), NEW kid, kid = Kid(f.path, f.i),
           host[kid].type = "dir", NEW o2, o2 = o \o Block(newdirect(kid)),
           NEW s2, s2 = Popped(s) \o <<Advanced(f, Len(o)), Frame(kid, Len(o))>>
    PROVE  s2 # <<>> /\ \E loc2 : Laying(o2, s2, loc2)
<1>1. s \in Seq(Frames)
  BY DEF Laying, Calls
<1>2. PICK n \in Nat : n = Len(s) /\ n >= 1
  BY <1>1
<1>3. PICK l, loc2, g, more, h : /\ l = Len(o) /\ loc2 = With(loc, kid, l) /\ g = Advanced(f, l)
                                 /\ more = Block(newdirect(kid)) /\ h = Frame(kid, l)
  OBVIOUS
<1>4. f.i \in 1 .. Len(listing(f.path)) /\ IsDir(f.path)
  <2>1. n \in 1 .. n
    BY <1>2
  <2>2. FrameOK(f, loc) /\ f \in Frames
    BY <1>1, <1>2, <2>1 DEF Laying, Calls
  <2>3. f.i \in Nat
    BY <2>2 DEF Frames
  <2>4. IsDir(f.path) /\ 1 <= f.i /\ Len(f.entries) = Len(listing(f.path))
    BY <2>2 DEF FrameOK
  <2>5. Len(listing(f.path)) \in Nat
    BY <2>4, ExtentIs DEF IsDir
  <2> QED
    BY <2>3, <2>4, <2>5
<1>5. kid \in Places /\ IsDir(kid) /\ kid \in Seq(Name)
  BY <1>4, KidIs DEF IsDir
<1>6. more \in Seq(Cells) /\ Len(more) = Extent(kid)
  <2>1. newdirect(kid) \in Seq(Entry) /\ Len(newdirect(kid)) = Len(listing(kid))
    BY <1>5, NewdirectIs
  <2>2. more \in Seq(Cells) /\ Len(more) = Len(listing(kid)) + 1
    BY <1>3, <2>1, BlockIs
  <2>3. Extent(kid) = Len(listing(kid)) + 1
    BY <1>5, ExtentIs
  <2> QED
    BY <2>2, <2>3
<1>0. Grown(o, s, loc, f, kid, loc2, more, o2, g)
  <2>1. o2 = o \o more /\ f = s[n]
    BY <1>2, <1>3
  <2> QED
    BY <1>2, <1>3, <1>6, <2>1, Grows
<1>7. /\ o2 \in Seq(Cells) /\ Len(o2) >= 1 /\ o2[1] = Root
      /\ Placed(loc2, Len(o2)) /\ l \in Nat /\ kid \notin DOMAIN loc
      /\ Widens(loc2, loc, kid, l)
      /\ g \in Frames /\ FrameOK(g, loc2) /\ g.path = f.path
  BY <1>0, <1>3 DEF Grown
<1>71. \A k \in 1 .. (n - 1) : FrameOK(s[k], loc2) /\ s[k].path # f.path
  BY <1>0, <1>2 DEF Grown
<1>73. \A at \in DOMAIN loc : host[at].type = "file" => FileStored(o2, at, loc2[at])
  BY <1>0 DEF Grown
<1>74. \A at \in DOMAIN loc : IsDir(at) /\ DirStored(o, at, loc) => DirStored(o2, at, loc2)
  BY <1>0 DEF Grown
<1>75. \A at \in DOMAIN loc : Stored(o, s, loc, at)
  BY DEF Laying
<1>8. kid \in DOMAIN loc2 /\ loc2[kid] = l /\ DOMAIN loc2 = DOMAIN loc \cup {kid}
  BY <1>7 DEF Widens
<1>9. h \in Frames /\ FrameOK(h, loc2) /\ h.path = kid
  <2>1. ASSUME NEW i \in 1 .. Len(listing(kid)), Kid(kid, i) \in DOMAIN loc2 PROVE FALSE
    <3>1. PICK x \in Name : Kid(kid, i) = Append(kid, x)
      BY <1>5, KidIs
    <3>2. PICK u : u = Append(kid, x)
      OBVIOUS
    <3>3. Len(u) = Len(kid) + 1 /\ Len(kid) \in Nat
      BY <1>5, <3>2, AppendIs
    <3>4. u # kid
      BY <3>3
    <3>5. u \in DOMAIN loc
      BY <1>8, <2>1, <3>1, <3>2, <3>4
    <3>6. kid \in DOMAIN loc
      BY <1>5, <3>2, <3>5 DEF Laying, Placed
    <3> QED
      BY <1>7, <3>6
  <2> QED
    BY <1>3, <1>5, <1>7, <1>8, <2>1, FrameStarts, SMTT(30)
<1>10. PICK r : r = Popped(s)
  OBVIOUS
<1>11. PICK F : F = Frames
  OBVIOUS
<1>12. r \in Seq(F) /\ Len(r) = n - 1 /\ \A k \in 1 .. (n - 1) : r[k] = s[k]
  BY <1>1, <1>2, <1>10, <1>11, BelowIs
<1>13. /\ s2 \in Seq(F) /\ Len(s2) = n + 1 /\ s2[n] = g /\ s2[n + 1] = h
       /\ \A k \in 1 .. (n - 1) : s2[k] = s[k]
  <2>3. n - 1 \in Nat /\ (n - 1) + 1 = n /\ (n - 1) + 2 = n + 1
    BY <1>2
  <2>0. PICK q \in Nat : q = n - 1 /\ q + 1 = n /\ q + 2 = n + 1
    BY <2>3
  <2>1. g \in F /\ h \in F /\ Len(r) = q /\ s2 = Pushed(r, g, h)
    BY <1>3, <1>7, <1>9, <1>10, <1>11, <1>12, <2>0 DEF Pushed
  <2>2. s2 \in Seq(F) /\ IsPushed(s2, r, g, h)
    BY <1>12, <2>1, TwoMore
  <2> QED
    BY <1>12, <2>0, <2>1, <2>2 DEF IsPushed
<1>14. \A k \in 1 .. (n + 1) : k \in 1 .. (n - 1) \/ k = n \/ k = n + 1
  OBVIOUS
<1>15. \A k \in 1 .. n : s2[k].path = s[k].path /\ s[k].path # kid
  <2>1. \A k \in 1 .. n : s2[k].path = s[k].path
    <3>1. \A k \in 1 .. n : k \in 1 .. (n - 1) \/ k = n
      OBVIOUS
    <3> QED
      BY <1>2, <1>7, <1>13, <3>1
  <2>2. \A k \in 1 .. n : s[k].path \in DOMAIN loc
    BY <1>2 DEF Laying, Calls, FrameOK
  <2> QED
    BY <1>7, <2>1, <2>2
<1>16. Calls(s2, loc2)
  <2>1. \A k \in 1 .. (n + 1) : FrameOK(s2[k], loc2)
    BY <1>7, <1>71, <1>9, <1>13, <1>14
  <2>2. \A k, m \in 1 .. n : s[k].path = s[m].path => k = m
    BY <1>2 DEF Laying, Calls
  <2>3. ASSUME NEW k \in 1 .. (n + 1), NEW m \in 1 .. (n + 1), s2[k].path = s2[m].path PROVE k = m
    <3>1. \A j \in 1 .. (n + 1) : j \in 1 .. n \/ j = n + 1
      OBVIOUS
    <3>2. CASE k \in 1 .. n /\ m \in 1 .. n
      BY <1>15, <2>2, <2>3, <3>2
    <3>3. CASE k = n + 1 /\ m \in 1 .. n
      BY <1>9, <1>13, <1>15, <2>3, <3>3
    <3>4. CASE m = n + 1 /\ k \in 1 .. n
      BY <1>9, <1>13, <1>15, <2>3, <3>4
    <3>5. CASE m = n + 1 /\ k = n + 1
      BY <3>5
    <3> QED
      BY <3>1, <3>2, <3>3, <3>4, <3>5
  <2> QED
    <3>1. \A k, m \in 1 .. (n + 1) : s2[k].path = s2[m].path => k = m
      BY <2>3
    <3>2. s2 \in Seq(Frames) /\ Len(s2) = n + 1
      BY <1>11, <1>13
    <3>3. \A k \in 1 .. Len(s2) : FrameOK(s2[k], loc2)
      BY <2>1, <3>2
    <3>4. \A k, m \in 1 .. Len(s2) : s2[k].path = s2[m].path => k = m
      BY <3>1, <3>2, SMTT(30)
    <3> QED
      BY <3>2, <3>3, <3>4 DEF Calls
<1>17. ASSUME NEW at \in DOMAIN loc2 PROVE Stored(o2, s2, loc2, at)
  <2>1. CASE at = kid
    <3>1. n + 1 \in 1 .. Len(s2) /\ s2[n + 1].path = kid
      BY <1>9, <1>13
    <3>2. OnStack(s2, kid)
      BY <3>1 DEF OnStack
    <3> QED
      BY <2>1, <3>2 DEF Stored
  <2>2. CASE at # kid
    <3>1. at \in DOMAIN loc
      BY <1>8, <2>2
    <3>2. host[at].type = "file" => FileStored(o2, at, loc2[at])
      BY <1>73, <3>1
    <3>3. ASSUME host[at].type = "dir" PROVE OnStack(s2, at) \/ DirStored(o2, at, loc2)
      <4>1. OnStack(s, at) \/ DirStored(o, at, loc)
        BY <1>75, <3>1, <3>3 DEF Stored
      <4>2. CASE OnStack(s, at)
        <5>1. PICK k \in 1 .. n : s[k].path = at
          BY <1>2, <4>2 DEF OnStack
        <5>2. k \in 1 .. (n + 1)
          OBVIOUS
        <5> QED
          BY <1>13, <1>15, <5>1, <5>2 DEF OnStack
      <4>3. CASE DirStored(o, at, loc)
        <5>1. IsDir(at)
          <6>1. DOMAIN loc \in SUBSET Places
            BY DEF Laying, Placed
          <6> QED
            BY <3>1, <3>3, <6>1 DEF IsDir
        <5> QED
          BY <1>74, <3>1, <4>3, <5>1
      <4> QED
        BY <4>1, <4>2, <4>3
    <3> QED
      BY <3>2, <3>3 DEF Stored
  <2> QED
    BY <2>1, <2>2
<1>18. Laying(o2, s2, loc2)
  BY <1>7, <1>16, <1>17 DEF Laying
<1>19. s2 # <<>>
  BY <1>2, <1>13
<1> QED
  BY <1>18, <1>19

Rewritten(o, d, block) ==
    [c \in DOMAIN o |-> IF d < c /\ c <= d + Len(block) THEN block[c - d] ELSE o[c]]

(* The cells that the second writing of a block changes.                   *)
LEMMA RewrittenIs ==
    ASSUME NEW C, NEW o \in Seq(C), NEW block \in Seq(C), NEW d \in Nat, NEW N \in Nat,
           N = Len(block), d + N <= Len(o), NEW o2, o2 = Rewritten(o, d, block)
    PROVE  /\ o2 \in Seq(C) /\ Len(o2) = Len(o)
           /\ \A c \in 1 .. N : o2[d + c] = block[c]
           /\ \A c \in 1 .. Len(o) : c <= d \/ d + N < c => o2[c] = o[c]
<1>1. PICK M \in Nat : M = Len(o) /\ DOMAIN o = 1 .. M /\ d + N <= M
  OBVIOUS
<1>2. o2 = [c \in 1 .. M |-> IF d < c /\ c <= d + N THEN block[c - d] ELSE o[c]]
  BY <1>1 DEF Rewritten
<1>3. ASSUME NEW c \in 1 .. M PROVE (IF d < c /\ c <= d + N THEN block[c - d] ELSE o[c]) \in C
  <2>1. CASE d < c /\ c <= d + N
    <3>1. c - d \in 1 .. N
      BY <2>1
    <3>2. block[c - d] \in C
      BY <3>1
    <3> QED
      BY <2>1, <3>2
  <2>2. CASE ~(d < c /\ c <= d + N)
    <3>1. o[c] \in C
      BY <1>1
    <3> QED
      BY <2>2, <3>1
  <2> QED
    BY <2>1, <2>2
<1>4. o2 \in [1 .. M -> C]
  BY <1>2, <1>3
<1>5. o2 \in Seq(C) /\ Len(o2) = M
  BY <1>4
<1>6. \A c \in 1 .. M : o2[c] = IF d < c /\ c <= d + N THEN block[c - d] ELSE o[c]
  BY <1>2
<1>7. ASSUME NEW c \in 1 .. N PROVE o2[d + c] = block[c]
  <2>1. PICK x \in 1 .. M : x = d + c /\ x - d = c /\ d < x /\ x <= d + N
    <3>1. d + c \in 1 .. M /\ (d + c) - d = c /\ d < d + c /\ d + c <= d + N
      BY <1>1
    <3> QED
      BY <3>1
  <2> QED
    BY <1>6, <2>1
<1>8. ASSUME NEW c \in 1 .. M, c <= d \/ d + N < c PROVE o2[c] = o[c]
  <2>1. ~(d < c /\ c <= d + N)
    BY <1>8
  <2> QED
    BY <1>6, <2>1
<1> QED
  BY <1>1, <1>5, <1>7, <1>8

(* process_dir_end: a directory's entries get their locations.             *)
LEMMA EndLaid ==
    ASSUME IsTree(host), NEW o, NEW s, NEW loc, Laying(o, s, loc), s # <<>>,
           NEW f, f = s[Len(s)], ~(f.i <= Len(f.entries)),
           NEW o2, o2 = Rewritten(o, f.diroffset, Block(f.entries)),
           NEW s2, s2 = Popped(s)
    PROVE  Laying(o2, s2, loc)
<1>1. /\ o \in Seq(Cells) /\ Len(o) >= 1 /\ o[1] = Root /\ Placed(loc, Len(o))
      /\ s \in Seq(Frames)
  BY DEF Laying, Calls
<1>2. PICK n \in Nat : n = Len(s) /\ n >= 1
  BY <1>1
<1>3. /\ \A k \in 1 .. n : FrameOK(s[k], loc)
      /\ \A k, m \in 1 .. n : s[k].path = s[m].path => k = m
  BY <1>2 DEF Laying, Calls
<1>4. n \in 1 .. n /\ f \in Frames /\ FrameOK(f, loc)
  BY <1>1, <1>2, <1>3
<1>5. PICK at, es : at = f.path /\ es = f.entries /\ es \in Seq(Entry) /\ f.i \in Nat
  BY <1>4 DEF Frames
<1>6. IsDir(at) /\ at \in DOMAIN loc /\ f.diroffset = loc[at] /\ Len(es) = Len(listing(at))
  BY <1>4, <1>5 DEF FrameOK
<1>7. PICK e \in Nat : e = Len(listing(at)) /\ Extent(at) = e + 1 /\ e = Len(es)
  BY <1>6, ExtentIs DEF IsDir
<1>8. PICK L \in Nat : L = Len(o) /\ L >= 1
  BY <1>1
<1>9. \A a \in DOMAIN loc : a \in Places /\ loc[a] \in Nat /\ loc[a] >= 1 /\ loc[a] + Extent(a) <= L
  BY <1>1, <1>8 DEF Placed
<1>10. PICK d \in Nat : d = loc[at] /\ d >= 1 /\ d + (e + 1) <= L
  BY <1>6, <1>7, <1>9
<1>11. PICK block : block = Block(es)
  OBVIOUS
<1>12. /\ block \in Seq(Cells) /\ Len(block) = e + 1 /\ block[1] = [count |-> e]
       /\ \A i \in 1 .. e : block[1 + i] = es[i]
  BY <1>5, <1>7, <1>11, BlockIs
<1>13. /\ o2 \in Seq(Cells) /\ Len(o2) = L
       /\ \A c \in 1 .. (e + 1) : o2[d + c] = block[c]
       /\ \A c \in 1 .. L : c <= d \/ d + (e + 1) < c => o2[c] = o[c]
  <2>1. PICK C : C = Cells
    OBVIOUS
  <2>2. PICK N \in Nat : N = e + 1 /\ N = Len(block) /\ d + N <= Len(o)
    BY <1>8, <1>10, <1>12
  <2>3. o2 = Rewritten(o, d, block)
    BY <1>5, <1>6, <1>10, <1>11
  <2>4. o \in Seq(C) /\ block \in Seq(C)
    BY <1>1, <1>12, <2>1
  <2>5. /\ o2 \in Seq(C) /\ Len(o2) = Len(o)
        /\ \A c \in 1 .. N : o2[d + c] = block[c]
        /\ \A c \in 1 .. Len(o) : c <= d \/ d + N < c => o2[c] = o[c]
    BY <2>2, <2>3, <2>4, RewrittenIs
  <2> QED
    BY <1>8, <2>1, <2>2, <2>5
<1>14. o2[1] = Root
  <2>1. 1 \in 1 .. L /\ 1 <= d
    BY <1>8, <1>10
  <2> QED
    BY <1>1, <1>13, <2>1
<1>15. s2 \in Seq(Frames) /\ Len(s2) = n - 1 /\ \A k \in 1 .. (n - 1) : s2[k] = s[k]
  BY <1>1, <1>2, BelowIs
<1>16. Calls(s2, loc)
  <2>1. \A k \in 1 .. (n - 1) : k \in 1 .. n
    OBVIOUS
  <2>2. \A k \in 1 .. Len(s2) : FrameOK(s2[k], loc)
    BY <1>3, <1>15, <2>1
  <2>3. \A k, m \in 1 .. Len(s2) : s2[k].path = s2[m].path => k = m
    BY <1>3, <1>15, <2>1
  <2> QED
    BY <1>15, <2>2, <2>3 DEF Calls
<1>17. ASSUME NEW b \in DOMAIN loc, b # at PROVE Keeps(o2, o, loc[b], Extent(b))
  <2>1. PICK p, q \in Nat : p = loc[b] /\ q = Extent(b) /\ p >= 1 /\ p + q <= L
    BY <1>9, ExtentIs
  <2>2. Apart(loc, b, at)
    BY <1>1, <1>6, <1>17 DEF Placed
  <2>3. p + q <= d \/ d + (e + 1) <= p
    BY <1>7, <1>10, <2>1, <2>2 DEF Apart
  <2>4. ASSUME NEW c \in 1 .. q PROVE o2[p + c] = o[p + c]
    <3>1. PICK x \in 1 .. L : x = p + c /\ (x <= d \/ d + (e + 1) < x)
      <4>1. p + c \in 1 .. L
        BY <2>1
      <4>2. CASE p + q <= d
        BY <4>1, <4>2
      <4>3. CASE d + (e + 1) <= p
        BY <4>1, <4>3
      <4> QED
        BY <2>3, <4>2, <4>3
    <3> QED
      BY <1>13, <3>1
  <2> QED
    BY <2>1, <2>4 DEF Keeps
<1>18. DirStored(o2, at, loc)
  <2>1. 1 \in 1 .. (e + 1) /\ \A i \in 1 .. e : 1 + i \in 1 .. (e + 1) /\ d + (1 + i) = d + 1 + i
    OBVIOUS
  <2>2. o2[d + 1] = [count |-> e]
    BY <1>12, <1>13, <2>1
  <2>3. ASSUME NEW i \in 1 .. e
        PROVE  Kid(at, i) \in DOMAIN loc /\ o2[d + 1 + i] = EntryAt(at, i, loc[Kid(at, i)])
    <3>1. o2[d + 1 + i] = es[i]
      BY <1>12, <1>13, <2>1, SMTT(30)
    <3>2. i < f.i
      BY <1>5, <1>7
    <3>3. Kid(at, i) \in DOMAIN loc /\ es[i] = EntryAt(at, i, loc[Kid(at, i)])
      BY <1>4, <1>5, <1>7, <3>2 DEF FrameOK
    <3> QED
      BY <3>1, <3>3
  <2> QED
    BY <1>7, <1>10, <2>2, <2>3 DEF DirStored
<1>19. ASSUME NEW b \in DOMAIN loc PROVE Stored(o2, s2, loc, b)
  <2>1. CASE b = at
    <3>1. host[at].type = "dir"
      BY <1>6 DEF IsDir
    <3> QED
      BY <1>18, <2>1, <3>1 DEF Stored
  <2>2. CASE b # at
    <3>1. b \in Places /\ Keeps(o2, o, loc[b], Extent(b)) /\ loc[b] \in Nat
      BY <1>9, <1>17, <2>2
    <3>2. Stored(o, s, loc, b)
      BY DEF Laying
    <3>3. ASSUME host[b].type = "file" PROVE FileStored(o2, b, loc[b])
      <4>1. PICK p : p = loc[b]
        OBVIOUS
      <4>2. FileStored(o, b, p) /\ Keeps(o2, o, p, Extent(b))
        BY <3>1, <3>2, <3>3, <4>1 DEF Stored
      <4>3. FileStored(o2, b, p)
        BY <3>1, <3>3, <4>2, FileKept
      <4> QED
        BY <4>1, <4>3
    <3>4. ASSUME host[b].type = "dir" PROVE OnStack(s2, b) \/ DirStored(o2, b, loc)
      <4>1. OnStack(s, b) \/ DirStored(o, b, loc)
        BY <3>2, <3>4 DEF Stored
      <4>2. CASE OnStack(s, b)
        <5>1. PICK k \in 1 .. n : s[k].path = b
          BY <1>2, <4>2 DEF OnStack
        <5>2. k # n
          BY <1>2, <1>5, <2>2, <5>1
        <5>3. k \in 1 .. (n - 1)
          BY <5>2
        <5> QED
          BY <1>15, <5>1, <5>3 DEF OnStack
      <4>3. CASE DirStored(o, b, loc)
        <5>1. IsDir(b)
          BY <3>1, <3>4 DEF IsDir
        <5>2. \A a \in DOMAIN loc : a \in DOMAIN loc /\ loc[a] = loc[a]
          OBVIOUS
        <5> QED
          BY <3>1, <4>3, <5>1, <5>2, DirKept
      <4> QED
        BY <4>1, <4>2, <4>3
    <3> QED
      BY <3>3, <3>4 DEF Stored
  <2> QED
    BY <2>1, <2>2
<1> QED
  BY <1>1, <1>8, <1>13, <1>14, <1>16, <1>19 DEF Laying

(* build_start.                                                            *)
LEMMA StartLaid ==
    ASSUME IsTree(host), NEW o2, o2 = <<Root>> \o Block(newdirect(<<>>)),
           NEW s2, s2 = <<Frame(<<>>, 1)>>
    PROVE  s2 # <<>> /\ \E loc : Laying(o2, s2, loc)
<1>0. PICK e0 : e0 = <<>>
  OBVIOUS
<1>1. IsDir(e0) /\ e0 \in Places /\ host[e0].type = "dir"
  BY <1>0, RootPlace DEF IsDir
<1>2. PICK n \in Nat : n = Len(listing(e0)) /\ Extent(e0) = n + 1
  BY <1>1, ExtentIs
<1>3. PICK block, C : block = Block(newdirect(e0)) /\ C = Cells
  OBVIOUS
<1>4. block \in Seq(C) /\ Len(block) = n + 1
  <2>1. newdirect(e0) \in Seq(Entry) /\ Len(newdirect(e0)) = n
    BY <1>1, <1>2, NewdirectIs
  <2> QED
    BY <1>3, <2>1, BlockIs
<1>5. Root \in C
  <2>1. Root \in Entry
    BY DEF Root, Entry
  <2> QED
    BY <1>3, <2>1 DEF Cells
<1>6. PICK r : r = <<Root>>
  OBVIOUS
<1>7. r \in Seq(C) /\ Len(r) = 1 /\ r[1] = Root
  BY <1>5, <1>6, OneCell
<1>8. o2 \in Seq(C) /\ Concat(o2, r, block)
  BY <1>0, <1>3, <1>4, <1>6, <1>7, Concatenated
<1>9. Len(o2) = n + 2 /\ o2[1] = Root
  <2>1. 1 \in 1 .. Len(r)
    BY <1>7
  <2>2. o2[1] = r[1]
    BY <1>8, <2>1 DEF Concat
  <2>3. Len(o2) = Len(r) + Len(block)
    BY <1>8 DEF Concat
  <2>4. Len(o2) = n + 2
    BY <1>4, <1>7, <2>3
  <2> QED
    BY <1>7, <2>2, <2>4
<1>10. PICK loc : loc = [a \in {e0} |-> 1]
  OBVIOUS
<1>11. DOMAIN loc = {e0} /\ loc[e0] = 1
  BY <1>10
<1>12. e0 \in Seq(Name) /\ Len(e0) = 0
  BY <1>0
<1>13. ASSUME NEW a \in Seq(Name), NEW x \in Name PROVE Append(a, x) # e0
  <2>1. Append(a, x) # <<>>
    <3>1. PICK u : u = Append(a, x)
      OBVIOUS
    <3>3. Len(u) = Len(a) + 1 /\ Len(a) \in Nat
      BY <3>1, AppendIs
    <3>4. Len(u) # 0
      BY <3>3
    <3>2. u # <<>>
      BY <3>4
    <3> QED
      BY <3>1, <3>2
  <2> QED
    BY <1>0, <2>1
<1>14. Placed(loc, Len(o2))
  <2>1. \A c \in 1 .. ((n + 2) - 1) : 1 <= c /\ c < 1 + (n + 1)
    OBVIOUS
  <2>2. \A c \in 1 .. ((n + 2) - 1) : Covers(loc, e0, c)
    BY <1>2, <1>11, <2>1 DEF Covers
  <2>3. 1 + (n + 1) <= n + 2 /\ 1 >= 1 /\ 1 \in Nat
    OBVIOUS
  <2>4. \A a \in DOMAIN loc : loc[a] \in Nat /\ loc[a] >= 1 /\ loc[a] + Extent(a) <= Len(o2)
    BY <1>2, <1>9, <1>11, <2>3
  <2>5. DOMAIN loc \in SUBSET Places /\ <<>> \in DOMAIN loc /\ loc[<<>>] = 1
    BY <1>0, <1>1, <1>11
  <2>6. \A a, b \in DOMAIN loc : a # b => Apart(loc, a, b)
    BY <1>11
  <2>7. \A c \in 1 .. (Len(o2) - 1) : \E a \in DOMAIN loc : Covers(loc, a, c)
    BY <1>9, <1>11, <2>2
  <2>8. \A a \in Seq(Name), x \in Name : Append(a, x) \in DOMAIN loc => a \in DOMAIN loc
    BY <1>11, <1>13
  <2> QED
    BY <2>4, <2>5, <2>6, <2>7, <2>8 DEF Placed
<1>15. PICK h : h = Frame(e0, 1)
  OBVIOUS
<1>16. h \in Frames /\ FrameOK(h, loc) /\ h.path = e0
  <2>1. ASSUME NEW i \in 1 .. Len(listing(e0)) PROVE Kid(e0, i) \notin DOMAIN loc
    <3>1. PICK x \in Name : Kid(e0, i) = Append(e0, x)
      BY <1>1, KidIs
    <3> QED
      BY <1>11, <1>12, <1>13, <3>1
  <2>2. 1 \in Nat /\ e0 \in DOMAIN loc
    BY <1>11
  <2> QED
    BY <1>1, <1>11, <1>15, <2>1, <2>2, FrameStarts
<1>17. s2 \in Seq(Frames) /\ Len(s2) = 1 /\ s2[1] = h /\ s2 # <<>>
  <2>1. s2 = <<h>>
    BY <1>0, <1>15
  <2> QED
    BY <1>16, <2>1, OneCell
<1>18. Calls(s2, loc)
  <2>1. \A k \in 1 .. 1 : k = 1
    OBVIOUS
  <2> QED
    BY <1>16, <1>17, <2>1 DEF Calls
<1>19. Stored(o2, s2, loc, e0)
  <2>1. 1 \in 1 .. Len(s2)
    BY <1>17
  <2>2. OnStack(s2, e0)
    BY <1>16, <1>17, <2>1 DEF OnStack
  <2> QED
    BY <1>1, <2>2 DEF Stored
<1>20. Laying(o2, s2, loc)
  <2>1. n + 2 >= 1
    OBVIOUS
  <2> QED
    BY <1>3, <1>8, <1>9, <1>11, <1>14, <1>18, <1>19, <2>1 DEF Laying
<1> QED
  BY <1>17, <1>20

(***************************************************************************)
(* fstool as a whole.                                                      *)
(***************************************************************************)
(* The inductive invariant of fstool.                                      *)
ImageInv ==
    /\ host \in Hosts
    /\ \/ out = <<>> /\ stack = <<>> /\ built = FALSE
       \/ (built <=> stack = <<>>) /\ \E loc : Laying(out, stack, loc)

(* The layout in the next state, with the same tree.                       *)
LEMMA LayingNext ==
    ASSUME host' = host, NEW loc, Laying(out', stack', loc)
    PROVE  Laying(out, stack, loc)'
<1>1. \A at : listing(at)' = listing(at)
  BY DEF listing
<1>2. Places' = Places
  BY DEF Places
<1>3. \A at : Extent(at)' = Extent(at)
  BY <1>1 DEF Extent, Content
<1>4. \A at, i : Kid(at, i)' = Kid(at, i)
  BY <1>1 DEF Kid
<1>5. \A at, i, l : EntryAt(at, i, l)' = EntryAt(at, i, l)
  BY <1>1, <1>4 DEF EntryAt
<1>6. Calls(stack', loc) => Calls(stack, loc)'
  BY <1>1, <1>2, <1>4, <1>5 DEF Calls, FrameOK, IsDir
<1>7. Placed(loc, Len(out')) => Placed(loc, Len(out))'
  BY <1>2, <1>3 DEF Placed, Apart, Covers
<1>8. \A at : Stored(out', stack', loc, at) => Stored(out, stack, loc, at)'
  BY <1>1, <1>4, <1>5 DEF Stored, FileStored, DirStored, OnStack
<1> QED
  BY <1>6, <1>7, <1>8 DEF Laying

(* The entry that the top call is at.                                      *)
LEMMA TopIs ==
    ASSUME IsTree(host), NEW loc, Laying(out, stack, loc), stack # <<>>,
           Top.i <= Len(Top.entries)
    PROVE  /\ Child = Kid(Top.path, Top.i)
           /\ Top.entries[Top.i].type = host[Kid(Top.path, Top.i)].type
<1>1. PICK n \in Nat : n = Len(stack) /\ n \in 1 .. n /\ stack \in Seq(Frames)
  BY DEF Laying, Calls
<1>2. PICK f : f = Top /\ f \in Frames /\ FrameOK(f, loc)
  BY <1>1 DEF Top, Laying, Calls
<1>3. PICK i \in Nat : i = f.i
  BY <1>2 DEF Frames
<1>4. PICK at : at = f.path /\ IsDir(at)
  BY <1>2 DEF FrameOK
<1>5. Len(listing(at)) \in Nat
  BY <1>4, ExtentIs DEF IsDir
<1>6. i \in 1 .. Len(listing(at)) /\ ~(i < i)
  BY <1>2, <1>3, <1>4, <1>5 DEF FrameOK
<1>7. f.entries[i] = EntryAt(at, i, 0)
  BY <1>2, <1>3, <1>4, <1>6 DEF FrameOK
<1>8. f.entries[i].name = listing(at)[i] /\ f.entries[i].type = host[Kid(at, i)].type
  BY <1>7 DEF EntryAt
<1> QED
  BY <1>2, <1>3, <1>4, <1>8 DEF Child, Kid

(* Every step of fstool keeps its invariant.                               *)
LEMMA BuildKeeps ==
    ASSUME ImageInv, Build
    PROVE  ImageInv'
<1>1. host' = host /\ host \in Hosts /\ IsTree(host)
  BY HostsAssumption DEF ImageInv, Build, build_start, process_dir, process_file, process_dir_end
<1>2. host' \in Hosts
  BY <1>1
<1>3. CASE build_start
  <2>1. out' = <<Root>> \o Block(newdirect(<<>>)) /\ stack' = <<Frame(<<>>, 1)>> /\ built' = built
    BY <1>3 DEF build_start, Root
  <2>2. PICK o2, s2 : o2 = out' /\ s2 = stack'
    OBVIOUS
  <2>3. s2 # <<>> /\ \E loc : Laying(o2, s2, loc)
    BY <1>1, <2>1, <2>2, StartLaid
  <2>4. ~built
    <3>1. out = <<>>
      BY <1>3 DEF build_start
    <3>2. ASSUME NEW loc, Laying(out, stack, loc) PROVE FALSE
      <4>1. Len(out) >= 1 /\ Len(out) = 0
        BY <3>1, <3>2 DEF Laying
      <4> QED
        BY <4>1
    <3> QED
      BY <3>2 DEF ImageInv
  <2>5. PICK loc : Laying(out', stack', loc)
    BY <2>2, <2>3
  <2>6. Laying(out, stack, loc)'
    BY <1>1, <2>5, LayingNext
  <2>7. built' <=> stack' = <<>>
    BY <2>1, <2>2, <2>3, <2>4
  <2> QED
    BY <1>2, <2>6, <2>7 DEF ImageInv
<1>4. ASSUME stack # <<>>
      PROVE  ~built /\ \E loc : Laying(out, stack, loc)
  BY <1>4 DEF ImageInv
<1>5. CASE process_dir
  <2>1. stack # <<>> /\ Top.i <= Len(Top.entries) /\ Top.entries[Top.i].type = "dir"
    BY <1>5 DEF process_dir
  <2>2. PICK loc : Laying(out, stack, loc)
    BY <1>4, <2>1
  <2>3. PICK o, s, f, kid, o2, s2 : /\ o = out /\ s = stack /\ f = Top /\ kid = Child
                                    /\ o2 = out' /\ s2 = stack'
    OBVIOUS
  <2>4. kid = Kid(f.path, f.i) /\ host[kid].type = "dir"
    BY <1>1, <2>1, <2>2, <2>3, TopIs
  <2>5. o2 = o \o Block(newdirect(kid))
    BY <1>5, <2>3 DEF process_dir
  <2>6. s2 = Popped(s) \o <<Advanced(f, Len(o)), Frame(kid, Len(o))>>
    BY <1>5, <2>3 DEF process_dir, Rest, Located, Advanced, Popped
  <2>7. f = s[Len(s)] /\ s # <<>> /\ f.i <= Len(f.entries) /\ Laying(o, s, loc)
    BY <2>1, <2>2, <2>3 DEF Top
  <2>8. s2 # <<>> /\ \E loc2 : Laying(o2, s2, loc2)
    BY <1>1, <2>4, <2>5, <2>6, <2>7, DirLaid
  <2>9. PICK loc2 : Laying(out', stack', loc2)
    BY <2>3, <2>8
  <2>10. Laying(out, stack, loc2)'
    BY <1>1, <2>9, LayingNext
  <2>11. built' <=> stack' = <<>>
    BY <1>4, <1>5, <2>1, <2>3, <2>8 DEF process_dir
  <2> QED
    BY <1>2, <2>10, <2>11 DEF ImageInv
<1>6. CASE process_file
  <2>1. stack # <<>> /\ Top.i <= Len(Top.entries) /\ Top.entries[Top.i].type = "file"
    BY <1>6 DEF process_file
  <2>2. PICK loc : Laying(out, stack, loc)
    BY <1>4, <2>1
  <2>3. PICK o, s, f, kid, o2, s2 : /\ o = out /\ s = stack /\ f = Top /\ kid = Child
                                    /\ o2 = out' /\ s2 = stack'
    OBVIOUS
  <2>4. kid = Kid(f.path, f.i) /\ host[kid].type = "file"
    BY <1>1, <2>1, <2>2, <2>3, TopIs
  <2>5. o2 = o \o Bytes(kid)
    BY <1>6, <2>3 DEF process_file, Bytes
  <2>6. s2 = Append(Popped(s), Advanced(f, Len(o)))
    BY <1>6, <2>3 DEF process_file, Rest, Located, Advanced, Popped
  <2>7. f = s[Len(s)] /\ s # <<>> /\ f.i <= Len(f.entries) /\ Laying(o, s, loc)
    BY <2>1, <2>2, <2>3 DEF Top
  <2>8. s2 # <<>> /\ \E loc2 : Laying(o2, s2, loc2)
    BY <1>1, <2>4, <2>5, <2>6, <2>7, FileLaid
  <2>9. PICK loc2 : Laying(out', stack', loc2)
    BY <2>3, <2>8
  <2>10. Laying(out, stack, loc2)'
    BY <1>1, <2>9, LayingNext
  <2>11. built' <=> stack' = <<>>
    BY <1>4, <1>6, <2>1, <2>3, <2>8 DEF process_file
  <2> QED
    BY <1>2, <2>10, <2>11 DEF ImageInv
<1>7. CASE process_dir_end
  <2>1. stack # <<>> /\ Top.i > Len(Top.entries)
    BY <1>7 DEF process_dir_end
  <2>2. PICK loc : Laying(out, stack, loc)
    BY <1>4, <2>1
  <2>3. PICK o, s, f, o2, s2 : /\ o = out /\ s = stack /\ f = Top
                               /\ o2 = out' /\ s2 = stack'
    OBVIOUS
  <2>4. ~(f.i <= Len(f.entries))
    <3>1. PICK n \in Nat : n = Len(stack) /\ n \in 1 .. n /\ stack \in Seq(Frames)
      BY <2>1, <2>2 DEF Laying, Calls
    <3>2. f \in Frames
      BY <2>3, <3>1 DEF Top
    <3>3. f.i \in Nat /\ f.entries \in Seq(Entry)
      BY <3>2 DEF Frames
    <3>4. Len(f.entries) \in Nat
      BY <3>3
    <3> QED
      BY <2>1, <2>3, <3>3, <3>4
  <2>5. o2 = Rewritten(o, f.diroffset, Block(f.entries))
    BY <1>7, <2>3 DEF process_dir_end, Rewritten
  <2>6. s2 = Popped(s)
    BY <1>7, <2>3 DEF process_dir_end, Rest, Popped
  <2>7. f = s[Len(s)] /\ s # <<>> /\ Laying(o, s, loc)
    BY <2>1, <2>2, <2>3 DEF Top
  <2>8. Laying(o2, s2, loc)
    BY <1>1, <2>4, <2>5, <2>6, <2>7, EndLaid
  <2>10. Laying(out, stack, loc)'
    BY <1>1, <2>3, <2>8, LayingNext
  <2>11. built' <=> stack' = <<>>
    BY <1>7 DEF process_dir_end
  <2> QED
    BY <1>2, <2>10, <2>11 DEF ImageInv
<1> QED
  BY <1>3, <1>5, <1>6, <1>7 DEF Build

(***************************************************************************)
(* The complete image.                                                     *)
(***************************************************************************)
(* Once all calls have returned, every place is stored.                    *)
LEMMA Complete ==
    ASSUME IsTree(host), NEW o, NEW loc, NEW s, s = <<>>, Laying(o, s, loc)
    PROVE  /\ DOMAIN loc = Places
           /\ \A at \in Places : loc[at] \in Nat /\ loc[at] >= 1
           /\ \A at \in Places : host[at].type = "file" => FileStored(o, at, loc[at])
           /\ \A at \in Places : host[at].type = "dir" => DirStored(o, at, loc)
<1>1. DOMAIN loc \in SUBSET Places /\ <<>> \in DOMAIN loc
      /\ \A at \in DOMAIN loc : loc[at] \in Nat /\ loc[at] >= 1
  BY DEF Laying, Placed
<1>2. \A at : ~OnStack(s, at)
  <2>1. Len(s) = 0
    OBVIOUS
  <2> QED
    BY <2>1 DEF OnStack
<1>3. \A at \in DOMAIN loc : /\ host[at].type = "file" => FileStored(o, at, loc[at])
                             /\ host[at].type = "dir" => DirStored(o, at, loc)
  BY <1>2 DEF Laying, Stored
<1>4. PICK T : T = {k \in Nat : \A at \in Places : Len(at) = k => at \in DOMAIN loc}
  OBVIOUS
<1>5. 0 \in T
  <2>1. ASSUME NEW at \in Places, Len(at) = 0 PROVE at \in DOMAIN loc
    <3>1. at \in Seq(Name)
      BY PlaceIs
    <3>2. at = <<>>
      BY <2>1, <3>1
    <3> QED
      BY <1>1, <3>2
  <2> QED
    BY <1>4, <2>1
<1>6. ASSUME NEW k \in Nat, k \in T PROVE k + 1 \in T
  <2>1. ASSUME NEW at \in Places, Len(at) = k + 1 PROVE at \in DOMAIN loc
    <3>1. at \in Seq(Name)
      BY PlaceIs
    <3>2. at # <<>>
      BY <2>1
    <3>3. PICK up \in Seq(Name), n \in Name : at = Append(up, n)
      BY <3>1, <3>2, PathEnd
    <3>4. Len(up) = k
      <4>1. Len(at) = Len(up) + 1 /\ Len(up) \in Nat
        BY <3>3, AppendIs
      <4> QED
        BY <2>1, <4>1
    <3>5. Append(up, n) \in Places
      BY <3>3
    <3>6. IsDir(up)
      BY <3>5, PlaceBelow
    <3>7. up \in DOMAIN loc
      BY <1>4, <1>6, <3>4, <3>6 DEF IsDir
    <3>8. DirStored(o, up, loc)
      BY <1>3, <3>6, <3>7 DEF IsDir
    <3>9. PICK i \in 1 .. Len(listing(up)) : listing(up)[i] = n
      BY <3>5, <3>6, ListingIs DEF Lists
    <3>10. Kid(up, i) \in DOMAIN loc
      BY <3>8 DEF DirStored
    <3> QED
      BY <3>3, <3>9, <3>10 DEF Kid
  <2> QED
    BY <1>4, <2>1
<1>7. \A k \in Nat : k \in T
  BY <1>5, <1>6, Induction
<1>8. ASSUME NEW at \in Places PROVE at \in DOMAIN loc
  <2>1. Len(at) \in Nat
    BY PlaceIs
  <2> QED
    BY <1>4, <1>7, <2>1
<1>9. DOMAIN loc = Places
  BY <1>1, <1>8
<1> QED
  BY <1>1, <1>3, <1>9

(***************************************************************************)
(* get_directory_entry, position by position.                              *)
(***************************************************************************)
Seeks(w, path, n) == /\ w[0] = Outset
                     /\ \A k \in 1 .. n : w[k] = Seek(w[k - 1], path, k)

(* get_directory_entry, position by position.                              *)
LEMMA SeekSteps ==
    ASSUME NEW path, NEW n \in Nat, n = Len(path) + 1
    PROVE  \E w : Seeks(w, path, n) /\ get_directory_entry(path) = w[n]
<1>1. PICK a : a = Outset
  OBVIOUS
<1>2. PICK T : T = {m \in Nat : \E g : g = [k \in 0 .. m |-> IF k = 0 THEN a ELSE Seek(g[k - 1], path, k)]}
  OBVIOUS
<1>3. 0 \in T
  <2>1. PICK g : g = [k \in 0 .. 0 |-> a]
    OBVIOUS
  <2>2. g = [k \in 0 .. 0 |-> IF k = 0 THEN a ELSE Seek(g[k - 1], path, k)]
    BY <2>1
  <2> QED
    BY <1>2, <2>2
<1>4. ASSUME NEW m \in Nat, m \in T PROVE m + 1 \in T
  <2>1. PICK g : g = [k \in 0 .. m |-> IF k = 0 THEN a ELSE Seek(g[k - 1], path, k)]
    BY <1>2, <1>4
  <2>2. \A k \in 0 .. m : g[k] = IF k = 0 THEN a ELSE Seek(g[k - 1], path, k)
    BY <2>1, Zenon
  <2>3. PICK h : h = [k \in 0 .. (m + 1) |-> IF k = m + 1 THEN Seek(g[m], path, m + 1) ELSE g[k]]
    OBVIOUS
  <2>4. \A k \in 0 .. (m + 1) : h[k] = IF k = m + 1 THEN Seek(g[m], path, m + 1) ELSE g[k]
    BY <2>3, Zenon
  <2>5. ASSUME NEW k \in 0 .. (m + 1)
        PROVE  h[k] = IF k = 0 THEN a ELSE Seek(h[k - 1], path, k)
    <3>1. CASE k = m + 1
      <4>1. k # 0 /\ k - 1 = m /\ m \in 0 .. (m + 1) /\ m # m + 1
        BY <3>1
      <4>2. h[m] = g[m]
        BY <2>4, <4>1
      <4> QED
        BY <2>4, <3>1, <4>1, <4>2
    <3>2. CASE k # m + 1
      <4>1. k \in 0 .. m /\ h[k] = g[k]
        BY <2>4, <3>2
      <4>2. CASE k = 0
        BY <2>2, <4>1, <4>2
      <4>3. CASE k # 0
        <5>1. k - 1 \in 0 .. (m + 1) /\ k - 1 # m + 1
          BY <4>1, <4>3
        <5>2. h[k - 1] = g[k - 1]
          BY <2>4, <5>1
        <5> QED
          BY <2>2, <4>1, <4>3, <5>2
      <4> QED
        BY <4>2, <4>3
    <3> QED
      BY <3>1, <3>2
  <2>6. h = [k \in 0 .. (m + 1) |-> h[k]]
    BY <2>3, <2>4, Zenon
  <2>7. h = [k \in 0 .. (m + 1) |-> IF k = 0 THEN a ELSE Seek(h[k - 1], path, k)]
    BY <2>5, <2>6
  <2> QED
    BY <1>2, <2>7, SMTT(30)
<1>5. n \in T
  BY <1>3, <1>4, Induction
<1>6. PICK f : f = [k \in 0 .. n |-> IF k = 0 THEN a ELSE Seek(f[k - 1], path, k)]
  BY <1>2, <1>5
<1>7. PICK h : h = CHOOSE g : g = [k \in 0 .. n |-> IF k = 0 THEN a ELSE Seek(g[k - 1], path, k)]
  OBVIOUS
<1>8. h = [k \in 0 .. n |-> IF k = 0 THEN a ELSE Seek(h[k - 1], path, k)]
  BY <1>6, <1>7
<1>9. get_directory_entry(path) = h[n]
  BY <1>1, <1>7 DEF get_directory_entry, Seek, Outset
<1>10. \A k \in 0 .. n : h[k] = IF k = 0 THEN a ELSE Seek(h[k - 1], path, k)
  BY <1>8, Zenon
<1>11. 0 \in 0 .. n /\ \A k \in 1 .. n : k \in 0 .. n /\ k # 0
  OBVIOUS
<1>12. Seeks(h, path, n)
  BY <1>1, <1>10, <1>11 DEF Seeks
<1> QED
  BY <1>9, <1>12

(***************************************************************************)
(* One lookup.                                                             *)
(***************************************************************************)
(* The complete image.                                                     *)
Whole(loc) ==
    /\ DOMAIN loc = Places /\ loc[<<>>] = 1 /\ out[1] = Root
    /\ \A at \in Places : loc[at] \in Nat /\ loc[at] >= 1
    /\ \A at \in Places : host[at].type = "file" => FileStored(out, at, loc[at])
    /\ \A at \in Places : host[at].type = "dir" => DirStored(out, at, loc)

(* What an entry says of a place.                                          *)
Describes(entry, at, loc) ==
    /\ entry.type = host[at].type /\ entry.location = loc[at]
    /\ host[at].type = "file" => entry.size = Len(host[at].bytes)

(* The built image holds every place.                                      *)
LEMMA WholeImage ==
    ASSUME ImageInv, built
    PROVE  IsTree(host) /\ \E loc : Whole(loc) /\ Placed(loc, Len(out)) /\ Len(out) \in Nat
<1>1. IsTree(host)
  BY HostsAssumption DEF ImageInv
<1>2. PICK loc : Laying(out, stack, loc) /\ stack = <<>>
  BY DEF ImageInv
<1>3. PICK o, s : o = out /\ s = stack
  OBVIOUS
<1>4. /\ DOMAIN loc = Places
      /\ \A at \in Places : loc[at] \in Nat /\ loc[at] >= 1
      /\ \A at \in Places : host[at].type = "file" => FileStored(o, at, loc[at])
      /\ \A at \in Places : host[at].type = "dir" => DirStored(o, at, loc)
  BY <1>1, <1>2, <1>3, Complete
<1>5. out[1] = Root /\ loc[<<>>] = 1 /\ Placed(loc, Len(out)) /\ out \in Seq(Cells)
  BY <1>2 DEF Laying, Placed
<1>6. Len(out) \in Nat
  BY <1>5
<1> QED
  BY <1>1, <1>3, <1>4, <1>5, <1>6 DEF Whole

Pre(at, k) == SubSeq(at, 1, k)

(* A prefix and the next item.                                             *)
LEMMA PreIs ==
    ASSUME NEW W, NEW at \in Seq(W), NEW k \in Nat, k < Len(at)
    PROVE  /\ Pre(at, k) \in Seq(W) /\ at[k + 1] \in W
           /\ Pre(at, k + 1) = Append(Pre(at, k), at[k + 1])
<1>1. PICK p, q : p = Pre(at, k) /\ q = Pre(at, k + 1)
  OBVIOUS
<1>2. p \in Seq(W) /\ Len(p) = k /\ \A i \in 1 .. k : p[i] = at[i]
  BY <1>1 DEF Pre
<1>3. q \in Seq(W) /\ Len(q) = k + 1 /\ \A i \in 1 .. (k + 1) : q[i] = at[i]
  BY <1>1 DEF Pre
<1>4. k + 1 \in 1 .. Len(at) /\ k + 1 \in 1 .. (k + 1)
  OBVIOUS
<1>5. PICK x \in W : x = at[k + 1]
  BY <1>4
<1>6. PICK u : u = Append(p, x)
  OBVIOUS
<1>7. u \in Seq(W) /\ Len(u) = k + 1 /\ u[k + 1] = x /\ \A i \in 1 .. k : u[i] = p[i]
  BY <1>2, <1>6, AppendIs
<1>8. \A i \in 1 .. (k + 1) : i \in 1 .. k \/ i = k + 1
  OBVIOUS
<1>9. \A i \in 1 .. (k + 1) : u[i] = q[i]
  BY <1>2, <1>3, <1>4, <1>5, <1>7, <1>8
<1>10. u = q
  BY <1>3, <1>7, <1>9, SameText
<1> QED
  BY <1>1, <1>2, <1>5, <1>6, <1>10

(* On the way to a place lie directories.                                  *)
LEMMA PrePlaces ==
    ASSUME IsTree(host), NEW at \in Places, NEW k \in Nat, k < Len(at)
    PROVE  IsDir(Pre(at, k)) /\ Pre(at, k + 1) \in Places
<1>1. at \in Seq(Name)
  BY PlaceIs
<1>2. PICK m \in Nat : m = Len(at)
  BY <1>1
<1>3. PICK T : T = {j \in Nat : j < m => IsDir(Pre(at, m - (j + 1))) /\ Pre(at, m - j) \in Places}
  OBVIOUS
<1>4. ASSUME NEW i \in Nat, i < m, Pre(at, i + 1) \in Places PROVE IsDir(Pre(at, i))
  <2>1. Pre(at, i) \in Seq(Name) /\ at[i + 1] \in Name /\ Pre(at, i + 1) = Append(Pre(at, i), at[i + 1])
    BY <1>1, <1>2, <1>4, PreIs
  <2> QED
    BY <1>4, <2>1, PlaceBelow
<1>5. Pre(at, m) = at
  BY <1>1, <1>2 DEF Pre
<1>6. 0 \in T
  <2> SUFFICES ASSUME 0 < m PROVE IsDir(Pre(at, m - (0 + 1))) /\ Pre(at, m - 0) \in Places
    BY <1>3
  <2>1. PICK i \in Nat : i = m - (0 + 1) /\ i < m /\ i + 1 = m /\ m - 0 = m
    <3>1. m - (0 + 1) \in Nat /\ m - (0 + 1) < m /\ (m - (0 + 1)) + 1 = m /\ m - 0 = m
      OBVIOUS
    <3> QED
      BY <3>1
  <2> QED
    BY <1>4, <1>5, <2>1
<1>7. ASSUME NEW j \in Nat, j \in T PROVE j + 1 \in T
  <2> SUFFICES ASSUME j + 1 < m
               PROVE  IsDir(Pre(at, m - ((j + 1) + 1))) /\ Pre(at, m - (j + 1)) \in Places
    BY <1>3
  <2>1. j < m
    OBVIOUS
  <2>2. IsDir(Pre(at, m - (j + 1)))
    BY <1>3, <1>7, <2>1
  <2>3. PICK i \in Nat : i = m - ((j + 1) + 1) /\ i < m /\ i + 1 = m - (j + 1)
    <3>1. /\ m - ((j + 1) + 1) \in Nat /\ m - ((j + 1) + 1) < m
          /\ (m - ((j + 1) + 1)) + 1 = m - (j + 1)
      OBVIOUS
    <3> QED
      BY <3>1
  <2>4. Pre(at, i + 1) \in Places
    BY <2>2, <2>3 DEF IsDir
  <2> QED
    BY <1>4, <2>3, <2>4
<1>8. \A j \in Nat : j \in T
  BY <1>6, <1>7, Induction
<1>9. PICK j \in Nat : j < m /\ m - (j + 1) = k /\ m - j = k + 1
  <2>1. m - (k + 1) \in Nat /\ m - (k + 1) < m /\ m - ((m - (k + 1)) + 1) = k /\ m - (m - (k + 1)) = k + 1
    BY <1>2
  <2> QED
    BY <2>1
<1> QED
  BY <1>3, <1>8, <1>9

(* A file before the end of the path stands in the way.                    *)
Blocked(kid, path, pos) == host[kid].type = "file" /\ pos <= Len(path)

Descended(next, kid, path, pos, loc) ==
    IF kid \in Places /\ ~Blocked(kid, path, pos)
    THEN /\ next.found = TRUE /\ next.start = pos + 1 /\ Describes(next.entry, kid, loc)
         /\ host[kid].type = "dir" => next.dir = loc[kid]
    ELSE next.found = FALSE

(* One lookup finds the entry of the place below, if it is there.          *)
LEMMA DescendIs ==
    ASSUME IsTree(host), NEW loc, Whole(loc), NEW up, IsDir(up), NEW name \in Name,
           NEW at, at.dir = loc[up], NEW path, NEW pos, SubSeq(path, at.start, pos - 1) = name,
           NEW kid, kid = Append(up, name), NEW next, next = Descend(at, path, pos)
    PROVE  Descended(next, kid, path, pos, loc)
<1>1. up \in Places /\ host[up].type = "dir" /\ up \in Seq(Name)
  BY PlaceIs DEF IsDir
<1>2. PICK l \in Nat : l = loc[up]
  BY <1>1 DEF Whole
<1>3. DirStored(out, up, loc)
  BY <1>1 DEF Whole
<1>4. PICK n \in Nat : n = Len(listing(up)) /\ Lists(up, listing(up))
  BY <1>1, ExtentIs
<1>5. Cell(l).count = n
  <2>1. out[l + 1] = [count |-> n]
    BY <1>2, <1>3, <1>4 DEF DirStored
  <2> QED
    BY <2>1 DEF Cell
<1>6. ASSUME NEW i \in 1 .. n
      PROVE  /\ Cell(l + i) = EntryAt(up, i, loc[Kid(up, i)]) /\ Cell(l + i).name = listing(up)[i]
             /\ Kid(up, i) \in Places
  <2>1. out[l + 1 + i] = EntryAt(up, i, loc[Kid(up, i)])
    BY <1>2, <1>3, <1>4 DEF DirStored
  <2>2. (l + i) + 1 = l + 1 + i
    OBVIOUS
  <2>3. Cell(l + i) = EntryAt(up, i, loc[Kid(up, i)])
    BY <2>1, <2>2 DEF Cell
  <2>4. EntryAt(up, i, loc[Kid(up, i)]).name = listing(up)[i]
    BY DEF EntryAt
  <2> QED
    BY <1>4, <2>3, <2>4, KidIs
<1>7. PICK hits : hits = lookup(l, name)
  OBVIOUS
<1>8. hits \in SUBSET (1 .. n) /\ \A i \in 1 .. n : i \in hits <=> listing(up)[i] = name
  <2>1. hits = {i \in 1 .. n : Cell(l + i).name = name}
    BY <1>5, <1>7 DEF lookup
  <2> QED
    BY <1>6, <2>1
<1>9. PICK entry : entry = Cell(l + Min(hits))
  OBVIOUS
<1>10. next = IF hits = {} \/ (entry.type = "file" /\ pos <= Len(path)) THEN NoEntry
              ELSE [found |-> TRUE, entry |-> entry, start |-> pos + 1,
                    dir |-> IF entry.type = "dir" THEN entry.location ELSE at.dir]
  BY <1>2, <1>7, <1>9 DEF Descend, EndsAtFile
<1>11. NoEntry.found = FALSE
  BY DEF NoEntry
<1>12. CASE kid \in Places
  <2>1. PICK i \in 1 .. n : listing(up)[i] = name
    BY <1>4, <1>12 DEF Lists
  <2>2. i \in hits
    BY <1>8, <2>1
  <2>3. Min(hits) = i
    <3>1. hits \in SUBSET Nat /\ hits # {}
      BY <1>8, <2>2
    <3>2. PICK m : m = Min(hits)
      OBVIOUS
    <3>3. m \in hits
      BY <3>1, <3>2, Least
    <3>4. m \in 1 .. n /\ listing(up)[m] = listing(up)[i]
      BY <1>8, <2>1, <3>3
    <3>5. m = i
      <4>1. DOMAIN listing(up) = 1 .. n
        BY <1>4 DEF Lists
      <4> QED
        BY <1>4, <3>4, <4>1 DEF Lists, Distinct
    <3> QED
      BY <3>2, <3>5
  <2>4. Kid(up, i) = kid
    BY <2>1 DEF Kid
  <2>5. entry = EntryAt(up, i, loc[kid])
    BY <1>6, <1>9, <2>3, <2>4
  <2>6. /\ entry.type = host[kid].type /\ entry.location = loc[kid]
        /\ (host[kid].type = "file" => entry.size = Len(host[kid].bytes))
    BY <2>4, <2>5 DEF EntryAt
  <2>7. Describes(entry, kid, loc)
    BY <2>6 DEF Describes
  <2>8. hits # {}
    BY <2>2
  <2>9. CASE host[kid].type = "file" /\ pos <= Len(path)
    <3>1. next = NoEntry
      BY <1>10, <2>6, <2>9
    <3> QED
      BY <1>11, <2>9, <3>1 DEF Descended, Blocked
  <2>10. CASE ~(host[kid].type = "file" /\ pos <= Len(path))
    <3>1. next = [found |-> TRUE, entry |-> entry, start |-> pos + 1,
                  dir |-> IF entry.type = "dir" THEN entry.location ELSE at.dir]
      BY <1>10, <2>6, <2>8, <2>10
    <3>2. /\ next.found = TRUE /\ next.entry = entry /\ next.start = pos + 1
          /\ next.dir = IF entry.type = "dir" THEN entry.location ELSE at.dir
      BY <3>1
    <3> QED
      BY <1>12, <2>6, <2>7, <2>10, <3>2 DEF Descended, Blocked
  <2> QED
    BY <2>9, <2>10
<1>13. CASE kid \notin Places
  <2>1. ASSUME NEW i \in hits PROVE FALSE
    <3>1. i \in 1 .. n /\ listing(up)[i] = name
      BY <1>8, <2>1
    <3>2. Append(up, listing(up)[i]) \in Places
      BY <1>4, <3>1 DEF Lists
    <3> QED
      BY <1>13, <3>1, <3>2
  <2>2. next = NoEntry
    BY <1>10, <2>1
  <2> QED
    BY <1>11, <1>13, <2>2 DEF Descended
<1> QED
  BY <1>12, <1>13

(***************************************************************************)
(* The walk along a path name.                                             *)
(***************************************************************************)
IsSlice(f, text, p, y) == Len(f) = y /\ \A j \in 1 .. y : f[j] = text[p + j]

(* A part of a text.                                                       *)
LEMMA SliceIs ==
    ASSUME NEW C, NEW text \in Seq(C), NEW p \in Nat, NEW y \in Nat, y >= 1, p + y <= Len(text),
           NEW f, f = SubSeq(text, p + 1, p + y)
    PROVE  f \in Seq(C) /\ IsSlice(f, text, p, y)
<1>1. PICK a, b \in 1 .. Len(text) : a = p + 1 /\ b = p + y /\ a <= b
  <2>1. p + 1 \in 1 .. Len(text) /\ p + y \in 1 .. Len(text) /\ p + 1 <= p + y
    OBVIOUS
  <2> QED
    BY <2>1
<1>2. f = [j \in 1 .. (b - a + 1) |-> text[a + j - 1]]
  BY <1>1
<1>3. b - a + 1 = y /\ \A j \in 1 .. y : a + j - 1 = p + j
  BY <1>1
<1>4. DOMAIN f = 1 .. y /\ f = [j \in 1 .. y |-> f[j]] /\ \A j \in 1 .. y : f[j] = text[p + j]
  BY <1>2, <1>3
<1>5. ASSUME NEW j \in 1 .. y PROVE f[j] \in C
  <2>1. p + j \in 1 .. Len(text)
    OBVIOUS
  <2>2. text[p + j] \in C
    BY <2>1
  <2> QED
    BY <1>4, <2>2
<1>6. f \in [1 .. y -> C]
  BY <1>4, <1>5
<1>7. f \in Seq(C) /\ Len(f) = y
  BY <1>6
<1> QED
  BY <1>4, <1>7 DEF IsSlice

NoBreak(path, p, r) == \A c \in 1 .. r : ~Breaks(path, p + c)

(* Within a component nothing changes.                                     *)
LEMMA SeekStays ==
    ASSUME NEW w, NEW path, NEW n \in Nat, Seeks(w, path, n),
           NEW p \in Nat, NEW r \in Nat, p + r <= n,
           NoBreak(path, p, r)
    PROVE  w[p + r] = w[p]
<1>1. PICK T : T = {j \in Nat : j <= r => w[p + j] = w[p]}
  OBVIOUS
<1>2. 0 \in T
  <2>1. p + 0 = p
    OBVIOUS
  <2> QED
    BY <1>1, <2>1
<1>3. ASSUME NEW j \in Nat, j \in T PROVE j + 1 \in T
  <2> SUFFICES ASSUME j + 1 <= r PROVE w[p + (j + 1)] = w[p]
    BY <1>1
  <2>1. w[p + j] = w[p]
    BY <1>1, <1>3
  <2>2. PICK x \in 1 .. n : x = p + (j + 1) /\ x - 1 = p + j
    <3>1. p + (j + 1) \in 1 .. n /\ (p + (j + 1)) - 1 = p + j
      OBVIOUS
    <3> QED
      BY <3>1
  <2>3. ~Breaks(path, x)
    <3>1. j + 1 \in 1 .. r
      OBVIOUS
    <3> QED
      BY <2>2, <3>1 DEF NoBreak
  <2>4. w[x] = Seek(w[x - 1], path, x)
    BY <2>2 DEF Seeks
  <2>5. w[x] = w[x - 1]
    BY <2>3, <2>4 DEF Seek
  <2> QED
    BY <2>1, <2>2, <2>5
<1>4. r \in T
  BY <1>2, <1>3, Induction
<1> QED
  BY <1>1, <1>4

(* Names lie one behind the other.                                         *)
LEMMA LaidBounds ==
    ASSUME NEW path, NEW at, NEW m \in Nat, m = Len(at), NEW L \in [0 .. m -> Nat],
           Laid(path, at, L), \A k \in 1 .. m : Len(at[k]) \in Nat
    PROVE  \A k \in 0 .. m : L[k] <= L[m]
<1>1. PICK T : T = {j \in Nat : j <= m => L[m - j] <= L[m]}
  OBVIOUS
<1>2. 0 \in T
  <2>1. m - 0 = m /\ L[m] \in Nat
    OBVIOUS
  <2>2. L[m] <= L[m]
    BY <2>1
  <2> QED
    BY <1>1, <2>1, <2>2
<1>3. ASSUME NEW j \in Nat, j \in T PROVE j + 1 \in T
  <2> SUFFICES ASSUME j + 1 <= m PROVE L[m - (j + 1)] <= L[m]
    BY <1>1
  <2>1. L[m - j] <= L[m]
    BY <1>1, <1>3
  <2>2. PICK k \in 1 .. m : k = m - j /\ k - 1 = m - (j + 1)
    <3>1. m - j \in 1 .. m /\ (m - j) - 1 = m - (j + 1)
      OBVIOUS
    <3> QED
      BY <3>1
  <2>3. L[k] = L[k - 1] + 1 + Len(at[k]) /\ Len(at[k]) \in Nat
    BY DEF Laid
  <2>4. L[k] \in Nat /\ L[k - 1] \in Nat /\ L[m] \in Nat
    <3>1. k \in 0 .. m /\ k - 1 \in 0 .. m /\ m \in 0 .. m
      OBVIOUS
    <3> QED
      BY <3>1
  <2>5. PICK a, b, c, d \in Nat : /\ a = L[k] /\ b = L[k - 1] /\ c = Len(at[k]) /\ d = L[m]
                                  /\ a = b + 1 + c /\ a <= d
    BY <2>1, <2>2, <2>3, <2>4
  <2>6. b <= d
    BY <2>5, SMTT(30)
  <2> QED
    BY <2>2, <2>5, <2>6
<1>4. \A j \in Nat : j \in T
  BY <1>2, <1>3, Induction
<1>5. ASSUME NEW k \in 0 .. m PROVE L[k] <= L[m]
  <2>1. PICK j \in Nat : j <= m /\ m - j = k
    <3>1. m - k \in Nat /\ m - k <= m /\ m - (m - k) = k
      OBVIOUS
    <3> QED
      BY <3>1
  <2> QED
    BY <1>1, <1>4, <2>1
<1> QED
  BY <1>5

(* The walk is still on the way to a place, or has left the tree.          *)
OnWay(st, at, k, start, loc) ==
    /\ st.found = TRUE /\ st.start = start /\ Pre(at, k) \in Places
    /\ Describes(st.entry, Pre(at, k), loc)
    /\ k < Len(at) => IsDir(Pre(at, k)) /\ st.dir = loc[Pre(at, k)]

Astray(st, at) == st.found = FALSE /\ at \notin Places

(* The walk sets out from the root.                                        *)
LEMMA OutsetIs ==
    ASSUME IsTree(host), NEW loc, Whole(loc), NEW w, NEW path, NEW n \in Nat, n >= 1,
           Seeks(w, path, n), Breaks(path, 1), NEW e, e = <<>>
    PROVE  /\ w[1].found = TRUE /\ w[1].start = 2 /\ IsDir(e) /\ w[1].dir = loc[e]
           /\ Describes(w[1].entry, e, loc)
<1>1. 1 \in 1 .. n
  OBVIOUS
<1>2. w[1] = Seek(w[0], path, 1)
  <2>1. 1 - 1 = 0
    OBVIOUS
  <2>2. w[1] = Seek(w[1 - 1], path, 1)
    BY <1>1 DEF Seeks
  <2> QED
    BY <2>1, <2>2
<1>3. w[0] = [found |-> TRUE, entry |-> Root, start |-> 1, dir |-> Root.location]
  <2>1. Cell(0) = Root
    BY DEF Cell, Whole
  <2> QED
    BY <2>1 DEF Seeks, Outset
<1>4. PICK a : a = w[0]
  OBVIOUS
<1>5. a.found = TRUE /\ a.start = 1
  BY <1>3, <1>4
<1>6. Seek(a, path, 1) = [a EXCEPT !.start = 1 + 1]
  BY <1>5 DEF Seek
<1>7. Root.location = 1 /\ Root.type = "dir"
  BY DEF Root
<1>8. w[1].found = TRUE /\ w[1].start = 2 /\ w[1].dir = 1 /\ w[1].entry = Root
  BY <1>2, <1>3, <1>4, <1>6, <1>7
<1>9. IsDir(e) /\ loc[e] = 1
  BY RootPlace DEF Whole
<1>10. Describes(Root, e, loc)
  BY <1>7, <1>9 DEF Describes, IsDir
<1> QED
  BY <1>8, <1>9, <1>10

(* A component of a path name: from behind one slash to the next.          *)
NextName(path, at, k, name, y, p, q) ==
    /\ y >= 1 /\ p >= 1 /\ q = p + y + 1 /\ q <= Len(path) + 1
    /\ \A j \in 1 .. y : path[p + j] = name[j]
    /\ k + 1 = Len(at) => q = Len(path) + 1
    /\ k + 1 < Len(at) => q <= Len(path) /\ path[q] = SLASH

(* Where a component ends.                                                 *)
NameEnds(path, at, k, p, q, y, n) ==
    /\ Len(path) \in Nat /\ q - 1 = p + y /\ q - 1 <= Len(path)
    /\ q \in 1 .. n /\ q - 1 \in Nat /\ p + y <= n /\ q > p + 1
    /\ k + 1 = Len(at) => q = Len(path) + 1
    /\ k + 1 < Len(at) => q <= Len(path)

(* A component that has been reached ends at the next slash or at the end, *)
(* and is the text up to there.                                            *)
LEMMA NextNameIs ==
    ASSUME NEW path \in Seq(STRING), NEW at, Len(at) \in Nat, NEW k \in Nat, k < Len(at),
           NEW name \in Name, NEW y \in Nat, y = Len(name),
           NEW p \in Nat, NEW q \in Nat, NextName(path, at, k, name, y, p, q),
           NEW n, n = Len(path) + 1
    PROVE  /\ NameEnds(path, at, k, p, q, y, n)
           /\ NoBreak(path, p, y) /\ Breaks(path, q)
           /\ SubSeq(path, p + 1, q - 1) = name
<1>0. name \in Seq(STRING) /\ \A i \in 1 .. y : name[i] # SLASH
  BY NameType
<1>1. PICK N, K : N = Len(path) /\ K = Len(at)
  OBVIOUS
<1>2. N \in Nat /\ K \in Nat
  BY <1>1
<1>3. /\ y >= 1 /\ p >= 1 /\ q = p + y + 1 /\ q <= N + 1
      /\ k + 1 = K => q = N + 1
      /\ k + 1 < K => q <= N /\ path[q] = SLASH
  BY <1>1 DEF NextName
<1>4. \A j \in 1 .. y : path[p + j] = name[j]
  BY DEF NextName
<1>5. /\ q - 1 = p + y /\ q - 1 <= N /\ q \in 1 .. (N + 1) /\ q - 1 \in Nat
      /\ p + y <= N + 1 /\ q > p + 1 /\ p + y <= N
  BY <1>2, <1>3
<1>6. NoBreak(path, p, y)
  <2>1. ASSUME NEW c \in 1 .. y PROVE ~Breaks(path, p + c)
    <3>1. path[p + c] # SLASH
      BY <1>0, <1>4
    <3>2. p + c # N + 1
      BY <1>2, <1>5
    <3> QED
      BY <1>1, <3>1, <3>2 DEF Breaks
  <2> QED
    BY <2>1 DEF NoBreak
<1>7. Breaks(path, q)
  <2>1. k + 1 = K \/ k + 1 < K
    BY <1>1, <1>2
  <2> QED
    BY <1>1, <1>3, <2>1 DEF Breaks
<1>8. SubSeq(path, p + 1, q - 1) = name
  <2>1. PICK C, f : C = STRING /\ f = SubSeq(path, p + 1, p + y)
    OBVIOUS
  <2>2. f \in Seq(C) /\ IsSlice(f, path, p, y)
    BY <1>1, <1>3, <1>5, <2>1, SliceIs
  <2>3. Len(f) = y /\ \A j \in 1 .. y : f[j] = path[p + j]
    BY <2>2 DEF IsSlice
  <2>4. \A j \in 1 .. y : f[j] = name[j]
    BY <1>4, <2>3
  <2>5. f = name
    BY <1>0, <2>1, <2>2, <2>3, <2>4, SameText
  <2> QED
    BY <1>5, <2>1, <2>5
<1> QED
  <2>1. NameEnds(path, at, k, p, q, y, n)
    BY <1>1, <1>2, <1>3, <1>5 DEF NameEnds
  <2> QED
    BY <1>6, <1>7, <1>8, <2>1

(* One component further.                                                  *)
LEMMA SeekName ==
    ASSUME IsTree(host), NEW loc, Whole(loc), NEW at \in Seq(Name), NEW path \in Seq(STRING),
           NEW k \in Nat, k < Len(at), NEW name, name = at[k + 1], NEW y \in Nat, y = Len(name),
           NEW p \in Nat, NEW q \in Nat, NextName(path, at, k, name, y, p, q),
           NEW w, NEW n \in Nat, n = Len(path) + 1, Seeks(w, path, n),
           OnWay(w[p], at, k, p + 1, loc) \/ Astray(w[p], at)
    PROVE  OnWay(w[q], at, k + 1, q + 1, loc) \/ Astray(w[q], at)
<1>1. name \in Name /\ Pre(at, k) \in Seq(Name) /\ Pre(at, k + 1) = Append(Pre(at, k), name)
  BY PreIs
<1>2. /\ NameEnds(path, at, k, p, q, y, n)
      /\ NoBreak(path, p, y) /\ Breaks(path, q) /\ SubSeq(path, p + 1, q - 1) = name
  <2>1. Len(at) \in Nat
    OBVIOUS
  <2> QED
    BY <1>1, <2>1, NextNameIs, SMTT(30)
<1>3. /\ Len(path) \in Nat /\ q - 1 = p + y /\ q - 1 <= Len(path)
      /\ q \in 1 .. n /\ q - 1 \in Nat /\ p + y <= n /\ q > p + 1
      /\ k + 1 = Len(at) => q = Len(path) + 1
      /\ k + 1 < Len(at) => q <= Len(path)
  BY <1>2 DEF NameEnds
<1>4. w[p + y] = w[p]
  BY <1>2, <1>3, SeekStays, SMTT(30)
<1>5. PICK a, b : a = w[p] /\ b = w[q]
  OBVIOUS
<1>6. b = Seek(a, path, q)
  <2>1. w[q] = Seek(w[q - 1], path, q)
    BY <1>3 DEF Seeks
  <2> QED
    BY <1>3, <1>4, <1>5, <2>1
<1>7. Breaks(path, q)
  BY <1>2
<1>8. CASE Astray(a, at)
  <2>1. b = a
    BY <1>6, <1>8 DEF Seek, Astray
  <2> QED
    BY <1>5, <1>8, <2>1
<1>9. CASE OnWay(a, at, k, p + 1, loc)
  <2>1. PICK up, kid : up = Pre(at, k) /\ kid = Pre(at, k + 1)
    OBVIOUS
  <2>2. a.found = TRUE /\ a.start = p + 1 /\ IsDir(up) /\ a.dir = loc[up] /\ kid = Append(up, name)
    BY <1>1, <1>9, <2>1 DEF OnWay
  <2>3. q > a.start
    BY <1>3, <2>2
  <2>4. b = Descend(a, path, q)
    BY <1>6, <1>7, <2>2, <2>3 DEF Seek
  <2>5. SubSeq(path, a.start, q - 1) = name
    BY <1>2, <2>2
  <2>7. Descended(b, kid, path, q, loc)
    BY <1>1, <2>2, <2>4, <2>5, DescendIs, ZenonT(60)
  <2>8. CASE kid \in Places /\ ~Blocked(kid, path, q)
    <3>1. ASSUME k + 1 < Len(at) PROVE IsDir(kid) /\ b.dir = loc[kid]
      <4>1. host[kid].type # "file"
        BY <1>3, <2>8, <3>1 DEF Blocked
      <4>2. host[kid].type = "dir"
        BY <2>8, <4>1, PlaceIs
      <4> QED
        BY <2>7, <2>8, <4>2 DEF IsDir, Descended
    <3>2. OnWay(b, at, k + 1, q + 1, loc)
      BY <2>1, <2>7, <2>8, <3>1 DEF OnWay, Descended
    <3> QED
      BY <1>5, <3>2
  <2>9. CASE ~(kid \in Places /\ ~Blocked(kid, path, q))
    <3>1. b.found = FALSE
      BY <2>7, <2>9 DEF Descended
    <3>2. ASSUME at \in Places PROVE FALSE
      <4>1. kid \in Places
        BY <2>1, <3>2, PrePlaces
      <4>2. host[kid].type = "file" /\ q <= Len(path)
        BY <2>9, <4>1 DEF Blocked
      <4>3. k + 1 < Len(at)
        <5>1. k + 1 # Len(at)
          BY <1>3, <4>2
        <5>2. Len(at) \in Nat
          OBVIOUS
        <5> QED
          BY <5>1, <5>2
      <4>4. k + 1 \in Nat
        OBVIOUS
      <4>5. IsDir(Pre(at, k + 1))
        BY <3>2, <4>3, <4>4, PrePlaces
      <4> QED
        BY <2>1, <4>2, <4>5 DEF IsDir
    <3> QED
      BY <1>5, <3>1, <3>2 DEF Astray
  <2> QED
    BY <2>8, <2>9
<1> QED
  BY <1>5, <1>8, <1>9

(* What the kernel must answer for a place.                                *)
Answers(r, at, loc) ==
    IF at \in Places THEN r.found = TRUE /\ Describes(r.entry, at, loc) ELSE r.found = FALSE

(* The root is found.                                                      *)
LEMMA FoundRoot ==
    ASSUME IsTree(host), NEW loc, Whole(loc), NEW e, e = <<>>,
           NEW r, r = get_directory_entry(PathOf(e))
    PROVE  Answers(r, e, loc)
<1>1. PICK path : path = <<SLASH>> /\ path = PathOf(e)
  BY DEF PathOf
<1>2. Len(path) = 1 /\ path[1] = SLASH
  BY <1>1, OneSlash
<1>3. PICK n \in Nat : n = Len(path) + 1 /\ n = 2 /\ n >= 1
  <2>1. 1 + 1 = 2 /\ 2 \in Nat /\ 2 >= 1
    OBVIOUS
  <2> QED
    BY <1>2, <2>1
<1>4. PICK w : Seeks(w, path, n) /\ get_directory_entry(path) = w[n]
  BY <1>3, SeekSteps
<1>5. Breaks(path, 1) /\ Breaks(path, 2)
  <2>1. 2 = Len(path) + 1
    BY <1>3
  <2> QED
    BY <1>2, <2>1 DEF Breaks
<1>6. PICK a : a = w[1]
  OBVIOUS
<1>7. a.found = TRUE /\ a.start = 2 /\ IsDir(e) /\ Describes(a.entry, e, loc)
  BY <1>3, <1>4, <1>5, <1>6, OutsetIs
<1>8. w[2] = Seek(a, path, 2)
  <2>1. 2 \in 1 .. n /\ 2 - 1 = 1
    BY <1>3
  <2>2. w[2] = Seek(w[2 - 1], path, 2)
    BY <1>4, <2>1 DEF Seeks
  <2> QED
    BY <1>6, <2>1, <2>2
<1>9. w[2] = [a EXCEPT !.start = 2 + 1]
  BY <1>5, <1>7, <1>8 DEF Seek
<1>10. DOMAIN a = {"found", "entry", "start", "dir"}
  <2>1. w[1] = Seek(w[0], path, 1)
    <3>1. 1 \in 1 .. n /\ 1 - 1 = 0
      BY <1>3
    <3>2. w[1] = Seek(w[1 - 1], path, 1)
      BY <1>4, <3>1 DEF Seeks
    <3> QED
      BY <3>1, <3>2
  <2>2. PICK b : b = w[0] /\ b = Outset
    BY <1>4 DEF Seeks
  <2>3. b.found = TRUE /\ b.start = 1 /\ DOMAIN b = {"found", "entry", "start", "dir"}
    BY <2>2 DEF Outset
  <2>4. a = [b EXCEPT !.start = 1 + 1]
    BY <1>5, <1>6, <2>1, <2>2, <2>3 DEF Seek
  <2> QED
    BY <2>3, <2>4
<1>11. w[2].found = a.found /\ w[2].entry = a.entry
  BY <1>9, <1>10
<1> QED
  BY <1>1, <1>3, <1>4, <1>7, <1>11 DEF Answers, IsDir

(* Any other place is found, and nothing else.                             *)
LEMMA FoundBelow ==
    ASSUME IsTree(host), NEW loc, Whole(loc), NEW at \in Seq(Name), at # <<>>,
           NEW r, r = get_directory_entry(PathOf(at))
    PROVE  Answers(r, at, loc)
<1>1. PICK path \in Seq(STRING) : path = PathOf(at) /\ path = Full(at)
  BY PathEnd
<1>2. PICK m \in Nat : m = Len(at) /\ m >= 1
  OBVIOUS
<1>3. PICK L \in [0 .. m -> Nat] : Laid(path, at, L)
  <2>1. at \in Seq(Seq(STRING))
    BY PlaceType
  <2>2. PICK C : C = STRING
    OBVIOUS
  <2>3. SLASH \in C /\ at \in Seq(Seq(C))
    BY <2>1, <2>2, HostsAssumption
  <2> QED
    BY <1>1, <1>2, <2>3, PathLaid
<1>4. ASSUME NEW k \in 1 .. m
      PROVE  at[k] \in Name /\ Len(at[k]) \in Nat /\ Len(at[k]) >= 1
  BY <1>2, NameType
<1>5. \A k \in 0 .. m : L[k] <= L[m]
  BY <1>2, <1>3, <1>4, LaidBounds
<1>6. PICK n \in Nat : n = Len(path) + 1 /\ n = L[m] + 1 /\ L[0] = 0 /\ n >= 1
  <2>1. L[m] \in Nat /\ Len(path) = L[m] /\ L[0] = 0
    BY <1>2, <1>3 DEF Laid
  <2> QED
    BY <2>1
<1>7. PICK w : Seeks(w, path, n) /\ get_directory_entry(path) = w[n]
  BY <1>6, SeekSteps
<1>8. PICK T : T = {k \in Nat : k <= m => \/ OnWay(w[L[k] + 1], at, k, L[k] + 2, loc)
                                           \/ Astray(w[L[k] + 1], at)}
  OBVIOUS
<1>9. ASSUME NEW k \in 1 .. m
      PROVE  /\ L[k] \in Nat /\ L[k - 1] \in Nat /\ L[k] = L[k - 1] + 1 + Len(at[k])
             /\ path[L[k - 1] + 1] = SLASH
             /\ \A j \in 1 .. Len(at[k]) : path[L[k - 1] + 1 + j] = at[k][j]
  <2>1. k \in 0 .. m /\ k - 1 \in 0 .. m
    OBVIOUS
  <2>2. L[k] \in Nat /\ L[k - 1] \in Nat
    BY <2>1
  <2> QED
    BY <1>2, <1>3, <2>2 DEF Laid
<1>10. 0 \in T
  <2>1. Breaks(path, 1)
    <3>1. 1 \in 1 .. m /\ 1 - 1 = 0
      BY <1>2
    <3>2. path[L[1 - 1] + 1] = SLASH
      BY <1>9, <3>1
    <3>3. path[1] = SLASH
      BY <1>6, <3>1, <3>2
    <3> QED
      BY <3>3 DEF Breaks
  <2>2. PICK e : e = <<>>
    OBVIOUS
  <2>3. /\ w[1].found = TRUE /\ w[1].start = 2 /\ IsDir(e) /\ w[1].dir = loc[e]
        /\ Describes(w[1].entry, e, loc)
    BY <1>6, <1>7, <2>1, <2>2, OutsetIs
  <2>4. Pre(at, 0) = e
    BY <2>2 DEF Pre
  <2>5. OnWay(w[1], at, 0, 2, loc)
    BY <2>3, <2>4 DEF OnWay, IsDir
  <2>6. L[0] + 1 = 1 /\ L[0] + 2 = 2
    BY <1>6
  <2>7. OnWay(w[L[0] + 1], at, 0, L[0] + 2, loc)
    BY <2>5, <2>6
  <2> QED
    BY <1>8, <2>7
<1>11. ASSUME NEW k \in Nat, k \in T PROVE k + 1 \in T
  <2> SUFFICES ASSUME k + 1 <= m
               PROVE  \/ OnWay(w[L[k + 1] + 1], at, k + 1, L[k + 1] + 2, loc)
                      \/ Astray(w[L[k + 1] + 1], at)
    BY <1>8
  <2>1. k < Len(at) /\ k <= m /\ k + 1 \in 1 .. m /\ (k + 1) - 1 = k /\ k + 1 \in Nat
    BY <1>2
  <2>2a. PICK name : name = at[k + 1]
    OBVIOUS
  <2>2. PICK y \in Nat : name = at[k + 1] /\ y = Len(name)
    BY <1>4, <2>1, <2>2a
  <2>3. name \in Name /\ y >= 1 /\ y \in Nat
    BY <1>4, <2>1, <2>2
  <2>4. /\ L[k + 1] \in Nat /\ L[k] \in Nat /\ L[k + 1] = L[k] + 1 + y
        /\ \A j \in 1 .. y : path[L[k] + 1 + j] = name[j]
    BY <1>9, <2>1, <2>2
  <2>5a. PICK a, b \in Nat : a = L[k] /\ b = L[k + 1] /\ b = a + 1 + y
    BY <2>4
  <2>5b. PICK p, q \in Nat : p = a + 1 /\ q = b + 1
    <3>1. a + 1 \in Nat /\ b + 1 \in Nat
      OBVIOUS
    <3> QED
      BY <3>1
  <2>5c. p >= 1 /\ q = p + y + 1 /\ a + 2 = p + 1 /\ b + 2 = q + 1
    <3>1. b = a + 1 + y
      BY <2>5a
    <3> QED
      BY <2>5b, <3>1
  <2>5. /\ p = L[k] + 1 /\ q = L[k + 1] + 1 /\ p >= 1 /\ q = p + y + 1
        /\ L[k] + 2 = p + 1 /\ L[k + 1] + 2 = q + 1
    BY <2>5a, <2>5b, <2>5c
  <2>6. OnWay(w[p], at, k, p + 1, loc) \/ Astray(w[p], at)
    BY <1>8, <1>11, <2>1, <2>5
  <2>7. q <= Len(path) + 1
    <3>1. L[k + 1] <= L[m] /\ L[m] \in Nat
      <4>1. k + 1 \in 0 .. m /\ m \in 0 .. m
        BY <2>1
      <4> QED
        BY <1>5, <4>1
    <3>2. PICK d \in Nat : d = L[m] /\ b <= d /\ Len(path) + 1 = d + 1
      BY <1>6, <2>5a, <3>1
    <3>3. q <= d + 1
      BY <2>5b, <3>2
    <3> QED
      BY <3>2, <3>3
  <2>8. ASSUME k + 1 = Len(at) PROVE q = Len(path) + 1
    BY <1>2, <1>6, <2>5, <2>8
  <2>9. ASSUME k + 1 < Len(at) PROVE q <= Len(path) /\ path[q] = SLASH
    <3>1. PICK i \in 1 .. m : i = k + 2 /\ i - 1 = k + 1
      <4>1. k + 2 \in 1 .. m /\ (k + 2) - 1 = k + 1
        BY <1>2, <2>9
      <4> QED
        BY <4>1
    <3>2. L[i] = L[k + 1] + 1 + Len(at[i]) /\ path[L[k + 1] + 1] = SLASH /\ L[i] \in Nat
      BY <1>9, <3>1
    <3>3. L[i] <= L[m] /\ L[m] \in Nat /\ Len(at[i]) \in Nat
      <4>1. i \in 0 .. m /\ m \in 0 .. m
        OBVIOUS
      <4> QED
        BY <1>4, <1>5, <4>1
    <3>4. Len(path) = L[m]
      BY <1>2, <1>3 DEF Laid
    <3>5. PICK c, d, x \in Nat : c = Len(at[i]) /\ d = L[m] /\ x = L[i] /\ x = b + 1 + c /\ x <= d
      BY <2>5a, <3>2, <3>3
    <3>6. q <= d
      <4>1. x = b + 1 + c /\ x <= d
        BY <3>5
      <4> QED
        BY <2>5b, <4>1
    <3> QED
      BY <2>5, <3>2, <3>4, <3>5, <3>6
  <2>10. \A j \in 1 .. y : path[p + j] = name[j]
    BY <2>4, <2>5
  <2>11. OnWay(w[q], at, k + 1, q + 1, loc) \/ Astray(w[q], at)
    <3>1. k < Len(at) /\ name = at[k + 1] /\ y = Len(name) /\ n = Len(path) + 1
      BY <1>6, <2>1, <2>2
    <3>2. Seeks(w, path, n)
      BY <1>7
    <3>3. NextName(path, at, k, name, y, p, q)
      BY <2>3, <2>5, <2>7, <2>8, <2>9, <2>10 DEF NextName
    <3> QED
      BY <2>6, <3>1, <3>2, <3>3, SeekName, SMTT(30)
  <2> QED
    BY <2>5, <2>11
<1>12. m \in T
  BY <1>10, <1>11, Induction
<1>13. \/ OnWay(w[n], at, m, n + 1, loc)
       \/ Astray(w[n], at)
  <2>1. L[m] + 1 = n /\ L[m] + 2 = n + 1
    <3>1. L[m] \in Nat
      OBVIOUS
    <3> QED
      BY <1>6, <3>1, SMTT(30)
  <2>2. m <= m
    OBVIOUS
  <2> QED
    BY <1>8, <1>12, <2>1, <2>2
<1>14. Pre(at, m) = at
  BY <1>2 DEF Pre
<1>15. r = w[n]
  BY <1>1, <1>7
<1> QED
  BY <1>13, <1>14, <1>15 DEF Answers, OnWay, Astray

(* get_directory_entry finds exactly the places, and their right entries.  *)
LEMMA Found ==
    ASSUME IsTree(host), NEW loc, Whole(loc), NEW at \in Seq(Name),
           NEW r, r = get_directory_entry(PathOf(at))
    PROVE  Answers(r, at, loc)
<1>1. CASE at = <<>>
  BY <1>1, FoundRoot
<1>2. CASE at # <<>>
  BY <1>2, FoundBelow
<1> QED
  BY <1>1, <1>2

(***************************************************************************)
(* The image is a partition.                                               *)
(***************************************************************************)
(* The area of a place.                                                    *)
LEMMA AreaIs ==
    ASSUME IsTree(host), NEW loc, Whole(loc), NEW at \in Places
    PROVE  /\ get_directory_entry(PathOf(at)).found = TRUE
           /\ \A c : c \in Area(at) <=> c \in Nat /\ Covers(loc, at, c)
<1>1. PICK r : r = get_directory_entry(PathOf(at))
  OBVIOUS
<1>2. at \in Seq(Name) /\ host[at].type \in {"file", "dir"}
  BY PlaceIs
<1>3. Answers(r, at, loc)
  BY <1>1, <1>2, Found
<1>4. r.found = TRUE /\ r.entry.location = loc[at]
  BY <1>3 DEF Answers, Describes
<1>5. PICK l \in Nat : l = loc[at]
  BY DEF Whole
<1>6. PICK e \in Nat : e = Len(Content(at))
  BY ExtentIs
<1>7. Extent(at) = e + IF host[at].type = "file" THEN 0 ELSE 1
  BY <1>6 DEF Extent
<1>8. Area(at) = l .. (l + e - (IF host[at].type = "file" THEN 1 ELSE 0))
  BY <1>1, <1>4, <1>5, <1>6 DEF Area
<1>9. ASSUME NEW c PROVE c \in Area(at) <=> c \in Nat /\ Covers(loc, at, c)
  <2>1. CASE host[at].type = "file"
    <3>1. Extent(at) = e /\ Area(at) = l .. (l + e - 1)
      BY <1>7, <1>8, <2>1
    <3> QED
      BY <1>5, <3>1 DEF Covers
  <2>2. CASE host[at].type = "dir"
    <3>1. Extent(at) = e + 1 /\ Area(at) = l .. (l + e - 0)
      BY <1>7, <1>8, <2>2
    <3> QED
      BY <1>5, <3>1 DEF Covers
  <2> QED
    BY <1>2, <2>1, <2>2
<1> QED
  BY <1>1, <1>4, <1>9

(* The areas partition the image.                                          *)
LEMMA Partitioned ==
    ASSUME ImageInv
    PROVE  ImagePartitioned
<1> SUFFICES ASSUME built
             PROVE  /\ \A at \in Places : get_directory_entry(PathOf(at)).found
                    /\ \A a, b \in Places : a # b => Area(a) \cap Area(b) = {}
                    /\ UNION {Area(at) : at \in Places} = 1 .. (Len(out) - 1)
  BY DEF ImagePartitioned
<1>1. PICK loc : IsTree(host) /\ Whole(loc) /\ Placed(loc, Len(out)) /\ Len(out) \in Nat
  BY WholeImage
<1>2. PICK n \in Nat : n = Len(out)
  BY <1>1
<1>3. DOMAIN loc = Places
  BY <1>1 DEF Whole
<1>4. \A at \in Places : /\ get_directory_entry(PathOf(at)).found = TRUE
                         /\ \A c : c \in Area(at) <=> c \in Nat /\ Covers(loc, at, c)
  BY <1>1, AreaIs
<1>5. ASSUME NEW a \in Places
      PROVE  loc[a] \in Nat /\ Extent(a) \in Nat /\ loc[a] >= 1 /\ loc[a] + Extent(a) <= n
  BY <1>1, <1>2, <1>3, ExtentIs DEF Placed
<1>6. ASSUME NEW a \in Places, NEW b \in Places, a # b PROVE Area(a) \cap Area(b) = {}
  <2> SUFFICES ASSUME NEW c, c \in Area(a), c \in Area(b) PROVE FALSE
    OBVIOUS
  <2>1. c \in Nat /\ Covers(loc, a, c) /\ Covers(loc, b, c)
    BY <1>4
  <2>2. Apart(loc, a, b)
    BY <1>1, <1>3, <1>6 DEF Placed
  <2>3. PICK x, y, u, v \in Nat : x = loc[a] /\ y = Extent(a) /\ u = loc[b] /\ v = Extent(b)
    BY <1>5
  <2>4. x <= c /\ c < x + y /\ u <= c /\ c < u + v /\ (x + y <= u \/ u + v <= x)
    BY <2>1, <2>2, <2>3 DEF Covers, Apart
  <2> QED
    BY <2>1, <2>4
<1>7. ASSUME NEW c, NEW a \in Places, c \in Area(a) PROVE c \in 1 .. (n - 1)
  <2>1. c \in Nat /\ Covers(loc, a, c)
    BY <1>4, <1>7
  <2>2. PICK x, y \in Nat : x = loc[a] /\ y = Extent(a) /\ x >= 1 /\ x + y <= n
    BY <1>5
  <2>3. x <= c /\ c < x + y
    BY <2>1, <2>2 DEF Covers
  <2> QED
    BY <2>1, <2>2, <2>3
<1>8. ASSUME NEW c \in 1 .. (n - 1) PROVE \E a \in Places : c \in Area(a)
  <2>1. PICK a \in Places : Covers(loc, a, c)
    BY <1>1, <1>2, <1>3 DEF Placed
  <2>2. c \in Nat
    OBVIOUS
  <2> QED
    BY <1>4, <2>1, <2>2
<1>9. UNION {Area(at) : at \in Places} = 1 .. (n - 1)
  BY <1>7, <1>8
<1> QED
  BY <1>2, <1>4, <1>6, <1>9

(***************************************************************************)
(* Working directories.                                                    *)
(***************************************************************************)
(* A working directory and where it should be.                             *)
CwdOK(c, l) ==
    /\ c \in Buffers(STRING, PATH_MAX) /\ l \in Seq(Name) \cup {LOST}
    /\ l # LOST => c = PathOf(l) /\ IsDir(l)
    /\ c = <<SLASH>> \/ (built /\ get_directory_entry(c).found = TRUE)

ProcOK(p) == CwdOK(cwd[p], place[p])

(* The inductive invariant of path names.                                  *)
CwdInv ==
    /\ ImageInv
    /\ running \in SUBSET Proc /\ DOMAIN cwd = Proc /\ DOMAIN place = Proc
    /\ \A p \in Proc : ProcOK(p)

(* An absolute path name is shorter than PATH_MAX.                         *)
LEMMA AbsoluteFits ==
    ASSUME NEW p, cwd[p] \in Buffers(STRING, PATH_MAX), NEW path \in Path
    PROVE  Absolute(p, path) \in Buffers(STRING, PATH_MAX)
<1>1. PICK C, base : C = STRING /\ base = cwd[p]
  OBVIOUS
<1>2. SLASH \in C /\ base \in Buffers(C, PATH_MAX) /\ path \in Seq(C) /\ PATH_MAX \in Nat /\ PATH_MAX >= 2
  BY <1>1, HostsAssumption, FilesAssumption
<1>3. PICK st, ab : /\ \A i \in 0 .. (Len(path) + 1) : ab[i] \in Buffers(C, PATH_MAX)
                    /\ relative_to_absolute(base, path, PATH_MAX) = ab[Len(path) + 1]
  BY <1>2, RelSteps
<1>4. Len(path) + 1 \in 0 .. (Len(path) + 1)
  <2>1. Len(path) \in Nat
    BY <1>2
  <2> QED
    BY <2>1
<1> QED
  BY <1>1, <1>3, <1>4 DEF Absolute

(* Where the kernel resolves a path name that fits.                        *)
LEMMA AbsoluteIs ==
    ASSUME IsTree(host), NEW p, ProcOK(p), NEW path \in Path, NEW at, at = PlaceOf(p, path), at # LOST
    PROVE  at \in Seq(Name) /\ Absolute(p, path) = PathOf(at)
<1>1. PICK base, e : base = cwd[p] /\ e = <<>>
  OBVIOUS
<1>2. /\ base \in Buffers(STRING, PATH_MAX) /\ path \in Seq(STRING) /\ PATH_MAX \in Nat /\ PATH_MAX >= 2
      /\ e \in Seq(Name)
  BY <1>1, FilesAssumption DEF ProcOK, CwdOK
<1>3. CASE place[p] = LOST
  <2>1. /\ path # <<>> /\ path[1] = SLASH
        /\ at = IF Fits(e, path) THEN Destination(e, path) ELSE LOST
    BY <1>1, <1>3 DEF PlaceOf
  <2>2. Fits(e, path) /\ at = Destination(e, path)
    BY <2>1
  <2>3. /\ Destination(e, path) \in Seq(Name)
        /\ relative_to_absolute(base, path, PATH_MAX) = PathOf(Destination(e, path))
    BY <1>2, <2>1, <2>2, Relative
  <2> QED
    BY <1>1, <2>2, <2>3 DEF Absolute
<1>4. CASE place[p] # LOST
  <2>1. PICK from \in Seq(Name) : from = place[p] /\ base = PathOf(from)
    BY <1>1, <1>4 DEF ProcOK, CwdOK
  <2>2. at = IF Fits(from, path) THEN Destination(from, path) ELSE LOST
    BY <1>4, <2>1 DEF PlaceOf
  <2>3. Fits(from, path) /\ at = Destination(from, path)
    BY <2>2
  <2>4. /\ Destination(from, path) \in Seq(Name)
        /\ relative_to_absolute(base, path, PATH_MAX) = PathOf(Destination(from, path))
    BY <1>2, <2>1, <2>3, Relative
  <2> QED
    BY <1>1, <2>3, <2>4 DEF Absolute
<1> QED
  BY <1>3, <1>4

(* What a lookup says of a path name that fits.                            *)
LEMMA Resolves ==
    ASSUME CwdInv, built, NEW p \in Proc, NEW path \in Path, NEW at, at = PlaceOf(p, path), at # LOST,
           NEW r, r = get_directory_entry(Absolute(p, path))
    PROVE  at \in Seq(Name) /\ Absolute(p, path) = PathOf(at) /\ \E loc : Whole(loc) /\ Answers(r, at, loc)
<1>1. PICK loc : IsTree(host) /\ Whole(loc)
  BY WholeImage DEF CwdInv
<1>2. at \in Seq(Name) /\ Absolute(p, path) = PathOf(at)
  BY <1>1, AbsoluteIs DEF CwdInv
<1>3. Answers(r, at, loc)
  BY <1>1, <1>2, Found
<1> QED
  BY <1>1, <1>2, <1>3

(* What the invariant says of path names.                                  *)
LEMMA CwdSafe ==
    ASSUME CwdInv
    PROVE  ImagePartitioned /\ StatAgrees /\ CwdCanonical /\ PathsFit
<1>1. ImagePartitioned
  BY Partitioned DEF CwdInv
<1>2. StatAgrees
  <2> SUFFICES ASSUME built, NEW p \in running, NEW path \in Path, PlaceOf(p, path) # LOST
               PROVE  /\ syscall_stat(p, path).found <=> PlaceOf(p, path) \in Places
                      /\ syscall_stat(p, path).found =>
                           syscall_stat(p, path).entry.type = host[PlaceOf(p, path)].type
    BY DEF StatAgrees
  <2>1. PICK at, r : at = PlaceOf(p, path) /\ r = get_directory_entry(Absolute(p, path))
    OBVIOUS
  <2>2. p \in Proc
    BY DEF CwdInv
  <2>3. PICK loc : Answers(r, at, loc)
    BY <2>1, <2>2, Resolves
  <2>4. (r.found <=> at \in Places) /\ (r.found => r.entry.type = host[at].type)
    BY <2>3 DEF Answers, Describes
  <2> QED
    BY <2>1, <2>4 DEF syscall_stat
<1>3. CwdCanonical
  BY DEF CwdInv, CwdCanonical, ProcOK, CwdOK, IsDir
<1>4. PathsFit
  <2> SUFFICES ASSUME built, NEW p \in running
               PROVE  /\ \A path \in Path : Len(Absolute(p, path)) < PATH_MAX
                      /\ get_directory_entry(cwd[p]).found
    BY DEF PathsFit
  <2>1. p \in Proc /\ ProcOK(p)
    BY DEF CwdInv
  <2>2. \A path \in Path : Len(Absolute(p, path)) < PATH_MAX
    BY <2>1, AbsoluteFits DEF ProcOK, CwdOK, Buffers
  <2>3. PICK loc : IsTree(host) /\ Whole(loc)
    BY WholeImage DEF CwdInv
  <2>4. PICK e, r : e = <<>> /\ r = get_directory_entry(PathOf(e))
    OBVIOUS
  <2>5. Answers(r, e, loc) /\ e \in Places
    BY <2>3, <2>4, FoundRoot, RootPlace DEF IsDir
  <2>6. r.found = TRUE
    BY <2>5 DEF Answers
  <2>7. PathOf(e) = <<SLASH>>
    BY <2>4 DEF PathOf
  <2>8. get_directory_entry(cwd[p]).found = TRUE
    BY <2>1, <2>4, <2>6, <2>7 DEF ProcOK, CwdOK
  <2> QED
    BY <2>2, <2>8
<1> QED
  BY <1>1, <1>2, <1>3, <1>4

(* The root is a working directory.                                        *)
LEMMA RootCwd ==
    ASSUME IsTree(host), NEW c, c = <<SLASH>>, NEW l, l = <<>>
    PROVE  CwdOK(c, l)
<1>1. c \in Seq(STRING) /\ Len(c) = 1 /\ c # <<>>
  BY OneSlash
<1>2. c \in Buffers(STRING, PATH_MAX)
  BY <1>1, FilesAssumption DEF Buffers
<1>3. l \in Seq(Name) /\ IsDir(l) /\ c = PathOf(l)
  BY RootPlace DEF PathOf
<1> QED
  BY <1>2, <1>3 DEF CwdOK

(* At the start.                                                           *)
LEMMA CwdInit ==
    ASSUME FilesInit
    PROVE  CwdInv
<1>1. ImageInv
  BY DEF FilesInit, Init, ImageInv
<1>2. IsTree(host)
  BY <1>1, HostsAssumption DEF ImageInv
<1>3. running \in SUBSET Proc /\ DOMAIN cwd = Proc /\ DOMAIN place = Proc
  BY FilesAssumption DEF FilesInit
<1>4. ASSUME NEW p \in Proc PROVE ProcOK(p)
  <2>1. cwd[p] = <<SLASH>> /\ place[p] = <<>>
    BY DEF FilesInit
  <2> QED
    BY <1>2, <2>1, RootCwd DEF ProcOK
<1> QED
  BY <1>1, <1>3, <1>4 DEF CwdInv

(* A system call leaves the image as it is.                                *)
LEMMA SameImage ==
    ASSUME UNCHANGED imageVars
    PROVE  /\ host' = host /\ out' = out /\ stack' = stack /\ built' = built
           /\ Places' = Places
           /\ \A at : IsDir(at)' <=> IsDir(at)
           /\ \A at : Content(at)' = Content(at)
           /\ \A path : get_directory_entry(path)' = get_directory_entry(path)
<1>1. host' = host /\ out' = out /\ stack' = stack /\ built' = built
  BY DEF imageVars
<1>2. Places' = Places
  BY <1>1 DEF Places
<1>3. ASSUME NEW at PROVE IsDir(at)' <=> IsDir(at)
  BY <1>1, <1>2 DEF IsDir
<1>4. ASSUME NEW at PROVE Content(at)' = Content(at)
  BY <1>1 DEF Content, listing
<1>5. ASSUME NEW path PROVE get_directory_entry(path)' = get_directory_entry(path)
  BY <1>1 DEF get_directory_entry, Outset, Seek, Descend, lookup, Cell, EndsAtFile, Breaks, NoEntry
<1> QED
  BY <1>1, <1>2, <1>3, <1>4, <1>5

(* And the invariant of fstool.                                            *)
LEMMA ImageStays ==
    ASSUME ImageInv, UNCHANGED imageVars
    PROVE  ImageInv'
<1>1. host' = host /\ out' = out /\ stack' = stack /\ built' = built
  BY SameImage
<1>2. CASE out = <<>> /\ stack = <<>> /\ built = FALSE
  BY <1>1, <1>2 DEF ImageInv
<1>3. CASE (built <=> stack = <<>>) /\ \E loc : Laying(out, stack, loc)
  <2>1. PICK loc : Laying(out', stack', loc)
    BY <1>1, <1>3
  <2>2. Laying(out, stack, loc)'
    BY <1>1, <2>1, LayingNext
  <2> QED
    BY <1>1, <1>3, <2>2 DEF ImageInv
<1> QED
  BY <1>2, <1>3 DEF ImageInv

(* Once the image is built, fstool is done.                                *)
LEMMA BuildEnds ==
    ASSUME ImageInv, Build
    PROVE  ~built /\ host' = host
<1>1. host' = host
  BY DEF Build, build_start, process_dir, process_file, process_dir_end
<1>2. ASSUME built PROVE FALSE
  <2>1. stack = <<>> /\ \E loc : Laying(out, stack, loc)
    BY <1>2 DEF ImageInv
  <2>2. out \in Seq(Cells) /\ Len(out) >= 1
    BY <2>1 DEF Laying
  <2>3. out # <<>>
    BY <2>2
  <2> QED
    BY <2>1, <2>3 DEF Build, build_start, process_dir, process_file, process_dir_end
<1> QED
  BY <1>1, <1>2

(* While the image is built, everyone is at the root.                      *)
LEMMA CwdBuild ==
    ASSUME CwdInv, Build, UNCHANGED fileVars
    PROVE  CwdInv'
<1>1. ImageInv'
  BY BuildKeeps DEF CwdInv
<1>2. ~built /\ host' = host
  BY BuildEnds DEF CwdInv
<1>3. running' = running /\ cwd' = cwd /\ place' = place
  BY DEF fileVars
<1>4. ASSUME NEW at PROVE IsDir(at)' <=> IsDir(at)
  BY <1>2 DEF IsDir, Places
<1>5. ASSUME NEW c, NEW l, CwdOK(c, l) PROVE CwdOK(c, l)'
  BY <1>2, <1>4, <1>5 DEF CwdOK
<1>6. ASSUME NEW p \in Proc PROVE ProcOK(p)'
  <2>1. PICK c, l : c = cwd[p] /\ l = place[p]
    OBVIOUS
  <2>2. CwdOK(c, l)'
    BY <1>5, <2>1 DEF CwdInv, ProcOK
  <2> QED
    BY <1>3, <2>1, <2>2 DEF ProcOK
<1> QED
  BY <1>1, <1>3, <1>6 DEF CwdInv

(* The directory that chdir accepts.                                       *)
LEMMA ChdirOK ==
    ASSUME CwdInv, built, NEW p \in Proc, NEW path \in Path,
           NEW c, c = Absolute(p, path), NEW l, l = PlaceOf(p, path),
           get_directory_entry(c).found = TRUE, get_directory_entry(c).entry.type = "dir"
    PROVE  CwdOK(c, l)
<1>1. c \in Buffers(STRING, PATH_MAX)
  BY AbsoluteFits DEF CwdInv, ProcOK, CwdOK
<1>2. PICK r : r = get_directory_entry(c)
  OBVIOUS
<1>3. ASSUME l # LOST PROVE l \in Seq(Name) /\ c = PathOf(l) /\ IsDir(l)
  <2>1. l \in Seq(Name) /\ c = PathOf(l) /\ \E loc : Answers(r, l, loc)
    BY <1>2, <1>3, Resolves
  <2>2. PICK loc : Answers(r, l, loc)
    BY <2>1
  <2>3. l \in Places /\ r.entry.type = host[l].type
    BY <1>2, <2>2 DEF Answers, Describes
  <2> QED
    BY <1>2, <2>1, <2>3 DEF IsDir
<1> QED
  BY <1>1, <1>3 DEF CwdOK

(* What a system call must keep of the working directories.                *)
LEMMA CwdKeeps ==
    ASSUME CwdInv, UNCHANGED imageVars, running' \in SUBSET Proc,
           DOMAIN cwd' = Proc, DOMAIN place' = Proc,
           \A q \in Proc : CwdOK(cwd'[q], place'[q])
    PROVE  CwdInv'
<1>1. ImageInv'
  BY ImageStays DEF CwdInv
<1>2. ASSUME NEW c, NEW l, CwdOK(c, l) PROVE CwdOK(c, l)'
  BY <1>2, SameImage DEF CwdOK
<1>3. ASSUME NEW q \in Proc PROVE ProcOK(q)'
  <2>1. PICK c, l : c = cwd'[q] /\ l = place'[q]
    OBVIOUS
  <2>2. CwdOK(c, l)
    BY <2>1
  <2>3. CwdOK(c, l)'
    BY <1>2, <2>2
  <2> QED
    BY <2>1, <2>3 DEF ProcOK
<1> QED
  BY <1>1, <1>3 DEF CwdInv

(* Every system call does.                                                 *)
LEMMA CwdCall ==
    ASSUME CwdInv, built, UNCHANGED imageVars, NEW p \in running, SystemCall(p)
    PROVE  CwdInv'
<1>1. p \in Proc /\ running \in SUBSET Proc /\ DOMAIN cwd = Proc /\ DOMAIN place = Proc
  BY DEF CwdInv
<1>2. \A q \in Proc : CwdOK(cwd[q], place[q])
  BY DEF CwdInv, ProcOK
<1>3. ASSUME UNCHANGED <<running, cwd, place>> PROVE CwdInv'
  BY <1>1, <1>2, <1>3, CwdKeeps
<1>4. ASSUME NEW path \in ChdirPath, syscall_chdir(p, path) PROVE CwdInv'
  <2>1. path \in Path
    BY FilesAssumption
  <2>2. PICK c, l : c = Absolute(p, path) /\ l = PlaceOf(p, path)
    OBVIOUS
  <2>3. /\ get_directory_entry(c).found = TRUE /\ get_directory_entry(c).entry.type = "dir"
        /\ cwd' = [cwd EXCEPT ![p] = c] /\ place' = [place EXCEPT ![p] = l]
        /\ running' = running
    <3>1. PICK r : r = get_directory_entry(c)
      OBVIOUS
    <3>2. r.found
      BY <1>4, <2>2, <3>1 DEF syscall_chdir
    <3>3. r.found = TRUE
      BY <3>2
    <3> QED
      BY <1>4, <2>2, <3>1, <3>3 DEF syscall_chdir
  <2>4. CwdOK(c, l)
    BY <1>1, <2>1, <2>2, <2>3, ChdirOK
  <2>5. ASSUME NEW q \in Proc PROVE CwdOK(cwd'[q], place'[q])
    <3>1. CASE q = p
      BY <1>1, <2>3, <2>4, <3>1
    <3>2. CASE q # p
      <4>1. cwd'[q] = cwd[q] /\ place'[q] = place[q]
        BY <1>1, <2>3, <3>2
      <4> QED
        BY <1>2, <4>1
    <3> QED
      BY <3>1, <3>2
  <2>6. DOMAIN cwd' = Proc /\ DOMAIN place' = Proc /\ running' \in SUBSET Proc
    BY <1>1, <2>3
  <2> QED
    BY <2>5, <2>6, CwdKeeps
<1>5. ASSUME NEW child \in Proc, syscall_fork(p, child) PROVE CwdInv'
  <2>1. /\ cwd' = [cwd EXCEPT ![child] = cwd[p]] /\ place' = [place EXCEPT ![child] = place[p]]
        /\ running' = running \cup {child}
    BY <1>5 DEF syscall_fork
  <2>2. ASSUME NEW q \in Proc PROVE CwdOK(cwd'[q], place'[q])
    <3>1. CASE q = child
      <4>1. cwd'[q] = cwd[p] /\ place'[q] = place[p]
        BY <1>1, <2>1, <3>1
      <4> QED
        BY <1>1, <1>2, <4>1
    <3>2. CASE q # child
      <4>1. cwd'[q] = cwd[q] /\ place'[q] = place[q]
        BY <1>1, <2>1, <3>2
      <4> QED
        BY <1>2, <4>1
    <3> QED
      BY <3>1, <3>2
  <2>3. DOMAIN cwd' = Proc /\ DOMAIN place' = Proc /\ running' \in SUBSET Proc
    BY <1>1, <1>5, <2>1
  <2> QED
    BY <2>2, <2>3, CwdKeeps
<1>6. ASSUME kill_process(p) PROVE CwdInv'
  <2>1. PICK c, l : c = <<SLASH>> /\ l = <<>>
    OBVIOUS
  <2>2. /\ cwd' = [cwd EXCEPT ![p] = c] /\ place' = [place EXCEPT ![p] = l]
        /\ running' = running \ {p}
    BY <1>6, <2>1 DEF kill_process
  <2>3. CwdOK(c, l)
    <3>1. IsTree(host)
      BY HostsAssumption DEF CwdInv, ImageInv
    <3> QED
      BY <2>1, <3>1, RootCwd
  <2>4. ASSUME NEW q \in Proc PROVE CwdOK(cwd'[q], place'[q])
    <3>1. CASE q = p
      BY <1>1, <2>2, <2>3, <3>1
    <3>2. CASE q # p
      <4>1. cwd'[q] = cwd[q] /\ place'[q] = place[q]
        BY <1>1, <2>2, <3>2
      <4> QED
        BY <1>2, <4>1
    <3> QED
      BY <3>1, <3>2
  <2>5. DOMAIN cwd' = Proc /\ DOMAIN place' = Proc /\ running' \in SUBSET Proc
    BY <1>1, <2>2
  <2> QED
    BY <2>4, <2>5, CwdKeeps
<1>7. ASSUME NEW path \in OpenPath, syscall_open(p, path) PROVE CwdInv'
  BY <1>3, <1>7 DEF syscall_open
<1>8. ASSUME NEW fd \in Fd, NEW count \in 1 .. 2, syscall_read(p, fd, count) PROVE CwdInv'
  BY <1>3, <1>8 DEF syscall_read
<1>9. ASSUME NEW fd \in Fd, syscall_getdent(p, fd) PROVE CwdInv'
  BY <1>3, <1>9 DEF syscall_getdent
<1>10. ASSUME NEW fd \in Fd, syscall_close(p, fd) PROVE CwdInv'
  BY <1>3, <1>10 DEF syscall_close
<1>11. ASSUME NEW fd \in Fd, NEW newfd \in Fd, syscall_dup2(p, fd, newfd) PROVE CwdInv'
  BY <1>3, <1>11 DEF syscall_dup2
<1> QED
  BY <1>4, <1>5, <1>6, <1>7, <1>8, <1>9, <1>10, <1>11 DEF SystemCall

(***************************************************************************)
(* Handles.                                                                *)
(***************************************************************************)
Shape == {"kind", "entry", "pos", "entryno", "refcount", "place", "seen"}

Reached(r) == IF r.kind = "file" THEN r.pos ELSE r.entryno

(* A handle's record follows the file or directory it was opened for.      *)
Tracks(r) ==
    /\ built /\ r.place \in Places /\ r.kind = host[r.place].type
    /\ r.entry = get_directory_entry(PathOf(r.place)).entry
    /\ Reached(r) \in Nat /\ Reached(r) <= Len(Content(r.place))
    /\ r.seen = SubSeq(Content(r.place), 1, Reached(r))

Good(r) == DOMAIN r = Shape /\ (r.kind # "free" /\ r.place # LOST => Tracks(r))

AllGood(d) == DOMAIN d = Handle /\ \A h \in Handle : Good(d[h])

(* The inductive invariant.                                                *)
FilesInv == CwdInv /\ AllGood(fh)

(* A free handle.                                                          *)
LEMMA FreeGood == Good(Free)
<1>1. DOMAIN Free = Shape /\ Free.kind = "free"
  BY DEF Free, Shape
<1> QED
  BY <1>1 DEF Good

(* Counting references changes nothing else.                               *)
LEMMA RefGood ==
    ASSUME NEW r, Good(r), NEW k, NEW u, u = [r EXCEPT !.refcount = k]
    PROVE  Good(u)
<1>1. DOMAIN u = Shape /\ DOMAIN r = Shape
  BY DEF Good
<1>2. /\ u.kind = r.kind /\ u.entry = r.entry /\ u.pos = r.pos /\ u.entryno = r.entryno
      /\ u.place = r.place /\ u.seen = r.seen
  BY <1>1 DEF Shape
<1>3. Reached(u) = Reached(r)
  BY <1>2 DEF Reached
<1> QED
  BY <1>1, <1>2, <1>3 DEF Good, Tracks

(* Nor does closing.                                                       *)
LEMMA ClosedGood ==
    ASSUME FilesInv, NEW p, NEW fds, NEW c, c = Closed(p, fds)
    PROVE  AllGood(c)
<1>1. DOMAIN c = Handle
  BY DEF Closed
<1>2. ASSUME NEW h \in Handle PROVE Good(c[h])
  <2>1. PICK left : left = fh[h].refcount - Cardinality({fd \in fds : filedesc[p][fd] = h})
    OBVIOUS
  <2>2. c[h] = IF left = 0 THEN Free ELSE [fh[h] EXCEPT !.refcount = left]
    BY <2>1 DEF Closed
  <2>3. PICK r : r = fh[h] /\ Good(r)
    BY DEF FilesInv, AllGood
  <2>4. CASE left = 0
    BY <2>2, <2>4, FreeGood
  <2>5. CASE left # 0
    <3>1. c[h] = [r EXCEPT !.refcount = left]
      BY <2>2, <2>3, <2>5
    <3> QED
      BY <2>3, <3>1, RefGood
  <2> QED
    BY <2>4, <2>5
<1> QED
  BY <1>1, <1>2 DEF AllGood

(* What a system call must keep of the handles.                            *)
LEMMA HandlesKeep ==
    ASSUME CwdInv', UNCHANGED imageVars, AllGood(fh')
    PROVE  FilesInv'
<1>1. ASSUME NEW r, Good(r) PROVE Good(r)'
  BY <1>1, SameImage DEF Good, Tracks
<1>2. ASSUME NEW h \in Handle PROVE Good(fh[h])'
  <2>1. PICK r : r = fh'[h]
    OBVIOUS
  <2>2. Good(r)'
    BY <1>1, <2>1 DEF AllGood
  <2> QED
    BY <2>1, <2>2
<1> QED
  BY <1>2 DEF FilesInv, AllGood

(* At the start.                                                           *)
LEMMA FilesInitOK ==
    ASSUME FilesInit
    PROVE  FilesInv
BY CwdInit, FreeGood DEF FilesInit, FilesInv, AllGood

(* While the image is built, no handle is open.                            *)
LEMMA FilesBuild ==
    ASSUME FilesInv, Build, UNCHANGED fileVars
    PROVE  FilesInv'
<1>1. CwdInv' /\ ~built /\ fh' = fh
  BY CwdBuild, BuildEnds DEF FilesInv, AllGood, CwdInv, fileVars
<1>2. ASSUME NEW r, Good(r) PROVE Good(r)'
  BY <1>1, <1>2 DEF Good, Tracks
<1>3. ASSUME NEW h \in Handle PROVE Good(fh[h])'
  <2>1. PICK r : r = fh[h]
    OBVIOUS
  <2>2. Good(r)'
    BY <1>2, <2>1 DEF FilesInv, AllGood
  <2> QED
    BY <1>1, <2>1, <2>2
<1> QED
  BY <1>1, <1>3 DEF FilesInv, AllGood

Copied(c, g, x) == [c EXCEPT ![g].refcount = x]

(* A copy of a descriptor.                                                 *)
LEMMA CopyGood ==
    ASSUME NEW c, AllGood(c), NEW g, NEW x,
           NEW d, d = Copied(c, g, x)
    PROVE  AllGood(d)
<1>1. DOMAIN c = Handle /\ (\A h \in Handle : Good(c[h])) /\ d = [c EXCEPT ![g].refcount = x]
  BY DEF AllGood, Copied
<1>2. ASSUME NEW h \in Handle PROVE Good(d[h])
  <2>1. CASE h = g
    <3>1. PICK r : r = c[h] /\ Good(r)
      BY <1>1
    <3>2. d[h] = [r EXCEPT !.refcount = x]
      BY <1>1, <2>1, <3>1
    <3> QED
      BY <3>1, <3>2, RefGood
  <2>2. CASE h # g
    BY <1>1, <2>2
  <2> QED
    BY <2>1, <2>2
<1> QED
  BY <1>1, <1>2 DEF AllGood

Forked(p) == [h \in Handle |-> [fh[h] EXCEPT !.refcount =
                @ + Cardinality({fd \in Fd : filedesc[p][fd] = h})]]

(* The descriptors of a child.                                             *)
LEMMA ForkGood ==
    ASSUME FilesInv, NEW d, NEW p, d = Forked(p)
    PROVE  AllGood(d)
<1>1. ASSUME NEW h \in Handle PROVE Good(d[h])
  <2>1. PICK r : r = fh[h] /\ Good(r)
    BY DEF FilesInv, AllGood
  <2>2. PICK k : k = r.refcount + Cardinality({fd \in Fd : filedesc[p][fd] = h})
    OBVIOUS
  <2>3. d[h] = [r EXCEPT !.refcount = k]
    BY <2>1, <2>2 DEF Forked
  <2> QED
    BY <2>1, <2>3, RefGood
<1> QED
  BY <1>1 DEF AllGood, Forked

(***************************************************************************)
(* Reads.                                                                  *)
(***************************************************************************)
(* What a file or directory yields is a sequence.                          *)
LEMMA ContentIs ==
    ASSUME IsTree(host), NEW at \in Places
    PROVE  /\ \E C : Content(at) \in Seq(C)
           /\ Len(Content(at)) \in Nat
           /\ host[at].type = "file" => Content(at) = host[at].bytes
           /\ host[at].type = "dir" => Content(at) = listing(at)
<1>1. Len(Content(at)) \in Nat
  BY ExtentIs
<1>2. CASE host[at].type = "file"
  <2>1. Content(at) = host[at].bytes /\ host[at].bytes \in Seq(STRING)
    BY <1>2, ExtentIs DEF Content
  <2> QED
    BY <1>1, <1>2, <2>1
<1>3. CASE host[at].type = "dir"
  <2>1. Content(at) = listing(at) /\ listing(at) \in Seq(Name)
    BY <1>3, ExtentIs DEF Content, Lists
  <2> QED
    BY <1>1, <1>3, <2>1
<1> QED
  BY <1>2, <1>3, PlaceIs

(* What the entry in a handle says.                                        *)
LEMMA TracksIs ==
    ASSUME CwdInv, NEW r, Tracks(r), NEW at, at = r.place
    PROVE  IsTree(host) /\ \E loc : Whole(loc) /\ Describes(r.entry, at, loc)
<1>1. PICK loc : IsTree(host) /\ Whole(loc)
  BY WholeImage DEF CwdInv, Tracks
<1>2. at \in Places /\ at \in Seq(Name)
  BY <1>1, PlaceIs DEF Tracks
<1>3. PICK a : a = get_directory_entry(PathOf(at))
  OBVIOUS
<1>4. Answers(a, at, loc)
  BY <1>1, <1>2, <1>3, Found
<1>5. r.entry = a.entry
  BY <1>3 DEF Tracks
<1> QED
  BY <1>1, <1>2, <1>4, <1>5 DEF Answers

(* A handle just opened.                                                   *)
LEMMA OpenGood ==
    ASSUME CwdInv, built, NEW p \in Proc, NEW path \in Path,
           NEW a, a = get_directory_entry(Absolute(p, path)), a.found,
           NEW r, r = [kind |-> a.entry.type, entry |-> a.entry, pos |-> 0, entryno |-> 0,
                       refcount |-> 1, place |-> PlaceOf(p, path), seen |-> <<>>]
    PROVE  Good(r)
<1>1. DOMAIN r = Shape
  BY DEF Shape
<1>2. PICK at : at = PlaceOf(p, path)
  OBVIOUS
<1>3. /\ r.kind = a.entry.type /\ r.entry = a.entry /\ r.pos = 0 /\ r.entryno = 0
      /\ r.place = at /\ r.seen = <<>>
  BY <1>2
<1>4. ASSUME at # LOST PROVE Tracks(r)
  <2>1. at \in Seq(Name) /\ Absolute(p, path) = PathOf(at) /\ \E loc : Answers(a, at, loc)
    BY <1>2, <1>4, Resolves
  <2>2. PICK loc : Answers(a, at, loc)
    BY <2>1
  <2>3. at \in Places /\ a.entry.type = host[at].type
    BY <2>2 DEF Answers, Describes
  <2>4. r.entry = get_directory_entry(PathOf(at)).entry
    BY <1>3, <2>1
  <2>5. Reached(r) = 0
    BY <1>3 DEF Reached
  <2>6. IsTree(host)
    BY HostsAssumption DEF CwdInv, ImageInv
  <2>7. Len(Content(at)) \in Nat /\ \E C : Content(at) \in Seq(C)
    BY <2>3, <2>6, ContentIs
  <2>8. SubSeq(Content(at), 1, 0) = <<>>
    BY <2>7
  <2>9. 0 <= Len(Content(at)) /\ 0 \in Nat
    BY <2>7
  <2> QED
    BY <1>3, <2>3, <2>4, <2>5, <2>8, <2>9 DEF Tracks
<1> QED
  BY <1>1, <1>3, <1>4 DEF Good

(* m items of a text from position n on.                                   *)
Yields(more, text, n, m) ==
    /\ n + m <= Len(text) /\ DOMAIN more = 1 .. m /\ more = [i \in 1 .. m |-> more[i]]
    /\ \A i \in 1 .. m : more[i] = text[n + i]

Resumed(text, n, more) == SubSeq(text, 1, n) \o more

(* A prefix and what is read behind it.                                    *)
LEMMA PrefixGrows ==
    ASSUME NEW C, NEW text \in Seq(C), NEW n \in Nat, NEW m \in Nat, NEW more, Yields(more, text, n, m),
           NEW k, k = n + m
    PROVE  /\ Resumed(text, n, more) = Pre(text, k) /\ Len(more) = m
           /\ k <= Len(text) /\ k \in Nat
<1>0. /\ n + m <= Len(text) /\ DOMAIN more = 1 .. m /\ more = [i \in 1 .. m |-> more[i]]
      /\ \A i \in 1 .. m : more[i] = text[n + i]
  BY DEF Yields
<1> USE <1>0
<1>12. PICK both : both = SubSeq(text, 1, n) \o more /\ both = Resumed(text, n, more)
  BY DEF Resumed
<1>1. n <= Len(text) /\ n + m \in Nat /\ Len(text) \in Nat
  OBVIOUS
<1>2. PICK f, g : f = SubSeq(text, 1, n) /\ g = SubSeq(text, 1, n + m)
  OBVIOUS
<1>3. f \in Seq(C) /\ Len(f) = n /\ \A i \in 1 .. n : f[i] = text[i]
  BY <1>1, <1>2, PrefixIs
<1>4. k \in Nat /\ k = n + m
  BY <1>1
<1>5. g \in Seq(C) /\ Len(g) = k /\ \A i \in 1 .. k : g[i] = text[i]
  BY <1>1, <1>2, <1>4, PrefixIs
<1>6. ASSUME NEW i \in 1 .. m PROVE n + i \in 1 .. Len(text) /\ more[i] \in C
  <2>1. n + i \in 1 .. Len(text)
    BY <1>1
  <2>2. text[n + i] \in C
    BY <2>1
  <2> QED
    BY <2>1, <2>2
<1>7. more \in Seq(C) /\ Len(more) = m
  <2>1. \A i \in 1 .. m : more[i] \in C
    BY <1>6
  <2>2. more \in [1 .. m -> C]
    BY <2>1
  <2> QED
    BY <2>2
<1>8. both \in Seq(C) /\ Concat(both, f, more)
  BY <1>2, <1>3, <1>7, <1>12, Concatenated
<1>9. Len(both) = k /\ (\A i \in 1 .. n : both[i] = f[i]) /\ \A i \in 1 .. m : both[n + i] = more[i]
  BY <1>3, <1>4, <1>7, <1>8 DEF Concat
<1>10. ASSUME NEW i \in 1 .. k PROVE both[i] = g[i]
  <2>1. CASE i <= n
    <3>1. i \in 1 .. n
      BY <2>1
    <3> QED
      BY <1>3, <1>5, <1>9, <3>1
  <2>2. CASE ~(i <= n)
    <3>1. PICK j \in 1 .. m : i = n + j
      <4>1. i - n \in 1 .. m /\ i = n + (i - n)
        BY <1>4, <2>2
      <4> QED
        BY <4>1
    <3> QED
      BY <1>5, <1>9, <3>1
  <2> QED
    BY <2>1, <2>2
<1>11. both = g
  BY <1>5, <1>8, <1>9, <1>10, SameText
<1> QED
  BY <1>1, <1>2, <1>7, <1>11, <1>12 DEF Pre

(* A read returns the next bytes of the file, and none only at its end.    *)
LEMMA ReadIs ==
    ASSUME CwdInv, NEW h, NEW r, r = fh[h], Tracks(r), r.kind = "file", NEW count \in Nat, count >= 1,
           NEW at, at = r.place, NEW bytes, bytes = file_read(h, count)
    PROVE  \E n, m \in Nat : /\ n = r.pos /\ Yields(bytes, Content(at), n, m)
                             /\ m = 0 => n = Len(Content(at))
<1>1. PICK loc : IsTree(host) /\ Whole(loc) /\ Describes(r.entry, at, loc)
  BY TracksIs
<1>2. at \in Places /\ host[at].type = "file" /\ Reached(r) = r.pos
  BY DEF Tracks, Reached
<1>3. PICK text : text = host[at].bytes /\ text = Content(at) /\ Len(text) \in Nat
  BY <1>1, <1>2, ContentIs
<1>4. PICK len \in Nat : len = Len(text)
  BY <1>3
<1>5. PICK n \in Nat : n = r.pos /\ n <= len
  BY <1>2, <1>3, <1>4 DEF Tracks
<1>6. PICK l \in Nat : l = loc[at]
  BY <1>1, <1>2 DEF Whole
<1>7. r.entry.size = len /\ r.entry.location = l
  BY <1>1, <1>2, <1>3, <1>4, <1>6 DEF Describes
<1>8. PICK rest \in Nat : rest = len - n
  <2>1. len - n \in Nat
    BY <1>5
  <2> QED
    BY <2>1
<1>9. PICK m \in Nat : m = Min({count, rest}) /\ m = IF count <= rest THEN count ELSE rest
  <2>1. Min({count, rest}) = IF count <= rest THEN count ELSE rest
    BY MinOfTwo
  <2>2. (IF count <= rest THEN count ELSE rest) \in Nat
    OBVIOUS
  <2> QED
    BY <2>1, <2>2
<1>10. n + m <= len /\ (m = 0 => n = len)
  <2>1. m = IF count <= rest THEN count ELSE rest
    BY <1>9
  <2>2. rest = len - n /\ n <= len
    BY <1>5, <1>8
  <2> QED
    BY <2>1, <2>2
<1>11. bytes = [i \in 1 .. m |-> Cell(l + n + i - 1).byte]
  BY <1>5, <1>7, <1>8, <1>9 DEF file_read
<1>12. ASSUME NEW i \in 1 .. m PROVE bytes[i] = text[n + i]
  <2>1. bytes[i] = Cell(l + n + i - 1).byte
    BY <1>11
  <2>2. (l + n + i - 1) + 1 = l + (n + i) /\ n + i \in 1 .. len
    BY <1>10
  <2>3. Cell(l + n + i - 1) = out[l + (n + i)]
    BY <2>2 DEF Cell
  <2>4. FileStored(out, at, l)
    BY <1>1, <1>2, <1>6 DEF Whole
  <2>5. out[l + (n + i)] = [byte |-> text[n + i]]
    BY <1>3, <1>4, <2>2, <2>4 DEF FileStored
  <2> QED
    BY <2>1, <2>3, <2>5
<1>13. DOMAIN bytes = 1 .. m /\ bytes = [i \in 1 .. m |-> bytes[i]]
  BY <1>11
<1>14. Yields(bytes, text, n, m)
  BY <1>4, <1>10, <1>12, <1>13 DEF Yields
<1> QED
  BY <1>3, <1>4, <1>5, <1>10, <1>14

(* So a read keeps its handle in step.                                     *)
LEMMA ReadGood ==
    ASSUME CwdInv, NEW h, NEW r, r = fh[h], Good(r), r.kind = "file", NEW count \in Nat, count >= 1,
           NEW bytes, bytes = file_read(h, count),
           NEW u, u = [r EXCEPT !.pos = r.pos + Len(bytes), !.seen = r.seen \o bytes]
    PROVE  Good(u)
<1>1. DOMAIN u = Shape /\ DOMAIN r = Shape
  BY DEF Good
<1>2. /\ u.kind = r.kind /\ u.entry = r.entry /\ u.pos = r.pos + Len(bytes)
      /\ u.place = r.place /\ u.seen = r.seen \o bytes
  BY <1>1 DEF Shape
<1>3. ASSUME r.place # LOST PROVE Tracks(u)
  <2>1. Tracks(r)
    BY <1>3 DEF Good
  <2>2. PICK at : at = r.place /\ at \in Places
    BY <2>1 DEF Tracks
  <2>3. PICK n, m \in Nat : n = r.pos /\ Yields(bytes, Content(at), n, m)
    BY <2>1, <2>2, ReadIs
  <2>4. IsTree(host)
    BY HostsAssumption DEF CwdInv, ImageInv
  <2>5. PICK C, text : text = Content(at) /\ text \in Seq(C)
    BY <2>2, <2>4, ContentIs
  <2>6. r.seen = SubSeq(text, 1, n)
    BY <2>1, <2>2, <2>3, <2>5 DEF Tracks, Reached
  <2>7. PICK k : k = n + m
    OBVIOUS
  <2>8. /\ Resumed(text, n, bytes) = Pre(text, k) /\ Len(bytes) = m
        /\ k <= Len(text) /\ k \in Nat
    <3>1. Yields(bytes, text, n, m)
      BY <2>3, <2>5, SMTT(30)
    <3> QED
      BY <2>5, <2>7, <3>1, PrefixGrows
  <2>9. u.pos = k /\ u.seen = SubSeq(text, 1, k)
    BY <1>2, <2>3, <2>6, <2>7, <2>8 DEF Resumed, Pre
  <2>10. Reached(u) = u.pos
    BY <1>2 DEF Reached
  <2> QED
    BY <1>2, <2>1, <2>2, <2>5, <2>8, <2>9, <2>10 DEF Tracks
<1> QED
  BY <1>1, <1>2, <1>3 DEF Good

(* What a directory's handle stands at.                                    *)
LEMMA EntryIs ==
    ASSUME CwdInv, NEW h, NEW r, r = fh[h], Tracks(r), r.kind # "file", NEW at, at = r.place
    PROVE  /\ Content(at) \in Seq(Name) /\ r.entryno \in Nat /\ r.entryno <= Len(Content(at))
           /\ HasEntry(h) <=> r.entryno < Len(Content(at))
           /\ HasEntry(h) => Cell(r.entry.location + r.entryno + 1).name = Content(at)[r.entryno + 1]
<1>1. PICK loc : IsTree(host) /\ Whole(loc) /\ Describes(r.entry, at, loc)
  BY TracksIs
<1>2. at \in Places /\ host[at].type = "dir" /\ Reached(r) = r.entryno
  BY <1>1, PlaceIs DEF Tracks, Reached
<1>3. PICK names : names = listing(at) /\ names = Content(at)
  BY <1>1, <1>2, ContentIs
<1>4. names \in Seq(Name)
  BY <1>1, <1>2, <1>3, ExtentIs DEF Lists
<1>5. PICK len \in Nat : len = Len(names)
  BY <1>4
<1>6. PICK n \in Nat : n = r.entryno /\ n <= len
  BY <1>2, <1>3, <1>5 DEF Tracks
<1>7. PICK l \in Nat : l = loc[at]
  BY <1>1, <1>2 DEF Whole
<1>8. r.entry.location = l
  BY <1>1, <1>7 DEF Describes
<1>9. DirStored(out, at, loc)
  BY <1>1, <1>2 DEF Whole
<1>10. Cell(l).count = len
  <2>1. out[l + 1] = [count |-> len]
    BY <1>3, <1>5, <1>7, <1>9 DEF DirStored
  <2> QED
    BY <2>1 DEF Cell
<1>11. HasEntry(h) <=> n < len
  BY <1>6, <1>8, <1>10 DEF HasEntry
<1>12. ASSUME n < len PROVE Cell(l + n + 1).name = names[n + 1]
  <2>1. PICK i \in 1 .. len : i = n + 1
    <3>1. n + 1 \in 1 .. len
      BY <1>12
    <3> QED
      BY <3>1
  <2>2. out[l + 1 + i] = EntryAt(at, i, loc[Kid(at, i)])
    BY <1>3, <1>5, <1>7, <1>9 DEF DirStored
  <2>3. (l + n + 1) + 1 = l + 1 + i
    BY <2>1
  <2>4. Cell(l + n + 1) = EntryAt(at, i, loc[Kid(at, i)])
    BY <2>2, <2>3 DEF Cell
  <2>5. EntryAt(at, i, loc[Kid(at, i)]).name = listing(at)[i]
    BY DEF EntryAt
  <2> QED
    BY <1>3, <2>1, <2>4, <2>5
<1> QED
  BY <1>3, <1>4, <1>5, <1>6, <1>8, <1>11, <1>12

(* syscall_getdent keeps its handle in step.                               *)
LEMMA GetdentGood ==
    ASSUME CwdInv, NEW h, NEW r, r = fh[h], Good(r), r.kind = "dir", HasEntry(h),
           NEW name, name = Cell(r.entry.location + r.entryno + 1).name,
           NEW u, u = [r EXCEPT !.entryno = r.entryno + 1, !.seen = Append(r.seen, name)]
    PROVE  Good(u)
<1>1. DOMAIN u = Shape /\ DOMAIN r = Shape
  BY DEF Good
<1>2. /\ u.kind = r.kind /\ u.entry = r.entry /\ u.entryno = r.entryno + 1
      /\ u.place = r.place /\ u.seen = Append(r.seen, name)
  BY <1>1, SMTT(30) DEF Shape
<1>3. ASSUME r.place # LOST PROVE Tracks(u)
  <2>1. Tracks(r)
    BY <1>3 DEF Good
  <2>2. PICK at, text : at = r.place /\ at \in Places /\ text = Content(at)
    BY <2>1 DEF Tracks
  <2>3. /\ text \in Seq(Name) /\ r.entryno \in Nat
        /\ r.entryno < Len(text) /\ name = text[r.entryno + 1]
    BY <2>1, <2>2, EntryIs
  <2>4. PICK n \in Nat : n = r.entryno
    BY <2>3
  <2>5. n < Len(text) /\ n + 1 \in Nat /\ n + 1 <= Len(text)
    BY <2>3, <2>4
  <2>6. r.seen = Pre(text, n)
    BY <2>1, <2>2, <2>4 DEF Tracks, Reached, Pre
  <2>7. Pre(text, n + 1) = Append(Pre(text, n), text[n + 1])
    BY <2>3, <2>5, PreIs
  <2>8. u.seen = SubSeq(text, 1, n + 1)
    BY <1>2, <2>3, <2>4, <2>6, <2>7 DEF Pre
  <2>9. Reached(u) = n + 1
    BY <1>2, <2>4 DEF Reached
  <2> QED
    BY <1>2, <2>1, <2>2, <2>5, <2>8, <2>9 DEF Tracks
<1> QED
  BY <1>1, <1>2, <1>3 DEF Good

(* What the invariant says of reads.                                       *)
LEMMA ReadsSafe ==
    ASSUME FilesInv
    PROVE  ReadsInOrder
<1> SUFFICES ASSUME NEW h \in Handle, fh[h].kind # "free", fh[h].place # LOST
             PROVE  /\ fh[h].place \in Places
                    /\ Reaches(h, Position(h))
                    /\ AtEnd(h) => fh[h].seen = Content(fh[h].place)
  BY DEF ReadsInOrder
<1>1. PICK r, at : r = fh[h] /\ at = r.place
  OBVIOUS
<1>2. Tracks(r) /\ CwdInv
  BY <1>1 DEF FilesInv, AllGood, Good
<1>3. at \in Places /\ r.seen = SubSeq(Content(at), 1, Reached(r))
  BY <1>1, <1>2 DEF Tracks
<1>4. Position(h) = Reached(r)
  BY <1>1 DEF Position, Reached
<1>5. IsTree(host)
  BY <1>2, HostsAssumption DEF CwdInv, ImageInv
<1>6. PICK C, text : text = Content(at) /\ text \in Seq(C)
  BY <1>3, <1>5, ContentIs
<1>7. SubSeq(text, 1, Len(text)) = text
  BY <1>6
<1>8. ASSUME AtEnd(h) PROVE Reached(r) = Len(text)
  <2>1. CASE r.kind = "file"
    <3>1. PICK bytes : bytes = file_read(h, 1) /\ bytes = <<>>
      BY <1>1, <1>8, <2>1 DEF AtEnd
    <3>2. PICK n, m \in Nat : n = r.pos /\ Yields(bytes, text, n, m) /\ (m = 0 => n = Len(text))
      <4>1. 1 \in Nat /\ 1 >= 1
        OBVIOUS
      <4> QED
        BY <1>1, <1>2, <1>6, <2>1, <3>1, <4>1, ReadIs
    <3>3. m = 0
      <4>1. DOMAIN bytes = 1 .. m
        BY <3>2 DEF Yields
      <4>2. DOMAIN bytes = {}
        BY <3>1
      <4>3. ASSUME m # 0 PROVE FALSE
        <5>1. 1 \in 1 .. m
          BY <4>3
        <5> QED
          BY <4>1, <4>2, <5>1
      <4> QED
        BY <4>3
    <3> QED
      BY <2>1, <3>2, <3>3 DEF Reached
  <2>2. CASE r.kind # "file"
    <3>1. ~HasEntry(h)
      BY <1>1, <1>8, <2>2 DEF AtEnd
    <3>2. /\ r.entryno \in Nat /\ r.entryno <= Len(text)
          /\ ~(r.entryno < Len(text))
      BY <1>1, <1>2, <1>6, <2>2, <3>1, EntryIs
    <3>3. r.entryno = Len(text)
      <4>1. Len(text) \in Nat
        BY <1>6
      <4> QED
        BY <3>2, <4>1
    <3> QED
      BY <2>2, <3>3 DEF Reached
  <2> QED
    BY <2>1, <2>2
<1> QED
  BY <1>1, <1>3, <1>4, <1>6, <1>7, <1>8 DEF Reaches

(***************************************************************************)
(* The system calls, and the theorems.                                     *)
(***************************************************************************)
(* One handle's record is replaced.                                        *)
LEMMA OneChanges ==
    ASSUME FilesInv, NEW h, NEW u, Good(u), NEW d, DOMAIN d = Handle,
           \A g \in Handle : d[g] = IF g = h THEN u ELSE fh[g]
    PROVE  AllGood(d)
BY DEF FilesInv, AllGood

(* open.                                                                   *)
LEMMA OpenKeeps ==
    ASSUME FilesInv, built, NEW p \in Proc, NEW path \in Path, syscall_open(p, path)
    PROVE  AllGood(fh')
<1>1. PICK a : a = get_directory_entry(Absolute(p, path))
  OBVIOUS
<1>2. PICK h : h = Min(FreeHandles)
  OBVIOUS
<1>3. PICK u : u = [kind |-> a.entry.type, entry |-> a.entry, pos |-> 0, entryno |-> 0,
                    refcount |-> 1, place |-> PlaceOf(p, path), seen |-> <<>>]
  OBVIOUS
<1>4. a.found /\ fh' = [fh EXCEPT ![h] = u]
  BY <1>1, <1>2, <1>3 DEF syscall_open
<1>5. Good(u)
  BY <1>1, <1>3, <1>4, OpenGood DEF FilesInv
<1>6. DOMAIN fh' = Handle /\ \A g \in Handle : fh'[g] = IF g = h THEN u ELSE fh[g]
  BY <1>4 DEF FilesInv, AllGood
<1>7. PICK d : d = fh' /\ DOMAIN d = Handle /\ \A g \in Handle : d[g] = IF g = h THEN u ELSE fh[g]
  BY <1>6
<1> QED
  BY <1>5, <1>6, <1>7, OneChanges

(* read.                                                                   *)
LEMMA ReadKeeps ==
    ASSUME FilesInv, NEW p, NEW fd, NEW count \in 1 .. 2, syscall_read(p, fd, count)
    PROVE  AllGood(fh')
<1>1. PICK h : h = filedesc[p][fd]
  OBVIOUS
<1>2. PICK bytes : bytes = file_read(h, count)
  OBVIOUS
<1>3. /\ fh[h].kind = "file"
      /\ fh' = [fh EXCEPT ![h].pos = @ + Len(bytes), ![h].seen = @ \o bytes]
  BY <1>1, <1>2 DEF syscall_read
<1>4. PICK r, d : r = fh[h] /\ d = fh'
  OBVIOUS
<1>5. PICK u : u = [r EXCEPT !.pos = r.pos + Len(bytes), !.seen = r.seen \o bytes]
  OBVIOUS
<1>6. CASE h \in Handle
  <2>1. Good(r) /\ DOMAIN r = Shape /\ DOMAIN fh = Handle
    BY <1>4, <1>6 DEF FilesInv, AllGood, Good
  <2>2. count \in Nat /\ count >= 1
    OBVIOUS
  <2>3. Good(u)
    BY <1>2, <1>3, <1>4, <1>5, <2>1, <2>2, ReadGood DEF FilesInv
  <2>4. DOMAIN d = Handle /\ \A g \in Handle : g # h => d[g] = fh[g]
    BY <1>3, <1>4, <2>1
  <2>5. d[h] = u
    BY <1>3, <1>4, <1>5, <1>6, <2>1 DEF Shape
  <2> QED
    BY <1>4, <2>3, <2>4, <2>5, OneChanges
<1>7. CASE h \notin Handle
  <2>1. DOMAIN d = Handle /\ \A g \in Handle : d[g] = fh[g]
    BY <1>3, <1>4, <1>7 DEF FilesInv, AllGood
  <2> QED
    BY <1>4, <2>1 DEF FilesInv, AllGood
<1> QED
  BY <1>6, <1>7

(* getdent.                                                                *)
LEMMA GetdentKeeps ==
    ASSUME FilesInv, NEW p, NEW fd, syscall_getdent(p, fd)
    PROVE  AllGood(fh')
<1>1. PICK h : h = filedesc[p][fd]
  OBVIOUS
<1>2. PICK r, d : r = fh[h] /\ d = fh'
  OBVIOUS
<1>3. PICK name : name = Cell(r.entry.location + r.entryno + 1).name
  OBVIOUS
<1>4. /\ r.kind = "dir" /\ HasEntry(h)
      /\ d = [fh EXCEPT ![h].entryno = @ + 1, ![h].seen = Append(@, name)]
  BY <1>1, <1>2, <1>3 DEF syscall_getdent
<1>5. PICK u : u = [r EXCEPT !.entryno = r.entryno + 1, !.seen = Append(r.seen, name)]
  OBVIOUS
<1>6. CASE h \in Handle
  <2>1. Good(r) /\ DOMAIN r = Shape /\ DOMAIN fh = Handle
    BY <1>2, <1>6 DEF FilesInv, AllGood, Good
  <2>2. Good(u)
    BY <1>2, <1>3, <1>4, <1>5, <2>1, GetdentGood DEF FilesInv
  <2>3. DOMAIN d = Handle /\ \A g \in Handle : g # h => d[g] = fh[g]
    BY <1>4, <2>1
  <2>4. d[h] = u
    BY <1>2, <1>4, <1>5, <1>6, <2>1 DEF Shape
  <2> QED
    BY <1>2, <2>2, <2>3, <2>4, OneChanges
<1>7. CASE h \notin Handle
  <2>1. DOMAIN d = Handle /\ \A g \in Handle : d[g] = fh[g]
    BY <1>4, <1>7 DEF FilesInv, AllGood
  <2> QED
    BY <1>2, <2>1 DEF FilesInv, AllGood
<1> QED
  BY <1>6, <1>7

(* Every system call keeps the invariant.                                  *)
LEMMA FilesCall ==
    ASSUME FilesInv, built, UNCHANGED imageVars, NEW p \in running, SystemCall(p)
    PROVE  FilesInv'
<1>1. CwdInv' /\ p \in Proc
  BY CwdCall DEF FilesInv, CwdInv
<1>2. PICK d : d = fh'
  OBVIOUS
<1>3. AllGood(fh)
  BY DEF FilesInv
<1>4. ASSUME NEW path \in ChdirPath, syscall_chdir(p, path) PROVE AllGood(fh')
  BY <1>3, <1>4 DEF syscall_chdir
<1>5. ASSUME NEW child \in Proc, syscall_fork(p, child) PROVE AllGood(fh')
  <2>1. d = Forked(p)
    BY <1>2, <1>5 DEF syscall_fork, Forked
  <2> QED
    BY <1>2, <2>1, ForkGood
<1>6. ASSUME kill_process(p) PROVE AllGood(fh')
  <2>1. d = Closed(p, Fd)
    BY <1>2, <1>6 DEF kill_process
  <2> QED
    BY <1>2, <2>1, ClosedGood
<1>7. ASSUME NEW path \in OpenPath, syscall_open(p, path) PROVE AllGood(fh')
  BY <1>1, <1>7, OpenKeeps, FilesAssumption
<1>8. ASSUME NEW fd \in Fd, NEW count \in 1 .. 2, syscall_read(p, fd, count) PROVE AllGood(fh')
  BY <1>8, ReadKeeps
<1>9. ASSUME NEW fd \in Fd, syscall_getdent(p, fd) PROVE AllGood(fh')
  BY <1>9, GetdentKeeps
<1>10. ASSUME NEW fd \in Fd, syscall_close(p, fd) PROVE AllGood(fh')
  <2>1. d = Closed(p, {fd})
    BY <1>2, <1>10 DEF syscall_close
  <2> QED
    BY <1>2, <2>1, ClosedGood
<1>11. ASSUME NEW fd \in Fd, NEW newfd \in Fd, syscall_dup2(p, fd, newfd) PROVE AllGood(fh')
  <2>1. PICK c, h, x : /\ c = Closed(p, {newfd}) /\ h = filedesc[p][fd]
                       /\ x = 1 + IF filedesc[p][newfd] = h THEN fh[h].refcount - 1
                                  ELSE fh[h].refcount
    OBVIOUS
  <2>2. d = Copied(c, h, x)
    BY <1>2, <1>11, <2>1 DEF syscall_dup2, Copied
  <2>3. AllGood(c)
    BY <2>1, ClosedGood
  <2> QED
    BY <1>2, <2>2, <2>3, CopyGood
<1>12. AllGood(fh')
  BY <1>4, <1>5, <1>6, <1>7, <1>8, <1>9, <1>10, <1>11 DEF SystemCall
<1> QED
  BY <1>1, <1>12, HandlesKeep

(* The inductive invariant holds in every reachable state: fstool lays the *)
(* tree out as ImageInv says, every working directory is one the kernel    *)
(* can find, and every handle is in step with what it was opened for.      *)
THEOREM FilesInvariant == Spec => []FilesInv
<1>1. FilesInit => FilesInv
  BY FilesInitOK
<1>2. FilesInv /\ [Next]_vars => FilesInv'
  <2> SUFFICES ASSUME FilesInv, [Next]_vars PROVE FilesInv'
    OBVIOUS
  <2>1. CASE Build /\ UNCHANGED fileVars
    BY <2>1, FilesBuild
  <2>2. ASSUME built, NEW p \in running, SystemCall(p), UNCHANGED imageVars PROVE FilesInv'
    BY <2>2, FilesCall
  <2>3. CASE UNCHANGED vars
    <3>1. UNCHANGED imageVars /\ UNCHANGED <<running, cwd, place>> /\ fh' = fh
      BY <2>3 DEF vars, fileVars
    <3>2. CwdInv'
      BY <3>1, CwdKeeps DEF FilesInv, CwdInv, ProcOK
    <3> QED
      BY <3>1, <3>2, HandlesKeep DEF FilesInv
  <2> QED
    BY <2>1, <2>2, <2>3 DEF Next
<1> QED
  BY <1>1, <1>2, PTL DEF Spec

(* fstool (process_dir, process_file): for every tree of the host, the     *)
(* built image holds every file and directory under its path name, in      *)
(* areas that do not overlap and leave no cell unused.                     *)
THEOREM ImageIsPartitioned == Spec => []ImagePartitioned
<1>1. FilesInv => ImagePartitioned
  BY CwdSafe DEF FilesInv
<1> QED
  BY <1>1, FilesInvariant, PTL

(* stat (relative_to_absolute, get_directory_entry): for every tree,       *)
(* working directory and path name that fits, the kernel finds what a walk *)
(* through the tree of the host finds.                                     *)
THEOREM StatIsRight == Spec => []StatAgrees
<1>1. FilesInv => StatAgrees
  BY CwdSafe DEF FilesInv
<1> QED
  BY <1>1, FilesInvariant, PTL

(* chdir: the working directory is always the plain path name of the       *)
(* directory that the calls have led to.                                   *)
THEOREM CwdIsCanonical == Spec => []CwdCanonical
<1>1. FilesInv => CwdCanonical
  BY CwdSafe DEF FilesInv
<1> QED
  BY <1>1, FilesInvariant, PTL

(* relative_to_absolute never overruns a buffer of PATH_MAX bytes, for any *)
(* path name, and every working directory exists in the image.             *)
THEOREM PathsAlwaysFit == Spec => []PathsFit
<1>1. FilesInv => PathsFit
  BY CwdSafe DEF FilesInv
<1> QED
  BY <1>1, FilesInvariant, PTL

(* read and getdent: what the processes that share a handle read through   *)
(* it is, all together, the content in order, each item once, and all of   *)
(* it before the end is reported.                                          *)
THEOREM ReadsComeInOrder == Spec => []ReadsInOrder
<1>1. FilesInv => ReadsInOrder
  BY ReadsSafe
<1> QED
  BY <1>1, FilesInvariant, PTL

=============================================================================

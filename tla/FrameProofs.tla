---------------------------- MODULE FrameProofs ----------------------------
(***************************************************************************)
(* Proofs about the frames of module Paging, for every size of the tables, *)
(* layout of the segments, program and argument of brk: whatever the       *)
(* processes do, no frame is used twice.                                   *)
(***************************************************************************)
EXTENDS Paging, FiniteSetTheorems, TLAPS

(***************************************************************************)
(* Arithmetic of pages.                                                    *)
(***************************************************************************)
(* What \div and % compute.                                                *)
LEMMA Division ==
    ASSUME NEW n \in Nat, NEW k \in Nat \ {0}
    PROVE  \E q \in Nat, r \in 0 .. (k - 1) :
               q = n \div k /\ r = n % k /\ q * k + r = n
<1>1. n \div k \in Int /\ n % k \in Int
  OBVIOUS
<1>2. PICK q \in Int, r \in Int : q = n \div k /\ r = n % k
  BY <1>1
<1>3. q * k + r = n
  BY <1>2
<1>4. q >= 0 /\ r >= 0 /\ r < k
  BY <1>2
<1> QED
  BY <1>2, <1>3, <1>4

(* A byte below the end of page k - 1 lies in one of the first k pages,    *)
(* and one behind the start of page k does not.                            *)
LEMMA DivBound ==
    ASSUME NEW n \in Nat, NEW m \in Nat \ {0}, NEW k \in Nat
    PROVE  /\ n \div m \in Nat
           /\ n < k * m => n \div m < k
           /\ n >= k * m => n \div m >= k
<1>1. PICK q \in Nat, r \in 0 .. (m - 1) : q = n \div m /\ q * m + r = n
  BY Division
<1>2. ASSUME n < k * m, k <= q PROVE FALSE
  <2>1. k * m <= q * m
    BY <1>2
  <2> QED
    BY <1>1, <1>2, <2>1
<1>3. ASSUME n >= k * m, q + 1 <= k PROVE FALSE
  <2>1. (q + 1) * m <= k * m
    BY <1>3
  <2>2. (q + 1) * m = q * m + m
    OBVIOUS
  <2> QED
    BY <1>1, <1>3, <2>1, <2>2
<1> QED
  BY <1>1, <1>2, <1>3

(* RoundUp gives the pages that so many bytes fill or begin.               *)
LEMMA RoundUpBound ==
    ASSUME NEW n \in Nat, NEW k \in Nat
    PROVE  /\ RoundUp(n) \in Nat
           /\ n <= k * PAGE_SIZE => RoundUp(n) <= k
           /\ n > k * PAGE_SIZE => RoundUp(n) > k
<1> DEFINE m == PAGE_SIZE
<1>0. m \in Nat \ {0}
  BY PagingAssumption
<1> HIDE DEF m
<1>1. PICK q \in Nat, r \in 0 .. (m - 1) : q = n \div m /\ r = n % m /\ q * m + r = n
  BY <1>0, Division
<1>2. RoundUp(n) = IF r # 0 THEN q + 1 ELSE q
  BY <1>1 DEF RoundUp, m
<1>3. ASSUME n <= k * m, k < q PROVE FALSE
  <2>1. (k + 1) * m <= q * m
    BY <1>0, <1>3
  <2>2. (k + 1) * m = k * m + m
    BY <1>0
  <2> QED
    BY <1>0, <1>1, <1>3, <2>1, <2>2
<1>4. ASSUME n <= k * m, k = q PROVE r = 0
  BY <1>0, <1>1, <1>4
<1>5. ASSUME n > k * m, q + 1 <= k PROVE FALSE
  <2>1. (q + 1) * m <= k * m
    BY <1>0, <1>5
  <2>2. (q + 1) * m = q * m + m
    BY <1>0
  <2> QED
    BY <1>0, <1>1, <1>5, <2>1, <2>2
<1>6. ASSUME n > k * m, q = k PROVE r # 0
  BY <1>0, <1>1, <1>6
<1>7. n <= k * m => RoundUp(n) <= k
  BY <1>2, <1>3, <1>4
<1>8. n > k * m => RoundUp(n) > k
  BY <1>2, <1>5, <1>6
<1> QED
  BY <1>2, <1>7, <1>8 DEF m

(* The table of a page is one of the directory.                            *)
LEMMA DirindexType ==
    ASSUME NEW a \in PageNo
    PROVE  dirindex(a) \in Dirindex
<1>1. /\ TableLength \in Nat \ {0} /\ TableCount \in Nat \ {0}
      /\ TableLength * TableCount \in Nat /\ TableLength * TableCount = TableCount * TableLength
  BY PagingAssumption
<1>2. a \in Nat /\ a < TableCount * TableLength
  BY <1>1 DEF PageNo
<1>3. a \div TableLength \in Nat /\ a \div TableLength < TableCount
  BY <1>1, <1>2, DivBound
<1> QED
  BY <1>1, <1>3 DEF dirindex, Dirindex

(***************************************************************************)
(* The inductive invariant.                                                *)
(***************************************************************************)
Kernel    == 0 .. (PAGE_START - 1)
UserPage  == PageNo \ Kernel
Entry     == Nat \cup {NONE}
OpName    == {"identity", "new", "copy", "load", "resize", "unmap", "table", "dir"}
PageOp    == [op : OpName, at : Nat]

TypeOK ==
    /\ live \in SUBSET Pid
    /\ pdir \in [Pid -> Entry]
    /\ dir \in [Pid -> [Dirindex -> Entry]]
    /\ ptable \in [Pid -> [PageNo -> Entry]]
    /\ text_end \in [Pid -> TEXT_BASE .. DATA_BASE]
    /\ data_end \in [Pid -> PageNo]
    /\ todo \in Seq(PageOp)
    /\ proc \in Pid \cup {NONE} /\ source \in Pid \cup {NONE}
    /\ npages \in Int

(* The free frames lie between the kernel and the end, each listed once.   *)
PoolOK ==
    /\ page_end \in Nat /\ page_end >= PAGE_START
    /\ page_free \in Seq(Nat)
    /\ \A i \in 1 .. Len(page_free) :
          /\ page_free[i] >= PAGE_START /\ page_free[i] < page_end
          /\ \A j \in 1 .. Len(page_free) : page_free[i] = page_free[j] => i = j

(* A frame that alloc_page may still return.                               *)
Avail(f) == f >= page_end \/ \E i \in 1 .. Len(page_free) : page_free[i] = f

(* The frame f is the page directory of p, its table i, or its page i.     *)
Owns(kind, p, i, f) ==
    /\ p \in live /\ f # NONE
    /\ \/ kind = "dir" /\ i = 0 /\ pdir[p] = f
       \/ kind = "table" /\ i \in Dirindex /\ dir[p][i] = f
       \/ kind = "page" /\ i \in UserPage /\ ptable[p][i] = f

OwnedOnce ==
    \A k, p, i, l, q, j, f :
        Owns(k, p, i, f) /\ Owns(l, q, j, f) => k = l /\ p = q /\ i = j

OwnedTaken ==
    \A k, p, i, f : Owns(k, p, i, f) => f \in Nat /\ f >= PAGE_START /\ ~Avail(f)

(* The pages that the operations of a call are about.                      *)
OpValid(o) ==
    /\ o.op = "identity" => o.at \in Kernel
    /\ o.op \in {"new", "copy"} => o.at \in PageNo
    /\ o.op = "load" => o.at \in TEXT_BASE .. (DATA_BASE - 1)
    /\ o.op = "unmap" => o.at \in UserPage
    /\ o.op = "table" => o.at \in Dirindex

OpsValid ==
    /\ todo # <<>> => proc \in live
    /\ \A i \in 1 .. Len(todo) : OpValid(todo[i])

(* A page is mapped by a table that exists.                                *)
TablesPresent ==
    \A p \in Pid, a \in PageNo : ptable[p][a] # NONE => dir[p][dirindex(a)] # NONE

(* A live process has a directory, a dead one has left no tables behind.   *)
DirsValid ==
    \A p \in Pid : /\ p \in live => pdir[p] # NONE
                   /\ p \notin live => \A d \in Dirindex : dir[p][d] = NONE

(* A page directory is freed last, after all its tables.                   *)
DirFreedLast ==
    \A i \in 1 .. Len(todo) : todo[i].op = "dir" =>
        /\ i = Len(todo)
        /\ \A j \in 1 .. Len(todo) : todo[j].op \in {"unmap", "table", "dir"}
        /\ \A d \in Dirindex : dir[proc][d] # NONE =>
               \E j \in 1 .. Len(todo) : todo[j].op = "table" /\ todo[j].at = d

FInv == /\ TypeOK /\ PoolOK /\ OwnedOnce /\ OwnedTaken /\ OpsValid
        /\ TablesPresent /\ DirsValid /\ DirFreedLast

(***************************************************************************)
(* The allocator.                                                          *)
(***************************************************************************)
(* alloc_page returns frames nobody has, different ones, and takes exactly *)
(* these out of the pool.                                                  *)
LEMMA AllocEffect ==
    ASSUME PoolOK, NEW n \in 0 .. 2, alloc_page(n)
    PROVE  /\ PoolOK'
           /\ \A f \in Nat : Avail(f)' <=> Avail(f) /\ \A m \in 1 .. n : f # NextFrame(m)
           /\ \A m \in 1 .. n : /\ NextFrame(m) \in Nat /\ NextFrame(m) >= PAGE_START
                                /\ Avail(NextFrame(m))
           /\ \A m, k \in 1 .. n : NextFrame(m) = NextFrame(k) => m = k
           /\ npages' = npages + n
<1> DEFINE l == Len(page_free)
<1>0. PAGE_START \in Nat
  BY PagingAssumption DEF PageNo
<1>1. /\ page_end \in Nat /\ page_end >= PAGE_START /\ page_free \in Seq(Nat) /\ l \in Nat
      /\ \A i \in 1 .. l : /\ page_free[i] \in Nat
                          /\ page_free[i] >= PAGE_START /\ page_free[i] < page_end
      /\ \A i, j \in 1 .. l : page_free[i] = page_free[j] => i = j
  BY DEF PoolOK
<1>2. /\ page_free' = SubSeq(page_free, n + 1, l)
      /\ page_end' = IF n > l THEN page_end + n - l ELSE page_end
      /\ npages' = npages + n
  BY DEF alloc_page
<1>3. \A m \in 1 .. n : NextFrame(m) = IF m <= l THEN page_free[m] ELSE page_end + m - l - 1
  BY DEF NextFrame
<1> HIDE DEF l
<1>4. /\ \A m \in 1 .. n : NextFrame(m) \in Nat /\ NextFrame(m) >= PAGE_START
      /\ \A m \in 1 .. n : m <= l => NextFrame(m) = page_free[m]
      /\ \A m \in 1 .. n : m > l => NextFrame(m) >= page_end
  BY <1>0, <1>1, <1>3
<1>5. \A m, k \in 1 .. n : NextFrame(m) = NextFrame(k) => m = k
  <2> SUFFICES ASSUME NEW m \in 1 .. n, NEW k \in 1 .. n, NextFrame(m) = NextFrame(k)
               PROVE  m = k
    OBVIOUS
  <2>1. CASE m <= l /\ k <= l
    BY <1>1, <1>3, <2>1
  <2>2. CASE m > l /\ k > l
    BY <1>1, <1>3, <2>2
  <2>3. CASE (m <= l /\ k > l) \/ (m > l /\ k <= l)
    BY <1>1, <1>3, <2>3
  <2> QED
    BY <1>1, <2>1, <2>2, <2>3
<1>6. CASE n <= l
  <2>1. /\ page_free' \in Seq(Nat) /\ Len(page_free') = l - n
        /\ \A i \in 1 .. (l - n) : page_free'[i] = page_free[n + i]
    BY <1>1, <1>2, <1>6 DEF l
  <2>2. page_end' = page_end
    BY <1>2, <1>6, <1>1
  <2>3. PoolOK'
    <3>1. \A i \in 1 .. (l - n) : n + i \in 1 .. l
      BY <1>1, <1>6
    <3>2. \A i \in 1 .. (l - n) : page_free'[i] >= PAGE_START /\ page_free'[i] < page_end
      BY <1>1, <2>1, <3>1
    <3>3. \A i, j \in 1 .. (l - n) : page_free'[i] = page_free'[j] => i = j
      <4> SUFFICES ASSUME NEW i \in 1 .. (l - n), NEW j \in 1 .. (l - n),
                          page_free'[i] = page_free'[j]
                   PROVE  i = j
        OBVIOUS
      <4>1. n + i = n + j
        BY <1>1, <2>1, <3>1
      <4> QED
        BY <1>1, <4>1
    <3> QED
      BY <1>1, <2>1, <2>2, <3>2, <3>3 DEF PoolOK
  <2>4. \A m \in 1 .. n : m \in 1 .. l /\ NextFrame(m) = page_free[m]
    BY <1>1, <1>3, <1>6
  <2>5. ASSUME NEW f \in Nat
        PROVE  Avail(f)' <=> Avail(f) /\ \A m \in 1 .. n : f # NextFrame(m)
    <3>1. ASSUME NEW i \in 1 .. (l - n), page_free'[i] = f
          PROVE  Avail(f) /\ \A m \in 1 .. n : f # NextFrame(m)
      <4>1. n + i \in 1 .. l /\ page_free[n + i] = f
        BY <1>1, <1>6, <2>1, <3>1
      <4> QED
        BY <1>1, <2>4, <4>1 DEF Avail, l
    <3>2. ASSUME f >= page_end
          PROVE  \A m \in 1 .. n : f # NextFrame(m)
      BY <1>1, <2>4, <3>2
    <3>3. ASSUME NEW i \in 1 .. l, page_free[i] = f, \A m \in 1 .. n : f # NextFrame(m)
          PROVE  \E j \in 1 .. (l - n) : page_free'[j] = f
      <4>1. i \notin 1 .. n
        BY <2>4, <3>3
      <4>2. i - n \in 1 .. (l - n) /\ n + (i - n) = i
        BY <1>1, <1>6, <4>1
      <4> QED
        BY <2>1, <3>3, <4>2
    <3> QED
      BY <2>1, <2>2, <3>1, <3>2, <3>3 DEF Avail, l
  <2>6. \A m \in 1 .. n : Avail(NextFrame(m))
    BY <2>4 DEF Avail, l
  <2> QED
    BY <1>2, <1>4, <1>5, <2>3, <2>5, <2>6
<1>7. CASE n > l
  <2>1. page_free' = <<>> /\ page_free' \in Seq(Nat) /\ Len(page_free') = 0
    BY <1>1, <1>2, <1>7 DEF l
  <2>2. page_end' = page_end + n - l
    BY <1>2, <1>7
  <2>3. PoolOK'
    BY <1>0, <1>1, <1>7, <2>1, <2>2 DEF PoolOK
  <2>4. ASSUME NEW f \in Nat
        PROVE  Avail(f)' <=> Avail(f) /\ \A m \in 1 .. n : f # NextFrame(m)
    <3>1. Avail(f)' <=> f >= page_end + n - l
      BY <2>1, <2>2 DEF Avail
    <3>2. ASSUME f >= page_end + n - l, NEW m \in 1 .. n
          PROVE  f # NextFrame(m) /\ f >= page_end
      BY <1>1, <1>3, <1>7, <3>2
    <3>3. ASSUME f < page_end + n - l, Avail(f)
          PROVE  \E m \in 1 .. n : f = NextFrame(m)
      <4>1. CASE f >= page_end
        <5>1. f - page_end + l + 1 \in 1 .. n /\ f - page_end + l + 1 > l
          BY <1>1, <1>7, <3>3, <4>1
        <5>2. NextFrame(f - page_end + l + 1) = f
          BY <1>1, <1>3, <5>1, <4>1
        <5> QED
          BY <5>1, <5>2
      <4>2. ASSUME NEW i \in 1 .. l, page_free[i] = f
            PROVE  \E m \in 1 .. n : f = NextFrame(m)
        <5>1. i \in 1 .. n /\ i <= l
          BY <1>1, <1>7
        <5> QED
          BY <1>3, <4>2, <5>1
      <4> QED
        BY <3>3, <4>1, <4>2 DEF Avail, l
    <3>4. 1 \in 1 .. n
      BY <1>1, <1>7
    <3> QED
      BY <1>1, <1>7, <3>1, <3>2, <3>3, <3>4 DEF Avail
  <2>5. \A m \in 1 .. n : Avail(NextFrame(m))
    <3> SUFFICES ASSUME NEW m \in 1 .. n PROVE Avail(NextFrame(m))
      OBVIOUS
    <3>1. CASE m <= l
      <4>1. m \in 1 .. l /\ page_free[m] = NextFrame(m)
        BY <1>1, <1>3, <3>1
      <4> QED
        BY <4>1 DEF Avail, l
    <3>2. CASE m > l
      BY <1>4, <3>2 DEF Avail
    <3> QED
      BY <1>1, <3>1, <3>2
  <2> QED
    BY <1>2, <1>4, <1>5, <2>3, <2>4, <2>5
<1> QED
  BY <1>1, <1>6, <1>7

(* free_page adds the frame to the pool.                                   *)
LEMMA FreeEffect ==
    ASSUME PoolOK, NEW g \in Nat, g >= PAGE_START, ~Avail(g), free_page(g)
    PROVE  /\ PoolOK'
           /\ \A f \in Nat : Avail(f)' <=> Avail(f) \/ f = g
           /\ npages' = npages - 1
<1> DEFINE l == Len(page_free)
<1>0. PAGE_START \in Nat
  BY PagingAssumption DEF PageNo
<1>1. /\ page_end \in Nat /\ page_end >= PAGE_START /\ page_free \in Seq(Nat) /\ l \in Nat
      /\ \A i \in 1 .. l : /\ page_free[i] \in Nat
                          /\ page_free[i] >= PAGE_START /\ page_free[i] < page_end
      /\ \A i, j \in 1 .. l : page_free[i] = page_free[j] => i = j
  BY DEF PoolOK
<1>2. /\ page_free' = <<g>> \o page_free /\ page_end' = page_end
      /\ npages' = npages - 1
  BY DEF free_page
<1>3. g < page_end /\ \A i \in 1 .. l : page_free[i] # g
  BY <1>1 DEF Avail
<1>4. /\ page_free' \in Seq(Nat) /\ Len(page_free') = l + 1 /\ page_free'[1] = g
      /\ \A i \in 1 .. l : page_free'[i + 1] = page_free[i]
  BY <1>1, <1>2
<1> HIDE DEF l
<1>5. \A i \in 1 .. (l + 1) : i # 1 => i - 1 \in 1 .. l /\ page_free'[i] = page_free[i - 1]
  <2> SUFFICES ASSUME NEW i \in 1 .. (l + 1), i # 1
               PROVE  i - 1 \in 1 .. l /\ page_free'[i] = page_free[i - 1]
    OBVIOUS
  <2>1. i - 1 \in 1 .. l /\ (i - 1) + 1 = i
    BY <1>1
  <2> QED
    BY <1>4, <2>1
<1>6. PoolOK'
  <2>1. \A i \in 1 .. (l + 1) : page_free'[i] >= PAGE_START /\ page_free'[i] < page_end
    BY <1>1, <1>3, <1>4, <1>5
  <2>2. \A i, j \in 1 .. (l + 1) : page_free'[i] = page_free'[j] => i = j
    <3> SUFFICES ASSUME NEW i \in 1 .. (l + 1), NEW j \in 1 .. (l + 1),
                        page_free'[i] = page_free'[j]
                 PROVE  i = j
      OBVIOUS
    <3>1. CASE i = 1 \/ j = 1
      BY <1>3, <1>4, <1>5, <3>1
    <3>2. CASE i # 1 /\ j # 1
      <4>1. i - 1 = j - 1
        BY <1>1, <1>5, <3>2
      <4> QED
        BY <1>1, <4>1
    <3> QED
      BY <3>1, <3>2
  <2> QED
    BY <1>1, <1>2, <1>4, <2>1, <2>2 DEF PoolOK
<1>7. \A f \in Nat : Avail(f)' <=> Avail(f) \/ f = g
  <2> SUFFICES ASSUME NEW f \in Nat PROVE Avail(f)' <=> Avail(f) \/ f = g
    OBVIOUS
  <2>1. Avail(f)' <=> f >= page_end \/ \E i \in 1 .. (l + 1) : page_free'[i] = f
    BY <1>2, <1>4 DEF Avail
  <2>2. Avail(f) <=> f >= page_end \/ \E i \in 1 .. l : page_free[i] = f
    BY DEF Avail, l
  <2>3. (\E i \in 1 .. (l + 1) : page_free'[i] = f)
           => f = g \/ \E i \in 1 .. l : page_free[i] = f
    BY <1>4, <1>5
  <2>4. ASSUME NEW i \in 1 .. l, page_free[i] = f
        PROVE  \E j \in 1 .. (l + 1) : page_free'[j] = f
    <3>1. i + 1 \in 1 .. (l + 1) /\ page_free'[i + 1] = f
      BY <1>1, <1>4, <2>4
    <3> QED
      BY <3>1
  <2>5. \E j \in 1 .. (l + 1) : page_free'[j] = g
    BY <1>1, <1>4
  <2> QED
    BY <2>1, <2>2, <2>3, <2>4, <2>5
<1> QED
  BY <1>2, <1>6, <1>7

(***************************************************************************)
(* Who owns which frame.                                                   *)
(***************************************************************************)
(* The next n frames get the owners U; everyone else keeps what it has or  *)
(* loses it.                                                               *)
GetsNext(n, U, k, p, i, f) == \E m \in 1 .. n : U[m] = <<k, p, i>> /\ f = NextFrame(m)

Gains(n, U) ==
    \A k, p, i, f : Owns(k, p, i, f)' => Owns(k, p, i, f) \/ GetsNext(n, U, k, p, i, f)

(* Nobody gains a frame, and this owner loses the one it has.              *)
Loses(k0, p0, i0) ==
    \A k, p, i, f : Owns(k, p, i, f)' =>
        Owns(k, p, i, f) /\ ~(k = k0 /\ p = p0 /\ i = i0)

(* Frames that come out of the allocator and get their owners.             *)
LEMMA TakeStep ==
    ASSUME PoolOK, OwnedOnce, OwnedTaken, NEW n \in 0 .. 2, NEW U, alloc_page(n), Gains(n, U)
    PROVE  PoolOK' /\ OwnedOnce' /\ OwnedTaken'
<1>1. /\ PoolOK'
      /\ \A f \in Nat : Avail(f)' <=> Avail(f) /\ \A m \in 1 .. n : f # NextFrame(m)
      /\ \A m \in 1 .. n : /\ NextFrame(m) \in Nat /\ NextFrame(m) >= PAGE_START
                           /\ Avail(NextFrame(m))
      /\ \A m, k \in 1 .. n : NextFrame(m) = NextFrame(k) => m = k
  BY AllocEffect
<1>2. \A k, p, i, f, m : Owns(k, p, i, f) /\ m \in 1 .. n => f # NextFrame(m)
  BY <1>1 DEF OwnedTaken
<1>3. OwnedOnce'
  <2> SUFFICES ASSUME NEW k, NEW p, NEW i, NEW l, NEW q, NEW j, NEW f,
                      Owns(k, p, i, f)', Owns(l, q, j, f)'
               PROVE  k = l /\ p = q /\ i = j
    BY DEF OwnedOnce
  <2>1. CASE Owns(k, p, i, f) /\ Owns(l, q, j, f)
    BY <2>1 DEF OwnedOnce
  <2>2. CASE Owns(k, p, i, f) /\ ~Owns(l, q, j, f)
    BY <1>2, <2>2 DEF Gains, GetsNext
  <2>3. CASE ~Owns(k, p, i, f) /\ Owns(l, q, j, f)
    BY <1>2, <2>3 DEF Gains, GetsNext
  <2>4. CASE ~Owns(k, p, i, f) /\ ~Owns(l, q, j, f)
    <3>1. PICK m \in 1 .. n : U[m] = <<k, p, i>> /\ f = NextFrame(m)
      BY <2>4 DEF Gains, GetsNext
    <3>2. PICK o \in 1 .. n : U[o] = <<l, q, j>> /\ f = NextFrame(o)
      BY <2>4 DEF Gains, GetsNext
    <3>3. <<k, p, i>> = <<l, q, j>>
      BY <1>1, <3>1, <3>2
    <3> QED
      BY <3>3
  <2> QED
    BY <2>1, <2>2, <2>3, <2>4
<1>4. OwnedTaken'
  <2> SUFFICES ASSUME NEW k, NEW p, NEW i, NEW f, Owns(k, p, i, f)'
               PROVE  f \in Nat /\ f >= PAGE_START /\ ~(Avail(f)')
    BY DEF OwnedTaken
  <2>1. CASE Owns(k, p, i, f)
    BY <1>1, <2>1 DEF OwnedTaken
  <2>2. CASE ~Owns(k, p, i, f)
    BY <1>1, <2>2 DEF Gains, GetsNext
  <2> QED
    BY <2>1, <2>2
<1> QED
  BY <1>1, <1>3, <1>4

(* A frame that its owner gives back.                                      *)
LEMMA GiveStep ==
    ASSUME PoolOK, OwnedOnce, OwnedTaken, NEW k0, NEW p0, NEW i0, NEW g,
           Owns(k0, p0, i0, g), free_page(g), Loses(k0, p0, i0)
    PROVE  PoolOK' /\ OwnedOnce' /\ OwnedTaken'
<1>1. g \in Nat /\ g >= PAGE_START /\ ~Avail(g)
  BY DEF OwnedTaken
<1>2. PoolOK' /\ \A f \in Nat : Avail(f)' <=> Avail(f) \/ f = g
  BY <1>1, FreeEffect
<1>3. OwnedOnce'
  BY DEF OwnedOnce, Loses
<1>4. OwnedTaken'
  <2> SUFFICES ASSUME NEW k, NEW p, NEW i, NEW f, Owns(k, p, i, f)'
               PROVE  f \in Nat /\ f >= PAGE_START /\ ~(Avail(f)')
    BY DEF OwnedTaken
  <2>1. f \in Nat /\ f >= PAGE_START /\ ~Avail(f)
    BY DEF OwnedTaken, Loses
  <2>2. f # g
    BY DEF OwnedOnce, Loses
  <2> QED
    BY <1>2, <2>1, <2>2
<1> QED
  BY <1>2, <1>3, <1>4

(* Nothing happens to the frames.                                          *)
LEMMA KeepStep ==
    ASSUME PoolOK, OwnedOnce, OwnedTaken, UNCHANGED <<page_end, page_free>>,
           \A k, p, i, f : Owns(k, p, i, f)' => Owns(k, p, i, f)
    PROVE  PoolOK' /\ OwnedOnce' /\ OwnedTaken'
<1>1. PoolOK'
  BY DEF PoolOK
<1>2. \A f : Avail(f)' <=> Avail(f)
  BY DEF Avail
<1>3. OwnedOnce'
  BY DEF OwnedOnce
<1>4. OwnedTaken'
  BY <1>2 DEF OwnedTaken
<1> QED
  BY <1>1, <1>3, <1>4

(***************************************************************************)
(* The page operations of a call.                                          *)
(***************************************************************************)
(* The operations before and behind the seam of two loops.                 *)
LEMMA Concat ==
    ASSUME NEW S, NEW s \in Seq(S), NEW t \in Seq(S)
    PROVE  /\ s \o t \in Seq(S) /\ Len(s \o t) = Len(s) + Len(t)
           /\ Len(s) \in Nat /\ Len(t) \in Nat
           /\ \A i \in 1 .. Len(s) : (s \o t)[i] = s[i]
           /\ \A i \in 1 .. Len(t) : (s \o t)[Len(s) + i] = t[i]
           /\ \A i \in 1 .. Len(s \o t) :
                 \/ i \in 1 .. Len(s) /\ (s \o t)[i] = s[i]
                 \/ /\ i > Len(s) /\ i - Len(s) \in 1 .. Len(t)
                    /\ (s \o t)[i] = t[i - Len(s)]
<1>1. /\ s \o t \in Seq(S) /\ Len(s \o t) = Len(s) + Len(t)
      /\ Len(s) \in Nat /\ Len(t) \in Nat
  OBVIOUS
<1>2. \A i \in 1 .. Len(s) : (s \o t)[i] = s[i]
  OBVIOUS
<1>3. \A i \in 1 .. Len(t) : (s \o t)[Len(s) + i] = t[i]
  <2> SUFFICES ASSUME NEW i \in 1 .. Len(t) PROVE (s \o t)[Len(s) + i] = t[i]
    OBVIOUS
  <2>1. Len(s) + i \in 1 .. (Len(s) + Len(t)) /\ Len(s) + i > Len(s) /\ Len(s) + i - Len(s) = i
    BY <1>1
  <2> QED
    BY <2>1
<1>4. ASSUME NEW i \in 1 .. Len(s \o t)
      PROVE  \/ i \in 1 .. Len(s) /\ (s \o t)[i] = s[i]
             \/ /\ i > Len(s) /\ i - Len(s) \in 1 .. Len(t)
                /\ (s \o t)[i] = t[i - Len(s)]
  <2>1. CASE i <= Len(s)
    BY <1>1, <1>2, <2>1
  <2>2. CASE i > Len(s)
    <3>1. i - Len(s) \in 1 .. Len(t) /\ Len(s) + (i - Len(s)) = i
      BY <1>1, <2>2
    <3> QED
      BY <1>3, <2>2, <3>1
  <2> QED
    BY <1>1, <2>1, <2>2
<1> QED
  BY <1>1, <1>2, <1>3, <1>4

(* A loop is empty unless it ends behind its start.                        *)
LEMMA LoopEffect ==
    ASSUME NEW kind \in OpName, NEW a \in Nat, NEW b \in Nat
    PROVE  /\ Loop(kind, a, b) \in Seq(PageOp)
           /\ Len(Loop(kind, a, b)) = IF b > a THEN b - a ELSE 0
           /\ \A i \in 1 .. Len(Loop(kind, a, b)) :
                 /\ Loop(kind, a, b)[i].op = kind
                 /\ Loop(kind, a, b)[i].at = a + i - 1
                 /\ a + i - 1 \in a .. (b - 1)
<1> DEFINE n == IF b > a THEN b - a ELSE 0
<1>1. n \in Nat /\ 1 .. (b - a) = 1 .. n
  OBVIOUS
<1>2. Loop(kind, a, b) = [i \in 1 .. n |-> [op |-> kind, at |-> a + i - 1]]
  BY <1>1 DEF Loop
<1>3. \A i \in 1 .. n : [op |-> kind, at |-> a + i - 1] \in PageOp /\ a + i - 1 \in a .. (b - 1)
  BY DEF PageOp
<1> HIDE DEF n
<1>4. \A i \in 1 .. n : Loop(kind, a, b)[i] = [op |-> kind, at |-> a + i - 1]
  BY <1>2
<1>5. ASSUME NEW i \in 1 .. n
      PROVE  Loop(kind, a, b)[i].op = kind /\ Loop(kind, a, b)[i].at = a + i - 1
  <2>1. Loop(kind, a, b)[i] = [op |-> kind, at |-> a + i - 1]
    BY <1>4
  <2> QED
    BY <2>1
<1>7. Loop(kind, a, b) \in [1 .. n -> PageOp]
  <2> DEFINE e(i) == [op |-> kind, at |-> a + i - 1]
  <2>1. Loop(kind, a, b) = [i \in 1 .. n |-> e(i)] /\ \A i \in 1 .. n : e(i) \in PageOp
    BY <1>2, <1>3
  <2> HIDE DEF e
  <2> QED
    BY <2>1
<1>8. Loop(kind, a, b) \in Seq(PageOp) /\ Len(Loop(kind, a, b)) = n
  <2> DEFINE s == Loop(kind, a, b)
  <2>1. s \in [1 .. n -> PageOp]
    BY <1>7
  <2> HIDE DEF s
  <2>2. s \in Seq(PageOp) /\ Len(s) = n
    BY <1>1, <2>1
  <2> QED
    BY <2>2 DEF s
<1>9. \A i \in 1 .. n : a + i - 1 \in a .. (b - 1)
  BY <1>3
<1> QED
  <2>1. Len(Loop(kind, a, b)) = IF b > a THEN b - a ELSE 0
    BY <1>8 DEF n
  <2> QED
    BY <1>5, <1>8, <1>9, <2>1

LEMMA OneEffect ==
    ASSUME NEW kind \in OpName
    PROVE  /\ One(kind) \in Seq(PageOp) /\ Len(One(kind)) = 1
           /\ One(kind)[1].op = kind /\ One(kind)[1].at = 0
BY DEF One, PageOp

AllValid(s) == \A i \in 1 .. Len(s) : OpValid(s[i])

LEMMA ConcatValid ==
    ASSUME NEW s \in Seq(PageOp), NEW t \in Seq(PageOp), AllValid(s), AllValid(t)
    PROVE  s \o t \in Seq(PageOp) /\ AllValid(s \o t)
<1>1. s \o t \in Seq(PageOp)
  BY Concat
<1>2. ASSUME NEW i \in 1 .. Len(s \o t) PROVE OpValid((s \o t)[i])
  <2>1. \/ i \in 1 .. Len(s) /\ (s \o t)[i] = s[i]
        \/ i - Len(s) \in 1 .. Len(t) /\ (s \o t)[i] = t[i - Len(s)]
    BY Concat
  <2> QED
    BY <2>1 DEF AllValid
<1> QED
  BY <1>1, <1>2 DEF AllValid

(* The next operation, and what is left of the others behind it.           *)
LEMMA AdvanceEffect ==
    ASSUME TypeOK, OpsValid, todo # <<>>, Advance
    PROVE  /\ Op = todo[1] /\ Op \in PageOp /\ OpValid(Op) /\ Len(todo) \in Nat \ {0}
           /\ proc \in live /\ proc \in Pid
           /\ todo' \in Seq(PageOp) /\ Len(todo') = Len(todo) - 1
           /\ \A i \in 1 .. Len(todo') : i + 1 \in 1 .. Len(todo) /\ todo'[i] = todo[i + 1]
           /\ AllValid(todo')
           /\ proc' \in Pid \cup {NONE} /\ source' \in Pid \cup {NONE}
           /\ todo' # <<>> => proc' = proc /\ source' = source
<1>1. /\ todo \in Seq(PageOp) /\ todo # <<>> /\ todo' = Tail(todo)
      /\ proc \in live /\ live \in SUBSET Pid /\ source \in Pid \cup {NONE}
      /\ proc' = IF Len(todo) = 1 THEN NONE ELSE proc
      /\ source' = IF Len(todo) = 1 THEN NONE ELSE source
  BY DEF TypeOK, OpsValid, Advance
<1>2. Len(todo) \in Nat \ {0} /\ Op = todo[1] /\ Op \in PageOp
  BY <1>1 DEF Op
<1>3. todo' \in Seq(PageOp) /\ Len(todo') = Len(todo) - 1
  BY <1>1, <1>2
<1>4. \A i \in 1 .. Len(todo') : i + 1 \in 1 .. Len(todo) /\ todo'[i] = todo[i + 1]
  BY <1>1, <1>2, <1>3
<1>5. OpValid(Op) /\ AllValid(todo')
  <2>1. 1 \in 1 .. Len(todo) /\ \A i \in 1 .. Len(todo) : OpValid(todo[i])
    BY <1>2 DEF OpsValid
  <2> QED
    BY <1>2, <1>4, <2>1 DEF AllValid
<1>6. todo' # <<>> => Len(todo) # 1
  BY <1>2, <1>3
<1> QED
  BY <1>1, <1>2, <1>3, <1>4, <1>5, <1>6

(* No operation that fills a table runs in a call that frees the directory,*)
(* and one that empties a table goes on to the next.                       *)
LEMMA DirFreedLastStep ==
    ASSUME TypeOK, OpsValid, DirFreedLast, todo # <<>>, Advance,
           \/ Op.op \notin {"unmap", "table", "dir"}
           \/ /\ Op.op \in {"unmap", "table"}
              /\ \A d \in Dirindex : dir'[proc][d] # NONE =>
                     dir[proc][d] # NONE /\ ~(Op.op = "table" /\ Op.at = d)
           \/ Op.op = "dir"
    PROVE  DirFreedLast'
<1>1. /\ Op = todo[1] /\ Len(todo) \in Nat \ {0} /\ Len(todo') = Len(todo) - 1
      /\ \A i \in 1 .. Len(todo') : i + 1 \in 1 .. Len(todo) /\ todo'[i] = todo[i + 1]
      /\ todo' \in Seq(PageOp)
      /\ todo' # <<>> => proc' = proc
  BY AdvanceEffect
<1> SUFFICES ASSUME NEW i \in 1 .. Len(todo'), todo'[i].op = "dir"
             PROVE  /\ i = Len(todo')
                    /\ \A j \in 1 .. Len(todo') : todo'[j].op \in {"unmap", "table", "dir"}
                    /\ \A d \in Dirindex : dir'[proc'][d] # NONE =>
                          \E j \in 1 .. Len(todo') : todo'[j].op = "table" /\ todo'[j].at = d
  BY DEF DirFreedLast
<1>2. i + 1 \in 1 .. Len(todo) /\ todo[i + 1].op = "dir"
  BY <1>1
<1>3. /\ i + 1 = Len(todo)
      /\ \A j \in 1 .. Len(todo) : todo[j].op \in {"unmap", "table", "dir"}
      /\ \A d \in Dirindex : dir[proc][d] # NONE =>
            \E j \in 1 .. Len(todo) : todo[j].op = "table" /\ todo[j].at = d
  BY <1>2 DEF DirFreedLast
<1>4. i = Len(todo') /\ \A j \in 1 .. Len(todo') : todo'[j].op \in {"unmap", "table", "dir"}
  BY <1>1, <1>3
<1>5. Op.op \in {"unmap", "table"}
  <2>1. 1 \in 1 .. Len(todo) /\ i + 1 # 1
    BY <1>1
  <2>2. Op.op # "dir"
    BY <1>1, <1>3, <2>1 DEF DirFreedLast
  <2> QED
    BY <1>1, <1>3, <2>1, <2>2
<1>6. proc' = proc
  BY <1>1
<1>7. ASSUME NEW d \in Dirindex, dir'[proc'][d] # NONE
      PROVE  \E j \in 1 .. Len(todo') : todo'[j].op = "table" /\ todo'[j].at = d
  <2>1. dir[proc][d] # NONE /\ ~(Op.op = "table" /\ Op.at = d)
    BY <1>5, <1>6, <1>7
  <2>2. PICK j \in 1 .. Len(todo) : todo[j].op = "table" /\ todo[j].at = d
    BY <1>3, <2>1
  <2>3. j # 1
    BY <1>1, <2>1, <2>2
  <2>4. j - 1 \in 1 .. Len(todo') /\ (j - 1) + 1 = j
    BY <1>1, <2>3
  <2>5. todo'[j - 1] = todo[j]
    BY <1>1, <2>4
  <2> QED
    BY <2>2, <2>4, <2>5
<1> QED
  BY <1>4, <1>7

(***************************************************************************)
(* The page operations preserve the invariant.                             *)
(***************************************************************************)
(* map_page gives away the frames it is called with, and nothing else.     *)
LEMMA MapOwns ==
    ASSUME TypeOK, NEW p \in Pid, NEW a \in PageNo, NEW physical, NEW dirpage,
           map_page(p, a, physical, dirpage), live' = live
    PROVE  \A k, q, i, f : Owns(k, q, i, f)' =>
               \/ Owns(k, q, i, f)
               \/ k = "page" /\ q = p /\ i = a /\ a \in UserPage /\ f = physical
               \/ /\ k = "table" /\ q = p /\ i = dirindex(a) /\ f = dirpage
                  /\ TablesNeeded(p, a) = 1
<1>1. /\ dir \in [Pid -> [Dirindex -> Entry]] /\ ptable \in [Pid -> [PageNo -> Entry]]
      /\ live \in SUBSET Pid
  BY DEF TypeOK
<1>2. dirindex(a) \in Dirindex
  BY DirindexType
<1>3. /\ dir' = IF dir[p][dirindex(a)] = NONE
                THEN [dir EXCEPT ![p][dirindex(a)] = dirpage] ELSE dir
      /\ ptable' = [ptable EXCEPT ![p][a] = physical] /\ pdir' = pdir
  BY DEF map_page
<1> SUFFICES ASSUME NEW k, NEW q, NEW i, NEW f, Owns(k, q, i, f)'
             PROVE  \/ Owns(k, q, i, f)
                    \/ k = "page" /\ q = p /\ i = a /\ a \in UserPage /\ f = physical
                    \/ /\ k = "table" /\ q = p /\ i = dirindex(a) /\ f = dirpage
                       /\ TablesNeeded(p, a) = 1
  OBVIOUS
<1>4. q \in live /\ q \in Pid /\ f # NONE
  BY <1>1 DEF Owns
<1>5. CASE k = "dir"
  BY <1>3, <1>5 DEF Owns
<1>6. CASE k = "table"
  <2>1. i \in Dirindex /\ dir'[q][i] = f
    BY <1>6 DEF Owns
  <2>2. CASE q = p /\ i = dirindex(a) /\ dir[p][dirindex(a)] = NONE
    <3>1. dir'[p][dirindex(a)] = dirpage
      BY <1>1, <1>2, <1>3, <2>2
    <3> QED
      BY <1>6, <2>1, <2>2, <3>1 DEF TablesNeeded
  <2>3. CASE ~(q = p /\ i = dirindex(a) /\ dir[p][dirindex(a)] = NONE)
    <3>1. dir'[q][i] = dir[q][i]
      BY <1>1, <1>2, <1>3, <1>4, <2>1, <2>3
    <3> QED
      BY <1>4, <1>6, <2>1, <3>1 DEF Owns
  <2> QED
    BY <2>2, <2>3
<1>7. CASE k = "page"
  <2>1. i \in UserPage /\ i \in PageNo /\ ptable'[q][i] = f
    BY <1>7 DEF Owns, UserPage
  <2>2. CASE q = p /\ i = a
    BY <1>1, <1>3, <1>7, <2>1, <2>2
  <2>3. CASE ~(q = p /\ i = a)
    <3>1. ptable'[q][i] = ptable[q][i]
      BY <1>1, <1>3, <1>4, <2>1, <2>3
    <3> QED
      BY <1>4, <1>7, <2>1, <3>1 DEF Owns
  <2> QED
    BY <2>2, <2>3
<1> QED
  BY <1>5, <1>6, <1>7 DEF Owns

(* It finds or makes a table for the page.                                 *)
LEMMA MapTables ==
    ASSUME TypeOK, TablesPresent, DirsValid, NEW p \in Pid, p \in live, NEW a \in PageNo,
           NEW physical \in Nat, NEW dirpage \in Nat,
           map_page(p, a, physical, dirpage), live' = live
    PROVE  /\ pdir' \in [Pid -> Entry] /\ dir' \in [Pid -> [Dirindex -> Entry]]
           /\ ptable' \in [Pid -> [PageNo -> Entry]]
           /\ TablesPresent' /\ DirsValid'
<1>1. /\ dir \in [Pid -> [Dirindex -> Entry]] /\ ptable \in [Pid -> [PageNo -> Entry]]
      /\ pdir \in [Pid -> Entry] /\ live \in SUBSET Pid
      /\ physical \in Entry /\ dirpage \in Entry /\ dirpage # NONE
  BY DEF TypeOK, Entry, NONE
<1>2. \A b \in PageNo : dirindex(b) \in Dirindex
  BY DirindexType
<1>3. /\ dir' = IF dir[p][dirindex(a)] = NONE
                THEN [dir EXCEPT ![p][dirindex(a)] = dirpage] ELSE dir
      /\ ptable' = [ptable EXCEPT ![p][a] = physical] /\ pdir' = pdir
  BY DEF map_page
<1>4. pdir' \in [Pid -> Entry] /\ ptable' \in [Pid -> [PageNo -> Entry]]
  BY <1>1, <1>3
<1>5. dir' \in [Pid -> [Dirindex -> Entry]]
  BY <1>1, <1>2, <1>3
<1>6. /\ dir'[p][dirindex(a)] # NONE
      /\ \A q \in Pid, d \in Dirindex : dir[q][d] # NONE => dir'[q][d] # NONE
      /\ \A q \in Pid, d \in Dirindex : q # p => dir'[q][d] = dir[q][d]
  BY <1>1, <1>2, <1>3
<1>7. ASSUME NEW q \in Pid, NEW b \in PageNo, ptable'[q][b] # NONE
      PROVE  dir'[q][dirindex(b)] # NONE
  <2>1. CASE q = p /\ b = a
    BY <1>6, <2>1
  <2>2. CASE ~(q = p /\ b = a)
    <3>1. ptable'[q][b] = ptable[q][b]
      BY <1>1, <1>3, <2>2
    <3> QED
      BY <1>2, <1>6, <1>7, <3>1 DEF TablesPresent
  <2> QED
    BY <2>1, <2>2
<1>8. DirsValid'
  BY <1>3, <1>6 DEF DirsValid
<1> QED
  BY <1>4, <1>5, <1>7, <1>8 DEF TablesPresent

LEMMA NextFrameType ==
    ASSUME PoolOK, NEW i \in 1 .. 2
    PROVE  NextFrame(i) \in Nat
<1>1. /\ page_end \in Nat /\ page_free \in Seq(Nat) /\ Len(page_free) \in Nat
  BY DEF PoolOK
<1>2. CASE i <= Len(page_free)
  BY <1>1, <1>2 DEF NextFrame
<1>3. CASE i > Len(page_free)
  BY <1>1, <1>3 DEF NextFrame
<1> QED
  BY <1>1, <1>2, <1>3

(* A page of the kernel is no frame of the process.                        *)
LEMMA IdentityMapStep == FInv /\ identity_map => FInv'
<1> SUFFICES ASSUME FInv, identity_map PROVE FInv'
  OBVIOUS
<1>1. /\ TypeOK /\ PoolOK /\ OwnedOnce /\ OwnedTaken /\ OpsValid /\ TablesPresent
      /\ DirsValid /\ DirFreedLast
  BY DEF FInv
<1>2. /\ todo # <<>> /\ Op.op = "identity" /\ Advance /\ live' = live
      /\ map_page(proc, Op.at, Op.at, NextFrame(1)) /\ alloc_page(TablesNeeded(proc, Op.at))
      /\ UNCHANGED <<text_end, data_end>>
  BY DEF identity_map, Doing, segVars
<1>3. /\ Op = todo[1] /\ Op \in PageOp /\ OpValid(Op) /\ proc \in live /\ proc \in Pid
      /\ todo' \in Seq(PageOp) /\ AllValid(todo')
      /\ proc' \in Pid \cup {NONE} /\ source' \in Pid \cup {NONE}
      /\ todo' # <<>> => proc' = proc
  BY <1>1, <1>2, AdvanceEffect
<1>4. PICK a \in PageNo : a = Op.at /\ a \notin UserPage /\ a \in Nat
  BY <1>2, <1>3, PagingAssumption DEF OpValid, UserPage, Kernel, PageNo
<1>5. PICK n \in 0 .. 2 : n = TablesNeeded(proc, a) /\ n <= 1
  BY DEF TablesNeeded
<1>6. npages' = npages + n
  BY <1>2, <1>4, <1>5 DEF alloc_page
<1>7. PoolOK' /\ OwnedOnce' /\ OwnedTaken'
  <2>1. PICK U : U = <<<<"table", proc, dirindex(a)>>>>
    OBVIOUS
  <2>2. U[1] = <<"table", proc, dirindex(a)>>
    BY <2>1
  <2>3. Gains(n, U)
    <3> SUFFICES ASSUME NEW k, NEW q, NEW i, NEW f, Owns(k, q, i, f)', ~Owns(k, q, i, f)
                 PROVE  GetsNext(n, U, k, q, i, f)
      BY DEF Gains
    <3>1. /\ k = "table" /\ q = proc /\ i = dirindex(a) /\ f = NextFrame(1) /\ n = 1
      BY <1>1, <1>2, <1>3, <1>4, <1>5, MapOwns
    <3> QED
      BY <2>2, <3>1 DEF GetsNext
  <2>4. alloc_page(n)
    BY <1>2, <1>4, <1>5
  <2> QED
    BY <1>1, <2>3, <2>4, TakeStep
<1>8. /\ pdir' \in [Pid -> Entry] /\ dir' \in [Pid -> [Dirindex -> Entry]]
      /\ ptable' \in [Pid -> [PageNo -> Entry]] /\ TablesPresent' /\ DirsValid'
  <2>1. NextFrame(1) \in Nat
    BY <1>1, NextFrameType
  <2> QED
    BY <1>1, <1>2, <1>3, <1>4, <2>1, MapTables
<1>9. TypeOK'
  BY <1>1, <1>2, <1>3, <1>5, <1>6, <1>8 DEF TypeOK
<1>10. OpsValid'
  BY <1>2, <1>3 DEF OpsValid, AllValid
<1>11. DirFreedLast'
  BY <1>1, <1>2, DirFreedLastStep
<1> QED
  BY <1>7, <1>8, <1>9, <1>10, <1>11 DEF FInv

(* A page that is not the kernel's belongs to the process; one that was    *)
(* mapped before is lost.                                                  *)
LEMMA NewPageStep ==
    ASSUME FInv, todo # <<>>, Op.op \in {"new", "copy", "load"}, map_new_page,
           text_end' \in [Pid -> TEXT_BASE .. DATA_BASE], data_end' \in [Pid -> PageNo]
    PROVE  FInv'
<1>1. /\ TypeOK /\ PoolOK /\ OwnedOnce /\ OwnedTaken /\ OpsValid /\ TablesPresent
      /\ DirsValid /\ DirFreedLast
  BY DEF FInv
<1>2. /\ Advance /\ live' = live /\ map_page(proc, Op.at, NextFrame(1), NextFrame(2))
      /\ alloc_page(1 + TablesNeeded(proc, Op.at))
  BY DEF map_new_page
<1>3. /\ Op = todo[1] /\ Op \in PageOp /\ OpValid(Op) /\ proc \in live /\ proc \in Pid
      /\ todo' \in Seq(PageOp) /\ AllValid(todo')
      /\ proc' \in Pid \cup {NONE} /\ source' \in Pid \cup {NONE}
      /\ todo' # <<>> => proc' = proc
  BY <1>1, <1>2, AdvanceEffect
<1>4. PICK a \in PageNo : a = Op.at
  BY <1>3, PagingAssumption DEF OpValid, PageNo
<1>5. PICK n \in 0 .. 2 : n = 1 + TablesNeeded(proc, a) /\ n >= 1
  BY DEF TablesNeeded
<1>6. npages' = npages + n
  BY <1>2, <1>4, <1>5 DEF alloc_page
<1>7. PoolOK' /\ OwnedOnce' /\ OwnedTaken'
  <2>1. PICK U : U = <<<<"page", proc, a>>, <<"table", proc, dirindex(a)>>>>
    OBVIOUS
  <2>2. U[1] = <<"page", proc, a>> /\ U[2] = <<"table", proc, dirindex(a)>>
    BY <2>1
  <2>3. Gains(n, U)
    <3> SUFFICES ASSUME NEW k, NEW q, NEW i, NEW f, Owns(k, q, i, f)', ~Owns(k, q, i, f)
                 PROVE  GetsNext(n, U, k, q, i, f)
      BY DEF Gains
    <3>1. \/ k = "page" /\ q = proc /\ i = a /\ f = NextFrame(1)
          \/ /\ k = "table" /\ q = proc /\ i = dirindex(a) /\ f = NextFrame(2)
             /\ TablesNeeded(proc, a) = 1
      BY <1>1, <1>2, <1>3, <1>4, MapOwns
    <3>2. 1 \in 1 .. n /\ (TablesNeeded(proc, a) = 1 => 2 \in 1 .. n)
      BY <1>5
    <3> QED
      BY <2>2, <3>1, <3>2 DEF GetsNext
  <2>4. alloc_page(n)
    BY <1>2, <1>4, <1>5
  <2> QED
    BY <1>1, <2>3, <2>4, TakeStep
<1>8. /\ pdir' \in [Pid -> Entry] /\ dir' \in [Pid -> [Dirindex -> Entry]]
      /\ ptable' \in [Pid -> [PageNo -> Entry]] /\ TablesPresent' /\ DirsValid'
  <2>1. NextFrame(1) \in Nat /\ NextFrame(2) \in Nat
    BY <1>1, NextFrameType
  <2> QED
    BY <1>1, <1>2, <1>3, <1>4, <2>1, MapTables
<1>9. TypeOK'
  <2>1. npages' \in Int /\ live' \in SUBSET Pid
    BY <1>1, <1>2, <1>5, <1>6 DEF TypeOK
  <2> QED
    BY <1>3, <1>8, <2>1 DEF TypeOK
<1>10. OpsValid'
  BY <1>2, <1>3 DEF OpsValid, AllValid
<1>11. DirFreedLast'
  BY <1>1, <1>2, DirFreedLastStep
<1> QED
  BY <1>7, <1>8, <1>9, <1>10, <1>11 DEF FInv

LEMMA MapNewPagesStep == FInv /\ map_new_pages => FInv'
<1> SUFFICES ASSUME FInv, map_new_pages PROVE FInv'
  OBVIOUS
<1>1. todo # <<>> /\ Op.op = "new" /\ map_new_page /\ UNCHANGED <<text_end, data_end>>
  BY DEF map_new_pages, Doing, segVars
<1>2. text_end' \in [Pid -> TEXT_BASE .. DATA_BASE] /\ data_end' \in [Pid -> PageNo]
  BY <1>1 DEF FInv, TypeOK
<1> QED
  BY <1>1, <1>2, NewPageStep

LEMMA MapAndCopyStep == FInv /\ map_and_copy => FInv'
<1> SUFFICES ASSUME FInv, map_and_copy PROVE FInv'
  OBVIOUS
<1>1. todo # <<>> /\ Op.op = "copy" /\ map_new_page /\ UNCHANGED <<text_end, data_end>>
  BY DEF map_and_copy, Doing, segVars
<1>2. text_end' \in [Pid -> TEXT_BASE .. DATA_BASE] /\ data_end' \in [Pid -> PageNo]
  BY <1>1 DEF FInv, TypeOK
<1> QED
  BY <1>1, <1>2, NewPageStep

LEMMA LoadTextStep == FInv /\ load_text => FInv'
<1> SUFFICES ASSUME FInv, load_text PROVE FInv'
  OBVIOUS
<1>1. /\ todo # <<>> /\ Op.op = "load" /\ map_new_page /\ data_end' = data_end
      /\ text_end' = [text_end EXCEPT ![proc] = Op.at + 1]
  BY DEF load_text, Doing
<1>2. /\ text_end \in [Pid -> TEXT_BASE .. DATA_BASE] /\ data_end' \in [Pid -> PageNo]
  BY <1>1 DEF FInv, TypeOK
<1>3. OpValid(Op)
  BY <1>1, AdvanceEffect DEF FInv, map_new_page
<1>4. TEXT_BASE \in Nat /\ DATA_BASE \in Nat
  BY PagingAssumption DEF PageNo
<1>5. Op.at + 1 \in TEXT_BASE .. DATA_BASE
  BY <1>1, <1>3, <1>4 DEF OpValid
<1>6. text_end' \in [Pid -> TEXT_BASE .. DATA_BASE]
  BY <1>1, <1>2, <1>5
<1> QED
  BY <1>1, <1>2, <1>6, NewPageStep

LEMMA ResizeSegmentsStep == FInv /\ resize_segments => FInv'
<1> SUFFICES ASSUME FInv, resize_segments PROVE FInv'
  OBVIOUS
<1>1. /\ TypeOK /\ PoolOK /\ OwnedOnce /\ OwnedTaken /\ OpsValid /\ TablesPresent
      /\ DirsValid /\ DirFreedLast
  BY DEF FInv
<1>2. /\ todo # <<>> /\ Op.op = "resize" /\ Advance
      /\ text_end' = [text_end EXCEPT ![proc] = TEXT_BASE]
      /\ data_end' = [data_end EXCEPT ![proc] = DATA_BASE]
      /\ UNCHANGED <<page_end, page_free>> /\ UNCHANGED npages
      /\ UNCHANGED <<live, pdir, dir, ptable>>
  BY DEF resize_segments, Doing, allocVars, mapVars
<1>3. /\ todo' \in Seq(PageOp) /\ AllValid(todo') /\ proc \in live
      /\ proc' \in Pid \cup {NONE} /\ source' \in Pid \cup {NONE}
      /\ todo' # <<>> => proc' = proc
  BY <1>1, <1>2, AdvanceEffect
<1>4. PoolOK' /\ OwnedOnce' /\ OwnedTaken'
  <2>1. \A k, p, i, f : Owns(k, p, i, f)' => Owns(k, p, i, f)
    BY <1>2 DEF Owns
  <2> QED
    BY <1>1, <1>2, <2>1, KeepStep
<1>5. TypeOK'
  <2>1. TEXT_BASE \in TEXT_BASE .. DATA_BASE /\ DATA_BASE \in PageNo
    BY PagingAssumption DEF PageNo
  <2>2. text_end' \in [Pid -> TEXT_BASE .. DATA_BASE] /\ data_end' \in [Pid -> PageNo]
    BY <1>1, <1>2, <2>1 DEF TypeOK
  <2> QED
    BY <1>1, <1>2, <1>3, <2>2 DEF TypeOK
<1>6. OpsValid'
  BY <1>2, <1>3 DEF OpsValid, AllValid
<1>7. TablesPresent' /\ DirsValid'
  BY <1>1, <1>2 DEF TablesPresent, DirsValid
<1>8. DirFreedLast'
  BY <1>1, <1>2, DirFreedLastStep
<1> QED
  BY <1>4, <1>5, <1>6, <1>7, <1>8 DEF FInv

(* The entry is cleared when its frame is freed.                           *)
LEMMA UnmapLoses ==
    ASSUME TypeOK, NEW p \in live, NEW a \in UserPage, ptable[p][a] # NONE,
           ptable' = [ptable EXCEPT ![p][a] = NONE], UNCHANGED <<live, pdir, dir>>
    PROVE  Owns("page", p, a, ptable[p][a]) /\ Loses("page", p, a)
<1>1. /\ ptable \in [Pid -> [PageNo -> Entry]] /\ live \in SUBSET Pid
      /\ p \in Pid /\ a \in PageNo
  BY DEF TypeOK, UserPage
<1>2. Owns("page", p, a, ptable[p][a])
  BY DEF Owns
<1>3. /\ \A q \in Pid, b \in PageNo : ~(q = p /\ b = a) => ptable'[q][b] = ptable[q][b]
      /\ ptable'[p][a] = NONE
  BY <1>1
<1> SUFFICES ASSUME NEW k, NEW q, NEW i, NEW f, Owns(k, q, i, f)'
             PROVE  Owns(k, q, i, f) /\ ~(k = "page" /\ q = p /\ i = a)
  BY <1>2 DEF Loses
<1>4. q \in live /\ q \in Pid /\ f # NONE
  BY <1>1 DEF Owns
<1>5. CASE k # "page"
  BY <1>5 DEF Owns
<1>6. CASE k = "page"
  <2>1. i \in UserPage /\ i \in PageNo /\ ptable'[q][i] = f
    BY <1>6 DEF Owns, UserPage
  <2>2. ~(q = p /\ i = a)
    BY <1>3, <1>4, <2>1
  <2> QED
    BY <1>3, <1>4, <1>6, <2>1, <2>2 DEF Owns
<1> QED
  BY <1>5, <1>6

LEMMA UnmapStep == FInv /\ unmap_and_free_page => FInv'
<1> SUFFICES ASSUME FInv, unmap_and_free_page PROVE FInv'
  OBVIOUS
<1>1. /\ TypeOK /\ PoolOK /\ OwnedOnce /\ OwnedTaken /\ OpsValid /\ TablesPresent
      /\ DirsValid /\ DirFreedLast
  BY DEF FInv
<1>2. /\ todo # <<>> /\ Op.op = "unmap" /\ Advance
      /\ UNCHANGED <<live, pdir, dir, text_end, data_end>>
  BY DEF unmap_and_free_page, Doing, segVars
<1>3. /\ Op = todo[1] /\ Op \in PageOp /\ OpValid(Op) /\ proc \in live /\ proc \in Pid
      /\ todo' \in Seq(PageOp) /\ AllValid(todo')
      /\ proc' \in Pid \cup {NONE} /\ source' \in Pid \cup {NONE}
      /\ todo' # <<>> => proc' = proc
  BY <1>1, <1>2, AdvanceEffect
<1>4. PICK a \in UserPage : a = Op.at /\ a \in PageNo
  BY <1>2, <1>3 DEF OpValid, UserPage
<1>5. ptable \in [Pid -> [PageNo -> Entry]] /\ live \in SUBSET Pid /\ npages \in Int
  BY <1>1 DEF TypeOK
<1>6. ASSUME ptable[proc][a] # NONE
      PROVE  /\ PoolOK' /\ OwnedOnce' /\ OwnedTaken' /\ TablesPresent'
             /\ ptable' \in [Pid -> [PageNo -> Entry]] /\ npages' \in Int
  <2>1. /\ free_page(ptable[proc][a])
        /\ ptable' = [ptable EXCEPT ![proc][a] = NONE]
    BY <1>4, <1>6 DEF unmap_and_free_page, lookup_page
  <2>2. npages' = npages - 1
    BY <2>1 DEF free_page
  <2>3. Owns("page", proc, a, ptable[proc][a]) /\ Loses("page", proc, a)
    BY <1>1, <1>2, <1>3, <1>6, <2>1, UnmapLoses
  <2>4. \A q \in Pid, b \in PageNo : ptable'[q][b] # NONE => ptable[q][b] # NONE
    BY <1>3, <1>4, <1>5, <2>1
  <2>5. PoolOK' /\ OwnedOnce' /\ OwnedTaken'
    BY <1>1, <2>1, <2>3, GiveStep
  <2>6. ptable' \in [Pid -> [PageNo -> Entry]] /\ npages' \in Int
    BY <1>3, <1>4, <1>5, <2>1, <2>2 DEF Entry
  <2>7. TablesPresent'
    BY <1>1, <1>2, <2>4 DEF TablesPresent
  <2> QED
    BY <2>5, <2>6, <2>7
<1>7. ASSUME ptable[proc][a] = NONE
      PROVE  /\ PoolOK' /\ OwnedOnce' /\ OwnedTaken' /\ TablesPresent'
             /\ ptable' \in [Pid -> [PageNo -> Entry]] /\ npages' \in Int
  <2>1. UNCHANGED <<page_end, page_free>> /\ UNCHANGED npages /\ UNCHANGED ptable
    BY <1>4, <1>7 DEF unmap_and_free_page, lookup_page, allocVars
  <2>2. \A k, p, i, f : Owns(k, p, i, f)' => Owns(k, p, i, f)
    BY <1>2, <2>1 DEF Owns
  <2>3. PoolOK' /\ OwnedOnce' /\ OwnedTaken'
    BY <1>1, <2>1, <2>2, KeepStep
  <2>4. TablesPresent'
    BY <1>1, <1>2, <2>1 DEF TablesPresent
  <2> QED
    BY <1>5, <2>1, <2>3, <2>4
<1>8. /\ PoolOK' /\ OwnedOnce' /\ OwnedTaken' /\ TablesPresent'
      /\ ptable' \in [Pid -> [PageNo -> Entry]] /\ npages' \in Int
  BY <1>6, <1>7
<1>9. TypeOK'
  BY <1>1, <1>2, <1>3, <1>8 DEF TypeOK
<1>10. OpsValid'
  BY <1>2, <1>3 DEF OpsValid, AllValid
<1>11. DirsValid'
  BY <1>1, <1>2 DEF DirsValid
<1>12. DirFreedLast'
  BY <1>1, <1>2, DirFreedLastStep
<1> QED
  BY <1>8, <1>9, <1>10, <1>11, <1>12 DEF FInv

(* With a table go all its entries: pages that are still mapped are lost.  *)
LEMMA TableLoses ==
    ASSUME TypeOK, NEW p \in live, NEW d \in Dirindex, dir[p][d] # NONE,
           dir' = [dir EXCEPT ![p][d] = NONE],
           ptable' = [ptable EXCEPT ![p] = [page \in PageNo |->
               IF dirindex(page) = d THEN NONE ELSE ptable[p][page]]],
           UNCHANGED <<live, pdir>>
    PROVE  /\ Owns("table", p, d, dir[p][d]) /\ Loses("table", p, d)
           /\ \A q \in Pid, e \in Dirindex : ~(q = p /\ e = d) => dir'[q][e] = dir[q][e]
           /\ dir'[p][d] = NONE
           /\ \A q \in Pid, b \in PageNo : ~(q = p /\ dirindex(b) = d) => ptable'[q][b] = ptable[q][b]
           /\ \A b \in PageNo : dirindex(b) = d => ptable'[p][b] = NONE
<1>1. /\ dir \in [Pid -> [Dirindex -> Entry]] /\ ptable \in [Pid -> [PageNo -> Entry]]
      /\ live \in SUBSET Pid /\ p \in Pid
  BY DEF TypeOK
<1>2. Owns("table", p, d, dir[p][d])
  BY DEF Owns
<1>3. /\ \A q \in Pid, e \in Dirindex : ~(q = p /\ e = d) => dir'[q][e] = dir[q][e]
      /\ dir'[p][d] = NONE
  BY <1>1
<1>4. /\ \A q \in Pid, b \in PageNo : ~(q = p /\ dirindex(b) = d) => ptable'[q][b] = ptable[q][b]
      /\ \A b \in PageNo : dirindex(b) = d => ptable'[p][b] = NONE
  BY <1>1
<1>5. Loses("table", p, d)
  <2> SUFFICES ASSUME NEW k, NEW q, NEW i, NEW f, Owns(k, q, i, f)'
               PROVE  Owns(k, q, i, f) /\ ~(k = "table" /\ q = p /\ i = d)
    BY DEF Loses
  <2>1. q \in live /\ q \in Pid /\ f # NONE
    BY <1>1 DEF Owns
  <2>2. CASE k = "dir"
    BY <2>2 DEF Owns
  <2>3. CASE k = "page"
    <3>1. i \in UserPage /\ i \in PageNo /\ ptable'[q][i] = f
      BY <2>3 DEF Owns, UserPage
    <3>2. ptable[q][i] = f
      BY <1>4, <2>1, <3>1
    <3> QED
      BY <2>1, <2>3, <3>1, <3>2 DEF Owns
  <2>4. CASE k = "table"
    <3>1. i \in Dirindex /\ dir'[q][i] = f
      BY <2>4 DEF Owns
    <3>2. ~(q = p /\ i = d)
      BY <1>3, <2>1, <3>1
    <3> QED
      BY <1>3, <2>1, <2>4, <3>1, <3>2 DEF Owns
  <2> QED
    BY <2>2, <2>3, <2>4 DEF Owns
<1> QED
  BY <1>2, <1>3, <1>4, <1>5

LEMMA FreeTableStep == FInv /\ free_table => FInv'
<1> SUFFICES ASSUME FInv, free_table PROVE FInv'
  OBVIOUS
<1>1. /\ TypeOK /\ PoolOK /\ OwnedOnce /\ OwnedTaken /\ OpsValid /\ TablesPresent
      /\ DirsValid /\ DirFreedLast
  BY DEF FInv
<1>2. /\ todo # <<>> /\ Op.op = "table" /\ Advance
      /\ UNCHANGED <<live, pdir, text_end, data_end>>
  BY DEF free_table, Doing, segVars
<1>3. /\ Op = todo[1] /\ Op \in PageOp /\ OpValid(Op) /\ proc \in live /\ proc \in Pid
      /\ todo' \in Seq(PageOp) /\ AllValid(todo')
      /\ proc' \in Pid \cup {NONE} /\ source' \in Pid \cup {NONE}
      /\ todo' # <<>> => proc' = proc
  BY <1>1, <1>2, AdvanceEffect
<1>4. PICK d \in Dirindex : d = Op.at
  BY <1>2, <1>3 DEF OpValid
<1>5. /\ dir \in [Pid -> [Dirindex -> Entry]] /\ ptable \in [Pid -> [PageNo -> Entry]]
      /\ live \in SUBSET Pid /\ npages \in Int
  BY <1>1 DEF TypeOK
<1>6. ASSUME dir[proc][d] # NONE
      PROVE  /\ PoolOK' /\ OwnedOnce' /\ OwnedTaken' /\ TablesPresent'
             /\ ptable' \in [Pid -> [PageNo -> Entry]] /\ dir' \in [Pid -> [Dirindex -> Entry]]
             /\ npages' \in Int
             /\ \A q \in Pid, e \in Dirindex : dir[q][e] = NONE => dir'[q][e] = NONE
             /\ \A e \in Dirindex : dir'[proc][e] # NONE => dir[proc][e] # NONE /\ e # d
  <2>1. /\ free_page(dir[proc][d])
        /\ dir' = [dir EXCEPT ![proc][d] = NONE]
        /\ ptable' = [ptable EXCEPT ![proc] = [page \in PageNo |->
               IF dirindex(page) = d THEN NONE ELSE ptable[proc][page]]]
    BY <1>4, <1>6 DEF free_table
  <2>2. npages' = npages - 1
    BY <2>1 DEF free_page
  <2>3. /\ Owns("table", proc, d, dir[proc][d]) /\ Loses("table", proc, d)
        /\ \A q \in Pid, e \in Dirindex : ~(q = proc /\ e = d) => dir'[q][e] = dir[q][e]
        /\ dir'[proc][d] = NONE
        /\ \A q \in Pid, b \in PageNo : ~(q = proc /\ dirindex(b) = d) => ptable'[q][b] = ptable[q][b]
        /\ \A b \in PageNo : dirindex(b) = d => ptable'[proc][b] = NONE
    BY <1>1, <1>2, <1>3, <1>6, <2>1, TableLoses
  <2>4. PoolOK' /\ OwnedOnce' /\ OwnedTaken'
    BY <1>1, <2>1, <2>3, GiveStep
  <2>5. /\ ptable' \in [Pid -> [PageNo -> Entry]] /\ dir' \in [Pid -> [Dirindex -> Entry]]
        /\ npages' \in Int
    <3>1. npages' \in Int
      BY <1>5, <2>2
    <3>2. NONE \in Entry
      BY DEF Entry
    <3>3. dir' \in [Pid -> [Dirindex -> Entry]]
      BY <1>3, <1>5, <2>1, <3>2
    <3>4. [page \in PageNo |-> IF dirindex(page) = d THEN NONE ELSE ptable[proc][page]]
              \in [PageNo -> Entry]
      BY <1>3, <1>5, <3>2
    <3>5. ptable' \in [Pid -> [PageNo -> Entry]]
      BY <1>3, <1>5, <2>1, <3>4
    <3> QED
      BY <3>1, <3>3, <3>5
  <2>6. TablesPresent'
    <3> SUFFICES ASSUME NEW q \in Pid, NEW b \in PageNo, ptable'[q][b] # NONE
                 PROVE  dir'[q][dirindex(b)] # NONE
      BY DEF TablesPresent
    <3>1. ~(q = proc /\ dirindex(b) = d) /\ ptable[q][b] # NONE
      BY <2>3
    <3>2. dir[q][dirindex(b)] # NONE /\ dirindex(b) \in Dirindex
      BY <1>1, <3>1, DirindexType DEF TablesPresent
    <3> QED
      BY <2>3, <3>1, <3>2
  <2>7. \A q \in Pid, e \in Dirindex : dir[q][e] = NONE => dir'[q][e] = NONE
    BY <1>3, <2>3
  <2>8. \A e \in Dirindex : dir'[proc][e] # NONE => dir[proc][e] # NONE /\ e # d
    BY <1>3, <2>3
  <2> QED
    BY <2>4, <2>5, <2>6, <2>7, <2>8
<1>7. ASSUME dir[proc][d] = NONE
      PROVE  /\ PoolOK' /\ OwnedOnce' /\ OwnedTaken' /\ TablesPresent'
             /\ ptable' \in [Pid -> [PageNo -> Entry]] /\ dir' \in [Pid -> [Dirindex -> Entry]]
             /\ npages' \in Int
             /\ \A q \in Pid, e \in Dirindex : dir[q][e] = NONE => dir'[q][e] = NONE
             /\ \A e \in Dirindex : dir'[proc][e] # NONE => dir[proc][e] # NONE /\ e # d
  <2>1. UNCHANGED <<page_end, page_free>> /\ UNCHANGED npages /\ UNCHANGED <<dir, ptable>>
    BY <1>4, <1>7 DEF free_table, allocVars
  <2>2. \A k, p, i, f : Owns(k, p, i, f)' => Owns(k, p, i, f)
    BY <1>2, <2>1 DEF Owns
  <2>3. PoolOK' /\ OwnedOnce' /\ OwnedTaken'
    BY <1>1, <2>1, <2>2, KeepStep
  <2>4. TablesPresent'
    BY <1>1, <1>2, <2>1 DEF TablesPresent
  <2>5. \A q \in Pid, e \in Dirindex : dir[q][e] = NONE => dir'[q][e] = NONE
    BY <2>1
  <2>6. \A e \in Dirindex : dir'[proc][e] # NONE => dir[proc][e] # NONE /\ e # d
    BY <1>7, <2>1
  <2> QED
    BY <1>5, <2>1, <2>3, <2>4, <2>5, <2>6
<1>8. /\ PoolOK' /\ OwnedOnce' /\ OwnedTaken' /\ TablesPresent'
      /\ ptable' \in [Pid -> [PageNo -> Entry]] /\ dir' \in [Pid -> [Dirindex -> Entry]]
      /\ npages' \in Int
      /\ \A q \in Pid, e \in Dirindex : dir[q][e] = NONE => dir'[q][e] = NONE
      /\ \A e \in Dirindex : dir'[proc][e] # NONE => dir[proc][e] # NONE /\ e # d
  BY <1>6, <1>7
<1>9. TypeOK'
  BY <1>1, <1>2, <1>3, <1>8 DEF TypeOK
<1>10. OpsValid'
  BY <1>2, <1>3 DEF OpsValid, AllValid
<1>11. DirsValid'
  BY <1>1, <1>2, <1>8 DEF DirsValid
<1>12. DirFreedLast'
  BY <1>1, <1>2, <1>4, <1>8, DirFreedLastStep
<1> QED
  BY <1>8, <1>9, <1>10, <1>11, <1>12 DEF FInv

(* The directory goes last, when no table is left.                         *)
LEMMA LastTableFreed ==
    ASSUME FInv, todo # <<>>, Op.op = "dir"
    PROVE  Len(todo) = 1 /\ \A d \in Dirindex : dir[proc][d] = NONE
<1>1. 1 \in 1 .. Len(todo) /\ todo[1].op = "dir" /\ DirFreedLast
  BY DEF FInv, TypeOK, Op
<1>2. Len(todo) = 1
  BY <1>1 DEF DirFreedLast
<1>3. \A j \in 1 .. Len(todo) : todo[j].op # "table"
  BY <1>1, <1>2
<1> QED
  BY <1>1, <1>2, <1>3 DEF DirFreedLast

LEMMA DirLoses ==
    ASSUME TypeOK, NEW p \in live, pdir[p] # NONE, pdir' = [pdir EXCEPT ![p] = NONE],
           live' = live \ {p}, UNCHANGED <<dir, ptable>>
    PROVE  Owns("dir", p, 0, pdir[p]) /\ Loses("dir", p, 0)
<1>1. Owns("dir", p, 0, pdir[p])
  BY DEF Owns
<1> SUFFICES ASSUME NEW k, NEW q, NEW i, NEW f, Owns(k, q, i, f)'
             PROVE  Owns(k, q, i, f) /\ ~(k = "dir" /\ q = p /\ i = 0)
  BY <1>1 DEF Loses
<1>2. q \in live' /\ q \in live /\ q # p /\ pdir'[q] = pdir[q]
  BY DEF Owns, TypeOK
<1> QED
  BY <1>2 DEF Owns

LEMMA FreeDirStep == FInv /\ free_dir => FInv'
<1> SUFFICES ASSUME FInv, free_dir PROVE FInv'
  OBVIOUS
<1>1. /\ TypeOK /\ PoolOK /\ OwnedOnce /\ OwnedTaken /\ OpsValid /\ TablesPresent
      /\ DirsValid /\ DirFreedLast
  BY DEF FInv
<1>2. /\ todo # <<>> /\ Op.op = "dir" /\ Advance /\ free_page(pdir[proc])
      /\ live' = live \ {proc} /\ pdir' = [pdir EXCEPT ![proc] = NONE]
      /\ text_end' = [text_end EXCEPT ![proc] = TEXT_BASE]
      /\ data_end' = [data_end EXCEPT ![proc] = DATA_BASE]
      /\ UNCHANGED <<dir, ptable>>
  BY DEF free_dir, Doing
<1>3. /\ Op = todo[1] /\ Len(todo) \in Nat \ {0} /\ proc \in live /\ proc \in Pid
      /\ todo' \in Seq(PageOp) /\ AllValid(todo') /\ Len(todo') = Len(todo) - 1
      /\ proc' \in Pid \cup {NONE} /\ source' \in Pid \cup {NONE}
  BY <1>1, <1>2, AdvanceEffect
<1>4. Len(todo) = 1 /\ \A d \in Dirindex : dir[proc][d] = NONE
  BY <1>2, LastTableFreed
<1>5. todo' = <<>>
  BY <1>3, <1>4
<1>6. /\ pdir \in [Pid -> Entry] /\ live \in SUBSET Pid /\ npages \in Int
      /\ text_end \in [Pid -> TEXT_BASE .. DATA_BASE] /\ data_end \in [Pid -> PageNo]
      /\ pdir[proc] # NONE
  BY <1>1, <1>3 DEF TypeOK, DirsValid
<1>7. npages' = npages - 1
  BY <1>2 DEF free_page
<1>8. PoolOK' /\ OwnedOnce' /\ OwnedTaken'
  <2>1. Owns("dir", proc, 0, pdir[proc]) /\ Loses("dir", proc, 0)
    BY <1>1, <1>2, <1>3, <1>6, DirLoses
  <2> QED
    BY <1>1, <1>2, <2>1, GiveStep
<1>9. TypeOK'
  <2>1. TEXT_BASE \in TEXT_BASE .. DATA_BASE /\ DATA_BASE \in PageNo /\ NONE \in Entry
    BY PagingAssumption DEF PageNo, Entry
  <2>2. /\ text_end' \in [Pid -> TEXT_BASE .. DATA_BASE] /\ data_end' \in [Pid -> PageNo]
        /\ pdir' \in [Pid -> Entry] /\ live' \in SUBSET Pid /\ npages' \in Int
    BY <1>2, <1>3, <1>6, <1>7, <2>1
  <2> QED
    BY <1>1, <1>2, <1>3, <2>2 DEF TypeOK
<1>10. OpsValid' /\ DirFreedLast'
  BY <1>3, <1>4, <1>5 DEF OpsValid, DirFreedLast
<1>11. TablesPresent'
  BY <1>1, <1>2 DEF TablesPresent
<1>12. DirsValid'
  <2> SUFFICES ASSUME NEW q \in Pid
               PROVE  /\ q \in live' => pdir'[q] # NONE
                      /\ q \notin live' => \A d \in Dirindex : dir[q][d] = NONE
    BY <1>2 DEF DirsValid
  <2>1. CASE q = proc
    BY <1>2, <1>4, <2>1
  <2>2. CASE q # proc
    <3>1. pdir'[q] = pdir[q] /\ (q \in live' <=> q \in live)
      BY <1>2, <1>6, <2>2
    <3> QED
      BY <1>1, <3>1 DEF DirsValid
  <2> QED
    BY <2>1, <2>2
<1> QED
  BY <1>8, <1>9, <1>10, <1>11, <1>12 DEF FInv

(***************************************************************************)
(* The calls preserve the invariant.                                       *)
(***************************************************************************)
(* What the layout of the segments says about the pages in them.           *)
Pages == TableLength * TableCount

LEMMA Layout ==
    /\ PAGE_START \in Nat /\ TEXT_BASE \in Nat /\ DATA_BASE \in Nat /\ STACK_START \in Nat
    /\ STACK_BASE \in Nat /\ TableCount \in Nat /\ Pages \in Nat
    /\ PAGE_START <= TEXT_BASE /\ TEXT_BASE < DATA_BASE
    /\ DATA_BASE < STACK_START /\ STACK_START < STACK_BASE
    /\ STACK_BASE < Pages
    /\ PageNo = 0 .. (Pages - 1)
BY PagingAssumption DEF PageNo, Pages

LEMMA OpNames ==
    /\ "identity" \in OpName /\ "new" \in OpName /\ "copy" \in OpName /\ "load" \in OpName
    /\ "resize" \in OpName /\ "unmap" \in OpName /\ "table" \in OpName /\ "dir" \in OpName
BY DEF OpName

NoDir(s) == \A i \in 1 .. Len(s) : s[i].op # "dir"

LEMMA LoopValid ==
    ASSUME NEW kind \in OpName, NEW a \in Nat, NEW b \in Nat,
           kind = "identity" => b <= PAGE_START,
           kind \in {"new", "copy"} => b <= Pages,
           kind = "load" => a >= TEXT_BASE /\ b <= DATA_BASE,
           kind = "unmap" => a >= PAGE_START /\ b <= Pages,
           kind = "table" => b <= TableCount
    PROVE  /\ Loop(kind, a, b) \in Seq(PageOp) /\ AllValid(Loop(kind, a, b))
           /\ kind # "dir" => NoDir(Loop(kind, a, b))
<1>1. /\ Loop(kind, a, b) \in Seq(PageOp)
      /\ \A i \in 1 .. Len(Loop(kind, a, b)) :
            /\ Loop(kind, a, b)[i].op = kind
            /\ Loop(kind, a, b)[i].at \in a .. (b - 1)
  BY LoopEffect
<1>2. ASSUME NEW i \in 1 .. Len(Loop(kind, a, b)) PROVE OpValid(Loop(kind, a, b)[i])
  <2>1. PICK o : o = Loop(kind, a, b)[i]
    OBVIOUS
  <2>2. o.op = kind /\ o.at \in a .. (b - 1)
    BY <1>1, <2>1
  <2>3. OpValid(o)
    BY <2>2, Layout DEF OpValid, Kernel, UserPage, Dirindex
  <2> QED
    BY <2>1, <2>3
<1> QED
  BY <1>1, <1>2 DEF AllValid, NoDir

LEMMA OneValid ==
    ASSUME NEW kind \in {"resize", "dir"}
    PROVE  /\ One(kind) \in Seq(PageOp) /\ AllValid(One(kind))
           /\ kind # "dir" => NoDir(One(kind))
<1>1. One(kind) \in Seq(PageOp) /\ Len(One(kind)) = 1 /\ One(kind)[1].op = kind
  BY OneEffect DEF OpName
<1> QED
  BY <1>1 DEF AllValid, OpValid, NoDir

(* A call that begins finds no other in the middle, and does not touch the *)
(* frames itself.                                                          *)
LEMMA BeginStep ==
    ASSUME FInv, NEW p \in live, NEW plan \in Seq(PageOp), AllValid(plan), Begin(p, plan),
           UNCHANGED <<page_end, page_free>>, UNCHANGED npages,
           UNCHANGED <<live, pdir, dir, ptable>>, UNCHANGED text_end, UNCHANGED source,
           data_end' \in [Pid -> PageNo], DirFreedLast'
    PROVE  FInv'
<1>1. /\ TypeOK /\ PoolOK /\ OwnedOnce /\ OwnedTaken /\ OpsValid /\ TablesPresent
      /\ DirsValid /\ DirFreedLast
  BY DEF FInv
<1>2. todo' = plan /\ proc' = p /\ p \in Pid
  BY <1>1 DEF Begin, TypeOK
<1>3. PoolOK' /\ OwnedOnce' /\ OwnedTaken'
  <2>1. \A k, q, i, f : Owns(k, q, i, f)' => Owns(k, q, i, f)
    BY DEF Owns
  <2> QED
    BY <1>1, <2>1, KeepStep
<1>4. TypeOK'
  BY <1>1, <1>2 DEF TypeOK
<1>5. OpsValid'
  BY <1>2 DEF OpsValid, AllValid
<1>6. TablesPresent' /\ DirsValid'
  BY <1>1 DEF TablesPresent, DirsValid
<1> QED
  BY <1>3, <1>4, <1>5, <1>6 DEF FInv

(* Only kill_process frees a directory.                                    *)
LEMMA ConcatNoDir ==
    ASSUME NEW s \in Seq(PageOp), NEW t \in Seq(PageOp), NoDir(s), NoDir(t)
    PROVE  NoDir(s \o t)
<1> SUFFICES ASSUME NEW i \in 1 .. Len(s \o t) PROVE (s \o t)[i].op # "dir"
  BY DEF NoDir
<1>1. \/ i \in 1 .. Len(s) /\ (s \o t)[i] = s[i]
      \/ i - Len(s) \in 1 .. Len(t) /\ (s \o t)[i] = t[i - Len(s)]
  BY Concat
<1> QED
  BY <1>1 DEF NoDir

(* The kinds of operations of a plan.                                      *)
OpsIn(s, K) == \A i \in 1 .. Len(s) : s[i].op \in K

LEMMA LoopOpsIn ==
    ASSUME NEW kind \in OpName, NEW a \in Nat, NEW b \in Nat, NEW K, kind \in K
    PROVE  OpsIn(Loop(kind, a, b), K)
<1>1. \A i \in 1 .. Len(Loop(kind, a, b)) : Loop(kind, a, b)[i].op = kind
  BY LoopEffect
<1> QED
  BY <1>1 DEF OpsIn

LEMMA ConcatOpsIn ==
    ASSUME NEW s \in Seq(PageOp), NEW t \in Seq(PageOp), NEW K, OpsIn(s, K), OpsIn(t, K)
    PROVE  OpsIn(s \o t, K)
<1> SUFFICES ASSUME NEW i \in 1 .. Len(s \o t) PROVE (s \o t)[i].op \in K
  BY DEF OpsIn
<1>1. \/ i \in 1 .. Len(s) /\ (s \o t)[i] = s[i]
      \/ i - Len(s) \in 1 .. Len(t) /\ (s \o t)[i] = t[i - Len(s)]
  BY Concat
<1> QED
  BY <1>1 DEF OpsIn

LEMMA NoDirFreedLast ==
    ASSUME NoDir(todo') PROVE DirFreedLast'
BY DEF NoDir, DirFreedLast

(* The child starts with a directory of its own and no tables: the pages   *)
(* of a process that had its slot before are forgotten with their tables.  *)
LEMMA ForkStep ==
    ASSUME FInv, NEW p \in Pid, NEW child \in Pid, syscall_fork(p, child)
    PROVE  FInv'
<1>1. /\ TypeOK /\ PoolOK /\ OwnedOnce /\ OwnedTaken /\ OpsValid /\ TablesPresent
      /\ DirsValid /\ DirFreedLast
  BY DEF FInv
<1>2. /\ p \in live /\ child \notin live /\ Begin(child, fork_plan(p)) /\ source' = p
      /\ live' = live \cup {child} /\ pdir' = [pdir EXCEPT ![child] = NextFrame(1)]
      /\ alloc_page(1)
      /\ text_end' = [text_end EXCEPT ![child] = text_end[p]]
      /\ data_end' = [data_end EXCEPT ![child] = data_end[p]]
      /\ UNCHANGED <<dir, ptable>>
  BY DEF syscall_fork
<1>3. /\ pdir \in [Pid -> Entry] /\ live \in SUBSET Pid /\ npages \in Int
      /\ text_end \in [Pid -> TEXT_BASE .. DATA_BASE] /\ data_end \in [Pid -> PageNo]
  BY <1>1 DEF TypeOK
<1>4. fork_plan(p) \in Seq(PageOp) /\ AllValid(fork_plan(p)) /\ NoDir(fork_plan(p))
  <2>1. PICK a \in Nat, b \in Nat : a = text_end[p] /\ b = data_end[p] /\ a <= DATA_BASE
                                    /\ b <= Pages
    BY <1>3, Layout
  <2>2. PICK s1, s2, s3, s4 : /\ s1 = Loop("identity", 0, PAGE_START)
                              /\ s2 = Loop("copy", TEXT_BASE, a)
                              /\ s3 = Loop("copy", DATA_BASE, b)
                              /\ s4 = Loop("copy", STACK_START, STACK_BASE)
    OBVIOUS
  <2>3. s1 \in Seq(PageOp) /\ AllValid(s1) /\ NoDir(s1)
    <3>1. 0 \in Nat /\ PAGE_START \in Nat /\ PAGE_START <= PAGE_START
      BY <2>2, Layout
    <3> QED
      BY <2>2, <3>1, OpNames, LoopValid
  <2>4. s2 \in Seq(PageOp) /\ AllValid(s2) /\ NoDir(s2)
    <3>1. TEXT_BASE \in Nat /\ a <= Pages
      BY <2>1, <2>2, Layout
    <3> QED
      BY <2>1, <2>2, <3>1, OpNames, LoopValid
  <2>5. s3 \in Seq(PageOp) /\ AllValid(s3) /\ NoDir(s3)
    <3>1. DATA_BASE \in Nat /\ b <= Pages
      BY <2>1, <2>2, Layout
    <3> QED
      BY <2>1, <2>2, <3>1, OpNames, LoopValid
  <2>6. s4 \in Seq(PageOp) /\ AllValid(s4) /\ NoDir(s4)
    <3>1. STACK_START \in Nat /\ STACK_BASE \in Nat /\ STACK_BASE <= Pages
      BY <2>2, Layout
    <3> QED
      BY <2>2, <3>1, OpNames, LoopValid
  <2>7. PICK t \in Seq(PageOp) : t = s1 \o s2 /\ AllValid(t) /\ NoDir(t)
    BY <2>3, <2>4, ConcatValid, ConcatNoDir
  <2>8. PICK u \in Seq(PageOp) : u = t \o s3 /\ AllValid(u) /\ NoDir(u)
    BY <2>5, <2>7, ConcatValid, ConcatNoDir
  <2>9. u \o s4 \in Seq(PageOp) /\ AllValid(u \o s4) /\ NoDir(u \o s4)
    BY <2>6, <2>8, ConcatValid, ConcatNoDir
  <2> QED
    BY <2>1, <2>2, <2>7, <2>8, <2>9 DEF fork_plan
<1>5. todo' = fork_plan(p) /\ proc' = child
  BY <1>2 DEF Begin
<1>6. /\ \A d \in Dirindex : dir[child][d] = NONE
      /\ \A a \in PageNo : ptable[child][a] = NONE
  BY <1>1, <1>2, DirindexType DEF DirsValid, TablesPresent
<1>7. NextFrame(1) \in Nat
  BY <1>1, NextFrameType
<1>8. PoolOK' /\ OwnedOnce' /\ OwnedTaken'
  <2>1. PICK U : U = <<<<"dir", child, 0>>>>
    OBVIOUS
  <2>2. U[1] = <<"dir", child, 0>>
    BY <2>1
  <2>3. Gains(1, U)
    <3> SUFFICES ASSUME NEW k, NEW q, NEW i, NEW f, Owns(k, q, i, f)', ~Owns(k, q, i, f)
                 PROVE  GetsNext(1, U, k, q, i, f)
      BY DEF Gains
    <3>1. CASE q # child
      <4>1. q \in live /\ pdir'[q] = pdir[q]
        BY <1>2, <1>3, <3>1 DEF Owns
      <4> QED
        BY <1>2, <4>1 DEF Owns
    <3>2. CASE q = child
      <4>1. k # "table" /\ k # "page"
        <5>1. ASSUME k = "table" PROVE FALSE
          <6>1. i \in Dirindex /\ dir[child][i] # NONE
            BY <1>2, <3>2, <5>1 DEF Owns
          <6> QED
            BY <1>6, <6>1
        <5>2. ASSUME k = "page" PROVE FALSE
          <6>1. i \in PageNo /\ ptable[child][i] # NONE
            BY <1>2, <3>2, <5>2 DEF Owns, UserPage
          <6> QED
            BY <1>6, <6>1
        <5> QED
          BY <5>1, <5>2
      <4>2. k = "dir" /\ i = 0 /\ f = NextFrame(1)
        BY <1>2, <1>3, <3>2, <4>1 DEF Owns
      <4> QED
        BY <2>2, <3>2, <4>2 DEF GetsNext
    <3> QED
      BY <3>1, <3>2
  <2> QED
    BY <1>1, <1>2, <2>3, TakeStep
<1>9. TypeOK'
  <2>1. npages' = npages + 1
    BY <1>2 DEF alloc_page
  <2>2. /\ text_end' \in [Pid -> TEXT_BASE .. DATA_BASE] /\ data_end' \in [Pid -> PageNo]
        /\ pdir' \in [Pid -> Entry] /\ live' \in SUBSET Pid /\ npages' \in Int
    BY <1>2, <1>3, <1>7, <2>1 DEF Entry
  <2> QED
    BY <1>1, <1>2, <1>4, <1>5, <2>2 DEF TypeOK
<1>10. OpsValid'
  BY <1>2, <1>4, <1>5 DEF OpsValid, AllValid
<1>11. TablesPresent'
  BY <1>1, <1>2 DEF TablesPresent
<1>12. DirsValid'
  <2> SUFFICES ASSUME NEW q \in Pid
               PROVE  /\ q \in live' => pdir'[q] # NONE
                      /\ q \notin live' => \A d \in Dirindex : dir[q][d] = NONE
    BY <1>2 DEF DirsValid
  <2>1. CASE q = child
    BY <1>2, <1>3, <1>7, <2>1 DEF NONE
  <2>2. CASE q # child
    <3>1. pdir'[q] = pdir[q] /\ (q \in live' <=> q \in live)
      BY <1>2, <1>3, <2>2
    <3> QED
      BY <1>1, <3>1 DEF DirsValid
  <2> QED
    BY <2>1, <2>2
<1>13. DirFreedLast'
  BY <1>4, <1>5, NoDirFreedLast
<1> QED
  BY <1>8, <1>9, <1>10, <1>11, <1>12, <1>13 DEF FInv

(* execve unmaps text and data, and no more text is loaded than fits.      *)
LEMMA ExecveStep ==
    ASSUME FInv, NEW p \in Pid, NEW size \in FileSizes, syscall_execve(p, size)
    PROVE  FInv'
<1>1. TypeOK
  BY DEF FInv
<1>2. /\ p \in live /\ Begin(p, execve_plan(p, size))
      /\ UNCHANGED <<page_end, page_free>> /\ UNCHANGED npages
      /\ UNCHANGED <<live, pdir, dir, ptable>> /\ UNCHANGED text_end /\ UNCHANGED source
      /\ data_end' = data_end
  BY DEF syscall_execve, allocVars, mapVars, segVars
<1>3. execve_plan(p, size) \in Seq(PageOp) /\ AllValid(execve_plan(p, size))
      /\ NoDir(execve_plan(p, size))
  <2>1. PICK a \in Nat, b \in Nat : a = text_end[p] /\ b = data_end[p] /\ a <= DATA_BASE
                                    /\ b <= Pages
    BY <1>1, Layout DEF TypeOK
  <2>2. PICK c \in Nat : c = TEXT_BASE + RoundUp(size) /\ c <= DATA_BASE
    <3>1. DATA_BASE - TEXT_BASE \in Nat
      BY Layout
    <3>2. size \in Nat /\ size <= (DATA_BASE - TEXT_BASE) * PAGE_SIZE
      BY <3>1, PagingAssumption
    <3>3. RoundUp(size) \in Nat /\ RoundUp(size) <= DATA_BASE - TEXT_BASE
      BY <3>1, <3>2, RoundUpBound
    <3> QED
      BY <3>3, Layout
  <2>3. PICK s1, s2, s3, s4 : /\ s1 = Loop("unmap", TEXT_BASE, a)
                              /\ s2 = Loop("unmap", DATA_BASE, b)
                              /\ s3 = One("resize")
                              /\ s4 = Loop("load", TEXT_BASE, c)
    OBVIOUS
  <2>4. s1 \in Seq(PageOp) /\ AllValid(s1) /\ NoDir(s1)
    <3>1. TEXT_BASE \in Nat /\ TEXT_BASE >= PAGE_START /\ a <= Pages
      BY <2>1, <2>3, Layout
    <3> QED
      BY <2>1, <2>3, <3>1, OpNames, LoopValid
  <2>5. s2 \in Seq(PageOp) /\ AllValid(s2) /\ NoDir(s2)
    <3>1. DATA_BASE \in Nat /\ DATA_BASE >= PAGE_START /\ b <= Pages
      BY <2>1, <2>3, Layout
    <3> QED
      BY <2>1, <2>3, <3>1, OpNames, LoopValid
  <2>6. s3 \in Seq(PageOp) /\ AllValid(s3) /\ NoDir(s3)
    BY <2>3, OneValid
  <2>7. s4 \in Seq(PageOp) /\ AllValid(s4) /\ NoDir(s4)
    <3>1. TEXT_BASE \in Nat /\ TEXT_BASE >= TEXT_BASE /\ c <= DATA_BASE
      BY <2>2, <2>3, Layout
    <3> QED
      BY <2>2, <2>3, <3>1, OpNames, LoopValid
  <2>8. PICK t \in Seq(PageOp) : t = s1 \o s2 /\ AllValid(t) /\ NoDir(t)
    BY <2>4, <2>5, ConcatValid, ConcatNoDir
  <2>9. PICK u \in Seq(PageOp) : u = t \o s3 /\ AllValid(u) /\ NoDir(u)
    BY <2>6, <2>8, ConcatValid, ConcatNoDir
  <2>10. u \o s4 \in Seq(PageOp) /\ AllValid(u \o s4) /\ NoDir(u \o s4)
    BY <2>7, <2>9, ConcatValid, ConcatNoDir
  <2> QED
    BY <2>1, <2>2, <2>3, <2>8, <2>9, <2>10 DEF execve_plan
<1>4. DirFreedLast'
  <2>1. todo' = execve_plan(p, size)
    BY <1>2 DEF Begin
  <2> QED
    BY <1>3, <2>1, NoDirFreedLast
<1>5. data_end' \in [Pid -> PageNo]
  BY <1>1, <1>2 DEF TypeOK
<1> QED
  BY <1>2, <1>3, <1>4, <1>5, BeginStep

(* brk may run over the stack and wrap around, but stays in the tables.    *)
LEMMA BrkStep ==
    ASSUME FInv, NEW p \in Pid, NEW newend \in BrkArgs, syscall_brk(p, newend)
    PROVE  FInv'
<1>1. TypeOK
  BY DEF FInv
<1>2. PICK k \in Nat \ {0} : k = Pages
  BY PagingAssumption DEF Pages
<1>3. newend \in Nat /\ newend <= k * PAGE_SIZE
  BY <1>2, PagingAssumption DEF AddressSpace, Pages
<1>4. RoundUp(newend) \in Nat /\ RoundUp(newend) <= k
  BY <1>2, <1>3, RoundUpBound
<1>5. PICK c \in Nat : c = RoundUp(newend) /\ c <= k
  BY <1>4
<1>6. PICK a \in Nat : a = data_end[p]
  BY <1>1, Layout DEF TypeOK
<1>7. /\ p \in live /\ Begin(p, Loop("new", a, c))
      /\ data_end' = [data_end EXCEPT ![p] = c % k]
      /\ UNCHANGED <<page_end, page_free>> /\ UNCHANGED npages
      /\ UNCHANGED <<live, pdir, dir, ptable>> /\ UNCHANGED text_end /\ UNCHANGED source
  BY <1>2, <1>5, <1>6 DEF syscall_brk, allocVars, mapVars, Pages
<1>8. /\ Loop("new", a, c) \in Seq(PageOp) /\ AllValid(Loop("new", a, c))
      /\ NoDir(Loop("new", a, c))
  BY <1>2, <1>5, OpNames, LoopValid
<1>9. c % k \in PageNo
  BY <1>2, <1>5, Layout
<1>10. data_end' \in [Pid -> PageNo]
  BY <1>1, <1>7, <1>9 DEF TypeOK
<1>11. DirFreedLast'
  <2>1. todo' = Loop("new", a, c)
    BY <1>7 DEF Begin
  <2> QED
    BY <1>8, <2>1, NoDirFreedLast
<1> QED
  BY <1>7, <1>8, <1>10, <1>11, BeginStep

(* kill_process frees every table, and the directory behind all of them.   *)
LEMMA KillStep ==
    ASSUME FInv, NEW p \in Pid, kill_process(p)
    PROVE  FInv'
<1>1. TypeOK
  BY DEF FInv
<1>2. /\ p \in live /\ Begin(p, kill_plan(p))
      /\ UNCHANGED <<page_end, page_free>> /\ UNCHANGED npages
      /\ UNCHANGED <<live, pdir, dir, ptable>> /\ UNCHANGED text_end /\ UNCHANGED source
      /\ data_end' = data_end
  BY DEF kill_process, allocVars, mapVars, segVars
<1>3. PICK a \in Nat, b \in Nat : /\ a = text_end[p] /\ b = data_end[p]
                                  /\ a <= DATA_BASE /\ b <= Pages
  BY <1>1, Layout DEF TypeOK
<1>4. PICK s1, s2, s3, s4, s5 : /\ s1 = Loop("unmap", STACK_START, STACK_BASE)
                                /\ s2 = Loop("unmap", DATA_BASE, b)
                                /\ s3 = Loop("unmap", TEXT_BASE, a)
                                /\ s4 = Loop("table", 0, TableCount)
                                /\ s5 = One("dir")
  OBVIOUS
<1>5. s1 \in Seq(PageOp) /\ AllValid(s1) /\ NoDir(s1)
  <2>1. /\ STACK_START \in Nat /\ STACK_BASE \in Nat /\ STACK_START >= PAGE_START
        /\ STACK_BASE <= Pages
    BY Layout
  <2> QED
    BY <1>4, <2>1, OpNames, LoopValid
<1>6. s2 \in Seq(PageOp) /\ AllValid(s2) /\ NoDir(s2)
  <2>1. DATA_BASE \in Nat /\ DATA_BASE >= PAGE_START /\ b <= Pages
    BY <1>3, Layout
  <2> QED
    BY <1>4, <2>1, OpNames, LoopValid
<1>7. s3 \in Seq(PageOp) /\ AllValid(s3) /\ NoDir(s3)
  <2>1. TEXT_BASE \in Nat /\ TEXT_BASE >= PAGE_START /\ a <= Pages
    BY <1>3, Layout
  <2> QED
    BY <1>4, <2>1, OpNames, LoopValid
<1>8. s4 \in Seq(PageOp) /\ AllValid(s4) /\ NoDir(s4)
  <2>1. 0 \in Nat /\ TableCount \in Nat /\ TableCount <= TableCount
    BY Layout
  <2> QED
    BY <1>4, <2>1, OpNames, LoopValid
<1>9. s5 \in Seq(PageOp) /\ AllValid(s5) /\ Len(s5) = 1
  BY <1>4, OneValid, OneEffect, OpNames
<1>10. PICK t \in Seq(PageOp) : t = s1 \o s2 /\ AllValid(t) /\ NoDir(t)
  BY <1>5, <1>6, ConcatValid, ConcatNoDir
<1>11. PICK u \in Seq(PageOp) : u = t \o s3 /\ AllValid(u) /\ NoDir(u)
  BY <1>7, <1>10, ConcatValid, ConcatNoDir
<1>12. PICK v \in Seq(PageOp) : v = u \o s4 /\ AllValid(v) /\ NoDir(v)
  BY <1>8, <1>11, ConcatValid, ConcatNoDir
<1>13. PICK w \in Seq(PageOp) : w = v \o s5 /\ AllValid(w)
  BY <1>9, <1>12, ConcatValid
<1>14. kill_plan(p) = w
  BY <1>3, <1>4, <1>10, <1>11, <1>12, <1>13 DEF kill_plan
<1>15. \A i \in 1 .. Len(w) : w[i].op \in {"unmap", "table", "dir"}
  <2>1. PICK K : K = {"unmap", "table", "dir"}
    OBVIOUS
  <2>2. "unmap" \in K /\ "table" \in K /\ "dir" \in K
    BY <2>1
  <2>3. OpsIn(s1, K) /\ OpsIn(s2, K) /\ OpsIn(s3, K) /\ OpsIn(s4, K)
    BY <1>3, <1>4, <2>2, Layout, OpNames, LoopOpsIn
  <2>4. OpsIn(s5, K)
    BY <1>4, <2>2, OpNames, OneEffect DEF OpsIn
  <2>5. OpsIn(t, K)
    BY <1>5, <1>6, <1>10, <2>3, ConcatOpsIn
  <2>6. OpsIn(u, K)
    BY <1>7, <1>11, <2>3, <2>5, ConcatOpsIn
  <2>7. OpsIn(v, K)
    BY <1>8, <1>12, <2>3, <2>6, ConcatOpsIn
  <2>8. OpsIn(w, K)
    BY <1>9, <1>13, <2>4, <2>7, ConcatOpsIn
  <2> QED
    BY <2>1, <2>8 DEF OpsIn
<1>16. /\ Len(w) = Len(v) + 1 /\ Len(v) \in Nat
       /\ \A j \in 1 .. Len(v) : w[j] = v[j]
  <2>1. /\ Len(v \o s5) = Len(v) + Len(s5) /\ Len(v) \in Nat
        /\ \A j \in 1 .. Len(v) : (v \o s5)[j] = v[j]
    BY <1>9, Concat
  <2> QED
    BY <1>9, <1>13, <2>1
<1>17. ASSUME NEW i \in 1 .. Len(w), w[i].op = "dir" PROVE i = Len(w)
  <2>1. i \notin 1 .. Len(v)
    BY <1>12, <1>16, <1>17 DEF NoDir
  <2> QED
    BY <1>16, <2>1
<1>18. ASSUME NEW d \in Dirindex
       PROVE  \E j \in 1 .. Len(w) : w[j].op = "table" /\ w[j].at = d
  <2>1. d \in Nat /\ d + 1 \in 1 .. TableCount /\ TableCount \in Nat
    BY Layout DEF Dirindex
  <2>2. d + 1 \in 1 .. Len(s4) /\ s4[d + 1].op = "table" /\ s4[d + 1].at = d
    <3>1. PICK z \in Nat : z = 0
      OBVIOUS
    <3>2. s4 = Loop("table", z, TableCount)
      BY <1>4, <3>1
    <3>3. /\ Len(Loop("table", z, TableCount)) = IF TableCount > z THEN TableCount - z ELSE 0
          /\ \A i \in 1 .. Len(Loop("table", z, TableCount)) :
                /\ Loop("table", z, TableCount)[i].op = "table"
                /\ Loop("table", z, TableCount)[i].at = z + i - 1
      BY <2>1, OpNames, LoopEffect
    <3> QED
      BY <2>1, <3>1, <3>2, <3>3
  <2>3. /\ Len(u) + (d + 1) \in 1 .. Len(v) /\ v[Len(u) + (d + 1)] = s4[d + 1]
    <3>1. /\ Len(v) = Len(u) + Len(s4) /\ Len(u) \in Nat /\ Len(s4) \in Nat
          /\ \A i \in 1 .. Len(s4) : v[Len(u) + i] = s4[i]
      BY <1>8, <1>12, Concat
    <3> QED
      BY <2>2, <3>1
  <2>4. /\ Len(u) + (d + 1) \in 1 .. Len(w) /\ w[Len(u) + (d + 1)] = v[Len(u) + (d + 1)]
    BY <1>16, <2>3
  <2> QED
    BY <2>2, <2>3, <2>4
<1>19. DirFreedLast'
  <2>1. todo' = w
    BY <1>2, <1>14 DEF Begin
  <2> QED
    BY <1>15, <1>17, <1>18, <2>1 DEF DirFreedLast
<1>20. data_end' \in [Pid -> PageNo]
  BY <1>1, <1>2 DEF TypeOK
<1> QED
  BY <1>2, <1>13, <1>14, <1>19, <1>20, BeginStep

(***************************************************************************)
(* The theorem.                                                            *)
(***************************************************************************)
LEMMA InitFInv == Init => FInv
<1> SUFFICES ASSUME Init PROVE FInv
  OBVIOUS
<1>1. /\ page_end = PAGE_START + 1 /\ page_free = <<>> /\ npages = 1
      /\ live = {1}
      /\ pdir = [p \in Pid |-> IF p = 1 THEN PAGE_START ELSE NONE]
      /\ dir = [p \in Pid |-> [i \in Dirindex |-> NONE]]
      /\ ptable = [p \in Pid |-> [page \in PageNo |-> NONE]]
      /\ text_end = [p \in Pid |-> TEXT_BASE]
      /\ data_end = [p \in Pid |-> DATA_BASE]
      /\ todo = start_plan /\ proc = 1 /\ source = NONE
  BY DEF Init
<1>2. /\ 1 \in Pid /\ PAGE_START \in Nat /\ TEXT_BASE \in TEXT_BASE .. DATA_BASE
      /\ DATA_BASE \in PageNo /\ NONE \in Entry /\ PAGE_START \in Entry
  BY PagingAssumption, Layout DEF Pid, Entry
<1>3. start_plan \in Seq(PageOp) /\ AllValid(start_plan) /\ NoDir(start_plan)
  <2>1. PICK s1, s2 : /\ s1 = Loop("identity", 0, PAGE_START)
                      /\ s2 = Loop("new", STACK_START, STACK_BASE)
    OBVIOUS
  <2>2. s1 \in Seq(PageOp) /\ AllValid(s1) /\ NoDir(s1)
    <3>1. 0 \in Nat /\ PAGE_START \in Nat /\ PAGE_START <= PAGE_START
      BY Layout
    <3> QED
      BY <2>1, <3>1, OpNames, LoopValid
  <2>3. s2 \in Seq(PageOp) /\ AllValid(s2) /\ NoDir(s2)
    <3>1. STACK_START \in Nat /\ STACK_BASE \in Nat /\ STACK_BASE <= Pages
      BY Layout
    <3> QED
      BY <2>1, <3>1, OpNames, LoopValid
  <2>4. s1 \o s2 \in Seq(PageOp) /\ AllValid(s1 \o s2) /\ NoDir(s1 \o s2)
    BY <2>2, <2>3, ConcatValid, ConcatNoDir
  <2> QED
    BY <2>1, <2>4 DEF start_plan
<1>4. TypeOK
  BY <1>1, <1>2, <1>3 DEF TypeOK
<1>5. PoolOK
  BY <1>1, <1>2 DEF PoolOK
<1>6. \A k, p, i, f : Owns(k, p, i, f) => k = "dir" /\ p = 1 /\ i = 0 /\ f = PAGE_START
  BY <1>1, <1>2 DEF Owns, UserPage
<1>7. OwnedOnce
  BY <1>6 DEF OwnedOnce
<1>8. ~Avail(PAGE_START)
  BY <1>1, <1>2 DEF Avail
<1>9. OwnedTaken
  BY <1>2, <1>6, <1>8 DEF OwnedTaken
<1>10. OpsValid
  BY <1>1, <1>3 DEF OpsValid, AllValid
<1>11. TablesPresent
  BY <1>1 DEF TablesPresent
<1>12. DirsValid
  BY <1>1, <1>2 DEF DirsValid, NONE
<1>13. DirFreedLast
  BY <1>1, <1>3 DEF DirFreedLast, NoDir
<1> QED
  BY <1>4, <1>5, <1>7, <1>9, <1>10, <1>11, <1>12, <1>13 DEF FInv

LEMMA NextFInv == FInv /\ [Next]_vars => FInv'
<1> SUFFICES ASSUME FInv, [Next]_vars PROVE FInv'
  OBVIOUS
<1>1. ASSUME NEW p \in Pid, NEW child \in Pid, syscall_fork(p, child) PROVE FInv'
  BY <1>1, ForkStep
<1>2. ASSUME NEW p \in Pid, NEW size \in FileSizes, syscall_execve(p, size) PROVE FInv'
  BY <1>2, ExecveStep
<1>3. ASSUME NEW p \in Pid, NEW newend \in BrkArgs, syscall_brk(p, newend) PROVE FInv'
  BY <1>3, BrkStep
<1>4. ASSUME NEW p \in Pid, kill_process(p) PROVE FInv'
  BY <1>4, KillStep
<1>5. CASE identity_map
  BY <1>5, IdentityMapStep
<1>6. CASE map_new_pages
  BY <1>6, MapNewPagesStep
<1>7. CASE map_and_copy
  BY <1>7, MapAndCopyStep
<1>8. CASE load_text
  BY <1>8, LoadTextStep
<1>9. CASE resize_segments
  BY <1>9, ResizeSegmentsStep
<1>10. CASE unmap_and_free_page
  BY <1>10, UnmapStep
<1>11. CASE free_table
  BY <1>11, FreeTableStep
<1>12. CASE free_dir
  BY <1>12, FreeDirStep
<1>13. CASE UNCHANGED vars
  BY <1>13 DEF vars, allocVars, mapVars, segVars, FInv, TypeOK, PoolOK, OwnedOnce, OwnedTaken,
               Owns, Avail, OpsValid, TablesPresent, DirsValid, DirFreedLast
<1> QED
  BY <1>1, <1>2, <1>3, <1>4, <1>5, <1>6, <1>7, <1>8, <1>9, <1>10, <1>11, <1>12, <1>13 DEF Next

(* In the words of the run: the uses of a frame are its owners.            *)
LEMMA UseOwned ==
    ASSUME NEW u \in Uses
    PROVE  \E k, p, i : u = <<k, p, i>> /\ Owns(k, p, i, FrameOf(u))
<1>1. FrameOf(u) # NONE /\ u \in DirUses \cup TableUses \cup PageUses
  BY DEF Uses
<1>2. CASE u \in DirUses
  <2>1. PICK p \in live : u = <<"dir", p, 0>>
    BY <1>2 DEF DirUses
  <2>2. FrameOf(u) = pdir[p]
    BY <2>1 DEF FrameOf
  <2> QED
    BY <1>1, <2>1, <2>2 DEF Owns
<1>3. CASE u \in TableUses
  <2>1. PICK p \in live, i \in Dirindex : u = <<"table", p, i>>
    BY <1>3 DEF TableUses
  <2>2. FrameOf(u) = dir[p][i]
    BY <2>1 DEF FrameOf
  <2> QED
    BY <1>1, <2>1, <2>2 DEF Owns
<1>4. CASE u \in PageUses
  <2>1. PICK p \in live, i \in UserPage : u = <<"page", p, i>>
    BY <1>4 DEF PageUses, UserPage, Kernel
  <2>2. FrameOf(u) = ptable[p][i]
    BY <2>1 DEF FrameOf
  <2> QED
    BY <1>1, <2>1, <2>2 DEF Owns
<1> QED
  BY <1>1, <1>2, <1>3, <1>4

LEMMA InUseOwned ==
    ASSUME NEW f
    PROVE  f \in InUse <=> \E k, p, i : Owns(k, p, i, f)
<1>1. ASSUME f \in InUse PROVE \E k, p, i : Owns(k, p, i, f)
  <2>1. PICK u \in Uses : f = FrameOf(u)
    BY <1>1 DEF InUse
  <2> QED
    BY <2>1, UseOwned
<1>2. ASSUME NEW k, NEW p, NEW i, Owns(k, p, i, f) PROVE f \in InUse
  <2>1. p \in live /\ f # NONE
    BY <1>2 DEF Owns
  <2>2. <<k, p, i>> \in DirUses \cup TableUses \cup PageUses
    BY <1>2 DEF Owns, DirUses, TableUses, PageUses, UserPage, Kernel
  <2>3. FrameOf(<<k, p, i>>) = f
    BY <1>2 DEF Owns, FrameOf
  <2> QED
    BY <2>1, <2>2, <2>3 DEF Uses, InUse
<1> QED
  BY <1>1, <1>2

LEMMA FInvDisjoint == FInv => FramesDisjoint
<1> SUFFICES ASSUME FInv PROVE FramesDisjoint
  OBVIOUS
<1>1. TypeOK /\ PoolOK /\ OwnedOnce /\ OwnedTaken
  BY DEF FInv
<1>2. \A u, v \in Uses : FrameOf(u) = FrameOf(v) => u = v
  <2> SUFFICES ASSUME NEW u \in Uses, NEW v \in Uses, FrameOf(u) = FrameOf(v)
               PROVE  u = v
    OBVIOUS
  <2>1. PICK k, p, i : u = <<k, p, i>> /\ Owns(k, p, i, FrameOf(u))
    BY UseOwned
  <2>2. PICK l, q, j : v = <<l, q, j>> /\ Owns(l, q, j, FrameOf(u))
    BY UseOwned
  <2> QED
    BY <1>1, <2>1, <2>2 DEF OwnedOnce
<1>3. page_free \in Seq(Nat) /\ page_end \in Nat /\ PAGE_START \in Nat /\ DOMAIN page_free = 1 .. Len(page_free)
  BY <1>1, Layout DEF PoolOK
<1>4. IsInjective(page_free)
  BY <1>1, <1>3 DEF PoolOK, IsInjective
<1>5. \A f \in InUse : f \in Nat /\ f >= PAGE_START /\ ~Avail(f)
  BY <1>1, InUseOwned DEF OwnedTaken
<1>6. \A f \in ToSet(page_free) : \E i \in 1 .. Len(page_free) : page_free[i] = f
  BY <1>3 DEF ToSet
<1>7. \A f \in ToSet(page_free) : Avail(f) /\ f \in PAGE_START .. (page_end - 1)
  BY <1>1, <1>3, <1>6 DEF Avail, PoolOK
<1>8. \A f \in InUse : f \in PAGE_START .. (page_end - 1)
  BY <1>3, <1>5 DEF Avail
<1> QED
  BY <1>2, <1>4, <1>5, <1>7, <1>8 DEF FramesDisjoint

(* The invariant holds in every state, in the middle of a call too.        *)
THEOREM FrameInvariance == Spec => []FInv
<1>1. Init => FInv
  BY InitFInv
<1>2. FInv /\ [Next]_vars => FInv'
  BY NextFInv
<1> QED
  BY <1>1, <1>2, PTL DEF Spec

(* Whatever programs are executed, whatever brk is called with and however *)
(* often processes fork and die: no page, table or directory of a process  *)
(* shares its frame with anything else, is on the free list of page.c, or  *)
(* lies in the memory of the kernel.                                       *)
THEOREM FramesNeverShared == Spec => []FramesDisjoint
<1>1. FInv => FramesDisjoint
  BY FInvDisjoint
<1> QED
  BY <1>1, FrameInvariance, PTL

=============================================================================

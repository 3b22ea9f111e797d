---------------------------- MODULE PagingProofs ----------------------------
(***************************************************************************)
(* More proofs about module Paging: nothing leaks, no assertion fails, and *)
(* what a process has mapped are its segments, for every size of the       *)
(* tables, layout of the segments and program, as long as no process asks  *)
(* brk for memory behind the start of the stack (which brk would give it). *)
(***************************************************************************)
EXTENDS FrameProofs

(***************************************************************************)
(* The inductive invariant: which pages of a process are mapped, also in   *)
(* the middle of each call.                                                *)
(***************************************************************************)
Stack == STACK_START .. (STACK_BASE - 1)

(* The page is in a segment of the process.                                *)
Seg(p, a) == \/ a \in TEXT_BASE .. (text_end[p] - 1)
             \/ a \in DATA_BASE .. (data_end[p] - 1)
             \/ a \in Stack

Mapped(p, a) == ptable[p][a] # NONE

KernelMapped(p) == \A a \in Kernel : ptable[p][a] = a

(* Between two calls.                                                      *)
Settled(p) == KernelMapped(p) /\ \A a \in UserPage : Mapped(p, a) <=> Seg(p, a)

(* An operation of the call is still to come for the page.                 *)
Pending(a) == \E i \in 1 .. Len(todo) : todo[i].at = a
PendingUnmap(a) == \E i \in 1 .. Len(todo) : todo[i].op = "unmap" /\ todo[i].at = a

(* start_process, fork and brk: every page of a segment is mapped or will  *)
(* be, once, and fork copies pages of another process that has them.       *)
BuildingOp(p, o) ==
    /\ o.op \in {"identity", "new", "copy"}
    /\ o.op = "identity" <=> o.at \in Kernel
    /\ o.op = "copy" => source \in live /\ source # p /\ Seg(source, o.at)

Building(p) ==
    /\ \A i \in 1 .. Len(todo) : BuildingOp(p, todo[i])
    /\ \A i, j \in 1 .. Len(todo) : todo[i].at = todo[j].at => i = j
    /\ \A a \in Kernel : Pending(a) \/ ptable[p][a] = a
    /\ \A a \in UserPage : /\ Seg(p, a) <=> Mapped(p, a) \/ Pending(a)
                           /\ Pending(a) => ~Mapped(p, a)

(* execve, first half: the old text and data goes.                         *)
Emptying(p) ==
    /\ KernelMapped(p)
    /\ \A a \in UserPage : IF a \in Stack THEN Mapped(p, a)
                                          ELSE Mapped(p, a) => PendingUnmap(a)
    /\ \E r \in 1 .. Len(todo) :
          /\ todo[r].op = "resize"
          /\ \A i \in 1 .. (r - 1) : todo[i].op = "unmap" /\ todo[i].at < STACK_START
          /\ \A i \in (r + 1) .. Len(todo) :
                todo[i].op = "load" /\ todo[i].at = TEXT_BASE + (i - r) - 1

(* Second half: the text grows page by page.                               *)
Loading(p) ==
    /\ Settled(p)
    /\ \A i \in 1 .. Len(todo) : todo[i].op = "load" /\ todo[i].at = text_end[p] + i - 1

(* kill_process unmaps every page before it frees the first table.         *)
Dying(p) ==
    /\ \A a \in UserPage : Mapped(p, a) => PendingUnmap(a)
    /\ \A i, j \in 1 .. Len(todo) : i < j /\ todo[j].op = "unmap" => todo[i].op = "unmap"
    /\ \E i \in 1 .. Len(todo) : todo[i].op = "dir"

CallOK == todo # <<>> => Building(proc) \/ Emptying(proc) \/ Loading(proc) \/ Dying(proc)

OthersSettled == \A p \in live : todo = <<>> \/ p # proc => Settled(p)

DataEnds == data_end \in [Pid -> DATA_BASE .. STACK_START]

(* Every frame can still be allocated or has an owner, and npages counts   *)
(* the owned ones.                                                         *)
NothingLost == \A f \in Nat : f >= PAGE_START => Avail(f) \/ f \in InUse

Counted == IsFiniteSet(InUse) /\ npages = Cardinality(InUse)

PInv == /\ NoPanic /\ DataEnds /\ CallOK /\ OthersSettled /\ NothingLost /\ Counted

(***************************************************************************)
(* The frames in use.                                                      *)
(***************************************************************************)
(* A frame is in use when it has an owner, before and after a step.        *)
OwnedUsed == \A f : f \in InUse <=> \E k, p, i : Owns(k, p, i, f)

LEMMA OwnedUsedNow == OwnedUsed
BY InUseOwned DEF OwnedUsed

LEMMA OwnedUsedNext == OwnedUsed'
BY OwnedUsedNow, PTL

(* The next n frames come into use, or one that was goes out of it.        *)
Takes(n) == \A f : f \in InUse' <=> f \in InUse \/ \E m \in 1 .. n : f = NextFrame(m)
Gives(g) == \A f : f \in InUse' <=> f \in InUse /\ f # g

LEMMA TakeExact ==
    ASSUME PoolOK, OwnedTaken, NothingLost, Counted, NEW n \in 0 .. 2, alloc_page(n), Takes(n)
    PROVE  NothingLost' /\ Counted'
<1>1. /\ \A f \in Nat : Avail(f)' <=> Avail(f) /\ \A m \in 1 .. n : f # NextFrame(m)
      /\ \A m \in 1 .. n : /\ NextFrame(m) \in Nat /\ NextFrame(m) >= PAGE_START
                           /\ Avail(NextFrame(m))
      /\ \A m, k \in 1 .. n : NextFrame(m) = NextFrame(k) => m = k
      /\ npages' = npages + n
  BY AllocEffect
<1>2. NothingLost'
  <2> SUFFICES ASSUME NEW f \in Nat, f >= PAGE_START PROVE Avail(f)' \/ f \in InUse'
    BY DEF NothingLost
  <2>1. Avail(f) \/ f \in InUse
    BY DEF NothingLost
  <2> QED
    BY <1>1, <2>1 DEF Takes
<1>3. \A m \in 1 .. n : NextFrame(m) \notin InUse
  BY <1>1, OwnedUsedNow DEF OwnedUsed, OwnedTaken
<1>4. IsFiniteSet(InUse) /\ npages = Cardinality(InUse) /\ Cardinality(InUse) \in Nat
  BY FS_CardinalityType DEF Counted
<1>5. CASE n = 0
  <2>1. InUse' = InUse
    BY <1>5 DEF Takes
  <2> QED
    BY <1>1, <1>2, <1>4, <1>5, <2>1 DEF Counted
<1>6. CASE n = 1
  <2>1. PICK x : x = NextFrame(1)
    OBVIOUS
  <2>2. x \notin InUse
    BY <1>3, <1>6, <2>1
  <2>3. InUse' = InUse \cup {x}
    BY <1>6, <2>1 DEF Takes
  <2>4. IsFiniteSet(InUse \cup {x}) /\ Cardinality(InUse \cup {x}) = Cardinality(InUse) + 1
    BY <1>4, <2>2, FS_AddElement
  <2> QED
    BY <1>1, <1>2, <1>4, <1>6, <2>3, <2>4 DEF Counted
<1>7. CASE n = 2
  <2>1. PICK x, y : x = NextFrame(1) /\ y = NextFrame(2)
    OBVIOUS
  <2>2. x \notin InUse /\ y \notin InUse /\ x # y
    BY <1>1, <1>3, <1>7, <2>1
  <2>3. PICK S : S = InUse \cup {x}
    OBVIOUS
  <2>4. InUse' = S \cup {y} /\ y \notin S
    BY <1>7, <2>1, <2>2, <2>3 DEF Takes
  <2>5. IsFiniteSet(S) /\ Cardinality(S) = Cardinality(InUse) + 1
    BY <1>4, <2>2, <2>3, FS_AddElement
  <2>6. IsFiniteSet(S \cup {y}) /\ Cardinality(S \cup {y}) = Cardinality(S) + 1
    BY <2>4, <2>5, FS_AddElement
  <2> QED
    BY <1>1, <1>2, <1>4, <1>7, <2>4, <2>5, <2>6 DEF Counted
<1> QED
  BY <1>5, <1>6, <1>7

LEMMA GiveExact ==
    ASSUME PoolOK, OwnedTaken, NothingLost, Counted, NEW g, g \in InUse, free_page(g), Gives(g)
    PROVE  NothingLost' /\ Counted' /\ npages > 0
<1>1. g \in Nat /\ g >= PAGE_START /\ ~Avail(g)
  BY OwnedUsedNow DEF OwnedUsed, OwnedTaken
<1>2. (\A f \in Nat : Avail(f)' <=> Avail(f) \/ f = g) /\ npages' = npages - 1
  BY <1>1, FreeEffect
<1>3. NothingLost'
  <2> SUFFICES ASSUME NEW f \in Nat, f >= PAGE_START PROVE Avail(f)' \/ f \in InUse'
    BY DEF NothingLost
  <2>1. Avail(f) \/ f \in InUse
    BY DEF NothingLost
  <2> QED
    BY <1>2, <2>1 DEF Gives
<1>4. IsFiniteSet(InUse) /\ npages = Cardinality(InUse) /\ Cardinality(InUse) \in Nat
  BY FS_CardinalityType DEF Counted
<1>5. InUse' = InUse \ {g}
  BY DEF Gives
<1>6. IsFiniteSet(InUse \ {g}) /\ Cardinality(InUse \ {g}) = Cardinality(InUse) - 1
  BY <1>4, FS_RemoveElement
<1>7. Cardinality(InUse \ {g}) \in Nat
  BY <1>6, FS_CardinalityType
<1> QED
  BY <1>2, <1>3, <1>4, <1>5, <1>6, <1>7 DEF Counted

LEMMA KeepExact ==
    ASSUME NothingLost, Counted, UNCHANGED <<page_end, page_free>>, UNCHANGED npages,
           UNCHANGED <<live, pdir, dir, ptable>>
    PROVE  NothingLost' /\ Counted'
<1>1. \A k, p, i, f : Owns(k, p, i, f)' <=> Owns(k, p, i, f)
  BY DEF Owns
<1>2. \A f : f \in InUse' <=> f \in InUse
  BY <1>1, OwnedUsedNow, OwnedUsedNext DEF OwnedUsed
<1>3. InUse' = InUse
  BY <1>2
<1>4. \A f \in Nat : Avail(f)' <=> Avail(f)
  BY DEF Avail
<1> QED
  BY <1>3, <1>4 DEF NothingLost, Counted

(* map_page takes the frame of the page, and perhaps one for a table,      *)
(* unless it overwrites an entry.                                          *)
LEMMA MapTakes ==
    ASSUME TypeOK, NEW p \in live, NEW a \in PageNo, NEW physical \in Nat, NEW dirpage \in Nat,
           map_page(p, a, physical, dirpage), live' = live,
           a \in UserPage => ~Mapped(p, a)
    PROVE  \A f : f \in InUse' <=> \/ f \in InUse
                                   \/ a \in UserPage /\ f = physical
                                   \/ TablesNeeded(p, a) = 1 /\ f = dirpage
<1>1. /\ dir \in [Pid -> [Dirindex -> Entry]] /\ ptable \in [Pid -> [PageNo -> Entry]]
      /\ live \in SUBSET Pid /\ p \in Pid /\ physical # NONE /\ dirpage # NONE
  BY DEF TypeOK, NONE
<1>2. dirindex(a) \in Dirindex
  BY DirindexType
<1>3. /\ dir' = IF dir[p][dirindex(a)] = NONE
                THEN [dir EXCEPT ![p][dirindex(a)] = dirpage] ELSE dir
      /\ ptable' = [ptable EXCEPT ![p][a] = physical] /\ pdir' = pdir
  BY DEF map_page
<1> SUFFICES ASSUME NEW f
             PROVE  f \in InUse' <=> \/ f \in InUse
                                     \/ a \in UserPage /\ f = physical
                                     \/ TablesNeeded(p, a) = 1 /\ f = dirpage
  OBVIOUS
<1>4. ASSUME f \in InUse'
      PROVE  \/ f \in InUse
             \/ a \in UserPage /\ f = physical
             \/ TablesNeeded(p, a) = 1 /\ f = dirpage
  <2>1. PICK k, q, i : Owns(k, q, i, f)'
    BY <1>4, OwnedUsedNext DEF OwnedUsed
  <2>2. \/ Owns(k, q, i, f)
        \/ a \in UserPage /\ f = physical
        \/ f = dirpage /\ TablesNeeded(p, a) = 1
    BY <1>1, <2>1, MapOwns
  <2> QED
    BY <2>2, OwnedUsedNow DEF OwnedUsed
<1>5. ASSUME f \in InUse PROVE f \in InUse'
  <2>1. PICK k, q, i : Owns(k, q, i, f)
    BY <1>5, OwnedUsedNow DEF OwnedUsed
  <2>2. q \in live /\ q \in Pid /\ f # NONE
    BY <1>1, <2>1 DEF Owns
  <2>3. CASE k = "dir"
    BY <1>3, <2>1, <2>3, OwnedUsedNext DEF Owns, OwnedUsed
  <2>4. CASE k = "table"
    <3>1. i \in Dirindex /\ dir[q][i] = f
      BY <2>1, <2>4 DEF Owns
    <3>2. dir'[q][i] = f
      BY <1>1, <1>2, <1>3, <2>2, <3>1
    <3>3. Owns("table", q, i, f)'
      BY <2>2, <3>1, <3>2 DEF Owns
    <3> QED
      BY <3>3, OwnedUsedNext DEF OwnedUsed
  <2>5. CASE k = "page"
    <3>1. i \in UserPage /\ i \in PageNo /\ ptable[q][i] = f
      BY <2>1, <2>5 DEF Owns, UserPage
    <3>2. ~(q = p /\ i = a)
      BY <2>2, <3>1 DEF Mapped
    <3>3. ptable'[q][i] = f
      BY <1>1, <1>3, <2>2, <3>1, <3>2
    <3>4. Owns("page", q, i, f)'
      BY <2>2, <3>1, <3>3 DEF Owns
    <3> QED
      BY <3>4, OwnedUsedNext DEF OwnedUsed
  <2> QED
    BY <2>1, <2>3, <2>4, <2>5 DEF Owns
<1>6. ASSUME a \in UserPage, f = physical PROVE f \in InUse'
  <2>1. ptable'[p][a] = physical
    BY <1>1, <1>3
  <2>2. Owns("page", p, a, f)'
    BY <1>1, <1>6, <2>1 DEF Owns
  <2> QED
    BY <2>2, OwnedUsedNext DEF OwnedUsed
<1>7. ASSUME TablesNeeded(p, a) = 1, f = dirpage PROVE f \in InUse'
  <2>1. dir[p][dirindex(a)] = NONE
    BY <1>7 DEF TablesNeeded
  <2>2. dir'[p][dirindex(a)] = dirpage
    BY <1>1, <1>2, <1>3, <2>1
  <2>3. Owns("table", p, dirindex(a), f)'
    BY <1>1, <1>2, <1>7, <2>2 DEF Owns
  <2> QED
    BY <2>3, OwnedUsedNext DEF OwnedUsed
<1> QED
  BY <1>4, <1>5, <1>6, <1>7

(***************************************************************************)
(* The operations of a call, one after the other.                          *)
(***************************************************************************)
(* What a call has done to the pages of its process when nothing is left   *)
(* to do is what Settled says.                                             *)
LEMMA Continue ==
    ASSUME FInv, OthersSettled, todo # <<>>, Advance, NEW p \in Pid, p = proc, live' = live,
           \A q \in Pid : q # p => /\ ptable'[q] = ptable[q] /\ text_end'[q] = text_end[q]
                                   /\ data_end'[q] = data_end[q],
           Building(p)' \/ Emptying(p)' \/ Loading(p)' \/ Dying(p)'
    PROVE  CallOK' /\ OthersSettled'
<1>1. /\ TypeOK /\ OpsValid /\ live \in SUBSET Pid
  BY DEF FInv, TypeOK
<1>2. todo' # <<>> => proc' = p
  BY <1>1, AdvanceEffect
<1>3. CallOK'
  BY <1>2 DEF CallOK
<1>4. ASSUME todo' = <<>> PROVE Settled(p)'
  <2>1. Len(todo') = 0 /\ 1 .. Len(todo') = {}
    BY <1>4
  <2>2. ~Emptying(p)' /\ ~Dying(p)'
    BY <2>1 DEF Emptying, Dying
  <2>3. CASE Loading(p)'
    BY <2>3 DEF Loading
  <2>4. CASE Building(p)'
    <3>1. \A a : ~(Pending(a)')
      BY <2>1 DEF Pending
    <3> QED
      BY <2>4, <3>1 DEF Building, Settled, KernelMapped
  <2> QED
    BY <2>2, <2>3, <2>4
<1>5. OthersSettled'
  <2> SUFFICES ASSUME NEW q \in live, todo' = <<>> \/ q # proc'
               PROVE  Settled(q)'
    BY DEF OthersSettled
  <2>1. CASE q = p
    BY <1>2, <1>4, <2>1
  <2>2. CASE q # p
    <3>1. Settled(q)
      BY <2>2 DEF OthersSettled
    <3>2. q \in Pid
      BY <1>1
    <3> QED
      BY <2>2, <3>1, <3>2 DEF Settled, KernelMapped, Mapped, Seg
  <2> QED
    BY <2>1, <2>2
<1> QED
  BY <1>3, <1>5

(* The pages that are still to come.                                       *)
LEMMA PendingStep ==
    ASSUME FInv, todo # <<>>, Advance,
           \A i, j \in 1 .. Len(todo) : todo[i].at = todo[j].at => i = j
    PROVE  /\ Pending(Op.at)
           /\ \A a : Pending(a)' <=> Pending(a) /\ a # Op.at
           /\ \A i, j \in 1 .. Len(todo') : todo'[i].at = todo'[j].at => i = j
<1>1. /\ Op = todo[1] /\ Len(todo) \in Nat \ {0} /\ Len(todo') = Len(todo) - 1
      /\ \A i \in 1 .. Len(todo') : i + 1 \in 1 .. Len(todo) /\ todo'[i] = todo[i + 1]
  BY AdvanceEffect DEF FInv
<1>2. 1 \in 1 .. Len(todo)
  BY <1>1
<1>3. ASSUME NEW a, Pending(a)' PROVE Pending(a) /\ a # Op.at
  <2>1. PICK i \in 1 .. Len(todo') : todo'[i].at = a
    BY <1>3 DEF Pending
  <2>2. i + 1 \in 1 .. Len(todo) /\ todo[i + 1].at = a /\ i + 1 # 1
    BY <1>1, <2>1
  <2> QED
    BY <1>1, <1>2, <2>2 DEF Pending
<1>4. ASSUME NEW a, Pending(a), a # Op.at PROVE Pending(a)'
  <2>1. PICK i \in 1 .. Len(todo) : todo[i].at = a
    BY <1>4 DEF Pending
  <2>2. i # 1
    BY <1>1, <1>4, <2>1
  <2>3. i - 1 \in 1 .. Len(todo') /\ (i - 1) + 1 = i
    BY <1>1, <2>2
  <2>4. todo'[i - 1].at = a
    BY <1>1, <2>1, <2>3
  <2> QED
    BY <2>3, <2>4 DEF Pending
<1>5. ASSUME NEW i \in 1 .. Len(todo'), NEW j \in 1 .. Len(todo'), todo'[i].at = todo'[j].at
      PROVE  i = j
  <2>1. i + 1 = j + 1
    BY <1>1, <1>5
  <2> QED
    BY <1>1, <2>1
<1> QED
  BY <1>1, <1>2, <1>3, <1>4, <1>5 DEF Pending

LEMMA PendingUnmapStep ==
    ASSUME FInv, todo # <<>>, Advance, NEW a, PendingUnmap(a),
           Op.op # "unmap" \/ Op.at # a
    PROVE  PendingUnmap(a)'
<1>1. /\ Op = todo[1] /\ Len(todo) \in Nat \ {0} /\ Len(todo') = Len(todo) - 1
      /\ \A i \in 1 .. Len(todo') : i + 1 \in 1 .. Len(todo) /\ todo'[i] = todo[i + 1]
  BY AdvanceEffect DEF FInv
<1>2. PICK i \in 1 .. Len(todo) : todo[i].op = "unmap" /\ todo[i].at = a
  BY DEF PendingUnmap
<1>3. i # 1
  BY <1>1, <1>2
<1>4. i - 1 \in 1 .. Len(todo') /\ (i - 1) + 1 = i
  BY <1>1, <1>3
<1>5. todo'[i - 1] = todo[i]
  BY <1>1, <1>4
<1> QED
  BY <1>2, <1>4, <1>5 DEF PendingUnmap

(* An iteration of start_process, fork or brk maps the page it is for.     *)
LEMMA BuildStep ==
    ASSUME FInv, todo # <<>>, Advance, NEW p \in Pid, p = proc, Building(p),
           NEW a \in PageNo, a = Op.at, NEW g \in Nat, a \in Kernel => g = a,
           ptable' = [ptable EXCEPT ![p][a] = g], live' = live,
           UNCHANGED <<text_end, data_end>>
    PROVE  Building(p)'
<1>1. /\ TypeOK /\ OpsValid /\ ptable \in [Pid -> [PageNo -> Entry]]
  BY DEF FInv, TypeOK
<1>2. /\ \A i \in 1 .. Len(todo') : i + 1 \in 1 .. Len(todo) /\ todo'[i] = todo[i + 1]
      /\ todo' # <<>> => source' = source
      /\ todo' \in Seq(PageOp)
  BY <1>1, AdvanceEffect
<1>3. /\ Pending(a)
      /\ \A b : Pending(b)' <=> Pending(b) /\ b # a
      /\ \A i, j \in 1 .. Len(todo') : todo'[i].at = todo'[j].at => i = j
  BY PendingStep DEF Building
<1>4. /\ ptable'[p][a] = g /\ g # NONE
      /\ \A b \in PageNo : b # a => ptable'[p][b] = ptable[p][b]
  BY <1>1 DEF NONE
<1>5. ASSUME NEW i \in 1 .. Len(todo') PROVE BuildingOp(p, todo[i])'
  <2>1. BuildingOp(p, todo[i + 1]) /\ todo'[i] = todo[i + 1]
    BY <1>2 DEF Building
  <2>2. source' = source
    BY <1>2
  <2> QED
    BY <2>1, <2>2 DEF BuildingOp, Seg
<1>6. ASSUME NEW b \in Kernel PROVE Pending(b)' \/ ptable'[p][b] = b
  <2>1. b \in PageNo
    BY Layout DEF Kernel
  <2>2. Pending(b) \/ ptable[p][b] = b
    BY DEF Building
  <2> QED
    BY <1>3, <1>4, <2>1, <2>2
<1>7. ASSUME NEW b \in UserPage
      PROVE  /\ Seg(p, b)' <=> Mapped(p, b)' \/ Pending(b)'
             /\ Pending(b)' => ~Mapped(p, b)'
  <2>1. b \in PageNo
    BY DEF UserPage
  <2>2. Seg(p, b) <=> Mapped(p, b) \/ Pending(b)
    BY DEF Building
  <2>3. Pending(b) => ~Mapped(p, b)
    BY DEF Building
  <2>4. Seg(p, b)' <=> Seg(p, b)
    BY DEF Seg
  <2>5. CASE b = a
    <3>1. Mapped(p, b)' /\ ~(Pending(b)') /\ Seg(p, b)
      BY <1>3, <1>4, <2>2, <2>5 DEF Mapped
    <3> QED
      BY <2>4, <3>1
  <2>6. CASE b # a
    <3>1. (Mapped(p, b)' <=> Mapped(p, b)) /\ (Pending(b)' <=> Pending(b))
      BY <1>3, <1>4, <2>1, <2>6 DEF Mapped
    <3> QED
      BY <2>2, <2>3, <2>4, <3>1
  <2> QED
    BY <2>5, <2>6
<1> QED
  BY <1>3, <1>5, <1>6, <1>7 DEF Building

(* The next operation shows which call is running.                         *)
LEMMA HeadPhase ==
    ASSUME FInv, CallOK, todo # <<>>, NEW p, p = proc
    PROVE  /\ Op.op \in {"identity", "new", "copy"} => Building(p)
           /\ Op.op = "load" => Loading(p)
           /\ Op.op = "resize" => Emptying(p)
           /\ Op.op = "unmap" => Emptying(p) \/ Dying(p)
           /\ Op.op \in {"table", "dir"} => Dying(p)
<1>1. Op = todo[1] /\ Len(todo) \in Nat /\ 1 \in 1 .. Len(todo)
  BY DEF FInv, TypeOK, Op
<1>2. Building(p) => Op.op \in {"identity", "new", "copy"}
  BY <1>1 DEF Building, BuildingOp
<1>3. ASSUME Emptying(p) PROVE Op.op \in {"unmap", "resize"}
  <2>1. PICK r \in 1 .. Len(todo) :
            /\ todo[r].op = "resize"
            /\ \A i \in 1 .. (r - 1) : todo[i].op = "unmap"
    BY <1>3 DEF Emptying
  <2>2. r = 1 \/ 1 \in 1 .. (r - 1)
    BY <1>1
  <2> QED
    BY <1>1, <2>1, <2>2
<1>4. Loading(p) => Op.op = "load"
  BY <1>1 DEF Loading
<1>5. Dying(p) => Op.op \in {"unmap", "table", "dir"}
  BY <1>1 DEF Dying, FInv, DirFreedLast
<1>6. Building(p) \/ Emptying(p) \/ Loading(p) \/ Dying(p)
  BY DEF CallOK
<1> QED
  BY <1>2, <1>3, <1>4, <1>5, <1>6

(* What the lemmas about the operations start from.                        *)
LEMMA OpFacts ==
    ASSUME FInv, PInv, todo # <<>>, Advance
    PROVE  /\ TypeOK /\ PoolOK /\ OwnedOnce /\ OwnedTaken /\ OpsValid
           /\ NoPanic /\ DataEnds /\ CallOK /\ OthersSettled /\ NothingLost /\ Counted
           /\ proc \in live /\ proc \in Pid /\ live \in SUBSET Pid
           /\ OpValid(Op) /\ Op \in PageOp
           /\ NextFrame(1) \in Nat /\ NextFrame(2) \in Nat
<1>1. TypeOK /\ PoolOK /\ OwnedOnce /\ OwnedTaken /\ OpsValid
  BY DEF FInv
<1>2. proc \in live /\ proc \in Pid /\ OpValid(Op) /\ Op \in PageOp /\ live \in SUBSET Pid
  BY <1>1, AdvanceEffect DEF TypeOK
<1>3. NextFrame(1) \in Nat /\ NextFrame(2) \in Nat
  BY <1>1, NextFrameType
<1> QED
  BY <1>1, <1>2, <1>3 DEF PInv

LEMMA IdentityMapP ==
    ASSUME FInv, PInv, identity_map PROVE PInv'
<1>1. /\ todo # <<>> /\ Op.op = "identity" /\ Advance /\ live' = live
      /\ map_page(proc, Op.at, Op.at, NextFrame(1)) /\ alloc_page(TablesNeeded(proc, Op.at))
      /\ UNCHANGED <<text_end, data_end>> /\ panic' = panic
  BY DEF identity_map, Doing, segVars
<1>2. /\ TypeOK /\ PoolOK /\ OwnedTaken /\ NoPanic /\ DataEnds /\ CallOK /\ OthersSettled
      /\ NothingLost /\ Counted /\ NextFrame(1) \in Nat /\ OpValid(Op)
  BY <1>1, OpFacts
<1>3. PICK p \in Pid : p = proc /\ p \in live
  BY <1>1, OpFacts
<1>4. PICK a \in PageNo : a = Op.at /\ a \notin UserPage /\ a \in Nat /\ a \in Kernel
  BY <1>1, <1>2, Layout DEF OpValid, UserPage, Kernel
<1>5. PICK n \in 0 .. 2 : n = TablesNeeded(p, a) /\ n <= 1
  BY DEF TablesNeeded
<1>6. map_page(p, a, a, NextFrame(1)) /\ alloc_page(n)
  BY <1>1, <1>3, <1>4, <1>5
<1>7. Building(p)
  BY <1>1, <1>2, <1>3, HeadPhase
<1>8. ptable' = [ptable EXCEPT ![p][a] = a]
  BY <1>6 DEF map_page
<1>9. Building(p)'
  BY <1>1, <1>3, <1>4, <1>7, <1>8, BuildStep
<1>10. \A q \in Pid : q # p => /\ ptable'[q] = ptable[q] /\ text_end'[q] = text_end[q]
                               /\ data_end'[q] = data_end[q]
  BY <1>1, <1>2, <1>8 DEF TypeOK
<1>11. CallOK' /\ OthersSettled'
  BY <1>1, <1>2, <1>3, <1>9, <1>10, Continue
<1>12. Takes(n)
  <2>1. \A f : f \in InUse' <=> \/ f \in InUse
                                \/ a \in UserPage /\ f = a
                                \/ TablesNeeded(p, a) = 1 /\ f = NextFrame(1)
    BY <1>1, <1>2, <1>3, <1>4, <1>6, MapTakes
  <2>2. \A f : (\E m \in 1 .. n : f = NextFrame(m)) <=> n = 1 /\ f = NextFrame(1)
    BY <1>5
  <2> QED
    BY <1>4, <1>5, <2>1, <2>2 DEF Takes
<1>13. NothingLost' /\ Counted'
  BY <1>2, <1>6, <1>12, TakeExact
<1>14. NoPanic' /\ DataEnds'
  BY <1>1, <1>2 DEF NoPanic, DataEnds
<1> QED
  BY <1>11, <1>13, <1>14 DEF PInv

(* A page that was not mapped before, and perhaps a table for it.          *)
LEMMA NewPageTakes ==
    ASSUME FInv, PInv, todo # <<>>, map_new_page, NEW p \in Pid, p = proc,
           NEW a \in UserPage, a = Op.at, ~Mapped(p, a)
    PROVE  /\ NothingLost' /\ Counted'
           /\ ptable' = [ptable EXCEPT ![p][a] = NextFrame(1)] /\ NextFrame(1) \in Nat
           /\ \A q \in Pid : q # p => ptable'[q] = ptable[q]
<1>1. /\ Advance /\ live' = live /\ map_page(proc, Op.at, NextFrame(1), NextFrame(2))
      /\ alloc_page(1 + TablesNeeded(proc, Op.at))
  BY DEF map_new_page
<1>2. /\ TypeOK /\ PoolOK /\ OwnedTaken /\ NothingLost /\ Counted /\ p \in live
      /\ NextFrame(1) \in Nat /\ NextFrame(2) \in Nat /\ a \in PageNo
  BY <1>1, OpFacts DEF UserPage
<1>3. PICK n \in 0 .. 2 : n = 1 + TablesNeeded(p, a) /\ n >= 1
  BY DEF TablesNeeded
<1>4. map_page(p, a, NextFrame(1), NextFrame(2)) /\ alloc_page(n)
  BY <1>1, <1>3
<1>5. Takes(n)
  <2>1. \A f : f \in InUse' <=> \/ f \in InUse
                                \/ a \in UserPage /\ f = NextFrame(1)
                                \/ TablesNeeded(p, a) = 1 /\ f = NextFrame(2)
    BY <1>1, <1>2, <1>4, MapTakes
  <2>2. \A f : (\E m \in 1 .. n : f = NextFrame(m)) <=>
                   f = NextFrame(1) \/ (n = 2 /\ f = NextFrame(2))
    BY <1>3
  <2>3. TablesNeeded(p, a) = 1 <=> n = 2
    BY <1>3 DEF TablesNeeded
  <2> QED
    BY <2>1, <2>2, <2>3 DEF Takes
<1>6. NothingLost' /\ Counted'
  BY <1>2, <1>4, <1>5, TakeExact
<1>7. ptable' = [ptable EXCEPT ![p][a] = NextFrame(1)]
  BY <1>4 DEF map_page
<1>8. \A q \in Pid : q # p => ptable'[q] = ptable[q]
  BY <1>2, <1>7 DEF TypeOK
<1> QED
  BY <1>2, <1>6, <1>7, <1>8

(* brk, fork and start_process never map a page twice.                     *)
LEMMA BuildPageP ==
    ASSUME FInv, PInv, todo # <<>>, Op.op \in {"new", "copy"}, map_new_page,
           UNCHANGED <<text_end, data_end>>, NoPanic'
    PROVE  PInv'
<1>1. Advance /\ live' = live
  BY DEF map_new_page
<1>2. /\ TypeOK /\ DataEnds /\ CallOK /\ OthersSettled /\ OpValid(Op)
  BY <1>1, OpFacts
<1>3. PICK p \in Pid : p = proc /\ p \in live
  BY <1>1, OpFacts
<1>4. Building(p)
  BY <1>2, <1>3, HeadPhase
<1>5. PICK a \in UserPage : a = Op.at /\ a \in PageNo /\ a \notin Kernel
  <2>1. Op = todo[1] /\ 1 \in 1 .. Len(todo)
    BY <1>2 DEF TypeOK, Op
  <2>2. Op.at \notin Kernel
    BY <1>4, <2>1 DEF Building, BuildingOp
  <2> QED
    BY <1>2, <2>2 DEF OpValid, UserPage
<1>6. ~Mapped(p, a)
  <2>1. Pending(a)
    BY <1>1, <1>4, <1>5, PendingStep DEF Building
  <2> QED
    BY <1>4, <2>1 DEF Building
<1>7. /\ NothingLost' /\ Counted'
      /\ ptable' = [ptable EXCEPT ![p][a] = NextFrame(1)] /\ NextFrame(1) \in Nat
      /\ \A q \in Pid : q # p => ptable'[q] = ptable[q]
  BY <1>3, <1>5, <1>6, NewPageTakes
<1>8. PICK g \in Nat : g = NextFrame(1)
  BY <1>7
<1>9. Building(p)'
  BY <1>1, <1>3, <1>4, <1>5, <1>7, <1>8, BuildStep
<1>10. CallOK' /\ OthersSettled'
  BY <1>1, <1>2, <1>3, <1>7, <1>9, Continue
<1>11. DataEnds'
  BY <1>2 DEF DataEnds
<1> QED
  BY <1>7, <1>10, <1>11 DEF PInv

LEMMA MapNewPagesP ==
    ASSUME FInv, PInv, map_new_pages PROVE PInv'
<1>1. /\ todo # <<>> /\ Op.op = "new" /\ map_new_page /\ UNCHANGED <<text_end, data_end>>
      /\ panic' = panic
  BY DEF map_new_pages, Doing, segVars
<1>2. NoPanic'
  BY <1>1 DEF PInv, NoPanic
<1> QED
  BY <1>1, <1>2, BuildPageP

(* The process that forks has every page that is copied.                   *)
LEMMA MapAndCopyP ==
    ASSUME FInv, PInv, map_and_copy PROVE PInv'
<1>1. /\ todo # <<>> /\ Op.op = "copy" /\ map_new_page /\ UNCHANGED <<text_end, data_end>>
      /\ panic' = IF lookup_page(source, Op.at) THEN panic ELSE "map_and_copy"
      /\ Advance
  BY DEF map_and_copy, map_new_page, Doing, segVars
<1>2. TypeOK /\ CallOK /\ OthersSettled /\ OpValid(Op) /\ NoPanic
  BY <1>1, OpFacts
<1>3. Building(proc)
  BY <1>1, <1>2, HeadPhase
<1>4. /\ source \in live /\ source # proc /\ Seg(source, Op.at) /\ Op.at \in UserPage
  <2>1. Op = todo[1] /\ 1 \in 1 .. Len(todo)
    BY <1>1, <1>2 DEF TypeOK, Op
  <2>2. BuildingOp(proc, Op)
    BY <1>3, <2>1 DEF Building
  <2> QED
    BY <1>1, <1>2, <2>2 DEF BuildingOp, OpValid, UserPage
<1>5. lookup_page(source, Op.at)
  BY <1>2, <1>4 DEF OthersSettled, Settled, Mapped, lookup_page
<1>6. NoPanic'
  BY <1>1, <1>2, <1>5 DEF NoPanic
<1> QED
  BY <1>1, <1>6, BuildPageP

(* execve maps the page behind the text it has loaded.                     *)
LEMMA LoadTextP ==
    ASSUME FInv, PInv, load_text PROVE PInv'
<1>1. /\ todo # <<>> /\ Op.op = "load" /\ map_new_page /\ data_end' = data_end
      /\ text_end' = [text_end EXCEPT ![proc] = Op.at + 1] /\ panic' = panic
      /\ Advance /\ live' = live
  BY DEF load_text, map_new_page, Doing
<1>2. TypeOK /\ OpsValid /\ DataEnds /\ CallOK /\ OthersSettled /\ OpValid(Op) /\ NoPanic
  BY <1>1, OpFacts
<1>3. PICK p \in Pid : p = proc /\ p \in live
  BY <1>1, OpFacts
<1>4. Loading(p)
  BY <1>1, <1>2, <1>3, HeadPhase
<1>5. /\ Op = todo[1] /\ Len(todo) \in Nat \ {0} /\ Len(todo') = Len(todo) - 1
      /\ \A i \in 1 .. Len(todo') : i + 1 \in 1 .. Len(todo) /\ todo'[i] = todo[i + 1]
  BY <1>1, <1>2, AdvanceEffect
<1>6. /\ text_end \in [Pid -> TEXT_BASE .. DATA_BASE] /\ ptable \in [Pid -> [PageNo -> Entry]]
      /\ data_end[p] \in DATA_BASE .. STACK_START
  BY <1>2 DEF TypeOK, DataEnds
<1>7. PICK a \in UserPage : /\ a = Op.at /\ a = text_end[p] /\ a \in TEXT_BASE .. (DATA_BASE - 1)
                            /\ a \in PageNo /\ a \in Nat /\ a \notin Kernel
  <2>1. Op.at = text_end[p] + 1 - 1
    BY <1>4, <1>5 DEF Loading
  <2>2. Op.at \in TEXT_BASE .. (DATA_BASE - 1)
    BY <1>1, <1>2 DEF OpValid
  <2>3. Op.at \in PageNo /\ Op.at \notin Kernel
    BY <2>2, Layout DEF Kernel
  <2> QED
    BY <1>6, <2>1, <2>2, <2>3, Layout DEF UserPage
<1>8. ~Mapped(p, a)
  <2>1. ~Seg(p, a)
    BY <1>6, <1>7, Layout DEF Seg, Stack
  <2> QED
    BY <1>4, <2>1 DEF Loading, Settled
<1>9. /\ NothingLost' /\ Counted'
      /\ ptable' = [ptable EXCEPT ![p][a] = NextFrame(1)] /\ NextFrame(1) \in Nat
      /\ \A q \in Pid : q # p => ptable'[q] = ptable[q]
  BY <1>1, <1>3, <1>7, <1>8, NewPageTakes
<1>10. /\ ptable'[p][a] # NONE /\ \A b \in PageNo : b # a => ptable'[p][b] = ptable[p][b]
       /\ text_end'[p] = a + 1 /\ \A q \in Pid : q # p => text_end'[q] = text_end[q]
  BY <1>1, <1>3, <1>6, <1>7, <1>9 DEF NONE
<1>11. Loading(p)'
  <2>1. KernelMapped(p)'
    <3>1. \A b \in Kernel : b \in PageNo /\ b # a
      BY <1>7, Layout DEF Kernel
    <3> QED
      BY <1>4, <1>10, <3>1 DEF Loading, Settled, KernelMapped
  <2>2. ASSUME NEW b \in UserPage PROVE Mapped(p, b)' <=> Seg(p, b)'
    <3>1. b \in PageNo /\ b \in Nat /\ (Mapped(p, b) <=> Seg(p, b))
      BY <1>4, Layout DEF Loading, Settled, UserPage
    <3>2. Seg(p, b)' <=> Seg(p, b) \/ b = a
      BY <1>1, <1>7, <1>10, <3>1, Layout DEF Seg
    <3>3. Mapped(p, b)' <=> Mapped(p, b) \/ b = a
      BY <1>10, <3>1 DEF Mapped
    <3> QED
      BY <3>1, <3>2, <3>3
  <2>3. ASSUME NEW i \in 1 .. Len(todo')
        PROVE  todo'[i].op = "load" /\ todo'[i].at = text_end'[p] + i - 1
    <3>1. todo[i + 1].op = "load" /\ todo[i + 1].at = text_end[p] + (i + 1) - 1
      BY <1>4, <1>5 DEF Loading
    <3>2. text_end[p] + (i + 1) - 1 = text_end'[p] + i - 1
      BY <1>7, <1>10
    <3> QED
      BY <1>5, <3>1, <3>2
  <2> QED
    BY <2>1, <2>2, <2>3 DEF Loading, Settled
<1>12. CallOK' /\ OthersSettled'
  BY <1>1, <1>2, <1>3, <1>9, <1>10, <1>11, Continue
<1>13. NoPanic' /\ DataEnds'
  BY <1>1, <1>2 DEF NoPanic, DataEnds
<1> QED
  BY <1>9, <1>12, <1>13 DEF PInv

(* When execve sets the ends of the segments back, they are empty.         *)
LEMMA ResizeSegmentsP ==
    ASSUME FInv, PInv, resize_segments PROVE PInv'
<1>1. /\ todo # <<>> /\ Op.op = "resize" /\ Advance
      /\ text_end' = [text_end EXCEPT ![proc] = TEXT_BASE]
      /\ data_end' = [data_end EXCEPT ![proc] = DATA_BASE]
      /\ UNCHANGED <<page_end, page_free>> /\ UNCHANGED npages
      /\ UNCHANGED <<live, pdir, dir, ptable>> /\ panic' = panic
  BY DEF resize_segments, Doing, allocVars, mapVars
<1>2. /\ TypeOK /\ OpsValid /\ DataEnds /\ CallOK /\ OthersSettled /\ NoPanic
      /\ NothingLost /\ Counted
  BY <1>1, OpFacts
<1>3. PICK p \in Pid : p = proc /\ p \in live
  BY <1>1, OpFacts
<1>4. Emptying(p)
  BY <1>1, <1>2, <1>3, HeadPhase
<1>5. /\ Op = todo[1] /\ Len(todo) \in Nat \ {0} /\ Len(todo') = Len(todo) - 1
      /\ \A i \in 1 .. Len(todo') : i + 1 \in 1 .. Len(todo) /\ todo'[i] = todo[i + 1]
  BY <1>1, <1>2, AdvanceEffect
<1>6. /\ text_end'[p] = TEXT_BASE /\ data_end'[p] = DATA_BASE
      /\ \A q \in Pid : q # p => text_end'[q] = text_end[q] /\ data_end'[q] = data_end[q]
  BY <1>1, <1>2, <1>3 DEF TypeOK
<1>7. \A i \in 2 .. Len(todo) : todo[i].op = "load" /\ todo[i].at = TEXT_BASE + (i - 1) - 1
  <2>1. PICK r \in 1 .. Len(todo) :
            /\ todo[r].op = "resize"
            /\ \A i \in 1 .. (r - 1) : todo[i].op = "unmap"
            /\ \A i \in (r + 1) .. Len(todo) :
                  todo[i].op = "load" /\ todo[i].at = TEXT_BASE + (i - r) - 1
    BY <1>4 DEF Emptying
  <2>2. r = 1
    <3>1. r # 1 => 1 \in 1 .. (r - 1)
      BY <1>5
    <3> QED
      BY <1>1, <1>5, <2>1, <3>1
  <2> QED
    BY <2>1, <2>2
<1>8. \A a : ~PendingUnmap(a)
  <2>1. \A i \in 1 .. Len(todo) : todo[i].op # "unmap"
    <3> SUFFICES ASSUME NEW i \in 1 .. Len(todo) PROVE todo[i].op # "unmap"
      OBVIOUS
    <3>1. i = 1 \/ i \in 2 .. Len(todo)
      BY <1>5
    <3> QED
      BY <1>1, <1>5, <1>7, <3>1
  <2> QED
    BY <2>1 DEF PendingUnmap
<1>9. Loading(p)'
  <2>1. KernelMapped(p)'
    BY <1>1, <1>4 DEF Emptying, KernelMapped
  <2>2. ASSUME NEW b \in UserPage PROVE Mapped(p, b)' <=> Seg(p, b)'
    <3>1. Mapped(p, b) <=> b \in Stack
      BY <1>4, <1>8 DEF Emptying
    <3>2. Mapped(p, b)' <=> Mapped(p, b)
      BY <1>1 DEF Mapped
    <3>3. Seg(p, b)' <=> b \in Stack
      BY <1>6, Layout DEF Seg
    <3> QED
      BY <3>1, <3>2, <3>3
  <2>3. ASSUME NEW i \in 1 .. Len(todo')
        PROVE  todo'[i].op = "load" /\ todo'[i].at = text_end'[p] + i - 1
    <3>1. i + 1 \in 2 .. Len(todo) /\ todo'[i] = todo[i + 1]
      BY <1>5
    <3>2. TEXT_BASE + (i + 1 - 1) - 1 = text_end'[p] + i - 1
      BY <1>6, Layout
    <3> QED
      BY <1>7, <3>1, <3>2
  <2> QED
    BY <2>1, <2>2, <2>3 DEF Loading, Settled
<1>10. \A q \in Pid : q # p => /\ ptable'[q] = ptable[q] /\ text_end'[q] = text_end[q]
                               /\ data_end'[q] = data_end[q]
  BY <1>1, <1>6
<1>11. CallOK' /\ OthersSettled'
  BY <1>1, <1>2, <1>3, <1>9, <1>10, Continue
<1>12. NothingLost' /\ Counted'
  BY <1>1, <1>2, KeepExact
<1>13. NoPanic' /\ DataEnds'
  <2>1. DATA_BASE \in DATA_BASE .. STACK_START
    BY Layout
  <2> QED
    BY <1>1, <1>2, <1>3, <2>1 DEF NoPanic, DataEnds
<1> QED
  BY <1>11, <1>12, <1>13 DEF PInv

LEMMA DyingStep ==
    ASSUME FInv, todo # <<>>, Advance, NEW p, Dying(p), Op.op # "dir",
           \A b \in UserPage : Mapped(p, b)' => Mapped(p, b) /\ (Op.op # "unmap" \/ Op.at # b)
    PROVE  Dying(p)'
<1>1. /\ Op = todo[1] /\ Len(todo) \in Nat \ {0} /\ Len(todo') = Len(todo) - 1
      /\ \A i \in 1 .. Len(todo') : i + 1 \in 1 .. Len(todo) /\ todo'[i] = todo[i + 1]
  BY AdvanceEffect DEF FInv
<1>2. ASSUME NEW b \in UserPage, Mapped(p, b)' PROVE PendingUnmap(b)'
  <2>1. PendingUnmap(b) /\ (Op.op # "unmap" \/ Op.at # b)
    BY <1>2 DEF Dying
  <2> QED
    BY <2>1, PendingUnmapStep
<1>3. ASSUME NEW i \in 1 .. Len(todo'), NEW j \in 1 .. Len(todo'), i < j, todo'[j].op = "unmap"
      PROVE  todo'[i].op = "unmap"
  <2>1. /\ i + 1 \in 1 .. Len(todo) /\ todo'[i] = todo[i + 1] /\ i + 1 < j + 1
        /\ j + 1 \in 1 .. Len(todo) /\ todo'[j] = todo[j + 1]
    BY <1>1, <1>3
  <2> QED
    BY <1>3, <2>1 DEF Dying
<1>4. \E i \in 1 .. Len(todo') : todo'[i].op = "dir"
  <2>1. PICK i \in 1 .. Len(todo) : todo[i].op = "dir"
    BY DEF Dying
  <2>2. i # 1
    BY <1>1, <2>1
  <2>3. i - 1 \in 1 .. Len(todo') /\ (i - 1) + 1 = i
    BY <1>1, <2>2
  <2>4. todo'[i - 1] = todo[i]
    BY <1>1, <2>3
  <2> QED
    BY <2>1, <2>3, <2>4
<1> QED
  BY <1>2, <1>3, <1>4 DEF Dying

LEMMA EmptyingStep ==
    ASSUME FInv, todo # <<>>, Advance, NEW p, Emptying(p), Op.op = "unmap",
           NEW a \in UserPage, a = Op.at, ~Mapped(p, a)',
           \A b \in PageNo : b # a => ptable'[p][b] = ptable[p][b]
    PROVE  Emptying(p)'
<1>1. /\ Op = todo[1] /\ Len(todo) \in Nat \ {0} /\ Len(todo') = Len(todo) - 1
      /\ \A i \in 1 .. Len(todo') : i + 1 \in 1 .. Len(todo) /\ todo'[i] = todo[i + 1]
  BY AdvanceEffect DEF FInv
<1>2. PICK r \in 1 .. Len(todo) :
          /\ todo[r].op = "resize"
          /\ \A i \in 1 .. (r - 1) : todo[i].op = "unmap" /\ todo[i].at < STACK_START
          /\ \A i \in (r + 1) .. Len(todo) :
                todo[i].op = "load" /\ todo[i].at = TEXT_BASE + (i - r) - 1
  BY DEF Emptying
<1>3. r # 1 /\ 1 \in 1 .. (r - 1)
  <2>1. r # 1
    BY <1>1, <1>2
  <2> QED
    BY <2>1
<1>4. a < STACK_START /\ a \notin Stack
  <2>1. a < STACK_START
    BY <1>1, <1>2, <1>3
  <2>2. a \in Nat /\ STACK_START \in Nat
    BY Layout DEF UserPage
  <2> QED
    BY <2>1, <2>2 DEF Stack
<1>5. KernelMapped(p)'
  <2>1. \A b \in Kernel : b \in PageNo /\ b # a
    BY Layout DEF Kernel, UserPage
  <2> QED
    BY <2>1 DEF KernelMapped, Emptying
<1>6. ASSUME NEW b \in UserPage
      PROVE  IF b \in Stack THEN Mapped(p, b)' ELSE Mapped(p, b)' => PendingUnmap(b)'
  <2>1. b \in PageNo
    BY DEF UserPage
  <2>2. CASE b = a
    BY <1>4, <2>2
  <2>3. CASE b # a
    <3>1. Mapped(p, b)' <=> Mapped(p, b)
      BY <2>1, <2>3 DEF Mapped
    <3>2. PendingUnmap(b) => PendingUnmap(b)'
      BY <2>3, PendingUnmapStep
    <3>3. IF b \in Stack THEN Mapped(p, b) ELSE Mapped(p, b) => PendingUnmap(b)
      BY DEF Emptying
    <3> QED
      BY <3>1, <3>2, <3>3
  <2> QED
    BY <2>2, <2>3
<1>7. PICK s \in 1 .. Len(todo') : s = r - 1
  BY <1>1, <1>3
<1>8. todo'[s].op = "resize"
  <2>1. todo'[s] = todo[s + 1] /\ s + 1 = r
    BY <1>1, <1>7
  <2> QED
    BY <1>2, <2>1
<1>9. ASSUME NEW i \in 1 .. (s - 1) PROVE todo'[i].op = "unmap" /\ todo'[i].at < STACK_START
  <2>1. i \in 1 .. Len(todo') /\ i + 1 \in 1 .. (r - 1)
    BY <1>1, <1>7
  <2> QED
    BY <1>1, <1>2, <2>1
<1>10. ASSUME NEW i \in (s + 1) .. Len(todo')
       PROVE  todo'[i].op = "load" /\ todo'[i].at = TEXT_BASE + (i - s) - 1
  <2>1. i \in 1 .. Len(todo') /\ i + 1 \in (r + 1) .. Len(todo) /\ (i + 1) - r = i - s
    BY <1>1, <1>7
  <2> QED
    BY <1>1, <1>2, <2>1
<1> QED
  BY <1>5, <1>6, <1>8, <1>9, <1>10 DEF Emptying

(* Who has a frame after its owner gave it back.                           *)
LEMMA LosesGives ==
    ASSUME OwnedOnce, NEW k0, NEW p0, NEW i0, NEW g, Owns(k0, p0, i0, g), Loses(k0, p0, i0),
           \A k, p, i, f : Owns(k, p, i, f) /\ f # g => Owns(k, p, i, f)'
    PROVE  Gives(g) /\ g \in InUse
<1>1. g \in InUse
  BY OwnedUsedNow DEF OwnedUsed
<1>2. ASSUME NEW f, f \in InUse' PROVE f \in InUse /\ f # g
  <2>1. PICK k, p, i : Owns(k, p, i, f)'
    BY <1>2, OwnedUsedNext DEF OwnedUsed
  <2>2. Owns(k, p, i, f) /\ ~(k = k0 /\ p = p0 /\ i = i0)
    BY <2>1 DEF Loses
  <2> QED
    BY <2>2, OwnedUsedNow DEF OwnedUsed, OwnedOnce
<1>3. ASSUME NEW f, f \in InUse, f # g PROVE f \in InUse'
  <2>1. PICK k, p, i : Owns(k, p, i, f)
    BY <1>3, OwnedUsedNow DEF OwnedUsed
  <2>2. Owns(k, p, i, f)'
    BY <1>3, <2>1
  <2> QED
    BY <2>2, OwnedUsedNext DEF OwnedUsed
<1> QED
  BY <1>1, <1>2, <1>3 DEF Gives

(* unmap_and_free_page gives back the frame of a page that has one.        *)
LEMMA UnmapP ==
    ASSUME FInv, PInv, unmap_and_free_page PROVE PInv'
<1>1. /\ todo # <<>> /\ Op.op = "unmap" /\ Advance
      /\ UNCHANGED <<live, pdir, dir>> /\ UNCHANGED <<text_end, data_end>>
  BY DEF unmap_and_free_page, Doing, segVars
<1>2. /\ TypeOK /\ PoolOK /\ OwnedOnce /\ OwnedTaken /\ DataEnds /\ CallOK /\ OthersSettled
      /\ NoPanic /\ NothingLost /\ Counted /\ OpValid(Op) /\ npages \in Int
  BY <1>1, OpFacts DEF TypeOK
<1>3. PICK p \in Pid : p = proc /\ p \in live
  BY <1>1, OpFacts
<1>4. PICK a \in UserPage : a = Op.at /\ a \in PageNo
  BY <1>1, <1>2 DEF OpValid, UserPage
<1>5. ptable \in [Pid -> [PageNo -> Entry]] /\ live \in SUBSET Pid
  BY <1>2 DEF TypeOK
<1>6. ASSUME ptable[p][a] # NONE
      PROVE  /\ NothingLost' /\ Counted' /\ NoPanic'
             /\ ptable' = [ptable EXCEPT ![p][a] = NONE]
  <2>1. /\ free_page(ptable[p][a]) /\ ptable' = [ptable EXCEPT ![p][a] = NONE]
        /\ panic' = IF npages > 0 THEN panic ELSE "free_page"
    BY <1>3, <1>4, <1>6 DEF unmap_and_free_page, lookup_page, FreeAsserts
  <2>2. Owns("page", p, a, ptable[p][a]) /\ Loses("page", p, a)
    BY <1>1, <1>2, <1>3, <1>6, <2>1, UnmapLoses
  <2>3. PICK g : g = ptable[p][a]
    OBVIOUS
  <2>4. \A q \in Pid, b \in PageNo : ~(q = p /\ b = a) => ptable'[q][b] = ptable[q][b]
    BY <1>4, <1>5, <2>1
  <2>5. ASSUME NEW k, NEW q, NEW i, NEW f, Owns(k, q, i, f), f # g
        PROVE  Owns(k, q, i, f)'
    <3>1. q \in live /\ q \in Pid /\ f # NONE
      BY <1>5, <2>5 DEF Owns
    <3>2. CASE k # "page"
      BY <1>1, <2>5, <3>2 DEF Owns
    <3>3. CASE k = "page"
      <4>1. i \in UserPage /\ i \in PageNo /\ ptable[q][i] = f
        BY <2>5, <3>3 DEF Owns, UserPage
      <4>2. ptable'[q][i] = f
        BY <2>3, <2>4, <2>5, <3>1, <4>1
      <4> QED
        BY <1>1, <3>1, <3>3, <4>1, <4>2 DEF Owns
    <3> QED
      BY <3>2, <3>3
  <2>6. Gives(g) /\ g \in InUse
    BY <1>2, <2>2, <2>3, <2>5, LosesGives
  <2>7. NothingLost' /\ Counted' /\ npages > 0
    BY <1>2, <2>1, <2>3, <2>6, GiveExact
  <2> QED
    BY <1>2, <2>1, <2>7 DEF NoPanic
<1>7. ASSUME ptable[p][a] = NONE
      PROVE  NothingLost' /\ Counted' /\ NoPanic' /\ ptable' = ptable
  <2>1. /\ UNCHANGED <<page_end, page_free>> /\ UNCHANGED npages /\ UNCHANGED ptable
        /\ panic' = panic
    BY <1>3, <1>4, <1>7 DEF unmap_and_free_page, lookup_page, allocVars
  <2> QED
    BY <1>1, <1>2, <2>1, KeepExact DEF NoPanic
<1>8. NothingLost' /\ Counted' /\ NoPanic'
  BY <1>6, <1>7
<1>9. /\ \A q \in Pid : q # p => ptable'[q] = ptable[q]
      /\ \A b \in PageNo : b # a => ptable'[p][b] = ptable[p][b]
      /\ ptable'[p][a] = NONE
  BY <1>4, <1>5, <1>6, <1>7
<1>10. Emptying(p)' \/ Dying(p)'
  <2>1. CASE Emptying(p)
    <3>1. ~Mapped(p, a)'
      BY <1>9 DEF Mapped
    <3> QED
      BY <1>1, <1>3, <1>4, <1>9, <2>1, <3>1, EmptyingStep
  <2>2. CASE Dying(p)
    <3>1. \A b \in UserPage : Mapped(p, b)' => Mapped(p, b) /\ b # a
      BY <1>9 DEF Mapped, UserPage
    <3> QED
      BY <1>1, <1>4, <2>2, <3>1, DyingStep
  <2> QED
    BY <1>1, <1>2, <1>3, <2>1, <2>2, HeadPhase
<1>11. CallOK' /\ OthersSettled'
  BY <1>1, <1>2, <1>3, <1>9, <1>10, Continue
<1>12. DataEnds'
  BY <1>1, <1>2 DEF DataEnds
<1> QED
  BY <1>8, <1>11, <1>12 DEF PInv

(* No page is mapped any more when free_page_dir frees the tables.         *)
LEMMA FreeTableP ==
    ASSUME FInv, PInv, free_table PROVE PInv'
<1>1. /\ todo # <<>> /\ Op.op = "table" /\ Advance
      /\ UNCHANGED <<live, pdir>> /\ UNCHANGED <<text_end, data_end>>
  BY DEF free_table, Doing, segVars
<1>2. /\ TypeOK /\ PoolOK /\ OwnedOnce /\ OwnedTaken /\ OpsValid /\ DataEnds /\ CallOK
      /\ OthersSettled /\ NoPanic /\ NothingLost /\ Counted /\ OpValid(Op)
  BY <1>1, OpFacts
<1>3. PICK p \in Pid : p = proc /\ p \in live
  BY <1>1, OpFacts
<1>4. PICK d \in Dirindex : d = Op.at
  BY <1>1, <1>2 DEF OpValid
<1>5. /\ dir \in [Pid -> [Dirindex -> Entry]] /\ ptable \in [Pid -> [PageNo -> Entry]]
      /\ live \in SUBSET Pid
  BY <1>2 DEF TypeOK
<1>6. Dying(p)
  BY <1>1, <1>2, <1>3, HeadPhase
<1>7. \A b \in UserPage : ~Mapped(p, b)
  <2>1. Op = todo[1] /\ 1 \in 1 .. Len(todo) /\ Len(todo) \in Nat
    BY <1>1, <1>2, AdvanceEffect
  <2>2. ASSUME NEW j \in 1 .. Len(todo) PROVE todo[j].op # "unmap"
    <3>1. j = 1 \/ 1 < j
      BY <2>1
    <3> QED
      BY <1>1, <1>6, <2>1, <3>1 DEF Dying
  <2> QED
    BY <1>6, <2>2 DEF Dying, PendingUnmap
<1>8. ASSUME dir[p][d] # NONE
      PROVE  /\ NothingLost' /\ Counted' /\ NoPanic'
             /\ \A q \in Pid : q # p => ptable'[q] = ptable[q]
             /\ \A b \in PageNo : ptable'[p][b] = ptable[p][b] \/ ptable'[p][b] = NONE
  <2>1. /\ free_page(dir[p][d])
        /\ dir' = [dir EXCEPT ![p][d] = NONE]
        /\ ptable' = [ptable EXCEPT ![p] = [page \in PageNo |->
               IF dirindex(page) = d THEN NONE ELSE ptable[p][page]]]
        /\ panic' = IF npages > 0 THEN panic ELSE "free_page"
    BY <1>3, <1>4, <1>8 DEF free_table, FreeAsserts
  <2>2. /\ Owns("table", p, d, dir[p][d]) /\ Loses("table", p, d)
        /\ \A q \in Pid, e \in Dirindex : ~(q = p /\ e = d) => dir'[q][e] = dir[q][e]
        /\ \A q \in Pid, b \in PageNo : ~(q = p /\ dirindex(b) = d) => ptable'[q][b] = ptable[q][b]
        /\ \A b \in PageNo : dirindex(b) = d => ptable'[p][b] = NONE
    BY <1>1, <1>2, <1>3, <1>8, <2>1, TableLoses
  <2>3. PICK g : g = dir[p][d]
    OBVIOUS
  <2>4. ASSUME NEW k, NEW q, NEW i, NEW f, Owns(k, q, i, f), f # g
        PROVE  Owns(k, q, i, f)'
    <3>1. q \in live /\ q \in Pid /\ f # NONE
      BY <1>5, <2>4 DEF Owns
    <3>2. CASE k = "dir"
      BY <1>1, <2>4, <3>2 DEF Owns
    <3>3. CASE k = "table"
      <4>1. i \in Dirindex /\ dir[q][i] = f
        BY <2>4, <3>3 DEF Owns
      <4>2. dir'[q][i] = f
        BY <2>2, <2>3, <2>4, <3>1, <4>1
      <4> QED
        BY <1>1, <3>1, <3>3, <4>1, <4>2 DEF Owns
    <3>4. CASE k = "page"
      <4>1. i \in UserPage /\ i \in PageNo /\ ptable[q][i] = f
        BY <2>4, <3>4 DEF Owns, UserPage
      <4>2. q # p
        BY <1>7, <3>1, <4>1 DEF Mapped
      <4>3. ptable'[q][i] = f
        BY <2>2, <3>1, <4>1, <4>2
      <4> QED
        BY <1>1, <3>1, <3>4, <4>1, <4>3 DEF Owns
    <3> QED
      BY <2>4, <3>2, <3>3, <3>4 DEF Owns
  <2>5. Gives(g) /\ g \in InUse
    BY <1>2, <2>2, <2>3, <2>4, LosesGives
  <2>6. NothingLost' /\ Counted' /\ npages > 0
    BY <1>2, <2>1, <2>3, <2>5, GiveExact
  <2>7. \A q \in Pid : q # p => ptable'[q] = ptable[q]
    BY <1>5, <2>1
  <2>8. \A b \in PageNo : ptable'[p][b] = ptable[p][b] \/ ptable'[p][b] = NONE
    BY <2>2
  <2> QED
    BY <1>2, <2>1, <2>6, <2>7, <2>8 DEF NoPanic
<1>9. ASSUME dir[p][d] = NONE
      PROVE  /\ NothingLost' /\ Counted' /\ NoPanic' /\ ptable' = ptable
  <2>1. /\ UNCHANGED <<page_end, page_free>> /\ UNCHANGED npages
        /\ UNCHANGED <<dir, ptable>> /\ panic' = panic
    BY <1>3, <1>4, <1>9 DEF free_table, allocVars
  <2> QED
    BY <1>1, <1>2, <2>1, KeepExact DEF NoPanic
<1>10. /\ NothingLost' /\ Counted' /\ NoPanic'
       /\ \A q \in Pid : q # p => ptable'[q] = ptable[q]
       /\ \A b \in PageNo : ptable'[p][b] = ptable[p][b] \/ ptable'[p][b] = NONE
  BY <1>8, <1>9
<1>11. Dying(p)'
  <2>1. \A b \in UserPage : Mapped(p, b)' => Mapped(p, b)
    BY <1>10 DEF Mapped, UserPage
  <2> QED
    BY <1>1, <1>6, <2>1, DyingStep
<1>12. CallOK' /\ OthersSettled'
  BY <1>1, <1>2, <1>3, <1>10, <1>11, Continue
<1>13. DataEnds'
  BY <1>1, <1>2 DEF DataEnds
<1> QED
  BY <1>10, <1>12, <1>13 DEF PInv

(* A process dies without a page or a table.                               *)
LEMMA FreeDirP ==
    ASSUME FInv, PInv, free_dir PROVE PInv'
<1>1. /\ todo # <<>> /\ Op.op = "dir" /\ Advance /\ free_page(pdir[proc])
      /\ live' = live \ {proc} /\ pdir' = [pdir EXCEPT ![proc] = NONE]
      /\ text_end' = [text_end EXCEPT ![proc] = TEXT_BASE]
      /\ data_end' = [data_end EXCEPT ![proc] = DATA_BASE]
      /\ panic' = IF npages > 0 THEN panic ELSE "free_page"
      /\ UNCHANGED <<dir, ptable>>
  BY DEF free_dir, Doing, FreeAsserts
<1>2. /\ TypeOK /\ PoolOK /\ OwnedOnce /\ OwnedTaken /\ OpsValid /\ DataEnds
      /\ OthersSettled /\ NoPanic /\ NothingLost /\ Counted /\ TablesPresent
      /\ text_end \in [Pid -> TEXT_BASE .. DATA_BASE] /\ data_end \in [Pid -> PageNo]
      /\ pdir \in [Pid -> Entry] /\ live \in SUBSET Pid
  BY <1>1, OpFacts DEF FInv, TypeOK
<1>3. PICK p \in Pid : p = proc /\ p \in live /\ pdir[p] # NONE
  BY <1>1, OpFacts DEF FInv, DirsValid
<1>4. Len(todo) = 1 /\ \A d \in Dirindex : dir[p][d] = NONE
  BY <1>1, <1>3, LastTableFreed
<1>5. todo' = <<>>
  BY <1>1, <1>2, <1>4, AdvanceEffect
<1>6. \A b \in PageNo : ptable[p][b] = NONE
  BY <1>2, <1>4, DirindexType DEF TablesPresent
<1>7. PICK g : g = pdir[p]
  OBVIOUS
<1>8. Owns("dir", p, 0, g) /\ Loses("dir", p, 0)
  BY <1>1, <1>2, <1>3, <1>7, DirLoses
<1>9. ASSUME NEW k, NEW q, NEW i, NEW f, Owns(k, q, i, f), f # g
      PROVE  Owns(k, q, i, f)'
  <2>1. q \in live /\ q \in Pid /\ f # NONE
    BY <1>2, <1>9 DEF Owns
  <2>2. q # p
    BY <1>4, <1>6, <1>7, <1>9, <2>1 DEF Owns, UserPage
  <2>3. q \in live' /\ pdir'[q] = pdir[q]
    BY <1>1, <1>2, <1>3, <2>1, <2>2
  <2> QED
    BY <1>1, <1>9, <2>3 DEF Owns
<1>10. Gives(g) /\ g \in InUse
  BY <1>2, <1>8, <1>9, LosesGives
<1>11. NothingLost' /\ Counted' /\ npages > 0
  BY <1>1, <1>2, <1>3, <1>7, <1>10, GiveExact
<1>12. NoPanic'
  BY <1>1, <1>2, <1>11 DEF NoPanic
<1>13. DataEnds'
  <2>1. DATA_BASE \in DATA_BASE .. STACK_START
    BY Layout
  <2> QED
    BY <1>1, <1>2, <1>3, <2>1 DEF DataEnds
<1>14. CallOK'
  BY <1>5 DEF CallOK
<1>15. OthersSettled'
  <2> SUFFICES ASSUME NEW q \in live, q # p PROVE Settled(q)'
    BY <1>1, <1>3 DEF OthersSettled
  <2>1. Settled(q) /\ q \in Pid
    BY <1>2, <1>3 DEF OthersSettled
  <2>2. text_end'[q] = text_end[q] /\ data_end'[q] = data_end[q] /\ ptable'[q] = ptable[q]
    BY <1>1, <1>2, <1>3, <2>1
  <2> QED
    BY <2>1, <2>2 DEF Settled, KernelMapped, Mapped, Seg
<1> QED
  BY <1>11, <1>12, <1>13, <1>14, <1>15 DEF PInv

(***************************************************************************)
(* The plans of the calls.                                                 *)
(***************************************************************************)
Has(s, kind, x) == \E i \in 1 .. Len(s) : s[i].op = kind /\ s[i].at = x

Increasing(s) == \A i, j \in 1 .. Len(s) : i < j => s[i].at < s[j].at

LEMMA LoopHas ==
    ASSUME NEW kind \in OpName, NEW a \in Nat, NEW b \in Nat
    PROVE  /\ Loop(kind, a, b) \in Seq(PageOp) /\ Increasing(Loop(kind, a, b))
           /\ \A k, x : Has(Loop(kind, a, b), k, x) <=> k = kind /\ x \in a .. (b - 1)
<1>1. PICK s \in Seq(PageOp) : s = Loop(kind, a, b)
  BY LoopEffect
<1>2. /\ Len(s) = IF b > a THEN b - a ELSE 0
      /\ \A i \in 1 .. Len(s) : /\ s[i].op = kind
                               /\ s[i].at = a + i - 1 /\ a + i - 1 \in a .. (b - 1)
  <2>1. /\ Len(Loop(kind, a, b)) = IF b > a THEN b - a ELSE 0
        /\ \A i \in 1 .. Len(Loop(kind, a, b)) :
              /\ Loop(kind, a, b)[i].op = kind
              /\ Loop(kind, a, b)[i].at = a + i - 1
              /\ a + i - 1 \in a .. (b - 1)
    BY LoopEffect
  <2> QED
    BY <1>1, <2>1
<1>3. Increasing(s)
  BY <1>2 DEF Increasing
<1>4. ASSUME NEW k, NEW x, Has(s, k, x) PROVE k = kind /\ x \in a .. (b - 1)
  BY <1>2, <1>4 DEF Has
<1>5. ASSUME NEW x \in a .. (b - 1) PROVE Has(s, kind, x)
  <2>1. x - a + 1 \in 1 .. Len(s) /\ a + (x - a + 1) - 1 = x
    BY <1>2
  <2>2. s[x - a + 1].op = kind /\ s[x - a + 1].at = x
    BY <1>2, <2>1
  <2> QED
    BY <2>1, <2>2 DEF Has
<1> QED
  BY <1>1, <1>3, <1>4, <1>5

LEMMA ConcatHas ==
    ASSUME NEW s \in Seq(PageOp), NEW t \in Seq(PageOp)
    PROVE  \A k, x : Has(s \o t, k, x) <=> Has(s, k, x) \/ Has(t, k, x)
<1>1. PICK w : w = s \o t
  OBVIOUS
<1>2. /\ Len(w) = Len(s) + Len(t) /\ Len(s) \in Nat /\ Len(t) \in Nat
      /\ \A i \in 1 .. Len(s) : w[i] = s[i]
      /\ \A i \in 1 .. Len(t) : w[Len(s) + i] = t[i]
      /\ \A i \in 1 .. Len(w) :
            \/ i \in 1 .. Len(s) /\ w[i] = s[i]
            \/ i - Len(s) \in 1 .. Len(t) /\ w[i] = t[i - Len(s)]
  BY <1>1, Concat
<1> SUFFICES ASSUME NEW k, NEW x PROVE Has(w, k, x) <=> Has(s, k, x) \/ Has(t, k, x)
  BY <1>1
<1>3. ASSUME Has(w, k, x) PROVE Has(s, k, x) \/ Has(t, k, x)
  BY <1>2, <1>3 DEF Has
<1>4. ASSUME Has(s, k, x) PROVE Has(w, k, x)
  <2>1. PICK i \in 1 .. Len(s) : s[i].op = k /\ s[i].at = x
    BY <1>4 DEF Has
  <2>2. i \in 1 .. Len(w) /\ w[i] = s[i]
    BY <1>2
  <2> QED
    BY <2>1, <2>2 DEF Has
<1>5. ASSUME Has(t, k, x) PROVE Has(w, k, x)
  <2>1. PICK i \in 1 .. Len(t) : t[i].op = k /\ t[i].at = x
    BY <1>5 DEF Has
  <2>2. Len(s) + i \in 1 .. Len(w) /\ w[Len(s) + i] = t[i]
    BY <1>2
  <2> QED
    BY <2>1, <2>2 DEF Has
<1> QED
  BY <1>3, <1>4, <1>5

LEMMA ConcatIncreasing ==
    ASSUME NEW s \in Seq(PageOp), NEW t \in Seq(PageOp), Increasing(s), Increasing(t),
           \A k, x, l, y : Has(s, k, x) /\ Has(t, l, y) => x < y
    PROVE  Increasing(s \o t)
<1>1. PICK w : w = s \o t
  OBVIOUS
<1>2. /\ Len(w) = Len(s) + Len(t) /\ Len(s) \in Nat /\ Len(t) \in Nat
      /\ \A i \in 1 .. Len(w) :
            \/ i \in 1 .. Len(s) /\ w[i] = s[i]
            \/ i > Len(s) /\ i - Len(s) \in 1 .. Len(t) /\ w[i] = t[i - Len(s)]
  BY <1>1, Concat
<1> SUFFICES ASSUME NEW i \in 1 .. Len(w), NEW j \in 1 .. Len(w), i < j
             PROVE  w[i].at < w[j].at
  BY <1>1 DEF Increasing
<1>3. CASE i \in 1 .. Len(s) /\ j \in 1 .. Len(s)
  BY <1>2, <1>3 DEF Increasing
<1>4. CASE i \in 1 .. Len(s) /\ j \notin 1 .. Len(s)
  <2>1. Has(s, s[i].op, s[i].at) /\ w[i] = s[i]
    BY <1>2, <1>4 DEF Has
  <2>2. j - Len(s) \in 1 .. Len(t) /\ w[j] = t[j - Len(s)]
    BY <1>2, <1>4
  <2>3. Has(t, w[j].op, w[j].at)
    BY <2>2 DEF Has
  <2> QED
    BY <2>1, <2>3
<1>5. CASE i \notin 1 .. Len(s)
  <2>1. /\ i - Len(s) \in 1 .. Len(t) /\ w[i] = t[i - Len(s)]
        /\ j - Len(s) \in 1 .. Len(t) /\ w[j] = t[j - Len(s)]
        /\ i - Len(s) < j - Len(s)
    BY <1>2, <1>5
  <2> QED
    BY <2>1 DEF Increasing
<1> QED
  BY <1>3, <1>4, <1>5

(* An increasing plan has each page once.                                  *)
LEMMA IncreasingDistinct ==
    ASSUME NEW s \in Seq(PageOp), Increasing(s)
    PROVE  \A i, j \in 1 .. Len(s) : s[i].at = s[j].at => i = j
<1> SUFFICES ASSUME NEW i \in 1 .. Len(s), NEW j \in 1 .. Len(s), s[i].at = s[j].at
             PROVE  i = j
  OBVIOUS
<1>1. s[i].at \in Nat /\ s[j].at \in Nat /\ i \in Int /\ j \in Int
  <2>1. s[i] \in PageOp /\ s[j] \in PageOp
    OBVIOUS
  <2> QED
    BY <2>1 DEF PageOp
<1>2. ~(i < j) /\ ~(j < i)
  BY <1>1 DEF Increasing
<1> QED
  BY <1>1, <1>2

(* Pending pages in terms of the plan.                                     *)
LEMMA PendingHas ==
    ASSUME NEW plan, todo' = plan
    PROVE  /\ \A a : Pending(a)' <=> \E k : Has(plan, k, a)
           /\ \A a : PendingUnmap(a)' <=> Has(plan, "unmap", a)
BY DEF Pending, PendingUnmap, Has

LEMMA BuildBegins ==
    ASSUME NEW p, NEW plan \in Seq(PageOp), Increasing(plan), todo' = plan,
           \A i \in 1 .. Len(plan) : BuildingOp(p, plan[i])',
           \A a \in Kernel : (\E k : Has(plan, k, a)) \/ ptable'[p][a] = a,
           \A a \in UserPage : /\ Seg(p, a)' <=> Mapped(p, a)' \/ \E k : Has(plan, k, a)
                               /\ (\E k : Has(plan, k, a)) => ~Mapped(p, a)'
    PROVE  Building(p)'
<1>1. \A a : Pending(a)' <=> \E k : Has(plan, k, a)
  BY PendingHas
<1>2. \A i, j \in 1 .. Len(plan) : plan[i].at = plan[j].at => i = j
  BY IncreasingDistinct
<1>3. \A i \in 1 .. Len(todo') : BuildingOp(p, todo[i])'
  BY DEF BuildingOp, Seg
<1>4. \A a \in Kernel : Pending(a)' \/ ptable'[p][a] = a
  BY <1>1
<1>5. \A a \in UserPage : /\ Seg(p, a)' <=> Mapped(p, a)' \/ Pending(a)'
                          /\ Pending(a)' => ~Mapped(p, a)'
  BY <1>1
<1> QED
  BY <1>2, <1>3, <1>4, <1>5 DEF Building

LEMMA ForkPlan ==
    ASSUME NEW p \in Pid, text_end[p] \in TEXT_BASE .. DATA_BASE,
           data_end[p] \in DATA_BASE .. STACK_START
    PROVE  /\ fork_plan(p) \in Seq(PageOp) /\ Increasing(fork_plan(p))
           /\ \A k, x : Has(fork_plan(p), k, x) <=> \/ k = "identity" /\ x \in Kernel
                                                    \/ k = "copy" /\ Seg(p, x)
<1>1. PICK a \in Nat, b \in Nat : /\ a = text_end[p] /\ b = data_end[p]
                                  /\ a <= DATA_BASE /\ b <= STACK_START
  BY Layout
<1>2. PICK s1, s2, s3, s4 : /\ s1 = Loop("identity", 0, PAGE_START)
                            /\ s2 = Loop("copy", TEXT_BASE, a)
                            /\ s3 = Loop("copy", DATA_BASE, b)
                            /\ s4 = Loop("copy", STACK_START, STACK_BASE)
  OBVIOUS
<1>3. /\ s1 \in Seq(PageOp) /\ Increasing(s1)
      /\ \A k, x : Has(s1, k, x) <=> k = "identity" /\ x \in 0 .. (PAGE_START - 1)
  BY <1>2, Layout, OpNames, LoopHas
<1>4. /\ s2 \in Seq(PageOp) /\ Increasing(s2)
      /\ \A k, x : Has(s2, k, x) <=> k = "copy" /\ x \in TEXT_BASE .. (a - 1)
  BY <1>2, Layout, OpNames, LoopHas
<1>5. /\ s3 \in Seq(PageOp) /\ Increasing(s3)
      /\ \A k, x : Has(s3, k, x) <=> k = "copy" /\ x \in DATA_BASE .. (b - 1)
  BY <1>2, Layout, OpNames, LoopHas
<1>6. /\ s4 \in Seq(PageOp) /\ Increasing(s4)
      /\ \A k, x : Has(s4, k, x) <=> k = "copy" /\ x \in STACK_START .. (STACK_BASE - 1)
  BY <1>2, Layout, OpNames, LoopHas
<1>7. PICK t \in Seq(PageOp) : t = s1 \o s2
  BY <1>3, <1>4, Concat
<1>8. \A k, x : Has(t, k, x) <=> Has(s1, k, x) \/ Has(s2, k, x)
  BY <1>3, <1>4, <1>7, ConcatHas
<1>9. Increasing(t)
  <2>1. \A k, x, l, y : Has(s1, k, x) /\ Has(s2, l, y) => x < y
    BY <1>3, <1>4, Layout
  <2> QED
    BY <1>3, <1>4, <1>7, <2>1, ConcatIncreasing
<1>10. PICK u \in Seq(PageOp) : u = t \o s3
  BY <1>5, Concat
<1>11. \A k, x : Has(u, k, x) <=> Has(t, k, x) \/ Has(s3, k, x)
  BY <1>5, <1>10, ConcatHas
<1>12. Increasing(u)
  <2>1. ASSUME NEW k, NEW x, NEW l, NEW y, Has(t, k, x), Has(s3, l, y) PROVE x < y
    <3>1. x \in 0 .. (PAGE_START - 1) \/ x \in TEXT_BASE .. (a - 1)
      BY <1>3, <1>4, <1>8, <2>1
    <3>2. y \in DATA_BASE .. (b - 1)
      BY <1>5, <2>1
    <3> QED
      BY <1>1, <3>1, <3>2, Layout
  <2> QED
    BY <1>5, <1>9, <1>10, <2>1, ConcatIncreasing
<1>13. PICK v \in Seq(PageOp) : v = u \o s4
  BY <1>6, Concat
<1>14. \A k, x : Has(v, k, x) <=> Has(u, k, x) \/ Has(s4, k, x)
  BY <1>6, <1>13, ConcatHas
<1>15. Increasing(v)
  <2>1. ASSUME NEW k, NEW x, NEW l, NEW y, Has(u, k, x), Has(s4, l, y) PROVE x < y
    <3>1. \/ x \in 0 .. (PAGE_START - 1) \/ x \in TEXT_BASE .. (a - 1)
          \/ x \in DATA_BASE .. (b - 1)
      BY <1>3, <1>4, <1>5, <1>8, <1>11, <2>1
    <3>2. y \in STACK_START .. (STACK_BASE - 1)
      BY <1>6, <2>1
    <3> QED
      BY <1>1, <3>1, <3>2, Layout
  <2> QED
    BY <1>6, <1>12, <1>13, <2>1, ConcatIncreasing
<1>16. fork_plan(p) = v
  BY <1>1, <1>2, <1>7, <1>10, <1>13 DEF fork_plan
<1>17. \A k, x : Has(v, k, x) <=> \/ k = "identity" /\ x \in Kernel
                                  \/ k = "copy" /\ Seg(p, x)
  BY <1>1, <1>3, <1>4, <1>5, <1>6, <1>8, <1>11, <1>14 DEF Kernel, Seg, Stack
<1> QED
  BY <1>15, <1>16, <1>17

(* The pages of the segments are pages of the process.                     *)
LEMMA SegPages ==
    ASSUME NEW p \in Pid, text_end[p] \in TEXT_BASE .. DATA_BASE,
           data_end[p] \in DATA_BASE .. STACK_START, NEW a, Seg(p, a)
    PROVE  a \in UserPage /\ a \in PageNo /\ a \notin Kernel
BY Layout DEF Seg, Stack, UserPage, Kernel

(* The child gets the segments of its parent, and nothing is mapped yet.   *)
LEMMA ForkP ==
    ASSUME FInv, PInv, NEW p \in Pid, NEW child \in Pid, syscall_fork(p, child)
    PROVE  PInv'
<1>1. /\ todo = <<>> /\ p \in live /\ child \notin live /\ Begin(child, fork_plan(p))
      /\ source' = p
      /\ live' = live \cup {child} /\ pdir' = [pdir EXCEPT ![child] = NextFrame(1)]
      /\ alloc_page(1)
      /\ text_end' = [text_end EXCEPT ![child] = text_end[p]]
      /\ data_end' = [data_end EXCEPT ![child] = data_end[p]]
      /\ UNCHANGED <<dir, ptable>> /\ panic' = panic
  BY DEF syscall_fork, Idle
<1>2. /\ TypeOK /\ PoolOK /\ OwnedTaken /\ DirsValid /\ TablesPresent
      /\ NoPanic /\ DataEnds /\ OthersSettled /\ NothingLost /\ Counted
      /\ text_end \in [Pid -> TEXT_BASE .. DATA_BASE]
      /\ data_end \in [Pid -> DATA_BASE .. STACK_START]
      /\ pdir \in [Pid -> Entry] /\ live \in SUBSET Pid
  BY DEF FInv, PInv, TypeOK, DataEnds
<1>3. /\ \A d \in Dirindex : dir[child][d] = NONE
      /\ \A a \in PageNo : ptable[child][a] = NONE
  BY <1>1, <1>2, DirindexType DEF DirsValid, TablesPresent
<1>4. NextFrame(1) \in Nat /\ NextFrame(1) # NONE
  BY <1>2, NextFrameType DEF NONE
<1>5. Takes(1)
  <2> SUFFICES ASSUME NEW f
               PROVE  f \in InUse' <=> f \in InUse \/ f = NextFrame(1)
    BY DEF Takes
  <2>1. ASSUME f \in InUse' PROVE f \in InUse \/ f = NextFrame(1)
    <3>1. PICK k, q, i : Owns(k, q, i, f)'
      BY <2>1, OwnedUsedNext DEF OwnedUsed
    <3>2. CASE q # child
      <4>1. q \in live /\ pdir'[q] = pdir[q]
        BY <1>1, <1>2, <3>1, <3>2 DEF Owns
      <4>2. Owns(k, q, i, f)
        BY <1>1, <3>1, <4>1 DEF Owns
      <4> QED
        BY <4>2, OwnedUsedNow DEF OwnedUsed
    <3>3. CASE q = child
      <4>1. pdir'[child] = NextFrame(1)
        BY <1>1, <1>2
      <4>2. ~(i \in Dirindex /\ dir'[q][i] = f /\ f # NONE)
        BY <1>1, <1>3, <3>3
      <4>3. ~(i \in UserPage /\ ptable'[q][i] = f /\ f # NONE)
        BY <1>1, <1>3, <3>3 DEF UserPage
      <4> QED
        BY <3>1, <3>3, <4>1, <4>2, <4>3 DEF Owns
    <3> QED
      BY <3>2, <3>3
  <2>2. ASSUME f \in InUse PROVE f \in InUse'
    <3>1. PICK k, q, i : Owns(k, q, i, f)
      BY <2>2, OwnedUsedNow DEF OwnedUsed
    <3>2. q \in live' /\ pdir'[q] = pdir[q]
      BY <1>1, <1>2, <3>1 DEF Owns
    <3>3. Owns(k, q, i, f)'
      BY <1>1, <3>1, <3>2 DEF Owns
    <3> QED
      BY <3>3, OwnedUsedNext DEF OwnedUsed
  <2>3. ASSUME f = NextFrame(1) PROVE f \in InUse'
    <3>1. Owns("dir", child, 0, f)'
      BY <1>1, <1>2, <1>4, <2>3 DEF Owns
    <3> QED
      BY <3>1, OwnedUsedNext DEF OwnedUsed
  <2> QED
    BY <2>1, <2>2, <2>3
<1>6. NothingLost' /\ Counted'
  BY <1>1, <1>2, <1>5, TakeExact
<1>7. NoPanic' /\ DataEnds'
  BY <1>1, <1>2 DEF NoPanic, DataEnds
<1>8. /\ \A q \in Pid : q # child => text_end'[q] = text_end[q] /\ data_end'[q] = data_end[q]
      /\ text_end'[child] = text_end[p] /\ data_end'[child] = data_end[p]
  BY <1>1, <1>2
<1>9. text_end[p] \in TEXT_BASE .. DATA_BASE /\ data_end[p] \in DATA_BASE .. STACK_START
  BY <1>2
<1>10. PICK plan \in Seq(PageOp) :
           /\ plan = fork_plan(p) /\ Increasing(plan)
           /\ \A k, x : Has(plan, k, x) <=> \/ k = "identity" /\ x \in Kernel
                                            \/ k = "copy" /\ Seg(p, x)
  BY <1>9, ForkPlan
<1>11. todo' = plan /\ proc' = child /\ p # child
  BY <1>1, <1>10 DEF Begin
<1>12. \A a : (Seg(child, a)' <=> Seg(p, a)) /\ (Seg(p, a)' <=> Seg(p, a))
  BY <1>8, <1>11 DEF Seg
<1>13. \A a : Seg(p, a) => a \notin Kernel
  BY <1>9, SegPages
<1>14. Building(child)'
  <2>1. ASSUME NEW i \in 1 .. Len(plan) PROVE BuildingOp(child, plan[i])'
    <3>1. Has(plan, plan[i].op, plan[i].at)
      BY DEF Has
    <3>2. \/ plan[i].op = "identity" /\ plan[i].at \in Kernel
          \/ plan[i].op = "copy" /\ Seg(p, plan[i].at)
      BY <1>10, <3>1
    <3>3. source' \in live' /\ source' # child
      BY <1>1, <1>11
    <3>4. Seg(p, plan[i].at) => Seg(source, plan[i].at)'
      BY <1>1, <1>12 DEF Seg
    <3> QED
      BY <1>13, <3>2, <3>3, <3>4 DEF BuildingOp
  <2>2. \A a \in Kernel : \E k : Has(plan, k, a)
    BY <1>10
  <2>3. \A a \in UserPage : (\E k : Has(plan, k, a)) <=> Seg(p, a)
    BY <1>10 DEF UserPage
  <2>4. \A a \in UserPage : ~Mapped(child, a)'
    BY <1>1, <1>3 DEF Mapped, UserPage
  <2>5. \A a \in UserPage : /\ Seg(child, a)' <=> Mapped(child, a)' \/ \E k : Has(plan, k, a)
                            /\ (\E k : Has(plan, k, a)) => ~Mapped(child, a)'
    BY <1>12, <2>3, <2>4
  <2> QED
    BY <1>10, <1>11, <2>1, <2>2, <2>5, BuildBegins
<1>15. CallOK'
  BY <1>11, <1>14 DEF CallOK
<1>16. OthersSettled'
  <2> SUFFICES ASSUME NEW q \in live', todo' = <<>> \/ q # proc' PROVE Settled(q)'
    BY DEF OthersSettled
  <2>1. Len(plan) > 0
    <3>1. Seg(p, STACK_START)
      BY Layout DEF Seg, Stack
    <3>2. Has(plan, "copy", STACK_START)
      BY <1>10, <3>1
    <3> QED
      BY <3>2 DEF Has
  <2>2. q # child /\ q \in live /\ q \in Pid
    BY <1>1, <1>2, <1>11, <2>1
  <2>3. Settled(q)
    BY <1>1, <1>2, <2>2 DEF OthersSettled
  <2>4. text_end'[q] = text_end[q] /\ data_end'[q] = data_end[q] /\ ptable'[q] = ptable[q]
    BY <1>1, <1>8, <2>2
  <2> QED
    BY <2>3, <2>4 DEF Settled, KernelMapped, Mapped, Seg
<1> QED
  BY <1>6, <1>7, <1>15, <1>16 DEF PInv

LEMMA OneHas ==
    ASSUME NEW kind \in OpName
    PROVE  \A k, x : Has(One(kind), k, x) <=> k = kind /\ x = 0
<1>1. /\ Len(One(kind)) = 1 /\ One(kind)[1].op = kind /\ One(kind)[1].at = 0
  BY OneEffect
<1>2. 1 .. Len(One(kind)) = {1}
  BY <1>1
<1> QED
  BY <1>1, <1>2 DEF Has

(* A call that has only made its plan.                                     *)
LEMMA Begun ==
    ASSUME FInv, PInv, todo = <<>>, NEW p \in live, NEW plan \in Seq(PageOp), plan # <<>>,
           todo' = plan, proc' = p, DataEnds',
           UNCHANGED <<page_end, page_free>>, UNCHANGED npages,
           UNCHANGED <<live, pdir, dir, ptable>>, UNCHANGED text_end, panic' = panic,
           \A q \in Pid : q # p => data_end'[q] = data_end[q],
           Building(p)' \/ Emptying(p)' \/ Dying(p)'
    PROVE  PInv'
<1>1. /\ NoPanic /\ OthersSettled /\ NothingLost /\ Counted /\ live \in SUBSET Pid
  BY DEF FInv, PInv, TypeOK
<1>2. NothingLost' /\ Counted'
  BY <1>1, KeepExact
<1>3. NoPanic'
  BY <1>1 DEF NoPanic
<1>4. CallOK'
  BY DEF CallOK
<1>5. OthersSettled'
  <2> SUFFICES ASSUME NEW q \in live, q # p PROVE Settled(q)'
    BY DEF OthersSettled
  <2>1. Settled(q) /\ q \in Pid
    BY <1>1 DEF OthersSettled
  <2>2. text_end'[q] = text_end[q] /\ data_end'[q] = data_end[q] /\ ptable'[q] = ptable[q]
    BY <2>1
  <2> QED
    BY <2>1, <2>2 DEF Settled, KernelMapped, Mapped, Seg
<1> QED
  BY <1>2, <1>3, <1>4, <1>5 DEF PInv

(* brk maps the pages between the old end of the data and the new one.     *)
LEMMA BrkP ==
    ASSUME SafeBrk, FInv, PInv, NEW p \in Pid, NEW newend \in BrkArgs, syscall_brk(p, newend)
    PROVE  PInv'
<1>1. /\ TypeOK /\ DataEnds /\ OthersSettled
      /\ data_end \in [Pid -> DATA_BASE .. STACK_START] /\ text_end \in [Pid -> TEXT_BASE .. DATA_BASE]
  BY DEF FInv, PInv, TypeOK, DataEnds
<1>2. PICK a \in Nat : a = data_end[p] /\ a \in DATA_BASE .. STACK_START
  BY <1>1, Layout
<1>3. newend \in Nat
  BY PagingAssumption DEF AddressSpace
<1>4. newend <= STACK_START * PAGE_SIZE
  BY DEF SafeBrk
<1>5. newend > a * PAGE_SIZE
  BY <1>2 DEF syscall_brk
<1>6. RoundUp(newend) \in Nat /\ RoundUp(newend) <= STACK_START
  BY <1>3, <1>4, Layout, RoundUpBound
<1>7. RoundUp(newend) > a
  BY <1>3, <1>5, RoundUpBound
<1>8. PICK c \in Nat : c = RoundUp(newend) /\ c <= STACK_START /\ c > a
  BY <1>6, <1>7
<1>9. c % Pages = c
  BY <1>8, Layout
<1>10. /\ todo = <<>> /\ p \in live /\ Begin(p, Loop("new", a, c))
       /\ data_end' = [data_end EXCEPT ![p] = c]
       /\ UNCHANGED <<page_end, page_free>> /\ UNCHANGED npages
       /\ UNCHANGED <<live, pdir, dir, ptable>> /\ UNCHANGED text_end /\ UNCHANGED source
       /\ panic' = panic
  BY <1>2, <1>8, <1>9 DEF syscall_brk, Idle, allocVars, mapVars, Pages
<1>11. PICK plan \in Seq(PageOp) :
           /\ plan = Loop("new", a, c) /\ Increasing(plan)
           /\ \A k, x : Has(plan, k, x) <=> k = "new" /\ x \in a .. (c - 1)
  <2>1. /\ Loop("new", a, c) \in Seq(PageOp) /\ Increasing(Loop("new", a, c))
        /\ \A k, x : Has(Loop("new", a, c), k, x) <=> k = "new" /\ x \in a .. (c - 1)
    BY LoopHas, OpNames
  <2> QED
    BY <2>1
<1>12. todo' = plan /\ proc' = p
  BY <1>10, <1>11 DEF Begin
<1>13. plan # <<>>
  <2>1. Has(plan, "new", a)
    BY <1>2, <1>8, <1>11
  <2> QED
    BY <2>1 DEF Has
<1>14. DataEnds'
  <2>1. c \in DATA_BASE .. STACK_START
    BY <1>2, <1>8, Layout
  <2> QED
    BY <1>1, <1>10, <2>1 DEF DataEnds
<1>15. data_end'[p] = c /\ \A q \in Pid : q # p => data_end'[q] = data_end[q]
  BY <1>1, <1>10
<1>16. Settled(p)
  BY <1>1, <1>10 DEF OthersSettled
<1>17. ASSUME NEW x \in a .. (c - 1)
       PROVE  x \notin Kernel /\ ~Seg(p, x)
  <2>1. text_end[p] \in TEXT_BASE .. DATA_BASE
    BY <1>1
  <2>2. x \in Nat /\ x >= a /\ x < c
    BY <1>2, <1>8
  <2>3. x >= DATA_BASE /\ x < STACK_START
    BY <1>2, <1>8, <2>2, Layout
  <2>4. x \notin Kernel
    BY <2>2, <2>3, Layout DEF Kernel
  <2>5. /\ x \notin TEXT_BASE .. (text_end[p] - 1)
        /\ x \notin DATA_BASE .. (a - 1) /\ x \notin STACK_START .. (STACK_BASE - 1)
    BY <1>2, <2>1, <2>2, <2>3, Layout
  <2> QED
    BY <1>2, <2>4, <2>5 DEF Seg, Stack
<1>18. ASSUME NEW x \in UserPage
       PROVE  /\ Seg(p, x)' <=> Mapped(p, x)' \/ \E k : Has(plan, k, x)
              /\ (\E k : Has(plan, k, x)) => ~Mapped(p, x)'
  <2>1. (\E k : Has(plan, k, x)) <=> x \in a .. (c - 1)
    BY <1>11
  <2>2. Mapped(p, x)' <=> Seg(p, x)
    BY <1>10, <1>16 DEF Settled, Mapped
  <2>3. x \in Int
    BY Layout DEF UserPage
  <2>4. x \in DATA_BASE .. (c - 1) <=> x \in DATA_BASE .. (a - 1) \/ x \in a .. (c - 1)
    BY <1>2, <1>8, <2>3, Layout
  <2>5. Seg(p, x)' <=> Seg(p, x) \/ x \in a .. (c - 1)
    BY <1>2, <1>10, <1>15, <2>4 DEF Seg
  <2> QED
    BY <1>17, <2>1, <2>2, <2>5
<1>19. ASSUME NEW i \in 1 .. Len(plan) PROVE BuildingOp(p, plan[i])'
  <2>1. Has(plan, plan[i].op, plan[i].at)
    BY DEF Has
  <2>2. plan[i].op = "new" /\ plan[i].at \notin Kernel
    BY <1>11, <1>17, <2>1
  <2> QED
    BY <2>2 DEF BuildingOp
<1>20. \A x \in Kernel : ptable'[p][x] = x
  BY <1>10, <1>16 DEF Settled, KernelMapped
<1>21. Building(p)'
  BY <1>11, <1>12, <1>18, <1>19, <1>20, BuildBegins
<1> QED
  BY <1>10, <1>12, <1>13, <1>14, <1>15, <1>21, Begun

(* execve unmaps the old text and data, and then loads the new text from   *)
(* its first page on.                                                      *)
LEMMA ExecveP ==
    ASSUME FInv, PInv, NEW p \in Pid, NEW size \in FileSizes, syscall_execve(p, size)
    PROVE  PInv'
<1>1. /\ todo = <<>> /\ p \in live /\ Begin(p, execve_plan(p, size))
      /\ UNCHANGED <<page_end, page_free>> /\ UNCHANGED npages
      /\ UNCHANGED <<live, pdir, dir, ptable>> /\ UNCHANGED text_end /\ UNCHANGED source
      /\ data_end' = data_end /\ panic' = panic
  BY DEF syscall_execve, Idle, allocVars, mapVars, segVars
<1>2. /\ TypeOK /\ DataEnds /\ OthersSettled
      /\ data_end \in [Pid -> DATA_BASE .. STACK_START]
      /\ text_end \in [Pid -> TEXT_BASE .. DATA_BASE]
  BY DEF FInv, PInv, TypeOK, DataEnds
<1>3. PICK a \in Nat, b \in Nat : /\ a = text_end[p] /\ b = data_end[p]
                                  /\ a <= DATA_BASE /\ b <= STACK_START
  BY <1>2, Layout
<1>4. PICK c \in Nat : c = TEXT_BASE + RoundUp(size)
  <2>1. DATA_BASE - TEXT_BASE \in Nat
    BY Layout
  <2>2. size \in Nat
    BY <2>1, PagingAssumption
  <2>3. RoundUp(size) \in Nat
    BY <2>1, <2>2, RoundUpBound
  <2> QED
    BY <2>3, Layout
<1>5. PICK s1, s2, s3, s4 : /\ s1 = Loop("unmap", TEXT_BASE, a)
                            /\ s2 = Loop("unmap", DATA_BASE, b)
                            /\ s3 = One("resize")
                            /\ s4 = Loop("load", TEXT_BASE, c)
  OBVIOUS
<1>6. /\ s1 \in Seq(PageOp)
      /\ \A k, x : Has(s1, k, x) <=> k = "unmap" /\ x \in TEXT_BASE .. (a - 1)
  BY <1>5, Layout, OpNames, LoopHas
<1>7. /\ s2 \in Seq(PageOp)
      /\ \A k, x : Has(s2, k, x) <=> k = "unmap" /\ x \in DATA_BASE .. (b - 1)
  BY <1>5, Layout, OpNames, LoopHas
<1>8. s3 \in Seq(PageOp) /\ Len(s3) = 1 /\ s3[1].op = "resize"
  BY <1>5, OpNames, OneEffect
<1>9. /\ s4 \in Seq(PageOp)
      /\ \A i \in 1 .. Len(s4) : s4[i].op = "load" /\ s4[i].at = TEXT_BASE + i - 1
  <2>1. /\ Loop("load", TEXT_BASE, c) \in Seq(PageOp)
        /\ \A i \in 1 .. Len(Loop("load", TEXT_BASE, c)) :
              /\ Loop("load", TEXT_BASE, c)[i].op = "load"
              /\ Loop("load", TEXT_BASE, c)[i].at = TEXT_BASE + i - 1
    BY Layout, OpNames, LoopEffect
  <2> QED
    BY <1>5, <2>1
<1>10. PICK t \in Seq(PageOp) : t = s1 \o s2
  BY <1>6, <1>7, Concat
<1>11. \A k, x : Has(t, k, x) <=> Has(s1, k, x) \/ Has(s2, k, x)
  BY <1>6, <1>7, <1>10, ConcatHas
<1>12. PICK u \in Seq(PageOp) : u = t \o s3
  BY <1>8, Concat
<1>13. PICK plan \in Seq(PageOp) : plan = u \o s4
  BY <1>9, Concat
<1>14. plan = execve_plan(p, size)
  BY <1>3, <1>4, <1>5, <1>10, <1>12, <1>13 DEF execve_plan
<1>15. todo' = plan /\ proc' = p
  BY <1>1, <1>14 DEF Begin
<1>16. PICK r \in Nat : r = Len(t) + 1 /\ Len(t) \in Nat
  BY <1>8, Concat
<1>17. Len(u) = r /\ u[r] = s3[1] /\ \A i \in 1 .. (r - 1) : u[i] = t[i]
  <2>1. /\ Len(u) = Len(t) + Len(s3)
        /\ \A i \in 1 .. Len(t) : u[i] = t[i]
        /\ \A i \in 1 .. Len(s3) : u[Len(t) + i] = s3[i]
    <3>1. s3 \in Seq(PageOp)
      BY <1>8
    <3> QED
      BY <1>12, <3>1, Concat
  <2>2. 1 \in 1 .. Len(s3)
    BY <1>8
  <2> QED
    BY <1>8, <1>16, <2>1, <2>2
<1>18. /\ Len(plan) = r + Len(s4) /\ Len(s4) \in Nat
       /\ \A i \in 1 .. r : plan[i] = u[i]
       /\ \A i \in 1 .. Len(s4) : plan[r + i] = s4[i]
  <2>1. /\ Len(u \o s4) = Len(u) + Len(s4) /\ Len(s4) \in Nat
        /\ \A i \in 1 .. Len(u) : (u \o s4)[i] = u[i]
        /\ \A i \in 1 .. Len(s4) : (u \o s4)[Len(u) + i] = s4[i]
    BY <1>9, Concat
  <2> QED
    BY <1>13, <1>17, <2>1
<1>19. ASSUME NEW i \in 1 .. (r - 1) PROVE plan[i].op = "unmap" /\ plan[i].at < STACK_START
  <2>1. plan[i] = t[i] /\ i \in 1 .. Len(t)
    BY <1>16, <1>17, <1>18
  <2>2. Has(t, t[i].op, t[i].at)
    BY <2>1 DEF Has
  <2>3. /\ t[i].op = "unmap"
        /\ t[i].at \in TEXT_BASE .. (a - 1) \/ t[i].at \in DATA_BASE .. (b - 1)
    BY <1>6, <1>7, <1>11, <2>2
  <2>4. PICK x : x = t[i].at
    OBVIOUS
  <2>5. x \in TEXT_BASE .. (a - 1) \/ x \in DATA_BASE .. (b - 1)
    BY <2>3, <2>4
  <2>6. x < STACK_START
    BY <1>3, <2>5, Layout
  <2> QED
    BY <2>1, <2>3, <2>4, <2>6
<1>20. ASSUME NEW i \in (r + 1) .. Len(plan)
       PROVE  plan[i].op = "load" /\ plan[i].at = TEXT_BASE + (i - r) - 1
  <2>1. i - r \in 1 .. Len(s4) /\ r + (i - r) = i
    BY <1>18
  <2>2. plan[i] = s4[i - r]
    BY <1>18, <2>1
  <2> QED
    BY <1>9, <2>1, <2>2
<1>21. r \in 1 .. Len(plan) /\ plan[r].op = "resize"
  BY <1>8, <1>16, <1>17, <1>18
<1>22. Settled(p)
  BY <1>1, <1>2 DEF OthersSettled
<1>23. ASSUME NEW x, Has(t, "unmap", x) PROVE PendingUnmap(x)'
  <2>1. Has(u, "unmap", x)
    BY <1>8, <1>12, <1>23, ConcatHas
  <2>2. Has(plan, "unmap", x)
    BY <1>9, <1>13, <2>1, ConcatHas
  <2> QED
    BY <1>15, <2>2, PendingHas
<1>24. ASSUME NEW x \in UserPage
       PROVE  IF x \in Stack THEN Mapped(p, x)' ELSE Mapped(p, x)' => PendingUnmap(x)'
  <2>1. Mapped(p, x)' <=> Seg(p, x)
    BY <1>1, <1>22 DEF Settled, Mapped
  <2>2. Seg(p, x) /\ x \notin Stack => Has(t, "unmap", x)
    BY <1>3, <1>6, <1>7, <1>11 DEF Seg
  <2> QED
    BY <1>23, <2>1, <2>2 DEF Seg
<1>25. KernelMapped(p)'
  BY <1>1, <1>22 DEF Settled, KernelMapped
<1>26. Emptying(p)'
  <2>1. \E s \in 1 .. Len(plan) :
          /\ plan[s].op = "resize"
          /\ \A i \in 1 .. (s - 1) : plan[i].op = "unmap" /\ plan[i].at < STACK_START
          /\ \A i \in (s + 1) .. Len(plan) :
                plan[i].op = "load" /\ plan[i].at = TEXT_BASE + (i - s) - 1
    BY <1>19, <1>20, <1>21
  <2> QED
    BY <1>15, <1>24, <1>25, <2>1 DEF Emptying
<1>27. plan # <<>>
  BY <1>21
<1>28. DataEnds'
  BY <1>1, <1>2 DEF DataEnds
<1> QED
  BY <1>1, <1>15, <1>26, <1>27, <1>28, Begun

(* kill_process unmaps every segment before it frees the tables.           *)
LEMMA KillP ==
    ASSUME FInv, PInv, NEW p \in Pid, kill_process(p)
    PROVE  PInv'
<1>1. /\ todo = <<>> /\ p \in live /\ Begin(p, kill_plan(p))
      /\ UNCHANGED <<page_end, page_free>> /\ UNCHANGED npages
      /\ UNCHANGED <<live, pdir, dir, ptable>> /\ UNCHANGED text_end /\ UNCHANGED source
      /\ data_end' = data_end /\ panic' = panic
  BY DEF kill_process, Idle, allocVars, mapVars, segVars
<1>2. /\ TypeOK /\ DataEnds /\ OthersSettled
      /\ data_end \in [Pid -> DATA_BASE .. STACK_START]
      /\ text_end \in [Pid -> TEXT_BASE .. DATA_BASE]
  BY DEF FInv, PInv, TypeOK, DataEnds
<1>3. PICK a \in Nat, b \in Nat : a = text_end[p] /\ b = data_end[p]
  BY <1>2, Layout
<1>4. PICK s1, s2, s3, s4, s5 : /\ s1 = Loop("unmap", STACK_START, STACK_BASE)
                                /\ s2 = Loop("unmap", DATA_BASE, b)
                                /\ s3 = Loop("unmap", TEXT_BASE, a)
                                /\ s4 = Loop("table", 0, TableCount)
                                /\ s5 = One("dir")
  OBVIOUS
<1>5. /\ s1 \in Seq(PageOp)
      /\ \A k, x : Has(s1, k, x) <=> k = "unmap" /\ x \in STACK_START .. (STACK_BASE - 1)
  BY <1>4, Layout, OpNames, LoopHas
<1>6. /\ s2 \in Seq(PageOp)
      /\ \A k, x : Has(s2, k, x) <=> k = "unmap" /\ x \in DATA_BASE .. (b - 1)
  BY <1>4, Layout, OpNames, LoopHas
<1>7. /\ s3 \in Seq(PageOp)
      /\ \A k, x : Has(s3, k, x) <=> k = "unmap" /\ x \in TEXT_BASE .. (a - 1)
  BY <1>4, Layout, OpNames, LoopHas
<1>8. /\ s4 \in Seq(PageOp)
      /\ \A k, x : Has(s4, k, x) => k = "table"
  BY <1>4, Layout, OpNames, LoopHas
<1>9. /\ s5 \in Seq(PageOp)
      /\ \A k, x : Has(s5, k, x) <=> k = "dir" /\ x = 0
  BY <1>4, OpNames, OneEffect, OneHas
<1>10. PICK t \in Seq(PageOp) : t = s1 \o s2
  BY <1>5, <1>6, Concat
<1>11. PICK u \in Seq(PageOp) : u = t \o s3
  BY <1>7, Concat
<1>12. \A k, x : Has(u, k, x) <=> Has(s1, k, x) \/ Has(s2, k, x) \/ Has(s3, k, x)
  <2>1. \A k, x : Has(t, k, x) <=> Has(s1, k, x) \/ Has(s2, k, x)
    BY <1>5, <1>6, <1>10, ConcatHas
  <2>2. \A k, x : Has(u, k, x) <=> Has(t, k, x) \/ Has(s3, k, x)
    BY <1>7, <1>11, ConcatHas
  <2> QED
    BY <2>1, <2>2
<1>13. PICK v \in Seq(PageOp) : v = u \o s4
  BY <1>8, Concat
<1>14. PICK plan \in Seq(PageOp) : plan = v \o s5
  BY <1>9, Concat
<1>15. plan = kill_plan(p)
  BY <1>3, <1>4, <1>10, <1>11, <1>13, <1>14 DEF kill_plan
<1>16. todo' = plan /\ proc' = p
  BY <1>1, <1>15 DEF Begin
<1>17. \A k, x : Has(v, k, x) <=> Has(u, k, x) \/ Has(s4, k, x)
  BY <1>8, <1>13, ConcatHas
<1>18. \A k, x : Has(plan, k, x) <=> Has(v, k, x) \/ Has(s5, k, x)
  BY <1>9, <1>14, ConcatHas
<1>19. /\ Len(u) \in Nat
       /\ \A i \in 1 .. Len(u) : plan[i] = u[i]
       /\ \A i \in 1 .. Len(plan) : i > Len(u) => plan[i].op # "unmap"
  <2>1. /\ Len(v) = Len(u) + Len(s4) /\ Len(u) \in Nat /\ Len(s4) \in Nat
        /\ \A i \in 1 .. Len(u) : v[i] = u[i]
        /\ \A i \in 1 .. Len(s4) : v[Len(u) + i] = s4[i]
    BY <1>8, <1>13, Concat
  <2>2. /\ Len(plan) = Len(v) + Len(s5) /\ Len(v) \in Nat /\ Len(s5) \in Nat
        /\ \A i \in 1 .. Len(v) : plan[i] = v[i]
        /\ \A i \in 1 .. Len(s5) : plan[Len(v) + i] = s5[i]
    BY <1>9, <1>14, Concat
  <2>3. ASSUME NEW i \in 1 .. Len(plan), i > Len(u) PROVE plan[i].op # "unmap"
    <3>1. CASE i <= Len(v)
      <4>1. i - Len(u) \in 1 .. Len(s4) /\ Len(u) + (i - Len(u)) = i /\ i \in 1 .. Len(v)
        BY <2>1, <2>3, <3>1
      <4>2. plan[i] = s4[i - Len(u)]
        BY <2>1, <2>2, <4>1
      <4>3. Has(s4, plan[i].op, plan[i].at)
        BY <4>1, <4>2 DEF Has
      <4>4. plan[i].op = "table"
        BY <1>8, <4>3
      <4> QED
        BY <4>4
    <3>2. CASE i > Len(v)
      <4>1. i - Len(v) \in 1 .. Len(s5) /\ Len(v) + (i - Len(v)) = i
        BY <2>2, <3>2
      <4>2. plan[i] = s5[i - Len(v)]
        BY <2>2, <4>1
      <4>3. Has(s5, plan[i].op, plan[i].at)
        BY <4>1, <4>2 DEF Has
      <4>4. plan[i].op = "dir"
        BY <1>9, <4>3
      <4> QED
        BY <4>4
    <3> QED
      BY <2>2, <3>1, <3>2
  <2>4. \A i \in 1 .. Len(u) : i \in 1 .. Len(v)
    BY <2>1
  <2> QED
    BY <2>1, <2>2, <2>3, <2>4
<1>20. ASSUME NEW i \in 1 .. Len(plan), NEW j \in 1 .. Len(plan), i < j, plan[j].op = "unmap"
       PROVE  plan[i].op = "unmap"
  <2>1. i \in 1 .. Len(u)
    BY <1>19, <1>20
  <2>2. Has(u, plan[i].op, plan[i].at)
    BY <1>19, <2>1 DEF Has
  <2> QED
    BY <1>5, <1>6, <1>7, <1>12, <2>2
<1>21. PICK i \in 1 .. Len(plan) : plan[i].op = "dir"
  <2>1. Has(plan, "dir", 0)
    BY <1>9, <1>18
  <2> QED
    BY <2>1 DEF Has
<1>22. Settled(p)
  BY <1>1, <1>2 DEF OthersSettled
<1>23. ASSUME NEW x \in UserPage, Mapped(p, x)' PROVE PendingUnmap(x)'
  <2>1. Seg(p, x)
    BY <1>1, <1>22, <1>23 DEF Settled, Mapped
  <2>2. Has(u, "unmap", x)
    BY <1>3, <1>5, <1>6, <1>7, <1>12, <2>1 DEF Seg, Stack
  <2>3. Has(plan, "unmap", x)
    BY <1>17, <1>18, <2>2
  <2> QED
    BY <1>16, <2>3, PendingHas
<1>24. Dying(p)'
  BY <1>16, <1>20, <1>21, <1>23 DEF Dying
<1>25. plan # <<>>
  BY <1>21
<1>26. DataEnds'
  BY <1>1, <1>2 DEF DataEnds
<1> QED
  BY <1>1, <1>16, <1>24, <1>25, <1>26, Begun

(***************************************************************************)
(* The theorems.                                                           *)
(***************************************************************************)
LEMMA InitPInv == Init => PInv
<1> SUFFICES ASSUME Init PROVE PInv
  OBVIOUS
<1>1. /\ page_end = PAGE_START + 1 /\ page_free = <<>> /\ npages = 1
      /\ live = {1}
      /\ pdir = [p \in Pid |-> IF p = 1 THEN PAGE_START ELSE NONE]
      /\ dir = [p \in Pid |-> [i \in Dirindex |-> NONE]]
      /\ ptable = [p \in Pid |-> [page \in PageNo |-> NONE]]
      /\ text_end = [p \in Pid |-> TEXT_BASE]
      /\ data_end = [p \in Pid |-> DATA_BASE]
      /\ todo = start_plan /\ proc = 1 /\ source = NONE /\ panic = "none"
  BY DEF Init
<1>2. 1 \in Pid /\ PAGE_START \in Nat /\ PAGE_START # NONE
  BY PagingAssumption, Layout DEF Pid, NONE
<1>3. NoPanic
  BY <1>1 DEF NoPanic
<1>4. DataEnds
  <2>1. DATA_BASE \in DATA_BASE .. STACK_START
    BY Layout
  <2> QED
    BY <1>1, <2>1 DEF DataEnds
<1>5. InUse = {PAGE_START}
  <2>1. \A k, p, i, f : Owns(k, p, i, f) => f = PAGE_START
    BY <1>1, <1>2 DEF Owns, UserPage
  <2>2. Owns("dir", 1, 0, PAGE_START)
    BY <1>1, <1>2 DEF Owns
  <2>3. \A f : f \in InUse <=> f = PAGE_START
    BY <2>1, <2>2, OwnedUsedNow DEF OwnedUsed
  <2> QED
    BY <2>3
<1>6. Counted
  BY <1>1, <1>5, FS_Singleton DEF Counted
<1>7. NothingLost
  BY <1>1, <1>2, <1>5 DEF NothingLost, Avail
<1>8. PICK s1, s2 : /\ s1 = Loop("identity", 0, PAGE_START)
                    /\ s2 = Loop("new", STACK_START, STACK_BASE)
  OBVIOUS
<1>9. /\ s1 \in Seq(PageOp) /\ Increasing(s1)
      /\ \A k, x : Has(s1, k, x) <=> k = "identity" /\ x \in 0 .. (PAGE_START - 1)
  BY <1>8, Layout, OpNames, LoopHas
<1>10. /\ s2 \in Seq(PageOp) /\ Increasing(s2)
       /\ \A k, x : Has(s2, k, x) <=> k = "new" /\ x \in STACK_START .. (STACK_BASE - 1)
  BY <1>8, Layout, OpNames, LoopHas
<1>11. PICK plan \in Seq(PageOp) : plan = s1 \o s2
  BY <1>9, <1>10, Concat
<1>12. todo = plan
  BY <1>1, <1>8, <1>11 DEF start_plan
<1>13. \A k, x : Has(plan, k, x) <=> \/ k = "identity" /\ x \in Kernel
                                     \/ k = "new" /\ x \in Stack
  <2>1. \A k, x : Has(plan, k, x) <=> Has(s1, k, x) \/ Has(s2, k, x)
    BY <1>9, <1>10, <1>11, ConcatHas
  <2> QED
    BY <1>9, <1>10, <2>1 DEF Kernel, Stack
<1>14. Increasing(plan)
  <2>1. ASSUME NEW k, NEW x, NEW l, NEW y, Has(s1, k, x), Has(s2, l, y) PROVE x < y
    <3>1. x \in 0 .. (PAGE_START - 1) /\ y \in STACK_START .. (STACK_BASE - 1)
      BY <1>9, <1>10, <2>1
    <3> QED
      BY <3>1, Layout
  <2> QED
    BY <1>9, <1>10, <1>11, <2>1, ConcatIncreasing
<1>15. \A a : Pending(a) <=> a \in Kernel \/ a \in Stack
  <2>1. \A a : Pending(a) <=> \E k : Has(plan, k, a)
    BY <1>12 DEF Pending, Has
  <2> QED
    BY <1>13, <2>1
<1>16. \A a : Seg(1, a) <=> a \in Stack
  <2>1. text_end[1] = TEXT_BASE /\ data_end[1] = DATA_BASE
    BY <1>1, <1>2
  <2>2. TEXT_BASE .. (TEXT_BASE - 1) = {} /\ DATA_BASE .. (DATA_BASE - 1) = {}
    BY Layout
  <2> QED
    BY <2>1, <2>2 DEF Seg
<1>17. \A a \in UserPage : ~Mapped(1, a)
  BY <1>1, <1>2 DEF Mapped, UserPage
<1>18. \A a \in Stack : a \notin Kernel
  BY Layout DEF Stack, Kernel
<1>19. Building(1)
  <2>1. ASSUME NEW i \in 1 .. Len(plan) PROVE BuildingOp(1, plan[i])
    <3>1. Has(plan, plan[i].op, plan[i].at)
      BY DEF Has
    <3>2. \/ plan[i].op = "identity" /\ plan[i].at \in Kernel
          \/ plan[i].op = "new" /\ plan[i].at \in Stack
      BY <1>13, <3>1
    <3> QED
      BY <1>18, <3>2 DEF BuildingOp
  <2>2. \A i, j \in 1 .. Len(plan) : plan[i].at = plan[j].at => i = j
    BY <1>14, IncreasingDistinct
  <2>3. \A a \in UserPage : a \notin Kernel
    BY DEF UserPage
  <2> QED
    BY <1>12, <1>15, <1>16, <1>17, <2>1, <2>2, <2>3 DEF Building
<1>20. CallOK
  BY <1>1, <1>19 DEF CallOK
<1>21. OthersSettled
  <2>1. Has(plan, "new", STACK_START)
    BY <1>13, Layout DEF Stack
  <2>2. todo # <<>>
    BY <1>12, <2>1 DEF Has
  <2> QED
    BY <1>1, <2>2 DEF OthersSettled
<1> QED
  BY <1>3, <1>4, <1>6, <1>7, <1>20, <1>21 DEF PInv

LEMMA StutterP ==
    ASSUME PInv, UNCHANGED vars PROVE PInv'
<1>1. /\ UNCHANGED <<page_end, page_free>> /\ UNCHANGED npages
      /\ UNCHANGED <<live, pdir, dir, ptable>> /\ UNCHANGED <<text_end, data_end>>
      /\ UNCHANGED <<todo, proc, source>> /\ panic' = panic
  BY DEF vars, allocVars, mapVars, segVars
<1>2. NothingLost' /\ Counted'
  BY <1>1, KeepExact DEF PInv
<1>3. NoPanic' /\ DataEnds'
  BY <1>1 DEF PInv, NoPanic, DataEnds
<1>4. \A p : Settled(p)' <=> Settled(p)
  BY <1>1 DEF Settled, KernelMapped, Mapped, Seg
<1>5. OthersSettled'
  BY <1>1, <1>4 DEF PInv, OthersSettled
<1>6. (\A a : Pending(a)' <=> Pending(a)) /\ (\A a : PendingUnmap(a)' <=> PendingUnmap(a))
  BY <1>1 DEF Pending, PendingUnmap
<1>7. \A p, a : (Seg(p, a)' <=> Seg(p, a)) /\ (Mapped(p, a)' <=> Mapped(p, a))
  BY <1>1 DEF Seg, Mapped
<1>8. \A p, o : BuildingOp(p, o)' <=> BuildingOp(p, o)
  BY <1>1, <1>7 DEF BuildingOp, Seg
<1>9. Building(proc) => Building(proc)'
  BY <1>1, <1>6, <1>7, <1>8 DEF Building, BuildingOp, Seg
<1>10. Emptying(proc) => Emptying(proc)'
  BY <1>1, <1>6, <1>7 DEF Emptying, KernelMapped, Mapped
<1>11. Loading(proc) => Loading(proc)'
  BY <1>1, <1>4 DEF Loading, Settled, KernelMapped, Mapped, Seg
<1>12. Dying(proc) => Dying(proc)'
  BY <1>1, <1>6, <1>7 DEF Dying, Mapped
<1>13. CallOK'
  BY <1>1, <1>9, <1>10, <1>11, <1>12 DEF PInv, CallOK
<1> QED
  BY <1>2, <1>3, <1>5, <1>13 DEF PInv

LEMMA NextPInv == SafeBrk /\ FInv /\ PInv /\ [Next]_vars => PInv'
<1> SUFFICES ASSUME SafeBrk, FInv, PInv, [Next]_vars PROVE PInv'
  OBVIOUS
<1>1. ASSUME NEW p \in Pid, NEW child \in Pid, syscall_fork(p, child) PROVE PInv'
  BY <1>1, ForkP
<1>2. ASSUME NEW p \in Pid, NEW size \in FileSizes, syscall_execve(p, size) PROVE PInv'
  BY <1>2, ExecveP
<1>3. ASSUME NEW p \in Pid, NEW newend \in BrkArgs, syscall_brk(p, newend) PROVE PInv'
  BY <1>3, BrkP
<1>4. ASSUME NEW p \in Pid, kill_process(p) PROVE PInv'
  BY <1>4, KillP
<1>5. CASE identity_map
  BY <1>5, IdentityMapP
<1>6. CASE map_new_pages
  BY <1>6, MapNewPagesP
<1>7. CASE map_and_copy
  BY <1>7, MapAndCopyP
<1>8. CASE load_text
  BY <1>8, LoadTextP
<1>9. CASE resize_segments
  BY <1>9, ResizeSegmentsP
<1>10. CASE unmap_and_free_page
  BY <1>10, UnmapP
<1>11. CASE free_table
  BY <1>11, FreeTableP
<1>12. CASE free_dir
  BY <1>12, FreeDirP
<1>13. CASE UNCHANGED vars
  BY <1>13, StutterP
<1> QED
  BY <1>1, <1>2, <1>3, <1>4, <1>5, <1>6, <1>7, <1>8, <1>9, <1>10, <1>11, <1>12, <1>13 DEF Next

(* As long as brk is not asked for the stack, what page.c has mapped for a *)
(* process is known in every state, in the middle of a call too.           *)
THEOREM PagingInvariance == SafeBrk => (Spec => [](FInv /\ PInv))
<1> SUFFICES ASSUME SafeBrk PROVE Spec => [](FInv /\ PInv)
  OBVIOUS
<1>1. Init => FInv /\ PInv
  BY InitFInv, InitPInv
<1>2. (FInv /\ PInv) /\ [Next]_vars => (FInv /\ PInv)'
  BY NextFInv, NextPInv
<1> QED
  BY <1>1, <1>2, PTL DEF Spec

(* fork finds every page it copies, and free_page is never called more     *)
(* often than alloc_page: no assertion of page.c fails.                    *)
THEOREM PagingNeverHalts == SafeBrk => (Spec => []NoPanic)
<1>1. PInv => NoPanic
  BY DEF PInv
<1> QED
  BY <1>1, PagingInvariance, PTL

(* Every frame alloc_page ever handed out is in use or back on the free    *)
(* list, and npages counts those in use, however processes are forked,     *)
(* replace their program, grow and die.                                    *)
THEOREM NothingLeaks == SafeBrk => (Spec => []NoLeak)
<1>1. ASSUME FInv, PInv PROVE NoLeak
  <2>1. PoolOK /\ NothingLost /\ Counted /\ FramesDisjoint
    BY <1>1, FInvDisjoint DEF FInv, PInv
  <2>2. /\ page_end \in Nat /\ PAGE_START \in Nat /\ page_free \in Seq(Nat)
        /\ DOMAIN page_free = 1 .. Len(page_free)
    BY <2>1, Layout DEF PoolOK
  <2>3. \A f \in InUse \cup ToSet(page_free) : f \in PAGE_START .. (page_end - 1)
    BY <2>1 DEF FramesDisjoint
  <2>4. ASSUME NEW f \in PAGE_START .. (page_end - 1) PROVE f \in InUse \cup ToSet(page_free)
    <3>1. f \in Nat /\ f >= PAGE_START /\ ~(f >= page_end)
      BY <2>2
    <3>2. f \in InUse \/ \E i \in 1 .. Len(page_free) : page_free[i] = f
      BY <2>1, <3>1 DEF NothingLost, Avail
    <3> QED
      BY <2>2, <3>2 DEF ToSet
  <2> QED
    BY <2>1, <2>3, <2>4 DEF NoLeak, Counted
<1> QED
  BY <1>1, PagingInvariance, PTL

(* Whenever a process runs, every process has exactly its segments mapped, *)
(* and the kernel below them: a kernel entry needs no other directory.     *)
THEOREM SegmentsAlwaysMapped == SafeBrk => (Spec => []SegmentsMapped)
<1>1. ASSUME FInv, PInv PROVE SegmentsMapped
  <2> SUFFICES ASSUME todo = <<>>, NEW p \in live
               PROVE  /\ \A a \in Kernel : ptable[p][a] = a
                      /\ \A a \in UserPage : ptable[p][a] # NONE <=> Seg(p, a)
    BY DEF SegmentsMapped, Kernel, UserPage, Seg, Stack
  <2>1. Settled(p)
    BY <1>1 DEF PInv, OthersSettled
  <2> QED
    BY <2>1 DEF Settled, KernelMapped, Mapped
<1> QED
  BY <1>1, PagingInvariance, PTL

(* A sum that wrapped around is smaller than its first part.               *)
LEMMA NoWrap ==
    ASSUME NEW m \in Nat \ {0}, NEW x \in 0 .. (m - 1), NEW y \in 0 .. (m - 1),
           (x + y) % m >= x, y > 0
    PROVE  (x + y) % m = x + y /\ x + y < m
<1>1. PICK q \in Nat, r \in 0 .. (m - 1) : r = (x + y) % m /\ q * m + r = x + y
  BY Division
<1>2. CASE q = 0
  BY <1>1, <1>2
<1>3. CASE q = 1
  BY <1>1, <1>3
<1>4. CASE q >= 2
  <2>1. q * m >= 2 * m
    BY <1>4
  <2> QED
    BY <1>1, <2>1
<1> QED
  BY <1>2, <1>3, <1>4

(* What valid_pointer lets a system call read or write is mapped, byte by  *)
(* byte, and outside the kernel, for every address and every size up to    *)
(* the whole address space.                                                *)
THEOREM PointersMapped == SafeBrk => (Spec => []ValidPointersMapped)
<1>1. ASSUME FInv, PInv PROVE ValidPointersMapped
  <2>1. PICK m \in Nat \ {0} : m = AddressSpace
    <3>1. TableLength \in Nat \ {0} /\ TableCount \in Nat \ {0} /\ PAGE_SIZE \in Nat \ {0}
      BY PagingAssumption
    <3>2. TableLength * TableCount \in Nat \ {0}
      BY <3>1
    <3> QED
      BY <3>1, <3>2 DEF AddressSpace
  <2>2. PAGE_SIZE \in Nat \ {0}
    BY PagingAssumption
  <2> SUFFICES ASSUME todo = <<>>, NEW p \in live, NEW start \in 0 .. (m - 1),
                      NEW size \in 0 .. (m - 1), valid_pointer(p, start, size),
                      NEW b \in start .. (start + size - 1)
               PROVE  /\ b < m /\ b >= PAGE_START * PAGE_SIZE
                      /\ ptable[p][b \div PAGE_SIZE] # NONE
    BY <2>1 DEF ValidPointersMapped
  <2>3. size > 0 /\ b \in Nat /\ start \in Nat /\ b >= start /\ b < start + size
    OBVIOUS
  <2>4. PICK end : end = (start + size) % m
    OBVIOUS
  <2>5. /\ end >= start
        /\ \/ Within(start, end, STACK_START, STACK_BASE)
           \/ Within(start, end, DATA_BASE, data_end[p])
           \/ Within(start, end, TEXT_BASE, text_end[p])
    BY <2>1, <2>3, <2>4 DEF valid_pointer
  <2>6. end = start + size /\ end < m
    BY <2>3, <2>4, <2>5, NoWrap
  <2>7. Settled(p) /\ p \in Pid /\ text_end[p] \in TEXT_BASE .. DATA_BASE
        /\ data_end[p] \in DATA_BASE .. STACK_START
    BY <1>1 DEF PInv, OthersSettled, FInv, TypeOK, DataEnds
  <2>8. ASSUME NEW lo \in Nat, NEW hi \in Nat, Within(start, end, lo, hi)
        PROVE  b \div PAGE_SIZE \in lo .. (hi - 1)
    <3>1. PICK x \in Int, y \in Int : x = lo * PAGE_SIZE /\ y = hi * PAGE_SIZE
      BY <2>2
    <3>2. start >= x /\ end <= y
      BY <2>8, <3>1 DEF Within
    <3>3. b >= x /\ b < y
      BY <2>3, <2>6, <3>1, <3>2
    <3>4. b >= lo * PAGE_SIZE /\ b < hi * PAGE_SIZE
      BY <3>1, <3>3
    <3>5. b \div PAGE_SIZE \in Nat /\ b \div PAGE_SIZE < hi /\ b \div PAGE_SIZE >= lo
      BY <2>2, <2>3, <3>4, DivBound
    <3> QED
      BY <3>5
  <2>9. PICK g \in Nat : g = b \div PAGE_SIZE
    BY <2>2, <2>3, DivBound
  <2>10. Seg(p, g)
    <3>1. text_end[p] \in Nat /\ data_end[p] \in Nat
      BY <2>7, Layout
    <3> QED
      BY <2>5, <2>8, <2>9, <3>1, Layout DEF Seg, Stack
  <2>11. g \in UserPage /\ g \in PageNo /\ g \notin Kernel
    BY <2>7, <2>10, SegPages
  <2>12. ptable[p][g] # NONE
    BY <2>7, <2>10, <2>11 DEF Settled, Mapped
  <2>13. b >= PAGE_START * PAGE_SIZE
    <3>1. g >= PAGE_START
      BY <2>11, Layout DEF Kernel
    <3>2. b < PAGE_START * PAGE_SIZE => b \div PAGE_SIZE < PAGE_START
      BY <2>2, <2>3, Layout, DivBound
    <3>3. PICK x \in Int : x = PAGE_START * PAGE_SIZE
      BY <2>2, Layout
    <3> QED
      BY <2>3, <2>9, <3>1, <3>2, <3>3, Layout
  <2>14. b < m
    BY <2>3, <2>6
  <2> QED
    BY <2>9, <2>12, <2>13, <2>14
<1> QED
  BY <1>1, PagingInvariance, PTL

=============================================================================

------------------------------- MODULE Paging -------------------------------
(***************************************************************************)
(* The memory of the processes: source/page.c, and what fork, execve, brk  *)
(* and kill_process do with it.                                            *)
(*                                                                         *)
(* Logical and physical memory is counted in pages.  A frame is the number *)
(* of a physical page.  Every call is a series of page operations, the     *)
(* iterations of its loops in their order, which it puts into todo; the    *)
(* kernel works them off before a process runs again (it is not            *)
(* preempted).  Permission bits and the bytes in the pages are left out.   *)
(***************************************************************************)
EXTENDS Integers, Sequences, SequencesExt, FiniteSets

CONSTANTS
    MaxPid,         \* process slots 1 .. MaxPid
    PAGE_SIZE,      \* bytes of a page (4096)
    TableLength,    \* entries of a page table (1024)
    TableCount,     \* entries of a page directory (1024)
    PAGE_START,     \* pages 0 .. PAGE_START - 1 are the kernel's (6 MB)
    TEXT_BASE, DATA_BASE, STACK_START, STACK_BASE,  \* segments, in pages
    FileSizes,      \* sizes in bytes of the programs that can be executed
    BrkArgs,        \* addresses given to brk, in bytes
    MaxCalls        \* bound: system calls of one behaviour

NONE == -1

Pid     == 1 .. MaxPid
PageNo  == 0 .. (TableLength * TableCount - 1)
Dirindex == 0 .. (TableCount - 1)

(* Addresses are unsigned ints: they wrap around after the last page.      *)
AddressSpace == TableLength * TableCount * PAGE_SIZE

ASSUME PagingAssumption ==
    /\ MaxPid \in Nat \ {0} /\ PAGE_SIZE \in Nat \ {0} /\ MaxCalls \in Nat
    /\ TableLength \in Nat \ {0} /\ TableCount \in Nat \ {0}
    /\ {PAGE_START, TEXT_BASE, DATA_BASE, STACK_START, STACK_BASE} \subseteq PageNo
    /\ PAGE_START <= TEXT_BASE /\ TEXT_BASE < DATA_BASE
    /\ DATA_BASE < STACK_START /\ STACK_START < STACK_BASE
    /\ FileSizes \subseteq 0 .. ((DATA_BASE - TEXT_BASE) * PAGE_SIZE)
    /\ BrkArgs \subseteq 0 .. (AddressSpace - 1)

VARIABLES
    page_end, page_free, npages,    \* the frame allocator
    live,               \* processes that have a page directory
    pdir,               \* frame of each page directory
    dir,                \* its entries: the frames of the page tables
    ptable,             \* the entries of these tables: page -> frame
    text_end, data_end, \* ends of the segments that change their size
    todo,               \* page operations the kernel still has to do
    proc, source,       \* for this process, with pages of that one
    calls, panic

allocVars == <<page_end, page_free, npages>>
mapVars   == <<pdir, dir, ptable>>
segVars   == <<text_end, data_end>>
vars == <<allocVars, live, mapVars, segVars, todo, proc, source, calls, panic>>

(***************************************************************************)
(* The frame allocator.  free_page pushes, alloc_page pops; when nothing   *)
(* is left to pop it takes the next frame at the end, without a limit.     *)
(***************************************************************************)
(* The frames that the next calls of alloc_page return.                    *)
NextFrame(i) ==
    IF i <= Len(page_free) THEN page_free[i] ELSE page_end + i - Len(page_free) - 1

(* n calls of alloc_page.                                                  *)
alloc_page(n) ==
    /\ page_free' = SubSeq(page_free, n + 1, Len(page_free))
    /\ page_end' = IF n > Len(page_free) THEN page_end + n - Len(page_free) ELSE page_end
    /\ npages' = npages + n

free_page(f) ==
    /\ page_free' = <<f>> \o page_free
    /\ npages' = npages - 1
    /\ page_end' = page_end

(***************************************************************************)
(* Page directories                                                        *)
(***************************************************************************)
dirindex(page) == page \div TableLength

(* Frames that map_page allocates itself: a table for the page, if the     *)
(* directory has none.                                                     *)
TablesNeeded(p, page) == IF dir[p][dirindex(page)] = NONE THEN 1 ELSE 0

(* dirpage is the frame of that table.                                     *)
map_page(p, page, physical, dirpage) ==
    /\ dir' = IF dir[p][dirindex(page)] = NONE
              THEN [dir EXCEPT ![p][dirindex(page)] = dirpage] ELSE dir
    /\ ptable' = [ptable EXCEPT ![p][page] = physical]
    /\ pdir' = pdir

(* An entry can only be present in a table that is.                        *)
lookup_page(p, page) == ptable[p][page] # NONE

(***************************************************************************)
(* The page operations.  Op is the next one; the last one ends the call.   *)
(***************************************************************************)
Op == Head(todo)

Doing(kind) == todo # <<>> /\ panic = "none" /\ Op.op = kind

Advance ==
    /\ todo' = Tail(todo)
    /\ proc' = IF Len(todo) = 1 THEN NONE ELSE proc
    /\ source' = IF Len(todo) = 1 THEN NONE ELSE source
    /\ calls' = calls

(* An iteration of identity_map, and of the same loop in syscall_fork.     *)
identity_map ==
    /\ Doing("identity")
    /\ map_page(proc, Op.at, Op.at, NextFrame(1))
    /\ alloc_page(TablesNeeded(proc, Op.at))
    /\ Advance
    /\ UNCHANGED <<live, segVars, panic>>

(* A page, and then perhaps a table for it.                                *)
map_new_page ==
    /\ map_page(proc, Op.at, NextFrame(1), NextFrame(2))
    /\ alloc_page(1 + TablesNeeded(proc, Op.at))
    /\ Advance
    /\ live' = live

map_new_pages ==
    /\ Doing("new")
    /\ map_new_page
    /\ UNCHANGED <<segVars, panic>>

map_and_copy ==
    /\ Doing("copy")
    /\ map_new_page
    /\ panic' = IF lookup_page(source, Op.at) THEN panic ELSE "map_and_copy"
    /\ UNCHANGED segVars

(* An iteration of the loop of execve that reads the program.              *)
load_text ==
    /\ Doing("load")
    /\ map_new_page
    /\ text_end' = [text_end EXCEPT ![proc] = Op.at + 1]
    /\ UNCHANGED <<data_end, panic>>

resize_segments ==
    /\ Doing("resize")
    /\ text_end' = [text_end EXCEPT ![proc] = TEXT_BASE]
    /\ data_end' = [data_end EXCEPT ![proc] = DATA_BASE]
    /\ Advance
    /\ UNCHANGED <<allocVars, live, mapVars, panic>>

(* The assertion of free_page.                                             *)
FreeAsserts == IF npages > 0 THEN panic ELSE "free_page"

unmap_and_free_page_keeps_entry ==
    /\ Doing("unmap")
    /\ IF lookup_page(proc, Op.at)
       THEN free_page(ptable[proc][Op.at]) /\ panic' = FreeAsserts
       ELSE UNCHANGED <<allocVars, panic>>
    /\ Advance
    /\ UNCHANGED <<live, mapVars, segVars>>

unmap_and_free_page ==
    /\ Doing("unmap")
    /\ IF lookup_page(proc, Op.at)
       THEN /\ free_page(ptable[proc][Op.at])
            /\ ptable' = [ptable EXCEPT ![proc][Op.at] = NONE]
            /\ panic' = FreeAsserts
       ELSE UNCHANGED <<allocVars, ptable, panic>>
    /\ Advance
    /\ UNCHANGED <<live, pdir, dir, segVars>>

(* An iteration of free_page_dir: the table and all that it maps.          *)
free_table ==
    /\ Doing("table")
    /\ IF dir[proc][Op.at] # NONE
       THEN /\ free_page(dir[proc][Op.at])
            /\ dir' = [dir EXCEPT ![proc][Op.at] = NONE]
            /\ ptable' = [ptable EXCEPT ![proc] = [page \in PageNo |->
                   IF dirindex(page) = Op.at THEN NONE ELSE @[page]]]
            /\ panic' = FreeAsserts
       ELSE UNCHANGED <<allocVars, dir, ptable, panic>>
    /\ Advance
    /\ UNCHANGED <<live, pdir, segVars>>

(* The end of free_page_dir.  The fields of the slot are never read again: *)
(* they are forgotten here.                                                *)
free_dir ==
    /\ Doing("dir")
    /\ free_page(pdir[proc])
    /\ panic' = FreeAsserts
    /\ live' = live \ {proc}
    /\ pdir' = [pdir EXCEPT ![proc] = NONE]
    /\ text_end' = [text_end EXCEPT ![proc] = TEXT_BASE]
    /\ data_end' = [data_end EXCEPT ![proc] = DATA_BASE]
    /\ Advance
    /\ UNCHANGED <<dir, ptable>>

(***************************************************************************)
(* The calls                                                               *)
(***************************************************************************)
(* The iterations of a loop from page a to page b (exclusive).             *)
Loop(kind, a, b) == [i \in 1 .. (b - a) |-> [op |-> kind, at |-> a + i - 1]]

One(kind) == <<[op |-> kind, at |-> 0]>>

Idle == todo = <<>> /\ panic = "none" /\ calls < MaxCalls

Begin(p, plan) == todo' = plan /\ proc' = p /\ calls' = calls + 1

(* Number of pages of so many bytes.                                       *)
RoundUp(n) == IF n % PAGE_SIZE # 0 THEN n \div PAGE_SIZE + 1 ELSE n \div PAGE_SIZE

start_plan == Loop("identity", 0, PAGE_START) \o Loop("new", STACK_START, STACK_BASE)

(* start_process for the first process, which has just taken a page for    *)
(* its page directory.  The mappings of the kernel's code are renewed by   *)
(* it with other permission bits.                                          *)
Init ==
    /\ page_end = PAGE_START + 1 /\ page_free = <<>> /\ npages = 1
    /\ live = {1}
    /\ pdir = [p \in Pid |-> IF p = 1 THEN PAGE_START ELSE NONE]
    /\ dir = [p \in Pid |-> [i \in Dirindex |-> NONE]]
    /\ ptable = [p \in Pid |-> [page \in PageNo |-> NONE]]
    /\ text_end = [p \in Pid |-> TEXT_BASE]
    /\ data_end = [p \in Pid |-> DATA_BASE]
    /\ todo = start_plan /\ proc = 1 /\ source = NONE
    /\ calls = 0 /\ panic = "none"

fork_plan_no_data(p) ==
    Loop("identity", 0, PAGE_START)
        \o Loop("copy", TEXT_BASE, text_end[p])
        \o Loop("copy", STACK_START, STACK_BASE)

fork_plan_inclusive(p) ==
    Loop("identity", 0, PAGE_START)
        \o Loop("copy", TEXT_BASE, text_end[p] + 1)
        \o Loop("copy", DATA_BASE, data_end[p] + 1)
        \o Loop("copy", STACK_START, STACK_BASE)

fork_plan(p) ==
    Loop("identity", 0, PAGE_START)
        \o Loop("copy", TEXT_BASE, text_end[p])
        \o Loop("copy", DATA_BASE, data_end[p])
        \o Loop("copy", STACK_START, STACK_BASE)

syscall_fork(p, child) ==
    /\ Idle
    /\ p \in live /\ child \notin live
    /\ Begin(child, fork_plan(p))
    /\ source' = p
    /\ live' = live \cup {child}
    /\ pdir' = [pdir EXCEPT ![child] = NextFrame(1)]
    /\ alloc_page(1)
    /\ text_end' = [text_end EXCEPT ![child] = text_end[p]]
    /\ data_end' = [data_end EXCEPT ![child] = data_end[p]]
    /\ UNCHANGED <<dir, ptable, panic>>

execve_plan(p, size) ==
    Loop("unmap", TEXT_BASE, text_end[p])
        \o Loop("unmap", DATA_BASE, data_end[p])
        \o One("resize")
        \o Loop("load", TEXT_BASE, TEXT_BASE + RoundUp(size))

(* execve once the file has been found; its errors change nothing.         *)
syscall_execve(p, size) ==
    /\ Idle
    /\ p \in live
    /\ Begin(p, execve_plan(p, size))
    /\ UNCHANGED <<allocVars, live, mapVars, segVars, source, panic>>

(* A call that asks for less than there is changes nothing.  There is no   *)
(* upper limit; the rounded address wraps around like every other.         *)
(* data_end is written last in the code; nothing reads it in between.      *)
syscall_brk(p, newend) ==
    /\ Idle
    /\ p \in live
    /\ newend > data_end[p] * PAGE_SIZE
    /\ Begin(p, Loop("new", data_end[p], RoundUp(newend)))
    /\ data_end' = [data_end EXCEPT ![p] = RoundUp(newend) % (TableLength * TableCount)]
    /\ UNCHANGED <<allocVars, live, mapVars, text_end, source, panic>>

kill_plan_no_tables(p) ==
    Loop("unmap", STACK_START, STACK_BASE)
        \o Loop("unmap", DATA_BASE, data_end[p])
        \o Loop("unmap", TEXT_BASE, text_end[p])
        \o One("dir")

kill_plan(p) ==
    Loop("unmap", STACK_START, STACK_BASE)
        \o Loop("unmap", DATA_BASE, data_end[p])
        \o Loop("unmap", TEXT_BASE, text_end[p])
        \o Loop("table", 0, TableCount)
        \o One("dir")

kill_process(p) ==
    /\ Idle
    /\ p \in live
    /\ Begin(p, kill_plan(p))
    /\ UNCHANGED <<allocVars, live, mapVars, segVars, source, panic>>

Next ==
    \/ \E p \in Pid :
         \/ \E child \in Pid : syscall_fork(p, child)
         \/ \E size \in FileSizes : syscall_execve(p, size)
         \/ \E newend \in BrkArgs : syscall_brk(p, newend)
         \/ kill_process(p)
    \/ identity_map \/ map_new_pages \/ map_and_copy \/ load_text
    \/ resize_segments \/ unmap_and_free_page \/ free_table \/ free_dir

Spec == Init /\ [][Next]_vars

(***************************************************************************)
(* The test that system calls make on the pointers they are given, in      *)
(* bytes.                                                                  *)
(***************************************************************************)
Within(start, end, a, b) == start >= a * PAGE_SIZE /\ end <= b * PAGE_SIZE

valid_pointer_wraps(p, start, size) ==
    LET end == (start + size) % AddressSpace IN
    \/ size = 0
    \/ Within(start, end, STACK_START, STACK_BASE)
    \/ Within(start, end, DATA_BASE, data_end[p])
    \/ Within(start, end, TEXT_BASE, text_end[p])

valid_pointer(p, start, size) ==
    LET end == (start + size) % AddressSpace IN
    \/ size = 0
    \/ /\ end >= start
       /\ \/ Within(start, end, STACK_START, STACK_BASE)
          \/ Within(start, end, DATA_BASE, data_end[p])
          \/ Within(start, end, TEXT_BASE, text_end[p])

(***************************************************************************)
(* Properties                                                              *)
(***************************************************************************)
(* No process asks for memory behind the start of the stack, which brk     *)
(* would give it.                                                          *)
SafeBrk == \A newend \in BrkArgs : newend <= STACK_START * PAGE_SIZE

(* What the frames of the live processes are used for.                     *)
DirUses   == {<<"dir", p, 0>> : p \in live}
TableUses == {<<"table", p, i>> : p \in live, i \in Dirindex}
PageUses  == {<<"page", p, a>> : p \in live, a \in PageNo \ (0 .. (PAGE_START - 1))}

FrameOf(u) == CASE u[1] = "dir"   -> pdir[u[2]]
                [] u[1] = "table" -> dir[u[2]][u[3]]
                [] u[1] = "page"  -> ptable[u[2]][u[3]]

Uses  == {u \in DirUses \cup TableUses \cup PageUses : FrameOf(u) # NONE}
InUse == {FrameOf(u) : u \in Uses}

(* No assertion of page.c or map_and_copy fails: every page of a segment   *)
(* that fork copies is there, and free_page is never called too often.     *)
NoPanic == panic = "none"

(* No frame is used for two things, of the same process or of different    *)
(* ones, no free frame is in use, and the frames of the kernel never get   *)
(* into the hands of the allocator: processes cannot reach each other's    *)
(* memory, and the links of the free list overwrite nothing.               *)
FramesDisjoint ==
    /\ \A u, v \in Uses : FrameOf(u) = FrameOf(v) => u = v
    /\ IsInjective(page_free)
    /\ ToSet(page_free) \cap InUse = {}
    /\ \A f \in InUse \cup ToSet(page_free) : f \in PAGE_START .. (page_end - 1)

(* Every frame that was ever taken is in use or free, in the middle of a   *)
(* call too, and npages counts those in use: nothing leaks when processes  *)
(* are forked, replace their program, grow or die.                         *)
NoLeak ==
    /\ InUse \cup ToSet(page_free) = PAGE_START .. (page_end - 1)
    /\ npages = Cardinality(InUse)

(* While processes run, each maps the whole kernel onto itself (a kernel   *)
(* entry changes no page directory), its segments, and nothing else.       *)
SegmentsMapped ==
    todo = <<>> => \A p \in live :
        /\ \A a \in 0 .. (PAGE_START - 1) : ptable[p][a] = a
        /\ \A a \in PageNo \ (0 .. (PAGE_START - 1)) : ptable[p][a] # NONE <=>
              \/ a \in TEXT_BASE .. (text_end[p] - 1)
              \/ a \in DATA_BASE .. (data_end[p] - 1)
              \/ a \in STACK_START .. (STACK_BASE - 1)

(* What valid_pointer accepts can be read and written by the kernel        *)
(* without a page fault, and is no memory of the kernel.                   *)
ValidPointersMapped ==
    todo = <<>> => \A p \in live, start, size \in 0 .. (AddressSpace - 1) :
        valid_pointer(p, start, size) =>
            \A b \in start .. (start + size - 1) :
                /\ b < AddressSpace /\ b >= PAGE_START * PAGE_SIZE
                /\ ptable[p][b \div PAGE_SIZE] # NONE

=============================================================================

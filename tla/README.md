# A TLA+ model of AdelaideOS

AdelaideOS is a teaching kernel for the x86: processes with round-robin
scheduling, system calls, paging, a buddy allocator, pipes and file
descriptors, fork/execve/waitpid, messages, and a read-only RAM-disk file
system. Everything here is about `src/source/` with all `USE_*` features of
`constants.h` switched on (version 9). The directories `dist/`, `guide/`,
`web/` and `testfiles/` hold generated copies of that code, documentation and
data.

## 1. The system

| Part | State | Operations | Hard behaviour |
|---|---|---|---|
| Process table, scheduler (`process.c`, `kernel.h`) | slots (`exists`, `ready`, `exited`, `parent_pid`, `waiting_on`, `in_syscall`), lists `ready` and `suspended`, `current_process` | `start_process`, `suspend_process`, `resume_process`, `kill_process`, `context_switch` | calls blocked in the kernel are executed again from the start when the process is scheduled; slots are reused; pids stored elsewhere go stale |
| Pipes (`pipe.c`) | `reading`, `writing`, `len`, `readpid`, buffer | create, read, write, destroy an end | one blocked reader per pipe; wake-ups on write and on the last close |
| Descriptors, handles (`filedesc.c`) | `filedesc[]`, `refcount` | close, dup2, inheritance by fork, closing by kill | handles shared between processes |
| Process calls (`unixproc.c`) | – | fork, execve, waitpid (exit and kill in `syscall.c`) | child and parent race to exit and to wait |
| Messages (`syscall.c`) | `mailbox`, `mailbox_size`, `receive_blocked` | send, receive | bounded mailbox, blocked receiver |
| Call dispatch (`syscall.c`) | `in_syscall`, `last_errno` | `syscall`, `valid_pointer`, `brk` | suspension (`-ESUSPEND`), wrap-around of addresses |
| Interrupts (`interrupts.c`, `main.c`) | timer ticks, shift state | timer, keyboard, page fault, system call | the keyboard wakes a reader and switches context; the timer preempts |
| Paging (`page.c`) | `page_end`, `page_free`, `npages`, page directories and tables | map, unmap, allocate and free frames | ownership of frames across fork, execve, brk and kill |
| Buddy allocator (`buddy.c`) | `blocks[]`, `freelist[]` | `buddy_alloc`, `buddy_free` | split and merge loops over two structures that must agree |
| File system (`filesystem.c`, `fscalls.c`) | read-only image, `cwd`, position of a handle | lookup, path resolution, open, read, stat, getdent, chdir | `.` and `..`, truncation of paths at the size of the buffer; positions shared after fork |
| Image builder (`fstool.c`) | image so far, open directories | `process_dir`, `process_file` | locations known late, blocks written twice |
| Shell (`sh.c`) | line buffer | read, echo, split lines, run them | input in pieces of any size; a program reads from the same pipe |
| Screen (`main.c`) | cells, cursor | write, scroll | wrap, tab and scroll at the edges |
| Message tests (`mptest.c`) | processes, their mailboxes | ping-pong, broadcast, ring, ... | order of messages, cleaning up, everyone waiting |
| C library (`libc.c`) | – | memmove, strings, formatting | – |
| Boot, segmentation, other programs | – | – | – |

The parts interact by plain calls and shared globals. The only concurrency is
between processes: interrupts are off in the kernel (interrupt gates,
`start.s`), so a kernel entry runs to its end. That end may be in another
process (`context_switch`), and a blocked call leaves facts behind (`readpid`,
`receive_blocked`, `waiting_on`, a list membership) that other processes act
upon later. That is where the errors of such a kernel live, and what the core
of this project is about.

## 2. Modules

| Module | Models | Lines of argument |
|---|---|---|
| `Process` | process table, scheduler lists, `context_switch`, `kill_process` | operators, one per C function |
| `FileDesc` | handles, reference counts, pipes; extends `Process` | operators, one per C function |
| `Kernel` | the system calls and interrupts, composed from the two; extends `FileDesc` | `Spec`, `FairSpec` |
| `KernelProps` | properties and the inductive invariant `IInv` | |
| `KernelProofs` | theorems about processes, calls and wake-ups | TLAPS |
| `HandleProofs` | theorems about handles and pipe ends; extends `KernelProofs` | TLAPS |
| `MCKernel` | workloads for TLC | |
| `Buddy`, `Heap`, `MCBuddy` | `buddy.c`; the abstract heap it implements | refinement |
| `BuddyProofs` | theorems about `Buddy`; extends `TextProofs` | TLAPS |
| `Paging`, `MCPaging` | `page.c`, the memory side of process start, fork, execve, brk and kill; `valid_pointer` | |
| `FrameProofs`, `PagingProofs` | theorems about `Paging`: who owns a frame; what is mapped | TLAPS |
| `Text` | memory blocks, strings that end at a NUL (`libc.c`); fields of a text as a reference | operators |
| `TextProofs` | induction, recursion and least elements; what `memmove` does | TLAPS |
| `PipeBuffer` | the bytes of a pipe and its growing buffer (`pipe.c`) | operators |
| `ByteStream` | abstract: a reliable stream of bytes | `Spec` |
| `Screen` | `write_to_screen`, `scroll` (`main.c`) | operators, and an endless sheet as reference |
| `Shell` | `sh.c`, the argument block of `execve`; extends `PipeBuffer`, `Screen` | one action per step of the main loop |
| `Terminal`, `MCTerminal` | `keyboard_handler`, and the way from a key to the screen; extends `Shell` | `Spec`, `FairSpec`, refinement of `ByteStream` |
| `TerminalProofs` | theorems about `Terminal`; extends `TextProofs` | TLAPS |
| `Image` | `fstool -build`; path resolution (`filesystem.c`) | actions `Build`, operators |
| `Files`, `MCFiles` | `fscalls.c` and shared handles; extends `Image` | `Spec` |
| `FilesProofs` | theorems about `Files` and `Image`; extends `TextProofs` | TLAPS |
| `MPTest`, `MCMPTest` | the processes of `mptest.c` and the contents of mailboxes; extends `Kernel` | `MPSpec`, `MPFairSpec` |

### Kernel

Variables have the names of the C fields and globals (`isready` is the field
`ready`, since `ready` is the list). `kpc` says which kernel code runs next:

* `"user"`: interrupts are enabled; a process may make a call, fault, or be
  interrupted by the timer or the keyboard;
* `"switch"`: `context_switch` is about to choose a process;
* `"restart"`: the chosen process is inside a call, which is repeated;
* `"kill"`: `kill_process` closes the descriptors of `victim` one by one
  (`kfd` is the loop variable), then runs its remaining part.

While `kpc` is not `"user"` only that code is enabled, so these steps are
forced, and each invariant also holds in the middle of `kill_process` and
between a suspension and the switch that follows.

* One action per system call and interrupt. A call that fails without changing
  anything is a stuttering step and not written out; `waitpid` clears
  `waiting_on` before it fails, so its failure is an action.
* The arguments of a call stay on the user stack (`arg`, `count`) while it is
  blocked, and the repeated call takes them from there.
* A failed assertion sets `panic`, which disables everything, as the halt in
  the code does. Use of freed memory (a freed mailbox, the page directory of a
  dead process, a second free) is also a `panic`.
* Handles and pipes come from the kernel heap: `NHandles` and `NPipes` bound
  how many exist at once, and freed ones are reused. Only the number of bytes
  in a pipe and of messages in a mailbox is kept.
* `context_switch` reads `current_process->ready` even when `current_process`
  is `NULL`. Address 0 is mapped, and both values of that read lead to the head
  of the ready list, which is what `next_process` says.
* `Workload` is the set of calls that are made, `KillTargets` and `SendTargets`
  the conditions of the processes that kill and send are used on. The kernel
  does not stand every workload: killing a process that is blocked in `read`,
  killing a dead process and sending to a dead process break it (section 4).
  `SafeWorkload` excludes exactly these, and is the hypothesis of the theorems.

### Buddy

Blocks are named by their offset, sizes by their base-2 logarithm. `pc` cuts
`buddy_alloc` and `buddy_free` at their loops: one action per split
(`alloc_split`) and per merge (`free_merge`), so `NoPanic` covers every
assertion on the way. A free list is a sequence instead of links inside the
free blocks; `AreaPartitioned` is what makes this sound, since it says that no
free block lies in memory a caller may write to. `Heap` is the promise to the
callers, and `HeapSpec` the refinement (`held` is the same variable).

### Paging

Memory is counted in pages. Each call puts the iterations of its loops, in
their order, into `todo` (`fork_plan`, `execve_plan`, `kill_plan`), and one
action per kind of page operation works them off. `page_free` is the LIFO free
list. Slots of zombies and free slots are the same here (no memory), so the
child of a fork may be any slot that is not `live`.

### Terminal

One pipe, one shell, at most one program of the shell, and a keyboard that
interrupts between any two steps. The pipe buffer and the line buffer are
memory blocks (`data`, `input`), and reads and writes move bytes in them as the
code does; `JUNK` is memory nobody has written to, so reading it would show.
`spc` is the place in the shell's main loop: `read`, `echo`, `scan`, `wait`
(in waitpid) and `exited`. A command is what `Kind` says of its name: a program
(which may read keys, print and end, or fail to start), a built-in command, or
`exit`; error messages and the output of `pwd` are the two characters
`Message`. `got`, `own`, `ran`, `out` and `typed` are histories that no action
reads. Blocking is `reader_blocked` here; who is woken up, and that no wake-up
is lost when several processes share a pipe, is the business of `Kernel`.

The argument block of `execve` is laid out byte by byte (`argblock`), with its
pointers as offsets, and `ArgumentsArrive` reads it back the way the new
program does.

`KeyStream` is a refinement: `Stream == INSTANCE ByteStream WITH sent <- typed,
delivered <- got`, and `Terminal` implements `Stream!Spec`. A wrong offset in
the shifting or the copying of the buffer makes some step deliver bytes that
are not the next ones.

### Files

The image is a sequence of cells, of which a directory's count, an entry and a
byte of a file take one each; `location` is an index into it as in the code.
`Image` first builds it (a stack of `process_dir` calls, one action per entry,
directory blocks written twice), then `Files` lets processes work on it. A
process keeps its working directory as a string, and every call makes an
absolute string of its argument and walks it, character by character, in the
way `relative_to_absolute` and `get_directory_entry` do. The reference is a walk
through the host's tree on sequences of names (`Walk`), with `place` as the
history of where a process should be. Once a path has been cut off at
`PATH_MAX`, `place` is `LOST`: nothing but existence and length is claimed
after that.

### MPTest

The programs of `mptest.c` as processes of `Kernel`: each step is one system
call, made through the actions of `Kernel`, so that every blocking, repeated
call, preemption and slot reuse of that module happens here too; in addition a
mailbox has contents (`box`), which `send` appends to and `receive` takes
from. `pc` and `loc` are the program counter and the local variables of each
process. `KillTargets` and `SendTargets` are not restricted: that the tests
never kill or send to the processes the kernel cannot stand it for is part of
what `NoneFails` shows. The shell is a process that starts the program again
when it ends.

## 3. Runs that pass

| Run | Instance | Shows |
|---|---|---|
| `processes` | 3 processes, mailboxes of 2; fork, exit, kill, send, receive, faults | lists, current process, family relation, mailbox bound, wakers valid, with kills of blocked receivers |
| `pipes` | 2 processes, 2 pipes, 3 handles, dup2, keyboard | no assertion fails, no wake-up lost, blocked readers hold their pipe, ends follow handles, reference counts exact, also in the middle of `kill_process` |
| `liveness` | 3 processes; fork, exit, waitpid, receive, read, keyboard | a repeated waitpid completes, zombies kept, kernel entries end although a repeated read may block again, ready processes run, waitpid returns |
| `buddy` | 8 granules of 2 bytes; sizes 0, 2, 7, 8, 16 | partition, refusal only when the blocks in use leave no room for a longer block (so everything is merged), refinement of `Heap` |
| `paging` | 3 processes, 8 pages, 5 calls | frames disjoint, no leak, address spaces exact, accepted pointers mapped |
| `terminal` | 5 key presses, buffers of 3, a screen of 4 x 2 | keys form a stream (refinement of `ByteStream`), the pipe grows on demand, lines run whole and in order, arguments arrive, the line buffer holds, the screen shows the tail, sleeping readers are woken up |
| `files` | 2 trees, 2 processes, 2 descriptors, 2 handles, `PATH_MAX` 5 | the image is a partition, stat agrees with the tree, working directories canonical, paths fit, shared files and directories read once |
| `mptest` | 5 slots: shell, program and 2 children; 2 pings, 2 slaves, a ring of 2 with 3 passes, mailboxes of 2 | no assertion of a test fails, the kernel does not halt, tests clean up, one token, tests end |

Every property has a mutant in `PROJECT.json`, a plausible error in one
definition that makes TLC find that property violated.

Some properties of the kernel have a part for each of the three calls that
block, and no run has them all, since three kinds of blocking at once are too
many states. `WakersValid` is checked for receivers, `NoLostWakeup` for readers,
and `RestartCompletes` for waitpid (in `liveness` no message is sent, so that a
receive is never repeated). The other parts rest on the theorems `WakersSafe`,
`WakeupsKept` and `RestartsComplete` of section 5, which are about every
workload at once. `KernelReturns` has no theorem; `liveness` reaches its
difficult case, a reader that is woken up, loses the key to another process
with the same handle, and blocks a second time inside `context_switch`.
`EveryReadyRuns` holds in `liveness`, where keys and dying children wake up
processes; it is not true of processes that wake each other by messages
(`starvation`).

**Bounds.** Three processes are a killer, a victim and its parent, or two
readers and a writer, which are all the roles one step of the code relates;
`starvation` needs four. `MAX_FDS` is 3, the least the boot process needs, so
`pipe` needs two closes first, and the error of having no free descriptor
happens as well. In `pipes` there are three handles: the reader of the keyboard
and, when the two screen handles are closed, the ends of one other pipe; dup2
replaces descriptors 0 and 1 (`DupTargets`; no program of the repository calls
it, and the theorems leave it open). Mailboxes hold 1 or 2 messages (8 in the code), pipes and
transfers at most 1 byte (`MaxLen`, `MaxCount`; no code of `Kernel` compares
the length with anything but 0 and the count): full, empty and in between
all occur. The buddy area has 8 granules: three levels of splitting, fragmented
areas, and requests that fit nothing. In `paging`, a table maps two pages,
so that kernel, text, data and stack each have a table of their own as in the
real layout, a program has 0 or 2 pages (1.5 rounded up), the data segment 0,
1 or 2. `MaxCalls` bounds the length of a behaviour to five calls of up to
sixteen page operations, enough for frames to be freed and reused by another
process. `CHECK_DEADLOCK FALSE` is set there because the behaviour ends with the
last call or the last process.

In `terminal`, `BUFSIZE` is 3 and `MaxTyped` 5: the pipe's buffer doubles, the
line buffer of 7 bytes is filled behind a kept rest, lines of up to 5
characters and up to 5 lines occur, and words beyond `MAX_ARGS`. The keys are a
letter, ENTER, CTRL (a NUL) and, with shift, a space. The screen of 4 x 2 with
tabs of 2 wraps and scrolls after a few characters. `parse_command` is also
compared with its reference for all lines of up to 7 characters, an assumption
of `MCTerminal`. `CHECK_DEADLOCK FALSE`: the shell may exit, and keys run out.
In `files`, two trees have nested, empty and ignored directories, empty files
and a name that begins like another; path names include empty ones, doubled
and final slashes, `..` above the root, and some longer than `PATH_MAX`. In
`mptest` a test has at most two children at a time; with three (a ring
of three, three slaves, mailboxes of three, 509 000 states) the three
invariants have been checked too.

**Fairness.** `WF(KernelStep)`: kernel code is not interrupted and runs on.
`SF(timer_handler)`: the timer ticks 50 times per second and a tick that comes
while interrupts are off stays pending in the interrupt controller until the
next return to user mode, so it is taken although it is not enabled
continuously. Nothing is assumed of the processes: a process may never make a
call. `terminal` assumes weak fairness of the shell's steps, which is what the
kernel gives a process that is ready (`EveryReadyRuns`, for up to three
processes); `ShellFairness` writes out when a step is enabled. Nothing is
assumed of keys and programs, so `KeysDelivered` leaves out the time in which a
program runs. `mptest` adds to the fairness of the kernel that a process which
is run again and again reaches its next call (strong fairness per process): a
time slice of 20 ms is longer than the way from one call to the next in these
programs. No fairness is assumed of the keyboard.

## 4. Where the code and its comments disagree

| Run | What happens |
|---|---|
| `starvation` | Woken and new processes enter the ready list at the head, and the scheduler returns to the head whenever the current process has blocked. Three processes that exchange messages keep a fourth waiting for ever, although it is ready. |
| `kill_reader` | `kill_process` leaves the victim's pid in the pipe it was blocked on; the next write wakes up a dead process. |
| `long_line` | The shell says that a line that does not fit is ignored, but only drops what it has of it; the rest is run as a command. |
| `buddy_rounding` | The comment of `buddy_alloc` says that a size is rounded up to the nearest power of two, but `mforsize` gives a request of exactly 2^k bytes a block of 2^(k+1). So it is refused while a block of 2^k is free, and the whole area can never be allocated. |

Not runs of their own, but in the models:

* with `"zombie"` in `KillTargets`, `NoPanic` fails (descriptors, pages and
  mailbox freed twice), and with `"zombie"` in `SendTargets`, `ListsConsistent`
  or `NoPanic` fails (a zombie on the ready list, a message in a freed mailbox);
* a dead child whose parent exits without waiting for it keeps its slot for
  ever;
* a woken reader can find the pipe empty again, or with another reader, if it
  shares its handle;
* `brk` has no limit: with addresses beyond the stack in `BrkArgs`, the frames
  of the stack are lost (`NoLeak` fails);
* a path longer than `PATH_MAX` is cut off silently, and chdir accepts the
  result if it names a directory.

## 5. What is proved

Each theorem holds for every value of the constants that the named assumptions
of the modules allow, so for every number of processes, size of buffers,
screen, heap or address space. Each rests on an inductive invariant, which TLC
checked on the instance of section 3 before it was proved; of the invariants
with a quantifier that TLC cannot enumerate (`RunOK`, `ImageInv`) it checked the
consequences.

### Processes (`KernelProofs`)

For every safe workload:

* `Invariance`: `SafeWorkload => (Spec => []IInv)`;
* `TypeCorrect`, `SchedulerLists`, `CurrentProcess`, `WakeupsKept`,
  `WakersSafe`, `ParentsLive`, `RestartsComplete`: the properties `TypeOK`,
  `ListsConsistent`, `CurrentValid`, `NoLostWakeup`, `WakersValid`,
  `ParentAlive` and `RestartCompletes` as consequences;
* `SchedulerSafe`: the assertions about processes never fail, no dead process
  is scheduled, nothing of a dead process is used or freed again;
* `ZombiesKept`: the action property `ZombieKept`.

None of these is inductive alone. That no wake-up is lost needs to know that
whoever is registered with a waker is suspended (`WakersValid`) and in the
matching call, with one pipe only (`RegisteredOnce`); that needs the lists to
agree with `isready` (`ListsConsistent`), since `resume_process` is only
defined on suspended processes; that needs `kill_process` to be entered with a
live process (`KillValid`), while it is in no list. `RestartCompletes` needs
that what a process was woken up for stays true while it waits for the
processor (`WokenValid`), which for waitpid rests on the family relation
(`FamilyValid`): only the parent can reap a zombie, and the parent is that
blocked process. `CallsValid` excludes other calls in progress,
`HandlesValid` and `MailboxValid` give the accesses of the steps their types.

The proof follows the code: lemmas for `list_add` and `list_remove`, then for
`suspend_process` and `resume_process`; what a change of a pipe may do to the
invariant (`PipeEffectInv`, `PipeStep`) once for all calls that touch pipes; what
a completed and a blocked call do (`ReturnStep`, `BlockStep`) once for the
three that may block; then one lemma per action.

### Handles and pipes (`HandleProofs`)

`HInv`, inductive relative to `IInv`: reference counts are exact
(`RefcountsExact`), each open end of a pipe belongs to exactly one handle
(`EndsMatched`, of which `PipeEnds` is the consequence in numbers), and whoever
is blocked on a pipe holds a descriptor of its read end (`ReadersHoldPipes`).
They need each other: a close frees a handle because the count is exact, frees
an end because the handle was its only one, and frees no pipe under a reader
because the reader's descriptor is still counted. `KernelNeverHalts` is the
whole of `NoPanic`. The counting is about finite sets of descriptors: what
fork, dup2, close and one iteration of `kill_process` do to `Holders(h)`.

### Frames and pages (`FrameProofs`, `PagingProofs`)

`FInv` says what each frame is: a page directory, a page table or a page, one
of them only (`OwnedOnce`), and none that `alloc_page` may still return
(`OwnedTaken`); since the loops of a call are cut after every page operation, it
also says what the operations left in `todo` may rely on (`OpsValid`,
`TablesPresent`, `DirFreedLast`). `FramesNeverShared` needs no hypothesis about
the callers.

The rest (`NothingLeaks`, `SegmentsAlwaysMapped`, `PointersMapped`,
`PagingNeverHalts`) has the hypothesis `SafeBrk`: no process asks for memory
behind the start of the stack. `syscall_brk` does not check this, and with such
an argument the heap grows into the stack's pages; `MCPaging` evaluates
`SafeBrk` for its instance. `PInv` describes a process in the middle of each
loop (`Building`, `Emptying`, `Loading`, `Dying`): which pages are mapped
already, and which are still listed in `todo`.

### From the keyboard to the screen (`TerminalProofs`)

`TInv`: what was typed is what was read followed by the bytes in the pipe's
block (`StreamOK`), the positions of the shell stay in their buffer in each
part of its loop (`ShellOK`), and the screen is the end of the sheet on which
everything was written (`ScreenOK`). Theorems: `BufferNeverOverflows`,
`ScreenShows`, `GrowthOnDemand` (an action property) and `KeyStreamReliable`,
the refinement of `ByteStream`. The lemmas it rests on are about the operators:
`memmove` copies a range down as if at once (`MemmoveDown`), doubling ends at
the first size that is enough, one character has the same effect on screen and
sheet.

`ArgumentsDelivered` and `ShortLinesAreRun` are about what the shell computes.
For the first, `ParsedWords` shows that the scan of `parse_command` finds the
fields of a line (`Fields`, by `ScanStep` for any scan of that kind), and
`Layout` and `BlockString` that the strings packed from the end of the argument
block downwards do not overlap and are read back whole; the invariant `ArgsOK`
keeps the words below the size of the line buffer. For the second, `RunOK` says
that for some `p` the first `p` characters that the shell has read are whole
lines, and run, and the others are in the buffer (`Follows`); each action of
the loop moves `p` or the kept part (`FollowsRead`, `FollowsLine`,
`FollowsCompact`), and a text whose lines are `Short` is never dropped.

### The heap (`BuddyProofs`)

`BInv`, in the middle of each call too: the sizes in the array `blocks` divide
the area into aligned blocks (`Partition`), the free lists hold exactly the
free blocks, each once (`Lists`), the blocks in use are those of the callers
and long enough (`Owned`), and no two free buddies wait to be merged
(`Compact`), except for the block that the call under way has in hand
(`Detached`, `Loose`). Theorems: `BuddyNeverPanics`, `BuddyDivides`,
`BuddyRefusesRightly`, and `BuddyIsHeap`, the refinement of `Heap`.

The argument is arithmetic on powers of two: `GetBuddy` shows that flipping a
bit of an aligned offset finds the other half of a block twice the size;
`SplitPartition` and `MergePartition` that halving and joining keep the area
divided. `BuddyRefusesRightly` measures a request in bytes: if it is refused,
every aligned region that is longer than it meets a block in use. `ForSizeLeast`
shows that `mforsize` finds the least such length, so that all free lists from
there on are empty. Now take the smallest free block in an aligned region that
no block in use meets. Its buddy lies in the region as well and is
covered by free blocks; a larger one would overlap the smallest, so the buddy
is free and of the same size, which `Compact` excludes.

`BuddyAssumption` asks for `LOWER > 0`, since a size of 0 in `blocks` stands
for "no block" (the code uses 8), and for requests below `2^MAXORDER`, beyond
which the loop of `mforsize` would overflow.

### The file system (`FilesProofs`)

`FilesInv` holds for every tree of the host, set of path names, `PATH_MAX` and
number of processes. It has three parts.

* `ImageInv`: while `fstool` is at work there is a layout `loc`, a function from
  the places that have been reached to locations, whose areas are apart and
  without a gap (`Placed`); what it places is in the image as it should be
  (`Stored`), or it is a directory whose call of `process_dir` is still on the
  stack and whose entries have their locations up to `i` (`Calls`). The layout
  is needed because the image on its own is wrong until the last block has been
  written again: until then entries have location 0. `FileLaid`, `DirLaid` and
  `EndLaid` are the three steps of `process_dir`; `Complete` draws the
  conclusion that with an empty stack every place of the tree is laid out.
* `CwdInv`: every working directory fits its buffer and exists in the image,
  and names `place[p]` as long as nothing has been cut off.
* Handles in step with the tree (`Tracks`): the entry is the one of the place
  that was opened, and the position is the number of items read.

From the first part, `Found` shows that `get_directory_entry` finds each place
under its path name. It follows the scan from component to component
(`SeekName`): inside a name nothing changes, and at its end `lookup` finds the
only entry of that name. `ImageIsPartitioned` is the consequence. `Relative`
shows that `relative_to_absolute` makes the path name of `Walk`'s result, or has
cut it off: `..` removes what the last name added (`PathShrinks`), any other
name adds itself (`PathGrows`). Together they give `Resolves`, what stat, open
and chdir find, hence `StatIsRight`, `CwdIsCanonical` and, with the length of
the buffer, `PathsAlwaysFit`. `ReadsComeInOrder` needs that what a handle
reads from the image at `location + pos` is the content of its place.

`HostsAssumption` says that a host tree is one: directories list their entries,
each name once, no name is empty or contains a slash, and what is listed exists.
Everything else, ignored names and empty files and directories included, is
left open. `FilesAssumption` asks for a `PATH_MAX` of at least 2, which holds
the path of the root.

### Induction

The provers cannot instantiate the library's induction theorems, which take an
operator. `TextProofs` therefore derives induction for sets of numbers
(`Induction`) and the existence of step-by-step defined functions (`Recursion`)
from the theorems on finite sets. This covers the recursive functions above:
`memmove`, `Doublings`, `Written`, `Sheet`, `pow2`, `parse_command`, `Bytes`,
`get_directory_entry`, `relative_to_absolute`, `PathOf` and `Walk`.

### Only model-checked

* All liveness properties: there are no rules for fairness and `ENABLED` here.
* `MPTest`: `NoneFails`, `CleanAtMenu` and `OneToken` depend on where all
  processes of a test are at once.

## 6. Not modelled

* Segmentation, boot code and interrupt controller: hardware set-up in assembly;
  saved registers and FPU state.
* Formatting of numbers in `libc.c`; file names longer than a directory entry.
* `ls`, `cat`, `find`: sequential programs that make the calls of `Files` in a
  loop and print the results; the interactive mode of `fstool`;
  `test_error_handling` of `mptest`, whose calls all fail and change nothing.
* A host tree that changes while `fstool` reads it.
* The shell's end of input and failing reads: the keyboard never closes its
  pipe, and the read fails only if an orphan of the shell is blocked on the
  same pipe.
* The contents of pages, their permission bits; `errno` and the argument checks
  of calls that change nothing.

## 7. Plan

1. Done: process table, descriptors, pipes, messages, calls and interrupts;
   buddy allocator; paging; terminal, shell and screen; image and file system;
   the message tests. Proved: the safety properties of the kernel, of paging,
   of the terminal, of the file system and of the allocator, and the two
   refinements.
2. Proofs next: `OneToken`, `NoneFails` and `CleanAtMenu` of `MPTest`, with an
   invariant per test for the messages under way.
3. `ProcessList`: the doubly linked lists of `kernel.h` with their `prev` and
   `next` pointers, implementing the sequences used here.

------------------------------ MODULE Process ------------------------------
(***************************************************************************)
(* The process table, the two scheduler lists and the scheduler of         *)
(* source/process.c, without the memory of the processes.                  *)
(*                                                                         *)
(* The kernel runs with interrupts disabled (source/start.s), so between   *)
(* the entry of an interrupt handler and the return to user mode nothing   *)
(* else happens.  Such a run of kernel code is cut into steps: kpc says    *)
(* which kernel function runs next, and while kpc # "user" only that       *)
(* function is enabled.  The operators below each describe the effect of   *)
(* one C function on the variables of this module; module Kernel combines  *)
(* them into the handlers.                                                 *)
(***************************************************************************)
EXTENDS Integers, Sequences

CONSTANTS
    MAX_PROCESSES,  \* size of the array processes; slot 0 is never used
    MAX_FDS         \* file descriptors per process

ASSUME SizesAssumption ==
    /\ MAX_PROCESSES \in Nat /\ MAX_PROCESSES >= 2
    /\ MAX_FDS \in Nat /\ MAX_FDS >= 3

Pid  == 1 .. (MAX_PROCESSES - 1)
Fd   == 0 .. (MAX_FDS - 1)
NULL == 0           \* current_process == NULL, filedesc[i] == NULL
NONE == -1          \* readpid, waiting_on and parent_pid when there is none

VARIABLES
    exists,          \* the slot is in use
    isready,         \* the field ready of the process
    exited,          \* the process is dead, its slot kept for waitpid
    parent_pid,
    waiting_on,      \* the child this process is blocked on, in waitpid
    in_syscall,      \* the system call being executed, "none" in user mode
    arg, count,      \* its arguments, on the user stack: pid or fd, and size
    ready, suspended,\* the scheduler lists, first element first
    current_process,
    kpc,             \* kernel code that runs next; "user": interrupts enabled
    victim,          \* the process kill_process is killing
    kfd,             \* the next descriptor kill_process closes
    panic            \* "none", or the assertion that halted the kernel

procVars  == <<exists, exited, parent_pid, waiting_on>>
callVars  == <<in_syscall, arg, count>>
listVars  == <<isready, ready, suspended>>
killVars  == <<victim, kfd>>

(***************************************************************************)
(* Doubly linked lists (kernel.h).  A process is linked into at most one   *)
(* list and its links are NULL outside, so removing it from a list it is   *)
(* not in changes nothing.                                                 *)
(***************************************************************************)
Ran(l) == {l[i] : i \in DOMAIN l}

list_add(l, p) == <<p>> \o l

list_remove(l, p) ==
    IF p \in Ran(l)
    THEN LET k == CHOOSE i \in DOMAIN l : l[i] = p
         IN  [i \in 1 .. (Len(l) - 1) |-> IF i < k THEN l[i] ELSE l[i + 1]]
    ELSE l

(***************************************************************************)
(* Process states.  While kill_process runs, its victim is in no list.     *)
(***************************************************************************)
Live(p) == exists[p] /\ ~exited[p] /\ ~(kpc = "kill" /\ victim = p)

Suspended(p) == Live(p) /\ ~isready[p]

Zombie(p) == exists[p] /\ exited[p]

(* get_free_pid: the lowest free slot; fork fails if there is none.        *)
FreePids_dead == {p \in Pid : ~exists[p] \/ exited[p]}

FreePids == {p \in Pid : ~exists[p]}

get_free_pid == CHOOSE p \in FreePids : \A q \in FreePids : p <= q

(***************************************************************************)
(* suspend_process and resume_process, with the assertions they start with *)
(***************************************************************************)
suspend_process(p) ==
    IF exists[p] /\ isready[p]
    THEN /\ isready' = [isready EXCEPT ![p] = FALSE]
         /\ ready' = list_remove(ready, p)
         /\ suspended' = list_add(suspended, p)
         /\ UNCHANGED panic
    ELSE /\ panic' = "suspend_process"
         /\ UNCHANGED listVars

resume_process(p) ==
    IF exists[p] /\ ~isready[p]
    THEN /\ isready' = [isready EXCEPT ![p] = TRUE]
         /\ suspended' = list_remove(suspended, p)
         /\ ready' = list_add(ready, p)
         /\ UNCHANGED panic
    ELSE /\ panic' = "resume_process"
         /\ UNCHANGED listVars

(***************************************************************************)
(* The scheduler.  The process after the current one in the ready list,    *)
(* or the first one when the current process is NULL, is no longer ready,  *)
(* or is the last of the list.                                             *)
(***************************************************************************)
HasNext(l, p) == \E i \in 1 .. (Len(l) - 1) : l[i] = p

NextOf(l, p) == l[(CHOOSE i \in 1 .. (Len(l) - 1) : l[i] = p) + 1]


next_process ==
    IF /\ current_process # NULL
       /\ isready[current_process]
       /\ HasNext(ready, current_process)
    THEN NextOf(ready, current_process)
    ELSE IF ready = <<>> THEN NULL ELSE ready[1]

(* context_switch: a process chosen inside a system call executes that     *)
(* call again from the start.  Choosing a dead process loads its freed     *)
(* page directory.                                                         *)
context_switch ==
    /\ kpc = "switch"
    /\ panic = "none"
    /\ current_process' = next_process
    /\ IF next_process = NULL
       THEN kpc' = "user" /\ UNCHANGED panic
       ELSE /\ kpc' = IF in_syscall[next_process] = "none"
                      THEN "user" ELSE "restart"
            /\ panic' = IF Live(next_process) THEN panic ELSE "enable_paging"
    /\ UNCHANGED <<procVars, callVars, listVars, killVars>>

(***************************************************************************)
(* kill_process, first part: the process leaves the list it is in.  The    *)
(* descriptors are closed one by one afterwards (FileDesc).                *)
(***************************************************************************)
leave_list_ready(p) == ready' = list_remove(ready, p) /\ UNCHANGED suspended

leave_list(p) ==
    IF isready[p]
    THEN ready' = list_remove(ready, p) /\ UNCHANGED suspended
    ELSE suspended' = list_remove(suspended, p) /\ UNCHANGED ready

current_after_kill_stays(p) == current_process

current_after_kill(p) == IF current_process = p THEN NULL ELSE current_process

kill_process(p) ==
    /\ victim' = p
    /\ kfd' = 0
    /\ kpc' = "kill"
    /\ current_process' = current_after_kill(p)
    /\ leave_list(p)

(* The last part: the children lose their parent, the slot is freed or     *)
(* kept for the parent, and a parent blocked on this child is woken up.    *)
ParentWaits_own(p) ==
    /\ parent_pid[p] # NONE
    /\ in_syscall[p] = "waitpid"
    /\ waiting_on[parent_pid[p]] = p

ParentWaits(p) ==
    /\ parent_pid[p] # NONE
    /\ in_syscall[parent_pid[p]] = "waitpid"
    /\ waiting_on[parent_pid[p]] = p

Orphaned_none(p) == parent_pid

Orphaned(p) ==
    [q \in Pid |-> IF parent_pid[q] = p THEN NONE ELSE parent_pid[q]]

KeepsSlot_never(p) == FALSE

KeepsSlot(p) == exists[p] /\ parent_pid[p] # NONE

kill_process_finish(p) ==
    /\ parent_pid' = Orphaned(p)
    /\ exists' = [exists EXCEPT ![p] = KeepsSlot(p)]
    /\ exited' = [exited EXCEPT ![p] = TRUE]
    /\ IF ParentWaits(p)
       THEN /\ waiting_on' = [waiting_on EXCEPT ![parent_pid[p]] = NONE]
            /\ resume_process(parent_pid[p])
       ELSE UNCHANGED <<waiting_on, listVars, panic>>

(***************************************************************************)
(* System call return (syscall in source/syscall.c).                       *)
(***************************************************************************)
(* The call has a result: back to the calling process.                     *)
call_returns ==
    /\ in_syscall' = [in_syscall EXCEPT ![current_process] = "none"]
    /\ arg' = [arg EXCEPT ![current_process] = 0]
    /\ count' = [count EXCEPT ![current_process] = 0]
    /\ kpc' = "user"

(* -ESUSPEND: the process is blocked in the call, or is being killed.      *)
call_pending(call, a, n) ==
    /\ in_syscall' = [in_syscall EXCEPT ![current_process] = call]
    /\ arg' = [arg EXCEPT ![current_process] = a]
    /\ count' = [count EXCEPT ![current_process] = n]

=============================================================================

------------------------------- MODULE Kernel -------------------------------
(***************************************************************************)
(* The AdelaideOS kernel as the processes see it: the system calls that    *)
(* create, kill, block and wake processes, the timer, keyboard and page    *)
(* fault interrupts, and the kernel steps they lead to.  Memory and files  *)
(* are left to other modules: no condition here depends on them.           *)
(*                                                                         *)
(* An error return that changes nothing the kernel later reads is a        *)
(* stuttering step and is not written out.                                 *)
(***************************************************************************)
EXTENDS FileDesc

CONSTANTS
    MAILBOX_ALLOC,   \* messages a mailbox holds (8 in syscall_send)
    MaxLen,          \* bound: bytes in a pipe (unlimited in the code)
    MaxCount,        \* bound: bytes of one read or write
    Workload,        \* the calls, faults and key presses that happen
    KillTargets,     \* conditions of the processes that kill is used on
    SendTargets,     \* conditions of the processes that send is used on
    DupTargets       \* bound: the descriptors that dup2 replaces

Conditions == {"running", "read", "receive", "waitpid", "zombie"}

ASSUME WorkloadAssumption ==
    /\ MAILBOX_ALLOC \in Nat /\ MAILBOX_ALLOC >= 1
    /\ MaxLen \in Nat /\ MaxCount \in Nat
    /\ KillTargets \subseteq Conditions
    /\ SendTargets \subseteq Conditions
    /\ DupTargets \subseteq Fd

VARIABLES
    mailbox,         \* "null", "live", or "freed": the pointer left dangling
    mailbox_size,
    receive_blocked

msgVars  == <<mailbox, mailbox_size, receive_blocked>>
fileVars == <<filedesc, handleVars, pipeVars>>
vars     == <<procVars, callVars, listVars, current_process, kpc, killVars,
              panic, fileVars, msgVars>>

(***************************************************************************)
(* start_process, as kernel_main calls it: the first process, with the     *)
(* keyboard pipe as its standard input.  The other slots are all zero.     *)
(***************************************************************************)
start_process ==
    /\ exists = [p \in Pid |-> p = 1]
    /\ isready = [p \in Pid |-> p = 1]
    /\ exited = [p \in Pid |-> FALSE]
    /\ parent_pid = [p \in Pid |-> IF p = 1 THEN NONE ELSE NULL]
    /\ waiting_on = [p \in Pid |-> IF p = 1 THEN NONE ELSE NULL]
    /\ in_syscall = [p \in Pid |-> "none"]
    /\ arg = [p \in Pid |-> 0]
    /\ count = [p \in Pid |-> 0]
    /\ filedesc = [p \in Pid |-> [fd \in Fd |->
                       IF p = 1 /\ fd <= 2 THEN fd + 1 ELSE NULL]]
    /\ fh_type = [h \in Handle |-> CASE h = 1 -> "reader"
                                     [] h \in {2, 3} -> "screen"
                                     [] OTHER -> "free"]
    /\ refcount = [h \in Handle |-> IF h <= 3 THEN 1 ELSE 0]
    /\ fh_pipe = [h \in Handle |-> IF h = 1 THEN InputPipe ELSE NULL]
    /\ reading = [b \in Pipe |-> b = InputPipe]
    /\ writing = [b \in Pipe |-> b = InputPipe]
    /\ len = [b \in Pipe |-> 0]
    /\ readpid = [b \in Pipe |-> NONE]
    /\ mailbox = [p \in Pid |-> "null"]
    /\ mailbox_size = [p \in Pid |-> 0]
    /\ receive_blocked = [p \in Pid |-> FALSE]
    /\ ready = <<1>>
    /\ suspended = <<>>

(* kernel_main then enters user mode with no current process.              *)
Init ==
    /\ start_process
    /\ current_process = NULL
    /\ kpc = "user"
    /\ victim = NULL
    /\ kfd = 0
    /\ panic = "none"

UserMode == kpc = "user" /\ panic = "none"

(* A system call made now, by the running process.                         *)
call_made(call) == UserMode /\ current_process # NULL /\ call \in Workload

(* A call that may block is made now, or repeated with the arguments still *)
(* on the user stack when the scheduler picks a process blocked in it.     *)
enter(call, a, n) ==
    \/ call_made(call)
    \/ /\ kpc = "restart"
       /\ panic = "none"
       /\ in_syscall[current_process] = call
       /\ arg[current_process] = a
       /\ count[current_process] = n

Condition(p) ==
    IF exited[p] THEN "zombie"
    ELSE IF isready[p] THEN "running"
    ELSE in_syscall[p]

(***************************************************************************)
(* Interrupts                                                              *)
(***************************************************************************)
timer_handler ==
    /\ UserMode
    /\ kpc' = "switch"
    /\ UNCHANGED <<procVars, callVars, listVars, current_process, killVars,
                   panic, fileVars, msgVars>>

(* A key that yields a character.  The other keys only switch context, as  *)
(* the timer does.                                                         *)
keyboard_handler ==
    /\ UserMode
    /\ "keyboard" \in Workload
    /\ len[InputPipe] < MaxLen
    /\ write_to_pipe(InputPipe, 1)
    /\ kpc' = "switch"
    /\ UNCHANGED <<procVars, callVars, current_process, killVars,
                   filedesc, handleVars, msgVars>>

page_fault ==
    /\ call_made("fault")
    /\ kill_process(current_process)
    /\ UNCHANGED <<procVars, callVars, isready, panic, fileVars, msgVars>>

(***************************************************************************)
(* Processes                                                               *)
(***************************************************************************)
References_once(p, h) ==
    {fd \in Fd : filedesc[p][fd] = h /\ \A i \in Fd : filedesc[p][i] = h => fd <= i}

References(p, h) == {fd \in Fd : filedesc[p][fd] = h}

syscall_fork ==
    /\ call_made("fork")
    /\ FreePids # {}
    /\ LET parent == current_process
           child  == get_free_pid
       IN  /\ exists' = [exists EXCEPT ![child] = TRUE]
           /\ exited' = [exited EXCEPT ![child] = FALSE]
           /\ parent_pid' = [parent_pid EXCEPT ![child] = parent]
           /\ waiting_on' = [waiting_on EXCEPT ![child] = NULL]
           /\ in_syscall' = [in_syscall EXCEPT ![child] = "none"]
           /\ arg' = [arg EXCEPT ![child] = 0]
           /\ count' = [count EXCEPT ![child] = 0]
           /\ filedesc' = [filedesc EXCEPT ![child] = filedesc[parent]]
           /\ refcount' = [h \in Handle |->
                  refcount[h] + Cardinality(References(parent, h))]
           /\ mailbox' = [mailbox EXCEPT ![child] = "null"]
           /\ mailbox_size' = [mailbox_size EXCEPT ![child] = 0]
           /\ receive_blocked' = [receive_blocked EXCEPT ![child] = FALSE]
           /\ isready' = [isready EXCEPT ![child] = TRUE]
           /\ ready' = list_add(ready, child)
    /\ UNCHANGED <<suspended, current_process, kpc, killVars, panic,
                   fh_type, fh_pipe, pipeVars>>

syscall_exit ==
    /\ call_made("exit")
    /\ call_pending("exit", 0, 0)
    /\ kill_process(current_process)
    /\ UNCHANGED <<procVars, isready, panic, fileVars, msgVars>>

syscall_kill(pid) ==
    /\ call_made("kill")
    /\ exists[pid]
    /\ Condition(pid) \in KillTargets
    /\ call_pending("kill", pid, 0)
    /\ kill_process(pid)
    /\ UNCHANGED <<procVars, isready, panic, fileVars, msgVars>>

(* kill_process after the descriptors: memory and mailbox are freed (both  *)
(* for a second time if the process was dead), the parent is informed, and *)
(* the killer goes on, or another process runs if it killed itself.        *)
kill_process_end ==
    /\ kpc = "kill"
    /\ panic = "none"
    /\ kfd = MAX_FDS
    /\ mailbox' = [mailbox EXCEPT ![victim] =
                       IF @ = "null" THEN "null" ELSE "freed"]
    /\ IF exited[victim]
       THEN panic' = "double_free" /\ UNCHANGED <<procVars, listVars>>
       ELSE kill_process_finish(victim)
    /\ IF current_process = NULL
       THEN kpc' = "switch" /\ UNCHANGED callVars
       ELSE call_returns
    /\ victim' = NULL
    /\ kfd' = 0
    /\ UNCHANGED <<current_process, fileVars, mailbox_size, receive_blocked>>

(* Not a child of the caller: ECHILD, after waiting_on has been cleared.   *)
waitpid_fails(pid) ==
    /\ ~exists[pid] \/ parent_pid[pid] # current_process
    /\ waiting_on' = [waiting_on EXCEPT ![current_process] = NONE]
    /\ call_returns
    /\ UNCHANGED <<exists, listVars, panic>>

waitpid_reaps(pid) ==
    /\ exists[pid] /\ parent_pid[pid] = current_process
    /\ exited[pid]
    /\ waiting_on' = [waiting_on EXCEPT ![current_process] = NONE]
    /\ exists' = [exists EXCEPT ![pid] = FALSE]
    /\ call_returns
    /\ UNCHANGED <<listVars, panic>>

waitpid_blocks(pid) ==
    /\ exists[pid] /\ parent_pid[pid] = current_process
    /\ ~exited[pid]
    /\ waiting_on' = [waiting_on EXCEPT ![current_process] = pid]
    /\ suspend_process(current_process)
    /\ call_pending("waitpid", pid, 0)
    /\ kpc' = "switch"
    /\ UNCHANGED exists

syscall_waitpid(pid) ==
    /\ enter("waitpid", pid, 0)
    /\ waitpid_fails(pid) \/ waitpid_reaps(pid) \/ waitpid_blocks(pid)
    /\ UNCHANGED <<exited, parent_pid, current_process, killVars,
                   fileVars, msgVars>>

(***************************************************************************)
(* File descriptors and pipes                                              *)
(***************************************************************************)
Open(fd) == filedesc[current_process][fd] # NULL
HandleOf(fd) == filedesc[current_process][fd]

(* A read from a handle that is not a reader, or from a pipe another       *)
(* process is blocked on: EINVAL or EBADF.                                 *)
read_fails(h) ==
    /\ fh_type[h] = "reader" => readpid[fh_pipe[h]] # NONE
    /\ call_returns
    /\ UNCHANGED <<len, readpid, listVars, panic>>

(* Data in the pipe, or end of file: the call returns.                     *)
read_completes(h, n) ==
    LET b == fh_pipe[h] IN
    /\ fh_type[h] = "reader" /\ readpid[b] = NONE
    /\ len[b] > 0 \/ ~writing[b]
    /\ len' = [len EXCEPT ![b] = IF n < @ THEN @ - n ELSE 0]
    /\ call_returns
    /\ UNCHANGED <<readpid, listVars, panic>>

read_blocks_once(h, fd, n) ==
    LET b == fh_pipe[h] IN
    /\ fh_type[h] = "reader" /\ readpid[b] = NONE
    /\ len[b] = 0 /\ writing[b]
    /\ IF kpc = "restart"
       THEN UNCHANGED <<readpid, listVars, panic>>
       ELSE /\ readpid' = [readpid EXCEPT ![b] = current_process]
            /\ suspend_process(current_process)
    /\ call_pending("read", fd, n)
    /\ kpc' = "switch"
    /\ UNCHANGED len

read_blocks(h, fd, n) ==
    LET b == fh_pipe[h] IN
    /\ fh_type[h] = "reader" /\ readpid[b] = NONE
    /\ len[b] = 0 /\ writing[b]
    /\ readpid' = [readpid EXCEPT ![b] = current_process]
    /\ suspend_process(current_process)
    /\ call_pending("read", fd, n)
    /\ kpc' = "switch"
    /\ UNCHANGED len

syscall_read(fd, n) ==
    /\ enter("read", fd, n)
    /\ Open(fd)
    /\ \/ read_fails(HandleOf(fd))
       \/ read_completes(HandleOf(fd), n)
       \/ read_blocks(HandleOf(fd), fd, n)
    /\ UNCHANGED <<procVars, current_process, killVars, filedesc, handleVars,
                   reading, writing, msgVars>>

(* Writing to the screen changes nothing here.                             *)
syscall_write(fd, n) ==
    /\ call_made("write")
    /\ Open(fd)
    /\ fh_type[HandleOf(fd)] = "writer"
    /\ len[fh_pipe[HandleOf(fd)]] + n <= MaxLen
    /\ write_to_pipe(fh_pipe[HandleOf(fd)], n)
    /\ UNCHANGED <<procVars, callVars, current_process, kpc, killVars,
                   filedesc, handleVars, msgVars>>

syscall_close(fd) ==
    /\ call_made("close")
    /\ Open(fd)
    /\ close_filehandle(HandleOf(fd))
    /\ filedesc' = [filedesc EXCEPT ![current_process][fd] = NULL]
    /\ UNCHANGED <<procVars, callVars, current_process, kpc, killVars, msgVars>>

(* newfd is closed first, then refers to the handle of oldfd.              *)
syscall_dup2(oldfd, newfd) ==
    /\ call_made("dup2")
    /\ Open(oldfd)
    /\ oldfd # newfd
    /\ LET fh == HandleOf(oldfd) IN
       /\ IF Open(newfd)
          THEN /\ release(HandleOf(newfd))
               /\ refcount' = [refcount EXCEPT ![HandleOf(newfd)] = Dropped(@),
                                               ![fh] = @ + 1]
          ELSE /\ refcount' = [refcount EXCEPT ![fh] = @ + 1]
               /\ UNCHANGED <<fh_type, fh_pipe, pipeVars, listVars, panic>>
       /\ filedesc' = [filedesc EXCEPT ![current_process][newfd] = fh]
    /\ UNCHANGED <<procVars, callVars, current_process, kpc, killVars, msgVars>>

(* The two lowest free descriptors become the ends of a new pipe.          *)
syscall_pipe ==
    LET free    == {fd \in Fd : ~Open(fd)}
        readfd  == Least(free)
        writefd == Least(free \ {readfd})
        b  == Least(FreePipes)
        rh == Least(FreeHandles)
        wh == Least(FreeHandles \ {rh})
    IN
    /\ call_made("pipe")
    /\ Cardinality(free) >= 2
    /\ FreePipes # {} /\ Cardinality(FreeHandles) >= 2
    /\ new_pipe(b)
    /\ fh_type' = [fh_type EXCEPT ![rh] = "reader", ![wh] = "writer"]
    /\ fh_pipe' = [fh_pipe EXCEPT ![rh] = b, ![wh] = b]
    /\ refcount' = [refcount EXCEPT ![rh] = 1, ![wh] = 1]
    /\ filedesc' = [filedesc EXCEPT ![current_process][readfd] = rh,
                                    ![current_process][writefd] = wh]
    /\ UNCHANGED <<procVars, callVars, listVars, current_process, kpc, killVars,
                   panic, msgVars>>

(***************************************************************************)
(* Messages                                                                *)
(***************************************************************************)
MailboxHasRoom_extra(to) ==
    mailbox[to] = "null" \/ mailbox_size[to] <= MAILBOX_ALLOC

(* Otherwise ENOMEM.                                                       *)
MailboxHasRoom(to) ==
    mailbox[to] = "null" \/ mailbox_size[to] < MAILBOX_ALLOC

notify_receiver_silent(to) ==
    /\ receive_blocked' = [receive_blocked EXCEPT ![to] = FALSE]
    /\ UNCHANGED <<listVars, panic>>

notify_receiver_sticky(to) ==
    /\ IF receive_blocked[to]
       THEN resume_process(to)
       ELSE UNCHANGED <<listVars, panic>>
    /\ UNCHANGED receive_blocked

notify_receiver(to) ==
    IF receive_blocked[to]
    THEN /\ resume_process(to)
         /\ receive_blocked' = [receive_blocked EXCEPT ![to] = FALSE]
    ELSE UNCHANGED <<listVars, panic, receive_blocked>>

(* Writing a message into a mailbox that has been freed is reported as     *)
(* panic.                                                                  *)
syscall_send(to) ==
    /\ call_made("send")
    /\ exists[to]
    /\ Condition(to) \in SendTargets
    /\ MailboxHasRoom(to)
    /\ mailbox' = [mailbox EXCEPT ![to] = IF @ = "null" THEN "live" ELSE @]
    /\ mailbox_size' = [mailbox_size EXCEPT ![to] =
                            IF mailbox[to] = "null" THEN 1 ELSE @ + 1]
    /\ IF mailbox[to] = "freed"
       THEN panic' = "use_after_free" /\ UNCHANGED <<listVars, receive_blocked>>
       ELSE notify_receiver(to)
    /\ UNCHANGED <<procVars, callVars, current_process, kpc, killVars, fileVars>>

receive_completes ==
    /\ mailbox_size[current_process] > 0
    /\ mailbox_size' = [mailbox_size EXCEPT ![current_process] = @ - 1]
    /\ call_returns
    /\ UNCHANGED <<receive_blocked, listVars, panic>>

receive_blocks ==
    /\ mailbox_size[current_process] = 0
    /\ receive_blocked' = [receive_blocked EXCEPT ![current_process] = TRUE]
    /\ suspend_process(current_process)
    /\ call_pending("receive", 0, 0)
    /\ kpc' = "switch"
    /\ UNCHANGED mailbox_size

(* A blocking receive; without block an empty mailbox gives EAGAIN.        *)
syscall_receive ==
    /\ enter("receive", 0, 0)
    /\ receive_completes \/ receive_blocks
    /\ UNCHANGED <<procVars, current_process, killVars, fileVars, mailbox>>

(***************************************************************************)
(* The specification                                                       *)
(***************************************************************************)
KillClose == kill_process_close /\ UNCHANGED msgVars
Switch    == context_switch /\ UNCHANGED <<fileVars, msgVars>>
Restart   == /\ kpc = "restart"
             /\ \/ \E pid \in Pid : syscall_waitpid(pid)
                \/ \E fd \in Fd, n \in 0 .. MaxCount : syscall_read(fd, n)
                \/ syscall_receive

KernelStep == KillClose \/ kill_process_end \/ Switch \/ Restart

SystemCall ==
    \/ syscall_fork \/ syscall_exit \/ syscall_pipe \/ syscall_receive
    \/ \E pid \in Pid : \/ syscall_kill(pid)
                        \/ syscall_waitpid(pid)
                        \/ syscall_send(pid)
    \/ \E fd \in Fd : \/ syscall_close(fd)
                      \/ \E n \in 0 .. MaxCount : \/ syscall_read(fd, n)
                                                 \/ syscall_write(fd, n)
                      \/ \E newfd \in DupTargets : syscall_dup2(fd, newfd)

Next == \/ timer_handler \/ keyboard_handler \/ page_fault
        \/ SystemCall
        \/ KillClose \/ kill_process_end \/ Switch

Spec == Init /\ [][Next]_vars

(* Kernel code runs on until it returns to user mode.  A timer interrupt   *)
(* stays pending while interrupts are off, so it is taken at some return   *)
(* to user mode if there are infinitely many.                              *)
Fairness == WF_vars(KernelStep) /\ SF_vars(timer_handler)

FairSpec == Spec /\ Fairness

=============================================================================

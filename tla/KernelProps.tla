----------------------------- MODULE KernelProps -----------------------------
(***************************************************************************)
(* What the kernel promises: the properties of module Kernel.              *)
(***************************************************************************)
EXTENDS Kernel

CallName  == {"none", "read", "receive", "waitpid", "exit", "kill"}
Panics    == {"none", "suspend_process", "resume_process", "enable_paging",
              "pipe_writer_destroy", "pipe_reader_destroy",
              "check_buffer_free", "close_filehandle", "double_free",
              "use_after_free"}
Arguments == Nat

(* The workloads the kernel can stand: nobody kills a process that is      *)
(* blocked in read or already dead, or sends a message to a dead process.  *)
SafeWorkload ==
    /\ KillTargets \subseteq {"running", "receive", "waitpid"}
    /\ "zombie" \notin SendTargets

ProcTypeOK ==
    /\ exists \in [Pid -> BOOLEAN]
    /\ isready \in [Pid -> BOOLEAN]
    /\ exited \in [Pid -> BOOLEAN]
    /\ parent_pid \in [Pid -> Pid \cup {NULL, NONE}]
    /\ waiting_on \in [Pid -> Pid \cup {NULL, NONE}]
    /\ in_syscall \in [Pid -> CallName]
    /\ arg \in [Pid -> Arguments]
    /\ count \in [Pid -> Arguments]
    /\ ready \in Seq(Pid)
    /\ suspended \in Seq(Pid)
    /\ current_process \in Pid \cup {NULL}
    /\ kpc \in {"user", "switch", "restart", "kill"}
    /\ victim \in Pid \cup {NULL}
    /\ kfd \in 0 .. MAX_FDS
    /\ panic \in Panics

FileTypeOK ==
    /\ filedesc \in [Pid -> [Fd -> Handle \cup {NULL}]]
    /\ fh_type \in [Handle -> {"free", "screen", "reader", "writer"}]
    /\ refcount \in [Handle -> Nat]
    /\ fh_pipe \in [Handle -> Pipe \cup {NULL}]
    /\ reading \in [Pipe -> BOOLEAN]
    /\ writing \in [Pipe -> BOOLEAN]
    /\ len \in [Pipe -> Nat]
    /\ readpid \in [Pipe -> Pid \cup {NONE}]

MsgTypeOK ==
    /\ mailbox \in [Pid -> {"null", "live", "freed"}]
    /\ mailbox_size \in [Pid -> 0 .. MAILBOX_ALLOC]
    /\ receive_blocked \in [Pid -> BOOLEAN]

(* Every variable has the type its field has in process, filehandle and    *)
(* pipe_buffer; a mailbox never holds more than mailbox_alloc messages.    *)
TypeOK == ProcTypeOK /\ FileTypeOK /\ MsgTypeOK

(* No assertion of process.c, pipe.c, filedesc.c or buddy.c fails, and no  *)
(* freed mailbox, page directory or handle is used: the kernel never       *)
(* halts.                                                                  *)
NoPanic == panic = "none"

NoDuplicates(l) == \A i, j \in DOMAIN l : l[i] = l[j] => i = j

(* The scheduler lists hold every live process exactly once, in the list   *)
(* its ready field names, and no dead one: suspend_process, resume_process *)
(* and kill_process agree on where a process is.                           *)
ListsConsistent ==
    /\ NoDuplicates(ready) /\ NoDuplicates(suspended)
    /\ \A p \in Pid : /\ p \in Ran(ready) <=> Live(p) /\ isready[p]
                      /\ p \in Ran(suspended) <=> Live(p) /\ ~isready[p]

(* current_process is a live process: a ready one outside every system     *)
(* call in user mode, and one blocked in a call when context_switch        *)
(* repeats that call.                                                      *)
CurrentValid ==
    /\ current_process # NULL =>
         /\ Live(current_process)
         /\ kpc # "switch" => isready[current_process]
         /\ kpc = "user" => in_syscall[current_process] = "none"
         /\ kpc = "restart" =>
              in_syscall[current_process] \in {"read", "receive", "waitpid"}
    /\ kpc = "restart" => current_process # NULL

ReadsFrom(p, b) ==
    /\ in_syscall[p] = "read"
    /\ arg[p] \in Fd
    /\ LET h == filedesc[p][arg[p]] IN
         h # NULL /\ fh_type[h] = "reader" /\ fh_pipe[h] = b

(* The pipe that will wake up a blocked reader is the one behind the       *)
(* descriptor it reads from, and is still open: neither a close, a dup2    *)
(* nor an exit of a process that shares the handle takes it away.          *)
BlockedReaderHoldsPipe ==
    \A b \in Pipe : readpid[b] # NONE => ReadsFrom(readpid[b], b) /\ reading[b]

BlockedInRead(p) ==
    /\ in_syscall[p] = "read"
    /\ \E b \in Pipe : readpid[b] = p /\ len[b] = 0 /\ writing[b]
BlockedInReceive(p) ==
    in_syscall[p] = "receive" /\ receive_blocked[p] /\ mailbox_size[p] = 0
BlockedInWaitpid(p) ==
    /\ in_syscall[p] = "waitpid"
    /\ arg[p] \in Pid /\ waiting_on[p] = arg[p]
    /\ exists[arg[p]] /\ ~exited[arg[p]] /\ parent_pid[arg[p]] = p

(* A suspended process is blocked in a call that has not been satisfied,   *)
(* and whoever will satisfy it is told: a pipe that is empty and still has *)
(* a writer holds its pid; its mailbox is empty and marked; the child it   *)
(* waits for is alive and its own.  So no wake-up is ever lost, whatever   *)
(* the order of writes, closes, sends and exits.                           *)
NoLostWakeup ==
    \A p \in Pid : Suspended(p) =>
        BlockedInRead(p) \/ BlockedInReceive(p) \/ BlockedInWaitpid(p)

(* The converse: the pid a pipe will wake up, the process a send will wake *)
(* up and the parent an exit will wake up are suspended live processes, so *)
(* resume_process is only ever called with such a process.                 *)
WakersValid ==
    /\ \A b \in Pipe : readpid[b] # NONE => Suspended(readpid[b])
    /\ \A p \in Pid : Live(p) /\ receive_blocked[p] => Suspended(p)
    /\ \A p \in Pid : Live(p) /\ in_syscall[p] = "waitpid" /\ waiting_on[p] \in Pid
                        => Suspended(p)

(* A parent pid always names a process that can still call waitpid (or is  *)
(* being killed right now): a pid is never reused while a child of its old *)
(* owner refers to it.                                                     *)
ParentAlive ==
    \A p \in Pid : exists[p] /\ parent_pid[p] \in Pid =>
        exists[parent_pid[p]] /\ ~exited[parent_pid[p]]

(* When a blocked receive or waitpid is executed again it completes: the   *)
(* message is still there, the child is still a zombie of this process.    *)
RestartCompletes ==
    kpc = "restart" =>
        LET p == current_process IN
        /\ in_syscall[p] = "receive" => mailbox_size[p] > 0
        /\ in_syscall[p] = "waitpid" =>
               arg[p] \in Pid /\ Zombie(arg[p]) /\ parent_pid[arg[p]] = p

(* The descriptors that keep a handle alive: those of the live processes,  *)
(* and those of the process being killed that are not closed yet.          *)
Counted(p, fd) ==
    exists[p] /\ ~exited[p] /\ (kpc = "kill" /\ victim = p => fd >= kfd)
Holders(h) ==
    {d \in Pid \X Fd : Counted(d[1], d[2]) /\ filedesc[d[1]][d[2]] = h}

(* The reference count of a handle is the number of descriptors that refer *)
(* to it across fork, dup2, close and kill, and no descriptor refers to a  *)
(* handle that has been destroyed.                                         *)
RefcountExact ==
    \A h \in Handle : /\ refcount[h] = Cardinality(Holders(h))
                      /\ fh_type[h] = "free" <=> refcount[h] = 0

(* A pipe is open for writing exactly while its one writer handle exists   *)
(* (the input pipe: always), and for reading while its reader does; so a   *)
(* reader gets end-of-file exactly when no process can write any more, and *)
(* no pipe is freed under a handle or leaked.                              *)
PipeEndsExact ==
    \A b \in Pipe :
        /\ Cardinality({h \in Handle : fh_type[h] = "reader" /\ fh_pipe[h] = b})
             = IF reading[b] THEN 1 ELSE 0
        /\ Cardinality({h \in Handle : fh_type[h] = "writer" /\ fh_pipe[h] = b})
             = IF writing[b] /\ b # InputPipe THEN 1 ELSE 0
        /\ b = InputPipe => writing[b]

(* The exit status of a dead child is kept until its parent asks for it or *)
(* dies: no fork reuses the slot, no kill frees it.                        *)
ZombieKept ==
    [][\A p \in Pid :
         Zombie(p) /\ parent_pid[p] \in Pid =>
            \/ exists'[p] /\ exited'[p] /\ parent_pid'[p] = parent_pid[p]
            \/ ~exists'[p] /\ current_process = parent_pid[p]
            \/ exited'[parent_pid[p]]]_vars

(* A kernel entry always comes back to user mode: the close loop of        *)
(* kill_process ends, and the calls that context_switch executes again do  *)
(* not keep it there.  A read executed again may block again, when another *)
(* reader of the same pipe has taken the key, and then context_switch is   *)
(* entered from inside itself.                                             *)
KernelReturns == kpc # "user" ~> kpc = "user"

(* Every ready process gets the processor, whatever the others do: fork,   *)
(* exit, wait for their children, or read the keys that wake them up.      *)
(* With messages, by which processes wake each other, it does not hold.    *)
EveryReadyRuns ==
    \A p \in Pid : Live(p) /\ isready[p] ~> current_process = p \/ ~Live(p)

(* A parent blocked in waitpid is let go once its child is dead.           *)
WaitpidReturns ==
    \A p \in Pid : Live(p) /\ in_syscall[p] = "waitpid" /\ arg[p] \in Pid
                     /\ Zombie(arg[p])
                   ~> ~Live(p) \/ in_syscall[p] = "none"

(***************************************************************************)
(* The inductive invariant behind the theorems of KernelProofs, and the    *)
(* parts of it that are not properties of their own.                       *)
(***************************************************************************)
(* kill_process works on a process that was alive and is not current.      *)
KillValid ==
    kpc = "kill" => /\ victim \in Pid
                    /\ exists[victim] /\ ~exited[victim]
                    /\ current_process # victim

(* A live process inside a call is blocked in it, or has been woken up and *)
(* will repeat it, or is the killer of another process.                    *)
CallsValid ==
    \A p \in Pid : Live(p) /\ in_syscall[p] # "none" =>
        \/ in_syscall[p] \in {"read", "receive", "waitpid"}
        \/ kpc = "kill" /\ current_process = p

FamilyValid ==
    \A p \in Pid : exists[p] =>
        \/ parent_pid[p] = NONE
        \/ /\ parent_pid[p] \in Pid /\ parent_pid[p] # p
           /\ exists[parent_pid[p]] /\ ~exited[parent_pid[p]]

(* Who is registered with a waker is blocked in the matching call, and     *)
(* with one pipe only.                                                     *)
RegisteredOnce ==
    /\ \A b \in Pipe : readpid[b] # NONE => in_syscall[readpid[b]] = "read"
    /\ \A b, c \in Pipe : readpid[b] # NONE /\ readpid[b] = readpid[c] => b = c
    /\ \A p \in Pid : Live(p) /\ receive_blocked[p] => in_syscall[p] = "receive"

(* What a process was woken up for stays true until it runs.               *)
WokenValid ==
    \A p \in Pid : Live(p) /\ isready[p] =>
        /\ in_syscall[p] = "receive" => mailbox_size[p] > 0
        /\ in_syscall[p] = "waitpid" =>
               arg[p] \in Pid /\ Zombie(arg[p]) /\ parent_pid[arg[p]] = p

HandlesValid ==
    \A h \in Handle : fh_type[h] \in {"reader", "writer"} => fh_pipe[h] \in Pipe

(* The mailbox of a live process has not been freed.                       *)
MailboxValid == \A p \in Pid : Live(p) => mailbox[p] # "freed"

(* Of the assertions, those about processes never fail, and the memory of  *)
(* a dead process is neither used nor freed again.                         *)
SchedulerNeverHalts ==
    panic \notin {"suspend_process", "resume_process", "enable_paging",
                  "double_free", "use_after_free"}

IInv == /\ TypeOK /\ ListsConsistent /\ CurrentValid /\ KillValid /\ CallsValid
        /\ FamilyValid /\ NoLostWakeup /\ WakersValid /\ RegisteredOnce
        /\ WokenValid /\ HandlesValid /\ MailboxValid /\ SchedulerNeverHalts

(***************************************************************************)
(* The inductive invariant behind the theorems of HandleProofs, on top of  *)
(* IInv: PipeEndsExact is stated there with the handles themselves instead *)
(* of their number.                                                        *)
(***************************************************************************)
IsEnd(h, type, b) == fh_type[h] = type /\ fh_pipe[h] = b

(* Each open end of a pipe belongs to one handle, and no handle to an end  *)
(* that is closed; the writer of the input pipe is the kernel.             *)
EndsMatched ==
    /\ \A h, g \in Handle, t \in {"reader", "writer"}, b \in Pipe :
           IsEnd(h, t, b) /\ IsEnd(g, t, b) => h = g
    /\ \A h \in Handle, b \in Pipe :
           /\ IsEnd(h, "reader", b) => reading[b]
           /\ IsEnd(h, "writer", b) => writing[b] /\ b # InputPipe
    /\ \A b \in Pipe :
           /\ reading[b] => \E h \in Handle : IsEnd(h, "reader", b)
           /\ writing[b] /\ b # InputPipe => \E h \in Handle : IsEnd(h, "writer", b)
    /\ writing[InputPipe]

HInv == RefcountExact /\ EndsMatched /\ BlockedReaderHoldsPipe /\ NoPanic

=============================================================================

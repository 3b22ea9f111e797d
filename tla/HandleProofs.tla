---------------------------- MODULE HandleProofs ----------------------------
(***************************************************************************)
(* Proofs about the reference counts of the file handles and the ends of   *)
(* the pipes in module Kernel, for every number of processes, descriptors, *)
(* handles and pipes, under a SafeWorkload.  HInv is inductive relative to *)
(* IInv, the invariant of KernelProofs, which does not need HInv.          *)
(***************************************************************************)
EXTENDS KernelProofs

(***************************************************************************)
(* The descriptors that refer to a handle.                                 *)
(***************************************************************************)
(* There are finitely many, and each is a descriptor that is counted.      *)
LEMMA HoldersFinite ==
    ASSUME NEW h
    PROVE  /\ IsFiniteSet(Holders(h)) /\ Cardinality(Holders(h)) \in Nat
           /\ \A p \in Pid, fd \in Fd :
                <<p, fd>> \in Holders(h) <=> Counted(p, fd) /\ filedesc[p][fd] = h
           /\ \A d \in Holders(h) : \E p \in Pid, fd \in Fd : d = <<p, fd>>
<1>1. IsFiniteSet(Pid) /\ IsFiniteSet(Fd)
  BY SizesAssumption, FS_Interval DEF Pid, Fd
<1>2. IsFiniteSet(Pid \X Fd)
  BY <1>1, FS_Product
<1>3. Holders(h) \in SUBSET (Pid \X Fd)
  BY DEF Holders
<1>4. IsFiniteSet(Holders(h)) /\ Cardinality(Holders(h)) \in Nat
  BY <1>2, <1>3, FS_Subset, FS_CardinalityType
<1>5. \A p \in Pid, fd \in Fd :
        <<p, fd>> \in Holders(h) <=> Counted(p, fd) /\ filedesc[p][fd] = h
  BY DEF Holders
<1>6. \A d \in Holders(h) : \E p \in Pid, fd \in Fd : d = <<p, fd>>
  BY DEF Holders
<1> QED
  BY <1>4, <1>5, <1>6

(* A step adds to the holders of h the set N and takes away the set M when *)
(* it does so descriptor by descriptor.                                    *)
LEMMA HoldersStep ==
    ASSUME NEW h, NEW M, NEW N \in SUBSET (Pid \X Fd),
           \A p \in Pid, fd \in Fd :
              (Counted(p, fd) /\ filedesc[p][fd] = h)'
                <=> \/ <<p, fd>> \in N
                    \/ Counted(p, fd) /\ filedesc[p][fd] = h /\ <<p, fd>> \notin M
    PROVE  Holders(h)' = (Holders(h) \ M) \cup N
<1>1. ASSUME NEW d \in Pid \X Fd
      PROVE  d \in Holders(h)' <=> d \in (Holders(h) \ M) \cup N
  <2>1. PICK p \in Pid, fd \in Fd : d = <<p, fd>>
    OBVIOUS
  <2>2. d \in Holders(h) <=> Counted(p, fd) /\ filedesc[p][fd] = h
    BY <2>1 DEF Holders
  <2>3. d \in Holders(h)' <=> (Counted(p, fd) /\ filedesc[p][fd] = h)'
    BY <2>1 DEF Holders
  <2> QED
    BY <2>1, <2>2, <2>3
<1>2. Holders(h) \in SUBSET (Pid \X Fd) /\ Holders(h)' \in SUBSET (Pid \X Fd)
  BY DEF Holders
<1> QED
  BY <1>1, <1>2

(* The count of a handle stays when its descriptors stay.                  *)
LEMMA CountSame ==
    ASSUME NEW h,
           \A p \in Pid, fd \in Fd :
              (Counted(p, fd) /\ filedesc[p][fd] = h)'
                <=> Counted(p, fd) /\ filedesc[p][fd] = h
    PROVE  Cardinality(Holders(h)') = Cardinality(Holders(h))
<1> DEFINE M == {}
<1>1. /\ M \in SUBSET (Pid \X Fd) /\ (Holders(h) \ M) \cup M = Holders(h)
      /\ \A d : d \notin M
  OBVIOUS
<1> HIDE DEF M
<1>2. Holders(h)' = (Holders(h) \ M) \cup M
  BY <1>1, HoldersStep
<1> QED
  BY <1>1, <1>2

(* One descriptor less is one reference less,                              *)
LEMMA CountLess ==
    ASSUME NEW h, NEW q \in Pid, NEW f \in Fd, Counted(q, f), filedesc[q][f] = h,
           \A p \in Pid, fd \in Fd :
              (Counted(p, fd) /\ filedesc[p][fd] = h)'
                <=> /\ Counted(p, fd) /\ filedesc[p][fd] = h
                    /\ ~(p = q /\ fd = f)
    PROVE  /\ Cardinality(Holders(h)') = Cardinality(Holders(h)) - 1
           /\ Cardinality(Holders(h)) >= 1
<1>1. Holders(h)' = Holders(h) \ {<<q, f>>}
  <2> DEFINE M == {<<q, f>>}
             N == {}
  <2>1. \A p \in Pid, fd \in Fd : (<<p, fd>> \in M <=> p = q /\ fd = f) /\ <<p, fd>> \notin N
    OBVIOUS
  <2>2. N \in SUBSET (Pid \X Fd) /\ (Holders(h) \ M) \cup N = Holders(h) \ {<<q, f>>}
    OBVIOUS
  <2> HIDE DEF M, N
  <2>3. \A p \in Pid, fd \in Fd :
           (Counted(p, fd) /\ filedesc[p][fd] = h)'
             <=> \/ <<p, fd>> \in N
                 \/ Counted(p, fd) /\ filedesc[p][fd] = h /\ <<p, fd>> \notin M
    BY <2>1
  <2>4. Holders(h)' = (Holders(h) \ M) \cup N
    BY <2>2, <2>3, HoldersStep
  <2> QED
    BY <2>2, <2>4
<1>2. <<q, f>> \in Holders(h) /\ IsFiniteSet(Holders(h)) /\ Cardinality(Holders(h)) \in Nat
  BY HoldersFinite
<1>3. /\ IsFiniteSet(Holders(h) \ {<<q, f>>})
      /\ Cardinality(Holders(h) \ {<<q, f>>}) = Cardinality(Holders(h)) - 1
  BY <1>2, FS_RemoveElement
<1>4. Cardinality(Holders(h) \ {<<q, f>>}) \in Nat
  BY <1>3, FS_CardinalityType
<1> QED
  BY <1>1, <1>2, <1>3, <1>4

(* and one more is one more.                                               *)
LEMMA CountMore ==
    ASSUME NEW h, NEW q \in Pid, NEW f \in Fd, ~(Counted(q, f) /\ filedesc[q][f] = h),
           \A p \in Pid, fd \in Fd :
              (Counted(p, fd) /\ filedesc[p][fd] = h)'
                <=> \/ Counted(p, fd) /\ filedesc[p][fd] = h
                    \/ p = q /\ fd = f
    PROVE  Cardinality(Holders(h)') = Cardinality(Holders(h)) + 1
<1>1. Holders(h)' = Holders(h) \cup {<<q, f>>}
  <2> DEFINE M == {}
             N == {<<q, f>>}
  <2>1. \A p \in Pid, fd \in Fd : (<<p, fd>> \in N <=> p = q /\ fd = f) /\ <<p, fd>> \notin M
    OBVIOUS
  <2>2. N \in SUBSET (Pid \X Fd) /\ (Holders(h) \ M) \cup N = Holders(h) \cup {<<q, f>>}
    OBVIOUS
  <2> HIDE DEF M, N
  <2>3. \A p \in Pid, fd \in Fd :
           (Counted(p, fd) /\ filedesc[p][fd] = h)'
             <=> \/ <<p, fd>> \in N
                 \/ Counted(p, fd) /\ filedesc[p][fd] = h /\ <<p, fd>> \notin M
    BY <2>1
  <2>4. Holders(h)' = (Holders(h) \ M) \cup N
    BY <2>2, <2>3, HoldersStep
  <2> QED
    BY <2>2, <2>4
<1>2. <<q, f>> \notin Holders(h) /\ IsFiniteSet(Holders(h))
  BY HoldersFinite
<1> QED
  BY <1>1, <1>2, FS_AddElement

(***************************************************************************)
(* The readers that sleep.                                                 *)
(***************************************************************************)
(* A blocked reader is a live process that sleeps in a read, and its       *)
(* descriptor is one of those that keep the reader handle of the pipe.     *)
LEMMA ReaderBlocked ==
    ASSUME IInv, HInv, NEW b \in Pipe, readpid[b] # NONE
    PROVE  LET r == readpid[b]
               g == filedesc[r][arg[r]] IN
           /\ r \in Pid /\ Suspended(r) /\ arg[r] \in Fd /\ in_syscall[r] = "read"
           /\ g \in Handle /\ IsEnd(g, "reader", b) /\ Counted(r, arg[r])
           /\ reading[b] /\ writing[b]
<1> DEFINE r == readpid[b]
           g == filedesc[r][arg[r]]
<1>1. r \in Pid /\ Suspended(r)
  BY DEF IInv, TypeOK, FileTypeOK, WakersValid
<1>2. ReadsFrom(r, b) /\ reading[b]
  BY DEF HInv, BlockedReaderHoldsPipe
<1>3. g \in Handle /\ IsEnd(g, "reader", b) /\ arg[r] \in Fd /\ in_syscall[r] = "read"
  BY <1>1, <1>2 DEF ReadsFrom, IsEnd, IInv, TypeOK, FileTypeOK
<1>4. Counted(r, arg[r])
  BY <1>1 DEF Suspended, Live, Counted
<1>5. \E d \in Pipe : readpid[d] = r /\ writing[d]
  BY <1>1, <1>3 DEF IInv, NoLostWakeup, BlockedInRead, BlockedInReceive, BlockedInWaitpid
<1>6. writing[b]
  BY <1>5 DEF IInv, RegisteredOnce
<1> QED
  BY <1>1, <1>2, <1>3, <1>4, <1>6

(* What a step leaves to the reader that sleeps on b.                      *)
ReaderKept(b) ==
    LET r == readpid[b]
        g == filedesc[r][arg[r]]
    IN  readpid'[b] = r /\ reading'[b] /\ fh_type'[g] = "reader" /\ fh_pipe'[g] = b

SleepersKept ==
    \A p \in Pid : Suspended(p) => /\ in_syscall'[p] = in_syscall[p]
                                  /\ arg'[p] = arg[p]
                                  /\ filedesc'[p] = filedesc[p]

(* Who slept before and is still registered sleeps on.                     *)
LEMMA ReadersKept ==
    ASSUME IInv, HInv, SleepersKept,
           \A b \in Pipe : readpid'[b] # NONE => readpid[b] # NONE /\ ReaderKept(b)
    PROVE  BlockedReaderHoldsPipe'
<1> SUFFICES ASSUME NEW b \in Pipe, readpid'[b] # NONE
             PROVE  ReadsFrom(readpid[b], b)' /\ reading'[b]
  BY DEF BlockedReaderHoldsPipe
<1> DEFINE r == readpid[b]
           g == filedesc[r][arg[r]]
<1>1. r \in Pid /\ Suspended(r) /\ arg[r] \in Fd /\ in_syscall[r] = "read" /\ g \in Handle
  BY ReaderBlocked
<1>2. /\ readpid'[b] = r /\ reading'[b] /\ fh_type'[g] = "reader" /\ fh_pipe'[g] = b
      /\ in_syscall'[r] = "read" /\ arg'[r] = arg[r] /\ filedesc'[r][arg'[r]] = g
  BY <1>1 DEF ReaderKept, SleepersKept
<1>3. g # NULL
  BY <1>1, HeapAssumption DEF Handle, NULL
<1> QED
  BY <1>1, <1>2, <1>3 DEF ReadsFrom

(* A step that changes no descriptor, handle or pipe end keeps the counts  *)
(* and the ends,                                                           *)
LEMMA QuietHandles ==
    ASSUME HInv, UNCHANGED <<fh_type, refcount, fh_pipe, reading, writing>>,
           \A h \in Handle, p \in Pid, fd \in Fd :
              (Counted(p, fd) /\ filedesc[p][fd] = h)'
                <=> Counted(p, fd) /\ filedesc[p][fd] = h
    PROVE  RefcountExact' /\ EndsMatched'
<1>1. RefcountExact'
  <2> SUFFICES ASSUME NEW h \in Handle
               PROVE  /\ refcount'[h] = Cardinality(Holders(h)')
                      /\ fh_type'[h] = "free" <=> refcount'[h] = 0
    BY DEF RefcountExact
  <2>1. Cardinality(Holders(h)') = Cardinality(Holders(h))
    BY CountSame
  <2> QED
    BY <2>1 DEF HInv, RefcountExact
<1>2. EndsMatched'
  BY DEF HInv, EndsMatched, IsEnd
<1> QED
  BY <1>1, <1>2

(* and the readers too if it registers none.                               *)
LEMMA QuietStep ==
    ASSUME IInv, HInv, SleepersKept,
           UNCHANGED <<filedesc, fh_type, refcount, fh_pipe, reading, writing>>,
           \A p \in Pid, fd \in Fd : Counted(p, fd)' <=> Counted(p, fd),
           \A b \in Pipe : readpid'[b] # NONE => readpid'[b] = readpid[b],
           panic' = "none"
    PROVE  HInv'
<1>1. BlockedReaderHoldsPipe'
  <2>1. ASSUME NEW b \in Pipe, readpid'[b] # NONE
        PROVE  readpid[b] # NONE /\ ReaderKept(b)
    BY <2>1, ReaderBlocked DEF ReaderKept, IsEnd
  <2> QED
    BY <2>1, ReadersKept
<1> QED
  BY <1>1, QuietHandles DEF HInv, NoPanic

(***************************************************************************)
(* One lemma per action: first those that are quiet.                       *)
(***************************************************************************)
(* The timer changes nothing here.                                         *)
LEMMA TimerHandles ==
    ASSUME IInv, HInv, timer_handler
    PROVE  HInv'
<1>1. /\ UNCHANGED <<filedesc, fh_type, refcount, fh_pipe, reading, writing, readpid,
                     exists, exited, in_syscall, arg, panic>>
      /\ kpc = "user" /\ kpc' = "switch" /\ panic = "none"
  BY DEF timer_handler, UserMode, fileVars, handleVars, pipeVars, procVars, callVars
<1>2. SleepersKept /\ \A p \in Pid, fd \in Fd : Counted(p, fd)' <=> Counted(p, fd)
  BY <1>1 DEF SleepersKept, Counted
<1> QED
  BY <1>1, <1>2, QuietStep

(* Waking up a reader takes its pid out of the pipe.                       *)
LEMMA WakeReaders ==
    ASSUME IInv, NEW b \in Pipe, wake_up_reader(b)
    PROVE  /\ \A d \in Pipe : readpid'[d] # NONE => readpid'[d] = readpid[d] /\ d # b
           /\ panic' = panic
<1>1. readpid \in [Pipe -> Pid \cup {NONE}]
  BY DEF IInv, TypeOK, FileTypeOK
<1>2. CASE UNCHANGED <<listVars, readpid, panic>> /\ readpid[b] = NONE
  BY <1>2
<1>3. CASE /\ readpid[b] # NONE /\ Woke(readpid[b])
           /\ readpid' = [readpid EXCEPT ![b] = NONE]
  BY <1>1, <1>3 DEF Woke
<1> QED
  BY <1>2, <1>3, WakeEffect

(* A key press wakes up a reader and leaves the handles alone.             *)
LEMMA KeyboardHandles ==
    ASSUME IInv, HInv, keyboard_handler
    PROVE  HInv'
<1>1. /\ UNCHANGED <<filedesc, fh_type, refcount, fh_pipe, reading, writing,
                     exists, exited, in_syscall, arg>>
      /\ kpc = "user" /\ kpc' = "switch" /\ panic = "none"
      /\ wake_up_reader(InputPipe)
  BY DEF keyboard_handler, UserMode, write_to_pipe, handleVars, procVars, callVars
<1>2. SleepersKept /\ \A p \in Pid, fd \in Fd : Counted(p, fd)' <=> Counted(p, fd)
  BY <1>1 DEF SleepersKept, Counted
<1>3. InputPipe \in Pipe
  BY HeapAssumption DEF InputPipe, Pipe
<1> QED
  BY <1>1, <1>2, <1>3, WakeReaders, QuietStep

(* So does syscall_write.                                                  *)
LEMMA WriteHandles ==
    ASSUME IInv, HInv, NEW fd \in Fd, NEW n \in Nat, syscall_write(fd, n)
    PROVE  HInv'
<1>1. /\ UNCHANGED <<filedesc, fh_type, refcount, fh_pipe, reading, writing,
                     exists, exited, in_syscall, arg, kpc>>
      /\ kpc = "user" /\ panic = "none" /\ Open(fd)
      /\ fh_type[HandleOf(fd)] = "writer" /\ wake_up_reader(fh_pipe[HandleOf(fd)])
  BY DEF syscall_write, call_made, UserMode, write_to_pipe, handleVars, procVars, callVars
<1>2. SleepersKept /\ \A p \in Pid, f \in Fd : Counted(p, f)' <=> Counted(p, f)
  BY <1>1 DEF SleepersKept, Counted
<1>3. current_process \in Pid
  BY Caller DEF syscall_write, call_made
<1>4. HandleOf(fd) \in Handle
  BY <1>1, <1>3 DEF IInv, TypeOK, FileTypeOK, HandleOf, Open
<1>5. fh_pipe[HandleOf(fd)] \in Pipe
  BY <1>1, <1>4 DEF IInv, HandlesValid
<1> QED
  BY <1>1, <1>2, <1>5, WakeReaders, QuietStep

(* The scheduler does not touch a handle.                                  *)
LEMMA SwitchHandles ==
    ASSUME IInv, HInv, IInv', Switch
    PROVE  HInv'
<1>1. /\ UNCHANGED <<filedesc, fh_type, refcount, fh_pipe, reading, writing, readpid,
                     exists, exited, in_syscall, arg>>
      /\ kpc = "switch" /\ kpc' \in {"user", "restart"} /\ panic = "none"
      /\ panic' \in {panic, "enable_paging"}
  BY DEF Switch, context_switch, fileVars, handleVars, pipeVars, procVars, callVars
<1>2. SleepersKept /\ \A p \in Pid, fd \in Fd : Counted(p, fd)' <=> Counted(p, fd)
  BY <1>1 DEF SleepersKept, Counted
<1>3. panic' = "none"
  BY <1>1 DEF IInv, SchedulerNeverHalts
<1> QED
  BY <1>1, <1>2, <1>3, QuietStep

(* kill_process starts: all descriptors of the victim are still counted.   *)
LEMMA KillStartHandles ==
    ASSUME IInv, HInv, UserMode,
           UNCHANGED <<exists, exited, panic, filedesc, fh_type, refcount, fh_pipe,
                       reading, writing, readpid>>,
           kpc' = "kill", kfd' = 0, SleepersKept
    PROVE  HInv'
<1>1. \A p \in Pid, fd \in Fd : Counted(p, fd)' <=> Counted(p, fd)
  BY SizesAssumption DEF Counted, UserMode, Fd
<1> QED
  BY <1>1, QuietStep DEF UserMode

(* A fault starts it,                                                      *)
LEMMA PageFaultHandles ==
    ASSUME IInv, HInv, page_fault
    PROVE  HInv'
<1>1. /\ UserMode /\ kpc' = "kill" /\ kfd' = 0
      /\ UNCHANGED <<exists, exited, panic, filedesc, fh_type, refcount, fh_pipe,
                     reading, writing, readpid, in_syscall, arg>>
  BY DEF page_fault, call_made, kill_process, procVars, callVars, fileVars,
         handleVars, pipeVars
<1>2. SleepersKept
  BY <1>1 DEF SleepersKept
<1> QED
  BY <1>1, <1>2, KillStartHandles

(* A process that enters a call is not one of those that sleep.            *)
LEMMA CallerKeepsSleepers ==
    ASSUME IInv, filedesc' = filedesc, NEW call, NEW a,
           current_process \in Pid, isready[current_process],
           in_syscall' = [in_syscall EXCEPT ![current_process] = call],
           arg' = [arg EXCEPT ![current_process] = a]
    PROVE  SleepersKept
BY DEF SleepersKept, Suspended, IInv, TypeOK, ProcTypeOK

(* so does exit,                                                           *)
LEMMA ExitHandles ==
    ASSUME IInv, HInv, syscall_exit
    PROVE  HInv'
<1>1. /\ UserMode /\ kpc' = "kill" /\ kfd' = 0
      /\ UNCHANGED <<exists, exited, panic, filedesc, fh_type, refcount, fh_pipe,
                     reading, writing, readpid>>
      /\ in_syscall' = [in_syscall EXCEPT ![current_process] = "exit"]
      /\ arg' = [arg EXCEPT ![current_process] = 0]
  BY DEF syscall_exit, call_made, kill_process, call_pending, procVars, fileVars,
         handleVars, pipeVars
<1>2. current_process \in Pid /\ isready[current_process]
  BY Caller DEF syscall_exit, call_made
<1>3. SleepersKept
  BY <1>1, <1>2, CallerKeepsSleepers
<1> QED
  BY <1>1, <1>3, KillStartHandles

(* and kill.                                                               *)
LEMMA KillHandles ==
    ASSUME IInv, HInv, NEW pid \in Pid, syscall_kill(pid)
    PROVE  HInv'
<1>1. /\ UserMode /\ kpc' = "kill" /\ kfd' = 0
      /\ UNCHANGED <<exists, exited, panic, filedesc, fh_type, refcount, fh_pipe,
                     reading, writing, readpid>>
      /\ in_syscall' = [in_syscall EXCEPT ![current_process] = "kill"]
      /\ arg' = [arg EXCEPT ![current_process] = pid]
  BY DEF syscall_kill, call_made, kill_process, call_pending, procVars, fileVars,
         handleVars, pipeVars
<1>2. current_process \in Pid /\ isready[current_process]
  BY Caller DEF syscall_kill, call_made
<1>3. SleepersKept
  BY <1>1, <1>2, CallerKeepsSleepers
<1> QED
  BY <1>1, <1>3, KillStartHandles

(* kill_process ends: no descriptor of the victim was counted any more.    *)
LEMMA KillEndHandles ==
    ASSUME IInv, HInv, IInv', kill_process_end
    PROVE  HInv'
<1> DEFINE v == victim
           c == current_process
<1>1. /\ v \in Pid /\ exists[v] /\ ~exited[v] /\ kpc = "kill" /\ kfd = MAX_FDS
      /\ panic = "none" /\ c \in Pid \cup {NULL} /\ (c # NULL => isready[c])
      /\ exists \in [Pid -> BOOLEAN] /\ exited \in [Pid -> BOOLEAN]
  BY DEF kill_process_end, IInv, KillValid, CurrentValid, TypeOK, ProcTypeOK
<1>2. /\ kill_process_finish(v)
      /\ UNCHANGED <<filedesc, fh_type, refcount, fh_pipe, reading, writing, readpid>>
      /\ kpc' \in {"switch", "user"}
      /\ \/ UNCHANGED <<in_syscall, arg>>
         \/ /\ c # NULL
            /\ in_syscall' = [in_syscall EXCEPT ![c] = "none"]
            /\ arg' = [arg EXCEPT ![c] = 0]
  BY <1>1 DEF kill_process_end, call_returns, callVars, fileVars, handleVars, pipeVars
<1>3. /\ exists' = [exists EXCEPT ![v] = KeepsSlot(v)]
      /\ exited' = [exited EXCEPT ![v] = TRUE]
      /\ panic' \in {panic, "resume_process"}
  BY <1>2 DEF kill_process_finish, resume_process
<1>4. panic' = "none"
  BY <1>1, <1>3 DEF IInv, SchedulerNeverHalts
<1>5. \A p \in Pid, fd \in Fd : Counted(p, fd)' <=> Counted(p, fd)
  <2> SUFFICES ASSUME NEW p \in Pid, NEW fd \in Fd
               PROVE  Counted(p, fd)' <=> Counted(p, fd)
    OBVIOUS
  <2>1. CASE p = v
    BY <1>1, <1>2, <1>3, <2>1, SizesAssumption DEF Counted, Fd
  <2>2. CASE p # v
    BY <1>1, <1>2, <1>3, <2>2 DEF Counted
  <2> QED
    BY <2>1, <2>2
<1>6. SleepersKept
  <2>1. CASE UNCHANGED <<in_syscall, arg>>
    BY <1>2, <2>1 DEF SleepersKept
  <2>2. CASE c # NULL /\ in_syscall' = [in_syscall EXCEPT ![c] = "none"]
               /\ arg' = [arg EXCEPT ![c] = 0]
    BY <1>1, <1>2, <2>2, CallerKeepsSleepers
  <2> QED
    BY <1>2, <2>1, <2>2
<1> QED
  BY <1>2, <1>4, <1>5, <1>6, QuietStep

(* waitpid frees the slot of a process whose descriptors are closed.       *)
LEMMA WaitpidHandles ==
    ASSUME IInv, HInv, IInv', NEW pid \in Pid, syscall_waitpid(pid)
    PROVE  HInv'
<1> DEFINE c == current_process
<1>1. /\ c \in Pid /\ isready[c] /\ kpc \in {"user", "restart"} /\ panic = "none"
      /\ exists \in [Pid -> BOOLEAN]
  BY EnterCaller DEF syscall_waitpid, IInv, TypeOK, ProcTypeOK
<1>2. /\ UNCHANGED <<exited, filedesc, fh_type, refcount, fh_pipe, reading, writing,
                     readpid>>
      /\ kpc' \in {"user", "switch"}
      /\ exists' = exists \/ (exited[pid] /\ exists' = [exists EXCEPT ![pid] = FALSE])
      /\ panic' \in {panic, "suspend_process"}
  BY DEF syscall_waitpid, waitpid_fails, waitpid_reaps, waitpid_blocks, call_returns,
         suspend_process, fileVars, handleVars, pipeVars
<1>3. SleepersKept
  <2>1. \E call, a : /\ in_syscall' = [in_syscall EXCEPT ![c] = call]
                     /\ arg' = [arg EXCEPT ![c] = a]
    BY DEF syscall_waitpid, waitpid_fails, waitpid_reaps, waitpid_blocks, call_returns,
           call_pending
  <2> QED
    BY <1>1, <1>2, <2>1, CallerKeepsSleepers
<1>4. \A p \in Pid, fd \in Fd : Counted(p, fd)' <=> Counted(p, fd)
  BY <1>1, <1>2 DEF Counted
<1>5. panic' = "none"
  BY <1>1, <1>2 DEF IInv, SchedulerNeverHalts
<1> QED
  BY <1>2, <1>3, <1>4, <1>5, QuietStep

(* receive and send are about mailboxes only.                              *)
LEMMA ReceiveHandles ==
    ASSUME IInv, HInv, IInv', syscall_receive
    PROVE  HInv'
<1> DEFINE c == current_process
<1>1. c \in Pid /\ isready[c] /\ kpc \in {"user", "restart"} /\ panic = "none"
  BY EnterCaller DEF syscall_receive
<1>2. /\ UNCHANGED <<exists, exited, filedesc, fh_type, refcount, fh_pipe, reading,
                     writing, readpid>>
      /\ kpc' \in {"user", "switch"}
      /\ panic' \in {panic, "suspend_process"}
  BY DEF syscall_receive, receive_completes, receive_blocks, call_returns,
         suspend_process, procVars, fileVars, handleVars, pipeVars
<1>3. SleepersKept
  <2>1. \E call, a : /\ in_syscall' = [in_syscall EXCEPT ![c] = call]
                     /\ arg' = [arg EXCEPT ![c] = a]
    BY DEF syscall_receive, receive_completes, receive_blocks, call_returns, call_pending
  <2> QED
    BY <1>1, <1>2, <2>1, CallerKeepsSleepers
<1>4. \A p \in Pid, fd \in Fd : Counted(p, fd)' <=> Counted(p, fd)
  BY <1>1, <1>2 DEF Counted
<1>5. panic' = "none"
  BY <1>1, <1>2 DEF IInv, SchedulerNeverHalts
<1> QED
  BY <1>2, <1>3, <1>4, <1>5, QuietStep

(* So is send.                                                             *)
LEMMA SendHandles ==
    ASSUME IInv, HInv, IInv', NEW to \in Pid, syscall_send(to)
    PROVE  HInv'
<1>1. /\ UNCHANGED <<exists, exited, kpc, in_syscall, arg, filedesc, fh_type, refcount,
                     fh_pipe, reading, writing, readpid>>
      /\ kpc = "user" /\ panic = "none"
      /\ panic' \in {panic, "use_after_free", "resume_process"}
  BY DEF syscall_send, call_made, UserMode, notify_receiver, resume_process, procVars,
         callVars, fileVars, handleVars, pipeVars
<1>2. SleepersKept /\ \A p \in Pid, fd \in Fd : Counted(p, fd)' <=> Counted(p, fd)
  BY <1>1 DEF SleepersKept, Counted
<1>3. panic' = "none"
  BY <1>1 DEF IInv, SchedulerNeverHalts
<1> QED
  BY <1>1, <1>2, <1>3, QuietStep

(* A read registers its caller with the pipe behind its own descriptor.    *)
LEMMA ReadHandles ==
    ASSUME IInv, HInv, IInv', NEW fd \in Fd, NEW n \in Nat, syscall_read(fd, n)
    PROVE  HInv'
<1> DEFINE c == current_process
           h == HandleOf(fd)
<1>1. /\ c \in Pid /\ isready[c] /\ kpc \in {"user", "restart"} /\ panic = "none"
  BY EnterCaller DEF syscall_read
<1>2. /\ UNCHANGED <<exists, exited, filedesc, fh_type, refcount, fh_pipe, reading,
                     writing>>
      /\ kpc' \in {"user", "switch"} /\ Open(fd)
      /\ panic' \in {panic, "suspend_process"}
  BY DEF syscall_read, read_fails, read_completes, read_blocks, call_returns,
         suspend_process, procVars, handleVars
<1>3. SleepersKept
  <2>1. \E call, a : /\ in_syscall' = [in_syscall EXCEPT ![c] = call]
                     /\ arg' = [arg EXCEPT ![c] = a]
    BY DEF syscall_read, read_fails, read_completes, read_blocks, call_returns,
           call_pending
  <2> QED
    BY <1>1, <1>2, <2>1, CallerKeepsSleepers
<1>4. \A p \in Pid, f \in Fd : Counted(p, f)' <=> Counted(p, f)
  BY <1>1, <1>2 DEF Counted
<1>5. panic' = "none"
  BY <1>1, <1>2 DEF IInv, SchedulerNeverHalts
<1>6. CASE readpid' = readpid
  BY <1>2, <1>3, <1>4, <1>5, <1>6, QuietStep
<1>7. CASE read_blocks(h, fd, n)
  <2> DEFINE b == fh_pipe[h]
  <2>1. h \in Handle /\ h # NULL
    BY <1>1, <1>2 DEF Open, HandleOf, IInv, TypeOK, FileTypeOK
  <2>2. /\ fh_type[h] = "reader" /\ readpid' = [readpid EXCEPT ![b] = c]
        /\ in_syscall' = [in_syscall EXCEPT ![c] = "read"]
        /\ arg' = [arg EXCEPT ![c] = fd]
    BY <1>7 DEF read_blocks, call_pending
  <2>3. b \in Pipe
    BY <2>1, <2>2 DEF IInv, HandlesValid
  <2>4. reading[b]
    BY <2>1, <2>2, <2>3 DEF HInv, EndsMatched, IsEnd
  <2>5. /\ in_syscall'[c] = "read" /\ arg'[c] = fd /\ filedesc'[c][fd] = h
        /\ readpid \in [Pipe -> Pid \cup {NONE}]
    BY <1>1, <1>2, <2>2 DEF IInv, TypeOK, ProcTypeOK, FileTypeOK, HandleOf
  <2> HIDE DEF h, b
  <2>6. BlockedReaderHoldsPipe'
    <3> SUFFICES ASSUME NEW d \in Pipe, readpid'[d] # NONE
                 PROVE  ReadsFrom(readpid[d], d)' /\ reading'[d]
      BY DEF BlockedReaderHoldsPipe
    <3>1. CASE d = b
      <4>1. readpid'[d] = c
        BY <2>2, <2>3, <2>5, <3>1
      <4>2. fh_type'[h] = "reader" /\ fh_pipe'[h] = d
        BY <1>2, <2>2, <3>1 DEF b
      <4> QED
        BY <1>2, <2>1, <2>4, <2>5, <3>1, <4>1, <4>2 DEF ReadsFrom
    <3>2. CASE d # b
      <4>1. readpid'[d] = readpid[d]
        BY <2>2, <2>3, <2>5, <3>2
      <4>2. readpid[d] \in Pid /\ Suspended(readpid[d])
        BY <4>1, ReaderBlocked
      <4>3. /\ in_syscall'[readpid[d]] = in_syscall[readpid[d]]
            /\ arg'[readpid[d]] = arg[readpid[d]]
        BY <1>3, <4>2 DEF SleepersKept
      <4>4. ReadsFrom(readpid[d], d) /\ reading[d]
        BY <4>1 DEF HInv, BlockedReaderHoldsPipe
      <4> QED
        BY <1>2, <4>1, <4>3, <4>4 DEF ReadsFrom
    <3> QED
      BY <3>1, <3>2
  <2> QED
    BY <1>2, <1>4, <1>5, <2>6, QuietHandles DEF HInv, NoPanic
<1> QED
  BY <1>6, <1>7 DEF syscall_read, read_fails, read_completes

(***************************************************************************)
(* Giving up a reference.                                                  *)
(***************************************************************************)
(* Two descriptors that refer to a handle count twice.                     *)
LEMMA TwoHolders ==
    ASSUME NEW h, NEW d \in Holders(h), NEW e \in Holders(h)
    PROVE  /\ Cardinality(Holders(h)) >= 1
           /\ d # e => Cardinality(Holders(h)) >= 2
<1>1. IsFiniteSet(Holders(h)) /\ Cardinality(Holders(h)) \in Nat
  BY HoldersFinite
<1>2. Cardinality(Holders(h)) # 0
  BY <1>1, FS_EmptySet
<1>3. ASSUME d # e PROVE Cardinality(Holders(h)) # 1
  <2>1. ~ \E x : Holders(h) = {x}
    BY <1>3
  <2> QED
    BY <1>1, <2>1, FS_Singleton
<1> QED
  BY <1>1, <1>2, <1>3

(* The last descriptor of a handle is not one a sleeping reader needs.     *)
LEMMA LastHolder ==
    ASSUME IInv, HInv, NEW h \in Handle, NEW q \in Pid, NEW f \in Fd,
           Counted(q, f), filedesc[q][f] = h, ~Suspended(q)
    PROVE  /\ refcount[h] \in Nat /\ refcount[h] >= 1
           /\ refcount[h] = 1 =>
                \A b \in Pipe : readpid[b] # NONE =>
                    filedesc[readpid[b]][arg[readpid[b]]] # h
<1>1. <<q, f>> \in Holders(h) /\ refcount[h] = Cardinality(Holders(h))
  BY HoldersFinite DEF HInv, RefcountExact
<1>2. refcount[h] \in Nat /\ refcount[h] >= 1
  BY <1>1, TwoHolders, HoldersFinite
<1>3. ASSUME NEW b \in Pipe, readpid[b] # NONE,
             filedesc[readpid[b]][arg[readpid[b]]] = h
      PROVE  refcount[h] >= 2
  <2> DEFINE r == readpid[b]
  <2>1. r \in Pid /\ Suspended(r) /\ arg[r] \in Fd /\ Counted(r, arg[r])
    BY <1>3, ReaderBlocked
  <2>2. <<r, arg[r]>> \in Holders(h) /\ <<r, arg[r]>> # <<q, f>>
    BY <1>3, <2>1, HoldersFinite
  <2> QED
    BY <1>1, <2>2, TwoHolders
<1> QED
  BY <1>2, <1>3

(* Releasing a reference of a process that does not sleep fails no         *)
(* assertion, closes a pipe end exactly with its handle, and takes nothing *)
(* from the readers that sleep.                                            *)
LEMMA ReleaseSafe ==
    ASSUME IInv, HInv, NEW h \in Handle, NEW q \in Pid, NEW f \in Fd,
           Counted(q, f), filedesc[q][f] = h, ~Suspended(q), release(h)
    PROVE  /\ panic' = "none" /\ EndsMatched'
           /\ \A g \in Handle : fh_type'[g] =
                 IF g = h /\ refcount[h] = 1 THEN "free" ELSE fh_type[g]
           /\ \A b \in Pipe : readpid'[b] # NONE => readpid[b] # NONE /\ ReaderKept(b)
<1>1. /\ refcount[h] \in Nat /\ refcount[h] >= 1
      /\ panic = "none" /\ EndsMatched /\ FileTypeOK
  BY LastHolder DEF HInv, NoPanic, IInv, TypeOK
<1>2. CASE refcount[h] > 1
  <2>1. UNCHANGED <<fh_type, fh_pipe, reading, writing, len, readpid, panic>>
    BY <1>2 DEF release, pipeVars
  <2>2. EndsMatched'
    BY <1>1, <2>1 DEF EndsMatched, IsEnd
  <2>3. \A b \in Pipe : readpid'[b] # NONE => readpid[b] # NONE /\ ReaderKept(b)
    BY <2>1, ReaderBlocked DEF ReaderKept, IsEnd
  <2> QED
    BY <1>1, <1>2, <2>1, <2>2, <2>3
<1>3. CASE refcount[h] = 1
  <2>1. /\ fh_type' = [fh_type EXCEPT ![h] = "free"]
        /\ fh_pipe' = [fh_pipe EXCEPT ![h] = NULL]
    BY <1>3 DEF release, destroy
  <2>2. /\ \A g \in Handle : fh_type'[g] = IF g = h THEN "free" ELSE fh_type[g]
        /\ \A g \in Handle : fh_pipe'[g] = IF g = h THEN NULL ELSE fh_pipe[g]
    BY <1>1, <2>1 DEF FileTypeOK
  <2>3. \A g \in Handle, t \in {"reader", "writer"}, b \in Pipe :
            IsEnd(g, t, b)' <=> IsEnd(g, t, b) /\ g # h
    BY <2>2 DEF IsEnd
  <2>4. ASSUME NEW b \in Pipe, readpid[b] # NONE, readpid'[b] = readpid[b],
               reading'[b]
        PROVE  ReaderKept(b)
    <3> DEFINE g == filedesc[readpid[b]][arg[readpid[b]]]
    <3>1. g \in Handle /\ IsEnd(g, "reader", b) /\ g # h
      BY <1>3, <2>4, ReaderBlocked, LastHolder
    <3>2. fh_type'[g] = "reader" /\ fh_pipe'[g] = b
      BY <2>2, <3>1 DEF IsEnd
    <3> QED
      BY <2>4, <3>2 DEF ReaderKept
  <2>5. CASE fh_type[h] = "writer"
    <3> DEFINE d == fh_pipe[h]
    <3>1. d \in Pipe /\ IsEnd(h, "writer", d)
      BY <2>5 DEF IInv, HandlesValid, IsEnd
    <3>2. writing[d] /\ d # InputPipe
      BY <1>1, <3>1 DEF EndsMatched
    <3>3. /\ writing' = [writing EXCEPT ![d] = FALSE] /\ reading' = reading
          /\ wake_up_reader(d)
      BY <1>3, <2>5, <3>2 DEF release, destroy, pipe_writer_destroy
    <3> HIDE DEF d
    <3>4. \A b \in Pipe : writing'[b] = IF b = d THEN FALSE ELSE writing[b]
      BY <1>1, <3>3 DEF FileTypeOK
    <3>5. EndsMatched'
      <4>1. \A g \in Handle, b \in Pipe :
                IsEnd(g, "writer", b)' <=> IsEnd(g, "writer", b) /\ b # d
        BY <1>1, <2>3, <3>1 DEF EndsMatched, IsEnd
      <4>2. \A g \in Handle, b \in Pipe :
                IsEnd(g, "reader", b)' <=> IsEnd(g, "reader", b)
        BY <2>3, <2>5 DEF IsEnd
      <4>3. InputPipe \in Pipe
        BY HeapAssumption DEF InputPipe, Pipe
      <4>4. \A b \in Pipe : writing'[b] <=> writing[b] /\ b # d
        BY <3>4
      <4> QED
        BY <1>1, <3>2, <3>3, <4>1, <4>2, <4>3, <4>4 DEF EndsMatched
    <3>6. /\ panic' = panic
          /\ \A b \in Pipe : readpid'[b] # NONE => readpid'[b] = readpid[b]
      BY <3>1, <3>3, WakeReaders
    <3>7. \A b \in Pipe : readpid'[b] # NONE => readpid[b] # NONE /\ ReaderKept(b)
      BY <2>4, <3>3, <3>6, ReaderBlocked
    <3> QED
      BY <1>1, <1>3, <2>2, <3>5, <3>6, <3>7
  <2>6. CASE fh_type[h] = "reader"
    <3> DEFINE d == fh_pipe[h]
    <3>1. d \in Pipe /\ IsEnd(h, "reader", d)
      BY <2>6 DEF IInv, HandlesValid, IsEnd
    <3>2. reading[d]
      BY <1>1, <3>1 DEF EndsMatched
    <3>3. readpid[d] = NONE
      <4>1. ASSUME readpid[d] # NONE
            PROVE  filedesc[readpid[d]][arg[readpid[d]]] = h
        BY <1>1, <3>1, <4>1, ReaderBlocked DEF EndsMatched
      <4> QED
        BY <1>3, <3>1, <4>1, LastHolder
    <3>4. /\ reading' = [reading EXCEPT ![d] = FALSE] /\ writing' = writing
          /\ readpid' = readpid /\ panic' = panic
      BY <1>3, <2>6, <3>2, <3>3 DEF release, destroy, pipe_reader_destroy
    <3> HIDE DEF d
    <3>5. \A b \in Pipe : reading'[b] = IF b = d THEN FALSE ELSE reading[b]
      BY <1>1, <3>4 DEF FileTypeOK
    <3>6. EndsMatched'
      <4>1. \A g \in Handle, b \in Pipe :
                IsEnd(g, "reader", b)' <=> IsEnd(g, "reader", b) /\ b # d
        BY <1>1, <2>3, <3>1 DEF EndsMatched, IsEnd
      <4>2. \A g \in Handle, b \in Pipe :
                IsEnd(g, "writer", b)' <=> IsEnd(g, "writer", b)
        BY <2>3, <2>6 DEF IsEnd
      <4>3. \A b \in Pipe : reading'[b] <=> reading[b] /\ b # d
        BY <3>5
      <4> QED
        BY <1>1, <3>4, <4>1, <4>2, <4>3 DEF EndsMatched
    <3>7. \A b \in Pipe : readpid'[b] # NONE => readpid[b] # NONE /\ ReaderKept(b)
      BY <2>4, <3>3, <3>4, <3>5, ReaderBlocked
    <3> QED
      BY <1>1, <1>3, <2>2, <3>4, <3>6, <3>7
  <2>7. CASE fh_type[h] \notin {"reader", "writer"}
    <3>1. UNCHANGED <<reading, writing, readpid, panic>>
      BY <1>3, <2>7 DEF release, destroy, pipeVars
    <3>2. \A g \in Handle, t \in {"reader", "writer"}, b \in Pipe :
              IsEnd(g, t, b)' <=> IsEnd(g, t, b)
      BY <2>3, <2>7 DEF IsEnd
    <3>3. EndsMatched'
      BY <1>1, <3>1, <3>2 DEF EndsMatched
    <3>4. \A b \in Pipe : readpid'[b] # NONE => readpid[b] # NONE /\ ReaderKept(b)
      BY <2>4, <3>1, ReaderBlocked
    <3> QED
      BY <1>1, <1>3, <2>2, <3>1, <3>3, <3>4
  <2> QED
    BY <2>5, <2>6, <2>7
<1> QED
  BY <1>1, <1>2, <1>3

(* close_filehandle, for a descriptor that stops being counted.            *)
LEMMA CloseStep ==
    ASSUME IInv, HInv, NEW h \in Handle, NEW q \in Pid, NEW f \in Fd,
           Counted(q, f), filedesc[q][f] = h, ~Suspended(q),
           close_filehandle(h), SleepersKept,
           \A g \in Handle, p \in Pid, fd \in Fd :
              (Counted(p, fd) /\ filedesc[p][fd] = g)'
                <=> Counted(p, fd) /\ filedesc[p][fd] = g /\ ~(p = q /\ fd = f)
    PROVE  HInv'
<1>1. /\ panic' = "none" /\ EndsMatched'
      /\ \A g \in Handle : fh_type'[g] =
            IF g = h /\ refcount[h] = 1 THEN "free" ELSE fh_type[g]
      /\ \A b \in Pipe : readpid'[b] # NONE => readpid[b] # NONE /\ ReaderKept(b)
  BY ReleaseSafe DEF close_filehandle
<1>2. refcount[h] \in Nat /\ refcount[h] >= 1
  BY LastHolder
<1>3. \A g \in Handle : refcount'[g] = IF g = h THEN refcount[h] - 1 ELSE refcount[g]
  BY <1>2 DEF close_filehandle, Dropped, IInv, TypeOK, FileTypeOK
<1>4. RefcountExact'
  <2> SUFFICES ASSUME NEW g \in Handle
               PROVE  /\ refcount'[g] = Cardinality(Holders(g)')
                      /\ fh_type'[g] = "free" <=> refcount'[g] = 0
    BY DEF RefcountExact
  <2>1. /\ refcount[g] = Cardinality(Holders(g))
        /\ fh_type[g] = "free" <=> refcount[g] = 0
    BY DEF HInv, RefcountExact
  <2>2. CASE g = h
    <3>1. Cardinality(Holders(h)') = Cardinality(Holders(h)) - 1
      BY CountLess
    <3> QED
      BY <1>1, <1>2, <1>3, <2>1, <2>2, <3>1
  <2>3. CASE g # h
    <3>1. Cardinality(Holders(g)') = Cardinality(Holders(g))
      BY <2>3, CountSame
    <3> QED
      BY <1>1, <1>3, <2>1, <2>3, <3>1
  <2> QED
    BY <2>2, <2>3
<1>5. BlockedReaderHoldsPipe'
  BY <1>1, ReadersKept
<1> QED
  BY <1>1, <1>4, <1>5 DEF HInv, NoPanic

(* The running process changes its own descriptors only.                   *)
LEMMA OwnDescriptors ==
    ASSUME IInv, UserMode, current_process # NULL,
           UNCHANGED <<exists, exited, kpc, in_syscall, arg>>,
           NEW t, filedesc' = [filedesc EXCEPT ![current_process] = t]
    PROVE  /\ current_process \in Pid /\ ~Suspended(current_process)
           /\ \A fd \in Fd : Counted(current_process, fd)
           /\ \A p \in Pid, fd \in Fd : Counted(p, fd)' <=> Counted(p, fd)
           /\ SleepersKept
<1>1. /\ current_process \in Pid /\ Live(current_process)
      /\ isready[current_process] /\ kpc = "user"
  BY Caller DEF UserMode
<1>2. ~Suspended(current_process)
  BY <1>1 DEF Suspended
<1>3. SleepersKept
  BY <1>1, <1>2 DEF SleepersKept, IInv, TypeOK, FileTypeOK
<1> QED
  BY <1>1, <1>2, <1>3 DEF Counted, Live

(* close gives up the reference of its descriptor.                         *)
LEMMA CloseHandles ==
    ASSUME IInv, HInv, NEW fd \in Fd, syscall_close(fd)
    PROVE  HInv'
<1> DEFINE c == current_process
           h == HandleOf(fd)
<1>1. /\ UserMode /\ c # NULL /\ Open(fd)
      /\ UNCHANGED <<exists, exited, kpc, in_syscall, arg>>
      /\ close_filehandle(h)
      /\ filedesc' = [filedesc EXCEPT ![c] = [filedesc[c] EXCEPT ![fd] = NULL]]
  BY DEF syscall_close, call_made, procVars, callVars
<1>2. /\ c \in Pid /\ ~Suspended(c) /\ Counted(c, fd) /\ SleepersKept
      /\ \A p \in Pid, f \in Fd : Counted(p, f)' <=> Counted(p, f)
  BY <1>1, OwnDescriptors
<1>3. h \in Handle /\ filedesc[c][fd] = h
  BY <1>1, <1>2 DEF Open, HandleOf, IInv, TypeOK, FileTypeOK
<1>4. \A p \in Pid, f \in Fd :
          filedesc'[p][f] = IF p = c /\ f = fd THEN NULL ELSE filedesc[p][f]
  BY <1>1, <1>2 DEF IInv, TypeOK, FileTypeOK
<1>5. \A g \in Handle : g # NULL
  BY HeapAssumption DEF Handle, NULL
<1>6. \A g \in Handle, p \in Pid, f \in Fd :
         (Counted(p, f) /\ filedesc[p][f] = g)'
           <=> Counted(p, f) /\ filedesc[p][f] = g /\ ~(p = c /\ f = fd)
  BY <1>2, <1>4, <1>5
<1> HIDE DEF c, h
<1> QED
  BY <1>1, <1>2, <1>3, <1>6, CloseStep

(* kill_process gives up the references of its victim one by one.          *)
LEMMA KillCloseHandles ==
    ASSUME IInv, HInv, KillClose
    PROVE  HInv'
<1> DEFINE v == victim
           f == kfd
           h == filedesc[v][f]
<1>1. /\ v \in Pid /\ exists[v] /\ ~exited[v] /\ kpc = "kill" /\ f \in Fd
      /\ kfd' = f + 1 /\ panic = "none"
      /\ UNCHANGED <<filedesc, exists, exited, in_syscall, arg, kpc, victim>>
  BY SizesAssumption DEF KillClose, kill_process_close, IInv, KillValid, TypeOK, ProcTypeOK, Fd,
      procVars, callVars
<1>2. SleepersKept /\ ~Suspended(v) /\ Counted(v, f)
  BY <1>1 DEF SleepersKept, Suspended, Live, Counted, Fd
<1>3. \A p \in Pid, fd \in Fd : Counted(p, fd)' <=> Counted(p, fd) /\ ~(p = v /\ fd = f)
  BY <1>1, SizesAssumption DEF Counted, Fd
<1>4. \A g \in Handle : g # NULL
  BY HeapAssumption DEF Handle, NULL
<1>5. CASE h # NULL
  <2>1. close_filehandle(h) /\ h \in Handle
    BY <1>1, <1>5 DEF KillClose, kill_process_close, IInv, TypeOK, FileTypeOK
  <2>2. \A g \in Handle, p \in Pid, fd \in Fd :
         (Counted(p, fd) /\ filedesc[p][fd] = g)'
           <=> Counted(p, fd) /\ filedesc[p][fd] = g /\ ~(p = v /\ fd = f)
    BY <1>1, <1>3
  <2> HIDE DEF h
  <2> QED
    BY <1>1, <1>2, <2>1, <2>2, CloseStep DEF h
<1>6. CASE h = NULL
  <2>1. UNCHANGED <<fh_type, refcount, fh_pipe, reading, writing, readpid, panic>>
    BY <1>6 DEF KillClose, kill_process_close, close_nothing, handleVars, pipeVars
  <2>2. RefcountExact' /\ EndsMatched'
    BY <1>1, <1>3, <1>4, <1>6, <2>1, QuietHandles
  <2>3. BlockedReaderHoldsPipe'
    <3>1. \A b \in Pipe : readpid'[b] # NONE => readpid[b] # NONE /\ ReaderKept(b)
      BY <1>1, <2>1, ReaderBlocked DEF ReaderKept, IsEnd
    <3> QED
      BY <1>2, <3>1, ReadersKept
  <2> QED
    BY <1>1, <2>1, <2>2, <2>3 DEF HInv, NoPanic
<1> QED
  BY <1>5, <1>6

(* dup2 gives up the reference of newfd, if it has one, and takes another  *)
(* to the handle of oldfd, which may be the same.                          *)
LEMMA Dup2Handles ==
    ASSUME IInv, HInv, NEW oldfd \in Fd, NEW newfd \in Fd, syscall_dup2(oldfd, newfd)
    PROVE  HInv'
<1> DEFINE c == current_process
<1>0. PICK fh, hn : fh = HandleOf(oldfd) /\ hn = HandleOf(newfd)
  OBVIOUS
<1>1. /\ UserMode /\ c # NULL /\ Open(oldfd) /\ oldfd # newfd /\ panic = "none"
      /\ UNCHANGED <<exists, exited, kpc, in_syscall, arg>>
      /\ filedesc' = [filedesc EXCEPT ![c] = [filedesc[c] EXCEPT ![newfd] = fh]]
  BY <1>0 DEF syscall_dup2, call_made, procVars, callVars, UserMode
<1>2. /\ c \in Pid /\ ~Suspended(c) /\ SleepersKept
      /\ \A f \in Fd : Counted(c, f)
      /\ \A p \in Pid, f \in Fd : Counted(p, f)' <=> Counted(p, f)
  BY <1>1, OwnDescriptors
<1>3. fh \in Handle /\ filedesc[c][oldfd] = fh /\ filedesc[c][newfd] = hn
  BY <1>0, <1>1, <1>2 DEF Open, HandleOf, IInv, TypeOK, FileTypeOK
<1>4. \A p \in Pid, f \in Fd :
          filedesc'[p][f] = IF p = c /\ f = newfd THEN fh ELSE filedesc[p][f]
  BY <1>1, <1>2 DEF IInv, TypeOK, FileTypeOK
<1>5. \/ /\ hn \in Handle /\ release(hn)
         /\ refcount' = [refcount EXCEPT ![hn] = Dropped(@), ![fh] = @ + 1]
      \/ /\ hn = NULL /\ refcount' = [refcount EXCEPT ![fh] = @ + 1]
         /\ UNCHANGED <<fh_type, fh_pipe, reading, writing, readpid, panic>>
  BY <1>0, <1>2 DEF syscall_dup2, pipeVars, Open, HandleOf, IInv, TypeOK, FileTypeOK
<1> HIDE DEF c
<1>6. \A g \in Handle : /\ g # NULL /\ refcount[g] \in Nat
                        /\ refcount[g] = Cardinality(Holders(g))
                        /\ fh_type[g] = "free" <=> refcount[g] = 0
  BY HeapAssumption DEF Handle, NULL, HInv, RefcountExact, IInv, TypeOK, FileTypeOK
<1>7. <<c, oldfd>> \in Holders(fh) /\ refcount[fh] >= 1
  BY <1>2, <1>3, <1>6, HoldersFinite, TwoHolders
<1>8. ASSUME NEW g \in Handle, g # fh, g # hn
      PROVE  Cardinality(Holders(g)') = Cardinality(Holders(g))
  BY <1>2, <1>3, <1>4, <1>8, CountSame
<1>9. ASSUME hn # fh
      PROVE  Cardinality(Holders(fh)') = Cardinality(Holders(fh)) + 1
  <2>1. ~(Counted(c, newfd) /\ filedesc[c][newfd] = fh)
    BY <1>3, <1>9
  <2>2. \A p \in Pid, f \in Fd :
           (Counted(p, f) /\ filedesc[p][f] = fh)'
             <=> \/ Counted(p, f) /\ filedesc[p][f] = fh
                 \/ p = c /\ f = newfd
    BY <1>2, <1>4
  <2> QED
    BY <1>2, <2>1, <2>2, CountMore
<1>10. CASE hn # NULL
  <2>1. hn \in Handle
    BY <1>10, <1>5
  <2>2. release(hn) /\ refcount' = [refcount EXCEPT ![hn] = Dropped(@), ![fh] = @ + 1]
    BY <1>10, <1>5
  <2>3. /\ panic' = "none" /\ EndsMatched'
        /\ \A g \in Handle : fh_type'[g] =
              IF g = hn /\ refcount[hn] = 1 THEN "free" ELSE fh_type[g]
        /\ \A b \in Pipe : readpid'[b] # NONE => readpid[b] # NONE /\ ReaderKept(b)
    BY <1>2, <1>3, <2>1, <2>2, ReleaseSafe
  <2>4. BlockedReaderHoldsPipe'
    BY <1>2, <2>3, ReadersKept
  <2>5. refcount[hn] >= 1 /\ Dropped(refcount[hn]) = refcount[hn] - 1
    <3>1. refcount[hn] >= 1
      BY <1>2, <1>3, <2>1, LastHolder
    <3> QED
      BY <1>6, <2>1, <3>1 DEF Dropped
  <2>6. CASE hn = fh
    <3>1. \A g \in Handle : refcount'[g] = refcount[g]
      BY <1>3, <1>6, <2>2, <2>5, <2>6 DEF IInv, TypeOK, FileTypeOK
    <3>2. refcount[fh] >= 2
      <4>1. <<c, newfd>> \in Holders(fh) /\ <<c, newfd>> # <<c, oldfd>>
        BY <1>1, <1>2, <1>3, <2>6, HoldersFinite
      <4> QED
        BY <1>3, <1>6, <1>7, <4>1, TwoHolders
    <3>3. \A g \in Handle : fh_type'[g] = fh_type[g]
      BY <1>6, <2>3, <2>6, <3>2
    <3>4. ASSUME NEW g \in Handle
          PROVE  Cardinality(Holders(g)') = Cardinality(Holders(g))
      BY <1>2, <1>3, <1>4, <2>6, CountSame
    <3>5. RefcountExact'
      BY <1>6, <3>1, <3>3, <3>4 DEF RefcountExact
    <3> QED
      BY <2>3, <2>4, <3>5 DEF HInv, NoPanic
  <2>7. CASE hn # fh
    <3>1. \A g \in Handle : refcount'[g] = IF g = hn THEN refcount[g] - 1
                                        ELSE IF g = fh THEN refcount[g] + 1
                                        ELSE refcount[g]
      BY <1>3, <2>1, <2>2, <2>5, <2>7 DEF IInv, TypeOK, FileTypeOK
    <3>2. Cardinality(Holders(hn)') = Cardinality(Holders(hn)) - 1
      <4>1. \A p \in Pid, f \in Fd :
               (Counted(p, f) /\ filedesc[p][f] = hn)'
                 <=> Counted(p, f) /\ filedesc[p][f] = hn /\ ~(p = c /\ f = newfd)
        BY <1>2, <1>4, <2>7
      <4> QED
        BY <1>2, <1>3, <4>1, CountLess
    <3>3. RefcountExact'
      <4> SUFFICES ASSUME NEW g \in Handle
                   PROVE  /\ refcount'[g] = Cardinality(Holders(g)')
                          /\ fh_type'[g] = "free" <=> refcount'[g] = 0
        BY DEF RefcountExact
      <4>1. CASE g = hn
        BY <1>6, <2>3, <2>5, <3>1, <3>2, <4>1
      <4>2. CASE g = fh
        BY <1>6, <1>7, <1>9, <2>3, <2>7, <3>1, <4>2
      <4>3. CASE g # fh /\ g # hn
        BY <1>6, <1>8, <2>3, <3>1, <4>3
      <4> QED
        BY <4>1, <4>2, <4>3
    <3> QED
      BY <2>3, <2>4, <3>3 DEF HInv, NoPanic
  <2> QED
    BY <2>6, <2>7
<1>11. CASE hn = NULL
  <2>1. /\ refcount' = [refcount EXCEPT ![fh] = @ + 1]
        /\ UNCHANGED <<fh_type, fh_pipe, reading, writing, readpid, panic>>
    BY <1>6, <1>5, <1>11
  <2>2. hn = NULL
    BY <1>11
  <2>3. \A g \in Handle : refcount'[g] = IF g = fh THEN refcount[g] + 1 ELSE refcount[g]
    BY <1>3, <2>1 DEF IInv, TypeOK, FileTypeOK
  <2>4. EndsMatched'
    BY <2>1 DEF HInv, EndsMatched, IsEnd
  <2>5. BlockedReaderHoldsPipe'
    <3>1. \A b \in Pipe : readpid'[b] # NONE => readpid[b] # NONE /\ ReaderKept(b)
      BY <2>1, ReaderBlocked DEF ReaderKept, IsEnd
    <3> QED
      BY <1>2, <3>1, ReadersKept
  <2>6. RefcountExact'
    <3> SUFFICES ASSUME NEW g \in Handle
                 PROVE  /\ refcount'[g] = Cardinality(Holders(g)')
                        /\ fh_type'[g] = "free" <=> refcount'[g] = 0
      BY DEF RefcountExact
    <3>1. CASE g = fh
      BY <1>3, <1>6, <1>7, <1>9, <2>1, <2>2, <2>3, <3>1
    <3>2. CASE g # fh
      BY <1>6, <1>8, <2>1, <2>2, <2>3, <3>2
    <3> QED
      BY <3>1, <3>2
  <2> QED
    BY <1>1, <2>1, <2>4, <2>5, <2>6 DEF HInv, NoPanic
<1> QED
  BY <1>10, <1>11

(***************************************************************************)
(* Taking references: fork and pipe.                                       *)
(***************************************************************************)
(* fork takes one reference for each descriptor of the parent.             *)
LEMMA ForkHandles ==
    ASSUME IInv, HInv, syscall_fork
    PROVE  HInv'
<1> DEFINE c == current_process
<1>0. PICK k : k = get_free_pid
  OBVIOUS
<1>1. /\ c \in Pid /\ Live(c) /\ exists[c] /\ ~exited[c] /\ kpc = "user"
      /\ panic = "none"
  BY Caller DEF syscall_fork, call_made, UserMode, Live
<1>2. k \in Pid /\ ~exists[k] /\ k # c
  BY <1>0, <1>1, FreePid DEF syscall_fork
<1>3. /\ exists' = [exists EXCEPT ![k] = TRUE]
      /\ exited' = [exited EXCEPT ![k] = FALSE]
      /\ in_syscall' = [in_syscall EXCEPT ![k] = "none"]
      /\ arg' = [arg EXCEPT ![k] = 0]
      /\ filedesc' = [filedesc EXCEPT ![k] = filedesc[c]]
      /\ refcount' = [h \in Handle |-> refcount[h] + Cardinality(References(c, h))]
      /\ UNCHANGED <<kpc, panic, fh_type, fh_pipe, reading, writing, readpid>>
  BY <1>0 DEF syscall_fork, pipeVars
<1> HIDE DEF c
<1>4. /\ \A p \in Pid : exists'[p] = (p = k \/ exists[p])
      /\ \A p \in Pid : exited'[p] = (p # k /\ exited[p])
      /\ \A p \in Pid : filedesc'[p] = IF p = k THEN filedesc[c] ELSE filedesc[p]
  BY <1>2, <1>3 DEF IInv, TypeOK, ProcTypeOK, FileTypeOK
<1>5. ~Suspended(k) /\ SleepersKept
  BY <1>2, <1>3 DEF SleepersKept, Suspended, Live, IInv, TypeOK, ProcTypeOK, FileTypeOK
<1>6. \A p \in Pid, fd \in Fd : /\ Counted(p, fd)' <=> (p = k \/ Counted(p, fd))
                               /\ Counted(c, fd) /\ ~Counted(k, fd)
  BY <1>1, <1>2, <1>3, <1>4 DEF Counted
<1>7. RefcountExact'
  <2> SUFFICES ASSUME NEW h \in Handle
               PROVE  /\ refcount'[h] = Cardinality(Holders(h)')
                      /\ fh_type'[h] = "free" <=> refcount'[h] = 0
    BY DEF RefcountExact
  <2> DEFINE R == References(c, h)
             M == {}
             N == {k} \X R
  <2>1. /\ R \in SUBSET Fd
        /\ \A fd \in Fd : fd \in R <=> filedesc[c][fd] = h
    BY DEF References
  <2>2. IsFiniteSet(R) /\ Cardinality(R) \in Nat
    <3>1. IsFiniteSet(Fd)
      BY SizesAssumption, FS_Interval DEF Fd
    <3> QED
      BY <2>1, <3>1, FS_Subset, FS_CardinalityType
  <2>3. IsFiniteSet(N) /\ Cardinality(N) = Cardinality(R)
    <3>1. IsFiniteSet({k}) /\ Cardinality({k}) = 1
      BY FS_Singleton
    <3>2. IsFiniteSet(N) /\ Cardinality(N) = 1 * Cardinality(R)
      BY <2>2, <3>1, FS_Product
    <3> QED
      BY <2>2, <3>2
  <2>4. /\ N \in SUBSET (Pid \X Fd) /\ (Holders(h) \ M) \cup N = Holders(h) \cup N
        /\ \A p \in Pid, fd \in Fd : /\ <<p, fd>> \in N <=> p = k /\ fd \in R
                                     /\ <<p, fd>> \notin M
        /\ \A d \in N : \E fd \in Fd : d = <<k, fd>>
    BY <1>2, <2>1
  <2> HIDE DEF R, M, N
  <2>5. Holders(h)' = Holders(h) \cup N
    <3>1. \A p \in Pid, fd \in Fd :
             (Counted(p, fd) /\ filedesc[p][fd] = h)'
               <=> \/ <<p, fd>> \in N
                   \/ Counted(p, fd) /\ filedesc[p][fd] = h /\ <<p, fd>> \notin M
      BY <1>4, <1>6, <2>1, <2>4
    <3>2. Holders(h)' = (Holders(h) \ M) \cup N
      BY <2>4, <3>1, HoldersStep
    <3> QED
      BY <2>4, <3>2
  <2>6. Holders(h) \cap N = {}
    <3>1. \A fd \in Fd : <<k, fd>> \notin Holders(h)
      BY <1>2, <1>6, HoldersFinite
    <3> QED
      BY <2>4, <3>1
  <2>7. Cardinality(Holders(h)') = Cardinality(Holders(h)) + Cardinality(R)
    <3>1. Cardinality(Holders(h) \cup N)
            = Cardinality(Holders(h)) + Cardinality(N) - Cardinality(Holders(h) \cap N)
      BY <2>3, HoldersFinite, FS_Union
    <3>2. Cardinality(Holders(h) \cap N) = 0
      BY <2>6, FS_EmptySet
    <3> QED
      BY <2>2, <2>3, <2>5, <3>1, <3>2, HoldersFinite
  <2>8. refcount'[h] = refcount[h] + Cardinality(R)
    BY <1>3 DEF R
  <2>9. /\ refcount[h] = Cardinality(Holders(h)) /\ refcount[h] \in Nat
        /\ fh_type[h] = "free" <=> refcount[h] = 0
    BY DEF HInv, RefcountExact, IInv, TypeOK, FileTypeOK
  <2>10. refcount[h] = 0 => Cardinality(R) = 0
    <3> SUFFICES ASSUME refcount[h] = 0 PROVE R = {}
      BY FS_EmptySet
    <3>1. Holders(h) = {}
      BY <2>9, HoldersFinite, FS_EmptySet
    <3> QED
      BY <1>1, <1>6, <2>1, <3>1, HoldersFinite DEF c
  <2> QED
    BY <1>3, <2>2, <2>7, <2>8, <2>9, <2>10
<1>8. EndsMatched'
  BY <1>3 DEF HInv, EndsMatched, IsEnd
<1>9. BlockedReaderHoldsPipe'
  <2>1. \A b \in Pipe : readpid'[b] # NONE => readpid[b] # NONE /\ ReaderKept(b)
    BY <1>3, ReaderBlocked DEF ReaderKept, IsEnd
  <2> QED
    BY <1>5, <2>1, ReadersKept
<1> QED
  BY <1>1, <1>3, <1>7, <1>8, <1>9 DEF HInv, NoPanic

(* What pipe takes is free: two descriptors, two handles and a pipe.       *)
LEMMA PipeTakesFree ==
    ASSUME IInv, current_process \in Pid, FreePipes # {}, Cardinality(FreeHandles) >= 2,
           Cardinality({fd \in Fd : ~Open(fd)}) >= 2
    PROVE  LET free    == {fd \in Fd : ~Open(fd)}
               readfd  == Least(free)
               writefd == Least(free \ {readfd})
               b  == Least(FreePipes)
               rh == Least(FreeHandles)
               wh == Least(FreeHandles \ {rh})
           IN  /\ readfd \in Fd /\ ~Open(readfd) /\ writefd \in Fd /\ ~Open(writefd)
               /\ readfd # writefd
               /\ b \in Pipe /\ readpid[b] = NONE /\ ~writing[b] /\ ~reading[b]
               /\ rh \in Handle /\ fh_type[rh] = "free" /\ wh \in Handle
               /\ fh_type[wh] = "free" /\ rh # wh
<1> DEFINE free    == {fd \in Fd : ~Open(fd)}
           readfd  == Least(free)
           writefd == Least(free \ {readfd})
           b  == Least(FreePipes)
           rh == Least(FreeHandles)
           wh == Least(FreeHandles \ {rh})
<1>1. readfd \in free /\ writefd \in free /\ readfd # writefd
  <2>1. IsFiniteSet(Fd) /\ Fd \in SUBSET Nat /\ free \in SUBSET Fd
    BY SizesAssumption, FS_Interval DEF Fd
  <2>2. free \in SUBSET Nat /\ IsFiniteSet(free) /\ Cardinality(free) >= 2
    BY <2>1, FS_Subset
  <2> HIDE DEF free
  <2> QED
    BY <2>2, TwoLeast
<1>2. rh \in FreeHandles /\ wh \in FreeHandles /\ rh # wh
  <2>1. IsFiniteSet(Handle) /\ Handle \in SUBSET Nat /\ FreeHandles \in SUBSET Handle
    BY HeapAssumption, FS_Interval DEF Handle, FreeHandles
  <2>2. FreeHandles \in SUBSET Nat /\ IsFiniteSet(FreeHandles)
    BY <2>1, FS_Subset
  <2> QED
    BY <2>2, TwoLeast
<1>3. b \in FreePipes
  <2>1. FreePipes \in SUBSET Nat
    BY HeapAssumption DEF FreePipes, Pipe
  <2> QED
    BY <2>1, LeastIn
<1>4. b \in Pipe /\ readpid[b] = NONE /\ ~writing[b] /\ ~reading[b]
  BY <1>3, FreePipeIdle DEF FreePipes
<1> QED
  BY <1>1, <1>2, <1>4 DEF FreeHandles

(* pipe makes two handles with one reference each, the ends of a new pipe. *)
LEMMA PipeHandles ==
    ASSUME IInv, HInv, syscall_pipe
    PROVE  HInv'
<1> DEFINE c == current_process
<1>1. /\ UserMode /\ c # NULL /\ panic = "none" /\ c \in Pid
      /\ FreePipes # {} /\ Cardinality(FreeHandles) >= 2
      /\ Cardinality({fd \in Fd : ~Open(fd)}) >= 2
  BY Caller DEF syscall_pipe, call_made, UserMode
<1>2. PICK rf, wf, b, rh, wh :
        /\ rf = Least({fd \in Fd : ~Open(fd)})
        /\ wf = Least({fd \in Fd : ~Open(fd)} \ {rf})
        /\ b = Least(FreePipes)
        /\ rh = Least(FreeHandles)
        /\ wh = Least(FreeHandles \ {rh})
  OBVIOUS
<1>3. /\ rf \in Fd /\ wf \in Fd /\ ~Open(rf) /\ ~Open(wf) /\ rf # wf
      /\ b \in Pipe /\ readpid[b] = NONE /\ ~writing[b] /\ ~reading[b]
      /\ rh \in Handle /\ fh_type[rh] = "free" /\ wh \in Handle
      /\ fh_type[wh] = "free" /\ rh # wh
  BY <1>1, <1>2, PipeTakesFree
<1>4. /\ reading' = [reading EXCEPT ![b] = TRUE]
      /\ writing' = [writing EXCEPT ![b] = TRUE]
      /\ readpid' = [readpid EXCEPT ![b] = NONE]
      /\ fh_type' = [fh_type EXCEPT ![rh] = "reader", ![wh] = "writer"]
      /\ fh_pipe' = [fh_pipe EXCEPT ![rh] = b, ![wh] = b]
      /\ refcount' = [refcount EXCEPT ![rh] = 1, ![wh] = 1]
      /\ filedesc' = [filedesc EXCEPT ![c][rf] = rh, ![c][wf] = wh]
      /\ UNCHANGED <<exists, exited, kpc, in_syscall, arg, panic>>
  BY <1>2 DEF syscall_pipe, new_pipe, procVars, callVars
<1> HIDE DEF c
<1>5. \A p \in Pid, f \in Fd : filedesc'[p][f] = IF p = c /\ f = rf THEN rh
                                                 ELSE IF p = c /\ f = wf THEN wh
                                                 ELSE filedesc[p][f]
  BY <1>1, <1>3, <1>4 DEF IInv, TypeOK, FileTypeOK
<1>6. /\ ~Suspended(c) /\ SleepersKept /\ \A f \in Fd : Counted(c, f)
      /\ \A p \in Pid, f \in Fd : Counted(p, f)' <=> Counted(p, f)
  <2>1. \E t : filedesc' = [filedesc EXCEPT ![c] = t]
    BY <1>1, <1>4 DEF IInv, TypeOK, FileTypeOK
  <2> QED
    BY <1>1, <1>4, <2>1, OwnDescriptors DEF c
<1>7. /\ filedesc[c][rf] = NULL /\ filedesc[c][wf] = NULL
      /\ \A g \in Handle : g # NULL
  BY <1>3, HeapAssumption DEF Open, c, Handle, NULL
<1>8. /\ \A g \in Handle : fh_type'[g] = IF g = rh THEN "reader"
                                        ELSE IF g = wh THEN "writer" ELSE fh_type[g]
      /\ \A g \in Handle : fh_pipe'[g] = IF g = rh \/ g = wh THEN b ELSE fh_pipe[g]
      /\ \A g \in Handle : refcount'[g] = IF g = rh \/ g = wh THEN 1 ELSE refcount[g]
      /\ \A d \in Pipe : reading'[d] <=> d = b \/ reading[d]
      /\ \A d \in Pipe : writing'[d] <=> d = b \/ writing[d]
      /\ readpid' = readpid
  BY <1>3, <1>4 DEF IInv, TypeOK, FileTypeOK
<1>9. RefcountExact'
  <2> SUFFICES ASSUME NEW g \in Handle
               PROVE  /\ refcount'[g] = Cardinality(Holders(g)')
                      /\ fh_type'[g] = "free" <=> refcount'[g] = 0
    BY DEF RefcountExact
  <2>1. /\ refcount[g] = Cardinality(Holders(g)) /\ refcount[g] \in Nat
        /\ fh_type[g] = "free" <=> refcount[g] = 0
    BY DEF HInv, RefcountExact, IInv, TypeOK, FileTypeOK
  <2>2. ASSUME NEW f \in Fd, (g = rh /\ f = rf) \/ (g = wh /\ f = wf)
        PROVE  Cardinality(Holders(g)') = Cardinality(Holders(g)) + 1
    <3>1. ~(Counted(c, f) /\ filedesc[c][f] = g)
      BY <1>7, <2>2
    <3>2. \A p \in Pid, fd \in Fd :
             (Counted(p, fd) /\ filedesc[p][fd] = g)'
               <=> \/ Counted(p, fd) /\ filedesc[p][fd] = g
                   \/ p = c /\ fd = f
      BY <1>3, <1>5, <1>6, <1>7, <2>2
    <3> QED
      BY <1>1, <3>1, <3>2, CountMore
  <2>3. CASE g = rh \/ g = wh
    <3>1. Cardinality(Holders(g)') = Cardinality(Holders(g)) + 1
      BY <1>3, <2>2, <2>3
    <3>2. /\ refcount[g] = 0 /\ refcount'[g] = 1
          /\ fh_type'[g] \in {"reader", "writer"}
      BY <1>3, <1>8, <2>1, <2>3
    <3> QED
      BY <2>1, <3>1, <3>2
  <2>4. CASE g # rh /\ g # wh
    <3>1. Cardinality(Holders(g)') = Cardinality(Holders(g))
      BY <1>5, <1>6, <1>7, <2>4, CountSame
    <3> QED
      BY <1>8, <2>1, <2>4, <3>1
  <2> QED
    BY <2>3, <2>4
<1>10. EndsMatched'
  <2>1. /\ b # InputPipe /\ EndsMatched /\ InputPipe \in Pipe
        /\ \A g \in Handle : ~IsEnd(g, "reader", b) /\ ~IsEnd(g, "writer", b)
    BY <1>3, HeapAssumption DEF HInv, EndsMatched, InputPipe, Pipe
  <2>2. \A g \in Handle, d \in Pipe :
          /\ IsEnd(g, "reader", d)' <=> IsEnd(g, "reader", d) \/ (g = rh /\ d = b)
          /\ IsEnd(g, "writer", d)' <=> IsEnd(g, "writer", d) \/ (g = wh /\ d = b)
    BY <1>3, <1>8 DEF IsEnd
  <2> QED
    BY <1>3, <1>8, <2>1, <2>2 DEF EndsMatched
<1>11. BlockedReaderHoldsPipe'
  <2>1. ASSUME NEW d \in Pipe, readpid'[d] # NONE
        PROVE  readpid[d] # NONE /\ ReaderKept(d)
    <3> DEFINE g == filedesc[readpid[d]][arg[readpid[d]]]
    <3>1. readpid[d] # NONE /\ g \in Handle /\ IsEnd(g, "reader", d) /\ reading[d]
      BY <1>8, <2>1, ReaderBlocked
    <3> QED
      BY <1>3, <1>8, <3>1 DEF ReaderKept, IsEnd
  <2> QED
    BY <1>6, <2>1, ReadersKept
<1> QED
  BY <1>1, <1>4, <1>9, <1>10, <1>11 DEF HInv, NoPanic

(***************************************************************************)
(* The invariant, and what follows from it.                                *)
(***************************************************************************)
(* The first process holds the keyboard pipe and two screen handles.       *)
LEMMA InitHandles == Init => HInv
<1> SUFFICES ASSUME Init PROVE HInv
  OBVIOUS
<1>1. /\ exists = [p \in Pid |-> p = 1] /\ exited = [p \in Pid |-> FALSE]
      /\ kpc = "user" /\ panic = "none"
      /\ filedesc = [p \in Pid |-> [fd \in Fd |->
                       IF p = 1 /\ fd <= 2 THEN fd + 1 ELSE NULL]]
      /\ fh_type = [h \in Handle |-> CASE h = 1 -> "reader"
                                       [] h \in {2, 3} -> "screen"
                                       [] OTHER -> "free"]
      /\ refcount = [h \in Handle |-> IF h <= 3 THEN 1 ELSE 0]
      /\ fh_pipe = [h \in Handle |-> IF h = 1 THEN InputPipe ELSE NULL]
      /\ reading = [b \in Pipe |-> b = InputPipe]
      /\ writing = [b \in Pipe |-> b = InputPipe]
      /\ readpid = [b \in Pipe |-> NONE]
  BY DEF Init, start_process
<1>2. RefcountExact
  <2> SUFFICES ASSUME NEW h \in Handle
               PROVE  /\ refcount[h] = Cardinality(Holders(h))
                      /\ fh_type[h] = "free" <=> refcount[h] = 0
    BY DEF RefcountExact
  <2>1. h \in Nat /\ h >= 1 /\ 1 \in Pid
    BY HeapAssumption, SizesAssumption DEF Handle, Pid
  <2>2. \A p \in Pid, fd \in Fd :
           Counted(p, fd) /\ filedesc[p][fd] = h <=> p = 1 /\ h <= 3 /\ fd = h - 1
    <3> SUFFICES ASSUME NEW p \in Pid, NEW fd \in Fd
                 PROVE  Counted(p, fd) /\ filedesc[p][fd] = h
                          <=> p = 1 /\ h <= 3 /\ fd = h - 1
      OBVIOUS
    <3>1. Counted(p, fd) <=> p = 1
      BY <1>1 DEF Counted
    <3>2. filedesc[p][fd] = IF p = 1 /\ fd <= 2 THEN fd + 1 ELSE 0
      BY <1>1 DEF NULL
    <3>3. fd \in Nat
      BY SizesAssumption DEF Fd
    <3> QED
      BY <2>1, <3>1, <3>2, <3>3
  <2>3. CASE h <= 3
    <3>1. h - 1 \in Fd
      BY <2>1, <2>3, SizesAssumption DEF Fd
    <3>2. \A d \in Holders(h) : d = <<1, h - 1>>
      <4> SUFFICES ASSUME NEW d \in Holders(h) PROVE d = <<1, h - 1>>
        OBVIOUS
      <4>1. PICK p \in Pid, fd \in Fd : d = <<p, fd>>
        BY HoldersFinite
      <4>2. Counted(p, fd) /\ filedesc[p][fd] = h
        BY <4>1, HoldersFinite
      <4> QED
        BY <2>2, <4>1, <4>2
    <3>3. <<1, h - 1>> \in Holders(h)
      BY <2>1, <2>2, <2>3, <3>1, HoldersFinite
    <3>4. Holders(h) = {<<1, h - 1>>}
      BY <3>2, <3>3
    <3>5. Cardinality(Holders(h)) = 1
      BY <3>4, FS_Singleton
    <3>6. refcount[h] = 1
      BY <1>1, <2>3
    <3>7. fh_type[h] \in {"reader", "screen"}
      <4>1. h \in {1, 2, 3}
        BY <2>1, <2>3
      <4> QED
        BY <1>1, <4>1
    <3> QED
      BY <3>5, <3>6, <3>7
  <2>4. CASE ~(h <= 3)
    <3>1. \A d \in Holders(h) : FALSE
      <4> SUFFICES ASSUME NEW d \in Holders(h) PROVE FALSE
        OBVIOUS
      <4>1. PICK p \in Pid, fd \in Fd : d = <<p, fd>>
        BY HoldersFinite
      <4>2. Counted(p, fd) /\ filedesc[p][fd] = h
        BY <4>1, HoldersFinite
      <4> QED
        BY <2>2, <2>4, <4>2
    <3>2. Cardinality(Holders(h)) = 0
      BY <3>1, FS_EmptySet
    <3> QED
      BY <1>1, <2>1, <2>4, <3>2
  <2> QED
    BY <2>3, <2>4
<1>3. EndsMatched
  <2>1. InputPipe \in Pipe /\ 1 \in Handle
    BY HeapAssumption DEF InputPipe, Pipe, Handle
  <2>2. \A h \in Handle, b \in Pipe :
           /\ IsEnd(h, "reader", b) <=> h = 1 /\ b = InputPipe
           /\ ~IsEnd(h, "writer", b)
    BY <1>1, HeapAssumption DEF IsEnd, InputPipe, Pipe, NULL
  <2> QED
    BY <1>1, <2>1, <2>2 DEF EndsMatched
<1>4. BlockedReaderHoldsPipe /\ NoPanic
  BY <1>1 DEF BlockedReaderHoldsPipe, NoPanic
<1> QED
  BY <1>2, <1>3, <1>4 DEF HInv

(* No step breaks it.                                                      *)
LEMMA NextHandles ==
    ASSUME IInv, HInv, IInv', [Next]_vars
    PROVE  HInv'
<1>1. CASE timer_handler \/ keyboard_handler \/ page_fault
  BY <1>1, TimerHandles, KeyboardHandles, PageFaultHandles
<1>2. CASE SystemCall
  <2>1. CASE syscall_fork \/ syscall_exit \/ syscall_pipe \/ syscall_receive
    BY <2>1, ForkHandles, ExitHandles, PipeHandles, ReceiveHandles
  <2>2. ASSUME NEW pid \in Pid,
               syscall_kill(pid) \/ syscall_waitpid(pid) \/ syscall_send(pid)
        PROVE  HInv'
    BY <2>2, KillHandles, WaitpidHandles, SendHandles
  <2>3. ASSUME NEW fd \in Fd, syscall_close(fd) PROVE HInv'
    BY <2>3, CloseHandles
  <2>4. ASSUME NEW fd \in Fd, NEW n \in 0 .. MaxCount,
               syscall_read(fd, n) \/ syscall_write(fd, n)
        PROVE  HInv'
    <3>1. n \in Nat
      BY WorkloadAssumption
    <3> QED
      BY <2>4, <3>1, ReadHandles, WriteHandles
  <2>5. ASSUME NEW fd \in Fd, NEW newfd \in DupTargets, syscall_dup2(fd, newfd)
        PROVE  HInv'
    <3>1. newfd \in Fd
      BY WorkloadAssumption
    <3> QED
      BY <2>5, <3>1, Dup2Handles
  <2> QED
    BY <1>2, <2>1, <2>2, <2>3, <2>4, <2>5 DEF SystemCall
<1>3. CASE KillClose \/ kill_process_end \/ Switch
  BY <1>3, KillCloseHandles, KillEndHandles, SwitchHandles
<1>4. CASE UNCHANGED vars
  <2>1. UNCHANGED <<filedesc, fh_type, refcount, fh_pipe, reading, writing, readpid,
                    exists, exited, in_syscall, arg, panic, kpc, victim, kfd>>
    BY <1>4 DEF vars, fileVars, handleVars, pipeVars, procVars, callVars, killVars
  <2>2. SleepersKept /\ \A p \in Pid, fd \in Fd : Counted(p, fd)' <=> Counted(p, fd)
    BY <2>1 DEF SleepersKept, Counted
  <2> QED
    BY <2>1, <2>2, QuietStep DEF HInv, NoPanic
<1> QED
  BY <1>1, <1>2, <1>3, <1>4 DEF Next

(* Under a safe workload the counts, the pipe ends and the sleeping        *)
(* readers always agree.                                                   *)
THEOREM HandleInvariance == SafeWorkload => (Spec => [](IInv /\ HInv))
<1> SUFFICES ASSUME SafeWorkload PROVE Spec => [](IInv /\ HInv)
  OBVIOUS
<1>1. Init => IInv /\ HInv
  BY InitInv, InitHandles
<1>2. (IInv /\ HInv) /\ [Next]_vars => (IInv /\ HInv)'
  BY NextInv, NextHandles
<1> QED
  BY <1>1, <1>2, PTL DEF Spec

(* A handle lives exactly as long as a descriptor refers to it, whatever   *)
(* the order of fork, dup2, close, exit and kill.                          *)
THEOREM RefcountsExact == SafeWorkload => (Spec => []RefcountExact)
<1>1. HInv => RefcountExact
  BY DEF HInv
<1> QED
  BY <1>1, HandleInvariance, PTL

(* A reader that sleeps keeps its pipe and its end of it.                  *)
THEOREM ReadersHoldPipes == SafeWorkload => (Spec => []BlockedReaderHoldsPipe)
<1>1. HInv => BlockedReaderHoldsPipe
  BY DEF HInv
<1> QED
  BY <1>1, HandleInvariance, PTL

(* No assertion of the kernel fails and nothing freed is used or freed     *)
(* again: the kernel never halts.                                          *)
THEOREM KernelNeverHalts == SafeWorkload => (Spec => []NoPanic)
<1>1. HInv => NoPanic
  BY DEF HInv
<1> QED
  BY <1>1, HandleInvariance, PTL

(* An end of a pipe is open exactly while its one handle exists: readers   *)
(* see end-of-file when the last writer is gone and not before.            *)
THEOREM PipeEnds == SafeWorkload => (Spec => []PipeEndsExact)
<1>1. ASSUME HInv PROVE PipeEndsExact
  <2>1. EndsMatched
    BY <1>1 DEF HInv
  <2>2. ASSUME NEW b \in Pipe, NEW t \in {"reader", "writer"}, NEW open \in BOOLEAN,
               open <=> \E h \in Handle : IsEnd(h, t, b)
        PROVE  Cardinality({h \in Handle : fh_type[h] = t /\ fh_pipe[h] = b})
                 = IF open THEN 1 ELSE 0
    <3> DEFINE E == {h \in Handle : fh_type[h] = t /\ fh_pipe[h] = b}
    <3>1. CASE open
      <4>1. PICK h \in Handle : IsEnd(h, t, b)
        BY <2>2, <3>1
      <4>2. E = {h}
        BY <2>1, <4>1 DEF EndsMatched, IsEnd
      <4> QED
        BY <3>1, <4>2, FS_Singleton
    <3>2. CASE ~open
      <4>1. E = {}
        BY <2>2, <3>2 DEF IsEnd
      <4> QED
        BY <3>2, <4>1, FS_EmptySet
    <3> QED
      BY <3>1, <3>2
  <2> SUFFICES ASSUME NEW b \in Pipe
               PROVE  /\ Cardinality({h \in Handle : fh_type[h] = "reader" /\ fh_pipe[h] = b})
                            = IF reading[b] THEN 1 ELSE 0
                      /\ Cardinality({h \in Handle : fh_type[h] = "writer" /\ fh_pipe[h] = b})
                            = IF writing[b] /\ b # InputPipe THEN 1 ELSE 0
                      /\ b = InputPipe => writing[b]
    BY DEF PipeEndsExact
  <2>3. (reading[b] = TRUE) <=> \E h \in Handle : IsEnd(h, "reader", b)
    BY <2>1 DEF EndsMatched
  <2>4. (writing[b] /\ b # InputPipe) <=> \E h \in Handle : IsEnd(h, "writer", b)
    BY <2>1 DEF EndsMatched
  <2> QED
    BY <2>1, <2>2, <2>3, <2>4 DEF EndsMatched
<1> QED
  BY <1>1, HandleInvariance, PTL

=============================================================================

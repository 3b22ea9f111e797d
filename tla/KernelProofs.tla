---------------------------- MODULE KernelProofs ----------------------------
(***************************************************************************)
(* Proofs about module Kernel, for every number of processes, descriptors, *)
(* handles, pipes and messages, under a SafeWorkload.                      *)
(***************************************************************************)
EXTENDS KernelProps, FiniteSetTheorems, WellFoundedInduction, TLAPS

(***************************************************************************)
(* The scheduler lists.                                                    *)
(***************************************************************************)
(* list_add puts the process in front of a list it was not in.             *)
LEMMA ListAdd ==
    ASSUME NEW l \in Seq(Pid), NEW p \in Pid
    PROVE  /\ list_add(l, p) \in Seq(Pid)
           /\ Ran(list_add(l, p)) = Ran(l) \cup {p}
           /\ NoDuplicates(l) /\ p \notin Ran(l) => NoDuplicates(list_add(l, p))
<1> DEFINE m == list_add(l, p)
<1>1. /\ m \in Seq(Pid) /\ Len(m) = Len(l) + 1 /\ m[1] = p
      /\ \A i \in 1 .. Len(l) : m[i + 1] = l[i]
  BY DEF list_add
<1>2. \A i \in 1 .. Len(m) : i # 1 => i - 1 \in 1 .. Len(l) /\ m[i] = l[i - 1]
  <2> SUFFICES ASSUME NEW i \in 1 .. Len(m), i # 1
               PROVE  i - 1 \in 1 .. Len(l) /\ m[i] = l[i - 1]
    OBVIOUS
  <2>1. i - 1 \in 1 .. Len(l) /\ (i - 1) + 1 = i
    BY <1>1
  <2> QED
    BY <2>1, <1>1
<1> HIDE DEF m
<1>3. Ran(m) = Ran(l) \cup {p}
  <2>1. \A x \in Ran(m) : x \in Ran(l) \cup {p}
    BY <1>1, <1>2 DEF Ran
  <2>2. p \in Ran(m)
    BY <1>1 DEF Ran
  <2>3. \A x \in Ran(l) : x \in Ran(m)
    BY <1>1 DEF Ran
  <2> QED
    BY <2>1, <2>2, <2>3
<1>4. ASSUME NoDuplicates(l), p \notin Ran(l)
      PROVE  NoDuplicates(m)
  <2> SUFFICES ASSUME NEW i \in 1 .. Len(m), NEW j \in 1 .. Len(m),
                      m[i] = m[j], i # 1
               PROVE  i = j
    BY <1>1 DEF NoDuplicates
  <2>1. m[i] = l[i - 1] /\ i - 1 \in 1 .. Len(l) /\ m[i] \in Ran(l)
    BY <1>2 DEF Ran
  <2>2. j # 1
    BY <2>1, <1>4, <1>1
  <2>3. m[j] = l[j - 1] /\ j - 1 \in 1 .. Len(l)
    BY <1>2, <2>2
  <2>4. \A a, b \in 1 .. Len(l) : l[a] = l[b] => a = b
    BY <1>4 DEF NoDuplicates
  <2>5. i - 1 = j - 1
    BY <2>1, <2>3, <2>4
  <2> QED
    BY <2>5
<1> QED
  BY <1>1, <1>3, <1>4 DEF m

(* list_remove takes exactly the given process out of a list without       *)
(* duplicates.                                                             *)
LEMMA ListRemove ==
    ASSUME NEW l \in Seq(Pid), NEW p \in Pid, NoDuplicates(l)
    PROVE  /\ list_remove(l, p) \in Seq(Pid)
           /\ Ran(list_remove(l, p)) = Ran(l) \ {p}
           /\ NoDuplicates(list_remove(l, p))
<1>1. CASE p \notin Ran(l)
  BY <1>1 DEF list_remove
<1>2. CASE p \in Ran(l)
  <2> DEFINE k == CHOOSE i \in DOMAIN l : l[i] = p
             m == list_remove(l, p)
  <2>1. k \in 1 .. Len(l) /\ l[k] = p
    BY <1>2 DEF Ran
  <2>2. m = [i \in 1 .. (Len(l) - 1) |-> IF i < k THEN l[i] ELSE l[i + 1]]
    BY <1>2 DEF list_remove
  <2> HIDE DEF k, m
  <2>3. m \in Seq(Pid) /\ Len(m) = Len(l) - 1 /\ DOMAIN m = 1 .. (Len(l) - 1)
    BY <2>1, <2>2
  <2>4. \A i \in 1 .. (Len(l) - 1) :
            m[i] = l[IF i < k THEN i ELSE i + 1]
    BY <2>2
  <2>5. \A i \in 1 .. Len(l) : l[i] = p => i = k
    BY <2>1 DEF NoDuplicates
  <2>6. NoDuplicates(m)
    <3> SUFFICES ASSUME NEW i \in 1 .. (Len(l) - 1), NEW j \in 1 .. (Len(l) - 1),
                        m[i] = m[j]
                 PROVE  i = j
      BY <2>3 DEF NoDuplicates
    <3>1. (IF i < k THEN i ELSE i + 1) = (IF j < k THEN j ELSE j + 1)
      BY <2>4, <2>1 DEF NoDuplicates
    <3> QED
      BY <3>1, <2>1
  <2>7. \A x \in Ran(m) : x \in Ran(l) \ {p}
    <3> SUFFICES ASSUME NEW i \in 1 .. (Len(l) - 1)
                 PROVE  m[i] \in Ran(l) \ {p}
      BY <2>3 DEF Ran
    <3> QED
      BY <2>4, <2>5, <2>1 DEF Ran
  <2>8. \A x \in Ran(l) \ {p} : x \in Ran(m)
    <3> SUFFICES ASSUME NEW i \in 1 .. Len(l), i # k
                 PROVE  l[i] \in Ran(m)
      BY <2>1 DEF Ran
    <3>1. CASE i < k
      <4>1. i \in 1 .. (Len(l) - 1) /\ m[i] = l[i]
        BY <2>1, <2>4, <3>1
      <4> QED
        BY <4>1, <2>3 DEF Ran
    <3>2. CASE i > k
      <4>1. i - 1 \in 1 .. (Len(l) - 1) /\ m[i - 1] = l[i]
        BY <2>1, <2>4, <3>2
      <4> QED
        BY <4>1, <2>3 DEF Ran
    <3> QED
      BY <3>1, <3>2, <2>1
  <2> QED
    BY <2>3, <2>6, <2>7, <2>8 DEF m
<1> QED
  BY <1>1, <1>2

(***************************************************************************)
(* What suspend_process and resume_process do when they may be called.     *)
(***************************************************************************)
Slept(p) ==
    /\ isready' = [isready EXCEPT ![p] = FALSE]
    /\ ready' \in Seq(Pid) /\ suspended' \in Seq(Pid)
    /\ NoDuplicates(ready') /\ NoDuplicates(suspended')
    /\ Ran(ready') = Ran(ready) \ {p}
    /\ Ran(suspended') = Ran(suspended) \cup {p}
    /\ panic' = panic

Woke(p) ==
    /\ isready' = [isready EXCEPT ![p] = TRUE]
    /\ ready' \in Seq(Pid) /\ suspended' \in Seq(Pid)
    /\ NoDuplicates(ready') /\ NoDuplicates(suspended')
    /\ Ran(ready') = Ran(ready) \cup {p}
    /\ Ran(suspended') = Ran(suspended) \ {p}
    /\ panic' = panic

(* suspend_process moves a ready process to the suspended list.            *)
LEMMA SuspendEffect ==
    ASSUME TypeOK, ListsConsistent, NEW p \in Pid, Live(p), isready[p],
           suspend_process(p)
    PROVE  Slept(p)
<1>1. ready \in Seq(Pid) /\ suspended \in Seq(Pid)
  BY DEF TypeOK, ProcTypeOK
<1>2. NoDuplicates(ready) /\ NoDuplicates(suspended) /\ p \notin Ran(suspended)
  BY DEF ListsConsistent
<1>3. /\ isready' = [isready EXCEPT ![p] = FALSE]
      /\ ready' = list_remove(ready, p)
      /\ suspended' = list_add(suspended, p)
      /\ panic' = panic
  BY DEF suspend_process, Live
<1> QED
  BY <1>1, <1>2, <1>3, ListAdd, ListRemove DEF Slept

(* resume_process moves a suspended process to the ready list.             *)
LEMMA ResumeEffect ==
    ASSUME TypeOK, ListsConsistent, NEW p \in Pid, Suspended(p),
           resume_process(p)
    PROVE  Woke(p)
<1>1. ready \in Seq(Pid) /\ suspended \in Seq(Pid)
  BY DEF TypeOK, ProcTypeOK
<1>2. NoDuplicates(ready) /\ NoDuplicates(suspended) /\ p \notin Ran(ready)
  BY DEF ListsConsistent, Suspended
<1>3. /\ isready' = [isready EXCEPT ![p] = TRUE]
      /\ ready' = list_add(ready, p)
      /\ suspended' = list_remove(suspended, p)
      /\ panic' = panic
  BY DEF resume_process, Suspended, Live
<1> QED
  BY <1>1, <1>2, <1>3, ListAdd, ListRemove DEF Woke

(***************************************************************************)
(* Steps that change pipes and wake up at most one reader.                 *)
(***************************************************************************)
(* The pipes of the blocked readers, except perhaps b, are left alone.     *)
PipesKept(b) ==
    \A c \in Pipe : c # b /\ readpid[c] # NONE /\ writing[c] =>
        writing'[c] /\ len'[c] = len[c]

PipeEffect ==
    /\ reading' \in [Pipe -> BOOLEAN] /\ writing' \in [Pipe -> BOOLEAN]
    /\ len' \in [Pipe -> Nat] /\ readpid' \in [Pipe -> Pid \cup {NONE}]
    /\ \/ UNCHANGED listVars /\ readpid' = readpid /\ PipesKept(NULL)
       \/ \E b \in Pipe : /\ readpid[b] # NONE
                           /\ Woke(readpid[b])
                           /\ readpid' = [readpid EXCEPT ![b] = NONE]
                           /\ PipesKept(b)
    /\ panic' \in Panics /\ SchedulerNeverHalts'

(* wake_up_reader calls resume_process for a suspended process only.       *)
LEMMA WakeEffect ==
    ASSUME IInv, NEW b \in Pipe, wake_up_reader(b)
    PROVE  \/ UNCHANGED <<listVars, readpid, panic>> /\ readpid[b] = NONE
           \/ /\ readpid[b] # NONE /\ Woke(readpid[b])
              /\ readpid' = [readpid EXCEPT ![b] = NONE]
<1>1. CASE readpid[b] = NONE
  BY <1>1 DEF wake_up_reader
<1>2. CASE readpid[b] # NONE
  <2>1. readpid[b] \in Pid /\ Suspended(readpid[b])
    BY <1>2 DEF IInv, WakersValid, TypeOK, FileTypeOK
  <2>2. resume_process(readpid[b]) /\ readpid' = [readpid EXCEPT ![b] = NONE]
    BY <1>2 DEF wake_up_reader
  <2> QED
    BY <1>2, <2>1, <2>2, ResumeEffect DEF IInv
<1> QED
  BY <1>1, <1>2

(* write_to_pipe has such an effect.                                       *)
LEMMA WriteEffect ==
    ASSUME IInv, NEW b \in Pipe, NEW n \in Nat, write_to_pipe(b, n)
    PROVE  PipeEffect
<1>1. wake_up_reader(b) /\ len' = [len EXCEPT ![b] = @ + n]
      /\ reading' = reading /\ writing' = writing
  BY DEF write_to_pipe
<1>2. FileTypeOK /\ panic \in Panics /\ SchedulerNeverHalts
  BY DEF IInv, TypeOK, ProcTypeOK
<1>3. CASE UNCHANGED <<listVars, readpid, panic>> /\ readpid[b] = NONE
  BY <1>1, <1>2, <1>3 DEF PipeEffect, PipesKept, FileTypeOK, SchedulerNeverHalts
<1>4. CASE /\ readpid[b] # NONE /\ Woke(readpid[b])
           /\ readpid' = [readpid EXCEPT ![b] = NONE]
  <2>1. panic' = panic
    BY <1>4 DEF Woke
  <2>2. PipesKept(b)
    BY <1>1, <1>2 DEF PipesKept, FileTypeOK
  <2>3. /\ len' \in [Pipe -> Nat] /\ readpid' \in [Pipe -> Pid \cup {NONE}]
    BY <1>1, <1>2, <1>4 DEF FileTypeOK
  <2> QED
    BY <1>1, <1>2, <1>4, <2>1, <2>2, <2>3
    DEF PipeEffect, FileTypeOK, SchedulerNeverHalts
<1> QED
  BY <1>1, <1>3, <1>4, WakeEffect

(* Closing the last writer of a pipe has such an effect,                   *)
LEMMA WriterDestroyEffect ==
    ASSUME IInv, NEW b \in Pipe, pipe_writer_destroy(b)
    PROVE  PipeEffect
<1>1. FileTypeOK /\ panic \in Panics /\ SchedulerNeverHalts
  BY DEF IInv, TypeOK, ProcTypeOK
<1>2. CASE ~writing[b]
  BY <1>1, <1>2 DEF pipe_writer_destroy, PipeEffect, PipesKept, FileTypeOK,
                    SchedulerNeverHalts, pipeVars, Panics
<1>3. CASE writing[b]
  <2>1. /\ writing' = [writing EXCEPT ![b] = FALSE]
        /\ wake_up_reader(b) /\ reading' = reading
        /\ len' = LenAfterClose(b, reading[b])
    BY <1>3 DEF pipe_writer_destroy
  <2>2. len' \in [Pipe -> Nat] /\ writing' \in [Pipe -> BOOLEAN]
    BY <1>1, <2>1 DEF LenAfterClose, FileTypeOK
  <2>3. PipesKept(b)
    BY <1>1, <2>1 DEF PipesKept, FileTypeOK, LenAfterClose
  <2>4. CASE UNCHANGED <<listVars, readpid, panic>> /\ readpid[b] = NONE
    BY <1>1, <2>1, <2>2, <2>3, <2>4
    DEF PipeEffect, PipesKept, FileTypeOK, SchedulerNeverHalts
  <2>5. CASE /\ readpid[b] # NONE /\ Woke(readpid[b])
             /\ readpid' = [readpid EXCEPT ![b] = NONE]
    <3>1. panic' = panic
      BY <2>5 DEF Woke
    <3>2. readpid' \in [Pipe -> Pid \cup {NONE}]
      BY <1>1, <2>5 DEF FileTypeOK
    <3> QED
      BY <1>1, <2>1, <2>2, <2>3, <2>5, <3>1, <3>2
      DEF PipeEffect, FileTypeOK, SchedulerNeverHalts
  <2> QED
    BY <2>1, <2>4, <2>5, WakeEffect
<1> QED
  BY <1>2, <1>3

(* closing the reader,                                                     *)
LEMMA ReaderDestroyEffect ==
    ASSUME IInv, NEW b \in Pipe, pipe_reader_destroy(b)
    PROVE  PipeEffect
<1>1. FileTypeOK /\ panic \in Panics /\ SchedulerNeverHalts
  BY DEF IInv, TypeOK, ProcTypeOK
<1>2. /\ writing' = writing /\ readpid' = readpid /\ UNCHANGED listVars
      /\ panic' \in {panic, "pipe_reader_destroy", "check_buffer_free"}
      /\ reading' = reading \/ reading' = [reading EXCEPT ![b] = FALSE]
      /\ len' = len \/ len' = LenAfterClose(b, writing[b])
  BY DEF pipe_reader_destroy
<1>3. PipesKept(NULL)
  BY <1>1, <1>2 DEF PipesKept, FileTypeOK, LenAfterClose
<1>4. len' \in [Pipe -> Nat] /\ reading' \in [Pipe -> BOOLEAN]
  <2>1. [len EXCEPT ![b] = 0] \in [Pipe -> Nat]
    BY <1>1 DEF FileTypeOK
  <2>2. [reading EXCEPT ![b] = FALSE] \in [Pipe -> BOOLEAN]
    BY <1>1 DEF FileTypeOK
  <2>3. len \in [Pipe -> Nat] /\ reading \in [Pipe -> BOOLEAN]
    BY <1>1 DEF FileTypeOK
  <2>4. len' = len \/ len' = [len EXCEPT ![b] = 0]
    BY <1>2 DEF LenAfterClose
  <2> QED
    BY <1>2, <2>1, <2>2, <2>3, <2>4
<1> QED
  BY <1>1, <1>2, <1>3, <1>4
  DEF PipeEffect, FileTypeOK, SchedulerNeverHalts, Panics

(* and so releasing a reference to any handle.                             *)
LEMMA ReleaseEffect ==
    ASSUME IInv, NEW h \in Handle, release(h)
    PROVE  /\ PipeEffect /\ HandlesValid'
           /\ fh_type' \in [Handle -> {"free", "screen", "reader", "writer"}]
           /\ fh_pipe' \in [Handle -> Pipe \cup {NULL}]
<1>1. FileTypeOK /\ HandlesValid /\ panic \in Panics /\ SchedulerNeverHalts
  BY DEF IInv, TypeOK, ProcTypeOK
<1> DEFINE Quiet == UNCHANGED <<pipeVars, listVars>>
<1>2. ASSUME Quiet, panic' \in {panic, "close_filehandle"}
      PROVE  PipeEffect
  BY <1>1, <1>2 DEF PipeEffect, PipesKept, FileTypeOK, SchedulerNeverHalts,
                    pipeVars, Panics
<1>3. ASSUME fh_type' = fh_type, fh_pipe' = fh_pipe
      PROVE  /\ HandlesValid'
             /\ fh_type' \in [Handle -> {"free", "screen", "reader", "writer"}]
             /\ fh_pipe' \in [Handle -> Pipe \cup {NULL}]
  BY <1>1, <1>3 DEF HandlesValid, FileTypeOK
<1>4. CASE refcount[h] # 1
  <2>1. refcount[h] \in Nat
    BY <1>1 DEF FileTypeOK
  <2>2. /\ UNCHANGED <<fh_type, fh_pipe, pipeVars, listVars>>
        /\ panic' \in {panic, "close_filehandle"}
    BY <1>4, <2>1 DEF release
  <2> QED
    BY <2>2, <1>2, <1>3
<1>5. CASE refcount[h] = 1
  <2>1. destroy(h)
    BY <1>5 DEF release
  <2>2. /\ fh_type' = [fh_type EXCEPT ![h] = "free"]
        /\ fh_pipe' = [fh_pipe EXCEPT ![h] = NULL]
    BY <2>1 DEF destroy
  <2>3. /\ HandlesValid'
        /\ fh_type' \in [Handle -> {"free", "screen", "reader", "writer"}]
        /\ fh_pipe' \in [Handle -> Pipe \cup {NULL}]
    BY <1>1, <2>2 DEF HandlesValid, FileTypeOK
  <2>4. CASE fh_type[h] = "writer"
    <3>1. fh_pipe[h] \in Pipe
      BY <1>1, <2>4 DEF HandlesValid
    <3>2. pipe_writer_destroy(fh_pipe[h])
      BY <2>1, <2>4 DEF destroy
    <3> QED
      BY <2>3, <3>1, <3>2, WriterDestroyEffect
  <2>5. CASE fh_type[h] = "reader"
    <3>1. fh_pipe[h] \in Pipe
      BY <1>1, <2>5 DEF HandlesValid
    <3>2. pipe_reader_destroy(fh_pipe[h])
      BY <2>1, <2>5 DEF destroy
    <3> QED
      BY <2>3, <3>1, <3>2, ReaderDestroyEffect
  <2>6. CASE fh_type[h] \notin {"reader", "writer"}
    <3>1. Quiet /\ panic' = panic
      BY <2>1, <2>6 DEF destroy
    <3> QED
      BY <2>3, <3>1, <1>2
  <2> QED
    BY <2>4, <2>5, <2>6
<1> QED
  BY <1>4, <1>5

(* The parts of the invariant about processes survive such a step.         *)
ProcInv ==
    /\ ListsConsistent /\ CurrentValid /\ KillValid /\ CallsValid /\ FamilyValid
    /\ NoLostWakeup /\ WakersValid /\ RegisteredOnce /\ WokenValid /\ MailboxValid

(* The parts of the invariant about processes survive such a step.         *)
LEMMA PipeEffectInv ==
    ASSUME IInv, PipeEffect,
           UNCHANGED <<procVars, callVars, msgVars, current_process, victim>>,
           kpc' = kpc \/ (kpc = "user" /\ kpc' = "switch")
    PROVE  ProcInv'
<1>1. TypeOK /\ ProcInv
  BY DEF IInv, ProcInv
<1>2. \A p \in Pid : /\ Live(p)' = Live(p)
                     /\ exists'[p] = exists[p] /\ exited'[p] = exited[p]
                     /\ in_syscall'[p] = in_syscall[p] /\ arg'[p] = arg[p]
                     /\ parent_pid'[p] = parent_pid[p]
                     /\ waiting_on'[p] = waiting_on[p]
                     /\ mailbox_size'[p] = mailbox_size[p]
                     /\ mailbox'[p] = mailbox[p]
                     /\ receive_blocked'[p] = receive_blocked[p]
  BY DEF procVars, callVars, msgVars, Live
<1>3. current_process' = current_process /\ victim' = victim
  OBVIOUS
<1>4. CASE UNCHANGED listVars /\ readpid' = readpid /\ PipesKept(NULL)
  <2>1. ListsConsistent'
    BY <1>1, <1>2, <1>4 DEF ProcInv, ListsConsistent, listVars
  <2>2. CurrentValid' /\ KillValid' /\ CallsValid'
    BY <1>1, <1>2, <1>3, <1>4 DEF ProcInv, CurrentValid, KillValid, CallsValid,
        listVars, TypeOK, ProcTypeOK, NULL
  <2>3. FamilyValid' /\ MailboxValid'
    BY <1>1, <1>2 DEF ProcInv, FamilyValid, MailboxValid
  <2>4. NoLostWakeup'
    <3> SUFFICES ASSUME NEW p \in Pid, Suspended(p)'
                 PROVE  (BlockedInRead(p) \/ BlockedInReceive(p)
                           \/ BlockedInWaitpid(p))'
      BY DEF NoLostWakeup
    <3>1. Suspended(p)
      BY <1>2, <1>4 DEF Suspended, listVars
    <3>2. CASE BlockedInRead(p)
      BY <1>2, <1>4, <3>2 DEF BlockedInRead, PipesKept, Pipe, NULL, Pid, NONE
    <3>3. CASE BlockedInReceive(p) \/ BlockedInWaitpid(p)
      BY <1>2, <3>3 DEF BlockedInReceive, BlockedInWaitpid
    <3> QED
      BY <1>1, <3>1, <3>2, <3>3 DEF ProcInv, NoLostWakeup
  <2>5. WakersValid' /\ RegisteredOnce'
    <3>1. \A b \in Pipe : readpid[b] \in Pid \cup {NONE}
      BY <1>1 DEF TypeOK, FileTypeOK
    <3>2. WakersValid'
      BY <1>1, <1>2, <1>4, <3>1 DEF ProcInv, WakersValid, Suspended, listVars
    <3>3. RegisteredOnce'
      BY <1>1, <1>2, <1>4, <3>1 DEF ProcInv, RegisteredOnce, listVars
    <3> QED
      BY <3>2, <3>3
  <2>6. WokenValid'
    BY <1>1, <1>2, <1>4 DEF ProcInv, WokenValid, Zombie, listVars
  <2> QED
    BY <2>1, <2>2, <2>3, <2>4, <2>5, <2>6 DEF ProcInv
<1>5. ASSUME NEW b \in Pipe, readpid[b] # NONE, Woke(readpid[b]),
             readpid' = [readpid EXCEPT ![b] = NONE], PipesKept(b)
      PROVE  ProcInv'
  <2> DEFINE r == readpid[b]
  <2>1. /\ r \in Pid /\ Suspended(r) /\ in_syscall[r] = "read"
        /\ readpid \in [Pipe -> Pid \cup {NONE}]
        /\ isready \in [Pid -> BOOLEAN]
    BY <1>1, <1>5 DEF ProcInv, WakersValid, RegisteredOnce, TypeOK, FileTypeOK,
        ProcTypeOK
  <2>2. /\ isready'[r] = TRUE
        /\ \A p \in Pid : p # r => isready'[p] = isready[p]
    BY <1>5, <2>1 DEF Woke
  <2>3. /\ readpid'[b] = NONE
        /\ \A c \in Pipe : c # b => readpid'[c] = readpid[c]
        /\ \A c \in Pipe : readpid'[c] # r
    BY <1>1, <1>5, <2>1 DEF ProcInv, RegisteredOnce, Pid, NONE
  <2> HIDE DEF r
  <2>4. ListsConsistent'
    BY <1>1, <1>2, <1>5, <2>1, <2>2
    DEF ProcInv, ListsConsistent, Woke, Suspended, r
  <2>5. CurrentValid' /\ KillValid' /\ CallsValid'
    BY <1>1, <1>2, <1>3, <2>1, <2>2 DEF ProcInv, CurrentValid, KillValid,
        CallsValid, TypeOK, ProcTypeOK, NULL
  <2>6. FamilyValid' /\ MailboxValid'
    BY <1>1, <1>2 DEF ProcInv, FamilyValid, MailboxValid
  <2>7. NoLostWakeup'
    <3> SUFFICES ASSUME NEW p \in Pid, Suspended(p)'
                 PROVE  (BlockedInRead(p) \/ BlockedInReceive(p)
                           \/ BlockedInWaitpid(p))'
      BY DEF NoLostWakeup
    <3>1. p # r /\ Suspended(p)
      BY <1>2, <2>2 DEF Suspended
    <3>2. CASE BlockedInRead(p)
      BY <1>2, <1>5, <2>1, <2>3, <3>1, <3>2
      DEF BlockedInRead, PipesKept, r, Pid, NONE
    <3>3. CASE BlockedInReceive(p) \/ BlockedInWaitpid(p)
      BY <1>2, <3>3 DEF BlockedInReceive, BlockedInWaitpid
    <3> QED
      BY <1>1, <3>1, <3>2, <3>3 DEF ProcInv, NoLostWakeup
  <2>8. WakersValid'
    BY <1>1, <1>2, <2>1, <2>2, <2>3
    DEF ProcInv, WakersValid, RegisteredOnce, Suspended
  <2>9. RegisteredOnce'
    BY <1>1, <1>2, <2>1, <2>2, <2>3 DEF ProcInv, RegisteredOnce
  <2>10. WokenValid'
    BY <1>1, <1>2, <2>1, <2>2 DEF ProcInv, WokenValid, Zombie
  <2> QED
    BY <2>4, <2>5, <2>6, <2>7, <2>8, <2>9, <2>10 DEF ProcInv
<1> QED
  BY <1>4, <1>5 DEF PipeEffect

(* The whole invariant survives a step with such an effect that keeps the  *)
(* descriptors and handles well formed.                                    *)
LEMMA PipeStep ==
    ASSUME IInv, PipeEffect, HandlesValid',
           UNCHANGED <<procVars, callVars, msgVars, current_process, victim>>,
           kpc' = kpc \/ (kpc = "user" /\ kpc' = "switch"),
           kfd' \in 0 .. MAX_FDS,
           filedesc' \in [Pid -> [Fd -> Handle \cup {NULL}]],
           fh_type' \in [Handle -> {"free", "screen", "reader", "writer"}],
           refcount' \in [Handle -> Nat],
           fh_pipe' \in [Handle -> Pipe \cup {NULL}]
    PROVE  IInv'
<1>1. TypeOK
  BY DEF IInv
<1>2. isready' \in [Pid -> BOOLEAN] /\ ready' \in Seq(Pid) /\ suspended' \in Seq(Pid)
  <2>1. CASE UNCHANGED listVars
    BY <1>1, <2>1 DEF listVars, TypeOK, ProcTypeOK
  <2>2. ASSUME NEW b \in Pipe, Woke(readpid[b])
        PROVE  isready' \in [Pid -> BOOLEAN] /\ ready' \in Seq(Pid)
                 /\ suspended' \in Seq(Pid)
    BY <1>1, <2>2 DEF Woke, TypeOK, ProcTypeOK
  <2> QED
    BY <2>1, <2>2 DEF PipeEffect
<1>3. ProcTypeOK'
  BY <1>1, <1>2 DEF TypeOK, ProcTypeOK, PipeEffect, procVars, callVars
<1>4. FileTypeOK' /\ MsgTypeOK'
  BY <1>1 DEF TypeOK, FileTypeOK, MsgTypeOK, PipeEffect, msgVars
<1>5. SchedulerNeverHalts'
  BY DEF PipeEffect
<1> QED
  BY <1>3, <1>4, <1>5, PipeEffectInv DEF IInv, TypeOK, ProcInv

(***************************************************************************)
(* One lemma per action.                                                   *)
(***************************************************************************)
(* The timer only asks for a context switch.                               *)
LEMMA TimerInv == IInv /\ timer_handler => IInv'
<1> SUFFICES ASSUME IInv, timer_handler PROVE IInv'
  OBVIOUS
<1>1. FileTypeOK /\ HandlesValid /\ panic \in Panics /\ SchedulerNeverHalts
      /\ kfd \in 0 .. MAX_FDS
  BY DEF IInv, TypeOK, ProcTypeOK
<1>2. UNCHANGED <<procVars, callVars, listVars, current_process, victim, kfd,
                  panic, filedesc, fh_type, refcount, fh_pipe, reading, writing,
                  len, readpid, msgVars>>
      /\ kpc = "user" /\ kpc' = "switch"
  BY DEF timer_handler, UserMode, killVars, fileVars, handleVars, pipeVars
<1>3. PipeEffect
  BY <1>1, <1>2 DEF PipeEffect, PipesKept, FileTypeOK, SchedulerNeverHalts
<1>4. HandlesValid'
  BY <1>1, <1>2 DEF HandlesValid
<1> QED
  BY <1>1, <1>2, <1>3, <1>4, PipeStep DEF FileTypeOK

(* A key press wakes up at most the reader of the keyboard pipe.           *)
LEMMA KeyboardInv == IInv /\ keyboard_handler => IInv'
<1> SUFFICES ASSUME IInv, keyboard_handler PROVE IInv'
  OBVIOUS
<1>1. FileTypeOK /\ HandlesValid /\ kfd \in 0 .. MAX_FDS
  BY DEF IInv, TypeOK, ProcTypeOK
<1>2. /\ UNCHANGED <<procVars, callVars, current_process, victim, kfd,
                     filedesc, fh_type, refcount, fh_pipe, msgVars>>
      /\ kpc = "user" /\ kpc' = "switch" /\ write_to_pipe(InputPipe, 1)
  BY DEF keyboard_handler, UserMode, killVars, handleVars
<1>3. PipeEffect
  BY <1>2, WriteEffect, HeapAssumption DEF InputPipe, Pipe
<1>4. HandlesValid'
  BY <1>1, <1>2 DEF HandlesValid
<1> QED
  BY <1>1, <1>2, <1>3, <1>4, PipeStep DEF FileTypeOK

(* The running process is live, ready and outside every system call.       *)
LEMMA Caller ==
    ASSUME IInv, UserMode, current_process # NULL
    PROVE  /\ current_process \in Pid /\ Live(current_process)
           /\ isready[current_process] /\ in_syscall[current_process] = "none"
BY DEF IInv, TypeOK, ProcTypeOK, CurrentValid, UserMode

(* syscall_write wakes up at most the reader of its pipe.                  *)
LEMMA WriteInv ==
    ASSUME NEW fd \in Fd, NEW n \in Nat
    PROVE  IInv /\ syscall_write(fd, n) => IInv'
<1> SUFFICES ASSUME IInv, syscall_write(fd, n) PROVE IInv'
  OBVIOUS
<1>1. FileTypeOK /\ HandlesValid /\ kfd \in 0 .. MAX_FDS
  BY DEF IInv, TypeOK, ProcTypeOK
<1>2. /\ UNCHANGED <<procVars, callVars, current_process, kpc, victim, kfd,
                     filedesc, fh_type, refcount, fh_pipe, msgVars>>
      /\ current_process \in Pid /\ Open(fd)
      /\ fh_type[HandleOf(fd)] = "writer"
      /\ write_to_pipe(fh_pipe[HandleOf(fd)], n)
  BY Caller DEF syscall_write, call_made, killVars, handleVars
<1>3. HandleOf(fd) \in Handle
  BY <1>1, <1>2 DEF FileTypeOK, HandleOf, Open
<1>4. fh_pipe[HandleOf(fd)] \in Pipe
  BY <1>1, <1>2, <1>3 DEF HandlesValid
<1>5. PipeEffect
  BY <1>2, <1>4, WriteEffect
<1>6. HandlesValid'
  BY <1>1, <1>2 DEF HandlesValid
<1>7. /\ UNCHANGED <<procVars, callVars, msgVars, current_process, victim>>
      /\ kpc' = kpc /\ kfd' \in 0 .. MAX_FDS
  BY <1>1, <1>2
<1>8. /\ filedesc' \in [Pid -> [Fd -> Handle \cup {NULL}]]
      /\ fh_type' \in [Handle -> {"free", "screen", "reader", "writer"}]
      /\ refcount' \in [Handle -> Nat]
      /\ fh_pipe' \in [Handle -> Pipe \cup {NULL}]
  BY <1>1, <1>2 DEF FileTypeOK
<1> QED
  BY <1>5, <1>6, <1>7, <1>8, PipeStep

(* Counting a reference less keeps the counts natural numbers.             *)
LEMMA DroppedType ==
    ASSUME FileTypeOK, NEW h \in Handle
    PROVE  [refcount EXCEPT ![h] = Dropped(@)] \in [Handle -> Nat]
BY DEF FileTypeOK, Dropped

(* syscall_close gives up one reference.                                   *)
LEMMA CloseInv ==
    ASSUME NEW fd \in Fd
    PROVE  IInv /\ syscall_close(fd) => IInv'
<1> SUFFICES ASSUME IInv, syscall_close(fd) PROVE IInv'
  OBVIOUS
<1>1. FileTypeOK /\ kfd \in 0 .. MAX_FDS
  BY DEF IInv, TypeOK, ProcTypeOK
<1>2. /\ UNCHANGED <<procVars, callVars, current_process, kpc, victim, kfd, msgVars>>
      /\ current_process \in Pid /\ Open(fd)
      /\ close_filehandle(HandleOf(fd))
      /\ filedesc' = [filedesc EXCEPT ![current_process][fd] = NULL]
  BY Caller DEF syscall_close, call_made, killVars
<1>3. HandleOf(fd) \in Handle
  BY <1>1, <1>2 DEF FileTypeOK, HandleOf, Open
<1>4. release(HandleOf(fd)) /\ refcount' \in [Handle -> Nat]
  BY <1>1, <1>2, <1>3, DroppedType DEF close_filehandle
<1>5. filedesc' \in [Pid -> [Fd -> Handle \cup {NULL}]]
  BY <1>1, <1>2 DEF FileTypeOK
<1>6. /\ UNCHANGED <<procVars, callVars, msgVars, current_process, victim>>
      /\ kpc' = kpc /\ kfd' \in 0 .. MAX_FDS
  BY <1>1, <1>2
<1> QED
  BY <1>3, <1>4, <1>5, <1>6, ReleaseEffect, PipeStep

(* syscall_dup2 gives up the reference of newfd and takes one of oldfd.    *)
LEMMA Dup2Inv ==
    ASSUME NEW oldfd \in Fd, NEW newfd \in Fd
    PROVE  IInv /\ syscall_dup2(oldfd, newfd) => IInv'
<1> SUFFICES ASSUME IInv, syscall_dup2(oldfd, newfd) PROVE IInv'
  OBVIOUS
<1>1. /\ FileTypeOK /\ HandlesValid /\ kfd \in 0 .. MAX_FDS
      /\ panic \in Panics /\ SchedulerNeverHalts
  BY DEF IInv, TypeOK, ProcTypeOK
<1> DEFINE fh == HandleOf(oldfd)
<1>2. /\ UNCHANGED <<procVars, callVars, current_process, kpc, victim, kfd, msgVars>>
      /\ current_process \in Pid /\ Open(oldfd)
      /\ filedesc' = [filedesc EXCEPT ![current_process][newfd] = fh]
  BY Caller DEF syscall_dup2, call_made, killVars
<1>3. fh \in Handle
  BY <1>1, <1>2 DEF FileTypeOK, HandleOf, Open
<1>4. filedesc' \in [Pid -> [Fd -> Handle \cup {NULL}]]
  BY <1>1, <1>2, <1>3 DEF FileTypeOK
<1>5. /\ UNCHANGED <<procVars, callVars, msgVars, current_process, victim>>
      /\ kpc' = kpc /\ kfd' \in 0 .. MAX_FDS
  BY <1>1, <1>2
<1>6. CASE Open(newfd)
  <2>1. HandleOf(newfd) \in Handle
    BY <1>1, <1>2, <1>6 DEF FileTypeOK, HandleOf, Open
  <2>2. /\ release(HandleOf(newfd))
        /\ refcount' = [refcount EXCEPT ![HandleOf(newfd)] = Dropped(@),
                                        ![fh] = @ + 1]
    BY <1>6 DEF syscall_dup2
  <2>3. refcount' \in [Handle -> Nat]
    <3>1. [refcount EXCEPT ![HandleOf(newfd)] = Dropped(@)] \in [Handle -> Nat]
      BY <1>1, <2>1, DroppedType
    <3> QED
      BY <1>3, <2>2, <3>1
  <2> QED
    BY <1>4, <1>5, <2>1, <2>2, <2>3, ReleaseEffect, PipeStep
<1>7. CASE ~Open(newfd)
  <2>1. /\ refcount' = [refcount EXCEPT ![fh] = @ + 1]
        /\ UNCHANGED <<fh_type, fh_pipe, pipeVars, listVars, panic>>
    BY <1>7 DEF syscall_dup2
  <2>2. PipeEffect
    BY <1>1, <2>1 DEF PipeEffect, PipesKept, FileTypeOK, SchedulerNeverHalts, pipeVars
  <2>3. HandlesValid'
    BY <1>1, <2>1 DEF HandlesValid
  <2>4. refcount' \in [Handle -> Nat]
    BY <1>1, <1>3, <2>1 DEF FileTypeOK
  <2>5. /\ fh_type' \in [Handle -> {"free", "screen", "reader", "writer"}]
        /\ fh_pipe' \in [Handle -> Pipe \cup {NULL}]
    BY <1>1, <2>1 DEF FileTypeOK
  <2> QED
    BY <1>4, <1>5, <2>2, <2>3, <2>4, <2>5, PipeStep
<1> QED
  BY <1>6, <1>7

(* The dying process gives up the reference of one descriptor.             *)
LEMMA KillCloseInv == IInv /\ KillClose => IInv'
<1> SUFFICES ASSUME IInv, KillClose PROVE IInv'
  OBVIOUS
<1>1. /\ FileTypeOK /\ HandlesValid /\ kfd \in 0 .. MAX_FDS /\ KillValid
      /\ panic \in Panics /\ SchedulerNeverHalts
  BY DEF IInv, TypeOK, ProcTypeOK
<1>2. /\ kpc = "kill" /\ kfd < MAX_FDS /\ kfd' = kfd + 1
      /\ UNCHANGED <<filedesc, procVars, callVars, current_process, kpc, victim,
                     msgVars>>
      /\ IF filedesc[victim][kfd] # NULL
         THEN close_filehandle(filedesc[victim][kfd]) ELSE close_nothing
  BY DEF KillClose, kill_process_close
<1>3. kfd \in Fd /\ kfd' \in 0 .. MAX_FDS /\ victim \in Pid
  BY <1>1, <1>2, SizesAssumption DEF Fd, KillValid
<1>4. /\ UNCHANGED <<procVars, callVars, msgVars, current_process, victim>>
      /\ kpc' = kpc /\ filedesc' \in [Pid -> [Fd -> Handle \cup {NULL}]]
  BY <1>1, <1>2 DEF FileTypeOK
<1>5. CASE filedesc[victim][kfd] # NULL
  <2>1. filedesc[victim][kfd] \in Handle
    BY <1>1, <1>3, <1>5 DEF FileTypeOK
  <2>2. release(filedesc[victim][kfd]) /\ refcount' \in [Handle -> Nat]
    BY <1>1, <1>2, <1>5, <2>1, DroppedType DEF close_filehandle
  <2> QED
    BY <1>3, <1>4, <2>1, <2>2, ReleaseEffect, PipeStep
<1>6. CASE filedesc[victim][kfd] = NULL
  <2>1. UNCHANGED <<fh_type, refcount, fh_pipe, pipeVars, listVars, panic>>
    BY <1>2, <1>6 DEF close_nothing, handleVars
  <2>2. PipeEffect
    BY <1>1, <2>1 DEF PipeEffect, PipesKept, FileTypeOK, SchedulerNeverHalts, pipeVars
  <2>3. HandlesValid'
    BY <1>1, <2>1 DEF HandlesValid
  <2>4. /\ fh_type' \in [Handle -> {"free", "screen", "reader", "writer"}]
        /\ fh_pipe' \in [Handle -> Pipe \cup {NULL}]
        /\ refcount' \in [Handle -> Nat]
    BY <1>1, <2>1 DEF FileTypeOK
  <2> QED
    BY <1>3, <1>4, <2>2, <2>3, <2>4, PipeStep
<1> QED
  BY <1>5, <1>6

(***************************************************************************)
(* The scheduler picks a process of the ready list.                        *)
(***************************************************************************)
(* next_process returns NULL or a member of the ready list.                *)
LEMMA NextReady ==
    ASSUME TypeOK
    PROVE  next_process = NULL \/ (next_process \in Pid /\ next_process \in Ran(ready))
<1>1. ready \in Seq(Pid)
  BY DEF TypeOK, ProcTypeOK
<1>2. CASE HasNext(ready, current_process)
  <2> DEFINE i == CHOOSE i \in 1 .. (Len(ready) - 1) : ready[i] = current_process
  <2>1. i \in 1 .. (Len(ready) - 1)
    BY <1>2 DEF HasNext
  <2>2. NextOf(ready, current_process) = ready[i + 1]
    BY DEF NextOf
  <2> HIDE DEF i
  <2>3. i + 1 \in 1 .. Len(ready) /\ i + 1 \in DOMAIN ready
    BY <1>1, <2>1
  <2>4. ready[i + 1] \in Pid /\ ready[i + 1] \in Ran(ready)
    BY <1>1, <2>3 DEF Ran
  <2>5. CASE ready = <<>>
    BY <1>1, <2>1, <2>5
  <2>6. CASE ready # <<>>
    <3>1. 1 \in DOMAIN ready /\ ready[1] \in Pid
      BY <1>1, <2>6
    <3> QED
      BY <2>2, <2>4, <2>6, <3>1 DEF next_process, Ran
  <2> QED
    BY <2>5, <2>6
<1>3. CASE ~HasNext(ready, current_process)
  <2>1. CASE ready # <<>>
    <3>1. 1 \in DOMAIN ready /\ ready[1] \in Pid
      BY <1>1, <2>1
    <3> QED
      BY <1>3, <2>1, <3>1 DEF next_process, Ran
  <2> QED
    BY <1>3, <2>1 DEF next_process
<1> QED
  BY <1>2, <1>3

(* context_switch only ever picks a live, ready process; a process woken   *)
(* up inside a call repeats it.                                            *)
LEMMA SwitchInv == IInv /\ Switch => IInv'
<1> SUFFICES ASSUME IInv, Switch PROVE IInv'
  OBVIOUS
<1>1. /\ kpc = "switch" /\ panic = "none"
      /\ current_process' = next_process
      /\ UNCHANGED <<procVars, callVars, listVars, killVars, fileVars, msgVars>>
      /\ TypeOK /\ ProcInv /\ HandlesValid
  BY DEF Switch, context_switch, IInv, ProcInv
<1>2. next_process \in Pid =>
        Live(next_process) /\ isready[next_process]
  BY <1>1, NextReady DEF ProcInv, ListsConsistent, NULL, Pid
<1>3. /\ kpc' \in {"user", "restart"} /\ panic' = "none"
      /\ next_process = NULL => kpc' = "user"
      /\ next_process \in Pid =>
           kpc' = IF in_syscall[next_process] = "none" THEN "user" ELSE "restart"
  BY <1>1, <1>2, NextReady DEF Switch, context_switch, NULL, Pid
<1>4. \A p \in Pid : /\ Live(p)' = Live(p) /\ Suspended(p)' = Suspended(p)
                     /\ Zombie(p)' = Zombie(p)
  BY <1>1, <1>3 DEF Live, Suspended, Zombie, procVars, listVars
<1>5. TypeOK'
  <2>1. ProcTypeOK'
    BY <1>1, <1>3, NextReady
    DEF TypeOK, ProcTypeOK, procVars, callVars, listVars, killVars, Panics
  <2>2. FileTypeOK' /\ MsgTypeOK'
    BY <1>1 DEF TypeOK, FileTypeOK, MsgTypeOK, fileVars, handleVars, pipeVars, msgVars
  <2> QED
    BY <2>1, <2>2 DEF TypeOK
<1>6. ListsConsistent' /\ KillValid'
  BY <1>1, <1>3, <1>4 DEF ProcInv, ListsConsistent, KillValid, listVars
<1>7. CallsValid'
  BY <1>1, <1>4 DEF ProcInv, CallsValid, callVars
<1>8. CurrentValid'
  <2>1. CASE next_process = NULL
    BY <1>1, <1>3, <2>1 DEF CurrentValid
  <2>2. CASE next_process \in Pid
    BY <1>1, <1>2, <1>3, <1>4, <2>2
    DEF CurrentValid, ProcInv, CallsValid, callVars, listVars, NULL, Pid
  <2> QED
    BY <2>1, <2>2, <1>1, NextReady
<1>9. FamilyValid' /\ MailboxValid' /\ WokenValid'
  BY <1>1, <1>4 DEF ProcInv, FamilyValid, MailboxValid, WokenValid, procVars,
    msgVars, listVars, callVars, Zombie
<1>10. NoLostWakeup'
  BY <1>1, <1>4 DEF ProcInv, NoLostWakeup, BlockedInRead, BlockedInReceive,
    BlockedInWaitpid, procVars, callVars, msgVars, fileVars, pipeVars
<1>11. WakersValid' /\ RegisteredOnce'
  <2>1. \A b \in Pipe : readpid[b] \in Pid \cup {NONE}
    BY <1>1 DEF TypeOK, FileTypeOK
  <2>2. WakersValid'
    BY <1>1, <1>4, <2>1 DEF ProcInv, WakersValid, procVars, callVars, msgVars,
      fileVars, pipeVars
  <2>3. RegisteredOnce'
    BY <1>1, <1>4, <2>1 DEF ProcInv, RegisteredOnce, callVars, msgVars,
      fileVars, pipeVars
  <2> QED
    BY <2>2, <2>3
<1>12. HandlesValid' /\ SchedulerNeverHalts'
  BY <1>1, <1>3 DEF HandlesValid, SchedulerNeverHalts, fileVars, handleVars
<1> QED
  BY <1>5, <1>6, <1>7, <1>8, <1>9, <1>10, <1>11, <1>12 DEF IInv

(***************************************************************************)
(* kill_process.                                                           *)
(***************************************************************************)
(* The start of kill_process, called for a live process that is not        *)
(* blocked in read: the process leaves its list, and nobody else is        *)
(* disturbed.                                                              *)
LEMMA KillStart ==
    ASSUME IInv, UserMode, current_process # NULL, NEW p \in Pid, Live(p),
           Suspended(p) => in_syscall[p] # "read", kill_process(p),
           UNCHANGED <<procVars, isready, panic, fileVars, msgVars>>,
           in_syscall' \in [Pid -> CallName],
           arg' \in [Pid -> Arguments], count' \in [Pid -> Arguments],
           \A q \in Pid : q # current_process =>
               in_syscall'[q] = in_syscall[q] /\ arg'[q] = arg[q],
           in_syscall'[current_process] \in {"none", "exit", "kill"}
    PROVE  IInv'
<1> DEFINE c == current_process
<1>1. TypeOK /\ ProcInv /\ HandlesValid /\ SchedulerNeverHalts
  BY DEF IInv, ProcInv
<1>2. c \in Pid /\ Live(c) /\ isready[c] /\ kpc = "user"
  BY Caller DEF UserMode
<1>3. /\ kpc' = "kill" /\ victim' = p /\ kfd' = 0 /\ exists' = exists
      /\ exited' = exited /\ isready' = isready /\ parent_pid' = parent_pid
      /\ waiting_on' = waiting_on /\ readpid' = readpid /\ len' = len
      /\ writing' = writing /\ mailbox' = mailbox
      /\ mailbox_size' = mailbox_size /\ receive_blocked' = receive_blocked
      /\ current_process' = IF c = p THEN NULL ELSE c
  BY DEF kill_process, procVars, fileVars, pipeVars, msgVars, current_after_kill
<1>4. \A q \in Pid : /\ Live(q)' <=> Live(q) /\ q # p
                     /\ Suspended(q)' <=> Suspended(q) /\ q # p
                     /\ Zombie(q)' = Zombie(q)
  BY <1>2, <1>3 DEF Live, Suspended, Zombie
<1>5. /\ ready' \in Seq(Pid) /\ suspended' \in Seq(Pid)
      /\ NoDuplicates(ready') /\ NoDuplicates(suspended')
      /\ Ran(ready') = Ran(ready) \ {p} /\ Ran(suspended') = Ran(suspended) \ {p}
  <2>1. /\ ready \in Seq(Pid) /\ suspended \in Seq(Pid)
        /\ NoDuplicates(ready) /\ NoDuplicates(suspended)
        /\ isready[p] => p \notin Ran(suspended)
        /\ ~isready[p] => p \notin Ran(ready)
    BY <1>1 DEF TypeOK, ProcTypeOK, ProcInv, ListsConsistent
  <2>2. CASE isready[p]
    <3>1. ready' = list_remove(ready, p) /\ suspended' = suspended
      BY <2>2 DEF kill_process, leave_list
    <3> QED
      BY <2>1, <2>2, <3>1, ListRemove
  <2>3. CASE ~isready[p]
    <3>1. suspended' = list_remove(suspended, p) /\ ready' = ready
      BY <2>3 DEF kill_process, leave_list
    <3> QED
      BY <2>1, <2>3, <3>1, ListRemove
  <2> QED
    BY <2>2, <2>3
<1>6. TypeOK'
  <2>1. kfd' \in 0 .. MAX_FDS
    BY <1>3, SizesAssumption
  <2>2. current_process' \in Pid \cup {NULL}
    BY <1>2, <1>3
  <2>3. ProcTypeOK'
    BY <1>1, <1>3, <1>5, <2>1, <2>2 DEF TypeOK, ProcTypeOK
  <2>4. FileTypeOK' /\ MsgTypeOK'
    BY <1>1 DEF TypeOK, FileTypeOK, MsgTypeOK, fileVars, handleVars, pipeVars, msgVars
  <2> QED
    BY <2>3, <2>4 DEF TypeOK
<1>7. ListsConsistent'
  BY <1>1, <1>3, <1>4, <1>5 DEF ProcInv, ListsConsistent
<1>8. KillValid' /\ CurrentValid'
  BY <1>2, <1>3, <1>4 DEF KillValid, CurrentValid, Live, NULL, Pid
<1>9. CallsValid'
  <2> SUFFICES ASSUME NEW q \in Pid, Live(q)', in_syscall'[q] # "none"
               PROVE  \/ in_syscall'[q] \in {"read", "receive", "waitpid"}
                      \/ (kpc' = "kill" /\ current_process' = q)
    BY DEF CallsValid
  <2>1. CASE q = c
    BY <1>3, <1>4, <2>1
  <2>2. CASE q # c
    BY <1>1, <1>2, <1>4, <2>2 DEF ProcInv, CallsValid
  <2> QED
    BY <2>1, <2>2
<1>10. FamilyValid' /\ MailboxValid'
  BY <1>1, <1>3, <1>4 DEF ProcInv, FamilyValid, MailboxValid
<1>11. \A q \in Pid : Suspended(q) => q # c
  BY <1>2 DEF Suspended
<1>12. NoLostWakeup'
  <2> SUFFICES ASSUME NEW q \in Pid, Suspended(q)'
               PROVE  (BlockedInRead(q) \/ BlockedInReceive(q)
                         \/ BlockedInWaitpid(q))'
    BY DEF NoLostWakeup
  <2>1. Suspended(q) /\ q # c
    BY <1>4, <1>11
  <2>2. in_syscall'[q] = in_syscall[q] /\ arg'[q] = arg[q]
    BY <2>1
  <2> QED
    BY <1>1, <1>3, <2>1, <2>2 DEF ProcInv, NoLostWakeup, BlockedInRead,
      BlockedInReceive, BlockedInWaitpid
<1>13. \A b \in Pipe : readpid[b] # NONE =>
           /\ readpid[b] \in Pid /\ readpid[b] # p /\ readpid[b] # c
           /\ Suspended(readpid[b]) /\ in_syscall[readpid[b]] = "read"
  <2>1. \A b \in Pipe : readpid[b] \in Pid \cup {NONE}
    BY <1>1 DEF TypeOK, FileTypeOK
  <2> QED
    BY <1>1, <1>11, <2>1 DEF ProcInv, WakersValid, RegisteredOnce
<1>14. WakersValid'
  <2>1. \A b \in Pipe : readpid'[b] # NONE => Suspended(readpid[b])'
    BY <1>3, <1>4, <1>13
  <2>2. \A q \in Pid : Live(q)' /\ receive_blocked'[q] => Suspended(q)'
    BY <1>1, <1>3, <1>4 DEF ProcInv, WakersValid
  <2>3. \A q \in Pid : Live(q)' /\ in_syscall'[q] = "waitpid"
                         /\ waiting_on'[q] \in Pid => Suspended(q)'
    BY <1>1, <1>3, <1>4 DEF ProcInv, WakersValid
  <2> QED
    BY <1>3, <2>1, <2>2, <2>3 DEF WakersValid
<1>15. RegisteredOnce'
  <2>1. \A q \in Pid : Live(q)' /\ receive_blocked'[q] => in_syscall'[q] = "receive"
    BY <1>1, <1>3, <1>4, <1>11 DEF ProcInv, RegisteredOnce, WakersValid
  <2>2. \A b \in Pipe : readpid'[b] # NONE => in_syscall'[readpid'[b]] = "read"
    BY <1>3, <1>13
  <2> QED
    BY <1>1, <1>3, <2>1, <2>2 DEF ProcInv, RegisteredOnce
<1>16. WokenValid'
  <2> SUFFICES ASSUME NEW q \in Pid, Live(q)', isready'[q],
                      in_syscall'[q] \in {"receive", "waitpid"}
               PROVE  /\ in_syscall'[q] = "receive" => mailbox_size'[q] > 0
                      /\ in_syscall'[q] = "waitpid" =>
                           (arg[q] \in Pid /\ Zombie(arg[q]) /\ parent_pid[arg[q]] = q)'
    BY DEF WokenValid, Zombie
  <2>1. q # c
    OBVIOUS
  <2>2. in_syscall'[q] = in_syscall[q] /\ arg'[q] = arg[q]
    BY <2>1
  <2> QED
    BY <1>1, <1>3, <1>4, <2>2 DEF ProcInv, WokenValid
<1>17. HandlesValid' /\ SchedulerNeverHalts'
  BY <1>1 DEF HandlesValid, SchedulerNeverHalts, fileVars, handleVars
<1> QED
  BY <1>6, <1>7, <1>8, <1>9, <1>10, <1>12, <1>14, <1>15, <1>16, <1>17 DEF IInv

(* A page fault kills the running process.                                 *)
LEMMA PageFaultInv == IInv /\ page_fault => IInv'
<1> SUFFICES ASSUME IInv, page_fault PROVE IInv'
  OBVIOUS
<1>1. /\ UserMode /\ current_process # NULL /\ kill_process(current_process)
      /\ UNCHANGED <<procVars, callVars, isready, panic, fileVars, msgVars>>
  BY DEF page_fault, call_made
<1>2. /\ current_process \in Pid /\ Live(current_process)
      /\ isready[current_process] /\ in_syscall[current_process] = "none"
  BY <1>1, Caller
<1>3. /\ in_syscall' \in [Pid -> CallName] /\ in_syscall' = in_syscall
      /\ arg' \in [Pid -> Arguments] /\ count' \in [Pid -> Arguments]
      /\ arg' = arg
  BY <1>1 DEF callVars, IInv, TypeOK, ProcTypeOK
<1> QED
  BY <1>1, <1>2, <1>3, KillStart DEF Suspended

(* A process that makes a call stays in it; no other process is disturbed. *)
LEMMA PendingEffect ==
    ASSUME TypeOK, current_process \in Pid, NEW call \in CallName,
           NEW a \in Arguments, NEW n \in Arguments, call_pending(call, a, n)
    PROVE  /\ in_syscall' \in [Pid -> CallName]
           /\ arg' \in [Pid -> Arguments] /\ count' \in [Pid -> Arguments]
           /\ in_syscall'[current_process] = call /\ arg'[current_process] = a
           /\ \A q \in Pid : q # current_process =>
                in_syscall'[q] = in_syscall[q] /\ arg'[q] = arg[q]
BY DEF call_pending, TypeOK, ProcTypeOK

(* syscall_exit kills the caller.                                          *)
LEMMA ExitInv == IInv /\ syscall_exit => IInv'
<1> SUFFICES ASSUME IInv, syscall_exit PROVE IInv'
  OBVIOUS
<1>1. /\ UserMode /\ current_process # NULL /\ kill_process(current_process)
      /\ call_pending("exit", 0, 0)
      /\ UNCHANGED <<procVars, isready, panic, fileVars, msgVars>>
  BY DEF syscall_exit, call_made
<1>2. /\ current_process \in Pid /\ Live(current_process)
      /\ isready[current_process]
  BY <1>1, Caller
<1>3. TypeOK /\ "exit" \in CallName /\ 0 \in Arguments
  BY DEF IInv, CallName, Arguments
<1> QED
  BY <1>1, <1>2, <1>3, PendingEffect, KillStart DEF Suspended

(* syscall_kill, used on a process that is not blocked in read or dead.    *)
LEMMA KillInv ==
    ASSUME SafeWorkload, NEW pid \in Pid
    PROVE  IInv /\ syscall_kill(pid) => IInv'
<1> SUFFICES ASSUME IInv, syscall_kill(pid) PROVE IInv'
  OBVIOUS
<1>1. /\ UserMode /\ current_process # NULL /\ kill_process(pid)
      /\ call_pending("kill", pid, 0)
      /\ UNCHANGED <<procVars, isready, panic, fileVars, msgVars>>
      /\ exists[pid] /\ Condition(pid) \in {"running", "receive", "waitpid"}
  BY DEF syscall_kill, call_made, SafeWorkload
<1>2. current_process \in Pid
  BY <1>1, Caller
<1>3. TypeOK /\ "kill" \in CallName /\ 0 \in Arguments /\ pid \in Arguments
  BY SizesAssumption DEF IInv, CallName, Arguments, Pid
<1>4. Live(pid)
  BY <1>1 DEF Live, Condition, UserMode
<1>5. Suspended(pid) => in_syscall[pid] # "read"
  BY <1>1 DEF Suspended, Live, Condition
<1> QED
  BY <1>1, <1>2, <1>3, <1>4, <1>5, PendingEffect, KillStart

(* The end of kill_process wakes up a suspended parent that waits for this *)
(* child, and the zombie is there for it.                                  *)
LEMMA KillEndInv == IInv /\ kill_process_end => IInv'
<1> SUFFICES ASSUME IInv, kill_process_end PROVE IInv'
  OBVIOUS
<1> DEFINE v == victim
           c == current_process
           P == parent_pid[v]
<1>1. TypeOK /\ ProcInv /\ HandlesValid /\ SchedulerNeverHalts
  BY DEF IInv, ProcInv
<1>2. /\ kpc = "kill" /\ panic = "none" /\ v \in Pid
      /\ exists[v] /\ ~exited[v] /\ c # v
  BY <1>1 DEF kill_process_end, ProcInv, KillValid
<1>3. /\ kill_process_finish(v)
      /\ mailbox' = [mailbox EXCEPT ![v] = IF @ = "null" THEN "null" ELSE "freed"]
      /\ IF c = NULL THEN kpc' = "switch" /\ UNCHANGED callVars ELSE call_returns
      /\ victim' = NULL /\ kfd' = 0 /\ current_process' = c
      /\ UNCHANGED <<fileVars, mailbox_size, receive_blocked>>
  BY <1>2 DEF kill_process_end
<1>4. /\ parent_pid' = [q \in Pid |-> IF parent_pid[q] = v THEN NONE ELSE parent_pid[q]]
      /\ exists' = [exists EXCEPT ![v] = P # NONE]
      /\ exited' = [exited EXCEPT ![v] = TRUE]
      /\ exists \in [Pid -> BOOLEAN] /\ exited \in [Pid -> BOOLEAN]
  BY <1>1, <1>2, <1>3 DEF kill_process_finish, Orphaned, KeepsSlot, TypeOK, ProcTypeOK
<1>5. /\ in_syscall' \in [Pid -> CallName] /\ arg' \in [Pid -> Arguments]
      /\ count' \in [Pid -> Arguments] /\ kpc' \in {"user", "switch"}
      /\ c # NULL => /\ c \in Pid /\ Live(c) /\ isready[c]
                     /\ kpc' = "user" /\ in_syscall'[c] = "none"
      /\ \A q \in Pid : q # c => in_syscall'[q] = in_syscall[q] /\ arg'[q] = arg[q]
  <2>1. CASE c = NULL
    BY <1>1, <1>3, <2>1 DEF callVars, TypeOK, ProcTypeOK
  <2>2. CASE c # NULL
    <3>1. c \in Pid /\ Live(c) /\ isready[c]
      BY <1>1, <1>2, <2>2 DEF TypeOK, ProcTypeOK, ProcInv, CurrentValid
    <3>2. /\ in_syscall' = [in_syscall EXCEPT ![c] = "none"]
          /\ arg' = [arg EXCEPT ![c] = 0] /\ count' = [count EXCEPT ![c] = 0]
          /\ kpc' = "user"
      BY <1>3, <2>2 DEF call_returns
    <3>3. /\ in_syscall \in [Pid -> CallName] /\ "none" \in CallName
          /\ arg \in [Pid -> Arguments] /\ count \in [Pid -> Arguments]
          /\ 0 \in Arguments
      BY <1>1 DEF TypeOK, ProcTypeOK, CallName, Arguments
    <3> QED
      BY <3>1, <3>2, <3>3
  <2> QED
    BY <2>1, <2>2
<1>6. ~Live(v) /\ \A q \in Pid : Live(q)' <=> Live(q)
  <2>1. ~Live(v)
    BY <1>2 DEF Live
  <2>2. /\ exited'[v] /\ kpc' # "kill"
        /\ \A q \in Pid : q # v => exited'[q] = exited[q] /\ exists'[q] = exists[q]
    BY <1>2, <1>4, <1>5
  <2>3. \A q \in Pid : Live(q)' <=> exists'[q] /\ ~exited'[q]
    BY <2>2 DEF Live
  <2>4. \A q \in Pid : q # v => (Live(q) <=> exists[q] /\ ~exited[q])
    BY <1>2 DEF Live
  <2>5. ASSUME NEW q \in Pid PROVE Live(q)' <=> Live(q)
    <3>1. CASE q = v
      BY <2>1, <2>2, <2>3, <3>1
    <3>2. CASE q # v
      BY <2>2, <2>3, <2>4, <3>2
    <3> QED
      BY <3>1, <3>2
  <2> QED
    BY <1>2, <2>1, <2>5
<1> DEFINE W(q) == ParentWaits(v) /\ q = P
<1>7. ASSUME ParentWaits(v)
      PROVE  /\ P \in Pid /\ P # v /\ Suspended(P) /\ in_syscall[P] = "waitpid"
             /\ waiting_on[P] = v /\ arg[P] = v
             /\ waiting_on' = [waiting_on EXCEPT ![P] = NONE] /\ Woke(P)
  <2>1. P # NONE /\ in_syscall[P] = "waitpid" /\ waiting_on[P] = v
    BY <1>7 DEF ParentWaits
  <2>2. P \in Pid /\ P # v /\ exists[P] /\ ~exited[P]
    BY <1>1, <1>2, <2>1 DEF ProcInv, FamilyValid
  <2>3. Suspended(P)
    BY <1>1, <1>2, <2>1, <2>2 DEF ProcInv, WakersValid, Live
  <2>4. BlockedInWaitpid(P)
    BY <1>1, <2>1, <2>2, <2>3
    DEF ProcInv, NoLostWakeup, BlockedInRead, BlockedInReceive
  <2>5. waiting_on' = [waiting_on EXCEPT ![P] = NONE] /\ resume_process(P)
    BY <1>3, <1>7 DEF kill_process_finish
  <2>6. Woke(P)
    BY <1>1, <2>2, <2>3, <2>5, ResumeEffect DEF ProcInv
  <2> QED
    BY <2>1, <2>2, <2>3, <2>4, <2>5, <2>6 DEF BlockedInWaitpid
<1>8. /\ isready' \in [Pid -> BOOLEAN] /\ waiting_on' \in [Pid -> Pid \cup {NULL, NONE}]
      /\ ready' \in Seq(Pid) /\ suspended' \in Seq(Pid)
      /\ NoDuplicates(ready') /\ NoDuplicates(suspended')
      /\ \A q \in Pid : /\ isready'[q] <=> isready[q] \/ W(q)
                        /\ q \in Ran(ready') <=> q \in Ran(ready) \/ W(q)
                        /\ q \in Ran(suspended') <=> q \in Ran(suspended) /\ ~W(q)
                        /\ waiting_on'[q] = IF W(q) THEN NONE ELSE waiting_on[q]
      /\ panic' = "none"
  <2>1. /\ isready \in [Pid -> BOOLEAN] /\ waiting_on \in [Pid -> Pid \cup {NULL, NONE}]
        /\ ready \in Seq(Pid) /\ suspended \in Seq(Pid)
        /\ NoDuplicates(ready) /\ NoDuplicates(suspended)
    BY <1>1 DEF TypeOK, ProcTypeOK, ProcInv, ListsConsistent
  <2>2. CASE ParentWaits(v)
    BY <1>2, <1>7, <2>1, <2>2 DEF Woke
  <2>3. CASE ~ParentWaits(v)
    <3>1. UNCHANGED <<waiting_on, listVars, panic>>
      BY <1>3, <2>3 DEF kill_process_finish
    <3> QED
      BY <1>2, <2>1, <2>3, <3>1 DEF listVars
  <2> QED
    BY <2>2, <2>3
<1>9. \A q \in Pid : W(q) => /\ q # v /\ Suspended(q) /\ in_syscall[q] = "waitpid"
                             /\ q # c /\ arg[q] = v /\ parent_pid[v] = q
  BY <1>5, <1>7 DEF Suspended, Pid, NULL
<1> HIDE DEF W
<1>10. \A q \in Pid : /\ Suspended(q)' <=> Suspended(q) /\ ~W(q)
                      /\ Suspended(q) => q # c
  BY <1>5, <1>6, <1>8 DEF Suspended, Pid, NULL
<1>11. TypeOK'
  <2>1. parent_pid' \in [Pid -> Pid \cup {NULL, NONE}]
        /\ exists' \in [Pid -> BOOLEAN] /\ exited' \in [Pid -> BOOLEAN]
    BY <1>1, <1>2, <1>4 DEF TypeOK, ProcTypeOK
  <2>2. kfd' \in 0 .. MAX_FDS
    BY <1>3, SizesAssumption
  <2>3. ProcTypeOK'
    BY <1>1, <1>3, <1>5, <1>8, <2>1, <2>2 DEF TypeOK, ProcTypeOK, Panics
  <2>4. FileTypeOK' /\ MsgTypeOK'
    BY <1>1, <1>2, <1>3 DEF TypeOK, FileTypeOK, MsgTypeOK, fileVars, handleVars, pipeVars
  <2> QED
    BY <2>3, <2>4 DEF TypeOK
<1>12. ListsConsistent'
  BY <1>1, <1>6, <1>8, <1>9 DEF ProcInv, ListsConsistent, Suspended
<1>13. CurrentValid' /\ KillValid'
  BY <1>3, <1>5, <1>6, <1>8 DEF CurrentValid, KillValid, Pid, NULL
<1>14. CallsValid'
  BY <1>1, <1>5, <1>6 DEF ProcInv, CallsValid, Pid, NULL
<1>15. FamilyValid'
  BY <1>1, <1>2, <1>4 DEF ProcInv, FamilyValid
<1>16. MailboxValid'
  BY <1>1, <1>2, <1>3, <1>6 DEF ProcInv, MailboxValid, TypeOK, MsgTypeOK
<1>17. NoLostWakeup'
  <2> SUFFICES ASSUME NEW q \in Pid, Suspended(q)'
               PROVE  (BlockedInRead(q) \/ BlockedInReceive(q)
                         \/ BlockedInWaitpid(q))'
    BY DEF NoLostWakeup
  <2>1. /\ Suspended(q) /\ q # c /\ ~W(q) /\ q # v
        /\ in_syscall'[q] = in_syscall[q] /\ arg'[q] = arg[q]
        /\ waiting_on'[q] = waiting_on[q]
    BY <1>5, <1>6, <1>8, <1>10 DEF Suspended
  <2>2. CASE BlockedInRead(q) \/ BlockedInReceive(q)
    BY <1>3, <2>1, <2>2 DEF BlockedInRead, BlockedInReceive, fileVars, pipeVars
  <2>3. CASE BlockedInWaitpid(q)
    <3>1. arg[q] # v
      BY <1>4, <2>1, <2>3 DEF BlockedInWaitpid, ParentWaits, W, Pid, NONE
    <3> QED
      BY <1>2, <1>4, <2>1, <2>3, <3>1 DEF BlockedInWaitpid
  <2> QED
    BY <1>1, <2>1, <2>2, <2>3 DEF ProcInv, NoLostWakeup
<1>18. /\ readpid' = readpid /\ receive_blocked' = receive_blocked
       /\ \A b \in Pipe : readpid[b] # NONE =>
            /\ readpid[b] \in Pid /\ readpid[b] # c /\ ~W(readpid[b])
            /\ Suspended(readpid[b]) /\ in_syscall[readpid[b]] = "read"
  <2>1. \A b \in Pipe : readpid[b] \in Pid \cup {NONE}
    BY <1>1 DEF TypeOK, FileTypeOK
  <2> QED
    BY <1>1, <1>3, <1>9, <1>10, <2>1
    DEF ProcInv, WakersValid, RegisteredOnce, fileVars, pipeVars
<1>19. WakersValid'
  <2>1. \A b \in Pipe : readpid'[b] # NONE => Suspended(readpid[b])'
    BY <1>10, <1>18
  <2>2. \A q \in Pid : Live(q)' /\ receive_blocked'[q] => Suspended(q)'
    BY <1>1, <1>6, <1>9, <1>10, <1>18 DEF ProcInv, WakersValid, RegisteredOnce
  <2>3. \A q \in Pid : Live(q)' /\ in_syscall'[q] = "waitpid"
                         /\ waiting_on'[q] \in Pid => Suspended(q)'
    BY <1>1, <1>5, <1>6, <1>8, <1>10 DEF ProcInv, WakersValid, Pid, NONE, NULL
  <2> QED
    BY <2>1, <2>2, <2>3 DEF WakersValid
<1>20. RegisteredOnce'
  <2>1. \A q \in Pid : Live(q)' /\ receive_blocked'[q] => in_syscall'[q] = "receive"
    BY <1>1, <1>5, <1>6, <1>10, <1>18 DEF ProcInv, RegisteredOnce, WakersValid
  <2>2. \A b \in Pipe : readpid'[b] # NONE => in_syscall'[readpid'[b]] = "read"
    BY <1>5, <1>18
  <2> QED
    BY <1>1, <1>18, <2>1, <2>2 DEF ProcInv, RegisteredOnce
<1>21. WokenValid'
  <2> SUFFICES ASSUME NEW q \in Pid, Live(q)', isready'[q],
                      in_syscall'[q] \in {"receive", "waitpid"}
               PROVE  /\ in_syscall'[q] = "receive" => mailbox_size'[q] > 0
                      /\ in_syscall'[q] = "waitpid" =>
                           (arg[q] \in Pid /\ Zombie(arg[q]) /\ parent_pid[arg[q]] = q)'
    BY DEF WokenValid, Zombie
  <2>1. /\ q # c /\ Live(q) /\ q # v
        /\ in_syscall'[q] = in_syscall[q] /\ arg'[q] = arg[q]
    BY <1>5, <1>6 DEF Pid, NULL
  <2>2. CASE W(q)
    BY <1>2, <1>4, <1>9, <2>1, <2>2 DEF Zombie, Pid, NONE
  <2>3. CASE ~W(q)
    <3>1. /\ in_syscall[q] = "receive" => mailbox_size[q] > 0
          /\ in_syscall[q] = "waitpid" =>
                 arg[q] \in Pid /\ Zombie(arg[q]) /\ parent_pid[arg[q]] = q
      BY <1>1, <1>8, <2>1, <2>3 DEF ProcInv, WokenValid
    <3>2. Zombie(arg[q]) => arg[q] # v
      BY <1>2 DEF Zombie
    <3> QED
      BY <1>2, <1>3, <1>4, <2>1, <3>1, <3>2 DEF Zombie
  <2> QED
    BY <2>2, <2>3
<1>22. HandlesValid' /\ SchedulerNeverHalts'
  BY <1>1, <1>3, <1>8 DEF HandlesValid, SchedulerNeverHalts, fileVars, handleVars
<1> QED
  BY <1>11, <1>12, <1>13, <1>14, <1>15, <1>16, <1>17, <1>19, <1>20, <1>21, <1>22
  DEF IInv

(***************************************************************************)
(* System calls that return or block.                                      *)
(***************************************************************************)
(* The process that makes or repeats a call is live and ready.             *)
LEMMA EnterCaller ==
    ASSUME IInv, NEW call, NEW a, NEW n, enter(call, a, n)
    PROVE  /\ current_process \in Pid /\ Live(current_process)
           /\ isready[current_process] /\ kpc \in {"user", "restart"}
           /\ panic = "none"
<1>1. CASE call_made(call)
  BY <1>1, Caller DEF call_made, UserMode
<1>2. CASE kpc = "restart" /\ panic = "none"
  BY <1>2 DEF IInv, TypeOK, ProcTypeOK, CurrentValid
<1> QED
  BY <1>1, <1>2 DEF enter

(* A call that returns leaves alone what the blocked processes wait for.   *)
Returned ==
    /\ call_returns
    /\ UNCHANGED <<exited, parent_pid, listVars, current_process, killVars, panic,
                   filedesc, handleVars, reading, writing, readpid, mailbox,
                   receive_blocked>>
    /\ \A q \in Pid : q # current_process =>
         waiting_on'[q] = waiting_on[q] /\ mailbox_size'[q] = mailbox_size[q]
    /\ \A q \in Pid : \/ exists'[q] = exists[q]
                      \/ /\ exited[q] /\ parent_pid[q] = current_process
                         /\ ~exists'[q]
    /\ \A b \in Pipe : readpid[b] # NONE => len'[b] = len[b]
    /\ exists' \in [Pid -> BOOLEAN]
    /\ waiting_on' \in [Pid -> Pid \cup {NULL, NONE}]
    /\ len' \in [Pipe -> Nat]
    /\ mailbox_size' \in [Pid -> 0 .. MAILBOX_ALLOC]

(* Such a step preserves the invariant.                                    *)
LEMMA ReturnStep ==
    ASSUME IInv, current_process \in Pid, Live(current_process),
           isready[current_process], kpc \in {"user", "restart"}, Returned
    PROVE  IInv'
<1> DEFINE c == current_process
<1>1. TypeOK /\ ProcInv /\ HandlesValid /\ SchedulerNeverHalts
  BY DEF IInv, ProcInv
<1>2. /\ kpc' = "user" /\ exited' = exited /\ parent_pid' = parent_pid
      /\ isready' = isready /\ ready' = ready /\ suspended' = suspended
      /\ current_process' = c /\ victim' = victim /\ kfd' = kfd /\ panic' = panic
      /\ filedesc' = filedesc /\ fh_type' = fh_type /\ refcount' = refcount
      /\ fh_pipe' = fh_pipe /\ reading' = reading /\ writing' = writing
      /\ readpid' = readpid /\ mailbox' = mailbox
      /\ receive_blocked' = receive_blocked
  BY DEF Returned, call_returns, listVars, killVars, handleVars
<1>3. /\ in_syscall' \in [Pid -> CallName] /\ arg' \in [Pid -> Arguments]
      /\ count' \in [Pid -> Arguments] /\ in_syscall'[c] = "none"
      /\ \A q \in Pid : q # c => in_syscall'[q] = in_syscall[q] /\ arg'[q] = arg[q]
  <2>1. /\ in_syscall' = [in_syscall EXCEPT ![c] = "none"]
        /\ arg' = [arg EXCEPT ![c] = 0] /\ count' = [count EXCEPT ![c] = 0]
    BY DEF Returned, call_returns
  <2>2. /\ in_syscall \in [Pid -> CallName] /\ "none" \in CallName
        /\ arg \in [Pid -> Arguments] /\ count \in [Pid -> Arguments]
        /\ 0 \in Arguments
    BY <1>1 DEF TypeOK, ProcTypeOK, CallName, Arguments
  <2> QED
    BY <2>1, <2>2
<1>4. \A q \in Pid : /\ Live(q)' <=> Live(q)
                     /\ Suspended(q)' <=> Suspended(q)
                     /\ exists'[q] => exists[q]
                     /\ exists[q] /\ ~exited[q] => exists'[q]
                     /\ Suspended(q) => q # c
  <2>1. kpc' # "kill" /\ kpc # "kill"
    BY <1>2
  <2>2. \A q \in Pid : exists'[q] => exists[q]
    BY DEF Returned
  <2>3. \A q \in Pid : exists[q] /\ ~exited[q] => exists'[q]
    BY DEF Returned
  <2>4. \A q \in Pid : Live(q)' <=> Live(q)
    BY <1>2, <2>1, <2>2, <2>3 DEF Live
  <2> QED
    BY <1>2, <2>2, <2>3, <2>4 DEF Suspended
<1>5. TypeOK'
  <2>1. ProcTypeOK'
    BY <1>1, <1>2, <1>3 DEF TypeOK, ProcTypeOK, Returned
  <2>2. FileTypeOK' /\ MsgTypeOK'
    BY <1>1, <1>2 DEF TypeOK, FileTypeOK, MsgTypeOK, Returned
  <2> QED
    BY <2>1, <2>2 DEF TypeOK
<1>6. ListsConsistent'
  BY <1>1, <1>2, <1>4 DEF ProcInv, ListsConsistent
<1>7. CurrentValid' /\ KillValid'
  BY <1>2, <1>3, <1>4 DEF CurrentValid, KillValid
<1>8. CallsValid'
  BY <1>1, <1>2, <1>3, <1>4 DEF ProcInv, CallsValid
<1>9. FamilyValid' /\ MailboxValid'
  BY <1>1, <1>2, <1>4 DEF ProcInv, FamilyValid, MailboxValid
<1>10. NoLostWakeup'
  <2> SUFFICES ASSUME NEW q \in Pid, Suspended(q)'
               PROVE  (BlockedInRead(q) \/ BlockedInReceive(q)
                         \/ BlockedInWaitpid(q))'
    BY DEF NoLostWakeup
  <2>1. /\ Suspended(q) /\ in_syscall'[q] = in_syscall[q] /\ arg'[q] = arg[q]
        /\ waiting_on'[q] = waiting_on[q] /\ mailbox_size'[q] = mailbox_size[q]
    BY <1>3, <1>4 DEF Returned
  <2>2. CASE BlockedInRead(q)
    BY <1>2, <2>1, <2>2 DEF BlockedInRead, Returned, Pid, NONE
  <2>3. CASE BlockedInReceive(q)
    BY <1>2, <2>1, <2>3 DEF BlockedInReceive
  <2>4. CASE BlockedInWaitpid(q)
    BY <1>2, <1>4, <2>1, <2>4 DEF BlockedInWaitpid
  <2> QED
    BY <1>1, <2>1, <2>2, <2>3, <2>4 DEF ProcInv, NoLostWakeup
<1>11. \A b \in Pipe : readpid[b] # NONE =>
           /\ readpid[b] \in Pid /\ readpid[b] # c
           /\ Suspended(readpid[b]) /\ in_syscall[readpid[b]] = "read"
  <2>1. \A b \in Pipe : readpid[b] \in Pid \cup {NONE}
    BY <1>1 DEF TypeOK, FileTypeOK
  <2> QED
    BY <1>1, <1>4, <2>1 DEF ProcInv, WakersValid, RegisteredOnce
<1>12. WakersValid'
  <2>1. \A b \in Pipe : readpid'[b] # NONE => Suspended(readpid[b])'
    BY <1>2, <1>4, <1>11
  <2>2. \A q \in Pid : Live(q)' /\ receive_blocked'[q] => Suspended(q)'
    BY <1>1, <1>2, <1>4 DEF ProcInv, WakersValid
  <2>3. \A q \in Pid : Live(q)' /\ in_syscall'[q] = "waitpid"
                         /\ waiting_on'[q] \in Pid => Suspended(q)'
    BY <1>1, <1>3, <1>4 DEF ProcInv, WakersValid, Returned
  <2> QED
    BY <2>1, <2>2, <2>3 DEF WakersValid
<1>13. RegisteredOnce'
  <2>1. \A q \in Pid : Live(q)' /\ receive_blocked'[q] => in_syscall'[q] = "receive"
    BY <1>1, <1>2, <1>3, <1>4 DEF ProcInv, RegisteredOnce, WakersValid
  <2>2. \A b \in Pipe : readpid'[b] # NONE => in_syscall'[readpid'[b]] = "read"
    BY <1>2, <1>3, <1>11
  <2> QED
    BY <1>1, <1>2, <2>1, <2>2 DEF ProcInv, RegisteredOnce
<1>14. WokenValid'
  <2> SUFFICES ASSUME NEW q \in Pid, Live(q)', isready'[q],
                      in_syscall'[q] \in {"receive", "waitpid"}
               PROVE  /\ in_syscall'[q] = "receive" => mailbox_size'[q] > 0
                      /\ in_syscall'[q] = "waitpid" =>
                           (arg[q] \in Pid /\ Zombie(arg[q]) /\ parent_pid[arg[q]] = q)'
    BY DEF WokenValid, Zombie
  <2>1. /\ q # c /\ Live(q) /\ isready[q]
        /\ in_syscall'[q] = in_syscall[q] /\ arg'[q] = arg[q]
        /\ mailbox_size'[q] = mailbox_size[q]
    BY <1>2, <1>3, <1>4 DEF Returned
  <2>2. \A z \in Pid : Zombie(z) /\ parent_pid[z] = q => Zombie(z)'
    BY <1>2, <2>1 DEF Zombie, Returned
  <2> QED
    BY <1>1, <1>2, <2>1, <2>2 DEF ProcInv, WokenValid
<1>15. HandlesValid' /\ SchedulerNeverHalts'
  BY <1>1, <1>2 DEF HandlesValid, SchedulerNeverHalts
<1> QED
  BY <1>5, <1>6, <1>7, <1>8, <1>9, <1>10, <1>12, <1>13, <1>14, <1>15 DEF IInv

(* A call that blocks suspends the caller and registers it with whoever    *)
(* will wake it up.                                                        *)
Blocked ==
    /\ Slept(current_process)
    /\ kpc' = "switch"
    /\ UNCHANGED <<exists, exited, parent_pid, current_process, killVars,
                   filedesc, handleVars, reading, writing, len, mailbox,
                   mailbox_size>>
    /\ in_syscall' \in [Pid -> CallName]
    /\ arg' \in [Pid -> Arguments] /\ count' \in [Pid -> Arguments]
    /\ waiting_on' \in [Pid -> Pid \cup {NULL, NONE}]
    /\ readpid' \in [Pipe -> Pid \cup {NONE}]
    /\ receive_blocked' \in [Pid -> BOOLEAN]
    /\ \A q \in Pid : q # current_process =>
         /\ in_syscall'[q] = in_syscall[q] /\ arg'[q] = arg[q]
         /\ waiting_on'[q] = waiting_on[q]
         /\ receive_blocked'[q] = receive_blocked[q]
    /\ \/ readpid' = readpid
       \/ \E b \in Pipe : /\ readpid[b] = NONE
                          /\ readpid' = [readpid EXCEPT ![b] = current_process]
                          /\ in_syscall'[current_process] = "read"
    /\ in_syscall'[current_process] \in {"read", "receive", "waitpid"}
    /\ receive_blocked'[current_process] => in_syscall'[current_process] = "receive"

(* Such a step preserves the invariant.                                    *)
LEMMA BlockStep ==
    ASSUME IInv, current_process \in Pid, Live(current_process),
           isready[current_process], kpc \in {"user", "restart"}, Blocked,
           (\/ BlockedInRead(current_process) \/ BlockedInReceive(current_process)
            \/ BlockedInWaitpid(current_process))'
    PROVE  IInv'
<1> DEFINE c == current_process
<1>1. TypeOK /\ ProcInv /\ HandlesValid /\ SchedulerNeverHalts
  BY DEF IInv, ProcInv
<1>2. /\ kpc' = "switch" /\ exists' = exists /\ exited' = exited
      /\ parent_pid' = parent_pid /\ current_process' = c
      /\ victim' = victim /\ kfd' = kfd /\ panic' = panic
      /\ filedesc' = filedesc /\ fh_type' = fh_type /\ refcount' = refcount
      /\ fh_pipe' = fh_pipe /\ reading' = reading /\ writing' = writing
      /\ len' = len /\ mailbox' = mailbox /\ mailbox_size' = mailbox_size
  BY DEF Blocked, Slept, killVars, handleVars
<1>3. \A q \in Pid : q # c => /\ in_syscall'[q] = in_syscall[q] /\ arg'[q] = arg[q]
                              /\ waiting_on'[q] = waiting_on[q]
                              /\ receive_blocked'[q] = receive_blocked[q]
  BY DEF Blocked
<1>4. /\ isready' = [isready EXCEPT ![c] = FALSE]
      /\ isready \in [Pid -> BOOLEAN]
  BY <1>1 DEF Blocked, Slept, TypeOK, ProcTypeOK
<1>5. \A q \in Pid : /\ Live(q)' <=> Live(q)
                     /\ Suspended(q)' <=> Suspended(q) \/ q = c
                     /\ Suspended(q) => q # c
                     /\ Zombie(q)' <=> Zombie(q)
                     /\ isready'[q] <=> isready[q] /\ q # c
  <2>1. kpc' # "kill" /\ kpc # "kill"
    BY <1>2
  <2>2. \A q \in Pid : isready'[q] <=> isready[q] /\ q # c
    BY <1>4
  <2>3. \A q \in Pid : Live(q)' <=> Live(q)
    BY <1>2, <2>1 DEF Live
  <2> QED
    BY <1>2, <2>2, <2>3 DEF Suspended, Zombie
<1>6. /\ \A b \in Pipe : readpid[b] \in Pid \cup {NONE}
      /\ \A b \in Pipe : readpid[b] # NONE =>
           /\ readpid[b] \in Pid /\ readpid[b] # c
           /\ Suspended(readpid[b]) /\ in_syscall[readpid[b]] = "read"
           /\ readpid'[b] = readpid[b]
      /\ \A b \in Pipe : readpid'[b] # readpid[b] =>
           readpid'[b] = c /\ in_syscall'[c] = "read"
      /\ \A b, d \in Pipe : readpid'[b] = c /\ readpid'[d] = c => b = d
  <2>1. readpid \in [Pipe -> Pid \cup {NONE}]
    BY <1>1 DEF TypeOK, FileTypeOK
  <2>2. \A b \in Pipe : readpid[b] # NONE =>
           /\ readpid[b] \in Pid /\ readpid[b] # c
           /\ Suspended(readpid[b]) /\ in_syscall[readpid[b]] = "read"
    BY <1>1, <1>5, <2>1 DEF ProcInv, WakersValid, RegisteredOnce
  <2>3. c # NONE /\ \A b \in Pipe : readpid[b] # c
    BY <2>2 DEF Pid, NONE
  <2>4. CASE readpid' = readpid
    BY <2>1, <2>2, <2>3, <2>4
  <2>5. ASSUME NEW e \in Pipe, readpid[e] = NONE,
               readpid' = [readpid EXCEPT ![e] = c], in_syscall'[c] = "read"
        PROVE  <1>6!:
    BY <2>1, <2>2, <2>3, <2>5
  <2> QED
    BY <2>4, <2>5 DEF Blocked
<1>7. TypeOK'
  <2>1. ProcTypeOK'
    BY <1>1, <1>2, <1>4 DEF TypeOK, ProcTypeOK, Blocked, Slept
  <2>2. FileTypeOK' /\ MsgTypeOK'
    BY <1>1, <1>2 DEF TypeOK, FileTypeOK, MsgTypeOK, Blocked
  <2> QED
    BY <2>1, <2>2 DEF TypeOK
<1>8. ListsConsistent'
  BY <1>1, <1>5 DEF ProcInv, ListsConsistent, Blocked, Slept
<1>9. CurrentValid' /\ KillValid'
  BY <1>2, <1>5 DEF CurrentValid, KillValid
<1>10. CallsValid'
  BY <1>1, <1>2, <1>3, <1>5 DEF ProcInv, CallsValid, Blocked
<1>11. FamilyValid' /\ MailboxValid'
  BY <1>1, <1>2, <1>5 DEF ProcInv, FamilyValid, MailboxValid
<1>12. NoLostWakeup'
  <2> SUFFICES ASSUME NEW q \in Pid, Suspended(q)'
               PROVE  (BlockedInRead(q) \/ BlockedInReceive(q)
                         \/ BlockedInWaitpid(q))'
    BY DEF NoLostWakeup
  <2>1. CASE q = c
    BY <1>2, <2>1 DEF BlockedInRead, BlockedInReceive, BlockedInWaitpid
  <2>2. CASE q # c
    <3>1. /\ Suspended(q) /\ in_syscall'[q] = in_syscall[q] /\ arg'[q] = arg[q]
          /\ waiting_on'[q] = waiting_on[q]
          /\ receive_blocked'[q] = receive_blocked[q]
      BY <1>3, <1>5, <2>2
    <3>2. CASE BlockedInRead(q)
      BY <1>2, <1>6, <3>1, <3>2 DEF BlockedInRead, Pid, NONE
    <3>3. CASE BlockedInReceive(q) \/ BlockedInWaitpid(q)
      BY <1>2, <3>1, <3>3 DEF BlockedInReceive, BlockedInWaitpid
    <3> QED
      BY <1>1, <3>1, <3>2, <3>3 DEF ProcInv, NoLostWakeup
  <2> QED
    BY <2>1, <2>2
<1>13. WakersValid'
  <2>1. \A b \in Pipe : readpid'[b] # NONE => Suspended(readpid[b])'
    <3> SUFFICES ASSUME NEW b \in Pipe, readpid'[b] # NONE
                 PROVE  Suspended(readpid[b])'
      OBVIOUS
    <3>1. readpid'[b] \in Pid /\ (readpid'[b] = c \/ Suspended(readpid'[b]))
      BY <1>6
    <3> QED
      BY <1>5, <3>1
  <2>2. \A q \in Pid : Live(q)' /\ receive_blocked'[q] => Suspended(q)'
    BY <1>1, <1>3, <1>5 DEF ProcInv, WakersValid
  <2>3. \A q \in Pid : Live(q)' /\ in_syscall'[q] = "waitpid"
                         /\ waiting_on'[q] \in Pid => Suspended(q)'
    BY <1>1, <1>3, <1>5 DEF ProcInv, WakersValid
  <2> QED
    BY <2>1, <2>2, <2>3 DEF WakersValid
<1>14. RegisteredOnce'
  <2>1. \A q \in Pid : Live(q)' /\ receive_blocked'[q] => in_syscall'[q] = "receive"
    BY <1>1, <1>3, <1>5 DEF ProcInv, RegisteredOnce, Blocked
  <2>2. \A b \in Pipe : readpid'[b] # NONE => in_syscall'[readpid'[b]] = "read"
    BY <1>3, <1>6
  <2>3. \A b, d \in Pipe : readpid'[b] # NONE /\ readpid'[b] = readpid'[d] => b = d
    <3> SUFFICES ASSUME NEW b \in Pipe, NEW d \in Pipe, readpid'[b] # NONE,
                        readpid'[b] = readpid'[d]
                 PROVE  b = d
      OBVIOUS
    <3>1. CASE readpid'[b] = c
      BY <1>6, <3>1
    <3>2. CASE readpid'[b] # c
      BY <1>1, <1>6, <3>2 DEF ProcInv, RegisteredOnce
    <3> QED
      BY <3>1, <3>2
  <2> QED
    BY <2>1, <2>2, <2>3 DEF RegisteredOnce
<1>15. WokenValid'
  <2> SUFFICES ASSUME NEW q \in Pid, Live(q)', isready'[q]
               PROVE  /\ in_syscall'[q] = "receive" => mailbox_size'[q] > 0
                      /\ in_syscall'[q] = "waitpid" =>
                           (arg[q] \in Pid /\ Zombie(arg[q]) /\ parent_pid[arg[q]] = q)'
    BY DEF WokenValid
  <2>1. /\ q # c /\ Live(q) /\ isready[q]
        /\ in_syscall'[q] = in_syscall[q] /\ arg'[q] = arg[q]
    BY <1>3, <1>5
  <2> QED
    BY <1>1, <1>2, <1>5, <2>1 DEF ProcInv, WokenValid
<1>16. HandlesValid' /\ SchedulerNeverHalts'
  BY <1>1, <1>2 DEF HandlesValid, SchedulerNeverHalts
<1> QED
  BY <1>7, <1>8, <1>9, <1>10, <1>11, <1>12, <1>13, <1>14, <1>15, <1>16 DEF IInv

(* syscall_waitpid fails, reaps a zombie, or blocks on a live child.       *)
LEMMA WaitpidInv ==
    ASSUME NEW pid \in Pid
    PROVE  IInv /\ syscall_waitpid(pid) => IInv'
<1> SUFFICES ASSUME IInv, syscall_waitpid(pid) PROVE IInv'
  OBVIOUS
<1> DEFINE c == current_process
<1>1. TypeOK /\ ProcInv
  BY DEF IInv, ProcInv
<1>2. /\ c \in Pid /\ Live(c) /\ isready[c] /\ kpc \in {"user", "restart"}
      /\ UNCHANGED <<exited, parent_pid, current_process, killVars, filedesc,
                     handleVars, reading, writing, len, readpid, mailbox,
                     mailbox_size, receive_blocked>>
  BY EnterCaller DEF syscall_waitpid, fileVars, pipeVars, msgVars
<1>3. /\ exists \in [Pid -> BOOLEAN] /\ waiting_on \in [Pid -> Pid \cup {NULL, NONE}]
      /\ len \in [Pipe -> Nat] /\ readpid \in [Pipe -> Pid \cup {NONE}]
      /\ mailbox_size \in [Pid -> 0 .. MAILBOX_ALLOC]
      /\ receive_blocked \in [Pid -> BOOLEAN]
  BY <1>1 DEF TypeOK, ProcTypeOK, FileTypeOK, MsgTypeOK
<1>4. CASE waitpid_fails(pid)
  BY <1>2, <1>3, <1>4, ReturnStep DEF waitpid_fails, Returned
<1>5. CASE waitpid_reaps(pid)
  <2>1. exists' = [exists EXCEPT ![pid] = FALSE] /\ exited[pid] /\ parent_pid[pid] = c
    BY <1>5 DEF waitpid_reaps
  <2>2. \A q \in Pid : \/ exists'[q] = exists[q]
                       \/ exited[q] /\ parent_pid[q] = c /\ ~exists'[q]
    BY <1>3, <2>1
  <2> QED
    BY <1>2, <1>3, <1>5, <2>1, <2>2, ReturnStep DEF waitpid_reaps, Returned
<1>6. CASE waitpid_blocks(pid)
  <2>1. /\ exists[pid] /\ parent_pid[pid] = c /\ ~exited[pid]
        /\ waiting_on' = [waiting_on EXCEPT ![c] = pid]
        /\ suspend_process(c) /\ call_pending("waitpid", pid, 0)
        /\ kpc' = "switch" /\ exists' = exists
    BY <1>6 DEF waitpid_blocks
  <2>2. Slept(c)
    BY <1>1, <1>2, <2>1, SuspendEffect DEF ProcInv
  <2>3. /\ in_syscall' \in [Pid -> CallName]
        /\ arg' \in [Pid -> Arguments] /\ count' \in [Pid -> Arguments]
        /\ in_syscall'[c] = "waitpid" /\ arg'[c] = pid
        /\ \A q \in Pid : q # c => in_syscall'[q] = in_syscall[q] /\ arg'[q] = arg[q]
    <3>1. "waitpid" \in CallName /\ pid \in Arguments /\ 0 \in Arguments
      BY SizesAssumption DEF CallName, Arguments, Pid
    <3> QED
      BY <1>1, <1>2, <2>1, <3>1, PendingEffect
  <2>4. /\ waiting_on' \in [Pid -> Pid \cup {NULL, NONE}] /\ waiting_on'[c] = pid
        /\ \A q \in Pid : q # c => waiting_on'[q] = waiting_on[q]
    BY <1>2, <1>3, <2>1
  <2>5. ~receive_blocked[c]
    BY <1>1, <1>2 DEF ProcInv, WakersValid, Suspended
  <2>6. Blocked
    BY <1>2, <1>3, <2>1, <2>2, <2>3, <2>4, <2>5 DEF Blocked
  <2>7. BlockedInWaitpid(c)'
    BY <1>2, <2>1, <2>3, <2>4 DEF BlockedInWaitpid
  <2> QED
    BY <1>2, <2>6, <2>7, BlockStep
<1> QED
  BY <1>4, <1>5, <1>6 DEF syscall_waitpid

(* syscall_read fails, takes bytes, or blocks on an empty pipe.            *)
LEMMA ReadInv ==
    ASSUME NEW fd \in Fd, NEW n \in Nat
    PROVE  IInv /\ syscall_read(fd, n) => IInv'
<1> SUFFICES ASSUME IInv, syscall_read(fd, n) PROVE IInv'
  OBVIOUS
<1> DEFINE c == current_process
           h == HandleOf(fd)
           b == fh_pipe[h]
<1>1. TypeOK /\ ProcInv
  BY DEF IInv, ProcInv
<1>2. /\ c \in Pid /\ Live(c) /\ isready[c] /\ kpc \in {"user", "restart"} /\ Open(fd)
      /\ UNCHANGED <<exists, exited, parent_pid, waiting_on, current_process, killVars,
                     filedesc, handleVars, reading, writing, mailbox,
                     mailbox_size, receive_blocked>>
  BY EnterCaller DEF syscall_read, procVars, msgVars
<1>3. /\ exists \in [Pid -> BOOLEAN] /\ waiting_on \in [Pid -> Pid \cup {NULL, NONE}]
      /\ len \in [Pipe -> Nat] /\ readpid \in [Pipe -> Pid \cup {NONE}]
      /\ mailbox_size \in [Pid -> 0 .. MAILBOX_ALLOC]
      /\ receive_blocked \in [Pid -> BOOLEAN]
  BY <1>1 DEF TypeOK, ProcTypeOK, FileTypeOK, MsgTypeOK
<1>4. fh_type[h] = "reader" => b \in Pipe
  <2>1. h \in Handle
    BY <1>1, <1>2 DEF HandleOf, Open, TypeOK, FileTypeOK
  <2> QED
    BY <2>1 DEF IInv, HandlesValid
<1> HIDE DEF b, h
<1>5. CASE read_fails(h)
  BY <1>2, <1>3, <1>5, ReturnStep DEF read_fails, Returned
<1>6. CASE read_completes(h, n)
  <2>1. /\ b \in Pipe /\ readpid[b] = NONE
        /\ len' = [len EXCEPT ![b] = IF n < @ THEN @ - n ELSE 0]
    BY <1>4, <1>6 DEF read_completes, b
  <2>2. len' \in [Pipe -> Nat] /\ \A d \in Pipe : d # b => len'[d] = len[d]
    BY <1>3, <2>1
  <2> QED
    BY <1>2, <1>3, <1>6, <2>1, <2>2, ReturnStep DEF read_completes, Returned
<1>7. CASE read_blocks(h, fd, n)
  <2>1. /\ b \in Pipe /\ readpid[b] = NONE /\ len[b] = 0 /\ writing[b]
        /\ readpid' = [readpid EXCEPT ![b] = c]
        /\ suspend_process(c) /\ call_pending("read", fd, n)
        /\ kpc' = "switch" /\ len' = len
    BY <1>4, <1>7 DEF read_blocks, b
  <2>2. Slept(c)
    BY <1>1, <1>2, <2>1, SuspendEffect DEF ProcInv
  <2>3. /\ in_syscall' \in [Pid -> CallName]
        /\ arg' \in [Pid -> Arguments] /\ count' \in [Pid -> Arguments]
        /\ in_syscall'[c] = "read"
        /\ \A q \in Pid : q # c => in_syscall'[q] = in_syscall[q] /\ arg'[q] = arg[q]
    <3>1. "read" \in CallName /\ fd \in Arguments /\ n \in Arguments
      BY SizesAssumption DEF CallName, Arguments, Fd
    <3> QED
      BY <1>1, <1>2, <2>1, <3>1, PendingEffect
  <2>4. readpid' \in [Pipe -> Pid \cup {NONE}] /\ readpid'[b] = c
    BY <1>2, <1>3, <2>1
  <2>5. ~receive_blocked[c]
    BY <1>1, <1>2 DEF ProcInv, WakersValid, Suspended
  <2>6. Blocked
    BY <1>2, <1>3, <2>1, <2>2, <2>3, <2>4, <2>5 DEF Blocked
  <2>7. BlockedInRead(c)'
    BY <1>2, <2>1, <2>3, <2>4 DEF BlockedInRead
  <2> QED
    BY <1>2, <2>6, <2>7, BlockStep
<1> QED
  BY <1>5, <1>6, <1>7 DEF syscall_read, h

(* syscall_receive takes a message or blocks on an empty mailbox.          *)
LEMMA ReceiveInv == IInv /\ syscall_receive => IInv'
<1> SUFFICES ASSUME IInv, syscall_receive PROVE IInv'
  OBVIOUS
<1> DEFINE c == current_process
<1>1. TypeOK /\ ProcInv
  BY DEF IInv, ProcInv
<1>2. /\ c \in Pid /\ Live(c) /\ isready[c] /\ kpc \in {"user", "restart"}
      /\ UNCHANGED <<exists, exited, parent_pid, waiting_on, current_process, killVars,
                     filedesc, handleVars, reading, writing, len, readpid, mailbox>>
  BY EnterCaller DEF syscall_receive, procVars, fileVars, pipeVars
<1>3. /\ exists \in [Pid -> BOOLEAN] /\ waiting_on \in [Pid -> Pid \cup {NULL, NONE}]
      /\ len \in [Pipe -> Nat] /\ readpid \in [Pipe -> Pid \cup {NONE}]
      /\ mailbox_size \in [Pid -> 0 .. MAILBOX_ALLOC]
      /\ receive_blocked \in [Pid -> BOOLEAN]
  BY <1>1 DEF TypeOK, ProcTypeOK, FileTypeOK, MsgTypeOK
<1>4. CASE receive_completes
  <2>1. /\ mailbox_size[c] > 0
        /\ mailbox_size' = [mailbox_size EXCEPT ![c] = @ - 1]
    BY <1>4 DEF receive_completes
  <2>2. /\ mailbox_size' \in [Pid -> 0 .. MAILBOX_ALLOC]
        /\ \A q \in Pid : q # c => mailbox_size'[q] = mailbox_size[q]
    BY <1>2, <1>3, <2>1, WorkloadAssumption
  <2> QED
    BY <1>2, <1>3, <1>4, <2>1, <2>2, ReturnStep DEF receive_completes, Returned
<1>5. CASE receive_blocks
  <2>1. /\ mailbox_size[c] = 0 /\ mailbox_size' = mailbox_size
        /\ receive_blocked' = [receive_blocked EXCEPT ![c] = TRUE]
        /\ suspend_process(c) /\ call_pending("receive", 0, 0)
        /\ kpc' = "switch"
    BY <1>5 DEF receive_blocks
  <2>2. Slept(c)
    BY <1>1, <1>2, <2>1, SuspendEffect DEF ProcInv
  <2>3. /\ in_syscall' \in [Pid -> CallName]
        /\ arg' \in [Pid -> Arguments] /\ count' \in [Pid -> Arguments]
        /\ in_syscall'[c] = "receive"
        /\ \A q \in Pid : q # c => in_syscall'[q] = in_syscall[q] /\ arg'[q] = arg[q]
    <3>1. "receive" \in CallName /\ 0 \in Arguments
      BY DEF CallName, Arguments
    <3> QED
      BY <1>1, <1>2, <2>1, <3>1, PendingEffect
  <2>4. /\ receive_blocked' \in [Pid -> BOOLEAN] /\ receive_blocked'[c] = TRUE
        /\ \A q \in Pid : q # c => receive_blocked'[q] = receive_blocked[q]
    BY <1>2, <1>3, <2>1
  <2>5. Blocked
    BY <1>2, <1>3, <2>1, <2>2, <2>3, <2>4 DEF Blocked
  <2>6. BlockedInReceive(c)'
    BY <1>2, <2>1, <2>3, <2>4 DEF BlockedInReceive
  <2> QED
    BY <1>2, <2>5, <2>6, BlockStep
<1> QED
  BY <1>4, <1>5 DEF syscall_receive

(* A message to a live process wakes it up if it is blocked in receive.    *)
LEMMA SendInv ==
    ASSUME SafeWorkload, NEW to \in Pid
    PROVE  IInv /\ syscall_send(to) => IInv'
<1> SUFFICES ASSUME IInv, syscall_send(to) PROVE IInv'
  OBVIOUS
<1>1. TypeOK /\ ProcInv /\ HandlesValid /\ SchedulerNeverHalts
  BY DEF IInv, ProcInv
<1>2. /\ kpc = "user" /\ panic = "none" /\ exists[to] /\ ~exited[to]
      /\ UNCHANGED <<procVars, callVars, current_process, kpc, killVars, fileVars>>
      /\ MailboxHasRoom(to)
      /\ mailbox' = [mailbox EXCEPT ![to] = IF @ = "null" THEN "live" ELSE @]
      /\ mailbox_size' = [mailbox_size EXCEPT ![to] =
                            IF mailbox[to] = "null" THEN 1 ELSE @ + 1]
  BY DEF syscall_send, call_made, UserMode, Condition, SafeWorkload
<1>3. Live(to) /\ mailbox[to] # "freed" /\ notify_receiver(to)
  <2>1. Live(to)
    BY <1>2 DEF Live
  <2>2. mailbox[to] # "freed"
    BY <1>1, <2>1 DEF ProcInv, MailboxValid
  <2> QED
    BY <2>1, <2>2 DEF syscall_send
<1>4. /\ mailbox' \in [Pid -> {"null", "live", "freed"}]
      /\ mailbox_size' \in [Pid -> 0 .. MAILBOX_ALLOC] /\ mailbox_size'[to] > 0
      /\ \A q \in Pid : q # to => mailbox_size'[q] = mailbox_size[q]
      /\ \A q \in Pid : mailbox[q] # "freed" => mailbox'[q] # "freed"
  BY <1>1, <1>2, WorkloadAssumption DEF TypeOK, MsgTypeOK, MailboxHasRoom
<1> DEFINE W(q) == receive_blocked[to] /\ q = to
<1>5. /\ isready' \in [Pid -> BOOLEAN] /\ receive_blocked' \in [Pid -> BOOLEAN]
      /\ ready' \in Seq(Pid) /\ suspended' \in Seq(Pid)
      /\ NoDuplicates(ready') /\ NoDuplicates(suspended')
      /\ \A q \in Pid : /\ isready'[q] <=> isready[q] \/ W(q)
                        /\ q \in Ran(ready') <=> q \in Ran(ready) \/ W(q)
                        /\ q \in Ran(suspended') <=> q \in Ran(suspended) /\ ~W(q)
                        /\ receive_blocked'[q] <=> receive_blocked[q] /\ q # to
                        /\ W(q) => Suspended(q) /\ in_syscall[q] = "receive"
      /\ panic' = "none"
  <2>1. /\ isready \in [Pid -> BOOLEAN] /\ receive_blocked \in [Pid -> BOOLEAN]
        /\ ready \in Seq(Pid) /\ suspended \in Seq(Pid)
        /\ NoDuplicates(ready) /\ NoDuplicates(suspended)
    BY <1>1 DEF TypeOK, ProcTypeOK, MsgTypeOK, ProcInv, ListsConsistent
  <2>2. CASE receive_blocked[to]
    <3>1. Suspended(to) /\ in_syscall[to] = "receive"
      BY <1>1, <1>3, <2>2 DEF ProcInv, WakersValid, RegisteredOnce
    <3>2. /\ resume_process(to)
          /\ receive_blocked' = [receive_blocked EXCEPT ![to] = FALSE]
      BY <1>3, <2>2 DEF notify_receiver
    <3>3. Woke(to)
      BY <1>1, <3>1, <3>2, ResumeEffect DEF ProcInv
    <3> QED
      BY <1>2, <2>1, <2>2, <3>1, <3>2, <3>3 DEF Woke
  <2>3. CASE ~receive_blocked[to]
    <3>1. UNCHANGED <<listVars, panic, receive_blocked>>
      BY <1>3, <2>3 DEF notify_receiver
    <3> QED
      BY <1>2, <2>1, <2>3, <3>1 DEF listVars
  <2> QED
    BY <2>2, <2>3
<1>6. \A q \in Pid : W(q) => q = to /\ receive_blocked[to]
  OBVIOUS
<1> HIDE DEF W
<1>7. \A q \in Pid : /\ Live(q)' <=> Live(q)
                     /\ Suspended(q)' <=> Suspended(q) /\ ~W(q)
                     /\ Zombie(q)' <=> Zombie(q)
  <2>1. \A q \in Pid : (Live(q)' <=> Live(q)) /\ (Zombie(q)' <=> Zombie(q))
    BY <1>2 DEF Live, Zombie, procVars, killVars
  <2> QED
    BY <1>5, <2>1 DEF Suspended
<1>8. TypeOK'
  <2>1. ProcTypeOK'
    BY <1>1, <1>2, <1>5 DEF TypeOK, ProcTypeOK, procVars, callVars, killVars, Panics
  <2>2. FileTypeOK' /\ MsgTypeOK'
    BY <1>1, <1>2, <1>4, <1>5
    DEF TypeOK, FileTypeOK, MsgTypeOK, fileVars, handleVars, pipeVars
  <2> QED
    BY <2>1, <2>2 DEF TypeOK
<1>9. ListsConsistent'
  BY <1>1, <1>5, <1>7 DEF ProcInv, ListsConsistent, Suspended
<1>10. CurrentValid' /\ KillValid'
  BY <1>1, <1>2, <1>5, <1>7 DEF ProcInv, CurrentValid, KillValid, callVars, TypeOK,
    ProcTypeOK
<1>11. CallsValid' /\ FamilyValid' /\ MailboxValid'
  BY <1>1, <1>2, <1>4, <1>7 DEF ProcInv, CallsValid, FamilyValid, MailboxValid,
    callVars, procVars
<1>12. NoLostWakeup'
  <2> SUFFICES ASSUME NEW q \in Pid, Suspended(q)'
               PROVE  (BlockedInRead(q) \/ BlockedInReceive(q)
                         \/ BlockedInWaitpid(q))'
    BY DEF NoLostWakeup
  <2>1. Suspended(q) /\ ~W(q)
    BY <1>7
  <2>2. CASE BlockedInRead(q) \/ BlockedInWaitpid(q)
    BY <1>2, <2>2 DEF BlockedInRead, BlockedInWaitpid, procVars, callVars, fileVars,
      pipeVars
  <2>3. CASE BlockedInReceive(q)
    <3>1. q # to
      BY <2>1, <2>3 DEF BlockedInReceive, W
    <3> QED
      BY <1>2, <1>4, <1>5, <2>3, <3>1 DEF BlockedInReceive, callVars
  <2> QED
    BY <1>1, <2>1, <2>2, <2>3 DEF ProcInv, NoLostWakeup
<1>13. /\ readpid' = readpid /\ in_syscall' = in_syscall /\ waiting_on' = waiting_on
       /\ \A b \in Pipe : readpid[b] # NONE =>
            /\ readpid[b] \in Pid /\ ~W(readpid[b])
            /\ Suspended(readpid[b]) /\ in_syscall[readpid[b]] = "read"
  <2>1. \A b \in Pipe : readpid[b] \in Pid \cup {NONE}
    BY <1>1 DEF TypeOK, FileTypeOK
  <2>2. \A q \in Pid : W(q) => in_syscall[q] = "receive"
    BY <1>5
  <2> QED
    BY <1>1, <1>2, <2>1, <2>2
    DEF ProcInv, WakersValid, RegisteredOnce, fileVars, pipeVars, callVars, procVars
<1>14. WakersValid'
  <2>1. \A b \in Pipe : readpid'[b] # NONE => Suspended(readpid[b])'
    BY <1>7, <1>13
  <2>2. \A q \in Pid : Live(q)' /\ receive_blocked'[q] => Suspended(q)'
    BY <1>1, <1>5, <1>6, <1>7 DEF ProcInv, WakersValid
  <2>3. \A q \in Pid : Live(q)' /\ in_syscall'[q] = "waitpid"
                         /\ waiting_on'[q] \in Pid => Suspended(q)'
    BY <1>1, <1>5, <1>7, <1>13 DEF ProcInv, WakersValid
  <2> QED
    BY <2>1, <2>2, <2>3 DEF WakersValid
<1>15. RegisteredOnce'
  BY <1>1, <1>5, <1>7, <1>13 DEF ProcInv, RegisteredOnce
<1>16. WokenValid'
  <2> SUFFICES ASSUME NEW q \in Pid, Live(q)', isready'[q]
               PROVE  /\ in_syscall'[q] = "receive" => mailbox_size'[q] > 0
                      /\ in_syscall'[q] = "waitpid" =>
                           (arg[q] \in Pid /\ Zombie(arg[q]) /\ parent_pid[arg[q]] = q)'
    BY DEF WokenValid
  <2>1. in_syscall'[q] = "waitpid" =>
           (arg[q] \in Pid /\ Zombie(arg[q]) /\ parent_pid[arg[q]] = q)'
    BY <1>1, <1>2, <1>5, <1>7 DEF ProcInv, WokenValid, procVars, callVars
  <2>2. in_syscall'[q] = "receive" => mailbox_size'[q] > 0
    BY <1>1, <1>4, <1>5, <1>6, <1>7, <1>13 DEF ProcInv, WokenValid
  <2> QED
    BY <2>1, <2>2
<1>17. HandlesValid' /\ SchedulerNeverHalts'
  BY <1>1, <1>2, <1>5 DEF HandlesValid, SchedulerNeverHalts, fileVars, handleVars
<1> QED
  BY <1>8, <1>9, <1>10, <1>11, <1>12, <1>14, <1>15, <1>16, <1>17 DEF IInv

(***************************************************************************)
(* Calls that take something free.                                         *)
(***************************************************************************)
(* Least picks an element of a nonempty set of numbers.                    *)
LEMMA LeastIn ==
    ASSUME NEW S \in SUBSET Nat, S # {}
    PROVE  Least(S) \in S
<1>1. PICK x \in S : \A y \in S : ~(<<y, x>> \in OpToRel(<, Nat))
  BY NatLessThanWellFounded, WFMin
<1>2. \A y \in S : ~(y < x)
  BY <1>1 DEF OpToRel
<1>3. \A y \in S : x <= y
  BY <1>2
<1> QED
  BY <1>3 DEF Least

(* get_free_pid returns a slot that is not in use.                         *)
LEMMA FreePid ==
    ASSUME FreePids # {}
    PROVE  get_free_pid \in Pid /\ ~exists[get_free_pid]
<1>1. FreePids \in SUBSET Nat /\ get_free_pid = Least(FreePids)
  BY SizesAssumption DEF FreePids, Pid, get_free_pid, Least
<1>2. get_free_pid \in FreePids
  BY <1>1, LeastIn
<1> QED
  BY <1>2 DEF FreePids

(* syscall_fork puts a new process into a slot nobody refers to.           *)
LEMMA ForkInv == IInv /\ syscall_fork => IInv'
<1> SUFFICES ASSUME IInv, syscall_fork PROVE IInv'
  OBVIOUS
<1> DEFINE c == current_process
           k == get_free_pid
<1>1. TypeOK /\ ProcInv /\ HandlesValid /\ SchedulerNeverHalts
  BY DEF IInv, ProcInv
<1>2. /\ c \in Pid /\ Live(c) /\ isready[c] /\ kpc = "user" /\ exists[c] /\ ~exited[c]
  BY Caller DEF syscall_fork, call_made, UserMode, Live
<1>3. k \in Pid /\ ~exists[k] /\ k # c /\ ~Live(k)
  BY <1>2, FreePid DEF syscall_fork, Live
<1>4. /\ exists' = [exists EXCEPT ![k] = TRUE]
      /\ exited' = [exited EXCEPT ![k] = FALSE]
      /\ parent_pid' = [parent_pid EXCEPT ![k] = c]
      /\ waiting_on' = [waiting_on EXCEPT ![k] = NULL]
      /\ in_syscall' = [in_syscall EXCEPT ![k] = "none"]
      /\ arg' = [arg EXCEPT ![k] = 0] /\ count' = [count EXCEPT ![k] = 0]
      /\ filedesc' = [filedesc EXCEPT ![k] = filedesc[c]]
      /\ refcount' = [h \in Handle |-> refcount[h] + Cardinality(References(c, h))]
      /\ mailbox' = [mailbox EXCEPT ![k] = "null"]
      /\ mailbox_size' = [mailbox_size EXCEPT ![k] = 0]
      /\ receive_blocked' = [receive_blocked EXCEPT ![k] = FALSE]
      /\ isready' = [isready EXCEPT ![k] = TRUE]
      /\ ready' = list_add(ready, k)
      /\ UNCHANGED <<suspended, current_process, kpc, victim, kfd, panic,
                     fh_type, fh_pipe, reading, writing, len, readpid>>
  BY DEF syscall_fork, killVars, pipeVars
<1> HIDE DEF k
<1>5. /\ ready' \in Seq(Pid) /\ Ran(ready') = Ran(ready) \cup {k}
      /\ NoDuplicates(ready')
  <2>1. ready \in Seq(Pid) /\ NoDuplicates(ready) /\ k \notin Ran(ready)
    BY <1>1, <1>3 DEF TypeOK, ProcTypeOK, ProcInv, ListsConsistent
  <2> QED
    BY <1>3, <1>4, <2>1, ListAdd
<1>6. ProcTypeOK'
  <2>1. ProcTypeOK /\ "none" \in CallName /\ 0 \in Arguments
    BY <1>1 DEF TypeOK, CallName, Arguments
  <2> QED
    BY <1>2, <1>3, <1>4, <1>5, <2>1 DEF ProcTypeOK
<1>7. FileTypeOK'
  <2>1. FileTypeOK
    BY <1>1 DEF TypeOK
  <2>2. \A h \in Handle : Cardinality(References(c, h)) \in Nat
    <3> SUFFICES ASSUME NEW h \in Handle
                 PROVE  Cardinality(References(c, h)) \in Nat
      OBVIOUS
    <3>1. IsFiniteSet(Fd)
      BY SizesAssumption, FS_Interval DEF Fd
    <3>2. References(c, h) \in SUBSET Fd
      BY DEF References
    <3> QED
      BY <3>1, <3>2, FS_Subset, FS_CardinalityType
  <2>3. refcount' \in [Handle -> Nat]
    BY <1>4, <2>1, <2>2 DEF FileTypeOK
  <2>4. filedesc' \in [Pid -> [Fd -> Handle \cup {NULL}]]
    BY <1>2, <1>3, <1>4, <2>1 DEF FileTypeOK
  <2> QED
    BY <1>4, <2>1, <2>3, <2>4 DEF FileTypeOK
<1>8. MsgTypeOK'
  BY <1>1, <1>3, <1>4, WorkloadAssumption DEF TypeOK, MsgTypeOK
<1>9. /\ exists'[k] /\ ~exited'[k] /\ isready'[k] /\ parent_pid'[k] = c
      /\ in_syscall'[k] = "none" /\ mailbox'[k] = "null" /\ ~receive_blocked'[k]
      /\ \A q \in Pid : q # k =>
           /\ exists'[q] = exists[q] /\ exited'[q] = exited[q]
           /\ isready'[q] = isready[q] /\ parent_pid'[q] = parent_pid[q]
           /\ waiting_on'[q] = waiting_on[q] /\ in_syscall'[q] = in_syscall[q]
           /\ arg'[q] = arg[q] /\ mailbox'[q] = mailbox[q]
           /\ mailbox_size'[q] = mailbox_size[q]
           /\ receive_blocked'[q] = receive_blocked[q]
  BY <1>1, <1>3, <1>4 DEF TypeOK, ProcTypeOK, MsgTypeOK
<1>10. \A q \in Pid : /\ Live(q)' <=> Live(q) \/ q = k
                      /\ Suspended(q)' <=> Suspended(q)
                      /\ exists[q] => q # k
                      /\ Zombie(q) => q # k /\ Zombie(q)'
  <2>1. kpc' # "kill" /\ kpc # "kill"
    BY <1>2, <1>4
  <2>2. \A q \in Pid : Live(q)' <=> Live(q) \/ q = k
    BY <1>3, <1>9, <2>1 DEF Live
  <2> QED
    BY <1>3, <1>9, <2>2 DEF Suspended, Zombie
<1>11. ListsConsistent'
  BY <1>1, <1>3, <1>4, <1>5, <1>9, <1>10 DEF ProcInv, ListsConsistent
<1>12. CurrentValid' /\ KillValid'
  BY <1>1, <1>2, <1>3, <1>4, <1>9, <1>10 DEF ProcInv, CurrentValid, KillValid
<1>13. CallsValid' /\ MailboxValid'
  BY <1>1, <1>4, <1>9, <1>10 DEF ProcInv, CallsValid, MailboxValid
<1>14. FamilyValid'
  BY <1>1, <1>2, <1>3, <1>9, <1>10 DEF ProcInv, FamilyValid
<1>15. NoLostWakeup'
  <2> SUFFICES ASSUME NEW q \in Pid, Suspended(q)'
               PROVE  (BlockedInRead(q) \/ BlockedInReceive(q)
                         \/ BlockedInWaitpid(q))'
    BY DEF NoLostWakeup
  <2>1. Suspended(q) /\ q # k
    BY <1>3, <1>10 DEF Suspended
  <2>2. CASE BlockedInRead(q) \/ BlockedInReceive(q)
    BY <1>4, <1>9, <2>1, <2>2 DEF BlockedInRead, BlockedInReceive
  <2>3. CASE BlockedInWaitpid(q)
    BY <1>9, <1>10, <2>1, <2>3 DEF BlockedInWaitpid
  <2> QED
    BY <1>1, <2>1, <2>2, <2>3 DEF ProcInv, NoLostWakeup
<1>16. /\ readpid' = readpid
       /\ \A b \in Pipe : readpid[b] # NONE =>
            /\ readpid[b] \in Pid /\ readpid[b] # k
            /\ Suspended(readpid[b]) /\ in_syscall[readpid[b]] = "read"
  <2>1. \A b \in Pipe : readpid[b] \in Pid \cup {NONE}
    BY <1>1 DEF TypeOK, FileTypeOK
  <2> QED
    BY <1>1, <1>3, <1>4, <2>1 DEF ProcInv, WakersValid, RegisteredOnce, Suspended
<1>17. WakersValid'
  <2>1. \A b \in Pipe : readpid'[b] # NONE => Suspended(readpid[b])'
    BY <1>10, <1>16
  <2>2. \A q \in Pid : Live(q)' /\ receive_blocked'[q] => Suspended(q)'
    BY <1>1, <1>9, <1>10 DEF ProcInv, WakersValid
  <2>3. \A q \in Pid : Live(q)' /\ in_syscall'[q] = "waitpid"
                         /\ waiting_on'[q] \in Pid => Suspended(q)'
    BY <1>1, <1>9, <1>10 DEF ProcInv, WakersValid
  <2> QED
    BY <2>1, <2>2, <2>3 DEF WakersValid
<1>18. RegisteredOnce'
  <2>1. \A q \in Pid : Live(q)' /\ receive_blocked'[q] => in_syscall'[q] = "receive"
    BY <1>1, <1>9, <1>10 DEF ProcInv, RegisteredOnce
  <2>2. \A b \in Pipe : readpid'[b] # NONE => in_syscall'[readpid'[b]] = "read"
    BY <1>9, <1>16
  <2> QED
    BY <1>1, <1>16, <2>1, <2>2 DEF ProcInv, RegisteredOnce
<1>19. WokenValid'
  <2> SUFFICES ASSUME NEW q \in Pid, Live(q)', isready'[q],
                      in_syscall'[q] \in {"receive", "waitpid"}
               PROVE  /\ in_syscall'[q] = "receive" => mailbox_size'[q] > 0
                      /\ in_syscall'[q] = "waitpid" =>
                           (arg[q] \in Pid /\ Zombie(arg[q]) /\ parent_pid[arg[q]] = q)'
    BY DEF WokenValid, Zombie
  <2>1. q # k /\ Live(q) /\ isready[q] /\ in_syscall'[q] = in_syscall[q]
        /\ arg'[q] = arg[q]
    BY <1>9, <1>10
  <2> QED
    BY <1>1, <1>9, <1>10, <2>1 DEF ProcInv, WokenValid
<1>20. HandlesValid' /\ SchedulerNeverHalts'
  BY <1>1, <1>4 DEF HandlesValid, SchedulerNeverHalts
<1> QED
  BY <1>6, <1>7, <1>8, <1>11, <1>12, <1>13, <1>14, <1>15, <1>17, <1>18, <1>19, <1>20
  DEF IInv, TypeOK

(* A free pipe has no registered reader.                                   *)
LEMMA FreePipeIdle ==
    ASSUME IInv, NEW b \in FreePipes
    PROVE  b \in Pipe /\ readpid[b] = NONE /\ ~writing[b]
<1>1. b \in Pipe /\ ~writing[b]
  BY DEF FreePipes
<1>2. ASSUME readpid[b] # NONE PROVE FALSE
  <2>1. readpid[b] \in Pid /\ Suspended(readpid[b]) /\ in_syscall[readpid[b]] = "read"
    BY <1>1, <1>2 DEF IInv, TypeOK, FileTypeOK, WakersValid, RegisteredOnce
  <2>2. \E d \in Pipe : readpid[d] = readpid[b] /\ writing[d]
    BY <2>1 DEF IInv, NoLostWakeup, BlockedInRead, BlockedInReceive, BlockedInWaitpid
  <2> QED
    BY <1>1, <1>2, <2>2 DEF IInv, RegisteredOnce
<1> QED
  BY <1>1, <1>2

(* A finite set of at least two numbers has a least and a second one.      *)
LEMMA TwoLeast ==
    ASSUME NEW S \in SUBSET Nat, IsFiniteSet(S), Cardinality(S) >= 2
    PROVE  /\ Least(S) \in S /\ Least(S \ {Least(S)}) \in S
           /\ Least(S \ {Least(S)}) # Least(S)
<1>1. S # {}
  BY FS_EmptySet
<1>2. Least(S) \in S
  BY <1>1, LeastIn
<1> DEFINE T == S \ {Least(S)}
<1>3. IsFiniteSet(T) /\ Cardinality(T) = Cardinality(S) - 1
  BY <1>2, FS_RemoveElement
<1>4. Cardinality(S) \in Nat
  BY FS_CardinalityType
<1>5. T \in SUBSET Nat /\ T \in SUBSET S
  OBVIOUS
<1> HIDE DEF T
<1>6. Cardinality(T) # 0
  BY <1>3, <1>4
<1>7. T # {}
  BY <1>6, FS_EmptySet
<1>8. Least(T) \in T
  BY <1>5, <1>7, LeastIn
<1> QED
  BY <1>2, <1>5, <1>8 DEF T

(* syscall_pipe opens a pipe nobody reads from yet.                        *)
LEMMA PipeInv == IInv /\ syscall_pipe => IInv'
<1> SUFFICES ASSUME IInv, syscall_pipe PROVE IInv'
  OBVIOUS
<1> DEFINE c == current_process
           free    == {fd \in Fd : ~Open(fd)}
           readfd  == Least(free)
           writefd == Least(free \ {readfd})
           b  == Least(FreePipes)
           rh == Least(FreeHandles)
           wh == Least(FreeHandles \ {rh})
<1>1. /\ FileTypeOK /\ HandlesValid /\ kfd \in 0 .. MAX_FDS
      /\ panic \in Panics /\ SchedulerNeverHalts
  BY DEF IInv, TypeOK, ProcTypeOK
<1>2. /\ Cardinality(free) >= 2 /\ FreePipes # {} /\ Cardinality(FreeHandles) >= 2
      /\ reading' = [reading EXCEPT ![b] = TRUE]
      /\ writing' = [writing EXCEPT ![b] = TRUE]
      /\ len' = [len EXCEPT ![b] = 0]
      /\ readpid' = [readpid EXCEPT ![b] = NONE]
      /\ fh_type' = [fh_type EXCEPT ![rh] = "reader", ![wh] = "writer"]
      /\ fh_pipe' = [fh_pipe EXCEPT ![rh] = b, ![wh] = b]
      /\ refcount' = [refcount EXCEPT ![rh] = 1, ![wh] = 1]
      /\ filedesc' = [filedesc EXCEPT ![c][readfd] = rh, ![c][writefd] = wh]
      /\ UNCHANGED <<procVars, callVars, msgVars, listVars, current_process, kpc,
                     victim, kfd, panic>>
  BY DEF syscall_pipe, new_pipe, killVars
<1>3. c \in Pid
  BY Caller DEF syscall_pipe, new_pipe, call_made
<1>4. readfd \in Fd /\ writefd \in Fd
  <2>1. free \in SUBSET Nat /\ IsFiniteSet(free)
    <3>1. IsFiniteSet(Fd) /\ Fd \in SUBSET Nat
      BY SizesAssumption, FS_Interval DEF Fd
    <3>2. free \in SUBSET Fd
      OBVIOUS
    <3> QED
      BY <3>1, <3>2, FS_Subset
  <2>2. readfd \in free /\ writefd \in free
    <3> HIDE DEF free
    <3> QED
      BY <1>2, <2>1, TwoLeast
  <2> QED
    BY <2>2
<1>5. rh \in Handle /\ wh \in Handle
  <2>1. FreeHandles \in SUBSET Nat /\ IsFiniteSet(FreeHandles)
    <3>1. IsFiniteSet(Handle) /\ Handle \in SUBSET Nat
      BY HeapAssumption, FS_Interval DEF Handle
    <3>2. FreeHandles \in SUBSET Handle
      BY DEF FreeHandles
    <3> QED
      BY <3>1, <3>2, FS_Subset
  <2>2. rh \in FreeHandles /\ wh \in FreeHandles
    BY <1>2, <2>1, TwoLeast
  <2> QED
    BY <2>2 DEF FreeHandles
<1>6. b \in Pipe /\ readpid[b] = NONE /\ ~writing[b]
  <2>1. FreePipes \in SUBSET Nat
    BY HeapAssumption DEF FreePipes, Pipe
  <2>2. b \in FreePipes
    BY <1>2, <2>1, LeastIn
  <2> QED
    BY <2>2, FreePipeIdle
<1> HIDE DEF free, readfd, writefd, b, rh, wh
<1>7. PipeEffect
  <2>1. /\ reading' \in [Pipe -> BOOLEAN] /\ writing' \in [Pipe -> BOOLEAN]
        /\ len' \in [Pipe -> Nat]
    BY <1>1, <1>2, <1>6 DEF FileTypeOK
  <2>2. readpid' = readpid
    BY <1>1, <1>2, <1>6 DEF FileTypeOK
  <2>3. PipesKept(NULL)
    BY <1>1, <1>2, <1>6 DEF PipesKept, FileTypeOK
  <2> QED
    BY <1>1, <1>2, <2>1, <2>2, <2>3 DEF PipeEffect, FileTypeOK, SchedulerNeverHalts
<1>8. /\ fh_type' \in [Handle -> {"free", "screen", "reader", "writer"}]
      /\ fh_pipe' \in [Handle -> Pipe \cup {NULL}]
      /\ refcount' \in [Handle -> Nat]
  BY <1>1, <1>2, <1>5, <1>6 DEF FileTypeOK
<1>9. HandlesValid'
  <2> SUFFICES ASSUME NEW h \in Handle, fh_type'[h] \in {"reader", "writer"}
               PROVE  fh_pipe'[h] \in Pipe
    BY DEF HandlesValid
  <2>1. CASE h \in {rh, wh}
    BY <1>1, <1>2, <1>5, <1>6, <2>1 DEF FileTypeOK
  <2>2. CASE h \notin {rh, wh}
    BY <1>1, <1>2, <1>5, <2>2 DEF FileTypeOK, HandlesValid
  <2> QED
    BY <2>1, <2>2
<1>10. filedesc' \in [Pid -> [Fd -> Handle \cup {NULL}]]
  BY <1>1, <1>2, <1>3, <1>4, <1>5 DEF FileTypeOK
<1>11. /\ UNCHANGED <<procVars, callVars, msgVars, current_process, victim>>
       /\ kpc' = kpc /\ kfd' \in 0 .. MAX_FDS
  BY <1>1, <1>2
<1> QED
  BY <1>7, <1>8, <1>9, <1>10, <1>11, PipeStep

(***************************************************************************)
(* The invariant holds initially and in every step.                        *)
(***************************************************************************)
(* The first process alone satisfies the invariant.                        *)
LEMMA InitInv == Init => IInv
<1> SUFFICES ASSUME Init PROVE IInv
  OBVIOUS
<1> USE DEF Init, start_process
<1>1. /\ 1 \in Pid /\ NULL \notin Pid /\ NONE \notin Pid /\ 0 \in 0 .. MAX_FDS
      /\ \A fd \in Fd : fd <= 2 => fd + 1 \in Handle
      /\ InputPipe \in Pipe /\ 0 \in 0 .. MAILBOX_ALLOC
  BY SizesAssumption, HeapAssumption, WorkloadAssumption
  DEF Pid, NULL, NONE, Fd, Handle, Pipe, InputPipe
<1>2. ProcTypeOK
  BY <1>1 DEF ProcTypeOK, CallName, Arguments, Panics
<1>3. FileTypeOK
  BY <1>1 DEF FileTypeOK
<1>4. MsgTypeOK
  BY <1>1 DEF MsgTypeOK
<1>5. ListsConsistent
  <2>1. Ran(ready) = {1} /\ Ran(suspended) = {}
    BY DEF Ran
  <2>2. NoDuplicates(ready) /\ NoDuplicates(suspended)
    BY DEF NoDuplicates
  <2> QED
    BY <2>1, <2>2 DEF ListsConsistent, Live
<1>6. CurrentValid /\ KillValid /\ CallsValid /\ FamilyValid
  BY DEF CurrentValid, KillValid, CallsValid, FamilyValid
<1>7. NoLostWakeup /\ WakersValid /\ RegisteredOnce /\ WokenValid
  BY DEF NoLostWakeup, WakersValid, RegisteredOnce, WokenValid, Suspended, Live
<1>8. HandlesValid /\ MailboxValid /\ SchedulerNeverHalts
  BY <1>1 DEF HandlesValid, MailboxValid, SchedulerNeverHalts
<1> QED
  BY <1>2, <1>3, <1>4, <1>5, <1>6, <1>7, <1>8 DEF IInv, TypeOK

(* Nothing in the invariant depends on anything but the variables.         *)
LEMMA StutterInv == IInv /\ UNCHANGED vars => IInv'
<1> SUFFICES ASSUME IInv, UNCHANGED vars PROVE IInv'
  OBVIOUS
<1> USE DEF vars, procVars, callVars, listVars, killVars, fileVars, handleVars,
            pipeVars, msgVars
<1>1. TypeOK'
  BY DEF IInv, TypeOK, ProcTypeOK, FileTypeOK, MsgTypeOK
<1>2. ListsConsistent' /\ CurrentValid' /\ KillValid' /\ CallsValid' /\ FamilyValid'
  BY DEF IInv, ListsConsistent, CurrentValid, KillValid, CallsValid, FamilyValid, Live
<1>3. NoLostWakeup' /\ WakersValid' /\ RegisteredOnce' /\ WokenValid'
  BY DEF IInv, NoLostWakeup, WakersValid, RegisteredOnce, WokenValid, Suspended,
    Live, Zombie, BlockedInRead, BlockedInReceive, BlockedInWaitpid
<1>4. HandlesValid' /\ MailboxValid' /\ SchedulerNeverHalts'
  BY DEF IInv, HandlesValid, MailboxValid, SchedulerNeverHalts, Live
<1> QED
  BY <1>1, <1>2, <1>3, <1>4 DEF IInv

(* Every handler and every kernel step preserves the invariant.            *)
LEMMA NextInv ==
    ASSUME SafeWorkload
    PROVE  IInv /\ [Next]_vars => IInv'
<1> SUFFICES ASSUME IInv, [Next]_vars PROVE IInv'
  OBVIOUS
<1>1. CASE timer_handler \/ keyboard_handler \/ page_fault
  BY <1>1, TimerInv, KeyboardInv, PageFaultInv
<1>2. CASE SystemCall
  <2>1. CASE syscall_fork \/ syscall_exit \/ syscall_pipe \/ syscall_receive
    BY <2>1, ForkInv, ExitInv, PipeInv, ReceiveInv
  <2>2. ASSUME NEW pid \in Pid,
               syscall_kill(pid) \/ syscall_waitpid(pid) \/ syscall_send(pid)
        PROVE  IInv'
    BY <2>2, KillInv, WaitpidInv, SendInv
  <2>3. ASSUME NEW fd \in Fd, syscall_close(fd) PROVE IInv'
    BY <2>3, CloseInv
  <2>4. ASSUME NEW fd \in Fd, NEW n \in 0 .. MaxCount,
               syscall_read(fd, n) \/ syscall_write(fd, n)
        PROVE  IInv'
    <3>1. n \in Nat
      BY WorkloadAssumption
    <3> QED
      BY <2>4, <3>1, ReadInv, WriteInv
  <2>5. ASSUME NEW fd \in Fd, NEW newfd \in DupTargets, syscall_dup2(fd, newfd)
        PROVE  IInv'
    <3>1. newfd \in Fd
      BY WorkloadAssumption
    <3> QED
      BY <2>5, <3>1, Dup2Inv
  <2> QED
    BY <1>2, <2>1, <2>2, <2>3, <2>4, <2>5 DEF SystemCall
<1>3. CASE KillClose \/ kill_process_end \/ Switch
  BY <1>3, KillCloseInv, KillEndInv, SwitchInv
<1>4. CASE UNCHANGED vars
  BY <1>4, StutterInv
<1> QED
  BY <1>1, <1>2, <1>3, <1>4 DEF Next

(* Under a safe workload the inductive invariant always holds.             *)
THEOREM Invariance == SafeWorkload => (Spec => []IInv)
<1> SUFFICES ASSUME SafeWorkload PROVE Spec => []IInv
  OBVIOUS
<1>1. Init => IInv
  BY InitInv
<1>2. IInv /\ [Next]_vars => IInv'
  BY NextInv
<1> QED
  BY <1>1, <1>2, PTL DEF Spec

(* Every variable keeps its type, and no mailbox overflows.                *)
THEOREM TypeCorrect == SafeWorkload => (Spec => []TypeOK)
<1>1. IInv => TypeOK
  BY DEF IInv
<1> QED
  BY <1>1, Invariance, PTL

(* Each live process is in exactly the scheduler list its ready field      *)
(* names, and no dead process is in either.                                *)
THEOREM SchedulerLists == SafeWorkload => (Spec => []ListsConsistent)
<1>1. IInv => ListsConsistent
  BY DEF IInv
<1> QED
  BY <1>1, Invariance, PTL

(* current_process is never dead, and never blocked while user code runs.  *)
THEOREM CurrentProcess == SafeWorkload => (Spec => []CurrentValid)
<1>1. IInv => CurrentValid
  BY DEF IInv
<1> QED
  BY <1>1, Invariance, PTL

(* A suspended process is always registered with whoever must wake it up.  *)
THEOREM WakeupsKept == SafeWorkload => (Spec => []NoLostWakeup)
<1>1. IInv => NoLostWakeup
  BY DEF IInv
<1> QED
  BY <1>1, Invariance, PTL

(* Whoever is registered to be woken up is alive and suspended.            *)
THEOREM WakersSafe == SafeWorkload => (Spec => []WakersValid)
<1>1. IInv => WakersValid
  BY DEF IInv
<1> QED
  BY <1>1, Invariance, PTL

(* The parent of a process is never dead.                                  *)
THEOREM ParentsLive == SafeWorkload => (Spec => []ParentAlive)
<1>1. IInv => ParentAlive
  BY DEF IInv, FamilyValid, ParentAlive, Pid, NONE
<1> QED
  BY <1>1, Invariance, PTL

(* A repeated receive finds its message, a repeated waitpid its zombie.    *)
THEOREM RestartsComplete == SafeWorkload => (Spec => []RestartCompletes)
<1>1. ASSUME IInv PROVE RestartCompletes
  <2> SUFFICES ASSUME kpc = "restart"
               PROVE  LET p == current_process IN
                      /\ in_syscall[p] = "receive" => mailbox_size[p] > 0
                      /\ in_syscall[p] = "waitpid" =>
                           arg[p] \in Pid /\ Zombie(arg[p]) /\ parent_pid[arg[p]] = p
    BY DEF RestartCompletes
  <2>1. /\ current_process \in Pid /\ Live(current_process)
        /\ isready[current_process]
    BY <1>1 DEF IInv, TypeOK, ProcTypeOK, CurrentValid
  <2> QED
    BY <1>1, <2>1 DEF IInv, WokenValid
<1> QED
  BY <1>1, Invariance, PTL

(* The assertions of suspend_process and resume_process never fail, no     *)
(* dead process is run, and nothing of a dead process is freed again.      *)
THEOREM SchedulerSafe == SafeWorkload => (Spec => []SchedulerNeverHalts)
<1>1. IInv => SchedulerNeverHalts
  BY DEF IInv
<1> QED
  BY <1>1, Invariance, PTL

(***************************************************************************)
(* Dead children.                                                          *)
(***************************************************************************)
(* What a step may do to a zombie child.                                   *)
ZombieStep ==
    \A p \in Pid :
       Zombie(p) /\ parent_pid[p] \in Pid =>
          \/ exists'[p] /\ exited'[p] /\ parent_pid'[p] = parent_pid[p]
          \/ ~exists'[p] /\ current_process = parent_pid[p]
          \/ exited'[parent_pid[p]]

(* A step that leaves the process table alone keeps the zombies.           *)
LEMMA ZombieUnchanged ==
    ASSUME UNCHANGED <<exists, exited, parent_pid>>
    PROVE  ZombieStep
BY DEF ZombieStep, Zombie

(* Only the parent frees the slot of a zombie, unless it dies first.       *)
LEMMA ZombieNext ==
    ASSUME IInv, Next
    PROVE  ZombieStep
<1>1. TypeOK
  BY DEF IInv
<1>2. CASE timer_handler \/ keyboard_handler \/ page_fault
  BY <1>2, ZombieUnchanged DEF timer_handler, keyboard_handler, page_fault, procVars
<1>3. CASE syscall_fork
  <2> DEFINE k == get_free_pid
  <2>1. k \in Pid /\ ~exists[k]
    BY <1>3, FreePid DEF syscall_fork
  <2>2. /\ exists' = [exists EXCEPT ![k] = TRUE]
        /\ exited' = [exited EXCEPT ![k] = FALSE]
        /\ parent_pid' = [parent_pid EXCEPT ![k] = current_process]
    BY <1>3 DEF syscall_fork
  <2> HIDE DEF k
  <2> QED
    BY <1>1, <2>1, <2>2 DEF ZombieStep, Zombie, TypeOK, ProcTypeOK
<1>4. CASE syscall_exit \/ syscall_pipe \/ syscall_receive
  BY <1>4, ZombieUnchanged DEF syscall_exit, syscall_pipe, new_pipe, syscall_receive, procVars
<1>5. ASSUME NEW pid \in Pid, syscall_kill(pid) \/ syscall_send(pid)
      PROVE  ZombieStep
  BY <1>5, ZombieUnchanged DEF syscall_kill, syscall_send, procVars
<1>6. ASSUME NEW pid \in Pid, syscall_waitpid(pid)
      PROVE  ZombieStep
  <2>1. CASE waitpid_reaps(pid)
    BY <1>1, <1>6, <2>1
    DEF syscall_waitpid, waitpid_reaps, ZombieStep, Zombie, TypeOK, ProcTypeOK
  <2>2. CASE waitpid_fails(pid) \/ waitpid_blocks(pid)
    BY <1>6, <2>2, ZombieUnchanged DEF syscall_waitpid, waitpid_fails, waitpid_blocks
  <2> QED
    BY <1>6, <2>1, <2>2 DEF syscall_waitpid
<1>7. ASSUME NEW fd \in Fd, NEW n, syscall_read(fd, n) \/ syscall_write(fd, n)
      PROVE  ZombieStep
  BY <1>7, ZombieUnchanged DEF syscall_read, syscall_write, procVars
<1>8. ASSUME NEW fd \in Fd, NEW newfd,
             syscall_close(fd) \/ syscall_dup2(fd, newfd)
      PROVE  ZombieStep
  BY <1>8, ZombieUnchanged DEF syscall_close, syscall_dup2, procVars
<1>9. CASE KillClose \/ Switch
  BY <1>9, ZombieUnchanged DEF KillClose, kill_process_close, Switch, context_switch,
    procVars
<1>10. CASE kill_process_end
  <2>1. victim \in Pid /\ exists[victim] /\ ~exited[victim]
    BY <1>10 DEF kill_process_end, IInv, KillValid
  <2>2. kill_process_finish(victim)
    BY <1>10, <2>1 DEF kill_process_end
  <2>3. /\ parent_pid' =
             [q \in Pid |-> IF parent_pid[q] = victim THEN NONE ELSE parent_pid[q]]
        /\ exists' = [exists EXCEPT ![victim] = KeepsSlot(victim)]
        /\ exited' = [exited EXCEPT ![victim] = TRUE]
    BY <2>2 DEF kill_process_finish, Orphaned
  <2> QED
    BY <1>1, <2>1, <2>3 DEF ZombieStep, Zombie, TypeOK, ProcTypeOK
<1> QED
  BY <1>2, <1>3, <1>4, <1>5, <1>6, <1>7, <1>8, <1>9, <1>10 DEF Next, SystemCall

(* The exit status of a child stays until its parent has read it or died.  *)
THEOREM ZombiesKept == SafeWorkload => (Spec => ZombieKept)
<1>1. IInv /\ [Next]_vars => [ZombieStep]_vars
  BY ZombieNext
<1>2. ZombieKept <=> [][ZombieStep]_vars
  BY PTL DEF ZombieKept, ZombieStep
<1> QED
  BY <1>1, <1>2, Invariance, PTL DEF Spec

=============================================================================

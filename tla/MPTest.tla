------------------------------- MODULE MPTest -------------------------------
(***************************************************************************)
(* The message passing tests (source/mptest.c) on the kernel of module     *)
(* Kernel: the shell starts the program, which asks for a test, starts the *)
(* processes the test needs, and cleans up after them.  Every step is a    *)
(* system call of the running process.  A call that blocks leaves the      *)
(* process where it is; the kernel repeats it when the process is resumed. *)
(***************************************************************************)
EXTENDS Kernel

CONSTANTS
    PINGS,             \* rounds of ping-pong (100)
    NSLAVES, RING_SIZE,
    RING_MAX_PASSES,
    Tests              \* the keys typed at the menu

ASSUME TestsAssumption ==
    /\ PINGS \in Nat /\ NSLAVES \in Nat /\ RING_MAX_PASSES \in Nat
    /\ PINGS >= 1 /\ NSLAVES >= 1 /\ RING_MAX_PASSES >= 1
    /\ RING_SIZE \in Nat /\ RING_SIZE >= 1
    /\ NSLAVES <= MAILBOX_ALLOC   \* the replies are sent without a check
    /\ MAX_PROCESSES >= 5 /\ MAX_PROCESSES >= NSLAVES + 3
    /\ MAX_PROCESSES >= RING_SIZE + 3
    /\ Tests \subseteq {"nb_simple", "advanced", "multiple", "b_simple",
                        "ping_pong", "broadcast", "ring", "quit"}

VARIABLES
    pc,                \* by process: its next system call
    loc,               \* its local variables
    box,               \* the messages in its mailbox, oldest first
    failed             \* an assertion, a try or a "should be" went wrong

mpVars   == <<pc, loc, box, failed>>
testVars == <<vars, mpVars>>

Zero == [i |-> 0, pids |-> <<>>, to |-> NULL, val |-> 0]

MPInit ==
    /\ Init
    /\ pc = [p \in Pid |-> IF p = 1 THEN "sh_fork" ELSE "none"]
    /\ loc = [p \in Pid |-> Zero]
    /\ box = [p \in Pid |-> <<>>]
    /\ failed = FALSE

(***************************************************************************)
(* System calls of a program.  next is where it goes on, r its local       *)
(* variables then, ok what it asserts of the result.                       *)
(***************************************************************************)
goto(p, next, r, ok) ==
    /\ pc' = [pc EXCEPT ![p] = next]
    /\ loc' = [loc EXCEPT ![p] = r]
    /\ failed' = (failed \/ ~ok)

fork(p, start, arguments, next, r) ==
    LET child == get_free_pid IN
    /\ syscall_fork
    /\ pc' = [pc EXCEPT ![child] = start, ![p] = next]
    /\ loc' = [loc EXCEPT ![child] = arguments, ![p] = r]
    /\ box' = [box EXCEPT ![child] = <<>>]
    /\ UNCHANGED failed

CanSend(to) == exists[to] /\ MailboxHasRoom(to)

(* The message goes behind the last one; or the call fails.                *)
Put(p, to, tag, data) ==
    IF CanSend(to)
    THEN /\ syscall_send(to)
         /\ box' = [box EXCEPT ![to] = Append(@, [from |-> p, tag |-> tag, data |-> data])]
    ELSE /\ UserMode
         /\ UNCHANGED <<vars, box>>

send(p, to, tag, data, next, r) ==
    Put(p, to, tag, data) /\ goto(p, next, r, TRUE)

try_send(p, to, tag, data, next, r) ==
    Put(p, to, tag, data) /\ goto(p, next, r, CanSend(to))

Msg(p) == Head(box[p])

Take_newest(p) ==
    box' = [box EXCEPT ![p] = SubSeq(@, 1, Len(@) - 1)]

(* The first message goes and the others move up.                          *)
Take(p) == box' = [box EXCEPT ![p] = Tail(@)]

(* receive(&msg, 1): blocks if there is no message.                        *)
receive(p, next, r, ok) ==
    /\ syscall_receive
    /\ IF mailbox_size[p] = 0
       THEN UNCHANGED mpVars
       ELSE Take(p) /\ goto(p, next, r, ok)

(* receive(&msg, 0): returns at once, with EAGAIN if there is no message.  *)
receive_nb(p, next, r, ok) ==
    /\ IF mailbox_size[p] = 0
       THEN UserMode /\ UNCHANGED <<vars, box>>
       ELSE syscall_receive /\ Take(p)
    /\ goto(p, next, r, ok)

waitpid(p, pid, next, r) ==
    /\ syscall_waitpid(pid)
    /\ IF exists[pid] /\ parent_pid[pid] = p /\ ~exited[pid]
       THEN UNCHANGED mpVars
       ELSE /\ goto(p, next, r, exists[pid] /\ parent_pid[pid] = p)
            /\ UNCHANGED box

read(p, next, r) ==
    /\ syscall_read(0, 1)
    /\ IF len[InputPipe] = 0
       THEN UNCHANGED mpVars
       ELSE goto(p, next, r, TRUE) /\ UNCHANGED box

kill(p, pid, next) ==
    /\ syscall_kill(pid)
    /\ pc' = [pc EXCEPT ![p] = next, ![pid] = "none"]
    /\ loc' = [loc EXCEPT ![pid] = Zero]
    /\ box' = [box EXCEPT ![pid] = <<>>]
    /\ UNCHANGED failed

exit(p) ==
    /\ syscall_exit
    /\ goto(p, "none", Zero, TRUE)
    /\ box' = [box EXCEPT ![p] = <<>>]

at(p, label) == current_process = p /\ pc[p] = label

Incr(r) == [r EXCEPT !.i = @ + 1]
With(r, child) == [r EXCEPT !.pids = Append(@, child)]

(***************************************************************************)
(* The shell and the menu                                                  *)
(***************************************************************************)
shell(p) ==
    \/ at(p, "sh_fork") /\ fork(p, "menu", Zero, "sh_wait", [Zero EXCEPT !.to = get_free_pid])
    \/ at(p, "sh_wait") /\ waitpid(p, loc[p].to, "sh_fork", Zero)

main(p) ==
    \/ at(p, "menu") /\ \E test \in Tests : read(p, test, Zero)
    \/ (at(p, "quit") \/ at(p, "exit")) /\ exit(p)

kill_children_unreaped(p) ==
    LET last == loc[p].i + 1 = Len(loc[p].pids) IN
    \/ /\ at(p, "kill")
       /\ kill(p, loc[p].pids[loc[p].i + 1], IF last THEN "menu" ELSE "killed")
    \/ /\ at(p, "killed")
       /\ waitpid(p, loc[p].pids[loc[p].i + 1], "kill", Incr(loc[p]))

(* Kill the children one after the other, waiting for each.                *)
kill_children(p) ==
    \/ /\ at(p, "kill")
       /\ kill(p, loc[p].pids[loc[p].i + 1], "killed")
    \/ /\ at(p, "killed")
       /\ LET last == loc[p].i + 1 = Len(loc[p].pids) IN
          waitpid(p, loc[p].pids[loc[p].i + 1], IF last THEN "menu" ELSE "kill",
                  IF last THEN Zero ELSE Incr(loc[p]))

(* Wait for the children in the order in which they were started.          *)
wait_children(p) ==
    /\ at(p, "wait")
    /\ LET last == loc[p].i + 1 = Len(loc[p].pids) IN
       waitpid(p, loc[p].pids[loc[p].i + 1], IF last THEN "menu" ELSE "wait",
               IF last THEN Zero ELSE Incr(loc[p]))

(***************************************************************************)
(* Tests of one process                                                    *)
(***************************************************************************)
test_nb_receive_advanced(p) ==
    \/ at(p, "advanced") /\ receive_nb(p, "adv_send", Zero, mailbox_size[p] = 0)
    \/ at(p, "adv_send") /\ try_send(p, p, "TEST", 1234, "adv_receive", loc[p])
    \/ at(p, "adv_receive") /\ receive_nb(p, "menu", Zero,
          mailbox_size[p] > 0 /\ Msg(p).tag = "TEST" /\ Msg(p).data = 1234)

(* As many messages as fit, then all of them back, then none is left.      *)
test_nb_multiple_messages(p) ==
    \/ at(p, "multiple") /\ send(p, p, "TEST", loc[p].i,
          IF CanSend(p) THEN "multiple" ELSE "mul_receive",
          IF CanSend(p) THEN Incr(loc[p])
          ELSE [Zero EXCEPT !.val = loc[p].i])
    \/ at(p, "mul_receive") /\ receive_nb(p,
          IF loc[p].i + 1 = loc[p].val THEN "mul_end" ELSE "mul_receive",
          IF loc[p].i + 1 = loc[p].val THEN Zero ELSE Incr(loc[p]),
          mailbox_size[p] > 0 /\ Msg(p).tag = "TEST" /\ Msg(p).data = loc[p].i)
    \/ at(p, "mul_end") /\ receive_nb(p, "menu", Zero, mailbox_size[p] = 0)

(***************************************************************************)
(* Keys sent on to a child that receives with or without blocking          *)
(***************************************************************************)
test_receive_simple(p) ==
    \/ at(p, "b_simple") /\ fork(p, "b_child", Zero, "key_read", With(loc[p], get_free_pid))
    \/ at(p, "nb_simple") /\ fork(p, "nb_child", Zero, "key_read", With(loc[p], get_free_pid))
    \/ at(p, "key_read") /\ \E next \in {"key_send", "kill"} : read(p, next, loc[p])
    \/ at(p, "key_send") /\ send(p, loc[p].pids[1], "TEST", 0, "key_read", loc[p])

receive_child(p) ==
    \/ at(p, "b_child") /\ receive(p, "b_child", Zero, Msg(p).tag = "TEST")
    \/ at(p, "nb_child") /\ receive_nb(p, "nb_child", Zero,
          mailbox_size[p] = 0 \/ Msg(p).tag = "TEST")

(***************************************************************************)
(* Ping-pong                                                               *)
(***************************************************************************)
ping(p) ==
    \/ at(p, "ping") /\ try_send(p, loc[p].to, "PING", 0, "ping_receive", Incr(loc[p]))
    \/ at(p, "ping_receive") /\ receive(p, IF loc[p].i = PINGS THEN "exit" ELSE "ping", loc[p], TRUE)

pong(p) ==
    \/ at(p, "pong") /\ receive(p, "pong_send", [Incr(loc[p]) EXCEPT !.to = Msg(p).from], TRUE)
    \/ at(p, "pong_send") /\ try_send(p, loc[p].to, "PONG", 0,
          IF loc[p].i = PINGS THEN "exit" ELSE "pong", loc[p])

test_ping_pong(p) ==
    \/ at(p, "ping_pong") /\ fork(p, "pong", Zero, "pp_fork", With(loc[p], get_free_pid))
    \/ at(p, "pp_fork") /\ fork(p, "ping", [Zero EXCEPT !.to = loc[p].pids[1]],
                                "wait", With(loc[p], get_free_pid))

(***************************************************************************)
(* Broadcast                                                               *)
(***************************************************************************)
slave(p) ==
    \/ at(p, "slave") /\ receive(p, "slave_send", [Zero EXCEPT !.to = Msg(p).from, !.val = Msg(p).data], TRUE)
    \/ at(p, "slave_send") /\ send(p, loc[p].to, "RESPONSE", loc[p].val, "exit", Zero)

(* A loop of n rounds whose round leads to next.                           *)
Loop(p, label, n, next) == IF loc[p].i + 1 < n THEN label ELSE next
Round(r, n) == [r EXCEPT !.i = IF @ + 1 < n THEN @ + 1 ELSE 0]

test_broadcast(p) ==
    \/ at(p, "broadcast") /\ fork(p, "slave", Zero, Loop(p, "broadcast", NSLAVES, "bc_send"),
          Round(With(loc[p], get_free_pid), NSLAVES))
    \/ at(p, "bc_send") /\ send(p, loc[p].pids[loc[p].i + 1], "COMMAND", loc[p].pids[loc[p].i + 1],
          Loop(p, "bc_send", NSLAVES, "bc_receive"), Round(loc[p], NSLAVES))
    \/ at(p, "bc_receive") /\ receive(p, Loop(p, "bc_receive", NSLAVES, "wait"),
          Round(loc[p], NSLAVES), Msg(p).data = Msg(p).from)

(***************************************************************************)
(* Ring                                                                    *)
(***************************************************************************)
Passed_twice(token) == token + 2

Passed(token) == token + 1

(* i is the index, pids[1] the main process, to the neighbour.             *)
ring(p) ==
    \/ at(p, "ring_start") /\ receive(p, "ring_receive", [loc[p] EXCEPT !.to = Msg(p).data],
          Msg(p).tag = "NEIGHBOUR")
    \/ at(p, "ring_receive") /\ receive(p, "ring_send", [loc[p] EXCEPT !.val = Passed(Msg(p).data)],
          Msg(p).tag = "TOKEN")
    \/ at(p, "ring_send") /\ loc[p].val < RING_MAX_PASSES
          /\ try_send(p, loc[p].to, "TOKEN", loc[p].val, "ring_receive", [loc[p] EXCEPT !.val = 0])
    \/ at(p, "ring_send") /\ loc[p].val >= RING_MAX_PASSES
          /\ send(p, loc[p].pids[1], "TOKEN", loc[p].val, "ring_receive", [loc[p] EXCEPT !.val = 0])

test_ring(p) ==
    \/ at(p, "ring") /\ fork(p, "ring_start", [Zero EXCEPT !.i = loc[p].i, !.pids = <<p>>],
          Loop(p, "ring", RING_SIZE, "ring_neighbours"),
          Round(With(loc[p], get_free_pid), RING_SIZE))
    \/ at(p, "ring_neighbours") /\ send(p, loc[p].pids[loc[p].i + 1], "NEIGHBOUR",
          loc[p].pids[((loc[p].i + 1) % RING_SIZE) + 1],
          Loop(p, "ring_neighbours", RING_SIZE, "ring_token"), Round(loc[p], RING_SIZE))
    \/ at(p, "ring_token") /\ send(p, loc[p].pids[1], "TOKEN", 0, "ring_wait", loc[p])
    \/ at(p, "ring_wait") /\ receive(p, "kill", [loc[p] EXCEPT !.val = Msg(p).data],
          Msg(p).tag = "TOKEN")

(***************************************************************************)
(* The specification                                                       *)
(***************************************************************************)
Program(p) ==
    \/ shell(p) \/ main(p) \/ kill_children(p) \/ wait_children(p)
    \/ test_nb_receive_advanced(p) \/ test_nb_multiple_messages(p)
    \/ test_receive_simple(p) \/ receive_child(p)
    \/ ping(p) \/ pong(p) \/ test_ping_pong(p)
    \/ slave(p) \/ test_broadcast(p)
    \/ ring(p) \/ test_ring(p)

Interrupt == (timer_handler \/ keyboard_handler) /\ UNCHANGED mpVars

InKernel == (KillClose \/ kill_process_end \/ Switch) /\ UNCHANGED mpVars

MPNext == Interrupt \/ InKernel \/ \E p \in Pid : Program(p)

MPSpec == MPInit /\ [][MPNext]_testVars

(* As for the kernel alone; besides, a process that is run again and again *)
(* reaches its next system call: a time slice is longer than the way to it.*)
MPFairness ==
    /\ WF_testVars(InKernel \/ (kpc = "restart" /\ \E p \in Pid : Program(p)))
    /\ SF_testVars(timer_handler /\ UNCHANGED mpVars)
    /\ \A p \in Pid : SF_testVars(kpc = "user" /\ Program(p))

MPFairSpec == MPSpec /\ MPFairness

(***************************************************************************)
(* Properties                                                              *)
(***************************************************************************)
(* In whatever order the kernel runs the processes, no assertion of the    *)
(* tests fails and every call whose result they check succeeds: the        *)
(* neighbour comes before the token, messages arrive in the order they     *)
(* were sent, each slave answers with what it was told, and nobody waits   *)
(* for a process that is gone; nor does the kernel halt.  A reply sent     *)
(* without a check and lost to a full mailbox shows in TestsEnd instead.   *)
NoneFails == ~failed /\ panic = "none"

(* A test leaves nothing behind that the next one could trip over: back at *)
(* the menu, the mailbox is empty and no child is left, not even a dead    *)
(* one.                                                                    *)
CleanAtMenu ==
    \A p \in Pid : pc[p] = "menu" =>
        box[p] = <<>> /\ \A q \in Pid : exists[q] => parent_pid[q] # p

Tokens ==
    {q \in Pid \X (1 .. MAILBOX_ALLOC) :
        q[2] <= Len(box[q[1]]) /\ box[q[1]][q[2]].tag = "TOKEN"}

Holders == {p \in Pid : pc[p] = "ring_send"}

(* There is at most one token in the ring, and none before all neighbours  *)
(* were told; when it comes back it has made RING_MAX_PASSES hops.         *)
OneToken ==
    /\ Cardinality(Tokens) + Cardinality(Holders) <= 1
    /\ \A p \in Pid : pc[p] \in {"ring", "ring_neighbours", "ring_token"} =>
           Tokens = {} /\ Holders = {}
    /\ \A p \in Pid : pc[p] = "kill" /\ loc[p].val # 0 =>
           loc[p].val = RING_MAX_PASSES

Unattended == {"advanced", "adv_send", "adv_receive", "multiple", "mul_receive",
               "mul_end", "ping_pong", "pp_fork", "broadcast", "bc_send",
               "bc_receive", "ring", "ring_neighbours", "ring_token",
               "ring_wait", "kill", "killed", "wait"}

InTest == \E p \in Pid : pc[p] \in Unattended

(* A test that needs no more keys comes to its end: none of its processes  *)
(* is left blocked on another, and none is starved by the others.          *)
TestsEnd == InTest ~> ~InTest

=============================================================================

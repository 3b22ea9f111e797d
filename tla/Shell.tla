-------------------------------- MODULE Shell --------------------------------
(***************************************************************************)
(* The shell (source/sh.c) at one end of the keyboard pipe and of the      *)
(* screen.  It reads whatever is in the pipe, echoes it, runs the complete *)
(* lines and keeps the rest of the last line for the next read.  A program *)
(* it runs shares its standard input; the shell waits until it ends.       *)
(***************************************************************************)
EXTENDS PipeBuffer, Screen

CONSTANTS
    MAX_ARGS,      \* limit on the words of a command
    Kind           \* what a command name is: "builtin", "exit" or "program"

ASSUME ArgsAssumption == MAX_ARGS \in Nat /\ MAX_ARGS >= 2

VARIABLES
    input,         \* the line buffer, 2 * BUFSIZE + 1 bytes
    pos, linestart, end,
    done,
    spc,           \* what the shell does next
    argdata,       \* the argument block of the program that runs
    got,           \* history: the bytes read by the shell or its programs
    own,           \* history: those read by the shell
    ran,           \* history: the lines given to process_line
    out            \* history: everything written to the screen

shellVars   == <<input, pos, linestart, end, done, spc, argdata>>
historyVars == <<got, own, ran, out>>

Prompt  == <<"$">>
Message == <<"!", NL>>       \* an error message or the output of pwd
Output  == <<"o", TAB>>      \* what a program prints, a file with tabs say
NoArgs  == [argv |-> <<>>, newargv |-> <<>>, block |-> <<>>]

show(text) == write_to_screen(text) /\ out' = out \o text

Init ==
    /\ new_pipe
    /\ display = Written(CLEAR, Message \o Prompt)
    /\ out = Message \o Prompt
    /\ input = [i \in 0 .. (2 * BUFSIZE) |-> JUNK]
    /\ pos = 0 /\ linestart = 0 /\ end = 0
    /\ done = FALSE
    /\ spc = "read"
    /\ argdata = NoArgs
    /\ got = <<>> /\ own = <<>> /\ ran = <<>>

(***************************************************************************)
(* parse_command: the words of a line, at most max - 1 of them.            *)
(***************************************************************************)
IsBreak(line, i) == i = Len(line) + 1 \/ line[i] \in {NL, SPACE}

parse_command(line, max) ==
    LET scan[i \in 0 .. (Len(line) + 1)] ==
          IF i = 0 THEN [start |-> 1, argv |-> <<>>]
          ELSE LET st == scan[i - 1] IN
               IF ~IsBreak(line, i) THEN st
               ELSE [start |-> i + 1,
                     argv  |-> IF i > st.start /\ Len(st.argv) + 1 < max
                               THEN Append(st.argv, SubSeq(line, st.start, i - 1))
                               ELSE st.argv]
    IN  scan[Len(line) + 1].argv

(***************************************************************************)
(* execve: argc, a pointer to argv, the argv array and, from the end of    *)
(* the block downwards, the strings.  Pointers and integers take 4 bytes;  *)
(* an address is an offset from the start of the block.                    *)
(***************************************************************************)
Bytes(argv, k) ==
    LET sum[i \in 0 .. k] == IF i = 0 THEN 0 ELSE sum[i - 1] + Len(argv[i]) + 1
    IN  sum[k]

argdata_size(argv) == Bytes(argv, Len(argv)) + 4 * Len(argv) + 8

newargv_no_terminator(argv) ==
    [k \in DOMAIN argv |-> argdata_size(argv) - Bytes(argv, k) + k]

newargv(argv) == [k \in DOMAIN argv |-> argdata_size(argv) - Bytes(argv, k)]

argblock(argv) ==
    [i \in 0 .. (argdata_size(argv) - 1) |->
        LET here == {k \in DOMAIN argv : /\ newargv(argv)[k] <= i
                                         /\ i < newargv(argv)[k] + Len(argv[k])}
        IN  IF here = {} THEN NUL
            ELSE LET k == Max(here) IN argv[k][i - newargv(argv)[k] + 1]]

(***************************************************************************)
(* The main loop                                                           *)
(***************************************************************************)
(* read(0, &input[pos], BUFSIZE): the bytes and a final NUL are stored.    *)
shell_read ==
    LET bytes == FirstBytes(BUFSIZE)
        r == Len(bytes)
    IN
    /\ spc = "read"
    /\ pipe_reader_read(BUFSIZE)
    /\ input' = [i \in DOMAIN input |->
                   CASE pos <= i /\ i < pos + r -> bytes[i - pos + 1]
                     [] i = pos + r -> NUL
                     [] OTHER -> input[i]]
    /\ end' = pos + r
    /\ own' = own \o bytes
    /\ got' = got \o bytes
    /\ spc' = "echo"
    /\ UNCHANGED <<pos, linestart, done, argdata, ran, out, display>>

shell_blocks ==
    /\ spc = "read"
    /\ pipe_reader_blocks
    /\ UNCHANGED <<shellVars, historyVars, display>>

shell_echo ==
    /\ spc = "echo"
    /\ show([i \in 1 .. (end - pos) |-> input[pos + i - 1]])
    /\ spc' = "scan"
    /\ UNCHANGED <<input, pos, linestart, end, done, argdata, got, own, ran,
                   pipeVars>>

NewLines == {i \in pos .. (end - 1) : input[i] = NL}

CommandKind(argv) ==
    IF argv = <<>> THEN "empty"
    ELSE IF argv[1] \in DOMAIN Kind THEN Kind[argv[1]] ELSE "unknown"

(* One complete line is given to process_line.  The prompt follows when it *)
(* returns, which for a program is when the program has ended.             *)
process_line(line) ==
    LET argv == parse_command(line, MAX_ARGS)
        kind == CommandKind(argv)
    IN
    /\ ran' = Append(ran, line)
    /\ \/ /\ kind = "program"
          /\ argdata' = [argv |-> argv, newargv |-> newargv(argv),
                         block |-> argblock(argv)]
          /\ spc' = "wait"
          /\ UNCHANGED <<done, out, display>>
       \/ /\ kind \in {"builtin", "program", "unknown"}  \* output or an error
          /\ show(Message \o Prompt)
          /\ UNCHANGED <<spc, done, argdata>>
       \/ /\ kind \in {"empty", "builtin", "exit"}       \* a silent command
          /\ show(Prompt)
          /\ done' = (done \/ kind = "exit")
          /\ UNCHANGED <<spc, argdata>>

shell_line ==
    /\ spc = "scan"
    /\ NewLines # {}
    /\ LET nl == Min(NewLines)
           terminated == [input EXCEPT ![nl] = NUL]
       IN  /\ input' = terminated
           /\ process_line(CString(terminated, linestart))
           /\ linestart' = nl + 1
           /\ pos' = nl + 1
    /\ UNCHANGED <<end, got, own, pipeVars>>

(* The program may read from the keyboard as well; it prints something or  *)
(* nothing and ends.                                                       *)
program_reads ==
    /\ spc = "wait"
    /\ pipe_reader_read(1)
    /\ got' = got \o FirstBytes(1)
    /\ UNCHANGED <<shellVars, own, ran, out, display>>

program_blocks ==
    /\ spc = "wait"
    /\ pipe_reader_blocks
    /\ UNCHANGED <<shellVars, historyVars, display>>

waitpid_returns ==
    /\ spc = "wait"
    /\ ~reader_blocked
    /\ spc' = "scan"
    /\ argdata' = NoArgs
    /\ \E text \in {<<>>, Output} : show(text \o Prompt)
    /\ UNCHANGED <<input, pos, linestart, end, done, got, own, ran, pipeVars>>

TooLong_never(n) == FALSE

TooLong_early(n) == n + 1 >= BUFSIZE

TooLong(n) == n >= BUFSIZE

(* No complete line is left: the rest moves to the start of the buffer, or *)
(* is dropped if it would not leave room for another read.                 *)
shell_compact ==
    LET rest == end - linestart IN
    /\ spc = "scan"
    /\ NewLines = {}
    /\ input' = memmove(input, 0, linestart, rest)
    /\ linestart' = 0
    /\ end' = 0
    /\ IF TooLong(rest)
       THEN pos' = 0 /\ show(<<"!">>)
       ELSE pos' = rest /\ UNCHANGED <<out, display>>
    /\ spc' = IF done THEN "exited" ELSE "read"
    /\ UNCHANGED <<done, argdata, got, own, ran, pipeVars>>

ShellStep == \/ shell_read \/ shell_blocks \/ shell_echo \/ shell_line
             \/ shell_compact

ProgramStep == program_reads \/ program_blocks \/ waitpid_returns

=============================================================================

------------------------------ MODULE FileDesc ------------------------------
(***************************************************************************)
(* File descriptors, file handles and pipes: source/filedesc.c and         *)
(* source/pipe.c.  A handle is shared by the descriptors that refer to it  *)
(* and is destroyed with the last of them; a pipe is freed when both its   *)
(* ends are closed.  Only the number of bytes in a pipe is kept.           *)
(*                                                                         *)
(* Handles and pipes live on the kernel heap, which is far larger than any *)
(* run needs; NHandles and NPipes bound how many exist at once.            *)
(***************************************************************************)
EXTENDS Process, FiniteSets

CONSTANTS NHandles, NPipes

ASSUME HeapAssumption ==
    /\ NHandles \in Nat /\ NHandles >= 3
    /\ NPipes \in Nat /\ NPipes >= 1

Handle == 1 .. NHandles
Pipe   == 1 .. NPipes

InputPipe == 1   \* input_pipe of main.c: the kernel itself is its writer

VARIABLES
    filedesc,         \* filedesc[p][fd]: a handle or NULL
    fh_type,          \* "screen", "reader", "writer", or "free" (no handle)
    refcount,         \* descriptors that refer to the handle
    fh_pipe,          \* the pipe of a reader or a writer, else NULL
    reading, writing, \* the ends of the pipe still open; neither: freed
    len,              \* bytes in the pipe
    readpid           \* the process blocked in a read of the pipe

handleVars == <<fh_type, refcount, fh_pipe>>
pipeVars   == <<reading, writing, len, readpid>>

FreeHandles == {h \in Handle : fh_type[h] = "free"}
FreePipes   == {b \in Pipe : ~reading[b] /\ ~writing[b]}

Least(S) == CHOOSE x \in S : \A y \in S : x <= y

(***************************************************************************)
(* Pipes                                                                   *)
(***************************************************************************)
new_pipe(b) ==
    /\ reading' = [reading EXCEPT ![b] = TRUE]
    /\ writing' = [writing EXCEPT ![b] = TRUE]
    /\ len' = [len EXCEPT ![b] = 0]
    /\ readpid' = [readpid EXCEPT ![b] = NONE]

wake_up_reader_sticky(b) ==
    /\ IF readpid[b] # NONE
       THEN resume_process(readpid[b])
       ELSE UNCHANGED <<listVars, panic>>
    /\ UNCHANGED readpid

wake_up_reader(b) ==
    IF readpid[b] # NONE
    THEN /\ resume_process(readpid[b])
         /\ readpid' = [readpid EXCEPT ![b] = NONE]
    ELSE UNCHANGED <<listVars, readpid, panic>>

write_to_pipe(b, n) ==
    /\ len' = [len EXCEPT ![b] = @ + n]
    /\ wake_up_reader(b)
    /\ UNCHANGED <<reading, writing>>

(* A pipe that has lost both ends is freed: its bytes are gone.            *)
LenAfterClose(b, other_end_open) ==
    IF other_end_open THEN len ELSE [len EXCEPT ![b] = 0]

pipe_writer_destroy_silent(b) ==
    /\ writing' = [writing EXCEPT ![b] = FALSE]
    /\ len' = LenAfterClose(b, reading[b])
    /\ UNCHANGED <<reading, readpid, listVars, panic>>

pipe_writer_destroy(b) ==
    IF writing[b]
    THEN /\ writing' = [writing EXCEPT ![b] = FALSE]
         /\ wake_up_reader(b)
         /\ len' = LenAfterClose(b, reading[b])
         /\ UNCHANGED reading
    ELSE /\ panic' = "pipe_writer_destroy"
         /\ UNCHANGED <<pipeVars, listVars>>

pipe_reader_destroy_stays_open(b) ==
    UNCHANGED <<pipeVars, listVars, panic>>

(* check_buffer_free asserts that nobody is blocked on a pipe it frees.    *)
pipe_reader_destroy(b) ==
    /\ UNCHANGED <<writing, readpid, listVars>>
    /\ IF ~reading[b]
       THEN panic' = "pipe_reader_destroy" /\ UNCHANGED <<reading, len>>
       ELSE /\ reading' = [reading EXCEPT ![b] = FALSE]
            /\ len' = LenAfterClose(b, writing[b])
            /\ panic' = IF ~writing[b] /\ readpid[b] # NONE
                        THEN "check_buffer_free" ELSE panic

(***************************************************************************)
(* Handles                                                                 *)
(***************************************************************************)
destroy(h) ==
    /\ fh_type' = [fh_type EXCEPT ![h] = "free"]
    /\ fh_pipe' = [fh_pipe EXCEPT ![h] = NULL]
    /\ CASE fh_type[h] = "writer" -> pipe_writer_destroy(fh_pipe[h])
         [] fh_type[h] = "reader" -> pipe_reader_destroy(fh_pipe[h])
         [] OTHER -> UNCHANGED <<pipeVars, listVars, panic>>

(* close_filehandle, but for the count itself: dup2 also increments one.   *)
release_eager(h) == destroy(h)

release(h) ==
    CASE refcount[h] > 1 ->
            UNCHANGED <<fh_type, fh_pipe, pipeVars, listVars, panic>>
      [] refcount[h] = 1 -> destroy(h)
      [] OTHER ->
            /\ panic' = "close_filehandle"
            /\ UNCHANGED <<fh_type, fh_pipe, pipeVars, listVars>>

Dropped(c) == IF c >= 1 THEN c - 1 ELSE c

close_filehandle(h) ==
    /\ release(h)
    /\ refcount' = [refcount EXCEPT ![h] = Dropped(@)]

close_nothing == UNCHANGED <<handleVars, pipeVars, listVars, panic>>

(* One iteration of the loop of kill_process over the descriptors.  The    *)
(* table of the dead process keeps its pointers.                           *)
kill_process_close ==
    /\ kpc = "kill"
    /\ panic = "none"
    /\ kfd < MAX_FDS
    /\ kfd' = kfd + 1
    /\ IF filedesc[victim][kfd] # NULL
       THEN close_filehandle(filedesc[victim][kfd])
       ELSE close_nothing
    /\ UNCHANGED <<filedesc, procVars, callVars, current_process, kpc, victim>>

=============================================================================

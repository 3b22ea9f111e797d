----------------------------- MODULE PipeBuffer -----------------------------
(***************************************************************************)
(* The bytes of a pipe (source/pipe.c).  They lie in a block that is       *)
(* replaced by one of twice the size when it is full and never shrinks;    *)
(* reading takes bytes from the front and moves the rest down.             *)
(***************************************************************************)
EXTENDS Text

CONSTANT BUFSIZE

ASSUME BufsizeAssumption == BUFSIZE \in Nat /\ BUFSIZE >= 1

JUNK == "junk"      \* memory nobody has written to

VARIABLES
    data,           \* the block, of alloc bytes
    alloc,
    len,            \* bytes in use, from the start
    reader_blocked  \* readpid # -1: a process sleeps in a read of the pipe

pipeVars == <<data, alloc, len, reader_blocked>>

new_pipe ==
    /\ data = [i \in 0 .. (BUFSIZE - 1) |-> JUNK]
    /\ alloc = BUFSIZE
    /\ len = 0
    /\ reader_blocked = FALSE

(* The sizes the block has while it is doubled up to n times.              *)
Doublings(size, n) ==
    LET after[k \in 0 .. n] == IF k = 0 THEN size ELSE 2 * after[k - 1]
    IN  {after[k] : k \in 0 .. n}

Doubled_eager(size, need) == Min({s \in Doublings(size, need + 1) : s > need})

(* The size after doubling until need bytes fit.                           *)
Doubled(size, need) == Min({s \in Doublings(size, need) : s >= need})

write_to_pipe_silent(buf) ==
    /\ data' = [i \in 0 .. (Doubled(alloc, len + Len(buf)) - 1) |->
                  CASE i < len -> data[i]
                    [] len <= i /\ i < len + Len(buf) -> buf[i - len + 1]
                    [] OTHER -> JUNK]
    /\ alloc' = Doubled(alloc, len + Len(buf))
    /\ len' = len + Len(buf)
    /\ UNCHANGED reader_blocked

(* Room is made, the bytes are added behind the ones that are there, and a *)
(* blocked reader is woken up: it will repeat its read.                    *)
write_to_pipe(buf) ==
    LET size == Doubled(alloc, len + Len(buf))
        block == IF size = alloc THEN data
                 ELSE [i \in 0 .. (size - 1) |-> IF i < len THEN data[i] ELSE JUNK]
    IN  /\ data' = [i \in DOMAIN block |->
                      IF len <= i /\ i < len + Len(buf)
                      THEN buf[i - len + 1] ELSE block[i]]
        /\ alloc' = size
        /\ len' = len + Len(buf)
        /\ reader_blocked' = FALSE

(* What a read of count bytes returns.                                     *)
FirstBytes(count) == [i \in 1 .. Min({count, len}) |-> data[i - 1]]

pipe_reader_read_forgets(count) ==
    /\ ~reader_blocked
    /\ len > 0
    /\ len' = 0
    /\ UNCHANGED <<data, alloc, reader_blocked>>

pipe_reader_read(count) ==
    LET copy == Min({count, len}) IN
    /\ ~reader_blocked
    /\ len > 0
    /\ data' = memmove(data, 0, copy, len - copy)
    /\ len' = len - copy
    /\ UNCHANGED <<alloc, reader_blocked>>

(* Nothing there, and the keyboard never closes its end: the reader sleeps.*)
pipe_reader_blocks ==
    /\ ~reader_blocked
    /\ len = 0
    /\ reader_blocked' = TRUE
    /\ UNCHANGED <<data, alloc, len>>

=============================================================================

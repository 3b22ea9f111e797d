------------------------------- MODULE Files -------------------------------
(***************************************************************************)
(* The file system calls (source/fscalls.c) of processes that share an     *)
(* image: fstool builds it, then the kernel runs on it.  A handle, with    *)
(* its position, is shared by the descriptors that fork and dup2 copy; the *)
(* working directory is a process's own.                                   *)
(***************************************************************************)
EXTENDS Image

CONSTANTS
    Proc,            \* processes; the first one starts all others
    First,
    MAX_FDS, PATH_MAX,
    NHandles,        \* bound: handles in memory
    Path,            \* the path names that processes use,
    OpenPath,        \* some of them in calls of open
    ChdirPath        \* and of chdir

ASSUME FilesAssumption ==
    /\ First \in Proc
    /\ MAX_FDS \in Nat /\ NHandles \in Nat
    /\ PATH_MAX \in Nat /\ PATH_MAX >= 2
    /\ Path \subseteq Seq(STRING)
    /\ OpenPath \subseteq Path /\ ChdirPath \subseteq Path

VARIABLES
    running,         \* the processes there are
    cwd,             \* by process: an absolute path name
    filedesc,        \* by process and descriptor: a handle or NULL
    fh,              \* by handle: kind, entry, pos, entryno, refcount, and as
                     \* history the place it was opened for and what was read
    place            \* history, by process: where in the tree it should be

fileVars == <<running, cwd, filedesc, fh, place>>
vars == <<imageVars, fileVars>>

NULL   == 0
Fd     == 0 .. (MAX_FDS - 1)
Handle == 1 .. NHandles

LOST   == <<<<SLASH>>>>  \* a place whose path name the kernel has cut off

Free == [kind |-> "free", entry |-> NULL, pos |-> 0, entryno |-> 0,
         refcount |-> 0, place |-> LOST, seen |-> <<>>]
FreeHandles == {h \in Handle : fh[h].kind = "free"}

FilesInit ==
    /\ Init
    /\ running = {First}
    /\ cwd = [p \in Proc |-> <<SLASH>>]
    /\ filedesc = [p \in Proc |-> [fd \in Fd |-> NULL]]
    /\ fh = [h \in Handle |-> Free]
    /\ place = [p \in Proc |-> <<>>]

Open(p, fd) == filedesc[p][fd] # NULL

(***************************************************************************)
(* The reference: a path name is a walk through the tree of the host.      *)
(***************************************************************************)
Names(path) == Fields(path, {SLASH})

From(from, path) == IF path # <<>> /\ path[1] = SLASH THEN <<>> ELSE from

Turn(at, name) == CASE name = DOT -> at
                    [] name = DOTDOT -> SubSeq(at, 1, Max({0, Len(at) - 1}))
                    [] OTHER -> Append(at, name)

Walk(from, path) ==
    LET walk[k \in 0 .. Len(Names(path))] ==
          IF k = 0 THEN From(from, path) ELSE Turn(walk[k - 1], Names(path)[k])
    IN  walk

Destination(from, path) == Walk(from, path)[Len(Names(path))]

(* The path name of a place in the tree.                                   *)
PathOf(at) ==
    LET text[k \in 0 .. Len(at)] ==
          IF k = 0 THEN <<>> ELSE text[k - 1] \o <<SLASH>> \o at[k]
    IN  IF at = <<>> THEN <<SLASH>> ELSE text[Len(at)]

(* Every path name on the way is shorter than the kernel's buffers.        *)
Fits(from, path) ==
    LET walk == Walk(from, path)
    IN  \A k \in 0 .. Len(Names(path)) : Len(PathOf(walk[k])) < PATH_MAX

PlaceOf(p, path) ==
    IF place[p] = LOST /\ (path = <<>> \/ path[1] # SLASH) THEN LOST
    ELSE LET from == IF place[p] = LOST THEN <<>> ELSE place[p]
         IN  IF Fits(from, path) THEN Destination(from, path) ELSE LOST

(***************************************************************************)
(* System calls                                                            *)
(***************************************************************************)
Absolute(p, path) == relative_to_absolute(cwd[p], path, PATH_MAX)

(* stat: the entry of a path, or an error.                                 *)
syscall_stat(p, path) == get_directory_entry(Absolute(p, path))

(* The lowest free descriptor is taken before the path is looked up; a     *)
(* directory is opened with OPEN_DIRECTORY, a file without.                *)
syscall_open(p, path) ==
    LET free == {fd \in Fd : ~Open(p, fd)}
        at == get_directory_entry(Absolute(p, path))
        h  == Min(FreeHandles)
    IN
    /\ free # {}
    /\ at.found
    /\ FreeHandles # {}
    /\ fh' = [fh EXCEPT ![h] = [kind |-> at.entry.type, entry |-> at.entry,
                                pos |-> 0, entryno |-> 0, refcount |-> 1,
                                place |-> PlaceOf(p, path), seen |-> <<>>]]
    /\ filedesc' = [filedesc EXCEPT ![p][Min(free)] = h]
    /\ UNCHANGED <<running, cwd, place>>

(* The bytes a read returns: none at the end of the file.                  *)
file_read(h, count) ==
    [i \in 1 .. Min({count, fh[h].entry.size - fh[h].pos}) |->
        Cell(fh[h].entry.location + fh[h].pos + i - 1).byte]

syscall_read_private(p, fd, count) ==
    LET h == filedesc[p][fd]
        bytes == file_read(h, count)
    IN
    /\ Open(p, fd) /\ fh[h].kind = "file"
    /\ fh' = [fh EXCEPT ![h].pos = IF p = First THEN @ + Len(bytes) ELSE @,
                        ![h].seen = @ \o bytes]
    /\ UNCHANGED <<running, cwd, filedesc, place>>

syscall_read(p, fd, count) ==
    LET h == filedesc[p][fd]
        bytes == file_read(h, count)
    IN
    /\ Open(p, fd) /\ fh[h].kind = "file"
    /\ fh' = [fh EXCEPT ![h].pos = @ + Len(bytes), ![h].seen = @ \o bytes]
    /\ UNCHANGED <<running, cwd, filedesc, place>>

HasEntry(h) == fh[h].entryno < Cell(fh[h].entry.location).count

syscall_getdent(p, fd) ==
    LET h == filedesc[p][fd] IN
    /\ Open(p, fd) /\ fh[h].kind = "dir"
    /\ HasEntry(h)
    /\ fh' = [fh EXCEPT ![h].entryno = @ + 1,
                        ![h].seen = Append(@,
                            Cell(fh[h].entry.location + fh[h].entryno + 1).name)]
    /\ UNCHANGED <<running, cwd, filedesc, place>>

syscall_chdir(p, path) ==
    LET newcwd == Absolute(p, path)
        at == get_directory_entry(newcwd)
    IN
    /\ at.found
    /\ at.entry.type = "dir"
    /\ cwd' = [cwd EXCEPT ![p] = newcwd]
    /\ place' = [place EXCEPT ![p] = PlaceOf(p, path)]
    /\ UNCHANGED <<running, filedesc, fh>>

(* The references of some descriptors of a process go.                     *)
Closed(p, fds) ==
    [h \in Handle |->
        LET left == fh[h].refcount - Cardinality({fd \in fds : filedesc[p][fd] = h})
        IN  IF left = 0 THEN Free ELSE [fh[h] EXCEPT !.refcount = left]]

syscall_close(p, fd) ==
    /\ Open(p, fd)
    /\ fh' = Closed(p, {fd})
    /\ filedesc' = [filedesc EXCEPT ![p][fd] = NULL]
    /\ UNCHANGED <<running, cwd, place>>

syscall_dup2(p, oldfd, newfd) ==
    LET h == filedesc[p][oldfd] IN
    /\ Open(p, oldfd) /\ oldfd # newfd
    /\ fh' = [Closed(p, {newfd}) EXCEPT ![h].refcount = 1 +
                IF filedesc[p][newfd] = h THEN fh[h].refcount - 1 ELSE fh[h].refcount]
    /\ filedesc' = [filedesc EXCEPT ![p][newfd] = h]
    /\ UNCHANGED <<running, cwd, place>>

syscall_fork(p, child) ==
    /\ child \notin running
    /\ running' = running \cup {child}
    /\ cwd' = [cwd EXCEPT ![child] = cwd[p]]
    /\ filedesc' = [filedesc EXCEPT ![child] = filedesc[p]]
    /\ fh' = [h \in Handle |-> [fh[h] EXCEPT !.refcount =
                @ + Cardinality({fd \in Fd : filedesc[p][fd] = h})]]
    /\ place' = [place EXCEPT ![child] = place[p]]

kill_process(p) ==
    /\ p # First
    /\ running' = running \ {p}
    /\ cwd' = [cwd EXCEPT ![p] = <<SLASH>>]
    /\ place' = [place EXCEPT ![p] = <<>>]
    /\ fh' = Closed(p, Fd)
    /\ filedesc' = [filedesc EXCEPT ![p] = [fd \in Fd |-> NULL]]

SystemCall(p) ==
    \/ \E path \in OpenPath : syscall_open(p, path)
    \/ \E path \in ChdirPath : syscall_chdir(p, path)
    \/ \E fd \in Fd : \/ \E count \in 1 .. 2 : syscall_read(p, fd, count)
                      \/ syscall_getdent(p, fd)
                      \/ syscall_close(p, fd)
                      \/ \E newfd \in Fd : syscall_dup2(p, fd, newfd)
    \/ \E child \in Proc : syscall_fork(p, child)
    \/ kill_process(p)

Next == \/ Build /\ UNCHANGED fileVars
        \/ /\ built
           /\ \E p \in running : SystemCall(p)
           /\ UNCHANGED imageVars

Spec == FilesInit /\ [][Next]_vars

(***************************************************************************)
(* Properties                                                              *)
(***************************************************************************)
Content(at) == IF host[at].type = "file" THEN host[at].bytes ELSE listing(at)

(* The places of the tree that belong into the image.                      *)
Places == {at \in DOMAIN host : \A k \in DOMAIN at : ~ignore_file(at[k])}

Area(at) ==
    LET entry == get_directory_entry(PathOf(at)).entry
    IN  entry.location .. (entry.location + Len(Content(at)) -
                           (IF host[at].type = "file" THEN 1 ELSE 0))

(* fstool: the image that process_dir lays out in several passes, with     *)
(* locations filled in behind, is a partition: every file and directory    *)
(* of the host is found under its path, and the areas of no two of them    *)
(* share a cell or leave one unused.                                       *)
ImagePartitioned ==
    built =>
        /\ \A at \in Places : get_directory_entry(PathOf(at)).found
        /\ \A a, b \in Places : a # b => Area(a) \cap Area(b) = {}
        /\ UNION {Area(at) : at \in Places} = 1 .. (Len(out) - 1)

(* stat answers for any path name, from any working directory, what a walk *)
(* through the host's tree says: the same names exist, as the same types.  *)
StatAgrees ==
    built =>
        \A p \in running, path \in Path :
            LET at == PlaceOf(p, path)
                stat == syscall_stat(p, path)
            IN  at # LOST =>
                    /\ stat.found <=> at \in Places
                    /\ stat.found => stat.entry.type = host[at].type

(* The working directory of a process is always the path name of the       *)
(* directory that its chdir calls have led to, without any . or .. or a    *)
(* doubled or final slash left in it, as long as the names on the way fit. *)
CwdCanonical ==
    \A p \in running :
        place[p] # LOST => /\ cwd[p] = PathOf(place[p])
                           /\ place[p] \in Places
                           /\ host[place[p]].type = "dir"

(* relative_to_absolute stays within its buffer, NUL included, whatever    *)
(* the path and the working directory, and what chdir accepts exists.      *)
PathsFit ==
    built =>
        \A p \in running :
            /\ \A path \in Path : Len(Absolute(p, path)) < PATH_MAX
            /\ get_directory_entry(cwd[p]).found

Reaches(h, n) == fh[h].seen = SubSeq(Content(fh[h].place), 1, n)

Position(h) == IF fh[h].kind = "file" THEN fh[h].pos ELSE fh[h].entryno
AtEnd(h) == IF fh[h].kind = "file" THEN file_read(h, 1) = <<>> ELSE ~HasEntry(h)

(* All reads through one handle, by whichever of the processes and         *)
(* descriptors that share it, together yield the bytes of the named file,  *)
(* or the entries of the named directory, in order, each once and all of   *)
(* them before the end is reported (file_read, syscall_getdent).           *)
ReadsInOrder ==
    \A h \in Handle :
        fh[h].kind # "free" /\ fh[h].place # LOST =>
            /\ fh[h].place \in Places
            /\ Reaches(h, Position(h))
            /\ AtEnd(h) => fh[h].seen = Content(fh[h].place)

=============================================================================

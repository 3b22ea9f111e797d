------------------------------- MODULE Image -------------------------------
(***************************************************************************)
(* The file system image: how fstool -build lays a directory tree of the   *)
(* host out in it (source/fstool.c), and how the kernel finds a path in it *)
(* (source/filesystem.c).  Strings are sequences of characters.  The image *)
(* is a sequence of cells: a directory's count, a directory_entry or a     *)
(* byte of a file each take one cell, and a location counts cells.         *)
(***************************************************************************)
EXTENDS Text

CONSTANT Hosts   \* the directory trees an image may be built from

VARIABLES
    host,        \* the tree: from paths (sequences of names) to nodes
    out,         \* the image so far
    stack,       \* the calls of process_dir that have not returned
    built        \* the image is complete and loaded

imageVars == <<host, out, stack, built>>

SLASH == "/"
DOT   == <<".">>
DOTDOT == <<".", ".">>
SVN   == <<".", "s", "v", "n">>
ROOT  == <<"R">>

(* A file name: not empty, and without a slash.                           *)
Name == {n \in Seq(STRING) : n # <<>> /\ \A i \in DOMAIN n : n[i] # SLASH}

(* A file, or a directory that lists each of its names once.               *)
IsNode(node) ==
    \/ node.type = "file" /\ node.bytes \in Seq(STRING)
    \/ /\ node.type = "dir" /\ node.names \in Seq(Name)
       /\ \A i, j \in DOMAIN node.names : node.names[i] = node.names[j] => i = j

(* A tree of the host: every node but the root is listed in the directory  *)
(* above it, and every name but . and .. that a directory lists is there.  *)
IsTree(tree) ==
    LET dirs == {at \in DOMAIN tree : tree[at].type = "dir"}
        below(at, i) == Append(at, tree[at].names[i])
    IN  /\ <<>> \in dirs
        /\ \A at \in DOMAIN tree : at \in Seq(Name) /\ IsNode(tree[at])
        /\ \A at \in dirs : \A i \in DOMAIN tree[at].names :
             tree[at].names[i] \in {DOT, DOTDOT} \/ below(at, i) \in DOMAIN tree
        /\ \A at \in DOMAIN tree \ {<<>>} :
             \E up \in dirs : \E i \in DOMAIN tree[up].names : at = below(up, i)

ASSUME HostsAssumption == /\ \A tree \in Hosts : IsTree(tree)
                          /\ SLASH \in STRING

(***************************************************************************)
(* fstool -build                                                           *)
(***************************************************************************)
ignore_file(name) == name \in {DOT, DOTDOT, SVN}

EntryFor(path, name) ==
    LET node == host[Append(path, name)] IN
    [name |-> name, type |-> node.type, location |-> 0,
     size |-> IF node.type = "file" THEN Len(node.bytes) ELSE 0]

(* What readdir lists of a directory, without what is ignored.             *)
listing(path) ==
    LET names == host[path].names
        kept == {i \in DOMAIN names : ~ignore_file(names[i])}
    IN  [k \in 1 .. Cardinality(kept) |-> names[Nth(kept, k)]]

newdirect(path) == [i \in DOMAIN listing(path) |-> EntryFor(path, listing(path)[i])]

Block(entries) == <<[count |-> Len(entries)]>> \o entries

Frame(path, diroffset) ==
    [path |-> path, diroffset |-> diroffset, entries |-> newdirect(path), i |-> 1]

Init ==
    /\ host \in Hosts
    /\ out = <<>> /\ stack = <<>>
    /\ built = FALSE

Root == [name |-> ROOT, type |-> "dir", location |-> 1, size |-> 0]

(* The entry of the root, and the first call of process_dir.               *)
build_start ==
    /\ out = <<>>
    /\ out' = <<Root>> \o Block(newdirect(<<>>))
    /\ stack' = <<Frame(<<>>, 1)>>
    /\ UNCHANGED <<host, built>>

Top == stack[Len(stack)]

Located_behind ==
    [Top EXCEPT !.entries[Top.i].location = Len(out) + Top.entries[Top.i].size,
                !.i = @ + 1]

Located == [Top EXCEPT !.entries[Top.i].location = Len(out), !.i = @ + 1]

Rest == SubSeq(stack, 1, Len(stack) - 1)
Child == Append(Top.path, Top.entries[Top.i].name)

(* process_dir for a directory in the directory: its block is appended.    *)
process_dir ==
    /\ stack # <<>> /\ Top.i <= Len(Top.entries)
    /\ Top.entries[Top.i].type = "dir"
    /\ stack' = Rest \o <<Located, Frame(Child, Len(out))>>
    /\ out' = out \o Block(newdirect(Child))
    /\ UNCHANGED <<host, built>>

(* What process_file copies.                                               *)
Bytes(at) == [i \in DOMAIN host[at].bytes |-> [byte |-> host[at].bytes[i]]]

process_file ==
    /\ stack # <<>> /\ Top.i <= Len(Top.entries)
    /\ Top.entries[Top.i].type = "file"
    /\ stack' = Append(Rest, Located)
    /\ out' = out \o Bytes(Child)
    /\ UNCHANGED <<host, built>>

(* All entries have their locations: the block is written again.           *)
process_dir_end ==
    LET block == Block(Top.entries) IN
    /\ stack # <<>> /\ Top.i > Len(Top.entries)
    /\ out' = [c \in DOMAIN out |->
                 IF Top.diroffset < c /\ c <= Top.diroffset + Len(block)
                 THEN block[c - Top.diroffset] ELSE out[c]]
    /\ stack' = Rest
    /\ built' = (Rest = <<>>)
    /\ UNCHANGED host

Build == build_start \/ process_dir \/ process_file \/ process_dir_end

(***************************************************************************)
(* The kernel.  An entry is known by its cell, a directory by its location.*)
(***************************************************************************)
Cell(location) == out[location + 1]

lookup(dir, name) == {i \in 1 .. Cell(dir).count : Cell(dir + i).name = name}

NoEntry == [found |-> FALSE]

(* A file must be the last component, without even a slash behind it.      *)
EndsAtFile_any(entry, path, pos) == FALSE

EndsAtFile(entry, path, pos) == entry.type = "file" /\ pos <= Len(path)

(* The component that ends before position pos is looked up.               *)
Descend(at, path, pos) ==
    LET hits == lookup(at.dir, SubSeq(path, at.start, pos - 1))
        entry == Cell(at.dir + Min(hits))
        next == [found |-> TRUE, entry |-> entry, start |-> pos + 1,
                 dir |-> IF entry.type = "dir" THEN entry.location ELSE at.dir]
    IN  IF hits = {} \/ EndsAtFile(entry, path, pos) THEN NoEntry ELSE next

Breaks(path, pos) == pos = Len(path) + 1 \/ path[pos] = SLASH

Outset == [found |-> TRUE, entry |-> Cell(0), start |-> 1, dir |-> Cell(0).location]

(* One turn of the loop: an empty component is skipped.                    *)
Seek(at, path, pos) ==
    IF ~at.found \/ ~Breaks(path, pos) THEN at
    ELSE IF pos > at.start THEN Descend(at, path, pos)
    ELSE [at EXCEPT !.start = pos + 1]

get_directory_entry(path) ==
    LET walk[pos \in 0 .. (Len(path) + 1)] ==
          IF pos = 0 THEN Outset ELSE Seek(walk[pos - 1], path, pos)
    IN  walk[Len(path) + 1]

Slashes(abs) == {1} \cup {i \in DOMAIN abs : abs[i] = SLASH}

RemoveLast_slash(abs) == SubSeq(abs, 1, Max(Slashes(abs)))

(* The last component goes, and the slash before it unless it is the root. *)
RemoveLast(abs) == SubSeq(abs, 1, Max({1, Max(Slashes(abs)) - 1}))

Sep(abs) == IF abs[Len(abs)] # SLASH THEN <<SLASH>> ELSE <<>>
Longer(abs, name) == abs \o Sep(abs) \o name

AddName_overrun(abs, name, max) ==
    LET longer == Longer(abs, name)
    IN  SubSeq(longer, 1, Max({Len(abs), Min({Len(longer), max})}))

(* A slash and the name are added, as far as they fit.                     *)
AddName(abs, name, max) ==
    LET longer == Longer(abs, name)
    IN  SubSeq(longer, 1, Max({Len(abs), Min({Len(longer), max - 1})}))

Begin(base, rel) == IF rel # <<>> /\ rel[1] = SLASH THEN <<SLASH>> ELSE base

Step(abs, name, max) == CASE name = DOT -> abs
                          [] name = DOTDOT -> RemoveLast(abs)
                          [] OTHER -> AddName(abs, name, max)

(* One turn of the loop, with the component that ends before pos.          *)
Advance(at, rel, pos, max) ==
    IF ~Breaks(rel, pos) THEN at
    ELSE [start |-> pos + 1,
          abs |-> IF pos > at.start THEN Step(at.abs, SubSeq(rel, at.start, pos - 1), max)
                  ELSE at.abs]

relative_to_absolute(base, rel, max) ==
    LET scan[pos \in 0 .. (Len(rel) + 1)] ==
          IF pos = 0 THEN [start |-> 1, abs |-> Begin(base, rel)]
          ELSE Advance(scan[pos - 1], rel, pos, max)
    IN  scan[Len(rel) + 1].abs

=============================================================================

------------------------------ MODULE MCFiles ------------------------------
(***************************************************************************)
(* Module Files for TLC: small trees, and path names of every form.        *)
(***************************************************************************)
EXTENDS Files, TLC

A == <<"a">>
B == <<"b">>
AB == <<"a", "b">>
Dir(names) == [type |-> "dir", names |-> <<DOT, DOTDOT>> \o names]
File(bytes) == [type |-> "file", bytes |-> bytes]

(* A file beside a directory whose name begins like the file's; and a tree *)
(* with a .svn directory, an empty file and an empty directory.            *)
Tree1 == (<<>> :> Dir(<<AB, A>>)) @@ (<<AB>> :> File(<<"x", "y">>))
           @@ (<<A>> :> Dir(<<B>>)) @@ (<<A, B>> :> File(<<>>))
Tree2 == (<<>> :> Dir(<<SVN, B, A>>)) @@ (<<SVN>> :> Dir(<<>>)) @@ (<<B>> :> File(<<>>))
           @@ (<<A>> :> Dir(<<AB, A>>)) @@ (<<A, AB>> :> File(<<"x">>))
           @@ (<<A, A>> :> Dir(<<>>))
Trees == {Tree1, Tree2}

OpenPaths  == {<<".", SLASH, "a", "b">>, <<SLASH, SLASH, "a", SLASH>>}
ChdirPaths == {A, DOTDOT, <<"a", SLASH, "a", "b">>}
Paths == OpenPaths \cup ChdirPaths \cup
         {<<>>, DOT, <<SLASH>>, <<"a", "b", SLASH>>, <<"b", SLASH, "a">>,
          <<"a", SLASH, ".", ".", SLASH, "b">>, <<SLASH, "a", SLASH, "b">>,
          <<SLASH, ".", ".", SLASH, "a", SLASH, "a">>}

=============================================================================

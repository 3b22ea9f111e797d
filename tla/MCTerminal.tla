----------------------------- MODULE MCTerminal -----------------------------
(***************************************************************************)
(* Module Terminal for TLC: a keyboard with a letter, ENTER and a third    *)
(* key, and a command of each kind.                                        *)
(***************************************************************************)
EXTENDS Terminal, TLC

Keys    == {"shift", "letter", "enter", "ctrl"}
Plain   == [k \in Keys \ {"shift"} |->
              CASE k = "letter" -> "a" [] k = "enter" -> NL [] k = "ctrl" -> NUL]
Shifted == [k \in Keys \ {"shift"} |->
              CASE k = "letter" -> SPACE [] k = "enter" -> NL [] k = "ctrl" -> NUL]
Kinds   == (<<"a">> :> "program") @@ (<<"a", "a">> :> "builtin")
             @@ (<<"a", "a", "a">> :> "exit")

(* parse_command for all lines of up to 7 characters, more than a run can  *)
(* type: the words are those between the spaces, up to the limit.          *)
ASSUME ParseReference ==
    \A n \in 0 .. 7 : \A line \in [1 .. n -> {"a", "b", SPACE}] :
        LET words == Fields(line, {SPACE})
            argv  == parse_command(line, MAX_ARGS)
        IN  argv = SubSeq(words, 1, Min({Len(words), MAX_ARGS - 1}))

=============================================================================

------------------------------ MODULE Terminal ------------------------------
(***************************************************************************)
(* The way of a key press: the keyboard interrupt (keyboard_handler of     *)
(* source/main.c) puts a character into the input pipe, the shell reads    *)
(* it, echoes it on the screen and finally runs the line it is part of.    *)
(* Key presses happen at any time between two steps of the processes.      *)
(***************************************************************************)
EXTENDS Shell

CONSTANTS
    Key,                   \* the keys of the keyboard, KEY_SHIFT among them
    KEY_SHIFT,
    kbdmap, kbdmap_shift,  \* the characters of the other keys
    MaxTyped               \* bound: characters typed

ASSUME KeyboardAssumption ==
    /\ KEY_SHIFT \in Key
    /\ DOMAIN kbdmap = Key \ {KEY_SHIFT}
    /\ DOMAIN kbdmap_shift = Key \ {KEY_SHIFT}
    /\ MaxTyped \in Nat

VARIABLES
    shift_pressed,
    typed                  \* history: the characters of all key presses

vars == <<shellVars, historyVars, pipeVars, display, shift_pressed, typed>>

Char == {kbdmap[k] : k \in DOMAIN kbdmap} \cup
        {kbdmap_shift[k] : k \in DOMAIN kbdmap_shift}

key_release(key) ==
    /\ key = KEY_SHIFT
    /\ shift_pressed' = FALSE
    /\ UNCHANGED <<shellVars, historyVars, pipeVars, display, typed>>

key_press_shift(key) ==
    /\ key = KEY_SHIFT
    /\ shift_pressed' = TRUE
    /\ UNCHANGED <<shellVars, historyVars, pipeVars, display, typed>>

(* A key without a character, such as F1 or CTRL, yields a NUL.            *)
key_press_char(key) ==
    LET c == IF shift_pressed THEN kbdmap_shift[key] ELSE kbdmap[key] IN
    /\ key # KEY_SHIFT
    /\ Len(typed) < MaxTyped
    /\ write_to_pipe(<<c>>)
    /\ typed' = Append(typed, c)
    /\ UNCHANGED <<shellVars, historyVars, display, shift_pressed>>

keyboard_handler(key) ==
    key_release(key) \/ key_press_shift(key) \/ key_press_char(key)

TerminalInit == Init /\ shift_pressed = FALSE /\ typed = <<>>

Next == \/ \E key \in Key : keyboard_handler(key)
        \/ (ShellStep \/ ProgramStep) /\ UNCHANGED <<shift_pressed, typed>>

Spec == TerminalInit /\ [][Next]_vars

(* The shell gets the processor again and again: weak fairness of its      *)
(* steps, with the condition under which one is enabled written out.       *)
ShellReady == spc \in {"echo", "scan"} \/ (spc = "read" /\ ~reader_blocked)

ShellFairness == <>[]ShellReady => []<><<ShellStep>>_vars

FairSpec == Spec /\ ShellFairness

(***************************************************************************)
(* Properties                                                              *)
(***************************************************************************)
Stream == INSTANCE ByteStream WITH
            Byte <- Char, sent <- typed, delivered <- got

(* From the keyboard interrupt through the growing and shifting buffer of  *)
(* the pipe to the processes that read it, no character is lost, doubled   *)
(* or overtaken, also when the shell and a program take turns in reading.  *)
KeyStream == Stream!Spec

(* The buffer of the pipe grows only when the characters that wait for a   *)
(* reader do not fit, and to less than twice their number: kernel memory   *)
(* is bounded by the longest backlog (write_to_pipe).                      *)
GrowsOnDemand ==
    [][alloc' # alloc => alloc < len' /\ alloc' < 2 * len']_vars

(* Whatever part of a line the shell has kept, the BUFSIZE bytes that a    *)
(* read may return and the NUL behind them have room in its buffer, and a  *)
(* read that has returned stayed within it.                                *)
BufferHolds ==
    /\ spc = "read" => pos + BUFSIZE \in DOMAIN input
    /\ end \in DOMAIN input

(* Lines of a text, in order; a NUL that was typed ends the line early.    *)
Lines(text) ==
    LET ends == {i \in DOMAIN text : text[i] = NL}
        from(k) == IF k = 1 THEN 1 ELSE Nth(ends, k - 1) + 1
        whole(k) == SubSeq(text, from(k), Nth(ends, k) - 1)
        nul(line) == Min({i \in DOMAIN line : line[i] = NUL} \cup {Len(line) + 1})
    IN  [k \in 1 .. Cardinality(ends) |-> SubSeq(whole(k), 1, nul(whole(k)) - 1)]

Short(text) ==
    \A i \in DOMAIN text :
        i + BUFSIZE - 1 <= Len(text) =>
            \E j \in i .. (i + BUFSIZE - 1) : text[j] = NL

(* As long as every line is shorter than the buffer, the shell runs the    *)
(* lines it reads one by one, in order and whole, however the reads cut    *)
(* them up and however many arrive at once.                                *)
ShortLinesRun ==
    Short(own) => /\ ran = SubSeq(Lines(own), 1, Len(ran))
                  /\ spc = "read" => ran = Lines(own)

(* A program finds the words of its command line through the pointers of   *)
(* the argument block that execve copies to its stack, and the block is    *)
(* small enough for the stack of the shell's programs.                     *)
ArgumentsArrive ==
    spc = "wait" =>
        LET words == Fields(ran[Len(ran)], {NL, SPACE})
            given == SubSeq(words, 1, Min({Len(words), MAX_ARGS - 1}))
        IN  /\ [k \in DOMAIN argdata.newargv |->
                  CString(argdata.block, argdata.newargv[k])] = given
            /\ \A k \in DOMAIN given : argdata.newargv[k] >= 8 + 4 * Len(given)
            /\ argdata_size(given) <= 2 * BUFSIZE + 4 * (MAX_ARGS - 1) + 8

(* The screen shows the last rows of everything that was written to it,    *)
(* wrapped, tabulated and scrolled, with the cursor behind the last        *)
(* character (write_to_screen, scroll).                                    *)
ScreenShowsTail ==
    LET sheet == Sheet(out) IN
    /\ \A y \in Row, x \in Col : display.cells[y][x] = Shown(sheet, y, x)
    /\ display.xpos = sheet.x
    /\ display.ypos = sheet.y - ShownFrom(sheet)

(* Characters in the pipe do not stay there while the shell is the one to  *)
(* read them: a sleeping shell is woken up.                                *)
KeysDelivered == len > 0 ~> len = 0 \/ spc \in {"wait", "exited"}

(***************************************************************************)
(* What the comment in sh.c says about lines that do not fit: they are     *)
(* ignored, so that every command that is run was typed as a line.         *)
(***************************************************************************)
LongLinesIgnored ==
    \A k \in DOMAIN ran :
        ran[k] = <<>> \/ \E j \in DOMAIN Lines(own) : ran[k] = Lines(own)[j]

=============================================================================

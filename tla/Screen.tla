------------------------------- MODULE Screen -------------------------------
(***************************************************************************)
(* The text screen (scroll and write_to_screen of source/main.c).          *)
(***************************************************************************)
EXTENDS Text

CONSTANTS SCREEN_WIDTH, SCREEN_HEIGHT, TabStop

ASSUME ScreenAssumption ==
    /\ SCREEN_WIDTH \in Nat /\ SCREEN_HEIGHT \in Nat /\ TabStop \in Nat
    /\ SCREEN_WIDTH >= 1 /\ SCREEN_HEIGHT >= 1 /\ TabStop >= 1

VARIABLE display   \* the cells by row and column, and the cursor

NL    == "nl"
TAB   == "tab"
SPACE == "sp"

Row == 0 .. (SCREEN_HEIGHT - 1)
Col == 0 .. (SCREEN_WIDTH - 1)
BlankRow == [x \in Col |-> SPACE]

CLEAR == [cells |-> [y \in Row |-> BlankRow], xpos |-> 0, ypos |-> 0]

scroll_keeps_last(d) ==
    [d EXCEPT !.cells = [y \in Row |-> IF y < SCREEN_HEIGHT - 1
                                       THEN d.cells[y + 1] ELSE d.cells[y]],
              !.ypos = @ - 1]

scroll(d) ==
    [d EXCEPT !.cells = [y \in Row |-> IF y < SCREEN_HEIGHT - 1
                                       THEN d.cells[y + 1] ELSE BlankRow],
              !.ypos = @ - 1]

ToNextTab(x) == x + TabStop - (x % TabStop)

write_char(d, c) ==
    LET moved ==
          CASE c = NL  -> [d EXCEPT !.xpos = 0, !.ypos = @ + 1]
            [] c = TAB -> [d EXCEPT !.xpos = ToNextTab(@)]
            [] OTHER   -> [d EXCEPT !.cells[d.ypos][d.xpos] = c, !.xpos = @ + 1]
        wrapped ==
          IF moved.xpos >= SCREEN_WIDTH
          THEN [moved EXCEPT !.xpos = 0, !.ypos = @ + 1]
          ELSE moved
    IN  IF wrapped.ypos >= SCREEN_HEIGHT THEN scroll(wrapped) ELSE wrapped

Written(d, text) ==
    LET after[k \in 0 .. Len(text)] ==
          IF k = 0 THEN d
          ELSE LET before == after[k - 1] IN write_char(before, text[k])
    IN  after[Len(text)]

write_to_screen(text) == display' = Written(display, text)

(***************************************************************************)
(* The reference: the text on an endless sheet, of which the screen shows  *)
(* the last rows.                                                          *)
(***************************************************************************)
Placed(sheet, c) ==
    LET x == CASE c = NL  -> SCREEN_WIDTH
               [] c = TAB -> ToNextTab(sheet.x)
               [] OTHER   -> sheet.x + 1
    IN  [x |-> IF x >= SCREEN_WIDTH THEN 0 ELSE x,
         y |-> IF x >= SCREEN_WIDTH THEN sheet.y + 1 ELSE sheet.y,
         ink |-> IF c \in {NL, TAB} THEN sheet.ink
                 ELSE sheet.ink \cup {<<sheet.y, sheet.x, c>>}]

Sheet(text) ==
    LET sheet[k \in 0 .. Len(text)] ==
          IF k = 0 THEN [x |-> 0, y |-> 0, ink |-> {}]
          ELSE LET before == sheet[k - 1] IN Placed(before, text[k])
    IN  sheet[Len(text)]

ShownFrom(sheet) == Max({0, sheet.y - SCREEN_HEIGHT + 1})

Shown(sheet, y, x) ==
    LET ink == {i \in sheet.ink : i[1] = ShownFrom(sheet) + y /\ i[2] = x}
    IN  IF ink = {} THEN SPACE ELSE (CHOOSE i \in ink : TRUE)[3]

=============================================================================

--------------------------- MODULE TerminalProofs ---------------------------
(***************************************************************************)
(* Proofs about module Terminal: the keyboard pipe is a reliable stream,   *)
(* the line buffer of the shell never overflows, and the screen shows the  *)
(* end of what was written to it, for every keyboard, size of buffer and   *)
(* screen, and set of commands.                                            *)
(***************************************************************************)
EXTENDS Terminal, TextProofs

(***************************************************************************)
(* The inductive invariant.                                                *)
(***************************************************************************)
(* The characters that may be in memory or on the screen.                  *)
Glyph == Char \cup {NUL, JUNK, NL, TAB, SPACE, "$", "!", "o"}

PipeOK ==
    /\ alloc \in Nat /\ alloc >= BUFSIZE /\ len \in 0 .. alloc
    /\ data \in [0 .. (alloc - 1) -> Glyph]

(* What was typed is what was read and, behind it, what is in the pipe.    *)
StreamOK ==
    /\ typed \in Seq(Char) /\ got \in Seq(Char) /\ Len(typed) = Len(got) + len
    /\ \A i \in 1 .. Len(got) : typed[i] = got[i]
    /\ \A i \in 1 .. len : typed[Len(got) + i] = data[i - 1]

(* The positions of the shell in its buffer, in each part of its loop.     *)
ShellOK ==
    /\ input \in [0 .. (2 * BUFSIZE) -> Glyph]
    /\ pos \in Nat /\ linestart \in Nat /\ end \in Nat
    /\ spc \in {"read", "echo", "scan", "wait", "exited"}
    /\ spc \in {"read", "exited"} => linestart = 0 /\ end = 0 /\ pos < BUFSIZE
    /\ spc = "echo" => linestart <= pos /\ pos <= end /\ end < 2 * BUFSIZE
    /\ spc \in {"scan", "wait"} => linestart <= pos /\ pos <= end /\ end < 2 * BUFSIZE

(***************************************************************************)
(* The buffer of the pipe.                                                 *)
(***************************************************************************)
(* The loop that doubles ends with the first size that is large enough.    *)
LEMMA DoubledEffect ==
    ASSUME NEW size \in Nat \ {0}, NEW need \in Nat
    PROVE  /\ Doubled(size, need) \in Nat /\ Doubled(size, need) >= need
           /\ Doubled(size, need) >= size
           /\ need <= size => Doubled(size, need) = size
           /\ need > size => Doubled(size, need) > size /\ Doubled(size, need) < 2 * need
<1>1. PICK step : step = [k \in 1 .. need |-> [x \in Nat |-> 2 * x]]
  OBVIOUS
<1>2. step \in [1 .. need -> [Nat -> Nat]]
  BY <1>1
<1>3. PICK g \in [0 .. need -> Nat] :
          g[0] = size /\ \A k \in 1 .. need : g[k] = step[k][g[k - 1]]
  <2>1. PICK D : D = Nat
    OBVIOUS
  <2>2. size \in D /\ step \in [1 .. need -> [D -> D]]
    BY <1>2, <2>1
  <2>3. \E g \in [0 .. need -> D] : Iterates(g, need, size, step)
    BY <2>2, Recursion
  <2> QED
    BY <2>1, <2>3 DEF Iterates
<1>4. g = [k \in 0 .. need |-> IF k = 0 THEN size ELSE 2 * g[k - 1]]
  <2>1. ASSUME NEW k \in 0 .. need PROVE g[k] = IF k = 0 THEN size ELSE 2 * g[k - 1]
    <3>1. CASE k = 0
      BY <1>3, <3>1
    <3>2. CASE k # 0
      <4>1. k \in 1 .. need /\ k - 1 \in 0 .. need
        BY <3>2
      <4>2. g[k - 1] \in Nat
        BY <4>1
      <4> QED
        BY <1>1, <1>3, <3>2, <4>1, <4>2
    <3> QED
      BY <3>1, <3>2
  <2> QED
    BY <2>1
<1>5. PICK h : h = CHOOSE f : f = [k \in 0 .. need |-> IF k = 0 THEN size ELSE 2 * f[k - 1]]
  OBVIOUS
<1>6. h = [k \in 0 .. need |-> IF k = 0 THEN size ELSE 2 * h[k - 1]]
  BY <1>4, <1>5
<1>7. Doublings(size, need) = {h[k] : k \in 0 .. need}
  BY <1>5 DEF Doublings
<1>8. h[0] = size /\ \A k \in 1 .. need : h[k] = 2 * h[k - 1]
  BY <1>6
<1>9. \A k \in 0 .. need : h[k] \in Nat /\ h[k] >= size + k
  <2>1. PICK T : T = {k \in Nat : k <= need => h[k] \in Nat /\ h[k] >= size + k}
    OBVIOUS
  <2>2. 0 \in T
    BY <1>8, <2>1
  <2>3. ASSUME NEW k \in Nat, k \in T PROVE k + 1 \in T
    <3> SUFFICES ASSUME k + 1 <= need PROVE h[k + 1] \in Nat /\ h[k + 1] >= size + (k + 1)
      BY <2>1
    <3>1. h[k] \in Nat /\ h[k] >= size + k
      BY <2>1, <2>3
    <3>2. k + 1 \in 1 .. need /\ (k + 1) - 1 = k
      OBVIOUS
    <3>3. h[k + 1] = 2 * h[k]
      BY <1>8, <3>2
    <3> QED
      BY <3>1, <3>3
  <2>4. \A k \in Nat : k \in T
    BY <2>2, <2>3, Induction
  <2> QED
    BY <2>1, <2>4
<1>10. PICK S : S = {s \in Doublings(size, need) : s >= need}
  OBVIOUS
<1>11. S \in SUBSET Nat
  BY <1>7, <1>9, <1>10
<1>12. h[need] \in S
  BY <1>7, <1>9, <1>10
<1>13. PICK r : r = Min(S) /\ r \in S /\ \A x \in S : r <= x
  BY <1>11, <1>12, Least
<1>14. Doubled(size, need) = r
  BY <1>10, <1>13 DEF Doubled
<1>15. PICK k \in 0 .. need : r = h[k]
  BY <1>7, <1>10, <1>13
<1>16. r \in Nat /\ r >= need /\ r >= size + k
  BY <1>9, <1>10, <1>11, <1>13, <1>15
<1>17. ASSUME need <= size PROVE r = size
  <2>1. size \in S
    BY <1>7, <1>8, <1>10, <1>17
  <2> QED
    BY <1>13, <1>16, <2>1
<1>18. ASSUME need > size PROVE r > size /\ r < 2 * need
  <2>1. k # 0
    BY <1>8, <1>15, <1>16, <1>18
  <2>2. k \in 1 .. need /\ k - 1 \in 0 .. need
    BY <2>1
  <2>3. r = 2 * h[k - 1] /\ h[k - 1] \in Nat
    BY <1>8, <1>9, <1>15, <2>2
  <2>4. h[k - 1] < need
    <3>1. h[k - 1] \in Doublings(size, need)
      BY <1>7, <2>2
    <3>2. ASSUME h[k - 1] >= need PROVE FALSE
      <4>1. r <= h[k - 1]
        BY <1>10, <1>13, <3>1, <3>2
      <4>2. h[k - 1] >= size + (k - 1) /\ k - 1 \in Nat
        BY <1>9, <2>2
      <4> QED
        BY <2>3, <4>1, <4>2
    <3> QED
      BY <2>3, <3>2
  <2> QED
    BY <1>16, <2>1, <2>3, <2>4
<1> QED
  BY <1>14, <1>16, <1>17, <1>18

(* write_to_pipe keeps what is in the pipe and adds the character.         *)
LEMMA WritePipe ==
    ASSUME PipeOK, NEW c \in Char, write_to_pipe(<<c>>)
    PROVE  /\ PipeOK' /\ len' = len + 1 /\ data'[len] = c
           /\ \A i \in 0 .. (len - 1) : data'[i] = data[i]
           /\ alloc' # alloc => alloc < len' /\ alloc' < 2 * len'
<1>1. /\ alloc \in Nat \ {0} /\ len \in Nat /\ len <= alloc /\ BUFSIZE \in Nat
      /\ alloc >= BUFSIZE /\ data \in [0 .. (alloc - 1) -> Glyph]
  BY BufsizeAssumption DEF PipeOK
<1>2. Len(<<c>>) = 1 /\ <<c>>[1] = c
  OBVIOUS
<1>3. PICK size : size = Doubled(alloc, len + 1)
  OBVIOUS
<1>4. /\ size \in Nat /\ size >= len + 1 /\ size >= alloc
      /\ len + 1 <= alloc => size = alloc
      /\ len + 1 > alloc => size > alloc /\ size < 2 * (len + 1)
  <2>1. PICK need \in Nat : need = len + 1
    BY <1>1
  <2>2. /\ Doubled(alloc, need) \in Nat /\ Doubled(alloc, need) >= need
        /\ Doubled(alloc, need) >= alloc
        /\ need <= alloc => Doubled(alloc, need) = alloc
        /\ need > alloc => Doubled(alloc, need) > alloc /\ Doubled(alloc, need) < 2 * need
    BY <1>1, DoubledEffect
  <2>3. size = Doubled(alloc, need)
    BY <1>3, <2>1
  <2> QED
    BY <2>1, <2>2, <2>3
<1>5. PICK old : old = IF size = alloc THEN data
                       ELSE [i \in 0 .. (size - 1) |-> IF i < len THEN data[i] ELSE JUNK]
  OBVIOUS
<1>6. /\ old \in [0 .. (size - 1) -> Glyph]
      /\ \A i \in 0 .. (len - 1) : old[i] = data[i]
  BY <1>1, <1>4, <1>5 DEF Glyph
<1>7. /\ data' = [i \in DOMAIN old |-> IF len <= i /\ i < len + 1 THEN <<c>>[i - len + 1]
                                       ELSE old[i]]
      /\ alloc' = size /\ len' = len + 1
  BY <1>2, <1>3, <1>5 DEF write_to_pipe
<1>8. \A i \in 0 .. (size - 1) : data'[i] = IF i = len THEN c ELSE old[i]
  <2> SUFFICES ASSUME NEW i \in 0 .. (size - 1) PROVE data'[i] = IF i = len THEN c ELSE old[i]
    OBVIOUS
  <2>1. CASE i = len
    <3>1. i - len + 1 = 1 /\ len <= i /\ i < len + 1
      BY <1>1, <2>1
    <3> QED
      BY <1>2, <1>6, <1>7, <2>1, <3>1
  <2>2. CASE i # len
    <3>1. ~(len <= i /\ i < len + 1)
      BY <1>1, <2>2
    <3> QED
      BY <1>6, <1>7, <2>2, <3>1
  <2> QED
    BY <2>1, <2>2
<1>9. data' \in [0 .. (size - 1) -> Glyph]
  <2>1. c \in Glyph
    BY DEF Glyph
  <2>2. DOMAIN data' = 0 .. (size - 1) /\ data' = [i \in DOMAIN data' |-> data'[i]]
    BY <1>6, <1>7
  <2>3. \A i \in 0 .. (size - 1) : data'[i] \in Glyph
    BY <1>6, <1>8, <2>1
  <2> QED
    BY <2>2, <2>3
<1>10. PipeOK'
  <2>1. alloc' \in Nat /\ alloc' >= BUFSIZE /\ len' \in 0 .. alloc'
    BY <1>1, <1>4, <1>7
  <2>2. data' \in [0 .. (alloc' - 1) -> Glyph]
    BY <1>7, <1>9
  <2> QED
    BY <2>1, <2>2 DEF PipeOK, Glyph, Char
<1>11. data'[len] = c /\ \A i \in 0 .. (len - 1) : data'[i] = data[i]
  <2>1. len \in 0 .. (size - 1)
    BY <1>1, <1>4
  <2>2. \A i \in 0 .. (len - 1) : i \in 0 .. (size - 1) /\ i # len
    BY <1>1, <1>4
  <2> QED
    BY <1>6, <1>8, <2>1, <2>2
<1>12. ASSUME size # alloc PROVE alloc < len + 1 /\ size < 2 * (len + 1)
  BY <1>1, <1>4, <1>12
<1> QED
  BY <1>7, <1>10, <1>11, <1>12

(* A read takes the first bytes and moves the rest to the front.           *)
LEMMA ReadPipe ==
    ASSUME PipeOK, NEW count \in Nat \ {0}, pipe_reader_read(count)
    PROVE  \E n \in 1 .. len :
             /\ n <= count /\ PipeOK' /\ len' = len - n /\ alloc' = alloc
             /\ \A i \in 0 .. (len - n - 1) : data'[i] = data[n + i]
             /\ FirstBytes(count) \in Seq(Glyph) /\ Len(FirstBytes(count)) = n
             /\ \A i \in 1 .. n : FirstBytes(count)[i] = data[i - 1]
<1>1. /\ alloc \in Nat \ {0} /\ len \in Nat /\ len <= alloc /\ BUFSIZE \in Nat
      /\ alloc >= BUFSIZE /\ data \in [0 .. (alloc - 1) -> Glyph]
  BY BufsizeAssumption DEF PipeOK
<1>2. PICK n : n = Min({count, len})
  OBVIOUS
<1>3. /\ len > 0 /\ data' = memmove(data, 0, n, len - n) /\ len' = len - n /\ alloc' = alloc
  BY <1>2 DEF pipe_reader_read
<1>4. n = IF count <= len THEN count ELSE len
  BY <1>1, <1>2, MinOfTwo
<1>5. n \in 1 .. len /\ n <= count /\ n \in Nat /\ len - n \in Nat
  BY <1>1, <1>3, <1>4
<1>6. data' = Moved(data, 0, n, len - n)
  <2>1. \A i \in n .. (n + (len - n) - 1) : i \in 0 .. (alloc - 1)
    BY <1>1, <1>5
  <2>2. PICK D \in SUBSET Int : D = 0 .. (alloc - 1)
    BY <1>1
  <2>3. PICK z \in Nat : z = 0 /\ z <= n
    BY <1>5
  <2>4. PICK k \in Nat : k = len - n
    BY <1>5
  <2>5. data \in [D -> Glyph] /\ \A i \in n .. (n + k - 1) : i \in D
    BY <1>1, <2>1, <2>2, <2>4
  <2>6. memmove(data, z, n, k) = Moved(data, z, n, k)
    BY <1>5, <2>3, <2>5, MemmoveDown
  <2> QED
    BY <1>3, <2>3, <2>4, <2>6
<1>7. /\ DOMAIN data' = 0 .. (alloc - 1)
      /\ data' = [i \in 0 .. (alloc - 1) |-> data'[i]]
      /\ \A i \in 0 .. (alloc - 1) :
            data'[i] = IF i \in 0 .. (len - n - 1) THEN data[n + i] ELSE data[i]
  <2>1. DOMAIN data = 0 .. (alloc - 1)
    BY <1>1
  <2>2. 0 + (len - n) - 1 = len - n - 1 /\ \A i \in 0 .. (alloc - 1) : n + (i - 0) = n + i
    BY <1>1, <1>5
  <2> QED
    BY <1>6, <2>1, <2>2 DEF Moved
<1>8. \A i \in 0 .. (len - n - 1) : n + i \in 0 .. (alloc - 1) /\ i \in 0 .. (alloc - 1)
  BY <1>1, <1>5
<1>9. data' \in [0 .. (alloc - 1) -> Glyph]
  <2>1. \A i \in 0 .. (alloc - 1) : data'[i] \in Glyph
    BY <1>1, <1>7, <1>8
  <2> QED
    BY <1>7, <2>1
<1>10. PipeOK'
  BY <1>1, <1>3, <1>5, <1>9 DEF PipeOK
<1>11. PICK bytes : bytes = [i \in 1 .. n |-> data[i - 1]]
  OBVIOUS
<1>12. bytes \in Seq(Glyph) /\ Len(bytes) = n
  <2>1. \A i \in 1 .. n : i - 1 \in 0 .. (alloc - 1)
    BY <1>1, <1>5
  <2>2. bytes \in [1 .. n -> Glyph]
    BY <1>1, <1>11, <2>1
  <2> QED
    BY <1>5, <1>11, <2>2
<1>13. FirstBytes(count) = bytes
  BY <1>2, <1>11 DEF FirstBytes
<1>14. \A i \in 0 .. (len - n - 1) : data'[i] = data[n + i]
  BY <1>7, <1>8
<1>15. \A i \in 1 .. n : FirstBytes(count)[i] = data[i - 1]
  BY <1>11, <1>13
<1> QED
  BY <1>3, <1>5, <1>10, <1>12, <1>13, <1>14, <1>15

(***************************************************************************)
(* The screen.                                                             *)
(***************************************************************************)
Display(S)  == [cells : [Row -> [Col -> S]], xpos : Col, ypos : Row]
Sheets(S)   == [x : Col, y : Nat, ink : SUBSET (Nat \X Col \X S)]

(* The column behind a character.                                          *)
Behind(x, c) == IF c = NL THEN SCREEN_WIDTH ELSE IF c = TAB THEN ToNextTab(x) ELSE x + 1

Wraps(x, c) == Behind(x, c) >= SCREEN_WIDTH

LEMMA BehindType ==
    ASSUME NEW x \in Col, NEW c
    PROVE  Behind(x, c) \in Nat /\ (~Wraps(x, c) => Behind(x, c) \in Col /\ Behind(x, c) > x)
<1>1. /\ SCREEN_WIDTH \in Nat /\ TabStop \in Nat \ {0} /\ x \in Nat /\ x < SCREEN_WIDTH
      /\ Col = 0 .. (SCREEN_WIDTH - 1)
  BY ScreenAssumption DEF Col
<1>2. x % TabStop \in 0 .. (TabStop - 1)
  BY <1>1
<1>3. ToNextTab(x) \in Nat /\ ToNextTab(x) > x
  BY <1>1, <1>2 DEF ToNextTab
<1>4. Behind(x, c) \in Nat /\ Behind(x, c) > x
  BY <1>1, <1>3 DEF Behind
<1> QED
  BY <1>1, <1>4 DEF Wraps

(* The two ends of a step: the endless sheet ...                           *)
LEMMA PlacedEffect ==
    ASSUME NEW S, NEW s \in Sheets(S), NEW c \in S
    PROVE  /\ Placed(s, c) \in Sheets(S)
           /\ Placed(s, c).x = IF Wraps(s.x, c) THEN 0 ELSE Behind(s.x, c)
           /\ Placed(s, c).y = IF Wraps(s.x, c) THEN s.y + 1 ELSE s.y
           /\ Placed(s, c).ink = IF c \in {NL, TAB} THEN s.ink
                                 ELSE s.ink \cup {<<s.y, s.x, c>>}
<1>1. s.x \in Col /\ s.y \in Nat /\ s.ink \in SUBSET (Nat \X Col \X S)
  BY DEF Sheets
<1>2. Behind(s.x, c) = CASE c = NL  -> SCREEN_WIDTH
                         [] c = TAB -> ToNextTab(s.x)
                         [] OTHER   -> s.x + 1
  BY DEF Behind, NL, TAB
<1>3. Placed(s, c) = [x |-> IF Wraps(s.x, c) THEN 0 ELSE Behind(s.x, c),
                      y |-> IF Wraps(s.x, c) THEN s.y + 1 ELSE s.y,
                      ink |-> IF c \in {NL, TAB} THEN s.ink
                              ELSE s.ink \cup {<<s.y, s.x, c>>}]
  BY <1>2 DEF Placed, Wraps
<1>4. (IF Wraps(s.x, c) THEN 0 ELSE Behind(s.x, c)) \in Col
  <2>1. 0 \in Col
    BY ScreenAssumption DEF Col
  <2> QED
    BY <1>1, <2>1, BehindType
<1>5. (IF Wraps(s.x, c) THEN s.y + 1 ELSE s.y) \in Nat
  BY <1>1
<1>6. (IF c \in {NL, TAB} THEN s.ink ELSE s.ink \cup {<<s.y, s.x, c>>})
          \in SUBSET (Nat \X Col \X S)
  BY <1>1
<1>7. Placed(s, c) \in Sheets(S)
  BY <1>3, <1>4, <1>5, <1>6 DEF Sheets
<1> QED
  BY <1>3, <1>7

(* ... and the screen.                                                     *)
Inked(d, c) == IF c \in {NL, TAB} THEN d.cells ELSE [d.cells EXCEPT ![d.ypos][d.xpos] = c]

NextRow(d, c) == IF Wraps(d.xpos, c) THEN d.ypos + 1 ELSE d.ypos

LEMMA WriteEffect ==
    ASSUME NEW S, NEW d \in Display(S), NEW c \in S
    PROVE  /\ write_char(d, c).xpos = IF Wraps(d.xpos, c) THEN 0 ELSE Behind(d.xpos, c)
           /\ write_char(d, c).ypos = IF NextRow(d, c) >= SCREEN_HEIGHT
                                      THEN NextRow(d, c) - 1 ELSE NextRow(d, c)
           /\ write_char(d, c).cells =
                IF NextRow(d, c) >= SCREEN_HEIGHT
                THEN [y \in Row |-> IF y < SCREEN_HEIGHT - 1 THEN Inked(d, c)[y + 1] ELSE BlankRow]
                ELSE Inked(d, c)
           /\ write_char(d, c) = [cells |-> write_char(d, c).cells,
                                  xpos |-> write_char(d, c).xpos,
                                  ypos |-> write_char(d, c).ypos]
<1>1. PICK cells, x, y : /\ d = [cells |-> cells, xpos |-> x, ypos |-> y]
                         /\ x \in Col /\ y \in Row /\ cells \in [Row -> [Col -> S]]
  BY DEF Display
<1>2. d.cells = cells /\ d.xpos = x /\ d.ypos = y
  BY <1>1
<1>3. /\ SCREEN_WIDTH \in Nat \ {0} /\ SCREEN_HEIGHT \in Nat \ {0} /\ x \in Nat /\ y \in Nat
  BY <1>1, ScreenAssumption DEF Row, Col
<1>4. PICK moved :
        moved = CASE c = NL  -> [d EXCEPT !.xpos = 0, !.ypos = @ + 1]
                  [] c = TAB -> [d EXCEPT !.xpos = ToNextTab(@)]
                  [] OTHER   -> [d EXCEPT !.cells[d.ypos][d.xpos] = c, !.xpos = @ + 1]
  OBVIOUS
<1>5. PICK wrapped :
        wrapped = IF moved.xpos >= SCREEN_WIDTH
                  THEN [moved EXCEPT !.xpos = 0, !.ypos = @ + 1] ELSE moved
  OBVIOUS
<1>6. write_char(d, c) = IF wrapped.ypos >= SCREEN_HEIGHT THEN scroll(wrapped) ELSE wrapped
  BY <1>4, <1>5 DEF write_char
<1>7. PICK i : i = Inked(d, c)
  OBVIOUS
<1>8. wrapped = [cells |-> i, xpos |-> IF Wraps(x, c) THEN 0 ELSE Behind(x, c),
                 ypos |-> NextRow(d, c)]
  <2>1. CASE c = NL
    <3>1. i = cells /\ Wraps(x, c) /\ NextRow(d, c) = y + 1
      BY <1>2, <1>3, <1>7, <2>1 DEF Inked, Wraps, Behind, NextRow
    <3>2. moved = [cells |-> cells, xpos |-> 0, ypos |-> y + 1]
      <4>1. c # TAB
        BY <2>1 DEF NL, TAB
      <4>2. moved = [d EXCEPT !.xpos = 0, !.ypos = @ + 1]
        BY <1>4, <2>1, <4>1
      <4> QED
        BY <1>1, <1>2, <4>2
    <3>3. ~(moved.xpos >= SCREEN_WIDTH)
      BY <1>3, <3>2
    <3> QED
      BY <1>5, <3>1, <3>2, <3>3
  <2>2. CASE c = TAB
    <3>1. c # NL
      BY <2>2 DEF NL, TAB
    <3>2. i = cells /\ Behind(x, c) = ToNextTab(x)
      BY <1>2, <1>7, <2>2, <3>1 DEF Inked, Behind
    <3>3. moved = [cells |-> cells, xpos |-> Behind(x, c), ypos |-> y]
      BY <1>1, <1>4, <2>2, <3>1, <3>2
    <3> QED
      BY <1>2, <1>5, <3>2, <3>3 DEF Wraps, NextRow
  <2>3. CASE c \notin {NL, TAB}
    <3>1. Behind(x, c) = x + 1
      BY <2>3 DEF Behind
    <3>2. i = [cells EXCEPT ![y][x] = c]
      BY <1>2, <1>7, <2>3 DEF Inked
    <3>3. moved = [d EXCEPT !.cells[d.ypos][d.xpos] = c, !.xpos = @ + 1]
      BY <1>4, <2>3
    <3>4. moved = [cells |-> i, xpos |-> Behind(x, c), ypos |-> y]
      BY <1>1, <1>2, <3>1, <3>2, <3>3
    <3> QED
      BY <1>2, <1>5, <3>4 DEF Wraps, NextRow
  <2> QED
    BY <2>1, <2>2, <2>3
<1>9. /\ wrapped.ypos = NextRow(d, c) /\ wrapped.cells = i
      /\ wrapped.xpos = IF Wraps(x, c) THEN 0 ELSE Behind(x, c)
  BY <1>8
<1>10. scroll(wrapped) = [cells |-> [z \in Row |-> IF z < SCREEN_HEIGHT - 1
                                                  THEN i[z + 1] ELSE BlankRow],
                          xpos |-> wrapped.xpos, ypos |-> NextRow(d, c) - 1]
  <2>1. PICK k : k = [z \in Row |-> IF z < SCREEN_HEIGHT - 1 THEN i[z + 1] ELSE BlankRow]
    OBVIOUS
  <2>2. scroll(wrapped) = [wrapped EXCEPT !.cells = k, !.ypos = @ - 1]
    BY <1>9, <2>1 DEF scroll
  <2>3. PICK u, v : u = wrapped.xpos /\ v = NextRow(d, c)
    OBVIOUS
  <2>4. wrapped = [cells |-> i, xpos |-> u, ypos |-> v]
    BY <1>8, <1>9, <2>3
  <2>5. scroll(wrapped) = [cells |-> k, xpos |-> u, ypos |-> v - 1]
    BY <2>2, <2>4
  <2> QED
    BY <2>1, <2>3, <2>5
<1>11. CASE NextRow(d, c) >= SCREEN_HEIGHT
  <2>1. write_char(d, c) = [cells |-> [z \in Row |-> IF z < SCREEN_HEIGHT - 1
                                                    THEN i[z + 1] ELSE BlankRow],
                            xpos |-> wrapped.xpos, ypos |-> NextRow(d, c) - 1]
    BY <1>6, <1>9, <1>10, <1>11
  <2> QED
    BY <1>2, <1>7, <1>9, <1>11, <2>1
<1>12. CASE ~(NextRow(d, c) >= SCREEN_HEIGHT)
  <2>1. write_char(d, c) = wrapped
    BY <1>6, <1>9, <1>12
  <2> QED
    BY <1>2, <1>7, <1>8, <1>9, <1>12, <2>1
<1> QED
  BY <1>11, <1>12

(* The character at a place of the sheet.                                  *)
At(ink, y, x) ==
    LET here == {i \in ink : i[1] = y /\ i[2] = x}
    IN  IF here = {} THEN SPACE ELSE (CHOOSE i \in here : TRUE)[3]

OnePerPlace(ink) == \A i, j \in ink : i[1] = j[1] /\ i[2] = j[2] => i[3] = j[3]

(* The ink lies before the cursor.                                         *)
BeforeCursor(s) == \A i \in s.ink : i[1] <= s.y /\ (i[1] = s.y => i[2] < s.x)

Matches(d, s) ==
    /\ OnePerPlace(s.ink) /\ BeforeCursor(s)
    /\ d.xpos = s.x /\ d.ypos = s.y - ShownFrom(s)
    /\ \A y \in Row, x \in Col : d.cells[y][x] = Shown(s, y, x)

LEMMA AtIs ==
    ASSUME NEW ink, OnePerPlace(ink), NEW y, NEW x
    PROVE  /\ \A i \in ink : i[1] = y /\ i[2] = x => At(ink, y, x) = i[3]
           /\ (\A i \in ink : ~(i[1] = y /\ i[2] = x)) => At(ink, y, x) = SPACE
<1>1. PICK here : here = {i \in ink : i[1] = y /\ i[2] = x}
  OBVIOUS
<1>2. At(ink, y, x) = IF here = {} THEN SPACE ELSE (CHOOSE i \in here : TRUE)[3]
  BY <1>1 DEF At
<1>3. ASSUME NEW i \in ink, i[1] = y, i[2] = x PROVE At(ink, y, x) = i[3]
  <2>1. PICK j : j = CHOOSE k \in here : TRUE
    OBVIOUS
  <2>2. i \in here
    BY <1>1, <1>3
  <2>3. j \in here
    BY <2>1, <2>2
  <2>4. j \in ink /\ j[1] = y /\ j[2] = x
    BY <1>1, <2>3
  <2>5. j[3] = i[3]
    BY <1>3, <2>4 DEF OnePerPlace
  <2> QED
    BY <1>2, <2>1, <2>2, <2>5
<1>4. ASSUME \A i \in ink : ~(i[1] = y /\ i[2] = x) PROVE At(ink, y, x) = SPACE
  <2>1. here = {}
    BY <1>1, <1>4
  <2> QED
    BY <1>2, <2>1
<1> QED
  BY <1>3, <1>4

(* New ink changes one place.                                              *)
Empty(ink, y, x) == \A i \in ink : ~(i[1] = y /\ i[2] = x)

LEMMA AtStep ==
    ASSUME NEW ink, NEW y, NEW x, NEW c, OnePerPlace(ink), Empty(ink, y, x),
           NEW new, new = ink \cup {<<y, x, c>>}
    PROVE  /\ OnePerPlace(new) /\ At(new, y, x) = c
           /\ \A v, u : ~(v = y /\ u = x) => At(new, v, u) = At(ink, v, u)
<1>1. PICK n : n = <<y, x, c>>
  OBVIOUS
<1>2. n[1] = y /\ n[2] = x /\ n[3] = c
  BY <1>1
<1>3. PICK more : more = ink \cup {n}
  OBVIOUS
<1>4. OnePerPlace(more)
  BY <1>2, <1>3 DEF OnePerPlace, Empty
<1>5. At(more, y, x) = c
  <2>1. n \in more
    BY <1>3
  <2> QED
    BY <1>2, <1>4, <2>1, AtIs
<1>6. ASSUME NEW v, NEW u, ~(v = y /\ u = x) PROVE At(more, v, u) = At(ink, v, u)
  <2>1. {i \in more : i[1] = v /\ i[2] = u} = {i \in ink : i[1] = v /\ i[2] = u}
    <3>1. ASSUME NEW i PROVE (i \in more /\ i[1] = v /\ i[2] = u) <=>
                             (i \in ink /\ i[1] = v /\ i[2] = u)
      <4>1. CASE i = n
        BY <1>2, <1>3, <1>6, <4>1
      <4>2. CASE i # n
        BY <1>3, <4>2
      <4> QED
        BY <4>1, <4>2
    <3> QED
      BY <3>1
  <2>2. PICK P, Q : /\ P = {i \in more : i[1] = v /\ i[2] = u}
                    /\ Q = {i \in ink : i[1] = v /\ i[2] = u}
    OBVIOUS
  <2>3. /\ At(more, v, u) = IF P = {} THEN SPACE ELSE (CHOOSE i \in P : TRUE)[3]
        /\ At(ink, v, u) = IF Q = {} THEN SPACE ELSE (CHOOSE i \in Q : TRUE)[3]
    BY <2>2 DEF At
  <2>4. P = Q
    BY <2>1, <2>2
  <2> QED
    BY <2>3, <2>4
<1> QED
  BY <1>1, <1>3, <1>4, <1>5, <1>6

LEMMA ShownFromIs ==
    ASSUME NEW s, s.y \in Nat
    PROVE  ShownFrom(s) = IF s.y < SCREEN_HEIGHT THEN 0 ELSE s.y - SCREEN_HEIGHT + 1
<1>1. SCREEN_HEIGHT \in Nat \ {0}
  BY ScreenAssumption
<1>2. PICK a \in Int : a = s.y - SCREEN_HEIGHT + 1
  BY <1>1
<1>3. PICK T : T = {0, a}
  OBVIOUS
<1>4. \E x \in T : \A y \in T : x >= y
  BY <1>2, <1>3
<1>5. Max(T) \in T /\ \A y \in T : Max(T) >= y
  BY <1>4 DEF Max
<1>6. Max(T) = IF s.y < SCREEN_HEIGHT THEN 0 ELSE a
  BY <1>1, <1>2, <1>3, <1>5
<1> QED
  BY <1>2, <1>3, <1>6 DEF ShownFrom

(* A character leaves a screen.                                            *)
LEMMA WriteType ==
    ASSUME NEW S, SPACE \in S, NEW d \in Display(S), NEW c \in S
    PROVE  write_char(d, c) \in Display(S)
<1>1. PICK H \in Nat \ {0} : H = SCREEN_HEIGHT /\ Row = 0 .. (H - 1)
  BY ScreenAssumption DEF Row
<1>2. PICK x \in Col, row \in Row, old \in [Row -> [Col -> S]] :
          x = d.xpos /\ row = d.ypos /\ old = d.cells
  BY DEF Display
<1>3. PICK nr : nr = NextRow(d, c)
  OBVIOUS
<1>4. PICK cells : cells = Inked(d, c)
  OBVIOUS
<1>5. PICK e : e = write_char(d, c)
  OBVIOUS
<1>6. /\ e.xpos = IF Wraps(x, c) THEN 0 ELSE Behind(x, c)
      /\ e.ypos = IF nr >= H THEN nr - 1 ELSE nr
      /\ e.cells = IF nr >= H
                   THEN [v \in Row |-> IF v < H - 1 THEN cells[v + 1] ELSE BlankRow]
                   ELSE cells
      /\ e = [cells |-> e.cells, xpos |-> e.xpos, ypos |-> e.ypos]
  BY <1>1, <1>2, <1>3, <1>4, <1>5, WriteEffect
<1>7. nr = row \/ nr = row + 1
  BY <1>2, <1>3 DEF NextRow
<1>8. e.ypos \in Row
  BY <1>1, <1>6, <1>7
<1>9. e.xpos \in Col
  <2>1. 0 \in Col
    BY ScreenAssumption DEF Col
  <2>2. ~Wraps(x, c) => Behind(x, c) \in Col
    BY BehindType
  <2> QED
    BY <1>6, <2>1, <2>2
<1>10. cells \in [Row -> [Col -> S]]
  <2>1. cells = IF c \in {NL, TAB} THEN old ELSE [old EXCEPT ![row][x] = c]
    BY <1>2, <1>4 DEF Inked
  <2> QED
    BY <2>1
<1>11. e.cells \in [Row -> [Col -> S]]
  <2>1. BlankRow \in [Col -> S]
    BY DEF BlankRow
  <2>2. \A v \in Row : v < H - 1 => v + 1 \in Row
    BY <1>1
  <2> QED
    BY <1>6, <1>10, <2>1, <2>2
<1> QED
  BY <1>5, <1>6, <1>8, <1>9, <1>11 DEF Display

(* write_char does to the screen what writing to the sheet does.           *)
LEMMA MatchStep ==
    ASSUME NEW S, SPACE \in S, NEW d \in Display(S), NEW s \in Sheets(S), NEW c \in S,
           Matches(d, s)
    PROVE  write_char(d, c) \in Display(S) /\ Matches(write_char(d, c), Placed(s, c))
<1>1. PICK e, t : e = write_char(d, c) /\ t = Placed(s, c)
  OBVIOUS
<1>2. PICK H \in Nat \ {0} : H = SCREEN_HEIGHT /\ Row = 0 .. (H - 1)
  BY ScreenAssumption DEF Row
<1>3. PICK ink : ink = s.ink /\ \E x \in Col, y \in Nat : x = s.x /\ y = s.y
  BY DEF Sheets
<1>4. PICK x \in Col, y \in Nat : x = s.x /\ y = s.y /\ ink = s.ink
  BY <1>3
<1>5. PICK w : w = IF Wraps(x, c) THEN y + 1 ELSE y
  OBVIOUS
<1>6. /\ t \in Sheets(S) /\ t.x = IF Wraps(x, c) THEN 0 ELSE Behind(x, c)
      /\ t.y = w /\ w \in Nat
      /\ t.ink = IF c \in {NL, TAB} THEN ink ELSE ink \cup {<<y, x, c>>}
  BY <1>1, <1>4, <1>5, PlacedEffect, SMTT(30)
<1>7. PICK F : F = ShownFrom(s)
  OBVIOUS
<1>8. F = IF y < H THEN 0 ELSE y - H + 1
  BY <1>2, <1>4, <1>7, ShownFromIs
<1>9. PICK G : G = ShownFrom(t)
  OBVIOUS
<1>10. G = IF w < H THEN 0 ELSE w - H + 1
  BY <1>2, <1>6, <1>9, ShownFromIs
<1>11. PICK row : row = d.ypos
  OBVIOUS
<1>12. /\ OnePerPlace(ink) /\ d.xpos = x /\ row = y - F
       /\ \A i \in ink : i[1] <= y /\ (i[1] = y => i[2] < x)
       /\ \A v \in Row, u \in Col : d.cells[v][u] = Shown(s, v, u)
  BY <1>4, <1>7, <1>11 DEF Matches, BeforeCursor
<1>13. /\ row \in Row /\ row \in Nat /\ F \in Nat /\ G \in Nat /\ F + row = y
       /\ d.cells \in [Row -> [Col -> S]]
  <2>1. row \in Row /\ d.cells \in [Row -> [Col -> S]]
    BY <1>11 DEF Display
  <2>2. F \in Nat /\ G \in Nat
    BY <1>2, <1>4, <1>6, <1>8, <1>10
  <2>3. row \in Nat
    BY <1>2, <2>1
  <2>4. F + row = y
    BY <1>4, <1>12, <2>2, <2>3
  <2> QED
    BY <2>1, <2>2, <2>3, <2>4
<1>14. PICK nr : nr = NextRow(d, c)
  OBVIOUS
<1>15. nr = IF Wraps(x, c) THEN row + 1 ELSE row
  BY <1>11, <1>12, <1>14 DEF NextRow
<1>16. PICK cells : cells = Inked(d, c)
  OBVIOUS
<1>17. /\ e.xpos = IF Wraps(x, c) THEN 0 ELSE Behind(x, c)
       /\ e.ypos = IF nr >= H THEN nr - 1 ELSE nr
       /\ e.cells = IF nr >= H
                    THEN [v \in Row |-> IF v < H - 1 THEN cells[v + 1] ELSE BlankRow]
                    ELSE cells
       /\ e = [cells |-> e.cells, xpos |-> e.xpos, ypos |-> e.ypos]
  BY <1>1, <1>2, <1>12, <1>14, <1>16, WriteEffect
<1>18. cells \in [Row -> [Col -> S]]
  BY <1>11, <1>12, <1>13, <1>16 DEF Inked
<1>19. x \in Int /\ \A i \in ink : ~(i[1] = y /\ i[2] = x)
  <2>1. x \in Int /\ x >= 0
    BY ScreenAssumption DEF Col
  <2> QED
    BY <1>12, <2>1
<1>20. ASSUME c \notin {NL, TAB}
       PROVE  /\ OnePerPlace(t.ink) /\ At(t.ink, y, x) = c
              /\ \A v, u : ~(v = y /\ u = x) => At(t.ink, v, u) = At(ink, v, u)
  <2>1. OnePerPlace(ink) /\ Empty(ink, y, x)
    BY <1>12, <1>19 DEF Empty
  <2>2. PICK new : new = t.ink
    OBVIOUS
  <2>3. new = ink \cup {<<y, x, c>>}
    BY <1>6, <1>20, <2>2
  <2>4. /\ OnePerPlace(new) /\ At(new, y, x) = c
        /\ \A v, u : ~(v = y /\ u = x) => At(new, v, u) = At(ink, v, u)
    BY <2>1, <2>3, AtStep
  <2> QED
    BY <2>2, <2>4
<1>21. OnePerPlace(t.ink)
  BY <1>6, <1>12, <1>20
<1>22. ASSUME NEW v \in Row, NEW u \in Col PROVE cells[v][u] = At(t.ink, F + v, u)
  <2>1. d.cells[v][u] = At(ink, F + v, u)
    BY <1>4, <1>7, <1>12 DEF Shown, At
  <2>2. CASE c \in {NL, TAB}
    BY <1>6, <1>16, <2>1, <2>2 DEF Inked
  <2>3. CASE c \notin {NL, TAB}
    <3>1. cells = [d.cells EXCEPT ![row][x] = c]
      BY <1>11, <1>12, <1>16, <2>3 DEF Inked
    <3>3. /\ At(t.ink, y, x) = c
          /\ \A a, b : ~(a = y /\ b = x) => At(t.ink, a, b) = At(ink, a, b)
      BY <1>20, <2>3
    <3>4. CASE v = row /\ u = x
      BY <1>13, <3>1, <3>3, <3>4
    <3>5. CASE ~(v = row /\ u = x)
      <4>1. cells[v][u] = d.cells[v][u]
        BY <1>13, <3>1, <3>5
      <4>2. ~(F + v = y /\ u = x)
        BY <1>2, <1>13, <3>5
      <4> QED
        BY <2>1, <3>3, <4>1, <4>2
    <3> QED
      BY <3>4, <3>5
  <2> QED
    BY <2>2, <2>3
<1>23. BeforeCursor(t)
  <2> SUFFICES ASSUME NEW i \in t.ink PROVE i[1] <= t.y /\ (i[1] = t.y => i[2] < t.x)
    BY DEF BeforeCursor
  <2>1. i \in Nat \X Col \X S
    BY <1>6 DEF Sheets
  <2>2. i[1] \in Int /\ i[2] \in Int /\ i[1] <= y /\ (i[1] = y => i[2] <= x)
    <3>1. i[1] \in Int /\ i[2] \in Int
      BY <2>1, ScreenAssumption DEF Col
    <3>2. i \in ink \/ i = <<y, x, c>>
      BY <1>6
    <3>3. CASE i \in ink
      BY <1>12, <1>19, <3>1, <3>3
    <3>4. CASE i = <<y, x, c>>
      BY <1>19, <3>4
    <3> QED
      BY <3>1, <3>2, <3>3, <3>4
  <2>3. CASE Wraps(x, c)
    BY <1>5, <1>6, <2>2, <2>3
  <2>4. CASE ~Wraps(x, c)
    <3>1. t.x \in Nat /\ t.x > x /\ t.y = y
      BY <1>5, <1>6, <2>4, BehindType
    <3> QED
      BY <1>19, <2>2, <3>1
  <2> QED
    BY <2>3, <2>4
<1>24. e.xpos = t.x
  BY <1>6, <1>17
<1>25. nr >= H <=> G = F + 1
  BY <1>5, <1>8, <1>10, <1>12, <1>15
<1>26. ~(nr >= H) => G = F
  BY <1>5, <1>8, <1>10, <1>12, <1>15
<1>27. e.ypos = w - G
  BY <1>2, <1>5, <1>6, <1>8, <1>10, <1>12, <1>15, <1>17
<1>28. ASSUME NEW v \in Row, NEW u \in Col PROVE e.cells[v][u] = Shown(t, v, u)
  <2>1. Shown(t, v, u) = At(t.ink, G + v, u)
    BY <1>9 DEF Shown, At
  <2>2. CASE ~(nr >= H)
    BY <1>17, <1>22, <1>26, <2>1, <2>2
  <2>3. CASE nr >= H /\ v < H - 1
    <3>1. v + 1 \in Row /\ F + (v + 1) = G + v
      <4>1. v \in Nat /\ v < H - 1
        BY <1>2, <2>3
      <4>2. G = F + 1 /\ F \in Nat
        BY <1>13, <1>25, <2>3
      <4>3. v + 1 \in Row
        BY <1>2, <4>1
      <4> QED
        BY <4>1, <4>2, <4>3
    <3>2. e.cells[v] = cells[v + 1]
      BY <1>17, <2>3
    <3> QED
      BY <1>22, <2>1, <3>1, <3>2
  <2>4. CASE nr >= H /\ ~(v < H - 1)
    <3>1. e.cells[v] = BlankRow
      BY <1>17, <2>4
    <3>2. v = H - 1 /\ G + v = w /\ Wraps(x, c)
      BY <1>2, <1>5, <1>8, <1>10, <1>12, <1>13, <1>15, <1>25, <2>4
    <3>3. t.x = 0
      BY <1>6, <3>2
    <3>4. ASSUME NEW i \in t.ink, i[1] = w PROVE FALSE
      <4>1. i \in Nat \X Col \X S
        BY <1>6 DEF Sheets
      <4>2. i[2] \in Int /\ i[2] >= 0
        BY <4>1, ScreenAssumption DEF Col
      <4>3. i[2] < 0
        BY <1>6, <1>23, <3>3, <3>4 DEF BeforeCursor
      <4> QED
        BY <4>2, <4>3
    <3>5. At(t.ink, w, u) = SPACE
      BY <1>21, <3>4, AtIs
    <3> QED
      BY <2>1, <3>1, <3>2, <3>5 DEF BlankRow
  <2> QED
    BY <2>2, <2>3, <2>4
<1>29. e \in Display(S)
  BY <1>1, WriteType
<1>30. Matches(e, t)
  BY <1>6, <1>9, <1>21, <1>23, <1>24, <1>27, <1>28 DEF Matches
<1> QED
  BY <1>1, <1>29, <1>30

(* The screens and the sheets while a text is written, step by step.       *)
Screens(g, d, text) ==
    g[0] = d /\ \A k \in 1 .. Len(text) : g[k] = write_char(g[k - 1], text[k])

Pages(g, s, text) ==
    g[0] = s /\ \A k \in 1 .. Len(text) : g[k] = Placed(g[k - 1], text[k])

LEMMA WrittenSteps ==
    ASSUME NEW S, SPACE \in S, NEW d \in Display(S), NEW text \in Seq(S)
    PROVE  \E g : Screens(g, d, text) /\ Written(d, text) = g[Len(text)]
<1>1. PICK n \in Nat : n = Len(text)
  OBVIOUS
<1>2. PICK D : D = Display(S)
  OBVIOUS
<1>3. PICK step : step = [k \in 1 .. n |-> [e \in D |-> write_char(e, text[k])]]
  OBVIOUS
<1>4. \A k \in 1 .. n : text[k] \in S
  BY <1>1
<1>5. \A k \in 1 .. n : \A e \in D : write_char(e, text[k]) \in D
  BY <1>2, <1>4, WriteType
<1>6. step \in [1 .. n -> [D -> D]]
  BY <1>3, <1>5
<1>7. d \in D
  BY <1>2
<1>8. PICK f \in [0 .. n -> D] : Iterates(f, n, d, step)
  BY <1>6, <1>7, Recursion
<1>9. ASSUME NEW k \in 0 .. n
      PROVE  f[k] = IF k = 0 THEN d ELSE write_char(f[k - 1], text[k])
  <2>1. CASE k = 0
    BY <1>8, <2>1 DEF Iterates
  <2>2. CASE k # 0
    <3>1. k \in 1 .. n /\ k - 1 \in 0 .. n
      BY <2>2
    <3>2. f[k] = step[k][f[k - 1]] /\ f[k - 1] \in D
      BY <1>8, <3>1 DEF Iterates
    <3> QED
      BY <1>3, <2>2, <3>1, <3>2
  <2> QED
    BY <2>1, <2>2
<1>10. f = [k \in 0 .. n |-> IF k = 0 THEN d
                             ELSE LET before == f[k - 1] IN write_char(before, text[k])]
  BY <1>9
<1>11. PICK h : h = CHOOSE g : g = [k \in 0 .. n |-> IF k = 0 THEN d
                             ELSE LET before == g[k - 1] IN write_char(before, text[k])]
  OBVIOUS
<1>12. h = [k \in 0 .. n |-> IF k = 0 THEN d
                             ELSE LET before == h[k - 1] IN write_char(before, text[k])]
  BY <1>10, <1>11
<1>13. Written(d, text) = h[n]
  BY <1>1, <1>11 DEF Written
<1>14. \A k \in 0 .. n : h[k] = IF k = 0 THEN d ELSE write_char(h[k - 1], text[k])
  BY <1>12, Zenon
<1>15. Screens(h, d, text)
  <2>1. 0 \in 0 .. n
    OBVIOUS
  <2>2. \A k \in 1 .. n : k \in 0 .. n /\ k # 0
    OBVIOUS
  <2> QED
    BY <1>1, <1>14, <2>1, <2>2 DEF Screens
<1> QED
  BY <1>1, <1>13, <1>15

Blank == [x |-> 0, y |-> 0, ink |-> {}]

LEMMA BlankType == ASSUME NEW S PROVE Blank \in Sheets(S)
<1>1. 0 \in Col
  BY ScreenAssumption DEF Col
<1> QED
  BY <1>1 DEF Blank, Sheets

LEMMA SheetSteps ==
    ASSUME NEW S, NEW text \in Seq(S)
    PROVE  \E g : Pages(g, Blank, text) /\ Sheet(text) = g[Len(text)]
<1>1. PICK n \in Nat : n = Len(text)
  OBVIOUS
<1>2. PICK D, d : D = Sheets(S) /\ d = Blank
  OBVIOUS
<1>3. PICK step : step = [k \in 1 .. n |-> [e \in D |-> Placed(e, text[k])]]
  OBVIOUS
<1>4. \A k \in 1 .. n : text[k] \in S
  BY <1>1
<1>5. \A k \in 1 .. n : \A e \in D : Placed(e, text[k]) \in D
  BY <1>2, <1>4, PlacedEffect
<1>6. step \in [1 .. n -> [D -> D]]
  BY <1>3, <1>5
<1>7. d \in D
  BY <1>2, BlankType
<1>8. PICK f \in [0 .. n -> D] : Iterates(f, n, d, step)
  BY <1>6, <1>7, Recursion
<1>9. ASSUME NEW k \in 0 .. n
      PROVE  f[k] = IF k = 0 THEN d ELSE Placed(f[k - 1], text[k])
  <2>1. CASE k = 0
    BY <1>8, <2>1 DEF Iterates
  <2>2. CASE k # 0
    <3>1. k \in 1 .. n /\ k - 1 \in 0 .. n
      BY <2>2
    <3>2. f[k] = step[k][f[k - 1]] /\ f[k - 1] \in D
      BY <1>8, <3>1 DEF Iterates
    <3> QED
      BY <1>3, <2>2, <3>1, <3>2
  <2> QED
    BY <2>1, <2>2
<1>10. f = [k \in 0 .. n |-> IF k = 0 THEN d
                             ELSE LET before == f[k - 1] IN Placed(before, text[k])]
  BY <1>9
<1>11. PICK h : h = CHOOSE g : g = [k \in 0 .. n |-> IF k = 0 THEN d
                             ELSE LET before == g[k - 1] IN Placed(before, text[k])]
  OBVIOUS
<1>12. h = [k \in 0 .. n |-> IF k = 0 THEN d
                             ELSE LET before == h[k - 1] IN Placed(before, text[k])]
  BY <1>10, <1>11
<1>13. Sheet(text) = h[n]
  BY <1>1, <1>2, <1>11 DEF Sheet, Blank
<1>14. \A k \in 0 .. n : h[k] = IF k = 0 THEN d ELSE Placed(h[k - 1], text[k])
  BY <1>12, Zenon
<1>15. Pages(h, d, text)
  <2>1. 0 \in 0 .. n
    OBVIOUS
  <2>2. \A k \in 1 .. n : k \in 0 .. n /\ k # 0
    OBVIOUS
  <2> QED
    BY <1>1, <1>14, <2>1, <2>2 DEF Pages
<1> QED
  BY <1>1, <1>2, <1>13, <1>15

(* A sheet is written to where the text before it ended.                   *)
LEMMA SheetAppend ==
    ASSUME NEW S, NEW old \in Seq(S), NEW text \in Seq(S)
    PROVE  \E p : Pages(p, Sheet(old), text) /\ Sheet(old \o text) = p[Len(text)]
<1>1. PICK m \in Nat, n \in Nat : m = Len(old) /\ n = Len(text)
  OBVIOUS
<1>2. PICK all : all = old \o text
  OBVIOUS
<1>3. /\ all \in Seq(S) /\ Len(all) = m + n
      /\ \A k \in 1 .. m : all[k] = old[k]
      /\ \A k \in 1 .. n : all[m + k] = text[k]
  BY <1>1, <1>2
<1>4. PICK f : Pages(f, Blank, old) /\ Sheet(old) = f[Len(old)]
  BY SheetSteps
<1>5. PICK h : Pages(h, Blank, all) /\ Sheet(all) = h[Len(all)]
  BY <1>3, SheetSteps
<1>6. PICK T : T = {k \in Nat : k <= m => h[k] = f[k]}
  OBVIOUS
<1>7. 0 \in T
  BY <1>4, <1>5, <1>6 DEF Pages
<1>8. ASSUME NEW k \in Nat, k \in T PROVE k + 1 \in T
  <2> SUFFICES ASSUME k + 1 <= m PROVE h[k + 1] = f[k + 1]
    BY <1>6
  <2>1. PICK j \in 1 .. m : j = k + 1 /\ j - 1 = k
    OBVIOUS
  <2>2. j \in 1 .. Len(old) /\ j \in 1 .. Len(all) /\ all[j] = old[j]
    BY <1>1, <1>3
  <2>3. f[j] = Placed(f[j - 1], old[j]) /\ h[j] = Placed(h[j - 1], all[j])
    BY <1>4, <1>5, <2>2 DEF Pages
  <2>4. h[j - 1] = f[j - 1]
    BY <1>6, <1>8, <2>1
  <2> QED
    BY <2>1, <2>2, <2>3, <2>4
<1>9. h[m] = Sheet(old)
  <2>1. m \in T
    BY <1>7, <1>8, Induction
  <2> QED
    BY <1>1, <1>4, <1>6, <2>1
<1>10. PICK p : p = [k \in 0 .. n |-> h[m + k]]
  OBVIOUS
<1>11. p[0] = Sheet(old) /\ p[n] = Sheet(all)
  <2>1. p[0] = h[m] /\ p[n] = h[m + n]
    BY <1>10
  <2> QED
    BY <1>3, <1>5, <1>9, <2>1
<1>12. ASSUME NEW k \in 1 .. n PROVE p[k] = Placed(p[k - 1], text[k])
  <2>1. PICK j : j = m + k
    OBVIOUS
  <2>2. j \in 1 .. Len(all) /\ j - 1 = m + (k - 1) /\ k - 1 \in 0 .. n /\ k \in 0 .. n
    BY <1>3, <2>1
  <2>3. h[j] = Placed(h[j - 1], all[j])
    BY <1>5, <2>2 DEF Pages
  <2>4. p[k] = h[j] /\ p[k - 1] = h[j - 1]
    BY <1>10, <2>1, <2>2
  <2>5. all[j] = text[k]
    BY <1>3, <2>1
  <2> QED
    BY <2>3, <2>4, <2>5
<1>13. Pages(p, Sheet(old), text)
  BY <1>1, <1>11, <1>12 DEF Pages
<1> QED
  BY <1>1, <1>2, <1>11, <1>13

LEMMA SheetType ==
    ASSUME NEW S, NEW text \in Seq(S)
    PROVE  Sheet(text) \in Sheets(S)
<1>1. PICK n \in Nat : n = Len(text)
  OBVIOUS
<1>2. PICK g : Pages(g, Blank, text) /\ Sheet(text) = g[n]
  BY <1>1, SheetSteps
<1>3. PICK T : T = {k \in Nat : k <= n => g[k] \in Sheets(S)}
  OBVIOUS
<1>4. 0 \in T
  BY <1>2, <1>3, BlankType DEF Pages
<1>5. ASSUME NEW k \in Nat, k \in T PROVE k + 1 \in T
  <2> SUFFICES ASSUME k + 1 <= n PROVE g[k + 1] \in Sheets(S)
    BY <1>3
  <2>1. PICK j \in 1 .. n : j = k + 1 /\ j - 1 = k
    OBVIOUS
  <2>2. g[j] = Placed(g[j - 1], text[j]) /\ text[j] \in S
    BY <1>1, <1>2, <2>1 DEF Pages
  <2>3. g[j - 1] \in Sheets(S)
    BY <1>3, <1>5, <2>1
  <2>4. Placed(g[j - 1], text[j]) \in Sheets(S)
    BY <2>2, <2>3, PlacedEffect
  <2> QED
    BY <2>1, <2>2, <2>4
<1>6. n \in T
  BY <1>4, <1>5, Induction
<1> QED
  BY <1>2, <1>3, <1>6

(* Writing a text keeps the screen and the sheet together.                 *)
LEMMA ShowMatches ==
    ASSUME NEW S, SPACE \in S, NEW d \in Display(S), NEW old \in Seq(S), NEW text \in Seq(S),
           Matches(d, Sheet(old))
    PROVE  /\ Written(d, text) \in Display(S)
           /\ old \o text \in Seq(S) /\ Matches(Written(d, text), Sheet(old \o text))
<1>1. PICK n \in Nat : n = Len(text)
  OBVIOUS
<1>2. PICK g : Screens(g, d, text) /\ Written(d, text) = g[n]
  BY <1>1, WrittenSteps
<1>3. PICK s \in Sheets(S) : s = Sheet(old)
  BY SheetType
<1>4. PICK p : Pages(p, s, text) /\ Sheet(old \o text) = p[n]
  BY <1>1, <1>3, SheetAppend
<1>5. PICK T : T = {k \in Nat : k <= n => /\ g[k] \in Display(S) /\ p[k] \in Sheets(S)
                                          /\ Matches(g[k], p[k])}
  OBVIOUS
<1>6. 0 \in T
  BY <1>2, <1>3, <1>4, <1>5 DEF Screens, Pages
<1>7. ASSUME NEW k \in Nat, k \in T PROVE k + 1 \in T
  <2> SUFFICES ASSUME k + 1 <= n
               PROVE  /\ g[k + 1] \in Display(S) /\ p[k + 1] \in Sheets(S)
                      /\ Matches(g[k + 1], p[k + 1])
    BY <1>5
  <2>1. PICK j \in 1 .. n : j = k + 1 /\ j - 1 = k
    OBVIOUS
  <2>2. g[j] = write_char(g[j - 1], text[j]) /\ p[j] = Placed(p[j - 1], text[j])
    BY <1>1, <1>2, <1>4, <2>1 DEF Screens, Pages
  <2>3. PICK e \in Display(S), t \in Sheets(S) : e = g[j - 1] /\ t = p[j - 1] /\ Matches(e, t)
    BY <1>5, <1>7, <2>1
  <2>4. PICK c \in S : c = text[j]
    BY <1>1
  <2>5. write_char(e, c) \in Display(S) /\ Matches(write_char(e, c), Placed(t, c))
    BY <2>3, MatchStep
  <2>6. Placed(t, c) \in Sheets(S)
    BY PlacedEffect
  <2>7. g[j] = write_char(e, c) /\ p[j] = Placed(t, c)
    BY <2>2, <2>3, <2>4
  <2> QED
    BY <2>1, <2>5, <2>6, <2>7
<1>8. n \in T
  BY <1>6, <1>7, Induction
<1>9. old \o text \in Seq(S)
  OBVIOUS
<1> QED
  BY <1>2, <1>4, <1>5, <1>8, <1>9

(* The screen is the end of the sheet with everything that was written.    *)
ScreenOK ==
    /\ display \in Display(Glyph) /\ out \in Seq(Glyph)
    /\ Matches(display, Sheet(out))

TInv == PipeOK /\ StreamOK /\ ShellOK /\ ScreenOK

(***************************************************************************)
(* The steps.                                                              *)
(***************************************************************************)
LEMMA ShowScreen ==
    ASSUME ScreenOK, NEW text \in Seq(Glyph), show(text)
    PROVE  ScreenOK'
<1>1. PICK S : S = Glyph
  OBVIOUS
<1>2. SPACE \in S
  BY <1>1 DEF Glyph
<1>3. PICK d \in Display(S), old \in Seq(S) : d = display /\ old = out /\ Matches(d, Sheet(old))
  BY <1>1 DEF ScreenOK
<1>4. text \in Seq(S)
  BY <1>1
<1>5. /\ Written(d, text) \in Display(S)
      /\ old \o text \in Seq(S) /\ Matches(Written(d, text), Sheet(old \o text))
  BY <1>2, <1>3, <1>4, ShowMatches
<1>6. display' = Written(d, text) /\ out' = old \o text
  BY <1>3 DEF show, write_to_screen
<1>7. display' \in Display(S) /\ out' \in Seq(S) /\ Matches(display', Sheet(out'))
  BY <1>5, <1>6
<1> QED
  BY <1>1, <1>7 DEF ScreenOK

LEMMA ScreenKept ==
    ASSUME ScreenOK, UNCHANGED <<out, display>>
    PROVE  ScreenOK'
BY DEF ScreenOK

(* A key press adds the character at the end of what was typed, a read     *)
(* takes what was typed first.                                             *)
LEMMA TypedStream ==
    ASSUME PipeOK, StreamOK, NEW c \in Char, write_to_pipe(<<c>>), typed' = Append(typed, c),
           got' = got
    PROVE  StreamOK'
<1>1. /\ len \in Nat /\ typed \in Seq(Char) /\ got \in Seq(Char) /\ Len(typed) = Len(got) + len
      /\ Len(got) \in Nat
      /\ \A i \in 1 .. Len(got) : typed[i] = got[i]
      /\ \A i \in 1 .. len : typed[Len(got) + i] = data[i - 1]
  BY DEF PipeOK, StreamOK
<1>2. len' = len + 1 /\ data'[len] = c /\ \A i \in 0 .. (len - 1) : data'[i] = data[i]
  BY WritePipe
<1>3. /\ typed' \in Seq(Char) /\ Len(typed') = Len(typed) + 1 /\ typed'[Len(typed) + 1] = c
      /\ \A i \in 1 .. Len(typed) : typed'[i] = typed[i]
  BY <1>1
<1>4. \A i \in 1 .. Len(got) : typed'[i] = got[i]
  BY <1>1, <1>3
<1>5. ASSUME NEW i \in 1 .. (len + 1) PROVE typed'[Len(got) + i] = data'[i - 1]
  <2>1. CASE i = len + 1
    <3>1. Len(got) + i = Len(typed) + 1 /\ i - 1 = len
      BY <1>1, <2>1
    <3> QED
      BY <1>2, <1>3, <3>1
  <2>2. CASE i # len + 1
    <3>1. i \in 1 .. len /\ i - 1 \in 0 .. (len - 1) /\ Len(got) + i \in 1 .. Len(typed)
      BY <1>1, <2>2
    <3> QED
      BY <1>1, <1>2, <1>3, <3>1
  <2> QED
    BY <2>1, <2>2
<1> QED
  BY <1>1, <1>2, <1>3, <1>4, <1>5 DEF StreamOK

LEMMA ReadStream ==
    ASSUME PipeOK, StreamOK, NEW count \in Nat \ {0}, pipe_reader_read(count),
           got' = got \o FirstBytes(count), typed' = typed
    PROVE  /\ StreamOK'
           /\ \E n \in 1 .. (Len(typed) - Len(got)) : got' = SubSeq(typed, 1, Len(got) + n)
<1>1. /\ len \in Nat /\ typed \in Seq(Char) /\ got \in Seq(Char) /\ Len(typed) = Len(got) + len
      /\ Len(got) \in Nat
      /\ \A i \in 1 .. Len(got) : typed[i] = got[i]
      /\ \A i \in 1 .. len : typed[Len(got) + i] = data[i - 1]
  BY DEF PipeOK, StreamOK
<1>2. PICK bytes : bytes = FirstBytes(count)
  OBVIOUS
<1>3. PICK n \in 1 .. len :
          /\ len' = len - n
          /\ \A i \in 0 .. (len - n - 1) : data'[i] = data[n + i]
          /\ bytes \in Seq(Glyph) /\ Len(bytes) = n
          /\ \A i \in 1 .. n : bytes[i] = data[i - 1]
  BY <1>2, ReadPipe
<1>4. PICK m \in Nat : m = Len(got)
  BY <1>1
<1>5. ASSUME NEW i \in 1 .. n PROVE bytes[i] = typed[m + i]
  <2>1. i \in 1 .. len
    BY <1>1, <1>3
  <2>2. typed[m + i] = data[i - 1]
    BY <1>1, <1>4, <2>1
  <2> QED
    BY <1>3, <2>2
<1>6. PICK all : all = got \o bytes
  OBVIOUS
<1>7. /\ Len(all) = m + n
      /\ \A i \in 1 .. m : all[i] = got[i]
      /\ \A i \in 1 .. n : all[m + i] = bytes[i]
      /\ all \in Seq(Glyph)
  <2>1. Char \subseteq Glyph
    BY DEF Glyph
  <2>2. got \in Seq(Glyph)
    <3>1. \A i \in 1 .. Len(got) : got[i] \in Glyph
      BY <1>1, <2>1
    <3> QED
      BY <1>1, <3>1
  <2>3. PICK S : S = Glyph
    OBVIOUS
  <2>4. got \in Seq(S) /\ bytes \in Seq(S)
    BY <1>3, <2>2, <2>3
  <2>5. /\ got \o bytes \in Seq(S) /\ Len(got \o bytes) = Len(got) + Len(bytes)
        /\ \A i \in 1 .. Len(got) : (got \o bytes)[i] = got[i]
        /\ \A i \in 1 .. Len(bytes) : (got \o bytes)[Len(got) + i] = bytes[i]
    BY <2>4
  <2> QED
    BY <1>3, <1>4, <1>6, <2>3, <2>5
<1>8. ASSUME NEW i \in 1 .. (m + n) PROVE all[i] = typed[i]
  <2>1. CASE i <= m
    BY <1>1, <1>4, <1>7, <2>1
  <2>2. CASE i > m
    <3>1. PICK j \in 1 .. n : i = m + j
      <4>1. i - m \in 1 .. n /\ i = m + (i - m)
        BY <1>4, <2>2
      <4> QED
        BY <4>1
    <3> QED
      BY <1>5, <1>7, <3>1
  <2> QED
    BY <1>4, <2>1, <2>2
<1>9. m + n \in 1 .. Len(typed)
  BY <1>1, <1>3, <1>4
<1>10. all = SubSeq(typed, 1, m + n)
  <2>1. PICK s : s = SubSeq(typed, 1, m + n)
    OBVIOUS
  <2>2. s \in Seq(Char) /\ Len(s) = m + n /\ \A i \in 1 .. (m + n) : s[i] = typed[i]
    BY <1>1, <1>9, <2>1
  <2>3. \A i \in 1 .. (m + n) : all[i] = s[i]
    BY <1>8, <2>2
  <2> QED
    BY <1>7, <2>1, <2>2, <2>3
<1>11. all \in Seq(Char)
  BY <1>1, <1>9, <1>10
<1>12. ASSUME NEW i \in 1 .. (len - n) PROVE typed[(m + n) + i] = data'[i - 1]
  <2>1. n + i \in 1 .. len /\ i - 1 \in 0 .. (len - n - 1) /\ n + (i - 1) = (n + i) - 1
        /\ m + (n + i) = (m + n) + i
    BY <1>1, <1>4
  <2>2. typed[m + (n + i)] = data[(n + i) - 1]
    BY <1>1, <1>4, <2>1
  <2>3. data'[i - 1] = data[n + (i - 1)]
    BY <1>3, <2>1
  <2> QED
    BY <2>1, <2>2, <2>3
<1>13. got' = all
  BY <1>2, <1>6
<1>14. Len(typed) = (m + n) + (len - n)
  BY <1>1, <1>4
<1>15. StreamOK'
  <2>1. typed' \in Seq(Char) /\ got' \in Seq(Char)
    BY <1>1, <1>11, <1>13
  <2>2. Len(got') = m + n /\ Len(typed') = Len(got') + len'
    BY <1>3, <1>7, <1>13, <1>14
  <2>3. \A i \in 1 .. Len(got') : typed'[i] = got'[i]
    BY <1>8, <1>13, <2>2
  <2>4. \A i \in 1 .. len' : typed'[Len(got') + i] = data'[i - 1]
    BY <1>3, <1>12, <2>2
  <2> QED
    BY <2>1, <2>2, <2>3, <2>4 DEF StreamOK
<1>16. n \in 1 .. (Len(typed) - Len(got)) /\ got' = SubSeq(typed, 1, Len(got) + n)
  BY <1>1, <1>4, <1>10, <1>13
<1> QED
  BY <1>15, <1>16

(* What is printed consists of characters.                                 *)
LEMMA Texts ==
    /\ Prompt \in Seq(Glyph) /\ Message \o Prompt \in Seq(Glyph) /\ <<"!">> \in Seq(Glyph)
    /\ \A text \in {<<>>, Output} : text \o Prompt \in Seq(Glyph)
<1>1. PICK S : S = Glyph
  OBVIOUS
<1>2. NL \in S /\ TAB \in S /\ "$" \in S /\ "!" \in S /\ "o" \in S
  BY <1>1 DEF Glyph
<1>3. Prompt \in Seq(S) /\ Message \in Seq(S) /\ Output \in Seq(S) /\ <<"!">> \in Seq(S)
  BY <1>2 DEF Prompt, Message, Output
<1>4. <<>> \in Seq(S)
  OBVIOUS
<1>5. Message \o Prompt \in Seq(S) /\ Output \o Prompt \in Seq(S) /\ <<>> \o Prompt \in Seq(S)
  BY <1>3, <1>4
<1> QED
  BY <1>1, <1>3, <1>5

LEMMA InitInvariant == TerminalInit => TInv
<1> SUFFICES ASSUME TerminalInit PROVE TInv
  OBVIOUS
<1>1. BUFSIZE \in Nat /\ BUFSIZE >= 1 /\ JUNK \in Glyph
  BY BufsizeAssumption DEF Glyph
<1>2. /\ data = [i \in 0 .. (BUFSIZE - 1) |-> JUNK] /\ alloc = BUFSIZE /\ len = 0
      /\ display = Written(CLEAR, Message \o Prompt) /\ out = Message \o Prompt
      /\ input = [i \in 0 .. (2 * BUFSIZE) |-> JUNK]
      /\ pos = 0 /\ linestart = 0 /\ end = 0 /\ spc = "read" /\ got = <<>> /\ typed = <<>>
  BY DEF TerminalInit, Init, new_pipe
<1>3. PipeOK
  BY <1>1, <1>2 DEF PipeOK
<1>4. StreamOK
  BY <1>2 DEF StreamOK
<1>5. ShellOK
  BY <1>1, <1>2 DEF ShellOK
<1>6. ScreenOK
  <2>1. PICK S : S = Glyph
    OBVIOUS
  <2>2. SPACE \in S
    BY <2>1 DEF Glyph
  <2>3. PICK text \in Seq(S) : text = Message \o Prompt
    BY <2>1, Texts
  <2>4. PICK old \in Seq(S) : old = <<>>
    <3>1. <<>> \in Seq(S)
      OBVIOUS
    <3> QED
      BY <3>1, Zenon
  <2>5. PICK H \in Nat \ {0} : H = SCREEN_HEIGHT /\ Row = 0 .. (H - 1) /\ 0 \in Row /\ 0 \in Col
    BY ScreenAssumption DEF Row, Col
  <2>6. BlankRow \in [Col -> S]
    BY <2>2 DEF BlankRow
  <2>7. PICK d \in Display(S) : d = CLEAR
    BY <2>5, <2>6 DEF Display, CLEAR
  <2>8. Sheet(old) = Blank
    <3>1. Len(old) = 0
      BY <2>4
    <3>2. PICK g : Pages(g, Blank, old) /\ Sheet(old) = g[Len(old)]
      BY SheetSteps
    <3> QED
      BY <3>1, <3>2 DEF Pages
  <2>9. /\ d.xpos = 0 /\ d.ypos = 0 /\ d.cells = [y \in Row |-> BlankRow]
        /\ Blank.x = 0 /\ Blank.y = 0 /\ Blank.ink = {}
    BY <2>7 DEF CLEAR, Blank
  <2>10. ShownFrom(Blank) = 0
    <3>1. Blank.y \in Nat
      BY <2>9
    <3> QED
      BY <2>5, <2>9, <3>1, ShownFromIs
  <2>11. \A y \in Row, x \in Col : d.cells[y][x] = Shown(Blank, y, x)
    <3> SUFFICES ASSUME NEW y \in Row, NEW x \in Col PROVE d.cells[y][x] = Shown(Blank, y, x)
      OBVIOUS
    <3>1. d.cells[y][x] = SPACE
      BY <2>9 DEF BlankRow
    <3>2. Shown(Blank, y, x) = SPACE
      BY <2>9 DEF Shown
    <3> QED
      BY <3>1, <3>2
  <2>12. OnePerPlace(Blank.ink) /\ BeforeCursor(Blank)
    BY <2>9 DEF OnePerPlace, BeforeCursor
  <2>13. Matches(d, Sheet(old))
    BY <2>8, <2>9, <2>10, <2>11, <2>12 DEF Matches
  <2>14. /\ Written(d, text) \in Display(S)
         /\ old \o text \in Seq(S) /\ Matches(Written(d, text), Sheet(old \o text))
    BY <2>2, <2>13, ShowMatches
  <2>15. old \o text = text
    BY <2>4
  <2> QED
    BY <1>2, <2>1, <2>3, <2>7, <2>14, <2>15 DEF ScreenOK
<1> QED
  BY <1>3, <1>4, <1>5, <1>6 DEF TInv

LEMMA KeyStep ==
    ASSUME TInv, NEW key \in Key, keyboard_handler(key)
    PROVE  TInv'
<1>1. CASE key_release(key) \/ key_press_shift(key)
  BY <1>1 DEF TInv, PipeOK, StreamOK, ShellOK, ScreenOK, key_release, key_press_shift,
              shellVars, historyVars, pipeVars
<1>2. CASE key_press_char(key)
  <2>1. PICK c \in Char : write_to_pipe(<<c>>) /\ typed' = Append(typed, c)
    BY <1>2, KeyboardAssumption DEF key_press_char, Char
  <2>2. UNCHANGED <<input, pos, linestart, end, done, spc, got, out, display>>
    BY <1>2 DEF key_press_char, shellVars, historyVars
  <2>3. PipeOK'
    BY <2>1, WritePipe DEF TInv
  <2>4. StreamOK'
    BY <2>1, <2>2, TypedStream DEF TInv
  <2>5. ShellOK'
    BY <2>2 DEF TInv, ShellOK
  <2>6. ScreenOK'
    BY <2>2, ScreenKept DEF TInv
  <2> QED
    BY <2>3, <2>4, <2>5, <2>6 DEF TInv
<1> QED
  BY <1>1, <1>2 DEF keyboard_handler

LEMMA BlocksStep ==
    ASSUME TInv, shell_blocks \/ program_blocks, UNCHANGED typed
    PROVE  TInv'
BY DEF TInv, PipeOK, StreamOK, ShellOK, ScreenOK, shell_blocks, program_blocks,
       pipe_reader_blocks, shellVars, historyVars

LEMMA ReadStep ==
    ASSUME TInv, shell_read, UNCHANGED typed
    PROVE  TInv'
<1>1. BUFSIZE \in Nat \ {0}
  BY BufsizeAssumption
<1>2. PICK bytes : bytes = FirstBytes(BUFSIZE)
  OBVIOUS
<1>3. pipe_reader_read(BUFSIZE) /\ got' = got \o FirstBytes(BUFSIZE)
  BY DEF shell_read
<1>4. PICK n \in 1 .. len :
         /\ n <= BUFSIZE /\ PipeOK'
         /\ bytes \in Seq(Glyph) /\ Len(bytes) = n
  BY <1>1, <1>2, <1>3, ReadPipe DEF TInv
<1>5. StreamOK'
  BY <1>1, <1>3, ReadStream DEF TInv
<1>6. /\ n \in Nat /\ len \in Nat /\ pos \in Nat /\ pos < BUFSIZE /\ linestart = 0
      /\ input \in [0 .. (2 * BUFSIZE) -> Glyph]
  BY DEF shell_read, TInv, ShellOK, PipeOK
<1>7. /\ input' = [i \in DOMAIN input |->
                     CASE pos <= i /\ i < pos + n -> bytes[i - pos + 1]
                       [] i = pos + n -> NUL
                       [] OTHER -> input[i]]
      /\ end' = pos + n /\ spc' = "echo" /\ UNCHANGED <<pos, linestart, out, display>>
  BY <1>2, <1>4 DEF shell_read
<1>8. input' \in [0 .. (2 * BUFSIZE) -> Glyph]
  <2>1. NUL \in Glyph
    BY DEF Glyph
  <2>2. ASSUME NEW i \in 0 .. (2 * BUFSIZE), pos <= i, i < pos + n PROVE bytes[i - pos + 1] \in Glyph
    <3>1. i - pos + 1 \in 1 .. n
      BY <1>1, <1>6, <2>2
    <3> QED
      BY <1>4, <3>1
  <2>3. \A i \in 0 .. (2 * BUFSIZE) : input'[i] \in Glyph
    <3> SUFFICES ASSUME NEW i \in 0 .. (2 * BUFSIZE) PROVE input'[i] \in Glyph
      OBVIOUS
    <3>1. CASE pos <= i /\ i < pos + n
      <4>1. i # pos + n
        BY <1>6, <3>1
      <4>2. input'[i] = bytes[i - pos + 1]
        BY <1>6, <1>7, <3>1, <4>1
      <4> QED
        BY <2>2, <3>1, <4>2
    <3>2. CASE ~(pos <= i /\ i < pos + n)
      BY <1>6, <1>7, <2>1, <3>2
    <3> QED
      BY <3>1, <3>2
  <2>4. DOMAIN input = 0 .. (2 * BUFSIZE)
    BY <1>6
  <2> QED
    BY <1>7, <2>3, <2>4
<1>9. ShellOK'
  <2>1. end' \in Nat /\ linestart' <= pos' /\ pos' <= end' /\ end' < 2 * BUFSIZE
    BY <1>1, <1>4, <1>6, <1>7
  <2> QED
    BY <1>6, <1>7, <1>8, <2>1 DEF ShellOK
<1>10. ScreenOK'
  BY <1>7, ScreenKept DEF TInv
<1> QED
  BY <1>4, <1>5, <1>9, <1>10 DEF TInv

LEMMA EchoStep ==
    ASSUME TInv, shell_echo, UNCHANGED typed
    PROVE  TInv'
<1>1. /\ BUFSIZE \in Nat /\ pos \in Nat /\ end \in Nat /\ linestart \in Nat
      /\ linestart <= pos /\ pos <= end /\ end < 2 * BUFSIZE
      /\ input \in [0 .. (2 * BUFSIZE) -> Glyph]
  BY BufsizeAssumption DEF shell_echo, TInv, ShellOK
<1>2. PICK text : text = [i \in 1 .. (end - pos) |-> input[pos + i - 1]]
  OBVIOUS
<1>3. text \in Seq(Glyph)
  <2>1. PICK n \in Nat : n = end - pos
    BY <1>1
  <2>2. \A i \in 1 .. n : pos + i - 1 \in 0 .. (2 * BUFSIZE)
    BY <1>1, <2>1
  <2>3. text \in [1 .. n -> Glyph]
    BY <1>1, <1>2, <2>1, <2>2
  <2> QED
    BY <2>3
<1>4. /\ show(text) /\ spc' = "scan"
      /\ UNCHANGED <<input, pos, linestart, end, got, data, alloc, len>>
  BY <1>2 DEF shell_echo, pipeVars
<1>5. ScreenOK'
  BY <1>3, <1>4, ShowScreen DEF TInv
<1>6. ShellOK'
  BY <1>1, <1>4 DEF ShellOK
<1>7. PipeOK' /\ StreamOK'
  BY <1>4 DEF TInv, PipeOK, StreamOK
<1> QED
  BY <1>5, <1>6, <1>7 DEF TInv

LEMMA LineStep ==
    ASSUME TInv, shell_line, UNCHANGED typed
    PROVE  TInv'
<1>1. /\ BUFSIZE \in Nat /\ pos \in Nat /\ end \in Nat /\ linestart \in Nat
      /\ linestart <= pos /\ pos <= end /\ end < 2 * BUFSIZE
      /\ input \in [0 .. (2 * BUFSIZE) -> Glyph]
  BY BufsizeAssumption DEF shell_line, TInv, ShellOK
<1>2. PICK nl : nl = Min(NewLines)
  OBVIOUS
<1>3. nl \in Nat /\ pos <= nl /\ nl < end
  <2>1. NewLines \in SUBSET Nat /\ NewLines # {}
    BY <1>1 DEF NewLines, shell_line
  <2>2. nl \in NewLines
    BY <1>2, <2>1, Least
  <2>3. NewLines \subseteq pos .. (end - 1)
    BY DEF NewLines
  <2> QED
    BY <1>1, <2>2, <2>3
<1>4. PICK line :
         /\ input' = [input EXCEPT ![nl] = NUL] /\ process_line(line)
         /\ linestart' = nl + 1 /\ pos' = nl + 1
         /\ UNCHANGED <<end, got, data, alloc, len>>
  BY <1>2 DEF shell_line, pipeVars
<1>5. input' \in [0 .. (2 * BUFSIZE) -> Glyph]
  <2>1. NUL \in Glyph
    BY DEF Glyph
  <2> QED
    BY <1>1, <1>4, <2>1
<1>6. ScreenOK' /\ spc' \in {"scan", "wait"}
  <2>1. /\ spc = "scan"
        /\ \/ spc' = "wait" /\ UNCHANGED <<out, display>>
           \/ show(Message \o Prompt) /\ UNCHANGED spc
           \/ show(Prompt) /\ UNCHANGED spc
    BY <1>4 DEF process_line, shell_line
  <2> QED
    BY <2>1, Texts, ShowScreen, ScreenKept DEF TInv
<1>7. ShellOK'
  <2>1. /\ pos' \in Nat /\ linestart' \in Nat /\ end' \in Nat
        /\ linestart' <= pos' /\ pos' <= end' /\ end' < 2 * BUFSIZE
    BY <1>1, <1>3, <1>4
  <2> QED
    BY <1>5, <1>6, <2>1 DEF ShellOK
<1>8. PipeOK' /\ StreamOK'
  BY <1>4 DEF TInv, PipeOK, StreamOK
<1> QED
  BY <1>6, <1>7, <1>8 DEF TInv

LEMMA CompactStep ==
    ASSUME TInv, shell_compact, UNCHANGED typed
    PROVE  TInv'
<1>1. /\ BUFSIZE \in Nat /\ BUFSIZE >= 1 /\ pos \in Nat /\ end \in Nat /\ linestart \in Nat
      /\ linestart <= pos /\ pos <= end /\ end < 2 * BUFSIZE
      /\ input \in [0 .. (2 * BUFSIZE) -> Glyph]
  BY BufsizeAssumption DEF shell_compact, TInv, ShellOK
<1>2. PICK rest \in Nat : rest = end - linestart
  BY <1>1
<1>3. /\ input' = memmove(input, 0, linestart, rest) /\ linestart' = 0 /\ end' = 0
      /\ \/ pos' = 0 /\ show(<<"!">>)
         \/ ~(rest >= BUFSIZE) /\ pos' = rest /\ UNCHANGED <<out, display>>
      /\ spc' \in {"exited", "read"} /\ UNCHANGED <<got, data, alloc, len>>
  BY <1>2 DEF shell_compact, TooLong, pipeVars
<1>4. input' \in [0 .. (2 * BUFSIZE) -> Glyph]
  <2>1. PICK D \in SUBSET Int : D = 0 .. (2 * BUFSIZE)
    BY <1>1
  <2>2. PICK z \in Nat : z = 0 /\ z <= linestart
    BY <1>1
  <2>3. \A i \in linestart .. (linestart + rest - 1) : i \in D
    BY <1>1, <1>2, <2>1
  <2>4. input \in [D -> Glyph]
    BY <1>1, <2>1
  <2>5. memmove(input, z, linestart, rest) = Moved(input, z, linestart, rest)
    <3>1. PICK S : S = Glyph
      OBVIOUS
    <3>2. PICK mem \in [D -> S] : mem = input
      BY <2>4, <3>1
    <3>3. PICK src \in Nat : src = linestart /\ z <= src
      BY <1>1, <2>2
    <3>4. \A i \in src .. (src + rest - 1) : i \in D
      BY <2>3, <3>3
    <3>5. memmove(mem, z, src, rest) = Moved(mem, z, src, rest)
      BY <3>3, <3>4, MemmoveDown
    <3> QED
      BY <3>2, <3>3, <3>5
  <2>6. ASSUME NEW i \in D, i \in z .. (z + rest - 1) PROVE input[linestart + (i - z)] \in Glyph
    <3>1. linestart + (i - z) \in linestart .. (linestart + rest - 1)
      BY <1>1, <2>2, <2>6
    <3> QED
      BY <2>3, <2>4, <3>1
  <2>7. Moved(input, z, linestart, rest) \in [D -> Glyph]
    <3>1. DOMAIN input = D /\ \A i \in D : input[i] \in Glyph
      BY <2>4
    <3> QED
      BY <2>6, <3>1 DEF Moved
  <2> QED
    BY <1>3, <2>1, <2>2, <2>5, <2>7
<1>5. ScreenOK'
  BY <1>3, Texts, ShowScreen, ScreenKept DEF TInv
<1>6. ShellOK'
  <2>1. pos' \in Nat /\ pos' < BUFSIZE
    BY <1>1, <1>2, <1>3
  <2> QED
    BY <1>3, <1>4, <2>1 DEF ShellOK
<1>7. PipeOK' /\ StreamOK'
  BY <1>3 DEF TInv, PipeOK, StreamOK
<1> QED
  BY <1>5, <1>6, <1>7 DEF TInv

LEMMA ProgramReadStep ==
    ASSUME TInv, program_reads, UNCHANGED typed
    PROVE  TInv'
<1>1. PICK one \in Nat \ {0} : one = 1
  OBVIOUS
<1>2. /\ pipe_reader_read(one) /\ got' = got \o FirstBytes(one)
      /\ UNCHANGED <<input, pos, linestart, end, spc, out, display>>
  BY <1>1 DEF program_reads, shellVars
<1>3. PipeOK'
  BY <1>2, ReadPipe DEF TInv
<1>4. StreamOK'
  BY <1>2, ReadStream DEF TInv
<1>5. ShellOK'
  BY <1>2 DEF TInv, ShellOK
<1>6. ScreenOK'
  BY <1>2, ScreenKept DEF TInv
<1> QED
  BY <1>3, <1>4, <1>5, <1>6 DEF TInv

LEMMA ReturnStep ==
    ASSUME TInv, waitpid_returns, UNCHANGED typed
    PROVE  TInv'
<1>1. PICK text \in {<<>>, Output} : show(text \o Prompt)
  BY DEF waitpid_returns
<1>2. /\ spc = "wait" /\ spc' = "scan"
      /\ UNCHANGED <<input, pos, linestart, end, got, data, alloc, len>>
  BY DEF waitpid_returns, pipeVars
<1>3. ScreenOK'
  BY <1>1, Texts, ShowScreen DEF TInv
<1>4. ShellOK'
  BY <1>2 DEF TInv, ShellOK
<1>5. PipeOK' /\ StreamOK'
  BY <1>2 DEF TInv, PipeOK, StreamOK
<1> QED
  BY <1>3, <1>4, <1>5 DEF TInv

LEMMA NextInvariant == TInv /\ [Next]_vars => TInv'
<1> SUFFICES ASSUME TInv, [Next]_vars PROVE TInv'
  OBVIOUS
<1>1. CASE \E key \in Key : keyboard_handler(key)
  BY <1>1, KeyStep
<1>2. CASE ShellStep /\ UNCHANGED <<shift_pressed, typed>>
  BY <1>2, ReadStep, BlocksStep, EchoStep, LineStep, CompactStep DEF ShellStep
<1>3. CASE ProgramStep /\ UNCHANGED <<shift_pressed, typed>>
  BY <1>3, ProgramReadStep, BlocksStep, ReturnStep DEF ProgramStep
<1>4. CASE UNCHANGED vars
  BY <1>4 DEF TInv, PipeOK, StreamOK, ShellOK, ScreenOK, vars, shellVars, historyVars, pipeVars
<1> QED
  BY <1>1, <1>2, <1>3, <1>4 DEF Next

(***************************************************************************)
(* The theorems.                                                           *)
(***************************************************************************)
(* The positions of the shell, the bytes in the pipe and the screen stay   *)
(* consistent in every state of the key presses' way through the pipe, the *)
(* shell and its programs.                                                 *)
THEOREM TerminalInvariance == Spec => []TInv
<1>1. TerminalInit => TInv
  BY InitInvariant
<1>2. TInv /\ [Next]_vars => TInv'
  BY NextInvariant
<1> QED
  BY <1>1, <1>2, PTL DEF Spec

(* However the reads cut up the lines, the line buffer of the shell has    *)
(* room for another read of BUFSIZE bytes and the NUL behind it.           *)
THEOREM BufferNeverOverflows == Spec => []BufferHolds
<1>1. TInv => BufferHolds
  <2> SUFFICES ASSUME TInv PROVE BufferHolds
    OBVIOUS
  <2>1. /\ BUFSIZE \in Nat /\ BUFSIZE >= 1 /\ pos \in Nat /\ end \in Nat
        /\ DOMAIN input = 0 .. (2 * BUFSIZE)
        /\ spc = "read" => pos < BUFSIZE
    BY BufsizeAssumption DEF TInv, ShellOK
  <2>2. end <= 2 * BUFSIZE
    BY <2>1 DEF TInv, ShellOK
  <2> QED
    BY <2>1, <2>2 DEF BufferHolds
<1> QED
  BY <1>1, TerminalInvariance, PTL

(* The screen shows the last rows of everything that was ever written to   *)
(* it, for screens of every size.                                          *)
THEOREM ScreenShows == Spec => []ScreenShowsTail
<1>1. TInv => ScreenShowsTail
  BY DEF TInv, ScreenOK, Matches, ScreenShowsTail
<1> QED
  BY <1>1, TerminalInvariance, PTL

(* The block of the pipe grows only when the waiting characters do not     *)
(* fit, and to less than twice their number.                               *)
THEOREM GrowthOnDemand == Spec => GrowsOnDemand
<1>1. TInv /\ [Next]_vars => [alloc' # alloc => alloc < len' /\ alloc' < 2 * len']_vars
  <2> SUFFICES ASSUME TInv, Next, alloc' # alloc PROVE alloc < len' /\ alloc' < 2 * len'
    OBVIOUS
  <2>1. CASE \E key \in Key : keyboard_handler(key)
    <3>1. PICK key \in Key : key_press_char(key)
      BY <2>1 DEF keyboard_handler, key_release, key_press_shift, pipeVars
    <3>2. PICK c \in Char : write_to_pipe(<<c>>)
      BY <3>1, KeyboardAssumption DEF key_press_char, Char
    <3> QED
      BY <3>2, WritePipe DEF TInv
  <2>2. CASE ShellStep
    BY <2>2 DEF ShellStep, shell_read, shell_blocks, shell_echo, shell_line, shell_compact,
                pipe_reader_read, pipe_reader_blocks, pipeVars
  <2>3. CASE ProgramStep
    BY <2>3 DEF ProgramStep, program_reads, program_blocks, waitpid_returns,
                pipe_reader_read, pipe_reader_blocks, pipeVars
  <2> QED
    BY <2>1, <2>2, <2>3 DEF Next
<1> QED
  BY <1>1, TerminalInvariance, PTL DEF Spec, GrowsOnDemand

(* The keyboard, the pipe and its readers implement a reliable stream: a   *)
(* key press is a Send, a read a Deliver, and every other step changes     *)
(* neither what was sent nor what was delivered.                           *)
THEOREM KeyStreamReliable == Spec => KeyStream
<1>1. TerminalInit => Stream!Init
  BY DEF TerminalInit, Init, Stream!Init
<1>2. TInv /\ [Next]_vars => [Stream!Next]_<<typed, got>>
  <2> SUFFICES ASSUME TInv, [Next]_vars PROVE Stream!Next \/ UNCHANGED <<typed, got>>
    OBVIOUS
  <2>1. CASE \E key \in Key : keyboard_handler(key)
    <3>1. PICK key \in Key : keyboard_handler(key)
      BY <2>1
    <3>2. CASE key_press_char(key)
      <4>1. PICK c \in Char : typed' = Append(typed, c) /\ got' = got
        BY <3>2, KeyboardAssumption DEF key_press_char, Char, historyVars
      <4> QED
        BY <4>1 DEF Stream!Next, Stream!Send
    <3>3. CASE key_release(key) \/ key_press_shift(key)
      BY <3>3 DEF key_release, key_press_shift, historyVars
    <3> QED
      BY <3>1, <3>2, <3>3 DEF keyboard_handler
  <2>2. CASE (shell_read \/ program_reads) /\ UNCHANGED <<shift_pressed, typed>>
    <3>1. PICK count \in Nat \ {0} : pipe_reader_read(count) /\ got' = got \o FirstBytes(count)
      BY <2>2, BufsizeAssumption DEF shell_read, program_reads
    <3>2. \E n \in 1 .. (Len(typed) - Len(got)) : got' = SubSeq(typed, 1, Len(got) + n)
      BY <2>2, <3>1, ReadStream DEF TInv
    <3> QED
      BY <2>2, <3>2 DEF Stream!Next, Stream!Deliver
  <2>3. CASE /\ shell_blocks \/ shell_echo \/ shell_line \/ shell_compact
                \/ program_blocks \/ waitpid_returns
             /\ UNCHANGED <<shift_pressed, typed>>
    BY <2>3 DEF shell_blocks, shell_echo, shell_line, shell_compact, program_blocks,
                waitpid_returns, historyVars
  <2>4. CASE UNCHANGED vars
    BY <2>4 DEF vars, historyVars
  <2> QED
    BY <2>1, <2>2, <2>3, <2>4 DEF Next, ShellStep, ProgramStep
<1> QED
  BY <1>1, <1>2, TerminalInvariance, PTL DEF Spec, KeyStream, Stream!Spec

(***************************************************************************)
(* The words of a command line.                                            *)
(***************************************************************************)
Blanks == {NL, SPACE}

ParseStep(line, max, st, i) ==
    IF ~IsBreak(line, i) THEN st
    ELSE [start |-> i + 1,
          argv  |-> IF i > st.start /\ Len(st.argv) + 1 < max
                    THEN Append(st.argv, SubSeq(line, st.start, i - 1))
                    ELSE st.argv]

Parsing(h, line, max) ==
    /\ h[0] = [start |-> 1, argv |-> <<>>]
    /\ \A i \in 1 .. (Len(line) + 1) : h[i] = ParseStep(line, max, h[i - 1], i)

LEMMA ParseSteps ==
    ASSUME NEW C, NEW line \in Seq(C), NEW max \in Nat
    PROVE  \E h : Parsing(h, line, max) /\ parse_command(line, max) = h[Len(line) + 1].argv
<1>1. PICK n \in Nat : n = Len(line) + 1
  OBVIOUS
<1>2. PICK D : D = [start : Nat \ {0}, argv : Seq(Seq(C))]
  OBVIOUS
<1>3. PICK d : d = [start |-> 1, argv |-> <<>>]
  OBVIOUS
<1>4. PICK step : step = [k \in 1 .. n |-> [e \in D |-> ParseStep(line, max, e, k)]]
  OBVIOUS
<1>5. ASSUME NEW k \in 1 .. n, NEW e \in D PROVE ParseStep(line, max, e, k) \in D
  <2>1. e.start \in Nat \ {0} /\ e.argv \in Seq(Seq(C)) /\ Len(e.argv) \in Nat
    BY <1>2
  <2>2. ASSUME k > e.start PROVE Append(e.argv, SubSeq(line, e.start, k - 1)) \in Seq(Seq(C))
    <3>1. PICK w : w = SubSeq(line, e.start, k - 1)
      OBVIOUS
    <3>2. w \in Seq(C)
      BY <1>1, <2>1, <2>2, <3>1
    <3>3. PICK W : W = Seq(C)
      OBVIOUS
    <3>4. PICK v \in Seq(W) : v = e.argv
      BY <2>1, <3>3
    <3>5. Append(v, w) \in Seq(W)
      BY <3>2, <3>3
    <3> QED
      BY <3>1, <3>3, <3>4, <3>5
  <2>3. k + 1 \in Nat \ {0}
    OBVIOUS
  <2> QED
    BY <1>2, <2>1, <2>2, <2>3 DEF ParseStep
<1>6. step \in [1 .. n -> [D -> D]]
  BY <1>4, <1>5
<1>7. d \in D
  BY <1>2, <1>3
<1>8. PICK f \in [0 .. n -> D] : Iterates(f, n, d, step)
  BY <1>6, <1>7, Recursion
<1>9. ASSUME NEW k \in 0 .. n
      PROVE  f[k] = IF k = 0 THEN d ELSE ParseStep(line, max, f[k - 1], k)
  <2>1. CASE k = 0
    BY <1>8, <2>1 DEF Iterates
  <2>2. CASE k # 0
    <3>1. k \in 1 .. n /\ k - 1 \in 0 .. n
      BY <2>2
    <3>2. f[k] = step[k][f[k - 1]] /\ f[k - 1] \in D
      BY <1>8, <3>1 DEF Iterates
    <3> QED
      BY <1>4, <2>2, <3>1, <3>2
  <2> QED
    BY <2>1, <2>2
<1>10. f = [k \in 0 .. n |-> IF k = 0 THEN d ELSE ParseStep(line, max, f[k - 1], k)]
  BY <1>9
<1>11. PICK h : h = CHOOSE g : g = [k \in 0 .. n |-> IF k = 0 THEN d ELSE ParseStep(line, max, g[k - 1], k)]
  OBVIOUS
<1>12. h = [k \in 0 .. n |-> IF k = 0 THEN d ELSE ParseStep(line, max, h[k - 1], k)]
  BY <1>10, <1>11
<1>13. parse_command(line, max) = h[n].argv
  BY <1>1, <1>3, <1>11 DEF parse_command, ParseStep
<1>14. \A k \in 0 .. n : h[k] = IF k = 0 THEN d ELSE ParseStep(line, max, h[k - 1], k)
  BY <1>12, Zenon
<1>15. Parsing(h, line, max)
  <2>1. 0 \in 0 .. n
    OBVIOUS
  <2>2. \A k \in 1 .. n : k \in 0 .. n /\ k # 0
    OBVIOUS
  <2> QED
    BY <1>1, <1>3, <1>14, <2>1, <2>2 DEF Parsing
<1> QED
  BY <1>1, <1>13, <1>15

(* parse_command yields the words of the line, as many as there is room    *)
(* for.                                                                    *)
Given(line, max) ==
    SubSeq(Fields(line, Blanks), 1, Min({Len(Fields(line, Blanks)), max - 1}))

(* The words so far are the first ones of all words.                       *)
Taken(argv, F, r, max) ==
    /\ Len(argv) = IF r <= max - 1 THEN r ELSE max - 1
    /\ \A k \in 1 .. Len(argv) : argv[k] = F[k]

LEMMA ParsedWords ==
    ASSUME NEW C, NEW line \in Seq(C), NEW max \in Nat, max >= 1
    PROVE  /\ parse_command(line, max) \in Seq(Seq(C))
           /\ parse_command(line, max) = Given(line, max)
<1>1. PICK h : Parsing(h, line, max) /\ parse_command(line, max) = h[Len(line) + 1].argv
  BY ParseSteps
<1>2. PICK F : F = Fields(line, Blanks)
  OBVIOUS
<1>3. PICK n \in Nat : n = Len(line) + 1
  OBVIOUS
<1>4. PICK st : st = [i \in 0 .. n |-> h[i].start]
  OBVIOUS
<1>5. \A i \in 1 .. n : IsBreak(line, i) <=> Ends(line, Blanks, i)
  BY DEF IsBreak, Ends, Blanks
<1>6. Scans(st, line, Blanks)
  <2>1. h[0].start = 1
    BY <1>1 DEF Parsing
  <2>2. ASSUME NEW i \in 1 .. n
        PROVE  st[i] = IF Ends(line, Blanks, i) THEN i + 1 ELSE st[i - 1]
    <3>1. h[i] = ParseStep(line, max, h[i - 1], i)
      BY <1>1, <1>3 DEF Parsing
    <3>2. st[i] = h[i].start /\ st[i - 1] = h[i - 1].start
      BY <1>4
    <3> QED
      BY <1>5, <3>1, <3>2 DEF ParseStep
  <2> QED
    <3>1. st[0] = 1
      BY <1>4, <2>1
    <3> QED
      BY <1>3, <2>2, <3>1 DEF Scans
<1>7. PICK T : T = {m \in Nat : m <= n => /\ h[m].argv \in Seq(Seq(C))
                                         /\ Taken(h[m].argv, F, Rank(line, Blanks, st[m]), max)}
  OBVIOUS
<1>8. 0 \in T
  <2>1. h[0].argv = <<>> /\ st[0] = 1
    BY <1>1, <1>6 DEF Parsing, Scans
  <2>2. Rank(line, Blanks, 1) = 0
    BY FieldsLen
  <2> QED
    <3>1. PICK none : none = <<>>
      OBVIOUS
    <3>2. none \in Seq(Seq(C)) /\ Len(none) = 0
      BY <3>1
    <3>3. PICK r : r = Rank(line, Blanks, st[0]) /\ r = 0
      BY <2>1, <2>2
    <3>4. Taken(none, F, r, max)
      BY <3>2, <3>3 DEF Taken
    <3>5. h[0].argv = none
      BY <2>1, <3>1
    <3>6. /\ h[0].argv \in Seq(Seq(C))
          /\ Taken(h[0].argv, F, Rank(line, Blanks, st[0]), max)
      BY <3>2, <3>3, <3>4, <3>5
    <3> QED
      BY <1>7, <3>6
<1>9. ASSUME NEW m \in Nat, m \in T PROVE m + 1 \in T
  <2> SUFFICES ASSUME m + 1 <= n
               PROVE  /\ h[m + 1].argv \in Seq(Seq(C))
                      /\ Taken(h[m + 1].argv, F, Rank(line, Blanks, st[m + 1]), max)
    BY <1>7
  <2>1. PICK W, v : W = Seq(C) /\ v = h[m].argv
    OBVIOUS
  <2>2. v \in Seq(W) /\ Taken(v, F, Rank(line, Blanks, st[m]), max)
    BY <1>7, <1>9, <2>1
  <2>3. PICK i \in 1 .. (Len(line) + 1) : i = m + 1 /\ i - 1 = m
    BY <1>3
  <2>4. PICK a \in Nat : /\ a = st[m] /\ 1 <= a /\ a <= i
                         /\ Meets(line, Blanks, a, st[i], i)
    <3>1. st[i - 1] \in Nat /\ 1 <= st[i - 1] /\ st[i - 1] <= i
      BY <1>6, ScanPieces
    <3>2. Meets(line, Blanks, st[i - 1], st[i], i)
      BY <1>6, ScanStep
    <3> QED
      BY <2>3, <3>1, <3>2
  <2>5. h[i] = ParseStep(line, max, h[m], i) /\ h[m].start = a
    BY <1>1, <1>3, <1>4, <2>3, <2>4 DEF Parsing
  <2>6. PICK r \in Nat : r = Rank(line, Blanks, a)
    BY <2>4, StartsFinite
  <2>7. CASE ~Completes(line, Blanks, a, i)
    <3>1. h[i].argv = v
      BY <1>3, <1>5, <2>1, <2>5, <2>7 DEF ParseStep, Completes
    <3>2. Rank(line, Blanks, st[i]) = Rank(line, Blanks, a)
      BY <2>4, <2>7 DEF Meets
    <3> QED
      BY <2>1, <2>2, <2>3, <2>4, <3>1, <3>2
  <2>8. CASE Completes(line, Blanks, a, i)
    <3>1. PICK w \in W : w = SubSeq(line, a, i - 1)
      <4>1. a \in 1 .. Len(line) /\ i - 1 \in 1 .. Len(line)
        BY <2>3, <2>4, <2>8 DEF Completes
      <4>2. SubSeq(line, a, i - 1) \in Seq(C)
        BY <4>1
      <4> QED
        BY <2>1, <4>2
    <3>2. h[i].argv = IF Len(v) + 1 < max THEN Append(v, w) ELSE v
      <4>1. IsBreak(line, i) /\ i > h[m].start
        BY <1>3, <1>5, <2>5, <2>8 DEF Completes
      <4> QED
        BY <2>1, <2>5, <3>1, <4>1 DEF ParseStep
    <3>3. Rank(line, Blanks, st[i]) = r + 1 /\ F[r + 1] = w
      BY <1>2, <2>4, <2>6, <2>8, <3>1 DEF Meets
    <3>4. Taken(v, F, r, max) /\ Len(v) \in Nat
      BY <2>2, <2>4, <2>6
    <3>5. CASE Len(v) + 1 < max
      <4>1. r <= max - 1 /\ Len(v) = r /\ r + 1 <= max - 1
        BY <3>4, <3>5 DEF Taken
      <4>2. /\ Append(v, w) \in Seq(W) /\ Len(Append(v, w)) = r + 1
            /\ \A k \in 1 .. r : Append(v, w)[k] = v[k]
            /\ Append(v, w)[r + 1] = w
        BY <2>2, <4>1
      <4>3. \A k \in 1 .. (r + 1) : k \in 1 .. r \/ k = r + 1
        OBVIOUS
      <4>4. Taken(Append(v, w), F, r + 1, max)
        BY <3>3, <3>4, <4>1, <4>2, <4>3 DEF Taken
      <4> QED
        BY <2>1, <2>3, <3>2, <3>3, <3>5, <4>2, <4>4
    <3>6. CASE ~(Len(v) + 1 < max)
      <4>1. Len(v) = max - 1 /\ ~(r + 1 <= max - 1)
        BY <3>4, <3>6 DEF Taken
      <4>2. Taken(v, F, r + 1, max)
        BY <3>4, <4>1 DEF Taken
      <4> QED
        BY <2>1, <2>2, <2>3, <3>2, <3>3, <3>6, <4>2
    <3> QED
      BY <3>5, <3>6
  <2> QED
    BY <2>7, <2>8
<1>10. n \in T
  BY <1>8, <1>9, Induction
<1>11. PICK argv : argv = parse_command(line, max)
  OBVIOUS
<1>12. PICK c \in Nat : c = Len(F) /\ c = Rank(line, Blanks, Len(line) + 2)
  BY <1>2, FieldsLen
<1>13. argv \in Seq(Seq(C)) /\ Taken(argv, F, c, max)
  <2>1. st[n] = Len(line) + 2
    BY <1>3, <1>6, ScanPieces
  <2> QED
    BY <1>1, <1>3, <1>7, <1>10, <1>11, <1>12, <2>1
<1>14. PICK q \in Nat : q = max - 1
  OBVIOUS
<1>15. Min({c, q}) = IF c <= q THEN c ELSE q
  BY MinOfTwo
<1>16. argv = Given(line, max)
  <2>1. PICK W : W = Seq(C)
    OBVIOUS
  <2>2. F \in Seq(W) /\ argv \in Seq(W)
    BY <1>2, <1>13, <2>1, FieldsType
  <2>3. PICK k \in Nat : k = Min({c, q}) /\ k <= c
    BY <1>15
  <2>4. Given(line, max) = SubSeq(F, 1, k)
    BY <1>2, <1>12, <1>14, <2>3 DEF Given
  <2>5. Len(argv) = k /\ \A j \in 1 .. k : argv[j] = F[j]
    BY <1>13, <1>14, <1>15, <2>3 DEF Taken
  <2>6. PICK g : g = SubSeq(F, 1, k)
    OBVIOUS
  <2>7. g \in Seq(W) /\ Len(g) = k /\ \A j \in 1 .. k : g[j] = F[j]
    <3>1. Len(F) \in Nat /\ k <= Len(F) /\ F \in Seq(W)
      BY <1>12, <2>2, <2>3
    <3> QED
      BY <2>6, <3>1
  <2>8. argv = g
    BY <2>2, <2>5, <2>7
  <2> QED
    BY <2>4, <2>6, <2>8
<1> QED
  BY <1>11, <1>13, <1>16

(***************************************************************************)
(* The argument block.                                                     *)
(***************************************************************************)
Sums(g, argv, n) ==
    /\ g[0] = 0
    /\ \A i \in 1 .. n : g[i] \in Nat /\ g[i] = g[i - 1] + Len(argv[i]) + 1

(* The bytes of the first words are the sum of their lengths.              *)
LEMMA BytesIs ==
    ASSUME NEW argv, NEW n \in Nat, NEW g, Sums(g, argv, n), NEW k \in 0 .. n
    PROVE  Bytes(argv, k) = g[k]
<1>1. PICK f : f = [i \in 0 .. k |-> g[i]]
  OBVIOUS
<1>2. f = [i \in 0 .. k |-> IF i = 0 THEN 0 ELSE f[i - 1] + Len(argv[i]) + 1]
  <2>1. ASSUME NEW i \in 0 .. k PROVE f[i] = IF i = 0 THEN 0 ELSE f[i - 1] + Len(argv[i]) + 1
    <3>1. CASE i = 0
      BY <1>1, <3>1 DEF Sums
    <3>2. CASE i # 0
      <4>1. i \in 1 .. n /\ i - 1 \in 0 .. k
        BY <3>2
      <4> QED
        BY <1>1, <3>2, <4>1 DEF Sums
    <3> QED
      BY <3>1, <3>2
  <2> QED
    BY <1>1, <2>1
<1>3. PICK h : h = CHOOSE e : e = [i \in 0 .. k |-> IF i = 0 THEN 0 ELSE e[i - 1] + Len(argv[i]) + 1]
  OBVIOUS
<1>4. h = [i \in 0 .. k |-> IF i = 0 THEN 0 ELSE h[i - 1] + Len(argv[i]) + 1]
  BY <1>2, <1>3
<1>5. Bytes(argv, k) = h[k]
  BY <1>3 DEF Bytes
<1>6. \A i \in 0 .. k : h[i] = IF i = 0 THEN 0 ELSE h[i - 1] + Len(argv[i]) + 1
  BY <1>4, Zenon
<1>7. PICK T : T = {m \in Nat : m <= k => h[m] = g[m]}
  OBVIOUS
<1>8. 0 \in T
  BY <1>6, <1>7 DEF Sums
<1>9. ASSUME NEW m \in Nat, m \in T PROVE m + 1 \in T
  <2> SUFFICES ASSUME m + 1 <= k PROVE h[m + 1] = g[m + 1]
    BY <1>7
  <2>1. PICK i \in 1 .. k : i = m + 1 /\ i - 1 = m
    OBVIOUS
  <2>2. i \in 0 .. k /\ i # 0 /\ i \in 1 .. n
    OBVIOUS
  <2>3. h[i] = h[i - 1] + Len(argv[i]) + 1
    BY <1>6, <2>2
  <2>4. g[i] = g[i - 1] + Len(argv[i]) + 1
    BY <2>2 DEF Sums
  <2>5. h[m] = g[m]
    BY <1>7, <1>9
  <2> QED
    BY <2>1, <2>3, <2>4, <2>5
<1>10. k \in T
  BY <1>8, <1>9, Induction
<1> QED
  BY <1>5, <1>7, <1>10

LEMMA SumsExist ==
    ASSUME NEW W, NEW argv \in Seq(Seq(W))
    PROVE  \E g : Sums(g, argv, Len(argv))
<1>1. PICK n \in Nat : n = Len(argv)
  OBVIOUS
<1>2. \A i \in 1 .. n : Len(argv[i]) \in Nat
  BY <1>1
<1>3. PICK step : step = [k \in 1 .. n |-> [e \in Nat |-> e + Len(argv[k]) + 1]]
  OBVIOUS
<1>4. step \in [1 .. n -> [Nat -> Nat]]
  BY <1>2, <1>3
<1>5. PICK zero \in Nat : zero = 0
  OBVIOUS
<1>6. PICK g \in [0 .. n -> Nat] : Iterates(g, n, zero, step)
  BY <1>4, Recursion
<1>7. ASSUME NEW i \in 1 .. n PROVE g[i] \in Nat /\ g[i] = g[i - 1] + Len(argv[i]) + 1
  <2>1. g[i] = step[i][g[i - 1]] /\ g[i - 1] \in Nat /\ g[i] \in Nat
    BY <1>6 DEF Iterates
  <2> QED
    BY <1>3, <2>1
<1>8. g[0] = 0
  BY <1>5, <1>6 DEF Iterates
<1> QED
  BY <1>1, <1>7, <1>8 DEF Sums

(* B(k) for the bytes of the first k words: each step adds one word.       *)
LEMMA BytesStep ==
    ASSUME NEW W, NEW argv \in Seq(Seq(W))
    PROVE  /\ Bytes(argv, 0) = 0
           /\ \A k \in 0 .. Len(argv) : Bytes(argv, k) \in Nat
           /\ \A k \in 1 .. Len(argv) : Bytes(argv, k) = Bytes(argv, k - 1) + Len(argv[k]) + 1
<1>1. PICK n \in Nat : n = Len(argv)
  OBVIOUS
<1>2. PICK g : Sums(g, argv, n)
  BY <1>1, SumsExist
<1>3. \A k \in 0 .. n : Bytes(argv, k) = g[k]
  BY <1>2, BytesIs
<1>4. \A k \in 0 .. n : k = 0 \/ k \in 1 .. n
  OBVIOUS
<1>5. \A k \in 0 .. n : g[k] \in Nat
  BY <1>2, <1>4 DEF Sums
<1>6. ASSUME NEW k \in 1 .. n PROVE Bytes(argv, k) = Bytes(argv, k - 1) + Len(argv[k]) + 1
  <2>1. k \in 0 .. n /\ k - 1 \in 0 .. n
    OBVIOUS
  <2>2. g[k] = g[k - 1] + Len(argv[k]) + 1
    BY <1>2 DEF Sums
  <2> QED
    BY <1>3, <2>1, <2>2
<1>7. Bytes(argv, 0) = 0
  <2>1. 0 \in 0 .. n
    OBVIOUS
  <2> QED
    BY <1>2, <1>3, <2>1 DEF Sums
<1> QED
  BY <1>1, <1>3, <1>5, <1>6, <1>7

LEMMA BytesGrow ==
    ASSUME NEW W, NEW argv \in Seq(Seq(W)), NEW j \in 0 .. Len(argv), NEW k \in 0 .. Len(argv), j <= k
    PROVE  Bytes(argv, j) <= Bytes(argv, k)
<1>1. PICK n \in Nat : n = Len(argv)
  OBVIOUS
<1>2. PICK T : T = {m \in Nat : j + m <= n => Bytes(argv, j) <= Bytes(argv, j + m)}
  OBVIOUS
<1>3. \A i \in 0 .. n : Bytes(argv, i) \in Nat
  BY <1>1, BytesStep
<1>4. j \in 0 .. n /\ k \in 0 .. n
  BY <1>1
<1>5. 0 \in T
  <2>1. j + 0 = j /\ Bytes(argv, j) \in Nat
    BY <1>3, <1>4
  <2>2. Bytes(argv, j) <= Bytes(argv, j + 0)
    BY <2>1
  <2> QED
    BY <1>2, <2>2
<1>6. ASSUME NEW m \in Nat, m \in T PROVE m + 1 \in T
  <2> SUFFICES ASSUME j + (m + 1) <= n PROVE Bytes(argv, j) <= Bytes(argv, j + (m + 1))
    BY <1>2
  <2>1. PICK i \in 1 .. n : i = j + (m + 1) /\ i - 1 = j + m
    BY <1>4
  <2>2. Bytes(argv, i) = Bytes(argv, i - 1) + Len(argv[i]) + 1
    BY <1>1, BytesStep
  <2>3. Len(argv[i]) \in Nat /\ i - 1 \in 0 .. n /\ i \in 0 .. n
    BY <1>1
  <2>4. Bytes(argv, j) <= Bytes(argv, i - 1)
    BY <1>2, <1>4, <1>6, <2>1
  <2> QED
    BY <1>3, <1>4, <2>1, <2>2, <2>3, <2>4, SMTT(30)
<1>7. PICK m \in Nat : j + m = k
  <2>1. k - j \in Nat /\ j + (k - j) = k
    BY <1>4
  <2> QED
    BY <2>1
<1>8. m \in T
  BY <1>5, <1>6, Induction
<1>9. j + m <= n
  BY <1>4, <1>7
<1> QED
  BY <1>2, <1>7, <1>8, <1>9

(* The strings lie one behind the other, each with a NUL, from the end of  *)
(* the block downwards, behind the pointers.                               *)
LEMMA Layout ==
    ASSUME NEW W, NEW argv \in Seq(Seq(W)), NEW k \in 1 .. Len(argv)
    PROVE  /\ newargv(argv)[k] \in Nat /\ argdata_size(argv) \in Nat
           /\ newargv(argv)[k] >= 8 + 4 * Len(argv)
           /\ newargv(argv)[k] + Len(argv[k]) + 1 <= argdata_size(argv)
           /\ \A j \in 1 .. Len(argv) :
                /\ j < k => newargv(argv)[j] >= newargv(argv)[k] + Len(argv[k]) + 1
                /\ j > k => newargv(argv)[j] + Len(argv[j]) + 1 <= newargv(argv)[k]
<1>1. PICK n \in Nat : n = Len(argv)
  OBVIOUS
<1>2. PICK B : B = [i \in 0 .. n |-> Bytes(argv, i)]
  OBVIOUS
<1>3. PICK size : size = argdata_size(argv) /\ size = B[n] + 4 * n + 8
  BY <1>1, <1>2 DEF argdata_size
<1>4. DOMAIN argv = 1 .. n
  BY <1>1
<1>5. \A i \in 1 .. n : newargv(argv)[i] = size - B[i]
  BY <1>2, <1>3, <1>4 DEF newargv
<1>6. B \in [0 .. n -> Nat] /\ \A i \in 1 .. n : B[i] = B[i - 1] + Len(argv[i]) + 1
  <2>1. \A i \in 0 .. n : Bytes(argv, i) \in Nat
    BY <1>1, BytesStep
  <2>2. \A i \in 1 .. n : Bytes(argv, i) = Bytes(argv, i - 1) + Len(argv[i]) + 1
    BY <1>1, BytesStep
  <2>3. \A i \in 1 .. n : i \in 0 .. n /\ i - 1 \in 0 .. n
    OBVIOUS
  <2> QED
    BY <1>2, <2>1, <2>2, <2>3
<1>7. \A i, j \in 0 .. n : i <= j => B[i] <= B[j]
  <2> SUFFICES ASSUME NEW i \in 0 .. n, NEW j \in 0 .. n, i <= j PROVE B[i] <= B[j]
    OBVIOUS
  <2>1. i \in 0 .. Len(argv) /\ j \in 0 .. Len(argv)
    BY <1>1
  <2>2. Bytes(argv, i) <= Bytes(argv, j)
    BY <2>1, BytesGrow
  <2> QED
    BY <1>2, <2>2
<1>8. \A i \in 1 .. n : Len(argv[i]) \in Nat
  BY <1>1
<1>9. /\ k \in 1 .. n /\ k \in 0 .. n /\ k - 1 \in 0 .. n /\ n \in 0 .. n
      /\ B[k] <= B[n] /\ B[k] \in Nat /\ B[n] \in Nat /\ B[k - 1] \in Nat
  <2>1. k \in 1 .. n /\ k \in 0 .. n /\ k - 1 \in 0 .. n /\ n \in 0 .. n /\ k <= n
    BY <1>1
  <2> QED
    BY <1>6, <1>7, <2>1
<1>10. /\ size - B[k] \in Nat /\ size \in Nat /\ size - B[k] >= 8 + 4 * n
       /\ (size - B[k]) + Len(argv[k]) + 1 <= size
  <2>1. B[k] = B[k - 1] + Len(argv[k]) + 1 /\ Len(argv[k]) \in Nat
    BY <1>6, <1>8, <1>9
  <2>2. PICK bn, bk, bp, l \in Nat : bn = B[n] /\ bk = B[k] /\ bp = B[k - 1] /\ l = Len(argv[k])
    BY <1>9, <2>1
  <2>3. /\ (bn + 4 * n + 8) - bk \in Nat /\ bn + 4 * n + 8 \in Nat
        /\ (bn + 4 * n + 8) - bk >= 8 + 4 * n
        /\ ((bn + 4 * n + 8) - bk) + l + 1 <= bn + 4 * n + 8
    <3>1. bk <= bn /\ bk = bp + l + 1
      BY <1>9, <2>1, <2>2
    <3> QED
      BY <3>1
  <2> QED
    BY <1>3, <2>2, <2>3
<1>11. ASSUME NEW j \in 1 .. n, j < k PROVE size - B[j] >= (size - B[k]) + Len(argv[k]) + 1
  <2>1. j \in 0 .. n /\ j <= k - 1 /\ B[j] \in Nat
    BY <1>6, <1>9, <1>11
  <2>2. B[j] <= B[k - 1] /\ B[k] = B[k - 1] + Len(argv[k]) + 1 /\ Len(argv[k]) \in Nat
    BY <1>6, <1>7, <1>8, <1>9, <2>1
  <2>3. PICK bj, bk, bp, l \in Nat : bj = B[j] /\ bk = B[k] /\ bp = B[k - 1] /\ l = Len(argv[k])
    BY <1>9, <2>1, <2>2
  <2>4. size - bj >= (size - bk) + l + 1
    <3>1. bj <= bp /\ bk = bp + l + 1
      BY <2>2, <2>3
    <3>2. size \in Nat
      BY <1>10
    <3> QED
      BY <3>1, <3>2
  <2> QED
    BY <2>3, <2>4
<1>12. ASSUME NEW j \in 1 .. n, j > k PROVE (size - B[j]) + Len(argv[j]) + 1 <= size - B[k]
  <2>1. j \in 0 .. n /\ j - 1 \in 0 .. n /\ k <= j - 1 /\ B[j] \in Nat /\ B[j - 1] \in Nat
    <3>1. j \in 0 .. n /\ j - 1 \in 0 .. n /\ k <= j - 1
      BY <1>9, <1>12
    <3> QED
      BY <1>6, <3>1
  <2>2. B[k] <= B[j - 1] /\ B[j] = B[j - 1] + Len(argv[j]) + 1 /\ Len(argv[j]) \in Nat
    BY <1>6, <1>7, <1>8, <1>9, <2>1
  <2>3. PICK bj, bk, bp, l \in Nat : bj = B[j] /\ bk = B[k] /\ bp = B[j - 1] /\ l = Len(argv[j])
    BY <1>9, <2>1, <2>2
  <2>4. (size - bj) + l + 1 <= size - bk
    <3>1. bk <= bp /\ bj = bp + l + 1
      BY <2>2, <2>3
    <3>2. size \in Nat
      BY <1>10
    <3> QED
      BY <3>1, <3>2
  <2> QED
    BY <2>3, <2>4
<1> QED
  BY <1>1, <1>3, <1>5, <1>9, <1>10, <1>11, <1>12

LEMMA MaxOfOne == ASSUME NEW k \in Int PROVE Max({k}) = k
BY DEF Max

(* What a byte of a string's place, or of the place of its NUL, holds.     *)
LEMMA BlockByte ==
    ASSUME NEW W, NEW argv \in Seq(Seq(W)), NEW k \in 1 .. Len(argv),
           NEW o \in 0 .. Len(argv[k])
    PROVE  /\ newargv(argv)[k] + o \in 0 .. (argdata_size(argv) - 1)
           /\ argblock(argv)[newargv(argv)[k] + o] = IF o < Len(argv[k]) THEN argv[k][o + 1] ELSE NUL
<1>1. PICK n \in Nat : n = Len(argv) /\ DOMAIN argv = 1 .. n
  OBVIOUS
<1>2. PICK a \in Nat, size \in Nat : a = newargv(argv)[k] /\ size = argdata_size(argv)
  BY Layout
<1>3. PICK l \in Nat : l = Len(argv[k])
  OBVIOUS
<1>4. PICK i \in Nat : i = a + o /\ i >= a /\ i <= a + l
  BY <1>3
<1>5. a + l + 1 <= size
  BY <1>2, <1>3, Layout
<1>6. i \in 0 .. (size - 1)
  BY <1>4, <1>5
<1>7. PICK here : here = {j \in DOMAIN argv : /\ newargv(argv)[j] <= i
                                             /\ i < newargv(argv)[j] + Len(argv[j])}
  OBVIOUS
<1>8. argblock(argv)[i] = IF here = {} THEN NUL
                          ELSE argv[Max(here)][i - newargv(argv)[Max(here)] + 1]
  BY <1>2, <1>6, <1>7 DEF argblock
<1>9. ASSUME NEW j \in 1 .. n, j # k PROVE j \notin here
  <2>1. newargv(argv)[j] \in Nat /\ Len(argv[j]) \in Nat
    BY <1>1, Layout
  <2>2. CASE j < k
    <3>1. newargv(argv)[j] >= a + l + 1
      BY <1>1, <1>2, <1>3, <2>2, Layout
    <3> QED
      BY <1>4, <1>7, <2>1, <3>1
  <2>3. CASE j > k
    <3>1. newargv(argv)[j] + Len(argv[j]) + 1 <= a
      BY <1>1, <1>2, <2>3, Layout
    <3> QED
      BY <1>4, <1>7, <2>1, <3>1
  <2>4. j < k \/ j > k
    BY <1>9
  <2> QED
    BY <2>2, <2>3, <2>4
<1>10. here \subseteq 1 .. n
  BY <1>1, <1>7
<1>11. CASE o < l
  <2>1. k \in here
    BY <1>1, <1>2, <1>3, <1>4, <1>7, <1>11
  <2>2. here = {k}
    BY <1>9, <1>10, <2>1
  <2>3. Max(here) = k
    BY <2>2, MaxOfOne
  <2>4. i - a + 1 = o + 1
    BY <1>4
  <2> QED
    BY <1>2, <1>3, <1>4, <1>6, <1>8, <1>11, <2>1, <2>3, <2>4
<1>12. CASE ~(o < l)
  <2>1. k \notin here
    BY <1>2, <1>3, <1>4, <1>7, <1>12
  <2>2. here = {}
    BY <1>9, <1>10, <2>1
  <2> QED
    BY <1>2, <1>3, <1>4, <1>6, <1>8, <1>12, <2>2
<1> QED
  BY <1>3, <1>11, <1>12

(* A program finds every word that has no NUL in it.                       *)
LEMMA BlockString ==
    ASSUME NEW W, NEW argv \in Seq(Seq(W)), NEW k \in 1 .. Len(argv),
           \A i \in 1 .. Len(argv[k]) : argv[k][i] # NUL
    PROVE  CString(argblock(argv), newargv(argv)[k]) = argv[k]
<1>1. PICK a \in Nat, size \in Nat : a = newargv(argv)[k] /\ size = argdata_size(argv)
  BY Layout
<1>2. PICK l \in Nat : l = Len(argv[k])
  OBVIOUS
<1>3. a + l < size
  <2>1. a + l + 1 <= size
    BY <1>1, <1>2, Layout
  <2> QED
    BY <2>1
<1>4. PICK mem : mem = argblock(argv)
  OBVIOUS
<1>5. DOMAIN mem = 0 .. (size - 1)
  BY <1>1, <1>4 DEF argblock
<1>6. \A o \in 0 .. l : mem[a + o] = IF o < l THEN argv[k][o + 1] ELSE NUL
  BY <1>1, <1>2, <1>4, BlockByte
<1>7. mem[a + l] = NUL
  <2>1. l \in 0 .. l /\ ~(l < l)
    OBVIOUS
  <2> QED
    BY <1>6, <2>1
<1>8. ASSUME NEW i \in 1 .. l PROVE mem[a + i - 1] = argv[k][i]
  <2>1. PICK o \in 0 .. l : o + 1 = i /\ o < l /\ a + o = a + i - 1
    <3>1. i - 1 \in 0 .. l /\ i - 1 + 1 = i /\ i - 1 < l /\ a + (i - 1) = a + i - 1
      OBVIOUS
    <3> QED
      BY <3>1
  <2> QED
    BY <1>6, <2>1
<1>9. ASSUME NEW i \in a .. (a + l - 1) PROVE mem[i] # NUL
  <2>1. PICK j \in 1 .. l : i = a + j - 1
    <3>1. i - a + 1 \in 1 .. l /\ i = a + (i - a + 1) - 1
      OBVIOUS
    <3> QED
      BY <3>1
  <2>2. mem[a + j - 1] = argv[k][j] /\ argv[k][j] # NUL
    BY <1>2, <1>8
  <2> QED
    BY <2>1, <2>2
<1>10. CString(mem, a) = Excerpt(mem, a, l)
  BY <1>3, <1>5, <1>7, <1>9, StringAt
<1>11. argv[k] = [i \in 1 .. l |-> argv[k][i]]
  BY <1>2
<1>12. CString(mem, a) = argv[k]
  BY <1>8, <1>10, <1>11 DEF Excerpt
<1> QED
  BY <1>1, <1>4, <1>12

(* The words of a line, with a NUL behind each, take at most the bytes of  *)
(* the line and its own NUL.                                               *)
LEMMA FieldBytes ==
    ASSUME NEW C, NEW s \in Seq(C), NEW seps
    PROVE  Bytes(Fields(s, seps), Len(Fields(s, seps))) <= Len(s) + 1
<1>1. PICK n \in Nat : n = Len(s) + 1
  OBVIOUS
<1>2. PICK F : F = Fields(s, seps) /\ F \in Seq(Seq(C))
  BY FieldsType
<1>3. PICK c \in Nat : c = Len(F) /\ c = Rank(s, seps, Len(s) + 2) /\ DOMAIN F = 1 .. c
  BY <1>2, FieldsLen
<1>4. PICK st : Scans(st, s, seps)
  BY ScanExists
<1>5. PICK T : T = {m \in Nat : m <= n => Bytes(F, Rank(s, seps, st[m])) <= st[m] - 1}
  OBVIOUS
<1>6. 0 \in T
  <2>1. Rank(s, seps, st[0]) = 0 /\ st[0] = 1
    BY <1>4, FieldsLen DEF Scans
  <2>2. Bytes(F, 0) = 0
    BY <1>2, BytesStep
  <2>3. Bytes(F, Rank(s, seps, st[0])) <= st[0] - 1
    BY <2>1, <2>2
  <2> QED
    BY <1>5, <2>3
<1>7. ASSUME NEW m \in Nat, m \in T PROVE m + 1 \in T
  <2> SUFFICES ASSUME m + 1 <= n PROVE Bytes(F, Rank(s, seps, st[m + 1])) <= st[m + 1] - 1
    BY <1>5
  <2>1. PICK i \in 1 .. (Len(s) + 1) : i = m + 1 /\ i - 1 = m
    BY <1>1
  <2>2. PICK a \in Nat : a = st[m] /\ 1 <= a /\ a <= i /\ Meets(s, seps, a, st[i], i)
    <3>1. st[i - 1] \in Nat /\ 1 <= st[i - 1] /\ st[i - 1] <= i
      BY <1>4, ScanPieces
    <3>2. Meets(s, seps, st[i - 1], st[i], i)
      BY <1>4, ScanStep
    <3> QED
      BY <2>1, <3>1, <3>2
  <2>3. st[i] = IF Ends(s, seps, i) THEN i + 1 ELSE a
    BY <1>4, <2>1, <2>2 DEF Scans
  <2>4. PICK r \in Nat : r = Rank(s, seps, a)
    BY <2>2, StartsFinite
  <2>5. Bytes(F, r) <= a - 1
    BY <1>5, <1>7, <2>2, <2>4
  <2>6. CASE ~Completes(s, seps, a, i)
    <3>1. Rank(s, seps, st[i]) = r
      BY <2>2, <2>4, <2>6 DEF Meets
    <3>2. st[i] \in Nat /\ a <= st[i]
      BY <2>2, <2>3
    <3>3. r <= c /\ Bytes(F, r) \in Nat
      <4>1. \A k \in 0 .. c : Bytes(F, k) \in Nat
        BY <1>2, <1>3, BytesStep
      <4>2. r <= c
        <5>1. PICK S : S = FieldStarts(s, seps)
          OBVIOUS
        <5>2. IsFiniteSet(S) /\ Below(S, a) \subseteq S
          BY <5>1, StartsFinite DEF Below
        <5>3. Cardinality(Below(S, a)) <= Cardinality(S)
          BY <5>2, FS_Subset
        <5>4. Below(S, Len(s) + 2) = S
          <6>1. S \subseteq 1 .. Len(s)
            BY <5>1, StartsFinite
          <6>2. \A j \in S : j < Len(s) + 2
            BY <6>1
          <6> QED
            BY <6>2 DEF Below
        <5> QED
          BY <1>3, <2>4, <5>1, <5>3, <5>4 DEF Rank
      <4> QED
        BY <4>1, <4>2
    <3> QED
      BY <2>1, <2>5, <3>1, <3>2, <3>3
  <2>7. CASE Completes(s, seps, a, i)
    <3>1. /\ Rank(s, seps, st[i]) = r + 1 /\ r + 1 \in 1 .. c
          /\ F[r + 1] = SubSeq(s, a, i - 1)
      BY <1>2, <1>3, <2>2, <2>4, <2>7 DEF Meets
    <3>2. st[i] = i + 1 /\ i > a
      BY <2>3, <2>7 DEF Completes
    <3>3. Len(SubSeq(s, a, i - 1)) = i - a
      <4>1. a \in 1 .. Len(s) /\ i - 1 \in 1 .. Len(s) /\ a <= i - 1
        BY <2>1, <2>2, <3>2
      <4> QED
        BY <4>1
    <3>4. PICK k \in 1 .. Len(F) : k = r + 1 /\ k - 1 = r
      BY <1>3, <3>1
    <3>5. Bytes(F, k) = Bytes(F, k - 1) + Len(F[k]) + 1
      BY <1>2, BytesStep
    <3>6. PICK b \in Nat : b = Bytes(F, r)
      <4>1. r \in 0 .. Len(F)
        BY <1>3, <3>1
      <4> QED
        BY <1>2, <4>1, BytesStep
    <3>7. Bytes(F, r + 1) = b + (i - a) + 1
      BY <3>1, <3>3, <3>4, <3>5, <3>6
    <3>8. b <= a - 1
      BY <2>5, <3>6
    <3>9. b + (i - a) + 1 <= i + 1 - 1
      BY <3>8
    <3> QED
      BY <2>1, <3>1, <3>2, <3>7, <3>9
  <2> QED
    BY <2>6, <2>7
<1>8. n \in T
  BY <1>6, <1>7, Induction
<1>9. st[n] = Len(s) + 2
  BY <1>1, <1>4, ScanPieces
<1>10. Bytes(F, c) <= Len(s) + 2 - 1
  <2>1. Bytes(F, Rank(s, seps, st[n])) <= st[n] - 1
    BY <1>5, <1>8
  <2> QED
    BY <1>3, <1>9, <2>1
<1>11. Len(s) + 2 - 1 = Len(s) + 1
  OBVIOUS
<1> QED
  BY <1>2, <1>3, <1>10, <1>11

(* What ArgumentsArrive says of a command line and the block made for it.  *)
Arrived(line, ptrs, block) ==
    /\ [k \in DOMAIN ptrs |-> CString(block, ptrs[k])] = Given(line, MAX_ARGS)
    /\ \A k \in DOMAIN Given(line, MAX_ARGS) : ptrs[k] >= 8 + 4 * Len(Given(line, MAX_ARGS))
    /\ argdata_size(Given(line, MAX_ARGS)) <= 2 * BUFSIZE + 4 * (MAX_ARGS - 1) + 8

LEMMA WordsArrive ==
    ASSUME NEW C, NEW line \in Seq(C), Len(line) + 1 <= 2 * BUFSIZE,
           \A i \in 1 .. Len(line) : line[i] # NUL,
           NEW argv, argv = parse_command(line, MAX_ARGS)
    PROVE  Arrived(line, newargv(argv), argblock(argv))
<1>1. MAX_ARGS \in Nat /\ MAX_ARGS >= 1 /\ BUFSIZE \in Nat
  BY ArgsAssumption, BufsizeAssumption
<1>2. argv \in Seq(Seq(C)) /\ argv = Given(line, MAX_ARGS)
  BY <1>1, ParsedWords
<1>3. PICK F : F = Fields(line, Blanks) /\ F \in Seq(Seq(C))
  BY FieldsType
<1>4. PICK c \in Nat, q \in Nat : c = Len(F) /\ q = MAX_ARGS - 1
  BY <1>1, <1>3
<1>5. PICK n \in Nat : n <= c /\ n <= q /\ argv = SubSeq(F, 1, n)
  <2>1. Min({c, q}) = IF c <= q THEN c ELSE q
    BY MinOfTwo
  <2>2. argv = SubSeq(F, 1, Min({c, q}))
    BY <1>2, <1>3, <1>4 DEF Given
  <2>3. PICK n \in Nat : n = Min({c, q}) /\ n <= c /\ n <= q
    BY <2>1
  <2> QED
    BY <2>2, <2>3
<1>6. Len(argv) = n /\ DOMAIN argv = 1 .. n /\ \A k \in 1 .. n : argv[k] = F[k]
  <2>1. PICK W : W = Seq(C)
    OBVIOUS
  <2>2. F \in Seq(W) /\ n <= Len(F)
    BY <1>3, <1>4, <1>5, <2>1
  <2> QED
    BY <1>5, <2>2
<1>7. ASSUME NEW k \in 1 .. n
      PROVE  CString(argblock(argv), newargv(argv)[k]) = argv[k]
  <2>1. k \in DOMAIN F
    BY <1>3, <1>4, <1>5
  <2>2. IsField(F[k], line, Blanks)
    BY <1>3, <2>1, EachField
  <2>3. PICK a, b \in 1 .. Len(line) : a <= b /\ F[k] = SubSeq(line, a, b)
    BY <2>2 DEF IsField
  <2>4. Len(F[k]) = b - a + 1 /\ \A i \in 1 .. (b - a + 1) : F[k][i] = line[a + i - 1]
    BY <2>3
  <2>5. \A i \in 1 .. (b - a + 1) : a + i - 1 \in 1 .. Len(line)
    OBVIOUS
  <2>6. \A i \in 1 .. Len(argv[k]) : argv[k][i] # NUL
    <3> SUFFICES ASSUME NEW i \in 1 .. Len(argv[k]) PROVE argv[k][i] # NUL
      OBVIOUS
    <3>1. argv[k] = F[k] /\ i \in 1 .. (b - a + 1)
      BY <1>6, <2>4
    <3>2. argv[k][i] = line[a + i - 1] /\ a + i - 1 \in 1 .. Len(line)
      BY <2>4, <2>5, <3>1
    <3> QED
      BY <3>2
  <2> QED
    BY <1>2, <1>6, <2>6, BlockString
<1>8. DOMAIN newargv(argv) = 1 .. n
  BY <1>6 DEF newargv
<1>9. [k \in DOMAIN newargv(argv) |-> CString(argblock(argv), newargv(argv)[k])] = argv
  <2>1. argv = [k \in 1 .. n |-> argv[k]]
    BY <1>2, <1>6
  <2> QED
    BY <1>7, <1>8, <2>1
<1>10. ASSUME NEW k \in 1 .. n PROVE newargv(argv)[k] >= 8 + 4 * Len(argv)
  BY <1>2, <1>6, Layout
<1>11. argdata_size(argv) <= 2 * BUFSIZE + 4 * (MAX_ARGS - 1) + 8
  <2>1. PICK g : Sums(g, F, c)
    BY <1>3, <1>4, SumsExist
  <2>2. Sums(g, argv, n)
    <3>1. \A i \in 1 .. n : i \in 1 .. c
      BY <1>5
    <3> QED
      BY <1>6, <2>1, <3>1 DEF Sums
  <2>3. n \in 0 .. n /\ n \in 0 .. c /\ c \in 0 .. c
    BY <1>5
  <2>4. Bytes(argv, n) = g[n]
    BY <2>2, <2>3, BytesIs
  <2>5. Bytes(F, n) = g[n]
    BY <2>1, <2>3, BytesIs
  <2>6. Bytes(F, n) <= Bytes(F, c)
    BY <1>3, <1>4, <1>5, <2>3, BytesGrow
  <2>7. Bytes(F, c) <= Len(line) + 1
    BY <1>3, <1>4, FieldBytes
  <2>8. PICK bn, bc, l \in Nat : bn = Bytes(F, n) /\ bc = Bytes(F, c) /\ l = Len(line)
    BY <1>3, <1>4, <2>3, BytesStep
  <2>9. argdata_size(argv) = bn + 4 * n + 8
    BY <1>6, <2>4, <2>5, <2>8 DEF argdata_size
  <2>10. bn <= bc /\ bc <= l + 1 /\ l + 1 <= 2 * BUFSIZE /\ n <= q
    BY <1>5, <2>6, <2>7, <2>8
  <2>11. bn + 4 * n + 8 <= 2 * BUFSIZE + 4 * q + 8
    BY <1>1, <2>10
  <2> QED
    BY <1>4, <2>9, <2>11
<1> QED
  BY <1>2, <1>6, <1>9, <1>10, <1>11 DEF Arrived

(* The lines that were run, and the arguments of the program that runs.    *)
ArgsOK ==
    /\ ran \in Seq(Seq(Glyph))
    /\ spc = "wait" => Arrived(ran[Len(ran)], argdata.newargv, argdata.block)

LEMMA ArgsInit == TerminalInit => ArgsOK
<1> SUFFICES ASSUME TerminalInit PROVE ArgsOK
  OBVIOUS
<1>1. ran = <<>> /\ spc = "read"
  BY DEF TerminalInit, Init
<1>2. <<>> \in Seq(Seq(Glyph))
  OBVIOUS
<1> QED
  BY <1>1, <1>2 DEF ArgsOK

(* The line that is found in the buffer when a newline has been replaced.  *)
LEMMA LineFound ==
    ASSUME TInv, shell_line
    PROVE  \E nl \in Nat, l \in Nat, line \in Seq(Glyph) :
             /\ nl = Min(NewLines) /\ pos <= nl /\ nl < end /\ input[nl] = NL
             /\ \A i \in pos .. (nl - 1) : input[i] # NL
             /\ input' = [input EXCEPT ![nl] = NUL]
             /\ linestart' = nl + 1 /\ pos' = nl + 1
             /\ linestart + l <= nl /\ Len(line) = l
             /\ input'[linestart + l] = NUL
             /\ \A i \in linestart .. (linestart + l - 1) : input'[i] # NUL
             /\ line = Excerpt(input', linestart, l)
             /\ process_line(line)
<1>1. /\ BUFSIZE \in Nat /\ pos \in Nat /\ end \in Nat /\ linestart \in Nat
      /\ linestart <= pos /\ pos <= end /\ end < 2 * BUFSIZE
      /\ input \in [0 .. (2 * BUFSIZE) -> Glyph]
  BY BufsizeAssumption DEF shell_line, TInv, ShellOK
<1>2. PICK nl : nl = Min(NewLines)
  OBVIOUS
<1>3. NewLines \in SUBSET Nat /\ NewLines # {}
  BY <1>1 DEF NewLines, shell_line
<1>4. nl \in NewLines /\ \A x \in NewLines : nl <= x
  BY <1>2, <1>3, Least
<1>5. nl \in Nat /\ pos <= nl /\ nl < end /\ input[nl] = NL
  BY <1>1, <1>4 DEF NewLines
<1>6. ASSUME NEW i \in pos .. (nl - 1) PROVE input[i] # NL
  <2>1. i \in pos .. (end - 1) /\ ~(nl <= i)
    BY <1>1, <1>5
  <2> QED
    BY <1>4, <2>1 DEF NewLines
<1>7. PICK line : line = CString(input', linestart)
  OBVIOUS
<1>8. /\ input' = [input EXCEPT ![nl] = NUL] /\ process_line(line)
      /\ linestart' = nl + 1 /\ pos' = nl + 1
  BY <1>2, <1>7 DEF shell_line
<1>9. PICK N \in Nat : N = 2 * BUFSIZE
  BY <1>1
<1>10. PICK mem \in [0 .. N -> Glyph] : mem = input'
  <2>1. NUL \in Glyph
    BY DEF Glyph
  <2> QED
    BY <1>1, <1>8, <1>9, <2>1
<1>11. mem[nl] = NUL /\ linestart <= nl /\ nl <= N
  BY <1>1, <1>5, <1>8, <1>9, <1>10
<1>12. PICK a \in Nat : a = linestart
  BY <1>1
<1>13. PICK G : G = Glyph
  OBVIOUS
<1>14. PICK l \in Nat :
             /\ a + l <= nl /\ mem[a + l] = NUL
             /\ \A i \in a .. (a + l - 1) : mem[i] # NUL
             /\ CString(mem, a) = Excerpt(mem, a, l)
             /\ Len(CString(mem, a)) = l /\ CString(mem, a) \in Seq(G)
  <2>1. mem \in [0 .. N -> G] /\ a <= nl
    BY <1>11, <1>12, <1>13
  <2> QED
    BY <1>5, <1>11, <2>1, StringEnds
<1>15. line \in Seq(Glyph) /\ Len(line) = l /\ line = Excerpt(input', linestart, l)
  BY <1>7, <1>10, <1>12, <1>13, <1>14
<1>16. /\ linestart + l <= nl /\ input'[linestart + l] = NUL
       /\ \A i \in linestart .. (linestart + l - 1) : input'[i] # NUL
  BY <1>10, <1>12, <1>14
<1> QED
  BY <1>2, <1>5, <1>6, <1>8, <1>15, <1>16

LEMMA ArgsStep == TInv /\ ArgsOK /\ [Next]_vars => ArgsOK'
<1> SUFFICES ASSUME TInv, ArgsOK, [Next]_vars PROVE ArgsOK'
  OBVIOUS
<1>1. CASE shell_line
  <2>1. PICK nl \in Nat, l \in Nat, line \in Seq(Glyph) :
             /\ nl < end /\ linestart + l <= nl /\ Len(line) = l
             /\ \A i \in linestart .. (linestart + l - 1) : input'[i] # NUL
             /\ line = Excerpt(input', linestart, l)
             /\ process_line(line)
    BY <1>1, LineFound
  <2>2. ran' = Append(ran, line)
    BY <2>1 DEF process_line
  <2>3. ran' \in Seq(Seq(Glyph)) /\ ran'[Len(ran')] = line
    <3>1. PICK W : W = Seq(Glyph)
      OBVIOUS
    <3>2. ran \in Seq(W) /\ line \in W
      BY <3>1 DEF ArgsOK
    <3> QED
      BY <2>2, <3>1, <3>2
  <2>4. ASSUME spc' = "wait" PROVE Arrived(line, argdata'.newargv, argdata'.block)
    <3>1. PICK argv : argv = parse_command(line, MAX_ARGS)
      OBVIOUS
    <3>2. argdata' = [argv |-> argv, newargv |-> newargv(argv), block |-> argblock(argv)]
      <4>1. spc # "wait"
        BY <1>1 DEF shell_line
      <4> QED
        BY <2>1, <2>4, <3>1, <4>1 DEF process_line
    <3>3. linestart \in Nat /\ end \in Nat /\ end < 2 * BUFSIZE /\ BUFSIZE \in Nat
      BY <1>1, BufsizeAssumption DEF shell_line, TInv, ShellOK
    <3>4. Len(line) + 1 <= 2 * BUFSIZE
      BY <2>1, <3>3
    <3>5. ASSUME NEW i \in 1 .. Len(line) PROVE line[i] # NUL
      <4>1. line[i] = input'[linestart + i - 1]
        BY <2>1 DEF Excerpt
      <4>2. linestart + i - 1 \in linestart .. (linestart + l - 1)
        BY <2>1, <3>3
      <4> QED
        BY <2>1, <4>1, <4>2
    <3>6. Arrived(line, newargv(argv), argblock(argv))
      <4>1. PICK C : C = Glyph
        OBVIOUS
      <4>2. line \in Seq(C)
        BY <4>1
      <4> QED
        BY <3>1, <3>4, <3>5, <4>2, WordsArrive
    <3> QED
      BY <3>2, <3>6
  <2> QED
    BY <2>3, <2>4 DEF ArgsOK
<1>2. CASE shell_read \/ shell_echo \/ shell_compact \/ waitpid_returns
  <2>1. ran' = ran /\ spc' # "wait"
    BY <1>2 DEF shell_read, shell_echo, shell_compact, waitpid_returns
  <2> QED
    BY <2>1 DEF ArgsOK
<1>3. CASE UNCHANGED <<ran, spc, argdata>>
  BY <1>3 DEF ArgsOK
<1>4. \/ shell_line \/ shell_read \/ shell_echo \/ shell_compact \/ waitpid_returns
      \/ UNCHANGED <<ran, spc, argdata>>
  BY DEF Next, vars, ShellStep, ProgramStep, shell_blocks, program_blocks, program_reads,
         keyboard_handler, key_release, key_press_shift, key_press_char, shellVars, historyVars
<1> QED
  BY <1>1, <1>2, <1>3, <1>4

(* For every limit on the words and size of the line buffer, a program     *)
(* finds the words of its command line through the pointers of the         *)
(* argument block, and the block fits the bound on its size.               *)
THEOREM ArgumentsDelivered == Spec => []ArgumentsArrive
<1>1. TInv /\ ArgsOK => ArgumentsArrive
  BY DEF ArgsOK, Arrived, Given, Blanks, ArgumentsArrive
<1>2. TInv /\ ArgsOK /\ [Next]_vars => ArgsOK'
  BY ArgsStep
<1>3. TerminalInit => ArgsOK
  BY ArgsInit
<1> QED
  BY <1>1, <1>2, <1>3, TerminalInvariance, PTL DEF Spec

(***************************************************************************)
(* The lines of a text.                                                    *)
(***************************************************************************)
NLs(text) == {i \in DOMAIN text : text[i] = NL}

UpTo(S, p) == {i \in S : i <= p}

LineStart(text, k) == IF k = 1 THEN 1 ELSE Nth(NLs(text), k - 1) + 1

UpToNul(line) ==
    SubSeq(line, 1, Min({i \in DOMAIN line : line[i] = NUL} \cup {Len(line) + 1}) - 1)

Line(text, k) == UpToNul(SubSeq(text, LineStart(text, k), Nth(NLs(text), k) - 1))

LEMMA LinesAre ==
    ASSUME NEW text
    PROVE  Lines(text) = [k \in 1 .. Cardinality(NLs(text)) |-> Line(text, k)]
BY DEF Lines, Line, LineStart, UpToNul, NLs

LEMMA LinesLen ==
    ASSUME NEW C, NEW text \in Seq(C)
    PROVE  /\ NLs(text) \in SUBSET (1 .. Len(text)) /\ IsFiniteSet(NLs(text))
           /\ Cardinality(NLs(text)) \in Nat
           /\ Len(Lines(text)) = Cardinality(NLs(text))
           /\ DOMAIN Lines(text) = 1 .. Cardinality(NLs(text))
           /\ \A k \in 1 .. Cardinality(NLs(text)) : Lines(text)[k] = Line(text, k)
<1>1. Len(text) \in Nat /\ DOMAIN text = 1 .. Len(text)
  OBVIOUS
<1>2. NLs(text) \in SUBSET (1 .. Len(text))
  BY <1>1 DEF NLs
<1>3. IsFiniteSet(1 .. Len(text))
  BY <1>1, FS_Interval
<1>4. IsFiniteSet(NLs(text)) /\ Cardinality(NLs(text)) \in Nat
  BY <1>2, <1>3, FS_Subset, FS_CardinalityType
<1>5. PICK n \in Nat : n = Cardinality(NLs(text))
  BY <1>4
<1>6. Lines(text) = [k \in 1 .. n |-> Line(text, k)]
  BY <1>5, LinesAre
<1> QED
  BY <1>2, <1>4, <1>5, <1>6

LEMMA SubSeqOfPrefix ==
    ASSUME NEW C, NEW text \in Seq(C), NEW p \in 0 .. Len(text),
           NEW a \in Nat, NEW b \in Nat, 1 <= a, b <= p
    PROVE  SubSeq(SubSeq(text, 1, p), a, b) = SubSeq(text, a, b)
<1>1. PICK u : u = SubSeq(text, 1, p)
  OBVIOUS
<1>2. u \in Seq(C) /\ Len(u) = p /\ \A i \in 1 .. p : u[i] = text[i]
  BY <1>1
<1>3. SubSeq(u, a, b) = [i \in 1 .. (b - a + 1) |-> u[a + i - 1]]
  BY <1>2
<1>4. SubSeq(text, a, b) = [i \in 1 .. (b - a + 1) |-> text[a + i - 1]]
  OBVIOUS
<1>5. \A i \in 1 .. (b - a + 1) : a + i - 1 \in 1 .. p
  OBVIOUS
<1> QED
  BY <1>1, <1>2, <1>3, <1>4, <1>5

Start(text, p) == SubSeq(text, 1, p)

Begins(l, m) == Len(m) \in Nat /\ Len(m) <= Len(l) /\ \A k \in 1 .. Len(m) : m[k] = l[k]

(* The lines of a text begin with those of any part at its start.          *)
LEMMA LinesPrefix ==
    ASSUME NEW C, NEW text \in Seq(C), NEW p \in 0 .. Len(text),
           NEW u, u = Start(text, p)
    PROVE  /\ u \in Seq(C) /\ Len(u) = p
           /\ NLs(u) = UpTo(NLs(text), p)
           /\ Begins(Lines(text), Lines(u))
<1>1. u \in Seq(C) /\ Len(u) = p /\ \A i \in 1 .. p : u[i] = text[i]
  BY DEF Start
<1>2. PICK S, U : S = NLs(text) /\ U = NLs(u)
  OBVIOUS
<1>3. U = {i \in S : i <= p}
  <2>1. DOMAIN u = 1 .. p /\ DOMAIN text = 1 .. Len(text) /\ Len(text) \in Nat
    BY <1>1
  <2>2. \A i : i \in 1 .. p <=> i \in 1 .. Len(text) /\ i <= p
    BY <2>1
  <2> QED
    BY <1>1, <1>2, <2>1, <2>2 DEF NLs
<1>4. PICK N \in Nat : N = Len(text)
  OBVIOUS
<1>5. S \in SUBSET (1 .. N) /\ p \in Nat
  BY <1>2, <1>4, LinesLen
<1>6. /\ Cardinality(U) \in Nat /\ Cardinality(S) \in Nat /\ Cardinality(U) <= Cardinality(S)
      /\ \A k \in 1 .. Cardinality(U) : Nth(S, k) = Nth(U, k) /\ Nth(U, k) \in U
  BY <1>3, <1>5, NthPrefix, ZenonT(60)
<1>7. /\ Len(Lines(u)) = Cardinality(U) /\ Len(Lines(text)) = Cardinality(S)
      /\ \A k \in 1 .. Cardinality(U) : Lines(u)[k] = Line(u, k)
      /\ \A k \in 1 .. Cardinality(S) : Lines(text)[k] = Line(text, k)
  BY <1>1, <1>2, LinesLen
<1>8. ASSUME NEW k \in 1 .. Cardinality(U) PROVE Line(u, k) = Line(text, k)
  <2>1. PICK b \in Nat : b = Nth(U, k) /\ b = Nth(S, k) /\ 1 <= b /\ b <= p
    <3>1. Nth(U, k) \in U /\ Nth(S, k) = Nth(U, k)
      BY <1>6
    <3>2. PICK x \in U : x = Nth(U, k)
      BY <3>1
    <3>3. x \in Nat /\ 1 <= x /\ x <= p
      <4>1. x \in S /\ x <= p
        BY <1>3
      <4> QED
        BY <1>5, <4>1
    <3> QED
      BY <3>1, <3>2, <3>3
  <2>2. PICK a \in Nat : 1 <= a /\ a = LineStart(u, k) /\ a = LineStart(text, k)
    <3>1. CASE k = 1
      BY <3>1 DEF LineStart
    <3>2. CASE k # 1
      <4>1. k - 1 \in 1 .. Cardinality(U)
        BY <1>6, <3>2
      <4>2. Nth(U, k - 1) \in U /\ Nth(S, k - 1) = Nth(U, k - 1)
        BY <1>6, <4>1
      <4>3. Nth(U, k - 1) + 1 \in Nat /\ 1 <= Nth(U, k - 1) + 1
        <5>1. PICK x \in U : x = Nth(U, k - 1)
          BY <4>2
        <5>2. x \in S
          BY <1>3
        <5> QED
          BY <1>5, <5>1, <5>2
      <4> QED
        BY <1>2, <3>2, <4>2, <4>3 DEF LineStart
    <3> QED
      BY <3>1, <3>2
  <2>3. PICK e \in Nat : e = b - 1 /\ e <= p
    BY <2>1
  <2>4. SubSeq(u, a, e) = SubSeq(text, a, e)
    BY <2>2, <2>3, SubSeqOfPrefix DEF Start
  <2> QED
    BY <1>2, <2>1, <2>2, <2>3, <2>4 DEF Line
<1>9. \A k \in 1 .. Cardinality(U) : k \in 1 .. Cardinality(S)
  BY <1>6
<1> QED
  BY <1>1, <1>2, <1>3, <1>6, <1>7, <1>8, <1>9 DEF UpTo, Begins

LEMMA UpToNulType ==
    ASSUME NEW C, NEW w \in Seq(C)
    PROVE  UpToNul(w) \in Seq(C)
<1>1. PICK n \in Nat : n = Len(w) /\ DOMAIN w = 1 .. n
  OBVIOUS
<1>2. PICK S : S = {i \in DOMAIN w : w[i] = NUL} \cup {n + 1}
  OBVIOUS
<1>3. S \in SUBSET Nat /\ S # {} /\ \A i \in S : 1 <= i /\ i <= n + 1
  BY <1>1, <1>2
<1>4. PICK m \in S : m = Min(S)
  BY <1>3, Least
<1>5. UpToNul(w) = SubSeq(w, 1, m - 1)
  BY <1>1, <1>2, <1>4 DEF UpToNul
<1>6. m - 1 \in 0 .. n
  BY <1>3, <1>4
<1> QED
  BY <1>1, <1>5, <1>6

LEMMA LinesType ==
    ASSUME NEW C, NEW text \in Seq(C)
    PROVE  Lines(text) \in Seq(Seq(C))
<1>1. PICK n \in Nat : n = Cardinality(NLs(text)) /\ Lines(text) = [k \in 1 .. n |-> Line(text, k)]
  BY LinesLen, LinesAre
<1>0. PICK N \in Nat : N = Len(text)
  OBVIOUS
<1>2. PICK S \in SUBSET (1 .. N) : N = Len(text) /\ S = NLs(text)
  BY <1>0, LinesLen
<1>3. ASSUME NEW k \in 1 .. n PROVE Nth(S, k) \in 1 .. N
  <2>1. k \in 1 .. Cardinality(S)
    BY <1>1, <1>2
  <2>2. \E i \in S : Nth(S, k) = i
    BY <2>1, NthExists
  <2> QED
    BY <2>2
<1>4. ASSUME NEW k \in 1 .. n PROVE Line(text, k) \in Seq(C)
  <2>1. PICK b \in 1 .. N : b = Nth(S, k)
    BY <1>3
  <2>2. PICK a \in Nat : 1 <= a /\ a = LineStart(text, k)
    <3>1. CASE k = 1
      BY <3>1 DEF LineStart
    <3>2. CASE k # 1
      <4>1. k - 1 \in 1 .. n
        BY <3>2
      <4>2. PICK c \in 1 .. N : c = Nth(S, k - 1)
        BY <1>3, <4>1
      <4> QED
        BY <1>2, <3>2, <4>2 DEF LineStart
    <3> QED
      BY <3>1, <3>2
  <2>3. PICK w \in Seq(C) : w = SubSeq(text, a, b - 1)
    <3>1. PICK e \in Nat : e = b - 1 /\ e <= Len(text)
      BY <1>2
    <3>2. SubSeq(text, a, e) \in Seq(C)
      BY <2>2, <3>1, SliceType
    <3> QED
      BY <3>1, <3>2
  <2>4. UpToNul(w) \in Seq(C)
    BY UpToNulType
  <2> QED
    BY <1>2, <2>1, <2>2, <2>3, <2>4 DEF Line
<1>5. PICK W : W = Seq(C)
  OBVIOUS
<1>6. Lines(text) \in [1 .. n -> W]
  BY <1>1, <1>4, <1>5
<1>7. Lines(text) \in Seq(W)
  BY <1>6
<1> QED
  BY <1>5, <1>7

(* Text without a newline adds no line.                                    *)
LEMMA LinesSame ==
    ASSUME NEW C, NEW text \in Seq(C), NEW p \in 0 .. Len(text),
           NEW u, u = Start(text, p), \A i \in (p + 1) .. Len(text) : text[i] # NL
    PROVE  Lines(u) = Lines(text)
<1>1. /\ u \in Seq(C) /\ NLs(u) = UpTo(NLs(text), p)
      /\ Begins(Lines(text), Lines(u))
  BY LinesPrefix
<1>2. DOMAIN text = 1 .. Len(text) /\ Len(text) \in Nat
  OBVIOUS
<1>3. NLs(text) \subseteq 1 .. Len(text)
  BY <1>2 DEF NLs
<1>4. \A i \in NLs(text) : i <= p
  <2> SUFFICES ASSUME NEW i \in NLs(text), ~(i <= p) PROVE FALSE
    OBVIOUS
  <2>1. i \in (p + 1) .. Len(text) /\ text[i] = NL
    BY <1>2, <1>3 DEF NLs
  <2> QED
    BY <2>1
<1>5. NLs(u) = NLs(text)
  BY <1>1, <1>4 DEF UpTo
<1>6. Len(Lines(u)) = Len(Lines(text))
  BY <1>1, <1>5, LinesLen
<1>7. PICK W : W = Seq(C)
  OBVIOUS
<1>8. Lines(u) \in Seq(W) /\ Lines(text) \in Seq(W)
  BY <1>1, <1>7, LinesType
<1> QED
  BY <1>1, <1>6, <1>8 DEF Begins

(* The next newline completes one line.                                    *)
LEMMA LinesNext ==
    ASSUME NEW C, NEW text \in Seq(C), NEW p \in 0 .. Len(text), NEW b \in 1 .. Len(text),
           p < b, text[b] = NL, p = 0 \/ text[p] = NL,
           \A i \in (p + 1) .. (b - 1) : text[i] # NL,
           NEW u, u = Start(text, p), NEW v, v = Start(text, b)
    PROVE  Lines(v) = Append(Lines(u), UpToNul(SubSeq(text, p + 1, b - 1)))
<1>1. v \in Seq(C) /\ Len(v) = b /\ \A i \in 1 .. b : v[i] = text[i]
  BY DEF Start
<1>2. p \in 0 .. Len(v) /\ p \in Nat /\ b \in Nat
  BY <1>1
<1>3. u = Start(v, p)
  <2>1. PICK z \in Nat : z = 1 /\ 1 <= z
    OBVIOUS
  <2>2. b \in 0 .. Len(text) /\ p <= b
    OBVIOUS
  <2>3. SubSeq(SubSeq(text, 1, b), z, p) = SubSeq(text, z, p)
    BY <1>2, <2>1, <2>2, SubSeqOfPrefix
  <2> QED
    BY <2>1, <2>3 DEF Start
<1>4. PICK S, U : S = NLs(v) /\ U = NLs(u)
  OBVIOUS
<1>5. u \in Seq(C) /\ U = UpTo(S, p) /\ Begins(Lines(v), Lines(u))
  BY <1>1, <1>2, <1>3, <1>4, LinesPrefix
<1>6. /\ S \in SUBSET (1 .. b) /\ IsFiniteSet(S) /\ IsFiniteSet(U)
      /\ Cardinality(S) \in Nat /\ Cardinality(U) \in Nat
      /\ Len(Lines(v)) = Cardinality(S) /\ Len(Lines(u)) = Cardinality(U)
      /\ \A k \in 1 .. Cardinality(S) : Lines(v)[k] = Line(v, k)
  <2>1. /\ S \in SUBSET (1 .. b) /\ IsFiniteSet(S) /\ Cardinality(S) \in Nat
        /\ Len(Lines(v)) = Cardinality(S)
        /\ \A k \in 1 .. Cardinality(S) : Lines(v)[k] = Line(v, k)
    BY <1>1, <1>4, LinesLen
  <2>2. IsFiniteSet(U) /\ Cardinality(U) \in Nat /\ Len(Lines(u)) = Cardinality(U)
    BY <1>4, <1>5, LinesLen
  <2> QED
    BY <2>1, <2>2
<1>7. \A i \in 1 .. b : i \in S <=> text[i] = NL
  <2>1. DOMAIN v = 1 .. b
    BY <1>1
  <2> QED
    BY <1>1, <1>4, <2>1 DEF NLs
<1>8. b \in S /\ \A i \in S : i <= p \/ i = b
  <2>1. \A i \in S : i \in 1 .. b
    BY <1>6
  <2>2. \A i \in 1 .. b : i <= p \/ i = b \/ i \in (p + 1) .. (b - 1)
    BY <1>2
  <2>3. b \in 1 .. b
    OBVIOUS
  <2> QED
    BY <1>7, <2>1, <2>2, <2>3
<1>9. U = Below(S, b) /\ S = U \cup {b} /\ b \notin U
  <2>1. \A i \in S : i <= p <=> i < b
    <3> SUFFICES ASSUME NEW i \in S PROVE i <= p <=> i < b
      OBVIOUS
    <3>1. i \in Nat
      BY <1>6
    <3> QED
      BY <1>8, <3>1
  <2>2. ~(b <= p)
    OBVIOUS
  <2> QED
    BY <1>5, <1>8, <2>1, <2>2 DEF Below, UpTo
<1>10. PICK c \in Nat : c = Cardinality(U) /\ Cardinality(S) = c + 1
  BY <1>6, <1>9, FS_AddElement, ZenonT(60)
<1>11. Nth(S, c + 1) = b
  <2>1. S \in SUBSET Nat
    BY <1>6
  <2>2. Nth(S, Cardinality(Below(S, b)) + 1) = b
    BY <1>6, <1>8, <2>1, NthIs
  <2> QED
    BY <1>9, <1>10, <2>2
<1>12. LineStart(v, c + 1) = p + 1
  <2>1. CASE p = 0
    <3>1. \A i \in S : ~(i <= p)
      BY <1>6, <2>1
    <3>2. U = {}
      BY <1>5, <3>1 DEF UpTo
    <3>3. c = 0
      BY <1>10, <3>2, FS_EmptySet
    <3> QED
      BY <2>1, <3>3 DEF LineStart
  <2>2. CASE p # 0
    <3>1. p \in S
      BY <1>2, <1>7, <2>2
    <3>2. Below(S, p) = U \ {p} /\ p \in U
      <4>1. p <= p /\ \A i \in S : i < p <=> i <= p /\ i # p
        BY <1>2, <1>6
      <4> QED
        BY <1>5, <3>1, <4>1 DEF Below, UpTo
    <3>3. Cardinality(Below(S, p)) = c - 1 /\ c # 0
      <4>1. Cardinality(U \ {p}) = Cardinality(U) - 1
        BY <1>6, <3>2, FS_RemoveElement
      <4>2. U # {}
        BY <3>2
      <4>3. c # 0
        BY <1>6, <1>10, <4>2, FS_EmptySet
      <4> QED
        BY <1>10, <3>2, <4>1, <4>3
    <3>4. Nth(S, c) = p
      <4>1. S \in SUBSET Nat
        BY <1>6
      <4>2. Nth(S, Cardinality(Below(S, p)) + 1) = p
        BY <1>6, <3>1, <4>1, NthIs
      <4>3. c - 1 + 1 = c
        OBVIOUS
      <4> QED
        BY <3>3, <4>2, <4>3
    <3>5. c + 1 # 1 /\ c + 1 - 1 = c
      BY <3>3
    <3> QED
      BY <1>4, <3>4, <3>5 DEF LineStart
  <2> QED
    BY <2>1, <2>2
<1>13. PICK x : x = UpToNul(SubSeq(text, p + 1, b - 1))
  OBVIOUS
<1>14. Lines(v)[c + 1] = x
  <2>1. c + 1 \in 1 .. Cardinality(S)
    BY <1>10
  <2>2. Lines(v)[c + 1] = Line(v, c + 1)
    BY <1>6, <2>1
  <2>3. Line(v, c + 1) = UpToNul(SubSeq(v, p + 1, b - 1))
    BY <1>4, <1>11, <1>12 DEF Line
  <2>4. SubSeq(v, p + 1, b - 1) = SubSeq(text, p + 1, b - 1)
    <3>1. PICK a, e \in Nat : a = p + 1 /\ e = b - 1 /\ 1 <= a /\ e <= b
      BY <1>2
    <3>2. b \in 0 .. Len(text)
      OBVIOUS
    <3>3. SubSeq(SubSeq(text, 1, b), a, e) = SubSeq(text, a, e)
      BY <3>1, <3>2, SubSeqOfPrefix
    <3> QED
      BY <3>1, <3>3 DEF Start
  <2> QED
    BY <1>13, <2>2, <2>3, <2>4
<1>15. PICK W : W = Seq(C)
  OBVIOUS
<1>16. Lines(u) \in Seq(W) /\ Lines(v) \in Seq(W)
  BY <1>1, <1>5, <1>15, LinesType
<1>17. Len(Lines(u)) = c /\ Len(Lines(v)) = c + 1
  BY <1>6, <1>10
<1>18. \A k \in 1 .. c : Lines(u)[k] = Lines(v)[k]
  BY <1>5, <1>17 DEF Begins
<1>19. Lines(v) = Append(Lines(u), x)
  <2>1. PICK f, g \in Seq(W) : f = Lines(u) /\ g = Lines(v)
    BY <1>16
  <2>2. Len(f) = c /\ Len(g) = c + 1 /\ g[c + 1] = x /\ \A k \in 1 .. c : f[k] = g[k]
    BY <1>14, <1>17, <1>18, <2>1
  <2>3. x \in W
    BY <2>2
  <2>4. Append(f, x) \in Seq(W) /\ Len(Append(f, x)) = c + 1
    BY <2>2, <2>3
  <2>5. \A k \in 1 .. (c + 1) : Append(f, x)[k] = g[k]
    BY <2>2, <2>3
  <2>6. Append(f, x) = g
    BY <2>2, <2>4, <2>5
  <2> QED
    BY <2>1, <2>6
<1> QED
  BY <1>13, <1>19

LEMMA UpToNulIs ==
    ASSUME NEW C, NEW w \in Seq(C), NEW l \in 0 .. Len(w),
           l < Len(w) => w[l + 1] = NUL, \A i \in 1 .. l : w[i] # NUL
    PROVE  UpToNul(w) = SubSeq(w, 1, l)
<1>1. PICK n \in Nat : n = Len(w) /\ DOMAIN w = 1 .. n
  OBVIOUS
<1>2. PICK S : S = {i \in DOMAIN w : w[i] = NUL} \cup {n + 1}
  OBVIOUS
<1>3. S \in SUBSET Nat /\ S # {} /\ \A i \in S : 1 <= i /\ i <= n + 1
  BY <1>1, <1>2
<1>4. PICK m \in S : m = Min(S) /\ \A x \in S : m <= x
  BY <1>3, Least
<1>5. UpToNul(w) = SubSeq(w, 1, m - 1)
  BY <1>1, <1>2, <1>4 DEF UpToNul
<1>6. l + 1 \in S
  <2>1. CASE l < n
    BY <1>1, <1>2, <2>1
  <2>2. CASE ~(l < n)
    <3>1. l + 1 = n + 1
      BY <1>1, <2>2
    <3> QED
      BY <1>2, <3>1
  <2> QED
    BY <2>1, <2>2
<1>7. ~(m < l + 1)
  <2> SUFFICES ASSUME m < l + 1 PROVE FALSE
    OBVIOUS
  <2>1. m \in Nat /\ 1 <= m /\ m # n + 1
    BY <1>1, <1>3, <1>4
  <2>2. w[m] = NUL /\ m \in 1 .. l
    BY <1>2, <1>4, <2>1
  <2> QED
    BY <2>2
<1>8. m - 1 = l
  BY <1>3, <1>4, <1>6, <1>7
<1> QED
  BY <1>5, <1>8

(***************************************************************************)
(* The lines that the shell runs.                                          *)
(***************************************************************************)
Kept == IF spc \in {"read", "exited"} THEN pos ELSE end - linestart

(* The first p characters of text are whole lines, and have been run; the  *)
(* kept ones behind them are in the buffer, from base on, and hold no      *)
(* newline before at.                                                      *)
Follows(text, lines, buf, base, at, p, kept) ==
    /\ p + kept = Len(text)
    /\ p = 0 \/ text[p] = NL
    /\ lines = Lines(Start(text, p))
    /\ \A j \in 0 .. (kept - 1) : buf[base + j] = text[p + 1 + j]
    /\ \A i \in base .. (at - 1) : buf[i] # NL

RunOK ==
    /\ own \in Seq(Glyph)
    /\ Short(own) => \E p \in Nat : Follows(own, ran, input, linestart, pos, p, Kept)

LEMMA ShortPrefix ==
    ASSUME NEW C, NEW text \in Seq(C), NEW more \in Seq(C), NEW both, both = text \o more,
           Short(both)
    PROVE  Short(text)
<1>2. Len(both) = Len(text) + Len(more) /\ \A i \in 1 .. Len(text) : both[i] = text[i]
  OBVIOUS
<1>3. BUFSIZE \in Nat /\ BUFSIZE >= 1 /\ Len(text) \in Nat /\ Len(more) \in Nat
  BY BufsizeAssumption
<1>4. ASSUME NEW i \in DOMAIN text, i + BUFSIZE - 1 <= Len(text)
      PROVE  \E j \in i .. (i + BUFSIZE - 1) : text[j] = NL
  <2>1. i \in 1 .. Len(text) /\ i \in DOMAIN both /\ i + BUFSIZE - 1 <= Len(both)
    <3>1. i \in 1 .. Len(text) /\ DOMAIN both = 1 .. Len(both)
      OBVIOUS
    <3> QED
      BY <1>2, <1>3, <1>4, <3>1
  <2>2. PICK j \in i .. (i + BUFSIZE - 1) : both[j] = NL
    BY <2>1 DEF Short
  <2>3. j \in 1 .. Len(text)
    BY <1>3, <1>4, <2>1
  <2> QED
    BY <1>2, <2>2, <2>3
<1> QED
  BY <1>4 DEF Short

LEMMA RunInit == TerminalInit => RunOK
<1> SUFFICES ASSUME TerminalInit PROVE RunOK
  OBVIOUS
<1>1. /\ own = <<>> /\ ran = <<>> /\ spc = "read" /\ pos = 0 /\ linestart = 0
  BY DEF TerminalInit, Init
<1>2. own \in Seq(Glyph) /\ Len(own) = 0 /\ Kept = 0
  BY <1>1 DEF Kept
<1>3. PICK C, text : C = Glyph /\ text = own
  OBVIOUS
<1>4. text \in Seq(C) /\ 0 \in 0 .. Len(text)
  BY <1>2, <1>3
<1>5. PICK p \in 0 .. Len(text) : p = 0
  BY <1>4
<1>6. PICK u : u = Start(text, p)
  OBVIOUS
<1>7. u \in Seq(C) /\ Len(u) = p
  BY <1>4, <1>6, LinesPrefix
<1>8. NLs(u) \in SUBSET (1 .. Len(u)) /\ Len(Lines(u)) = Cardinality(NLs(u))
  BY <1>7, LinesLen
<1>9. NLs(u) = {}
  BY <1>5, <1>7, <1>8
<1>10. Len(Lines(u)) = 0
  BY <1>8, <1>9, FS_EmptySet
<1>11. PICK W : W = Seq(C)
  OBVIOUS
<1>12. Lines(u) \in Seq(W)
  BY <1>7, <1>11, LinesType
<1>13. Lines(u) = <<>>
  BY <1>10, <1>12
<1>14. PICK k \in Nat : k = 0
  OBVIOUS
<1>15. Follows(own, ran, input, linestart, pos, k, Kept)
  BY <1>1, <1>2, <1>3, <1>5, <1>6, <1>13, <1>14 DEF Follows
<1> QED
  BY <1>2, <1>14, <1>15 DEF RunOK

(* Steps that leave the buffer and the lines alone.                        *)
LEMMA RunKept ==
    ASSUME RunOK, UNCHANGED <<own, ran, input, pos, linestart>>, Kept' = Kept
    PROVE  RunOK'
<1>1. own' = own /\ own' \in Seq(Glyph)
  BY DEF RunOK
<1>2. Short(own') => Short(own)
  BY <1>1
<1>3. Short(own)' => Short(own)
  BY <1>2 DEF Short
<1>4. ASSUME NEW p \in Nat, Follows(own, ran, input, linestart, pos, p, Kept)
      PROVE  Follows(own, ran, input, linestart, pos, p, Kept)'
  BY <1>4 DEF Follows, Start, Lines
<1> QED
  BY <1>1, <1>3, <1>4 DEF RunOK

LEMMA SameText ==
    ASSUME NEW C, NEW f \in Seq(C), NEW g \in Seq(C), Len(f) = Len(g),
           \A i \in 1 .. Len(f) : f[i] = g[i]
    PROVE  f = g
OBVIOUS

LEMMA Concatenated ==
    ASSUME NEW C, NEW text \in Seq(C), NEW more \in Seq(C), NEW both, both = text \o more
    PROVE  /\ both \in Seq(C) /\ Len(text) \in Nat /\ Len(both) = Len(text) + Len(more)
           /\ \A i \in 1 .. Len(text) : both[i] = text[i]
           /\ \A i \in 1 .. Len(more) : both[Len(text) + i] = more[i]
OBVIOUS

LEMMA SameStart ==
    ASSUME NEW C, NEW text \in Seq(C), NEW both \in Seq(C), Begins(both, text),
           NEW p \in 0 .. Len(text)
    PROVE  Start(both, p) = Start(text, p)
<1>1. Len(text) <= Len(both) /\ \A k \in 1 .. Len(text) : text[k] = both[k]
  BY DEF Begins
<1>2. p \in 0 .. Len(both) /\ \A k \in 1 .. p : k \in 1 .. Len(text)
  BY <1>1
<1>3. PICK f, g : f = Start(both, p) /\ g = Start(text, p)
  OBVIOUS
<1>4. f \in Seq(C) /\ Len(f) = p /\ \A i \in 1 .. p : f[i] = both[i]
  BY <1>2, <1>3 DEF Start
<1>5. g \in Seq(C) /\ Len(g) = p /\ \A i \in 1 .. p : g[i] = text[i]
  BY <1>3 DEF Start
<1>6. Len(f) = Len(g) /\ \A i \in 1 .. Len(f) : f[i] = g[i]
  BY <1>1, <1>2, <1>4, <1>5
<1>7. f = g
  BY <1>4, <1>5, <1>6, SameText
<1> QED
  BY <1>3, <1>7

(* A read leaves the buffer alone before at, and stores the text that      *)
(* follows the m characters read before.                                   *)
Stored(buf, after, at, text, m) ==
    /\ \A i \in 0 .. (at - 1) : after[i] = buf[i]
    /\ \A i \in 1 .. (Len(text) - m) : after[at + i - 1] = text[m + i]

LEMMA FollowsRead ==
    ASSUME NEW C, NEW text \in Seq(C), NEW both \in Seq(C), Begins(both, text),
           NEW lines, NEW buf, NEW after, NEW at \in Nat,
           NEW n \in Nat, Len(both) = Len(text) + n,
           NEW p \in Nat, Follows(text, lines, buf, 0, at, p, at),
           Stored(buf, after, at, both, Len(text))
    PROVE  Follows(both, lines, after, 0, at, p, at + n)
<1>1. \A i \in 1 .. Len(text) : both[i] = text[i]
  BY DEF Begins
<1>2. PICK m \in Nat : m = Len(text) /\ p + at = m
  BY DEF Follows
<1>3. Start(both, p) = Start(text, p)
  BY <1>2, SameStart
<1>4. ASSUME NEW j \in 0 .. (at + n - 1) PROVE after[0 + j] = both[p + 1 + j]
  <2>1. 0 + j = j
    OBVIOUS
  <2>2. CASE j < at
    <3>1. j \in 0 .. (at - 1)
      BY <2>2
    <3>2. buf[0 + j] = text[p + 1 + j]
      BY <3>1 DEF Follows
    <3>4. after[j] = buf[j]
      BY <3>1 DEF Stored
    <3>3. p + 1 + j \in 1 .. Len(text)
      BY <1>2, <3>1
    <3> QED
      BY <1>1, <2>1, <3>2, <3>3, <3>4
  <2>3. CASE ~(j < at)
    <3>1. PICK i \in 1 .. n : i = j - at + 1 /\ j = at + i - 1
      BY <2>3
    <3>4. i \in 1 .. (Len(both) - Len(text))
      BY <1>2
    <3>2. after[j] = both[Len(text) + i]
      BY <3>1, <3>4 DEF Stored
    <3>3. Len(text) + i = p + 1 + j
      BY <1>2, <3>1
    <3> QED
      BY <2>1, <3>2, <3>3
  <2> QED
    BY <2>2, <2>3
<1>5. \A i \in 0 .. (at - 1) : after[i] # NL
  BY DEF Follows, Stored
<1>6. p = 0 \/ both[p] = NL
  <2>1. p = 0 \/ (p \in 1 .. Len(text) /\ text[p] = NL)
    BY <1>2 DEF Follows
  <2> QED
    BY <1>1, <2>1
<1>7. lines = Lines(Start(both, p))
  BY <1>3 DEF Follows
<1>8. p + (at + n) = Len(both)
  BY <1>2
<1> QED
  BY <1>4, <1>5, <1>6, <1>7, <1>8 DEF Follows

LEMMA ReadRun ==
    ASSUME TInv, RunOK, shell_read
    PROVE  RunOK'
<1>1. BUFSIZE \in Nat \ {0}
  BY BufsizeAssumption
<1>2. PICK bytes : bytes = FirstBytes(BUFSIZE)
  OBVIOUS
<1>3. pipe_reader_read(BUFSIZE) /\ got' = got \o FirstBytes(BUFSIZE)
  BY DEF shell_read
<1>4. PICK n \in 1 .. len : bytes \in Seq(Glyph) /\ Len(bytes) = n /\ n \in Nat /\ n <= BUFSIZE
  <2>1. len \in Nat
    BY DEF TInv, PipeOK
  <2> QED
    BY <1>1, <1>2, <1>3, <2>1, ReadPipe DEF TInv
<1>5. /\ pos \in Nat /\ pos < BUFSIZE /\ linestart = 0 /\ spc = "read"
      /\ DOMAIN input = 0 .. (2 * BUFSIZE)
  BY DEF shell_read, TInv, ShellOK
<1>6. /\ input' = [i \in DOMAIN input |->
                     CASE pos <= i /\ i < pos + n -> bytes[i - pos + 1]
                       [] i = pos + n -> NUL
                       [] OTHER -> input[i]]
      /\ end' = pos + n /\ spc' = "echo" /\ own' = own \o bytes
      /\ UNCHANGED <<pos, linestart, ran>>
  BY <1>2, <1>4 DEF shell_read
<1>7. own \in Seq(Glyph)
  BY DEF RunOK
<1>8. PICK C, text, both, at, after : /\ C = Glyph /\ text = own /\ both = own' /\ at = pos
                                      /\ after = input'
  OBVIOUS
<1>9. text \in Seq(C) /\ bytes \in Seq(C) /\ both = text \o bytes /\ at \in Nat /\ n \in Nat
  BY <1>4, <1>5, <1>6, <1>7, <1>8
<1>10. own' \in Seq(Glyph)
  <2>1. both \in Seq(C)
    BY <1>9
  <2> QED
    BY <1>8, <2>1
<1>11. Kept = at /\ Kept' = at + n
  BY <1>4, <1>5, <1>6, <1>8 DEF Kept
<1>12. \A i \in 0 .. (at - 1) : after[i] = input[i]
  <2> SUFFICES ASSUME NEW i \in 0 .. (at - 1) PROVE after[i] = input[i]
    OBVIOUS
  <2>1. i \in DOMAIN input /\ ~(pos <= i) /\ i # pos + n
    <3>1. i \in 0 .. (pos - 1) /\ n \in Nat /\ pos \in Nat /\ BUFSIZE \in Nat
      BY <1>1, <1>4, <1>5, <1>8
    <3> QED
      BY <1>5, <3>1
  <2> QED
    BY <1>6, <1>8, <2>1
<1>13. \A i \in 1 .. n : after[at + i - 1] = bytes[i]
  <2> SUFFICES ASSUME NEW i \in 1 .. n PROVE after[at + i - 1] = bytes[i]
    OBVIOUS
  <2>1. PICK j \in DOMAIN input : j = at + i - 1 /\ pos <= j /\ j < pos + n /\ j # pos + n
                                   /\ j - pos + 1 = i
    <3>1. i \in 1 .. n /\ n \in Nat /\ pos \in Nat /\ BUFSIZE \in Nat /\ at = pos /\ n <= BUFSIZE
      BY <1>1, <1>4, <1>5, <1>8
    <3>2. PICK j \in Int : j = at + i - 1 /\ pos <= j /\ j < pos + n /\ j # pos + n
                                   /\ j - pos + 1 = i
      BY <3>1
    <3>3. j \in 0 .. (2 * BUFSIZE)
      BY <1>5, <3>1, <3>2
    <3> QED
      BY <1>5, <3>2, <3>3
  <2>2. input'[j] = bytes[j - pos + 1]
    BY <1>6, <2>1
  <2>3. after[j] = bytes[i]
    BY <1>8, <2>1, <2>2
  <2> QED
    BY <2>1, <2>3
<1>15. /\ both \in Seq(C) /\ Len(both) = Len(text) + n /\ Begins(both, text)
       /\ Stored(input, after, at, both, Len(text))
  <2>1. /\ both \in Seq(C) /\ Len(text) \in Nat /\ Len(both) = Len(text) + n
        /\ \A i \in 1 .. Len(text) : both[i] = text[i]
        /\ \A i \in 1 .. n : both[Len(text) + i] = bytes[i]
    <3>1. /\ both \in Seq(C) /\ Len(text) \in Nat /\ Len(both) = Len(text) + Len(bytes)
          /\ \A i \in 1 .. Len(text) : both[i] = text[i]
          /\ \A i \in 1 .. Len(bytes) : both[Len(text) + i] = bytes[i]
      BY <1>9, Concatenated
    <3> QED
      BY <1>4, <3>1
  <2>2. Len(both) - Len(text) = n /\ Len(text) <= Len(both)
    BY <1>9, <2>1
  <2> QED
    BY <1>12, <1>13, <2>1, <2>2 DEF Begins, Stored
<1>14. ASSUME Short(both) PROVE \E p \in Nat : Follows(own', ran', input', linestart', pos', p, Kept')
  <2>1. Short(text)
    BY <1>9, <1>14, ShortPrefix
  <2>2. PICK lines, buf : lines = ran /\ buf = input
    OBVIOUS
  <2>3. PICK p \in Nat : Follows(text, lines, buf, 0, at, p, at)
    BY <1>5, <1>8, <1>11, <2>1, <2>2 DEF RunOK
  <2>4. Follows(both, lines, after, 0, at, p, at + n)
    BY <1>9, <1>15, <2>2, <2>3, FollowsRead
  <2> QED
    BY <1>5, <1>6, <1>8, <1>11, <2>2, <2>4
<1> QED
  BY <1>8, <1>10, <1>14 DEF RunOK, Follows, Short, Start, Lines

(* The byte c does not occur in the buffer from lo up to hi.               *)
Free(buf, lo, hi, c) == \A i \in lo .. (hi - 1) : buf[i] # c

Ended(buf, nl) == [buf EXCEPT ![nl] = NUL]

(* The text after a line of it has been run.                               *)
LEMMA FollowsLine ==
    ASSUME NEW C, NEW text \in Seq(C), NEW line \in Seq(C), NEW lines, NEW N \in Nat,
           NEW buf \in [0 .. N -> C], NEW after, NEW base \in Nat, NEW at \in Nat,
           NEW nl \in Nat, NEW kept \in Nat, NEW l \in Nat, NEW p \in Nat,
           Follows(text, lines, buf, base, at, p, kept),
           base <= at, at <= nl, nl < base + kept, base + kept <= N, buf[nl] = NL,
           Free(buf, at, nl, NL), after = Ended(buf, nl),
           base + l <= nl, Len(line) = l, after[base + l] = NUL,
           Free(after, base, base + l, NUL), line = Excerpt(after, base, l)
    PROVE  \E q \in Nat : Follows(text, Append(lines, line), after, nl + 1, nl + 1, q,
                                  base + kept - (nl + 1))
<1>1. PICK M \in Nat : M = Len(text) /\ DOMAIN text = 1 .. M /\ p + kept = M
  BY DEF Follows
<1>2. PICK k \in Nat : k = nl - base /\ nl = base + k /\ k < kept
  OBVIOUS
<1>3. PICK b \in 1 .. M : b = p + k + 1
  BY <1>1, <1>2
<1>4. \A j \in 0 .. (kept - 1) : buf[base + j] = text[p + 1 + j]
  BY DEF Follows
<1>5. text[b] = NL
  <2>1. k \in 0 .. (kept - 1) /\ p + 1 + k = b
    BY <1>2, <1>3
  <2> QED
    BY <1>2, <1>4, <2>1
<1>6. ASSUME NEW j \in 0 .. (k - 1)
      PROVE  /\ text[p + 1 + j] = buf[base + j] /\ buf[base + j] # NL
             /\ after[base + j] = buf[base + j]
  <2>1. j \in 0 .. (kept - 1) /\ base + j < nl /\ base + j \in 0 .. N /\ base + j # nl
    BY <1>2
  <2>2. base + j \in base .. (at - 1) \/ base + j \in at .. (nl - 1)
    BY <2>1
  <2>3. buf[base + j] # NL
    BY <2>2 DEF Follows, Free
  <2>4. after[base + j] = buf[base + j]
    BY <2>1 DEF Ended
  <2> QED
    BY <1>4, <2>1, <2>3, <2>4
<1>7. \A i \in (p + 1) .. (b - 1) : text[i] # NL
  <2> SUFFICES ASSUME NEW i \in (p + 1) .. (b - 1) PROVE text[i] # NL
    OBVIOUS
  <2>1. PICK j \in 0 .. (k - 1) : i = p + 1 + j
    <3>1. i - p - 1 \in 0 .. (k - 1) /\ i = p + 1 + (i - p - 1)
      BY <1>3
    <3> QED
      BY <3>1
  <2> QED
    BY <1>6, <2>1
<1>8. PICK u, v : u = Start(text, p) /\ v = Start(text, b)
  OBVIOUS
<1>9. PICK w : w = SubSeq(text, p + 1, b - 1)
  OBVIOUS
<1>10. Lines(v) = Append(Lines(u), UpToNul(w))
  <2>1. p \in 0 .. Len(text) /\ b \in 1 .. Len(text) /\ p < b /\ (p = 0 \/ text[p] = NL)
    BY <1>1, <1>3 DEF Follows
  <2> QED
    BY <1>5, <1>7, <1>8, <1>9, <2>1, LinesNext, SMTT(30)
<1>11. w \in Seq(C) /\ Len(w) = k /\ \A i \in 1 .. k : w[i] = text[p + i]
  <2>1. PICK a, e \in Nat : a = p + 1 /\ e = b - 1 /\ 1 <= a /\ e <= Len(text) /\ e - a + 1 = k
    BY <1>1, <1>3
  <2>2. w = SubSeq(text, a, e)
    BY <1>9, <2>1
  <2>3. w \in Seq(C)
    BY <2>1, <2>2, SliceType
  <2>4. w = [i \in 1 .. (e - a + 1) |-> text[a + i - 1]]
    BY <2>1, <2>2
  <2>5. w = [i \in 1 .. k |-> text[a + i - 1]]
    BY <2>1, <2>4
  <2>6. \A i \in 1 .. k : a + i - 1 = p + i
    BY <2>1
  <2>7. Len(w) = k
    BY <2>3, <2>5
  <2>8. \A i \in 1 .. k : w[i] = text[a + i - 1]
    BY <2>5
  <2> QED
    BY <2>3, <2>6, <2>7, <2>8
<1>12. \A i \in 1 .. k : w[i] = after[base + i - 1]
  <2> SUFFICES ASSUME NEW i \in 1 .. k PROVE w[i] = after[base + i - 1]
    OBVIOUS
  <2>1. PICK j \in 0 .. (k - 1) : p + i = p + 1 + j /\ base + i - 1 = base + j
    <3>1. i - 1 \in 0 .. (k - 1) /\ p + i = p + 1 + (i - 1) /\ base + i - 1 = base + (i - 1)
      OBVIOUS
    <3> QED
      BY <3>1
  <2> QED
    BY <1>6, <1>11, <2>1, ZenonT(60)
<1>13. UpToNul(w) = SubSeq(w, 1, l)
  <2>1. l \in 0 .. Len(w)
    BY <1>2, <1>11
  <2>2. l < Len(w) => w[l + 1] = NUL
    <3> SUFFICES ASSUME l < Len(w) PROVE w[l + 1] = NUL
      OBVIOUS
    <3>1. l + 1 \in 1 .. k /\ base + (l + 1) - 1 = base + l
      BY <1>11
    <3> QED
      BY <1>12, <3>1
  <2>3. \A i \in 1 .. l : w[i] # NUL
    <3> SUFFICES ASSUME NEW i \in 1 .. l PROVE w[i] # NUL
      OBVIOUS
    <3>1. i \in 1 .. k /\ base + i - 1 \in base .. (base + l - 1)
      BY <1>2
    <3>2. after[base + i - 1] # NUL
      BY <3>1 DEF Free
    <3> QED
      BY <1>12, <3>1, <3>2
  <2> QED
    BY <1>11, <2>1, <2>2, <2>3, UpToNulIs
<1>14. SubSeq(w, 1, l) = line
  <2>1. PICK f : f = SubSeq(w, 1, l)
    OBVIOUS
  <2>2. l \in 0 .. Len(w)
    BY <1>2, <1>11
  <2>3. f \in Seq(C) /\ Len(f) = l /\ \A i \in 1 .. l : f[i] = w[i]
    BY <1>11, <2>1, <2>2
  <2>4. \A i \in 1 .. l : line[i] = after[base + i - 1] /\ i \in 1 .. k
    <3>1. \A i \in 1 .. l : i \in 1 .. k
      BY <1>2
    <3>2. \A i \in 1 .. l : line[i] = after[base + i - 1]
      BY DEF Excerpt
    <3> QED
      BY <3>1, <3>2
  <2>5. Len(f) = Len(line) /\ \A i \in 1 .. Len(f) : f[i] = line[i]
    BY <1>12, <2>3, <2>4
  <2>6. f = line
    BY <2>3, <2>5, SameText
  <2> QED
    BY <2>1, <2>6
<1>15. Append(lines, line) = Lines(Start(text, b))
  BY <1>8, <1>10, <1>13, <1>14 DEF Follows
<1>16. PICK left \in Nat : left = base + kept - (nl + 1) /\ left = kept - k - 1 /\ b + left = M
  <2>1. kept - k - 1 \in Nat /\ base + kept - (nl + 1) = kept - k - 1
    BY <1>2
  <2>2. b + (kept - k - 1) = M
    <3>1. b = p + k + 1 /\ p + kept = M /\ p \in Nat /\ k \in Nat /\ kept \in Nat /\ M \in Nat
      BY <1>1, <1>2, <1>3
    <3>2. (p + k + 1) + (kept - k - 1) = p + kept
      BY <3>1
    <3> QED
      BY <3>1, <3>2
  <2> QED
    BY <2>1, <2>2
<1>17. ASSUME NEW j \in 0 .. (left - 1) PROVE after[nl + 1 + j] = text[b + 1 + j]
  <2>1. PICK i \in 0 .. (kept - 1) : /\ i = k + 1 + j /\ base + i = nl + 1 + j
                                     /\ p + 1 + i = b + 1 + j
    <3>1. k + 1 + j \in 0 .. (kept - 1)
      BY <1>2, <1>16
    <3>2. base + (k + 1 + j) = nl + 1 + j /\ p + 1 + (k + 1 + j) = b + 1 + j
      BY <1>2, <1>3
    <3> QED
      BY <3>1, <3>2
  <2>2. buf[nl + 1 + j] = text[b + 1 + j]
    <3>1. buf[base + i] = text[p + 1 + i]
      BY <1>4
    <3> QED
      BY <2>1, <3>1
  <2>3. nl + 1 + j # nl /\ nl + 1 + j \in 0 .. N
    BY <1>2, <1>16
  <2>4. after[nl + 1 + j] = buf[nl + 1 + j]
    BY <2>3 DEF Ended
  <2> QED
    BY <2>2, <2>4
<1>18. \A i \in (nl + 1) .. (nl + 1 - 1) : after[i] # NL
  OBVIOUS
<1>19. Follows(text, Append(lines, line), after, nl + 1, nl + 1, b, left)
  BY <1>1, <1>5, <1>15, <1>16, <1>17, <1>18 DEF Follows
<1> QED
  BY <1>3, <1>16, <1>19

LEMMA LineRun ==
    ASSUME TInv, RunOK, shell_line
    PROVE  RunOK'
<1>1. /\ BUFSIZE \in Nat /\ pos \in Nat /\ end \in Nat /\ linestart \in Nat
      /\ linestart <= pos /\ pos <= end /\ end < 2 * BUFSIZE
      /\ input \in [0 .. (2 * BUFSIZE) -> Glyph]
  BY BufsizeAssumption DEF shell_line, TInv, ShellOK
<1>2. PICK nl \in Nat, l \in Nat, line \in Seq(Glyph) :
             /\ pos <= nl /\ nl < end /\ input[nl] = NL
             /\ \A i \in pos .. (nl - 1) : input[i] # NL
             /\ input' = [input EXCEPT ![nl] = NUL]
             /\ linestart' = nl + 1 /\ pos' = nl + 1
             /\ linestart + l <= nl /\ Len(line) = l
             /\ input'[linestart + l] = NUL
             /\ \A i \in linestart .. (linestart + l - 1) : input'[i] # NUL
             /\ line = Excerpt(input', linestart, l)
             /\ process_line(line)
  BY LineFound
<1>3. own' = own /\ end' = end /\ ran' = Append(ran, line) /\ spc = "scan"
  BY <1>2 DEF shell_line, process_line
<1>4. spc' \notin {"read", "exited"}
  BY <1>2, <1>3 DEF process_line
<1>5. PICK C, N, text, lines, buf, after, base, at, kept :
         /\ C = Glyph /\ N = 2 * BUFSIZE /\ text = own /\ lines = ran /\ buf = input
         /\ after = input' /\ base = linestart /\ at = pos /\ kept = end - linestart
  OBVIOUS
<1>6. /\ text \in Seq(C) /\ line \in Seq(C) /\ N \in Nat /\ buf \in [0 .. N -> C]
      /\ base \in Nat /\ at \in Nat
  BY <1>1, <1>2, <1>5 DEF RunOK
<1>7. kept \in Nat /\ base + kept = end
  BY <1>1, <1>5
<1>8. base <= at /\ at <= nl /\ nl < base + kept /\ base + kept <= N /\ buf[nl] = NL
  <2>1. end <= 2 * BUFSIZE
    BY <1>1
  <2> QED
    BY <1>1, <1>2, <1>5, <1>7, <2>1
<1>9. /\ Free(buf, at, nl, NL) /\ Free(after, base, base + l, NUL)
      /\ after = Ended(buf, nl)
  <2>1. \A i \in at .. (nl - 1) : buf[i] # NL
    BY <1>2, <1>5
  <2>2. \A i \in base .. (base + l - 1) : after[i] # NUL
    BY <1>2, <1>5
  <2>3. after = [buf EXCEPT ![nl] = NUL]
    BY <1>2, <1>5
  <2>4. Free(buf, at, nl, NL)
    BY <2>1 DEF Free
  <2>5. Free(after, base, base + l, NUL)
    BY <1>6, <2>2 DEF Free
  <2>6. after = Ended(buf, nl)
    BY <2>3 DEF Ended
  <2> QED
    BY <2>4, <2>5, <2>6
<1>10. /\ base + l <= nl /\ Len(line) = l /\ after[base + l] = NUL
       /\ line = Excerpt(after, base, l)
  BY <1>2, <1>5
<1>11. Kept = kept /\ Kept' = base + kept - (nl + 1)
  <2>1. Kept = end - linestart /\ Kept' = end' - linestart'
    BY <1>3, <1>4 DEF Kept
  <2>2. linestart' = nl + 1
    BY <1>2
  <2>3. end' = end /\ kept = end - linestart
    BY <1>3, <1>5
  <2>4. end' - linestart' = end - (nl + 1)
    BY <2>2, <2>3
  <2>5. base + kept - (nl + 1) = end - (nl + 1)
    BY <1>6, <1>7
  <2> QED
    BY <2>1, <2>3, <2>4, <2>5
<1>12. ASSUME Short(text) PROVE \E q \in Nat : Follows(own', ran', input', linestart', pos', q, Kept')
  <2>1. PICK p \in Nat : Follows(text, lines, buf, base, at, p, kept)
    BY <1>5, <1>11, <1>12 DEF RunOK
  <2>2. \E q \in Nat : Follows(text, Append(lines, line), after, nl + 1, nl + 1, q,
                               base + kept - (nl + 1))
    BY <1>6, <1>7, <1>8, <1>9, <1>10, <2>1, FollowsLine
  <2> QED
    BY <1>2, <1>3, <1>5, <1>11, <2>2
<1>13. own' \in Seq(Glyph) /\ own' = text
  BY <1>3, <1>5 DEF RunOK
<1> QED
  BY <1>12, <1>13 DEF RunOK, Follows, Short, Start, Lines

(* The text after the rest of it has moved to the start of the buffer.     *)
LEMMA FollowsCompact ==
    ASSUME NEW C, NEW text \in Seq(C), NEW lines, NEW buf, NEW base \in Nat, NEW at \in Nat,
           NEW kept \in Nat, NEW p \in Nat, Follows(text, lines, buf, base, at, p, kept),
           Free(buf, at, base + kept, NL), Short(text),
           NEW after, \A i \in 0 .. (kept - 1) : after[i] = buf[base + i]
    PROVE  kept < BUFSIZE /\ Follows(text, lines, after, 0, kept, p, kept)
<1>1. PICK M \in Nat : M = Len(text) /\ DOMAIN text = 1 .. M /\ p + kept = M
  BY DEF Follows
<1>2. \A j \in 0 .. (kept - 1) : buf[base + j] = text[p + 1 + j]
  BY DEF Follows
<1>3. ASSUME NEW j \in 0 .. (kept - 1) PROVE buf[base + j] # NL
  <2>1. base + j \in base .. (at - 1) \/ base + j \in at .. (base + kept - 1)
    OBVIOUS
  <2> QED
    BY <2>1 DEF Follows, Free
<1>4. kept < BUFSIZE
  <2> SUFFICES ASSUME ~(kept < BUFSIZE) PROVE FALSE
    OBVIOUS
  <2>0. BUFSIZE \in Nat /\ BUFSIZE >= 1 /\ BUFSIZE <= kept
    BY BufsizeAssumption
  <2>1. PICK i \in DOMAIN text : i = p + 1
    BY <1>1, <2>0
  <2>2. i + BUFSIZE - 1 <= Len(text)
    BY <1>1, <2>0, <2>1
  <2>3. PICK j \in i .. (i + BUFSIZE - 1) : text[j] = NL
    BY <2>2 DEF Short
  <2>4. PICK k \in 0 .. (kept - 1) : j = p + 1 + k
    <3>1. j - p - 1 \in 0 .. (kept - 1) /\ j = p + 1 + (j - p - 1)
      BY <2>0, <2>1
    <3> QED
      BY <3>1
  <2> QED
    BY <1>2, <1>3, <2>3, <2>4
<1>5. \A j \in 0 .. (kept - 1) : after[0 + j] = text[p + 1 + j]
  <2> SUFFICES ASSUME NEW j \in 0 .. (kept - 1) PROVE after[0 + j] = text[p + 1 + j]
    OBVIOUS
  <2>1. 0 + j = j
    OBVIOUS
  <2> QED
    BY <1>2, <2>1
<1>6. \A i \in 0 .. (kept - 1) : after[i] # NL
  BY <1>3
<1>7. Follows(text, lines, after, 0, kept, p, kept)
  BY <1>5, <1>6 DEF Follows
<1> QED
  BY <1>4, <1>7

LEMMA CompactRun ==
    ASSUME TInv, RunOK, shell_compact
    PROVE  RunOK'
<1>1. /\ BUFSIZE \in Nat /\ BUFSIZE >= 1 /\ pos \in Nat /\ end \in Nat /\ linestart \in Nat
      /\ linestart <= pos /\ pos <= end /\ end < 2 * BUFSIZE
      /\ input \in [0 .. (2 * BUFSIZE) -> Glyph] /\ spc = "scan"
  BY BufsizeAssumption DEF shell_compact, TInv, ShellOK
<1>2. PICK rest \in Nat : rest = end - linestart
  BY <1>1
<1>3. /\ input' = memmove(input, 0, linestart, rest) /\ linestart' = 0 /\ end' = 0
      /\ ~(rest >= BUFSIZE) => pos' = rest
      /\ spc' \in {"exited", "read"} /\ UNCHANGED <<own, ran>> /\ NewLines = {}
  BY <1>2 DEF shell_compact, TooLong
<1>4. PICK z \in Nat : z = 0 /\ z <= linestart
  BY <1>1
<1>5. PICK D \in SUBSET Int : D = 0 .. (2 * BUFSIZE)
  BY <1>1
<1>6. PICK C, text, lines, buf, after, base, at :
         /\ C = Glyph /\ text = own /\ lines = ran /\ buf = input
         /\ after = input' /\ base = linestart /\ at = pos
  OBVIOUS
<1>7. /\ text \in Seq(C) /\ buf \in [D -> C] /\ base \in Nat /\ at \in Nat /\ z <= base
      /\ base + rest = end
  BY <1>1, <1>2, <1>4, <1>5, <1>6 DEF RunOK
<1>8. \A i \in base .. (base + rest - 1) : i \in D
  BY <1>1, <1>5, <1>7
<1>9. after = Moved(buf, z, base, rest)
  <2>1. memmove(buf, z, base, rest) = Moved(buf, z, base, rest)
    BY <1>7, <1>8, MemmoveDown, ZenonT(60)
  <2> QED
    BY <1>3, <1>4, <1>6, <2>1
<1>10. \A i \in 0 .. (rest - 1) : after[i] = buf[base + i]
  <2> SUFFICES ASSUME NEW i \in 0 .. (rest - 1) PROVE after[i] = buf[base + i]
    OBVIOUS
  <2>1. i \in D /\ i \in z .. (z + rest - 1) /\ base + (i - z) = base + i
    BY <1>1, <1>2, <1>4, <1>5, <1>7
  <2>2. DOMAIN buf = D
    BY <1>7
  <2>3. after[i] = buf[base + (i - z)]
    BY <1>9, <2>1, <2>2 DEF Moved
  <2> QED
    BY <2>1, <2>3
<1>11. Free(buf, at, base + rest, NL)
  BY <1>3, <1>6, <1>7 DEF Free, NewLines
<1>12. Kept = rest /\ Kept' = pos'
  BY <1>1, <1>2, <1>3 DEF Kept
<1>13. ASSUME Short(text) PROVE \E p \in Nat : Follows(own', ran', input', linestart', pos', p, Kept')
  <2>1. PICK p \in Nat : Follows(text, lines, buf, base, at, p, rest)
    BY <1>6, <1>12, <1>13 DEF RunOK
  <2>2. rest < BUFSIZE /\ Follows(text, lines, after, 0, rest, p, rest)
    BY <1>7, <1>10, <1>11, <1>13, <2>1, FollowsCompact
  <2>3. pos' = rest
    BY <1>1, <1>3, <2>2
  <2> QED
    BY <1>3, <1>6, <1>12, <2>2, <2>3
<1>14. own' \in Seq(Glyph) /\ own' = text
  BY <1>3, <1>6 DEF RunOK
<1> QED
  BY <1>13, <1>14 DEF RunOK, Follows, Short, Start, Lines

LEMMA RunStep == TInv /\ RunOK /\ [Next]_vars => RunOK'
<1> SUFFICES ASSUME TInv, RunOK, [Next]_vars PROVE RunOK'
  OBVIOUS
<1>1. ASSUME UNCHANGED <<own, ran, input, pos, linestart, end>>,
             spc' = spc \/ {spc, spc'} \subseteq {"echo", "scan", "wait"}
      PROVE  RunOK'
  <2>1. Kept' = Kept
    BY <1>1 DEF Kept
  <2> QED
    BY <1>1, <2>1, RunKept
<1>2. CASE \E key \in Key : keyboard_handler(key)
  BY <1>1, <1>2 DEF keyboard_handler, key_release, key_press_shift, key_press_char,
                    shellVars, historyVars
<1>3. CASE ShellStep
  <2>1. CASE shell_blocks
    BY <1>1, <2>1 DEF shell_blocks, shellVars, historyVars
  <2>2. CASE shell_echo
    BY <1>1, <2>2 DEF shell_echo
  <2> QED
    BY <1>3, <2>1, <2>2, ReadRun, LineRun, CompactRun DEF ShellStep
<1>4. CASE ProgramStep
  <2>1. CASE program_reads
    BY <1>1, <2>1 DEF program_reads, shellVars
  <2>2. CASE program_blocks
    BY <1>1, <2>2 DEF program_blocks, shellVars, historyVars
  <2>3. CASE waitpid_returns
    BY <1>1, <2>3 DEF waitpid_returns
  <2> QED
    BY <1>4, <2>1, <2>2, <2>3 DEF ProgramStep
<1>5. CASE UNCHANGED vars
  BY <1>1, <1>5 DEF vars, shellVars, historyVars
<1> QED
  BY <1>2, <1>3, <1>4, <1>5 DEF Next

LEMMA LinesRun ==
    ASSUME NEW C, NEW text \in Seq(C), NEW lines, NEW buf, NEW base \in Nat, NEW at \in Nat,
           NEW kept \in Nat, NEW p \in Nat, Follows(text, lines, buf, base, at, p, kept)
    PROVE  /\ lines = SubSeq(Lines(text), 1, Len(lines))
           /\ at = base + kept => lines = Lines(text)
<1>1. PICK M \in Nat : M = Len(text) /\ DOMAIN text = 1 .. M /\ p + kept = M
  BY DEF Follows
<1>2. p \in 0 .. Len(text)
  BY <1>1
<1>3. PICK u : u = Start(text, p)
  OBVIOUS
<1>4. lines = Lines(u)
  BY <1>3 DEF Follows
<1>5. u \in Seq(C) /\ Begins(Lines(text), Lines(u))
  BY <1>2, <1>3, LinesPrefix
<1>6. PICK W : W = Seq(C)
  OBVIOUS
<1>7. PICK f, g \in Seq(W) : f = Lines(u) /\ g = Lines(text)
  BY <1>5, <1>6, LinesType
<1>8. lines = SubSeq(Lines(text), 1, Len(lines))
  <2>1. PICK n \in Nat : n = Len(f) /\ n <= Len(g) /\ \A k \in 1 .. n : f[k] = g[k]
    BY <1>5, <1>7 DEF Begins
  <2>2. PICK h : h = SubSeq(g, 1, n)
    OBVIOUS
  <2>3. h \in Seq(W) /\ Len(h) = n /\ \A k \in 1 .. n : h[k] = g[k]
    BY <2>1, <2>2
  <2>4. Len(f) = Len(h) /\ \A k \in 1 .. Len(f) : f[k] = h[k]
    BY <2>1, <2>3
  <2>5. f = h
    BY <2>3, <2>4, SameText
  <2> QED
    BY <1>4, <1>7, <2>1, <2>2, <2>5
<1>9. ASSUME at = base + kept PROVE lines = Lines(text)
  <2>1. \A i \in (p + 1) .. Len(text) : text[i] # NL
    <3> SUFFICES ASSUME NEW i \in (p + 1) .. Len(text) PROVE text[i] # NL
      OBVIOUS
    <3>1. PICK j \in 0 .. (kept - 1) : i = p + 1 + j
      <4>1. i - p - 1 \in 0 .. (kept - 1) /\ i = p + 1 + (i - p - 1)
        BY <1>1
      <4> QED
        BY <4>1
    <3>2. buf[base + j] = text[p + 1 + j]
      BY DEF Follows
    <3>3. base + j \in base .. (at - 1)
      BY <1>9
    <3>4. buf[base + j] # NL
      BY <3>3 DEF Follows
    <3> QED
      BY <3>1, <3>2, <3>4
  <2> QED
    BY <1>2, <1>3, <1>4, <2>1, LinesSame
<1> QED
  BY <1>8, <1>9

(* As long as every line is shorter than the buffer, the shell runs the    *)
(* lines that it reads one by one, in order and whole, and has run them    *)
(* all when it reads on (main of sh.c).                                    *)
THEOREM ShortLinesAreRun == Spec => []ShortLinesRun
<1>1. TerminalInit => TInv /\ RunOK
  BY InitInvariant, RunInit
<1>2. TInv /\ RunOK /\ [Next]_vars => (TInv /\ RunOK)'
  BY NextInvariant, RunStep
<1>3. TInv /\ RunOK => ShortLinesRun
  <2> SUFFICES ASSUME TInv, RunOK, Short(own)
               PROVE  /\ ran = SubSeq(Lines(own), 1, Len(ran))
                      /\ spc = "read" => ran = Lines(own)
    BY DEF ShortLinesRun
  <2>1. PICK p \in Nat : Follows(own, ran, input, linestart, pos, p, Kept)
    BY DEF RunOK
  <2>2. /\ pos \in Nat /\ linestart \in Nat /\ Kept \in Nat
        /\ spc = "read" => pos = linestart + Kept
    BY DEF TInv, ShellOK, Kept
  <2>3. PICK C, text, lines, buf, base, at, kept :
           /\ C = Glyph /\ text = own /\ lines = ran /\ buf = input /\ base = linestart
           /\ at = pos /\ kept = Kept
    OBVIOUS
  <2>4. /\ text \in Seq(C) /\ base \in Nat /\ at \in Nat /\ kept \in Nat
        /\ Follows(text, lines, buf, base, at, p, kept)
    BY <2>1, <2>2, <2>3 DEF RunOK
  <2>5. /\ lines = SubSeq(Lines(text), 1, Len(lines))
        /\ at = base + kept => lines = Lines(text)
    BY <2>4, LinesRun
  <2> QED
    BY <2>2, <2>3, <2>5
<1> QED
  BY <1>1, <1>2, <1>3, PTL DEF Spec

=============================================================================

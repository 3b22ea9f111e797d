-------------------------------- MODULE Text --------------------------------
(***************************************************************************)
(* Memory and strings as source/libc.c handles them.  A block of memory is *)
(* a function on 0 .. n-1; a string in memory ends at the first NUL; the   *)
(* text a program has in hand is a sequence of characters.                 *)
(***************************************************************************)
EXTENDS Integers, Sequences, FiniteSets, FiniteSetsExt

NUL == "nul"

(* memmove within one block: byte after byte, in ascending order.          *)
memmove(mem, dst, src, n) ==
    LET moved[k \in 0 .. n] ==
          IF k = 0 THEN mem
          ELSE LET m == moved[k - 1] IN [m EXCEPT ![dst + k - 1] = m[src + k - 1]]
    IN  moved[n]

(* The string that starts at an address.                                   *)
strlen(mem, start) ==
    Min({i \in DOMAIN mem : i >= start /\ mem[i] = NUL} \cup
        {Cardinality(DOMAIN mem)}) - start

CString(mem, start) ==
    [i \in 1 .. strlen(mem, start) |-> mem[start + i - 1]]

(* The k-th smallest number of a set.                                      *)
Nth(S, k) == CHOOSE i \in S : Cardinality({j \in S : j < i}) = k - 1

(* The maximal pieces of s between separators, in order.                   *)
FieldStarts(s, seps) ==
    {i \in DOMAIN s : s[i] \notin seps /\ (i = 1 \/ s[i - 1] \in seps)}

FieldAt(s, seps, i) ==
    LET stops == {j \in (i + 1) .. Len(s) : s[j] \in seps}
    IN  SubSeq(s, i, Min(stops \cup {Len(s) + 1}) - 1)

Fields(s, seps) ==
    LET starts == FieldStarts(s, seps)
    IN  [k \in 1 .. Cardinality(starts) |-> FieldAt(s, seps, Nth(starts, k))]

=============================================================================

-------------------------------- MODULE Heap --------------------------------
(***************************************************************************)
(* What a memory allocator promises its callers (buddy.h): a block that    *)
(* lies inside the area, is as long as requested and shares no byte with   *)
(* another block, until it is freed.  A request that cannot be met changes *)
(* nothing.                                                                *)
(***************************************************************************)
EXTENDS Integers

CONSTANTS Size, Requests      \* bytes in the area; request sizes

VARIABLE held                 \* offset of each allocated block -> its length

Insert(f, x, y) == [z \in DOMAIN f \cup {x} |-> IF z = x THEN y ELSE f[z]]
Delete(f, x)    == [z \in DOMAIN f \ {x} |-> f[z]]

HInit == held = [b \in {} |-> 0]

Disjoint(b, n, c, k) == b + n <= c \/ c + k <= b

Alloc(b, n) ==
    /\ b \notin DOMAIN held
    /\ b + n <= Size
    /\ \A c \in DOMAIN held : Disjoint(b, n, c, held[c])
    /\ held' = Insert(held, b, n)

Free(b) == b \in DOMAIN held /\ held' = Delete(held, b)

HNext == \E b \in 0 .. (Size - 1) : Free(b) \/ \E n \in Requests : Alloc(b, n)

HSpec == HInit /\ [][HNext]_held

=============================================================================

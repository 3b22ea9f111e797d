-------------------------------- MODULE Buddy --------------------------------
(***************************************************************************)
(* The buddy allocator of source/buddy.c.  The kernel heap and the heap of *)
(* every process are each managed by one memarea.                          *)
(*                                                                         *)
(* Blocks are named by their offset, sizes by their base-2 logarithm.  A   *)
(* free list is a sequence: its links are words inside the free blocks     *)
(* themselves.  The calls never overlap (the kernel is not preempted, and  *)
(* a process is a single thread); pc cuts them at their loops.             *)
(***************************************************************************)
EXTENDS Integers, Sequences, SequencesExt

CONSTANTS
    LOWER,      \* log of the granularity (DEFAULT_LOWER, 8)
    UPPER,      \* log of the size of the area
    MAXORDER,   \* last index of the array freelist (31)
    Requests,   \* the request sizes in bytes that are made
    USERLAND    \* built as the test program: an exhausted heap is no panic

(* 1 << k                                                                  *)
pow2[k \in 0 .. MAXORDER] == IF k = 0 THEN 1 ELSE 2 * pow2[k - 1]

(* A size of 0 in the array blocks stands for no block, so LOWER is not 0. *)
ASSUME BuddyAssumption ==
    /\ LOWER \in Nat \ {0} /\ UPPER \in Nat /\ MAXORDER \in Nat
    /\ LOWER <= UPPER /\ UPPER < MAXORDER
    /\ Requests \subseteq 0 .. (pow2[MAXORDER] - 1)
    /\ USERLAND \in BOOLEAN

Size    == pow2[UPPER]
Order   == LOWER .. MAXORDER
Granule == 0 .. (pow2[UPPER - LOWER] - 1)         \* indices of the array blocks
Offset  == {g * pow2[LOWER] : g \in Granule}

VARIABLES
    sizem, used,    \* the array blocks
    freelist,
    held,           \* blocks the callers own: offset -> bytes requested
    pc,             \* "idle", or the loop being executed
    m, cm, block,   \* local variables of that call
    nbytes,
    refused,        \* the number of bytes that has just been refused, in a set
    panic           \* the assertion that has failed

blockVars == <<sizem, used>>
vars == <<blockVars, freelist, held, pc, m, cm, block, nbytes, refused, panic>>

idx(b) == b \div pow2[LOWER]

buddy_init ==
    /\ sizem = [g \in Granule |-> IF g = 0 THEN UPPER ELSE 0]
    /\ used = [g \in Granule |-> FALSE]
    /\ freelist = [k \in Order |-> IF k = UPPER THEN <<0>> ELSE <<>>]

Init ==
    /\ buddy_init
    /\ held = [b \in {} |-> 0]
    /\ pc = "idle" /\ m = 0 /\ cm = 0 /\ block = 0 /\ nbytes = 0
    /\ refused = {} /\ panic = "none"

mforsize_short(n) ==
    LET k == CHOOSE k \in 0 .. (MAXORDER - 1) :
               pow2[k + 1] > n /\ \A j \in 0 .. (k - 1) : pow2[j + 1] <= n
    IN  IF k >= LOWER THEN k ELSE LOWER

(* The loop counts the powers of two that are <= nbytes, so a request of   *)
(* exactly 2^k bytes gets a block of 2^(k+1).                              *)
mforsize(n) ==
    LET k == CHOOSE k \in 0 .. MAXORDER : pow2[k] > n /\ \A j \in 0 .. (k - 1) : pow2[j] <= n
    IN  IF k >= LOWER THEN k ELSE LOWER

(* block with bit k of its offset inverted.                                *)
get_buddy(b, k) == IF (b \div pow2[k]) % 2 = 1 THEN b - pow2[k] ELSE b + pow2[k]

(***************************************************************************)
(* The free lists, with the assertions of the two functions.               *)
(***************************************************************************)
add_to_freelist(list, b) == <<b>> \o list

AddAsserts(b, k) == b + pow2[k] <= Size

remove_from_freelist(list, b) == RemoveFirst(list, b)

RemoveAsserts(b, k) == Contains(freelist[k], b)

(***************************************************************************)
(* buddy_alloc                                                             *)
(***************************************************************************)
LargerFree(k) == {j \in (k + 1) .. UPPER : freelist[j] # <<>>}

Smallest(S) == CHOOSE x \in S : \A y \in S : x <= y

Idle == pc = "idle" /\ panic = "none"

Return ==
    /\ pc' = "idle"
    /\ m' = 0 /\ cm' = 0 /\ block' = 0 /\ nbytes' = 0

(* The block is found, or will be after some splits.                       *)
buddy_alloc(n) ==
    LET k == mforsize(n) IN
    /\ Idle
    /\ freelist[k] # <<>> \/ LargerFree(k) # {}
    /\ cm' = IF freelist[k] # <<>> THEN k ELSE Smallest(LargerFree(k))
    /\ m' = k
    /\ nbytes' = n
    /\ pc' = "split"
    /\ refused' = {}
    /\ UNCHANGED <<blockVars, freelist, held, block, panic>>

alloc_exhausted(n) ==
    LET k == mforsize(n) IN
    /\ Idle
    /\ freelist[k] = <<>> /\ LargerFree(k) = {}
    /\ refused' = {n}
    /\ panic' = IF USERLAND THEN panic ELSE "exhausted"
    /\ UNCHANGED <<blockVars, freelist, held, pc, m, cm, block, nbytes>>

half2_of_final(b, k) == b + pow2[m]

(* The second half of a block of size 2^k.                                 *)
half2_of(b, k) == b + pow2[k - 1]

(* One iteration of the loop that halves a block.                          *)
alloc_split ==
    LET half1 == Head(freelist[cm])
        half2 == half2_of(half1, cm)
    IN
    /\ pc = "split" /\ panic = "none" /\ cm > m
    /\ sizem' = [sizem EXCEPT ![idx(half1)] = cm - 1, ![idx(half2)] = cm - 1]
    /\ freelist' = [freelist EXCEPT ![cm] = remove_from_freelist(@, half1),
            ![cm - 1] = add_to_freelist(add_to_freelist(@, half2), half1)]
    /\ cm' = cm - 1
    /\ panic' = IF /\ ~used[idx(half1)] /\ ~used[idx(half2)] /\ sizem[idx(half1)] = cm
                   /\ AddAsserts(half1, cm - 1) /\ AddAsserts(half2, cm - 1)
                THEN panic ELSE "buddy_alloc"
    /\ UNCHANGED <<used, held, pc, m, block, nbytes, refused>>

alloc_take ==
    LET b == Head(freelist[m]) IN
    /\ pc = "split" /\ panic = "none" /\ cm = m
    /\ used' = [used EXCEPT ![idx(b)] = TRUE]
    /\ freelist' = [freelist EXCEPT ![m] = remove_from_freelist(@, b)]
    /\ held' = [c \in DOMAIN held \cup {b} |-> IF c = b THEN nbytes ELSE held[c]]
    /\ panic' = IF used[idx(b)] \/ sizem[idx(b)] # m THEN "buddy_alloc" ELSE panic
    /\ Return
    /\ UNCHANGED <<sizem, refused>>

(***************************************************************************)
(* buddy_free, of a block the caller owns.  NULL changes nothing.          *)
(***************************************************************************)
buddy_free(b) ==
    /\ Idle
    /\ b \in DOMAIN held
    /\ held' = [c \in DOMAIN held \ {b} |-> held[c]]
    /\ used' = [used EXCEPT ![idx(b)] = FALSE]
    /\ block' = b
    /\ m' = sizem[idx(b)]
    /\ pc' = "merge"
    /\ refused' = {}
    /\ panic' = IF used[idx(b)] /\ sizem[idx(b)] \in LOWER .. UPPER
                THEN panic ELSE "buddy_free"
    /\ UNCHANGED <<sizem, freelist, cm, nbytes>>

MayMerge_any_size == m < UPPER /\ ~used[idx(get_buddy(block, m))]

MayMerge_once ==
    /\ m < UPPER - 1
    /\ ~used[idx(get_buddy(block, m))]
    /\ sizem[idx(get_buddy(block, m))] = m

MayMerge ==
    /\ m < UPPER
    /\ ~used[idx(get_buddy(block, m))]
    /\ sizem[idx(get_buddy(block, m))] = m

(* One iteration of the loop that merges the block with its buddy.         *)
free_merge ==
    LET buddy == get_buddy(block, m)
        low   == IF block > buddy THEN buddy ELSE block
        high  == IF block > buddy THEN block ELSE buddy
    IN
    /\ pc = "merge" /\ panic = "none" /\ MayMerge
    /\ freelist' = [freelist EXCEPT ![m] = remove_from_freelist(@, buddy)]
    /\ sizem' = [sizem EXCEPT ![idx(low)] = m + 1, ![idx(high)] = 0]
    /\ block' = low
    /\ m' = m + 1
    /\ panic' = IF RemoveAsserts(buddy, m) THEN panic ELSE "remove_from_freelist"
    /\ UNCHANGED <<used, held, pc, cm, nbytes, refused>>

free_done ==
    /\ pc = "merge" /\ panic = "none" /\ ~MayMerge
    /\ freelist' = [freelist EXCEPT ![m] = add_to_freelist(@, block)]
    /\ panic' = IF AddAsserts(block, m) THEN panic ELSE "add_to_freelist"
    /\ Return
    /\ UNCHANGED <<blockVars, held, refused>>

Next ==
    \/ \E n \in Requests : buddy_alloc(n) \/ alloc_exhausted(n)
    \/ \E b \in Offset : buddy_free(b)
    \/ alloc_split \/ alloc_take \/ free_merge \/ free_done

Spec == Init /\ [][Next]_vars

(***************************************************************************)
(* Properties                                                              *)
(***************************************************************************)
FreeBlocks == UNION {{<<b, k>> : b \in ToSet(freelist[k])} : k \in Order}
UsedBlocks == {<<b, sizem[idx(b)]>> : b \in DOMAIN held}
Bytes(blk) == blk[1] .. (blk[1] + pow2[blk[2]] - 1)

(* No assertion of buddy.c fails as long as callers free only what they    *)
(* own: the array blocks and the free lists never contradict each other,   *)
(* in the middle of a call either.                                         *)
NoPanic == panic = "none"

(* The blocks of the callers and the free lists divide the whole area      *)
(* among themselves, each byte once, and the array blocks describes them:  *)
(* no memory is lost by a split or a merge, none handed out twice, and no  *)
(* free-list link lies in memory a caller may write to.                    *)
AreaPartitioned ==
    pc = "idle" =>
      /\ UNION {Bytes(x) : x \in FreeBlocks \cup UsedBlocks} = 0 .. (Size - 1)
      /\ \A x, y \in FreeBlocks \cup UsedBlocks :
           x # y => Bytes(x) \cap Bytes(y) = {}
      /\ FreeBlocks \cap UsedBlocks = {}
      /\ \A k \in Order : IsInjective(freelist[k])
      /\ \A g \in Granule : used[g] <=> g * pow2[LOWER] \in DOMAIN held

(* No caller's block leaves room for an aligned block of 2^k bytes.        *)
NoneLeft(k) ==
    \A b \in {j * pow2[k] : j \in 0 .. (pow2[UPPER - k] - 1)} :
        \E x \in UsedBlocks : Bytes(x) \cap Bytes(<<b, k>>) # {}

(* A request is refused only when the callers' blocks leave no room for an *)
(* aligned block that is longer than it: the search covers every larger    *)
(* list, and merging leaves nothing behind.                                *)
RefusedOnlyWhenFull ==
    \A n \in refused, k \in LOWER .. UPPER : pow2[k] > n => NoneLeft(k)

(* What the comment of buddy_alloc promises, that a size is rounded up to  *)
(* the nearest power of two: a request is refused only when there is no    *)
(* room for an aligned block that is as long as it, or longer.             *)
RefusedOnlyWhenNoneFits ==
    \A n \in refused, k \in LOWER .. UPPER : pow2[k] >= n => NoneLeft(k)

H == INSTANCE Heap

(* buddy_alloc and buddy_free implement the abstract heap: every block a   *)
(* caller gets lies in the area, is as long as requested and overlaps none *)
(* of the others, and splitting and merging are invisible to the callers.  *)
HeapSpec == H!HSpec

=============================================================================

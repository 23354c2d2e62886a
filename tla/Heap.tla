-------------------------------- MODULE Heap --------------------------------
(***************************************************************************)
(* The allocator of lab03 (mymalloc.c): one arena tiled by blocks, a       *)
(* header and its payload each, and an address-ordered list of the free    *)
(* ones.  Addresses and sizes are in units of 16 bytes, the header's size, *)
(* the alignment and the least payload alike.  The list is the set of its  *)
(* members, for its order is that of the addresses.  A header stays in     *)
(* memory after a merge has put it inside a payload, until the owner of    *)
(* that payload writes over it: myfree may meet it again.                  *)
(***************************************************************************)
EXTENDS Integers

CONSTANTS
    Arena,      \* arena_len
    MaxSize     \* bound: the largest payload asked for

ArenaAssumption == Arena \in Nat /\ Arena >= 2 /\ MaxSize \in Nat

VARIABLES
    size, flags,    \* the headers in memory; flags is "none" without the magic
    free,           \* the members of the list at free_head
    fit_policy, coalesce_on,
    live            \* the blocks the callers own

vars == <<size, flags, free, fit_policy, coalesce_on, live>>

Addr == 0..(Arena - 1)
Policies == {"first", "best", "worst"}
EndOf(a) == a + 1 + size[a]         \* phys_next: where the next block starts

(* arena_init. *)
Init ==
    /\ size = [a \in Addr |-> IF a = 0 THEN Arena - 1 ELSE 0]
    /\ flags = [a \in Addr |-> IF a = 0 THEN "free" ELSE "none"]
    /\ free = {0}
    /\ fit_policy = "first"
    /\ coalesce_on \in BOOLEAN
    /\ live = {}

SetFit(p) ==
    /\ fit_policy' = p
    /\ UNCHANGED <<size, flags, free, coalesce_on, live>>

(* a is a better choice than b, or the same and lower. *)
Better(a, b) ==
    \/ fit_policy = "first" /\ a <= b
    \/ fit_policy = "best" /\ (size[a] < size[b] \/ (size[a] = size[b] /\ a <= b))
    \/ fit_policy = "worst" /\ (size[a] > size[b] \/ (size[a] = size[b] /\ a <= b))

Fits(need) == {a \in free : size[a] >= need}

(* find_block returns b. *)
find_block(need, b) == b \in Fits(need) /\ \A a \in Fits(need) : Better(b, a)

(* Mutant: a remainder without room for a payload becomes a block. *)
SplitsTight(b, need) == size[b] >= need + 1

Splits(b, need) == size[b] >= need + 1 + 1

(* mymalloc finds block b: the remainder takes its place in the list. *)
Take(b, need) ==
    /\ find_block(need, b)
    /\ IF Splits(b, need)
       THEN LET rem == b + 1 + need IN
            /\ size' = [size EXCEPT ![b] = need, ![rem] = size[b] - need - 1]
            /\ flags' = [flags EXCEPT ![b] = "used", ![rem] = "free"]
            /\ free' = (free \ {b}) \cup {rem}
       ELSE /\ flags' = [flags EXCEPT ![b] = "used"]
            /\ free' = free \ {b}
            /\ UNCHANGED size
    /\ live' = live \cup {b}
    /\ UNCHANGED <<fit_policy, coalesce_on>>

(* mymalloc(n); without a block that fits it returns NULL and nothing      *)
(* changes.                                                                *)
Malloc(n) == \E b \in free : Take(b, IF n = 0 THEN 1 ELSE n)

(* The owner writes its payload: a header left in unit a is gone. *)
Overwrite(b, a) ==
    /\ b \in live /\ b < a /\ a < EndOf(b) /\ flags[a] # "none"
    /\ flags' = [flags EXCEPT ![a] = "none"]
    /\ UNCHANGED <<size, free, fit_policy, coalesce_on, live>>

(* The list neighbours of h and whether they are its physical neighbours. *)
Pred(h, p) == p \in free /\ p < h /\ \A a \in free : a <= p \/ a >= h
Succ(h, n) == n \in free /\ n > h /\ \A a \in free : a <= h \/ a >= n
JoinsNext(h, n) == Succ(h, n) /\ EndOf(h) = n
JoinsPrev(h, p) == Pred(h, p) /\ EndOf(p) = h

(* Mutant: the backward merge is tried only if there was no forward one. *)
MergeOneSide(h) ==
    LET fwd == {n \in free : JoinsNext(h, n)}
        bwd == IF fwd = {} THEN {p \in free : JoinsPrev(h, p)} ELSE {} IN
    /\ free' = IF bwd = {} THEN (free \ fwd) \cup {h} ELSE free \ fwd
    /\ size' = [a \in Addr |->
                  IF a \in bwd THEN size[a] + 1 + size[h]
                  ELSE IF a = h /\ fwd # {} THEN EndOf(CHOOSE n \in fwd : TRUE) - h - 1
                  ELSE size[a]]

(* The merges of myfree: forwards first, so that the backward one absorbs  *)
(* the whole run.                                                          *)
Merge(h) ==
    LET fwd == {n \in free : JoinsNext(h, n)}
        bwd == {p \in free : JoinsPrev(h, p)}
        end == IF fwd = {} THEN EndOf(h) ELSE EndOf(CHOOSE n \in fwd : TRUE) IN
    /\ free' = IF bwd = {} THEN (free \ fwd) \cup {h} ELSE free \ fwd
    /\ size' = [a \in Addr |->
                  IF a \in bwd \/ a = h THEN (IF a = h THEN end - h - 1 ELSE end - a - 1)
                  ELSE size[a]]

(* myfree of a pointer whose header would be at h.  It is turned away if   *)
(* there is no header, its size runs off the arena, or it is not in use.   *)
Valid(h) == flags[h] # "none" /\ size[h] # 0 /\ EndOf(h) <= Arena

Free(h) ==
    /\ Valid(h) /\ flags[h] = "used"
    /\ flags' = [flags EXCEPT ![h] = "free"]
    /\ IF coalesce_on
       THEN Merge(h)
       ELSE free' = free \cup {h} /\ UNCHANGED size
    /\ live' = live \ {h}
    /\ UNCHANGED <<fit_policy, coalesce_on>>

(* mym_reset, and the arena_init of the call after it. *)
Reset ==
    /\ size' = [a \in Addr |-> IF a = 0 THEN Arena - 1 ELSE 0]
    /\ flags' = [a \in Addr |-> IF a = 0 THEN "free" ELSE "none"]
    /\ free' = {0}
    /\ coalesce_on' \in BOOLEAN
    /\ live' = {}
    /\ UNCHANGED fit_policy

Next ==
    \/ \E p \in Policies : SetFit(p)
    \/ \E n \in 0..MaxSize : Malloc(n)
    \/ \E b \in live, a \in Addr : Overwrite(b, a)
    \/ \E h \in Addr : Free(h)
    \/ Reset

Spec == Init /\ [][Next]_vars

-----------------------------------------------------------------------------
(* The walker.                                                             *)

(* The blocks the physical walk meets from p on; -1 among them when it has *)
(* to stop early.                                                          *)
Walk[p \in 0..Arena] ==
    IF p = Arena THEN {}
    ELSE IF Valid(p) THEN {p} \cup Walk[EndOf(p)] ELSE {-1}

(* mym_check_heap() = 0: the walk tiles the arena, no merge was missed,    *)
(* and the list holds exactly the free blocks of the walk.                 *)
mym_check_heap_ok ==
    LET met == Walk[0] IN
    /\ -1 \notin met
    /\ free = {a \in met : flags[a] = "free"}
    /\ coalesce_on => \A a \in free : EndOf(a) \notin free

-----------------------------------------------------------------------------
(* Properties.                                                             *)

(* After any sequence of calls, with pointers the caller no longer owns or *)
(* never owned among those it frees, the walker finds nothing wrong, and   *)
(* the blocks in use it meets are the callers' own.                        *)
WalkerAgrees ==
    mym_check_heap_ok /\ live = {a \in Walk[0] : flags[a] = "used"}

Blocks == live \cup free

(* Every block lies inside the arena and has a payload. *)
InArena == \A a \in Blocks : size[a] >= 1 /\ EndOf(a) <= Arena

(* No two blocks overlap, and no unit of the arena is outside them all. *)
Disjoint == \A a, b \in Blocks : a < b => EndOf(a) <= b
Covered == \A u \in Addr : \E a \in Blocks : a <= u /\ u < EndOf(a)

(* A header that says in use is the header of a block somebody owns,       *)
(* wherever in memory it lies: so a second myfree, or one of a pointer     *)
(* whose block was merged or handed out again, is turned away.             *)
UsedMeansOwned == {a \in Addr : flags[a] = "used"} = live

(* With coalescing no two free blocks touch. *)
Coalesced == coalesce_on => \A a \in free : EndOf(a) \notin free

(* The callers' blocks and the free list tile the arena after any sequence *)
(* of calls: no overlap, no leak, no missed merge.                         *)
HeapTiled ==
    /\ InArena /\ Disjoint /\ Covered
    /\ UsedMeansOwned /\ Coalesced
    /\ \A a \in free : flags[a] = "free"
=============================================================================

------------------------------- MODULE BigFile -------------------------------
(***************************************************************************)
(* The blocks of files in the lab07 kernel (fs.c): the bitmap, and the     *)
(* direct, singly and doubly indirect pointers of an inode.  ip->lock and  *)
(* the transaction make each call one step; the disk may be full at any    *)
(* allocation, and the user page behind a write may be bad.                *)
(*                                                                         *)
(* And the checker of images (xfsck.c), of these blocks: who claims which, *)
(* and whether the bitmap says the same.  It is put to the disks that the  *)
(* kernel leaves, whole and damaged.                                       *)
(***************************************************************************)
EXTENDS Integers, FiniteSets, Sequences

CONSTANTS
    Files,
    NBlocks,        \* data blocks are 1..NBlocks; 0 is no block
    NDIRECT, NINDIRECT

VARIABLES
    used,           \* the bits of the bitmap
    addrs,          \* ip->addrs
    fsize,          \* ip->size, in blocks
    words           \* the contents of each block, as NINDIRECT words

vars == <<used, addrs, fsize, words>>

Block == 1..NBlocks
MAXFILE == NDIRECT + NINDIRECT + NINDIRECT * NINDIRECT
Filled(v) == [j \in 0..(NINDIRECT - 1) |-> v]

(* What is written to a block of a file tells it from all others, and is   *)
(* no address.  What a free block still holds is not kept: it is taken to  *)
(* look like an address.                                                   *)
Content(f, bn) == Filled(NBlocks + f * MAXFILE + bn)
Left == Filled(1)

Init ==
    /\ used = {}
    /\ addrs = [f \in Files |-> [k \in 0..(NDIRECT + 1) |-> 0]]
    /\ fsize = [f \in Files |-> 0]
    /\ words = [b \in Block |-> Left]

-----------------------------------------------------------------------------
(* A step of a walk: the disk it sees, and the address it came to.         *)

(* balloc: the first free block, or 0. *)
FirstFree(u) ==
    IF Block \subseteq u THEN 0 ELSE CHOOSE b \in Block \ u : \A c \in Block \ u : b <= c

(* Mutant: the block is not zeroed. *)
BallocDirty(w) ==
    LET b == FirstFree(w.used) IN
    IF b = 0 THEN [w EXCEPT !.addr = 0]
    ELSE [w EXCEPT !.used = @ \cup {b}, !.addr = b]

Balloc(w) ==
    LET b == FirstFree(w.used) IN
    IF b = 0 THEN [w EXCEPT !.addr = 0]
    ELSE [w EXCEPT !.used = @ \cup {b}, !.addr = b, !.words[b] = Filled(0)]

(* ip->addrs[k], allocated if it is not there. *)
Direct(w, k) ==
    IF w.addrs[k] # 0 THEN [w EXCEPT !.addr = w.addrs[k]]
    ELSE LET x == Balloc(w) IN [x EXCEPT !.addrs[k] = x.addr]

(* Entry j of the block of addresses the walk came to. *)
Indirect(w, j) ==
    IF w.addr = 0 THEN w
    ELSE IF w.words[w.addr][j] # 0 THEN [w EXCEPT !.addr = w.words[w.addr][j]]
    ELSE LET x == Balloc(w) IN [x EXCEPT !.words[w.addr][j] = x.addr]

Start(f) == [used |-> used, addrs |-> addrs[f], words |-> words, addr |-> 0]

bmap(f, bn) ==
    LET single == bn - NDIRECT
        double == single - NINDIRECT IN
    CASE bn < NDIRECT -> Direct(Start(f), bn)
      [] bn >= NDIRECT /\ single < NINDIRECT ->
           Indirect(Direct(Start(f), NDIRECT), single)
      [] OTHER ->
           Indirect(Indirect(Direct(Start(f), NDIRECT + 1), double \div NINDIRECT),
                    double % NINDIRECT)

-----------------------------------------------------------------------------
(* One block of writei, overwriting or at the end of the file: nothing is  *)
(* written when bmap finds no block, or the user's page is bad (ok is      *)
(* FALSE), but the addresses bmap added stay.                              *)
Write(f, bn, ok) ==
    LET w == bmap(f, bn)
        done == ok /\ w.addr # 0 IN
    /\ bn <= fsize[f] /\ bn < MAXFILE
    /\ used' = w.used
    /\ addrs' = [addrs EXCEPT ![f] = w.addrs]
    /\ words' = IF done THEN [w.words EXCEPT ![w.addr] = Content(f, bn)] ELSE w.words
    /\ fsize' = [fsize EXCEPT ![f] = IF done /\ bn = @ THEN @ + 1 ELSE @]

(* The blocks an inode names, with those of addresses among them. *)
Named(b) == {words[b][j] : j \in 0..(NINDIRECT - 1)} \ {0}
Singles(f) == {addrs[f][NDIRECT]} \cup UNION {Named(b) : b \in {addrs[f][NDIRECT + 1]} \ {0}}
Owned(f) ==
    ({addrs[f][k] : k \in 0..(NDIRECT + 1)} \cup Singles(f)
     \cup UNION {Named(b) : b \in Singles(f) \ {0}}) \ {0}

Freed(S) == [b \in Block |-> IF b \in S THEN Left ELSE words[b]]

(* Mutant: the singly indirect blocks below the double one are kept. *)
TruncShallow(f) ==
    /\ used' = used \ (Owned(f) \ (Singles(f) \ {addrs[f][NDIRECT]}))
    /\ words' = Freed(Owned(f))
    /\ addrs' = [addrs EXCEPT ![f] = [k \in 0..(NDIRECT + 1) |-> 0]]
    /\ fsize' = [fsize EXCEPT ![f] = 0]

(* itrunc, by O_TRUNC or the last iput: bfree of everything. *)
Trunc(f) ==
    /\ used' = used \ Owned(f)
    /\ words' = Freed(Owned(f))
    /\ addrs' = [addrs EXCEPT ![f] = [k \in 0..(NDIRECT + 1) |-> 0]]
    /\ fsize' = [fsize EXCEPT ![f] = 0]

Next ==
    \E f \in Files :
      \/ \E bn \in 0..(MAXFILE - 1), ok \in BOOLEAN : Write(f, bn, ok)
      \/ Trunc(f)

Spec == Init /\ [][Next]_vars

-----------------------------------------------------------------------------
(* The checker.  Every inode is allocated, and the data region is Block.   *)

Image == [used |-> used, addrs |-> addrs, words |-> words]

(* The words of a block of addresses; none outside the data region. *)
Word(d, b, j) == IF b \in Block THEN d.words[b][j] ELSE 0

(* Mutant: the doubly indirect block is claimed, and what it names; the    *)
(* blocks in between are not.                                              *)
ClaimsAround(d, f) ==
    LET Index == 0..(NINDIRECT - 1)
        Single(i) == Word(d, d.addrs[f][NDIRECT + 1], i) IN
    {<<k, d.addrs[f][k]>> : k \in 0..(NDIRECT + 1)}
    \cup {<<NDIRECT, i, Word(d, d.addrs[f][NDIRECT], i)>> : i \in Index}
    \cup {<<NDIRECT + 1, i, j, Word(d, Single(i), j)>> : i \in Index, j \in Index}

(* walk_inode: each place the inode names a block in, with the block last. *)
Claims(d, f) ==
    LET Index == 0..(NINDIRECT - 1)
        Single(i) == Word(d, d.addrs[f][NDIRECT + 1], i) IN
    {<<k, d.addrs[f][k]>> : k \in 0..(NDIRECT + 1)}
    \cup {<<NDIRECT, i, Word(d, d.addrs[f][NDIRECT], i)>> : i \in Index}
    \cup {<<NDIRECT + 1, i, Single(i)>> : i \in Index}
    \cup {<<NDIRECT + 1, i, j, Word(d, Single(i), j)>> : i \in Index, j \in Index}

(* 0 is no block. *)
AllClaims(d) ==
    {c \in UNION {{<<f>> \o c : c \in Claims(d, f)} : f \in Files} : c[Len(c)] # 0}

Claimed(claims) == {c[Len(c)] : c \in claims}

(* claim: no block out of range, none claimed twice. *)
ClaimsGood(claims) ==
    Claimed(claims) \subseteq Block /\ Cardinality(claims) = Cardinality(Claimed(claims))

(* And the bitmap neither leaks one nor calls one free that is used. *)
Clean(d) == LET claims == AllClaims(d) IN ClaimsGood(claims) /\ Claimed(claims) = d.used

-----------------------------------------------------------------------------
(* Properties.                                                             *)

(* Every place that names a block: a slot of an inode, or an entry of one  *)
(* of its blocks of addresses.                                             *)
Places(f) ==
    {<<f, 0, k>> : k \in {i \in 0..(NDIRECT + 1) : addrs[f][i] # 0}}
    \cup UNION {{<<f, b, j>> : j \in {i \in 0..(NINDIRECT - 1) : words[b][i] # 0}} :
                b \in (Singles(f) \cup {addrs[f][NDIRECT + 1]}) \ {0}}

(* Whatever is written and truncated, and wherever the disk runs full: the *)
(* bitmap marks the blocks the files name and no others, so that freeing a *)
(* file gives back all of its blocks; each is named in one place; and a    *)
(* file reads back what was written to it.                                 *)
FilesIntact ==
    /\ used = UNION {Owned(f) : f \in Files}
    /\ Cardinality(UNION {Places(f) : f \in Files}) = Cardinality(used)
    /\ \A f \in Files, bn \in 0..(MAXFILE - 1) : bn < fsize[f] =>
         LET w == bmap(f, bn) IN w.used = used /\ words[w.addr] = Content(f, bn)

AddressBlocks == (UNION {Singles(f) \cup {addrs[f][NDIRECT + 1]} : f \in Files}) \ {0}

(* No block, the one that comes into use first and the one that does last, *)
(* and one that is out of the data region.                                 *)
SomeBlocks == {0, 1, NBlocks, NBlocks + 1}

(* One bit of the bitmap, or one address, is another. *)
Damaged ==
    {[Image EXCEPT !.used = (@ \ {b}) \cup ({b} \ @)] : b \in Block}
    \cup {[Image EXCEPT !.addrs[f][k] = v] :
            f \in Files, k \in 0..(NDIRECT + 1), v \in SomeBlocks}
    \cup {[Image EXCEPT !.words[b][j] = v] :
            b \in AddressBlocks, j \in 0..(NINDIRECT - 1), v \in SomeBlocks}

(* One block of data holds something else. *)
Altered == {[Image EXCEPT !.words[b] = Left] : b \in used \ AddressBlocks}

(* What UNDETECTABLE.md says: the checker has no complaint about a disk    *)
(* the kernel left, wherever it ran full; it finds whatever makes two      *)
(* records disagree; and the contents of a file are not its business.      *)
CheckerExact ==
    /\ Clean(Image)
    /\ \A d \in Damaged \ {Image} : ~Clean(d)
    /\ \A d \in Altered : Clean(d)
=============================================================================

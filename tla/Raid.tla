-------------------------------- MODULE Raid --------------------------------
(***************************************************************************)
(* The RAID engine of lab06 (raidsim.c): levels 0, 1, 4 and 5 with XOR     *)
(* parity, degraded reads and writes, and rebuild.  raidsim runs a script, *)
(* so a command is one step.  A block is one bit: XOR works on the bits of *)
(* a block independently, and the XOR of a set of disks is the parity of   *)
(* its ones.  A failed disk keeps its bits until rebuild clears it, as in  *)
(* the program.  A logical block outside the capacity is never addressed.  *)
(***************************************************************************)
EXTENDS Integers, FiniteSets

CONSTANT Shapes     \* the arguments of init: level, ndisks, chunk, rows

(* What init accepts. *)
ShapesAssumption ==
    \A s \in Shapes :
        /\ s.level \in {0, 1, 4, 5}
        /\ s.ndisks \in Nat \ {0} /\ (s.level # 0 => s.ndisks >= 2)
        /\ s.chunk \in Nat \ {0}
        /\ s.rows \in Nat \ {0} /\ s.rows % s.chunk = 0

VARIABLES
    shape,          \* the geometry in use
    parity_mode,    \* "auto", "additive" or "subtractive"
    disk,           \* disk[d][row]
    failed,         \* the disks d with failed[d]
    last,           \* history: the last value an acknowledged write gave
    stale,          \* history: written last while their disk was failed
    beyond          \* history: a rebuild had too few survivors

vars == <<shape, parity_mode, disk, failed, last, stale, beyond>>

Bit == {0, 1}
Lost == -1
Modes == {"auto", "additive", "subtractive"}
Disks == 0..(shape.ndisks - 1)
Rows == 0..(shape.rows - 1)
Striped == shape.level \in {4, 5}

data_disks ==
    IF shape.level = 1 THEN 1
    ELSE IF shape.level = 0 THEN shape.ndisks ELSE shape.ndisks - 1

Lbas == 0..(data_disks * shape.rows - 1)

parity_disk_of(stripe) ==
    IF shape.level = 4 THEN shape.ndisks - 1
    ELSE shape.ndisks - 1 - (stripe % shape.ndisks)

Stripe(lba) == (lba \div shape.chunk) \div data_disks
RowOf(lba) == Stripe(lba) * shape.chunk + (lba % shape.chunk)

(* The disk of a block: data columns skip the parity disk on level 5. *)
DiskOf(lba) ==
    LET col == (lba \div shape.chunk) % data_disks IN
    IF shape.level = 5 /\ col >= parity_disk_of(Stripe(lba)) THEN col + 1 ELSE col

First(S) == CHOOSE i \in S : \A j \in S : i <= j

Xor(b, S, row) == Cardinality({d \in S : b[d][row] = 1}) % 2

(* reconstruct: every disk takes part in every row of levels 4 and 5. *)
Reconstruct(d, row) ==
    IF failed \ {d} # {} THEN Lost ELSE Xor(disk, Disks \ {d}, row)

(* logical_read: from the disk, a mirror or the redundancy. *)
Read(lba) ==
    LET d == DiskOf(lba)
        row == RowOf(lba) IN
    IF shape.level = 1 /\ Disks \ failed # {}
    THEN disk[First(Disks \ failed)][row]
    ELSE IF d \notin failed THEN disk[d][row]
    ELSE IF Striped THEN Reconstruct(d, row) ELSE Lost

-----------------------------------------------------------------------------
Blank(s) == [d \in 0..(s.ndisks - 1) |-> [r \in 0..(s.rows - 1) |-> 0]]

Init ==
    /\ shape \in Shapes
    /\ parity_mode = "auto"
    /\ disk = Blank(shape)
    /\ failed = {}
    /\ last = [lba \in Lbas |-> 0]
    /\ stale = {}
    /\ beyond = FALSE

SetParity(m) ==
    /\ parity_mode' = m
    /\ UNCHANGED <<shape, disk, failed, last, stale, beyond>>

(* auto: subtractive costs 4 I/Os, additive data_disks + 1. *)
Subtractive ==
    \/ parity_mode = "subtractive"
    \/ parity_mode = "auto" /\ 4 <= (data_disks - 1) + 2

(* Mutant: the old data stays in the parity. *)
NewParityKeepsOld(d, p, row, v) ==
    IF Subtractive THEN (disk[p][row] + v) % 2
    ELSE (Xor(disk, Disks \ {d, p}, row) + v) % 2

(* The parity of a row whose disk d takes the value v, both disks live. *)
NewParity(d, p, row, v) ==
    IF Subtractive THEN (disk[p][row] + disk[d][row] + v) % 2
    ELSE (Xor(disk, Disks \ {d, p}, row) + v) % 2

(* The disks after a write of v on levels 4 and 5.  With the data or the   *)
(* parity disk failed it writes what survives; parity_recompute reads      *)
(* every data disk, the failed one too.                                    *)
StripeWrite(d, p, row, v) ==
    LET data == IF d \in failed THEN disk ELSE [disk EXCEPT ![d][row] = v] IN
    IF d \in failed \/ p \in failed
    THEN IF p \in failed THEN data
         ELSE [data EXCEPT ![p][row] = Xor(data, Disks \ {p}, row)]
    ELSE [data EXCEPT ![p][row] = NewParity(d, p, row, v)]

(* logical_write; level 0 refuses a block of a failed disk. *)
Write(lba, v) ==
    LET d == DiskOf(lba)
        row == RowOf(lba) IN
    /\ shape.level = 0 => d \notin failed
    /\ disk' = IF Striped THEN StripeWrite(d, parity_disk_of(Stripe(lba)), row, v)
               ELSE IF shape.level = 1
                    THEN [i \in Disks |-> IF i \in failed THEN disk[i]
                                          ELSE [disk[i] EXCEPT ![row] = v]]
               ELSE [disk EXCEPT ![d][row] = v]
    /\ last' = [last EXCEPT ![lba] = v]
    /\ stale' = IF (Striped /\ d \in failed) \/ Disks \subseteq failed
                THEN stale \cup {lba} ELSE stale \ {lba}
    /\ UNCHANGED <<shape, parity_mode, failed, beyond>>

Fail(d) ==
    /\ failed' = failed \cup {d}
    /\ UNCHANGED <<shape, parity_mode, disk, last, stale, beyond>>

(* The contents rebuild gives row r of the replacement of d: zero where    *)
(* nothing can be recovered.                                               *)
Rebuilt(d, row) ==
    IF shape.level = 1 /\ Disks \ (failed \cup {d}) # {}
    THEN disk[First(Disks \ (failed \cup {d}))][row]
    ELSE IF Striped /\ Reconstruct(d, row) # Lost THEN Reconstruct(d, row) ELSE 0

(* rebuild: the replacement is live at the end whatever was recovered. *)
Rebuild(d) ==
    /\ d \in failed
    /\ disk' = [disk EXCEPT ![d] = [row \in Rows |-> Rebuilt(d, row)]]
    /\ failed' = failed \ {d}
    /\ beyond' = \/ beyond \/ shape.level = 0
                 \/ shape.level = 1 /\ Disks \subseteq failed
                 \/ Striped /\ failed # {d}
    /\ UNCHANGED <<shape, parity_mode, last, stale>>

(* A script is followed until a rebuild had too few survivors. *)
Next ==
    /\ ~beyond
    /\ \/ \E m \in Modes : SetParity(m)
       \/ \E lba \in Lbas, v \in Bit : Write(lba, v)
       \/ \E d \in Disks : Fail(d) \/ Rebuild(d)

Spec == Init /\ [][Next]_vars

-----------------------------------------------------------------------------
(* Properties.                                                             *)

(* How many failed disks a level survives. *)
Survives ==
    CASE shape.level = 0 -> 0 [] shape.level = 1 -> shape.ndisks - 1 [] OTHER -> 1

(* Whatever was written, failed and rebuilt in whatever order: as long as  *)
(* no rebuild had too few survivors, every block reads back what was last  *)
(* written to it or is reported lost, and it is lost only when more disks  *)
(* have failed than the level survives.  A block written while its own     *)
(* disk was failed is the exception: that write is not kept.               *)
ReadsBack ==
    ~beyond => \A lba \in Lbas :
        /\ Read(lba) = Lost => Cardinality(failed) > Survives
        /\ Read(lba) # Lost /\ lba \notin stale => Read(lba) = last[lba]

=============================================================================

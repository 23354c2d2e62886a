---------------------------- MODULE ForkMemory -----------------------------
(***************************************************************************)
(* What fork promises: every process has memory of its own.  A child       *)
(* starts with a copy of its parent's; a store is seen by nobody else, and *)
(* only data pages are stored to.                                          *)
(***************************************************************************)
EXTENDS Integers, Sequences

CONSTANTS
    Procs, InitProc, Vals,
    Layout,         \* the kind of each page of a program
    MaxSz           \* bound: pages of a process

VARIABLE mem        \* mem[p]: p's pages, kind and value; <<>> while there is no p

Zero(kind) == [kind |-> kind, val |-> 0]

Init == mem = [p \in Procs |->
                 IF p = InitProc THEN [va \in 1..Len(Layout) |-> Zero(Layout[va])] ELSE <<>>]

Store(p, va, v) ==
    /\ va \in 1..Len(mem[p]) /\ mem[p][va].kind = "data"
    /\ mem' = [mem EXCEPT ![p][va].val = v]

Fork(p, q) == mem[q] = <<>> /\ mem' = [mem EXCEPT ![q] = mem[p]]
Exit(p) == mem' = [mem EXCEPT ![p] = <<>>]
Grow(p) == Len(mem[p]) \in 1..(MaxSz - 1) /\ mem' = [mem EXCEPT ![p] = Append(@, Zero("data"))]
Shrink(p) == Len(mem[p]) > 1 /\ mem' = [mem EXCEPT ![p] = SubSeq(@, 1, Len(@) - 1)]

Next ==
    \E p \in Procs :
        \/ \E va \in 1..MaxSz, v \in Vals : Store(p, va, v)
        \/ \E q \in Procs : Fork(p, q)
        \/ Exit(p) \/ Grow(p) \/ Shrink(p)

Spec == Init /\ [][Next]_mem
=============================================================================

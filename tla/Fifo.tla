-------------------------------- MODULE Fifo --------------------------------
(***************************************************************************)
(* What pcbuffer.h promises: a bounded first-in first-out queue whose put  *)
(* blocks while it is full and whose get blocks while it is empty.         *)
(***************************************************************************)
EXTENDS Integers, Sequences

CONSTANTS Items, Consumers, Capacity

VARIABLES
    queue,      \* the items put and not yet taken, oldest first
    got         \* got[c]: the item c's last pcb_get returned, <<>> if none

fifoVars == <<queue, got>>

Init == queue = <<>> /\ got = [c \in Consumers |-> <<>>]

Put(x) ==
    /\ Len(queue) < Capacity
    /\ queue' = Append(queue, x)
    /\ UNCHANGED got

Get(c) ==
    /\ queue # <<>>
    /\ got' = [got EXCEPT ![c] = <<Head(queue)>>]
    /\ queue' = Tail(queue)

Next == (\E x \in Items : Put(x)) \/ (\E c \in Consumers : Get(c))

Spec == Init /\ [][Next]_fifoVars
=============================================================================

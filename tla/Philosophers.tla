---------------------------- MODULE Philosophers ----------------------------
(***************************************************************************)
(* The dining philosophers of lab05 (toolkit.c): a semaphore per fork and  *)
(* a footman that admits n - 1 philosophers.  One step is one semaphore    *)
(* operation.                                                              *)
(***************************************************************************)
EXTENDS Integers

CONSTANT n      \* phils.n, at least 2

VARIABLES
    footman,    \* the value of phils.footman
    fork,       \* fork[i]: the value of phils.fork[i]
    pc          \* pc[w]: the next semaphore operation of philosopher w

vars == <<footman, fork, pc>>

Phils == 0..(n - 1)
Left(w) == w
Right(w) == (w + 1) % n

Move(w, from, to) == pc[w] = from /\ pc' = [pc EXCEPT ![w] = to]
P(i) == fork[i] > 0 /\ fork' = [fork EXCEPT ![i] = @ - 1]
V(i) == fork' = [fork EXCEPT ![i] = @ + 1]

Init ==
    /\ footman = n - 1
    /\ fork = [i \in Phils |-> 1]
    /\ pc = [w \in Phils |-> "thinking"]

(* phil_pickup *)

Hungry(w) ==
    /\ Move(w, "thinking", "footman")
    /\ UNCHANGED <<footman, fork>>

Admit(w) ==
    /\ Move(w, "footman", "left")
    /\ footman > 0
    /\ footman' = footman - 1
    /\ UNCHANGED fork

TakeLeft(w) == Move(w, "left", "right") /\ P(Left(w)) /\ UNCHANGED footman

(* Mutant: spins for the fork that is already in the left hand. *)
TakeRightSame(w) ==
    /\ pc[w] = "right"
    /\ IF fork[Left(w)] > 0 THEN Move(w, "right", "eating") ELSE UNCHANGED pc
    /\ UNCHANGED <<footman, fork>>

TakeRight(w) == Move(w, "right", "eating") /\ P(Right(w)) /\ UNCHANGED footman

(* phil_putdown *)

PutRight(w) == Move(w, "eating", "downLeft") /\ V(Right(w)) /\ UNCHANGED footman

PutLeft(w) == Move(w, "downLeft", "thank") /\ V(Left(w)) /\ UNCHANGED footman

Depart(w) ==
    /\ Move(w, "thank", "thinking")
    /\ footman' = footman + 1
    /\ UNCHANGED fork

Step(w) ==
    \/ Admit(w) \/ TakeLeft(w) \/ TakeRight(w)
    \/ PutRight(w) \/ PutLeft(w) \/ Depart(w)

Next == \E w \in Phils : Hungry(w) \/ Step(w)

Spec == Init /\ [][Next]_vars

(* Philosophers stop eating and put down, and a wait on a semaphore that   *)
(* stays positive returns.                                                 *)
Fairness == \A w \in Phils : WF_vars(Step(w))

-----------------------------------------------------------------------------
(* Properties.                                                             *)

(* Hungry philosophers never all go without: somebody gets to eat. *)
SomebodyEats ==
    (\E w \in Phils : pc[w] \in {"footman", "left", "right"}) ~> (\E w \in Phils : pc[w] = "eating")
=============================================================================

-------------------------------- MODULE MSem --------------------------------
(***************************************************************************)
(* The semaphore of lab05 (toolkit.c): an integer, a mutex and a condition *)
(* variable.  The value is touched only with the mutex held, so what a     *)
(* thread does between getting the mutex and giving it up (by unlocking it *)
(* or by sleeping) is one step.  A signal wakes any one sleeper, a sleeper *)
(* may wake by itself, and other threads may come between its waking and   *)
(* its next look at the value.                                             *)
(***************************************************************************)
EXTENDS Integers, FiniteSets

CONSTANTS
    Threads,
    MaxValue    \* bound: no post above this value

VARIABLES
    value,      \* msem.value
    pc          \* out, called, asleep (in pthread_cond_wait), awake

vars == <<value, pc>>

At(P) == {t \in Threads : pc[t] \in P}

Init ==
    /\ value \in 0..MaxValue
    /\ pc = [t \in Threads |-> "out"]

Call(t) ==
    /\ pc[t] = "out"
    /\ pc' = [pc EXCEPT ![t] = "called"]
    /\ UNCHANGED value

(* Mutant: the value is not looked at again after the sleep. *)
TakeOnce(t) ==
    /\ pc[t] = "awake" \/ (pc[t] = "called" /\ value > 0)
    /\ value' = value - 1
    /\ pc' = [pc EXCEPT ![t] = "out"]

(* The while of msem_wait finds the value positive and takes one. *)
Take(t) ==
    /\ pc[t] \in {"called", "awake"}
    /\ value > 0
    /\ value' = value - 1
    /\ pc' = [pc EXCEPT ![t] = "out"]

(* It finds 0 and sleeps. *)
Sleep(t) ==
    /\ pc[t] \in {"called", "awake"}
    /\ value = 0
    /\ pc' = [pc EXCEPT ![t] = "asleep"]
    /\ UNCHANGED value

Spurious(t) ==
    /\ pc[t] = "asleep"
    /\ pc' = [pc EXCEPT ![t] = "awake"]
    /\ UNCHANGED value

(* Mutant: signal only when the value leaves 0. *)
PostFirstOnly ==
    /\ value < MaxValue
    /\ value' = value + 1
    /\ IF At({"asleep"}) = {} \/ value > 0
       THEN UNCHANGED pc
       ELSE \E s \in At({"asleep"}) : pc' = [pc EXCEPT ![s] = "awake"]

(* msem_post: the poster is a thread outside msem_wait. *)
Post ==
    /\ value < MaxValue
    /\ value' = value + 1
    /\ IF At({"asleep"}) = {}
       THEN UNCHANGED pc
       ELSE \E s \in At({"asleep"}) : pc' = [pc EXCEPT ![s] = "awake"]

Next ==
    \/ Post
    \/ \E t \in Threads : Call(t) \/ Take(t) \/ Sleep(t) \/ Spurious(t)

Spec == Init /\ [][Next]_vars

(* A thread that is not asleep gets the mutex and goes on. *)
Fairness == \A t \in Threads : WF_vars(Take(t) \/ Sleep(t))

-----------------------------------------------------------------------------
(* Properties.                                                             *)

waiting == At({"called", "awake", "asleep"})

(* What toolkit.h promises: a wait takes one unit and blocks while there   *)
(* is none, a post adds one.                                               *)
SemCall(t) == t \notin waiting /\ waiting' = waiting \cup {t} /\ UNCHANGED value
SemWait(t) == t \in waiting /\ value > 0 /\ value' = value - 1 /\ waiting' = waiting \ {t}
SemPost == value' = value + 1 /\ waiting' = waiting

Semaphore ==
    /\ waiting = {}
    /\ [][SemPost \/ \E t \in Threads : SemCall(t) \/ SemWait(t)]_<<value, waiting>>

(* msem is that semaphore: waits never take a unit that is not there.      *)
ImplementsSemaphore == Semaphore

(* No signal is lost on a thread that does not need it: while somebody     *)
(* sleeps there are threads on their way to every unit.                    *)
UnitsSpokenFor == At({"asleep"}) # {} => value <= Cardinality(At({"called", "awake"}))

(* It is a weak semaphore: a waiter is served if the value stays positive, *)
(* in no particular order (weak fairness of SemWait, written out).         *)
WaitersServed ==
    \A t \in Threads :
        <>[](t \in waiting /\ value > 0) => []<><<SemWait(t)>>_<<value, waiting>>
=============================================================================

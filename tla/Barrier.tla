------------------------------ MODULE Barrier ------------------------------
(***************************************************************************)
(* The reusable barrier of lab05 (toolkit.c): two turnstiles made of       *)
(* semaphores.  One step is one semaphore operation (module MSem shows     *)
(* that msem is a Semaphore); arrived is touched only between wait and     *)
(* post of mutex, so counting goes with the wait.                          *)
(***************************************************************************)
EXTENDS Integers, FiniteSets

CONSTANTS
    Threads,        \* all the threads of the barrier, n of them
    MaxRounds       \* bound: calls of mbarrier_wait per thread

VARIABLES
    arrived,            \* mbarrier.arrived
    barMutex, gateA, gateB, \* mbarrier.mutex and the gates: the values of the three semaphores
    pc,                 \* pc[t]: the next semaphore operation of t
    called, returned    \* history: calls of mbarrier_wait t made, and that returned

vars == <<arrived, barMutex, gateA, gateB, pc, called, returned>>

n == Cardinality(Threads)

P(s) == s > 0 /\ s' = s - 1
V(s) == s' = s + 1
Move(t, from, to) == pc[t] = from /\ pc' = [pc EXCEPT ![t] = to]

Init ==
    /\ arrived = 0
    /\ barMutex = 1 /\ gateA = 0 /\ gateB = 1
    /\ pc = [t \in Threads |-> "out"]
    /\ called = [t \in Threads |-> 0]
    /\ returned = [t \in Threads |-> 0]

Call(t) ==
    /\ called[t] < MaxRounds
    /\ Move(t, "out", "arrive")
    /\ called' = [called EXCEPT ![t] = @ + 1]
    /\ UNCHANGED <<arrived, barMutex, gateA, gateB, returned>>

(* wait(mutex); ++arrived: the last to arrive works the gates. *)
Arrive(t) ==
    /\ P(barMutex)
    /\ arrived' = arrived + 1
    /\ Move(t, "arrive", IF arrived + 1 = n THEN "shutB" ELSE "arrived")
    /\ UNCHANGED <<gateA, gateB, called, returned>>

ShutB(t) ==
    /\ Move(t, "shutB", "openA") /\ P(gateB)
    /\ UNCHANGED <<arrived, barMutex, gateA, called, returned>>

OpenA(t) ==
    /\ Move(t, "openA", "arrived") /\ V(gateA)
    /\ UNCHANGED <<arrived, barMutex, gateB, called, returned>>

(* post(mutex) *)
Arrived(t) ==
    /\ Move(t, "arrived", "waitA") /\ V(barMutex)
    /\ UNCHANGED <<arrived, gateA, gateB, called, returned>>

(* The first turnstile: wait, and let the next one through. *)
WaitA(t) ==
    /\ Move(t, "waitA", "postA") /\ P(gateA)
    /\ UNCHANGED <<arrived, barMutex, gateB, called, returned>>

PostA(t) ==
    /\ Move(t, "postA", "leave") /\ V(gateA)
    /\ UNCHANGED <<arrived, barMutex, gateB, called, returned>>

(* wait(mutex); --arrived: the last to leave works the gates. *)
Leave(t) ==
    /\ P(barMutex)
    /\ arrived' = arrived - 1
    /\ Move(t, "leave", IF arrived - 1 = 0 THEN "shutA" ELSE "left")
    /\ UNCHANGED <<gateA, gateB, called, returned>>

(* Mutant: the last to leave does not shut the first gate. *)
ShutANot(t) ==
    /\ Move(t, "shutA", "openB")
    /\ UNCHANGED <<arrived, barMutex, gateA, gateB, called, returned>>

ShutA(t) ==
    /\ Move(t, "shutA", "openB") /\ P(gateA)
    /\ UNCHANGED <<arrived, barMutex, gateB, called, returned>>

OpenB(t) ==
    /\ Move(t, "openB", "left") /\ V(gateB)
    /\ UNCHANGED <<arrived, barMutex, gateA, called, returned>>

Left(t) ==
    /\ Move(t, "left", "waitB") /\ V(barMutex)
    /\ UNCHANGED <<arrived, gateA, gateB, called, returned>>

(* The second turnstile. *)
WaitB(t) ==
    /\ Move(t, "waitB", "postB") /\ P(gateB)
    /\ UNCHANGED <<arrived, barMutex, gateA, called, returned>>

(* Mutant: the second turnstile swallows the unit. *)
PostBNot(t) ==
    /\ Move(t, "postB", "out")
    /\ returned' = [returned EXCEPT ![t] = @ + 1]
    /\ UNCHANGED <<arrived, barMutex, gateA, gateB, called>>

PostB(t) ==
    /\ Move(t, "postB", "out") /\ V(gateB)
    /\ returned' = [returned EXCEPT ![t] = @ + 1]
    /\ UNCHANGED <<arrived, barMutex, gateA, called>>

Step(t) ==
    \/ Arrive(t) \/ ShutB(t) \/ OpenA(t) \/ Arrived(t) \/ WaitA(t) \/ PostA(t)
    \/ Leave(t) \/ ShutA(t) \/ OpenB(t) \/ Left(t) \/ WaitB(t) \/ PostB(t)

Next == \E t \in Threads : Call(t) \/ Step(t)

Spec == Init /\ [][Next]_vars

(* A thread inside mbarrier_wait is run, and a wait on a semaphore that    *)
(* stays positive returns.                                                 *)
Fairness == \A t \in Threads : WF_vars(Step(t))

-----------------------------------------------------------------------------
(* Properties.                                                             *)

(* Nobody returns from round k before everybody has called for round k: no *)
(* thread laps the others through a gate left open from an earlier round.  *)
NobodyLaps == \A t, u \in Threads : returned[t] <= called[u]

(* A round that everybody has joined ends for everybody: no thread is left *)
(* behind at a turnstile, whatever the others do next.                     *)
RoundsEnd ==
    \A k \in 1..MaxRounds :
        (\A t \in Threads : called[t] >= k) ~> (\A t \in Threads : returned[t] >= k)
=============================================================================

-------------------------------- MODULE Proc --------------------------------
(***************************************************************************)
(* The process table of the xv6 kernel (proc.c): fork, exit, wait, kill,   *)
(* sleep and wakeup, on any number of CPUs.  What happens under one        *)
(* process lock is one step; wait_lock is held over several, and its       *)
(* holder is kept.  RUNNABLE and RUNNING are one state, for the schedulers *)
(* are modelled in Sched.  Process 0 is init, which waits for ever and is  *)
(* never killed (the kernel panics if it exits).                           *)
(***************************************************************************)
EXTENDS Integers

CONSTANT NPROC

VARIABLES
    state, parent, killed,  \* struct proc; parent is Nobody for 0
    wait_lock,              \* the holder of wait_lock, or Nobody
    pc,                     \* where p is in the kernel
    child                   \* np of kfork

vars == <<state, parent, killed, wait_lock, pc, child>>

Procs == 0..(NPROC - 1)
Nobody == -1
initproc == 0
Children(p) == {c \in Procs : parent[c] = p}
FirstFree(np) ==
    /\ state[np] = "UNUSED"
    /\ \A q \in Procs : state[q] = "UNUSED" => np <= q

Init ==
    /\ state = [p \in Procs |-> IF p = 0 THEN "RUNNABLE" ELSE "UNUSED"]
    /\ parent = [p \in Procs |-> Nobody]
    /\ killed = [p \in Procs |-> FALSE]
    /\ wait_lock = Nobody
    /\ pc = [p \in Procs |-> "user"]
    /\ child = [p \in Procs |-> Nobody]

Goto(p, place) == pc' = [pc EXCEPT ![p] = place]
Runs(p, place) == state[p] = "RUNNABLE" /\ pc[p] = place

(* A killed process enters no system call: usertrap sends it to kexit. *)
Calls(p) == Runs(p, "user") /\ ~killed[p]

(* wakeup(p), by somebody else, for a process that sleeps in kwait. *)
Woken(p) == [state EXCEPT ![p] = IF @ = "SLEEPING" THEN "RUNNABLE" ELSE @]

-----------------------------------------------------------------------------
(* kfork.                                                                  *)

(* allocproc and the copy, under np->lock.  killed is not assigned. *)
Fork(p, np) ==
    /\ Calls(p) /\ FirstFree(np)
    /\ state' = [state EXCEPT ![np] = "USED"]
    /\ child' = [child EXCEPT ![p] = np]
    /\ Goto(p, "setparent")
    /\ UNCHANGED <<parent, killed, wait_lock>>

(* uvmcopy or kalloc fails: freeproc clears the slot. *)
ForkFails(p, np) ==
    /\ Calls(p) /\ FirstFree(np)
    /\ killed' = [killed EXCEPT ![np] = FALSE]
    /\ UNCHANGED <<state, parent, wait_lock, pc, child>>

SetParent(p) ==
    /\ Runs(p, "setparent") /\ wait_lock = Nobody
    /\ parent' = [parent EXCEPT ![child[p]] = p]
    /\ Goto(p, "setrunnable")
    /\ UNCHANGED <<state, killed, wait_lock, child>>

SetRunnable(p) ==
    /\ Runs(p, "setrunnable")
    /\ state' = [state EXCEPT ![child[p]] = "RUNNABLE"]
    /\ pc' = [pc EXCEPT ![p] = "user", ![child[p]] = "user"]
    /\ child' = [child EXCEPT ![p] = Nobody]
    /\ UNCHANGED <<parent, killed, wait_lock>>

-----------------------------------------------------------------------------
(* kexit.                                                                  *)

(* Under wait_lock: the children go to init, which is woken if there are   *)
(* any.                                                                    *)
Reparent(p) ==
    /\ p # initproc /\ Runs(p, "user") /\ wait_lock = Nobody
    /\ wait_lock' = p
    /\ parent' = [c \in Procs |-> IF c \in Children(p) THEN initproc ELSE parent[c]]
    /\ state' = IF Children(p) = {} THEN state ELSE Woken(initproc)
    /\ Goto(p, "wakeparent")
    /\ UNCHANGED <<killed, child>>

WakeParent(p) ==
    /\ Runs(p, "wakeparent")
    /\ state' = Woken(parent[p])
    /\ Goto(p, "zombie")
    /\ UNCHANGED <<parent, killed, wait_lock, child>>

(* The state changes before wait_lock is released. *)
Zombie(p) ==
    /\ Runs(p, "zombie")
    /\ state' = [state EXCEPT ![p] = "ZOMBIE"]
    /\ wait_lock' = Nobody
    /\ Goto(p, "gone")
    /\ UNCHANGED <<parent, killed, child>>

-----------------------------------------------------------------------------
(* kwait.                                                                  *)

Wait(p) ==
    /\ Calls(p) /\ wait_lock = Nobody
    /\ wait_lock' = p
    /\ Goto(p, "scan")
    /\ UNCHANGED <<state, parent, killed, child>>

Return(p) ==
    /\ wait_lock' = Nobody
    /\ Goto(p, "user")

(* A child has exited: freeproc empties its slot. *)
Reap(p, c) ==
    /\ Runs(p, "scan")
    /\ c \in Children(p) /\ state[c] = "ZOMBIE"
    /\ \A d \in Children(p) : state[d] = "ZOMBIE" => c <= d
    /\ state' = [state EXCEPT ![c] = "UNUSED"]
    /\ parent' = [parent EXCEPT ![c] = Nobody]
    /\ killed' = [killed EXCEPT ![c] = FALSE]
    /\ Return(p)
    /\ UNCHANGED child

(* copyout of the status fails: -1, and the child stays a zombie. *)
BadAddress(p) ==
    /\ Runs(p, "scan")
    /\ \E c \in Children(p) : state[c] = "ZOMBIE"
    /\ Return(p)
    /\ UNCHANGED <<state, parent, killed, child>>

NoneToReap(p) == Runs(p, "scan") /\ \A c \in Children(p) : state[c] # "ZOMBIE"

(* No children, or killed: -1. *)
NoPoint(p) ==
    /\ NoneToReap(p)
    /\ Children(p) = {} \/ killed[p]
    /\ Return(p)
    /\ UNCHANGED <<state, parent, killed, child>>

(* killed(p) said no; a kill may still come before the sleep. *)
WillSleep(p) ==
    /\ NoneToReap(p)
    /\ Children(p) # {} /\ ~killed[p]
    /\ Goto(p, "sleep")
    /\ UNCHANGED <<state, parent, killed, wait_lock, child>>

(* Mutant: the condition lock is released before the state changes. *)
SleepAfterRelease(p) ==
    \/ /\ Runs(p, "sleep") /\ wait_lock = p
       /\ wait_lock' = Nobody
       /\ UNCHANGED <<state, parent, killed, pc, child>>
    \/ /\ Runs(p, "sleep") /\ wait_lock # p
       /\ state' = [state EXCEPT ![p] = "SLEEPING"]
       /\ Goto(p, "woken")
       /\ UNCHANGED <<parent, killed, wait_lock, child>>

(* sleep(p, &wait_lock): p->lock is taken before wait_lock is released, so *)
(* a wakeup sees either the lock held or a sleeper.                        *)
Sleep(p) ==
    /\ Runs(p, "sleep")
    /\ state' = [state EXCEPT ![p] = "SLEEPING"]
    /\ wait_lock' = Nobody
    /\ Goto(p, "woken")
    /\ UNCHANGED <<parent, killed, child>>

(* Back from the scheduler: take the condition lock again and rescan. *)
Rescan(p) ==
    /\ Runs(p, "woken") /\ wait_lock = Nobody
    /\ wait_lock' = p
    /\ Goto(p, "scan")
    /\ UNCHANGED <<state, parent, killed, child>>

-----------------------------------------------------------------------------
(* kkill.  A freed slot has pid 0, and kill(0) finds the first of them.    *)

Kill(q, p) ==
    /\ Calls(q) /\ p # initproc
    /\ state[p] # "UNUSED" \/ FirstFree(p)
    /\ killed' = [killed EXCEPT ![p] = TRUE]
    /\ state' = Woken(p)
    /\ UNCHANGED <<parent, wait_lock, pc, child>>

Step(p) ==
    \/ SetParent(p) \/ SetRunnable(p)
    \/ WakeParent(p) \/ Zombie(p)
    \/ \E c \in Procs : Reap(p, c)
    \/ BadAddress(p) \/ NoPoint(p) \/ WillSleep(p) \/ Sleep(p) \/ Rescan(p)

Next ==
    \E p \in Procs :
      \/ \E np \in Procs : Fork(p, np) \/ ForkFails(p, np)
      \/ \E q \in Procs : Kill(p, q)
      \/ Reparent(p) \/ Wait(p) \/ Step(p)

Spec == Init /\ [][Next]_vars

-----------------------------------------------------------------------------
(* Properties.                                                             *)

(* A process that can run, sleep or be reaped has a parent, and the parent *)
(* is a process that has not exited: somebody can still reap it.           *)
NoOrphans ==
    \A p \in Procs \ {initproc} : state[p] \notin {"UNUSED", "USED"} =>
        /\ parent[p] # Nobody
        /\ state[parent[p]] \in {"RUNNABLE", "SLEEPING"}

(* A process asleep in kwait has no child to reap: the wake-up it would    *)
(* need cannot have come and gone between its scan and its sleep.          *)
SleepersHaveNoZombie ==
    \A p, c \in Procs : state[p] = "SLEEPING" /\ c \in Children(p) => state[c] # "ZOMBIE"

(* Whatever forks, exits, waits and kills interleave on however many CPUs, *)
(* every zombie has a parent that can reap it and that is not asleep.      *)
ZombiesAreSeen == NoOrphans /\ SleepersHaveNoZombie
=============================================================================

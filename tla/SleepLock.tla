----------------------------- MODULE SleepLock -----------------------------
(***************************************************************************)
(* The sleeping lock of lab05 (mylock.c): a three-valued futex word.  One  *)
(* step is one atomic instruction or one futex system call; the memory     *)
(* orders in the code make the word sequentially consistent.               *)
(***************************************************************************)
EXTENDS Integers, FiniteSets

CONSTANT Threads

VARIABLES
    state,      \* sleeplock_t.state: 0 free, 1 held, 2 held and contended
    pc,         \* pc[t]: the next instruction of t
    c           \* c[t]: the local c of sleeplock_acquire

vars == <<state, pc, c>>

(* out: outside; cas01, check, wait, retry: the steps of sleeplock_acquire *)
(* in order, asleep: parked in FUTEX_WAIT; cs: holds the lock; store0 and  *)
(* wake: the slow path of sleeplock_release.                               *)
Places == {"out", "cas01", "check", "wait", "asleep", "retry", "cs", "store0", "wake"}

At(P) == {t \in Threads : pc[t] \in P}
Goto(t, place) == pc' = [pc EXCEPT ![t] = place]

Init ==
    /\ state = 0
    /\ pc = [t \in Threads |-> "out"]
    /\ c = [t \in Threads |-> 0]

Enter(t) ==
    /\ pc[t] = "out"
    /\ Goto(t, "cas01")
    /\ UNCHANGED <<state, c>>

(* c = cas(&l->state, 0, 1): the uncontended path. *)
FirstCas(t) ==
    /\ pc[t] = "cas01"
    /\ c' = [c EXCEPT ![t] = state]
    /\ IF state = 0
       THEN state' = 1 /\ Goto(t, "cs")
       ELSE UNCHANGED state /\ Goto(t, "check")

(* c == 2 || cas(&l->state, 1, 2) != 0: is there a reason to park? *)
Check(t) ==
    /\ pc[t] = "check"
    /\ IF c[t] = 2
       THEN UNCHANGED state /\ Goto(t, "wait")
       ELSE /\ state' = IF state = 1 THEN 2 ELSE state
            /\ Goto(t, IF state # 0 THEN "wait" ELSE "retry")
    /\ UNCHANGED c

(* Mutant: the kernel does not compare the word before parking. *)
FutexWaitBlind(t) ==
    /\ pc[t] = "wait"
    /\ Goto(t, "asleep")
    /\ UNCHANGED <<state, c>>

(* futex_wait(&l->state, 2): parks only if the word still says 2. *)
FutexWait(t) ==
    /\ pc[t] = "wait"
    /\ Goto(t, IF state = 2 THEN "asleep" ELSE "retry")
    /\ UNCHANGED <<state, c>>

(* FUTEX_WAIT returns because of a signal. *)
Interrupted(t) ==
    /\ pc[t] = "asleep"
    /\ Goto(t, "retry")
    /\ UNCHANGED <<state, c>>

(* Mutant: a thread that has waited takes the lock as uncontended. *)
RetryAsOne(t) ==
    /\ pc[t] = "retry"
    /\ c' = [c EXCEPT ![t] = state]
    /\ IF state = 0
       THEN state' = 1 /\ Goto(t, "cs")
       ELSE UNCHANGED state /\ Goto(t, "check")

(* c = cas(&l->state, 0, 2): taken as contended, for others may be parked. *)
Retry(t) ==
    /\ pc[t] = "retry"
    /\ c' = [c EXCEPT ![t] = state]
    /\ IF state = 0
       THEN state' = 2 /\ Goto(t, "cs")
       ELSE UNCHANGED state /\ Goto(t, "check")

(* Mutant: the word is set to 0 at once, and again on the slow path. *)
FetchSubZero(t) ==
    /\ pc[t] = "cs"
    /\ state' = 0
    /\ Goto(t, IF state = 1 THEN "out" ELSE "store0")
    /\ UNCHANGED c

(* fetch_sub(&l->state, 1): 1 becomes 0 and the release is over; 2 becomes *)
(* 1, which still excludes everyone, and the slow path follows.            *)
FetchSub(t) ==
    /\ pc[t] = "cs"
    /\ state' = state - 1
    /\ Goto(t, IF state = 1 THEN "out" ELSE "store0")
    /\ UNCHANGED c

StoreZero(t) ==
    /\ pc[t] = "store0"
    /\ state' = 0
    /\ Goto(t, "wake")
    /\ UNCHANGED c

(* futex_wake_one: any one parked thread returns from FUTEX_WAIT. *)
FutexWake(t) ==
    /\ pc[t] = "wake"
    /\ IF At({"asleep"}) = {}
       THEN Goto(t, "out")
       ELSE \E s \in At({"asleep"}) :
              pc' = [pc EXCEPT ![t] = "out", ![s] = "retry"]
    /\ UNCHANGED <<state, c>>

Step(t) ==
    \/ FirstCas(t) \/ Check(t) \/ FutexWait(t) \/ Retry(t)
    \/ FetchSub(t) \/ StoreZero(t) \/ FutexWake(t)

Next == \E t \in Threads : Enter(t) \/ Step(t) \/ Interrupted(t)

Spec == Init /\ [][Next]_vars

(* Every thread inside acquire or release, or holding the lock, is run. *)
Fairness == \A t \in Threads : WF_vars(Step(t))

-----------------------------------------------------------------------------
(* Properties.                                                             *)

Holders == At({"cs", "store0"})
Contenders == At({"check", "wait", "retry"})

(* Type correctness of the word, the program counters and c. *)
TypeOK ==
    /\ state \in 0..2
    /\ pc \in [Threads -> Places]
    /\ c \in [Threads -> 0..2]

(* A parked thread is never forgotten: while one is parked, the word tells *)
(* the next release to wake somebody, or a release is about to, or another *)
(* thread is contending that will see to it.                               *)
SleepersCovered ==
    At({"asleep"}) # {} =>
        state = 2 \/ At({"store0", "wake"}) # {} \/ Contenders # {}

(* What mylock.h promises of each of its locks: one holder at a time. *)
Acquire(t) == Holders = {} /\ Holders' = {t}
Release(t) == Holders = {t} /\ Holders' = {}
Mutex == Holders = {} /\ [][\E t \in Threads : Acquire(t) \/ Release(t)]_Holders

(* Whatever the interleaving of the two paths of acquire and release, the  *)
(* lock has one holder at a time, and only its holder gives it up.         *)
ImplementsMutex == Mutex

(* If threads want the lock, some thread gets it: nobody stays parked over *)
(* a free lock.                                                            *)
LockProgress == (At({"cas01", "check", "wait", "asleep", "retry"}) # {}) ~> (At({"cs"}) # {})
=============================================================================

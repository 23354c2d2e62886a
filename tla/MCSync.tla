------------------------------- MODULE MCSync -------------------------------
(***************************************************************************)
(* The programs of lab05 that use the locks of mylock.c and the toolkit.c  *)
(* primitives, for TLC.  A behaviour is one program: threads that use one  *)
(* primitive, picked by subject.  The others stay as their init functions  *)
(* left them.                                                              *)
(***************************************************************************)
EXTENDS SleepLock

CONSTANTS TicketMod, MaxValue, MaxRounds, Readers, Writers, NPhils

ASSUME SizesAssumption ==
    /\ IsFiniteSet(Threads) /\ Threads # {}
    /\ TicketMod \in Nat /\ Cardinality(Threads) <= TicketMod
    /\ IsFiniteSet(Readers) /\ Readers \cap Writers = {}
    /\ MaxValue \in Nat /\ MaxRounds \in Nat /\ NPhils \in Nat \ {0, 1}

VARIABLES
    subject,                            \* the primitive in use
    kind, flag, ticket, serving, spinPc, mine, arrivals,
    value, semPc,
    arrived, barMutex, gateA, gateB, barPc, called, returned,
    readers, rwMutex, roomEmpty, turnstile, rwPc, late, behind,
    footman, fork, philPc

spinVars == <<kind, flag, ticket, serving, spinPc, mine, arrivals>>
semVars == <<value, semPc>>
barVars == <<arrived, barMutex, gateA, gateB, barPc, called, returned>>
rwVars == <<readers, rwMutex, roomEmpty, turnstile, rwPc, late, behind>>
philVars == <<footman, fork, philPc>>

Spin == INSTANCE SpinLocks WITH pc <- spinPc
Sem == INSTANCE MSem WITH pc <- semPc
Bar == INSTANCE Barrier WITH pc <- barPc
Rw == INSTANCE RwLock WITH pc <- rwPc
Phil == INSTANCE Philosophers WITH n <- NPhils, pc <- philPc

Subjects == {"sleep", "spin", "sem", "barrier", "rw", "phils"}

syncVars == <<subject, vars, spinVars, semVars, barVars, rwVars, philVars>>

SyncInit ==
    /\ subject \in Subjects
    /\ Init /\ Bar!Init /\ Rw!Init /\ Phil!Init
    /\ Spin!Init /\ (subject # "spin" => kind = "tas")
    /\ Sem!Init /\ (subject # "sem" => value = 0)

Only(s) ==
    /\ subject = s /\ UNCHANGED subject
    /\ IF s = "sleep" THEN TRUE ELSE UNCHANGED vars
    /\ IF s = "spin" THEN TRUE ELSE UNCHANGED spinVars
    /\ IF s = "sem" THEN TRUE ELSE UNCHANGED semVars
    /\ IF s = "barrier" THEN TRUE ELSE UNCHANGED barVars
    /\ IF s = "rw" THEN TRUE ELSE UNCHANGED rwVars
    /\ IF s = "phils" THEN TRUE ELSE UNCHANGED philVars

SyncNext ==
    \/ Only("sleep") /\ Next
    \/ Only("spin") /\ Spin!Next
    \/ Only("sem") /\ Sem!Next
    \/ Only("barrier") /\ Bar!Next
    \/ Only("rw") /\ Rw!Next
    \/ Only("phils") /\ Phil!Next

(* The fairness of each program. *)
SyncSpec ==
    /\ SyncInit /\ [][SyncNext]_syncVars
    /\ Fairness /\ Spin!Fairness /\ Sem!Fairness
    /\ Bar!Fairness /\ Rw!Fairness /\ Phil!Fairness

-----------------------------------------------------------------------------
(* Properties of the primitives, as their modules state them; SleepLock's  *)
(* are its own.                                                            *)

(* The locks that spin: one holder at a time; the ticket lock serves in    *)
(* the order the numbers were taken, over the wrap of its counters.        *)
SpinningLocks == Spin!OneHolder /\ Spin!FirstComeFirstServed

(* msem implements the semaphore the other primitives are built on, and    *)
(* wakes as many as there are units.                                       *)
SemImplements == Sem!ImplementsSemaphore /\ []Sem!UnitsSpokenFor

(* mbarrier: nobody returns from a round that somebody has not joined.     *)
BarrierRounds == Bar!NobodyLaps

(* rwlock: any number of readers or one writer, never both; behind a       *)
(* writer's back only readers past the door get in.                        *)
RwLockWorks == [](Rw!OneWriter /\ Rw!NoReaders) /\ Rw!DoorHolds

(* Whoever the scheduler prefers: the futex lock and the locks that spin   *)
(* are handed on, a semaphore whose value stays positive serves, a round   *)
(* that everybody has joined ends for everybody, and readers and writers   *)
(* do not wait in a circle.                                                *)
PrimitivesProgress ==
    LockProgress /\ Spin!NoStarvation /\ Sem!WaitersServed /\ Bar!RoundsEnd /\ Rw!Progress

(* phils: somebody hungry always gets to eat.                              *)
PhilSomebodyEats == Phil!SomebodyEats
=============================================================================

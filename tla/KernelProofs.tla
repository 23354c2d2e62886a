----------------------------- MODULE KernelProofs -----------------------------
(***************************************************************************)
(* Proofs about the components of the xv6 kernel in MCSafety, for any      *)
(* sizes: the processes, the inodes, the switch between threads, the pipe, *)
(* the log, the console, and large files with their checker.               *)
(***************************************************************************)
EXTENDS SafetyProofs

-----------------------------------------------------------------------------
(* Proc, for any size of the process table.                                *)

PrStates == {"UNUSED", "USED", "RUNNABLE", "SLEEPING", "ZOMBIE"}
PrPlaces == {"user", "setparent", "setrunnable", "wakeparent", "zombie", "gone",
             "scan", "sleep", "woken"}
PrAlive(p) == procState[p] \in {"RUNNABLE", "SLEEPING"}
PrForking(p) == procPc[p] \in {"setparent", "setrunnable"}
PrExiting(p) == procPc[p] \in {"wakeparent", "zombie"}

PrTypeInv ==
    /\ procState \in [Pr!Procs -> PrStates]
    /\ parent \in [Pr!Procs -> Pr!Procs \cup {Pr!Nobody}]
    /\ procPc \in [Pr!Procs -> PrPlaces]
    /\ child \in [Pr!Procs -> Pr!Procs \cup {Pr!Nobody}]

(* Where a process can be, and who must have wait_lock there. *)
PrPcInv ==
    \A p \in Pr!Procs :
        /\ procState[p] = "SLEEPING" => procPc[p] = "woken"
        /\ procPc[p] \notin {"user", "gone"} => PrAlive(p)
        /\ PrExiting(p) \/ procPc[p] \in {"scan", "sleep"} => wait_lock = p

(* The child of a fork under way. *)
PrForkInv ==
    \A p \in Pr!Procs : PrForking(p) =>
        /\ child[p] \in Pr!Procs \ {Pr!initproc} /\ procState[child[p]] = "USED"
        /\ parent[child[p]] = IF procPc[p] = "setparent" THEN Pr!Nobody ELSE p
        /\ \A q \in Pr!Procs : PrForking(q) /\ child[q] = child[p] => q = p

(* Whom a slot can have for a parent. *)
PrParentInv ==
    /\ parent[Pr!initproc] = Pr!Nobody /\ PrAlive(Pr!initproc)
    /\ \A c \in Pr!Procs :
        /\ procState[c] = "UNUSED" => parent[c] = Pr!Nobody
        /\ procState[c] = "USED" /\ parent[c] # Pr!Nobody =>
               procPc[parent[c]] = "setrunnable" /\ child[parent[c]] = c
        /\ c # Pr!initproc /\ procState[c] \notin {"UNUSED", "USED"} =>
               parent[c] # Pr!Nobody /\ PrAlive(parent[c])

(* A process in kexit has given its children away and its parent has been  *)
(* woken.                                                                  *)
PrExitInv ==
    \A p \in Pr!Procs :
        /\ PrExiting(p) => p # Pr!initproc /\ \A c \in Pr!Procs : parent[c] # p
        /\ procPc[p] = "zombie" => procState[parent[p]] # "SLEEPING"

(* Whoever sleeps, or will before wait_lock is free, has no zombie. *)
PrWaitInv ==
    \A c \in Pr!Procs : parent[c] # Pr!Nobody /\ procState[c] = "ZOMBIE" =>
        procState[parent[c]] # "SLEEPING" /\ procPc[parent[c]] # "sleep"

PrIInv == PrTypeInv /\ PrPcInv /\ PrForkInv /\ PrParentInv /\ PrExitInv /\ PrWaitInv
-----------------------------------------------------------------------------
(* Procs is a range of numbers without Nobody, and has init. *)
LEMMA PrProcsFacts == NPROC \in Nat \ {0} => Pr!Nobody \notin Pr!Procs /\ Pr!initproc \in Pr!Procs
  BY DEF Pr!Procs, Pr!Nobody, Pr!initproc

(* A wake-up moves at most one process, from its sleep. *)
LEMMA PrWokenFacts ==
    ASSUME PrTypeInv, NEW p, procState' = Pr!Woken(p)
    PROVE  /\ procState' \in [Pr!Procs -> PrStates]
           /\ \A q \in Pr!Procs : \/ procState'[q] = procState[q]
                                  \/ procState[q] = "SLEEPING" /\ procState'[q] = "RUNNABLE"
           /\ p \in Pr!Procs => procState'[p] # "SLEEPING"
  BY DEF PrTypeInv, Pr!Woken, PrStates

(* The child gets a slot. *)
LEMMA PrForkKeeps ==
    ASSUME PrIInv, NEW p \in Pr!Procs, NEW np \in Pr!Procs, Pr!Fork(p, np)
    PROVE  PrIInv'
  <1>. USE DEF Pr!Fork, Pr!Goto, Pr!Runs, PrIInv, PrTypeInv, PrPlaces, PrStates, Pr!Calls,
      Pr!FirstFree
  <1>1. PrTypeInv'
    OBVIOUS
  <1>2. PrPcInv'
    BY DEF PrPcInv, PrAlive, PrExiting
  <1>3. PrForkInv'
    BY DEF PrForkInv, PrParentInv, PrAlive, PrForking
  <1>4. PrParentInv'
    BY DEF PrParentInv, PrAlive
  <1>5. PrExitInv'
    BY DEF PrExitInv, PrExiting
  <1>6. PrWaitInv'
    BY DEF PrWaitInv
  <1>. QED  BY <1>1, <1>2, <1>3, <1>4, <1>5, <1>6

(* A fork that fails leaves the table as it was. *)
LEMMA PrForkFailsKeeps ==
    ASSUME PrIInv, NEW p \in Pr!Procs, NEW np \in Pr!Procs, Pr!ForkFails(p, np)
    PROVE  PrIInv'
  <1>. USE DEF Pr!ForkFails, Pr!Goto, Pr!Runs, PrIInv, PrTypeInv, PrPlaces, PrStates
  <1>1. PrTypeInv'
    OBVIOUS
  <1>2. PrPcInv'
    BY DEF PrPcInv, PrAlive, PrExiting
  <1>3. PrForkInv'
    BY DEF PrForkInv, PrForking
  <1>4. PrParentInv'
    BY DEF PrParentInv, PrAlive
  <1>5. PrExitInv'
    BY DEF PrExitInv, PrExiting
  <1>6. PrWaitInv'
    BY DEF PrWaitInv
  <1>. QED  BY <1>1, <1>2, <1>3, <1>4, <1>5, <1>6

(* The child gets its parent. *)
LEMMA PrSetParentKeeps ==
    ASSUME PrIInv, NEW p \in Pr!Procs, Pr!SetParent(p)
    PROVE  PrIInv'
  <1>. USE DEF Pr!SetParent, Pr!Goto, Pr!Runs, PrIInv, PrTypeInv, PrPlaces, PrStates
  <1>1. PrTypeInv'
    OBVIOUS
  <1>2. PrPcInv'
    BY DEF PrPcInv, PrAlive, PrExiting
  <1>3. PrForkInv'
    BY DEF PrForkInv, PrForking
  <1>4. PrParentInv'
    BY DEF PrForkInv, PrParentInv, PrAlive, PrForking
  <1>5. PrExitInv'
    BY DEF PrExitInv, PrExiting
  <1>6. PrWaitInv'
    BY DEF PrWaitInv
  <1>. QED  BY <1>1, <1>2, <1>3, <1>4, <1>5, <1>6

(* The child may run. *)
LEMMA PrSetRunnableKeeps ==
    ASSUME NPROC \in Nat \ {0}, PrIInv, NEW p \in Pr!Procs, Pr!SetRunnable(p)
    PROVE  PrIInv'
  <1>. USE DEF Pr!SetRunnable, Pr!Goto, Pr!Runs, PrIInv, PrTypeInv, PrPlaces, PrStates
  <1>0. Pr!initproc \in Pr!Procs /\ Pr!Nobody \notin Pr!Procs
    BY PrProcsFacts
  <1>1. PrTypeInv'
    OBVIOUS
  <1>2. PrPcInv'
    BY <1>0 DEF PrPcInv, PrAlive, PrExiting
  <1>3. PrForkInv'
    BY <1>0 DEF PrForkInv, PrForking
  <1>4. PrParentInv'
    BY <1>0 DEF PrPcInv, PrForkInv, PrParentInv, PrAlive, PrForking
  <1>5. PrExitInv'
    BY <1>0 DEF PrExitInv, PrExiting
  <1>6. PrWaitInv'
    BY <1>0 DEF PrWaitInv
  <1>. QED  BY <1>1, <1>2, <1>3, <1>4, <1>5, <1>6

(* The children of an exiting process go to init, awake. *)
LEMMA PrReparentKeeps ==
    ASSUME NPROC \in Nat \ {0}, PrIInv, NEW p \in Pr!Procs, Pr!Reparent(p)
    PROVE  PrIInv'
  <1>. USE DEF Pr!Reparent, Pr!Goto, Pr!Runs, PrIInv, PrTypeInv, PrPlaces
  <1>0. /\ Pr!initproc \in Pr!Procs /\ Pr!Nobody \notin Pr!Procs
        /\ procState' \in [Pr!Procs -> PrStates]
        /\ \A q \in Pr!Procs : \/ procState'[q] = procState[q]
                               \/ procState[q] = "SLEEPING" /\ procState'[q] = "RUNNABLE"
        /\ \A c \in Pr!Procs : parent'[c] = IF parent[c] = p THEN Pr!initproc ELSE parent[c]
        /\ (\E c \in Pr!Procs : parent[c] = p) => procState'[Pr!initproc] # "SLEEPING"
    <2>1. Pr!initproc \in Pr!Procs /\ Pr!Nobody \notin Pr!Procs
      BY PrProcsFacts
    <2>2. procState' = procState \/ procState' = Pr!Woken(Pr!initproc)
      OBVIOUS
    <2>3. (\E c \in Pr!Procs : parent[c] = p) => procState' = Pr!Woken(Pr!initproc)
      BY DEF Pr!Children
    <2>4. \A c \in Pr!Procs : parent'[c] = IF parent[c] = p THEN Pr!initproc ELSE parent[c]
      BY DEF Pr!Children
    <2>. QED  BY <2>1, <2>2, <2>3, <2>4, PrWokenFacts
  <1>1. PrTypeInv'
    BY <1>0
  <1>2. PrPcInv'
    BY <1>0 DEF PrPcInv, PrAlive, PrExiting
  <1>3. PrForkInv'
    BY <1>0 DEF PrForkInv, PrForking
  <1>4. PrParentInv'
    BY <1>0 DEF PrParentInv, PrAlive
  <1>5. PrExitInv'
    BY <1>0 DEF PrPcInv, PrExitInv, PrExiting
  <1>6. PrWaitInv'
    BY <1>0 DEF PrPcInv, PrWaitInv
  <1>. QED  BY <1>1, <1>2, <1>3, <1>4, <1>5, <1>6

(* The parent of an exiting process is woken. *)
LEMMA PrWakeParentKeeps ==
    ASSUME NPROC \in Nat \ {0}, PrIInv, NEW p \in Pr!Procs, Pr!WakeParent(p)
    PROVE  PrIInv'
  <1>. USE DEF Pr!WakeParent, Pr!Goto, Pr!Runs, PrIInv, PrTypeInv, PrPlaces
  <1>0. /\ Pr!initproc \in Pr!Procs /\ Pr!Nobody \notin Pr!Procs
        /\ procState' \in [Pr!Procs -> PrStates]
        /\ \A q \in Pr!Procs : \/ procState'[q] = procState[q]
                               \/ procState[q] = "SLEEPING" /\ procState'[q] = "RUNNABLE"
        /\ parent[p] \in Pr!Procs => procState'[parent[p]] # "SLEEPING"
    BY PrProcsFacts, PrWokenFacts
  <1>1. PrTypeInv'
    BY <1>0
  <1>2. PrPcInv'
    BY <1>0 DEF PrPcInv, PrAlive, PrExiting
  <1>3. PrForkInv'
    BY <1>0 DEF PrForkInv, PrForking
  <1>4. PrParentInv'
    BY <1>0 DEF PrParentInv, PrAlive
  <1>5. PrExitInv'
    BY <1>0 DEF PrPcInv, PrParentInv, PrExitInv, PrExiting
  <1>6. PrWaitInv'
    BY <1>0 DEF PrWaitInv
  <1>. QED  BY <1>1, <1>2, <1>3, <1>4, <1>5, <1>6

(* An exiting process becomes a zombie of a parent that is awake. *)
LEMMA PrZombieKeeps ==
    ASSUME PrIInv, NEW p \in Pr!Procs, Pr!Zombie(p)
    PROVE  PrIInv'
  <1>. USE DEF Pr!Zombie, Pr!Goto, Pr!Runs, PrIInv, PrTypeInv, PrPlaces, PrStates
  <1>1. PrTypeInv'
    OBVIOUS
  <1>2. PrPcInv'
    BY DEF PrPcInv, PrAlive, PrExiting
  <1>3. PrForkInv'
    BY DEF PrForkInv, PrForking
  <1>4. PrParentInv'
    BY DEF PrParentInv, PrExitInv, PrAlive, PrExiting
  <1>5. PrExitInv'
    BY DEF PrExitInv, PrExiting
  <1>6. PrWaitInv'
    BY DEF PrPcInv, PrExitInv, PrWaitInv, PrExiting
  <1>. QED  BY <1>1, <1>2, <1>3, <1>4, <1>5, <1>6

(* A process enters kwait. *)
LEMMA PrWaitKeeps ==
    ASSUME NPROC \in Nat \ {0}, PrIInv, NEW p \in Pr!Procs, Pr!Wait(p)
    PROVE  PrIInv'
  <1>. USE DEF Pr!Wait, Pr!Goto, Pr!Runs, PrIInv, PrTypeInv, PrPlaces, PrStates, Pr!Calls
  <1>0. Pr!initproc \in Pr!Procs /\ Pr!Nobody \notin Pr!Procs
    BY PrProcsFacts
  <1>1. PrTypeInv'
    OBVIOUS
  <1>2. PrPcInv'
    BY <1>0 DEF PrPcInv, PrAlive, PrExiting
  <1>3. PrForkInv'
    BY <1>0 DEF PrForkInv, PrForking
  <1>4. PrParentInv'
    BY <1>0 DEF PrParentInv, PrAlive
  <1>5. PrExitInv'
    BY <1>0 DEF PrExitInv, PrExiting
  <1>6. PrWaitInv'
    BY <1>0 DEF PrWaitInv
  <1>. QED  BY <1>1, <1>2, <1>3, <1>4, <1>5, <1>6

(* A zombie is reaped: it has no children. *)
LEMMA PrReapKeeps ==
    ASSUME PrIInv, NEW p \in Pr!Procs, NEW c \in Pr!Procs, Pr!Reap(p, c)
    PROVE  PrIInv'
  <1>. USE DEF Pr!Reap, Pr!Goto, Pr!Runs, PrIInv, PrTypeInv, PrPlaces, PrStates, Pr!Return,
      Pr!Children
  <1>1. PrTypeInv'
    OBVIOUS
  <1>2. PrPcInv'
    BY DEF PrPcInv, PrAlive, PrExiting
  <1>3. PrForkInv'
    BY DEF PrForkInv, PrForking
  <1>4. PrParentInv'
    BY DEF PrParentInv, PrAlive
  <1>5. PrExitInv'
    BY DEF PrPcInv, PrExitInv, PrExiting
  <1>6. PrWaitInv'
    BY DEF PrWaitInv
  <1>. QED  BY <1>1, <1>2, <1>3, <1>4, <1>5, <1>6

(* kwait fails with a zombie found. *)
LEMMA PrBadAddressKeeps ==
    ASSUME PrIInv, NEW p \in Pr!Procs, Pr!BadAddress(p)
    PROVE  PrIInv'
  <1>. USE DEF Pr!BadAddress, Pr!Goto, Pr!Runs, PrIInv, PrTypeInv, PrPlaces, PrStates,
      Pr!Return
  <1>1. PrTypeInv'
    OBVIOUS
  <1>2. PrPcInv'
    BY DEF PrPcInv, PrAlive, PrExiting
  <1>3. PrForkInv'
    BY DEF PrForkInv, PrForking
  <1>4. PrParentInv'
    BY DEF PrParentInv, PrAlive
  <1>5. PrExitInv'
    BY DEF PrExitInv, PrExiting
  <1>6. PrWaitInv'
    BY DEF PrWaitInv
  <1>. QED  BY <1>1, <1>2, <1>3, <1>4, <1>5, <1>6

(* kwait returns -1. *)
LEMMA PrNoPointKeeps ==
    ASSUME PrIInv, NEW p \in Pr!Procs, Pr!NoPoint(p)
    PROVE  PrIInv'
  <1>. USE DEF Pr!NoPoint, Pr!Goto, Pr!Runs, PrIInv, PrTypeInv, PrPlaces, PrStates,
      Pr!Return, Pr!NoneToReap, Pr!Children
  <1>1. PrTypeInv'
    OBVIOUS
  <1>2. PrPcInv'
    BY DEF PrPcInv, PrAlive, PrExiting
  <1>3. PrForkInv'
    BY DEF PrForkInv, PrForking
  <1>4. PrParentInv'
    BY DEF PrParentInv, PrAlive
  <1>5. PrExitInv'
    BY DEF PrExitInv, PrExiting
  <1>6. PrWaitInv'
    BY DEF PrWaitInv
  <1>. QED  BY <1>1, <1>2, <1>3, <1>4, <1>5, <1>6

(* The decision to sleep is taken with no zombie there. *)
LEMMA PrWillSleepKeeps ==
    ASSUME PrIInv, NEW p \in Pr!Procs, Pr!WillSleep(p)
    PROVE  PrIInv'
  <1>. USE DEF Pr!WillSleep, Pr!Goto, Pr!Runs, PrIInv, PrTypeInv, PrPlaces, PrStates,
      Pr!NoneToReap, Pr!Children
  <1>1. PrTypeInv'
    OBVIOUS
  <1>2. PrPcInv'
    BY DEF PrPcInv, PrAlive, PrExiting
  <1>3. PrForkInv'
    BY DEF PrForkInv, PrForking
  <1>4. PrParentInv'
    BY DEF PrParentInv, PrAlive
  <1>5. PrExitInv'
    BY DEF PrExitInv, PrExiting
  <1>6. PrWaitInv'
    BY DEF PrWaitInv
  <1>. QED  BY <1>1, <1>2, <1>3, <1>4, <1>5, <1>6

(* It still holds when the process sleeps. *)
LEMMA PrSleepKeeps ==
    ASSUME PrIInv, NEW p \in Pr!Procs, Pr!Sleep(p)
    PROVE  PrIInv'
  <1>. USE DEF Pr!Sleep, Pr!Goto, Pr!Runs, PrIInv, PrTypeInv, PrPlaces, PrStates
  <1>1. PrTypeInv'
    OBVIOUS
  <1>2. PrPcInv'
    BY DEF PrPcInv, PrAlive, PrExiting
  <1>3. PrForkInv'
    BY DEF PrForkInv, PrForking
  <1>4. PrParentInv'
    BY DEF PrParentInv, PrAlive
  <1>5. PrExitInv'
    BY DEF PrPcInv, PrExitInv, PrExiting
  <1>6. PrWaitInv'
    BY DEF PrWaitInv
  <1>. QED  BY <1>1, <1>2, <1>3, <1>4, <1>5, <1>6

(* A woken process looks again. *)
LEMMA PrRescanKeeps ==
    ASSUME NPROC \in Nat \ {0}, PrIInv, NEW p \in Pr!Procs, Pr!Rescan(p)
    PROVE  PrIInv'
  <1>. USE DEF Pr!Rescan, Pr!Goto, Pr!Runs, PrIInv, PrTypeInv, PrPlaces, PrStates
  <1>0. Pr!initproc \in Pr!Procs /\ Pr!Nobody \notin Pr!Procs
    BY PrProcsFacts
  <1>1. PrTypeInv'
    OBVIOUS
  <1>2. PrPcInv'
    BY <1>0 DEF PrPcInv, PrAlive, PrExiting
  <1>3. PrForkInv'
    BY <1>0 DEF PrForkInv, PrForking
  <1>4. PrParentInv'
    BY <1>0 DEF PrParentInv, PrAlive
  <1>5. PrExitInv'
    BY <1>0 DEF PrExitInv, PrExiting
  <1>6. PrWaitInv'
    BY <1>0 DEF PrWaitInv
  <1>. QED  BY <1>1, <1>2, <1>3, <1>4, <1>5, <1>6

(* A kill wakes its victim. *)
LEMMA PrKillKeeps ==
    ASSUME NPROC \in Nat \ {0}, PrIInv, NEW q \in Pr!Procs, NEW p \in Pr!Procs, Pr!Kill(q, p)
    PROVE  PrIInv'
  <1>. USE DEF Pr!Kill, Pr!Goto, Pr!Runs, PrIInv, PrTypeInv, PrPlaces
  <1>0. /\ Pr!initproc \in Pr!Procs /\ Pr!Nobody \notin Pr!Procs
        /\ procState' \in [Pr!Procs -> PrStates]
        /\ \A r \in Pr!Procs : \/ procState'[r] = procState[r]
                               \/ procState[r] = "SLEEPING" /\ procState'[r] = "RUNNABLE"
        /\ p \in Pr!Procs => procState'[p] # "SLEEPING"
    BY PrProcsFacts, PrWokenFacts
  <1>1. PrTypeInv'
    BY <1>0
  <1>2. PrPcInv'
    BY <1>0 DEF PrPcInv, PrAlive, PrExiting
  <1>3. PrForkInv'
    BY <1>0 DEF PrForkInv, PrForking
  <1>4. PrParentInv'
    BY <1>0 DEF PrParentInv, PrAlive
  <1>5. PrExitInv'
    BY <1>0 DEF PrPcInv, PrParentInv, PrExitInv, PrAlive, PrExiting
  <1>6. PrWaitInv'
    BY <1>0 DEF PrWaitInv
  <1>. QED  BY <1>1, <1>2, <1>3, <1>4, <1>5, <1>6
-----------------------------------------------------------------------------
(* IInv is inductive, and says what is wanted. *)

(* Only init is there at first. *)
LEMMA PrInvInit == NPROC \in Nat \ {0} /\ Pr!Init => PrIInv
  <1>. SUFFICES ASSUME NPROC \in Nat \ {0}, Pr!Init
                PROVE  PrIInv
    OBVIOUS
  <1>1. Pr!initproc \in Pr!Procs /\ Pr!Nobody \notin Pr!Procs
    BY PrProcsFacts
  <1>2. PrTypeInv
    BY DEF Pr!Init, PrTypeInv, PrStates, PrPlaces
  <1>3. PrPcInv /\ PrForkInv /\ PrExitInv /\ PrWaitInv
    BY <1>1 DEF Pr!Init, PrPcInv, PrForkInv, PrExitInv, PrWaitInv, PrForking, PrExiting
  <1>4. PrParentInv
    BY <1>1 DEF Pr!Init, PrParentInv, PrAlive, Pr!initproc
  <1>. QED  BY <1>2, <1>3, <1>4 DEF PrIInv

(* Every step keeps it. *)
LEMMA PrInvStep == NPROC \in Nat \ {0} /\ PrIInv /\ [Pr!Next]_Pr!vars => PrIInv'
  <1>. SUFFICES ASSUME NPROC \in Nat \ {0}, PrIInv, [Pr!Next]_Pr!vars
                PROVE  PrIInv'
    OBVIOUS
  <1>1. CASE UNCHANGED Pr!vars
    BY <1>1 DEF Pr!vars, PrIInv, PrTypeInv, PrPcInv, PrForkInv, PrParentInv, PrExitInv,
        PrWaitInv, PrAlive,
                PrForking, PrExiting
  <1>2. ASSUME NEW p \in Pr!Procs, NEW np \in Pr!Procs, Pr!Fork(p, np) \/ Pr!ForkFails(p, np)
        PROVE  PrIInv'
    BY <1>2, PrForkKeeps, PrForkFailsKeeps
  <1>3. ASSUME NEW p \in Pr!Procs, NEW q \in Pr!Procs, Pr!Kill(p, q)
        PROVE  PrIInv'
    BY <1>3, PrKillKeeps
  <1>4. ASSUME NEW p \in Pr!Procs, Pr!Reparent(p) \/ Pr!Wait(p)
        PROVE  PrIInv'
    BY <1>4, PrReparentKeeps, PrWaitKeeps
  <1>5. ASSUME NEW p \in Pr!Procs, Pr!Step(p)
        PROVE  PrIInv'
    <2>1. CASE Pr!SetParent(p) \/ Pr!SetRunnable(p)
      BY <2>1, PrSetParentKeeps, PrSetRunnableKeeps
    <2>2. CASE Pr!WakeParent(p) \/ Pr!Zombie(p)
      BY <2>2, PrWakeParentKeeps, PrZombieKeeps
    <2>3. ASSUME NEW c \in Pr!Procs, Pr!Reap(p, c)
          PROVE  PrIInv'
      BY <2>3, PrReapKeeps
    <2>4. CASE Pr!BadAddress(p) \/ Pr!NoPoint(p) \/ Pr!WillSleep(p)
      BY <2>4, PrBadAddressKeeps, PrNoPointKeeps, PrWillSleepKeeps
    <2>5. CASE Pr!Sleep(p) \/ Pr!Rescan(p)
      BY <2>5, PrSleepKeeps, PrRescanKeeps
    <2>. QED  BY <1>5, <2>1, <2>2, <2>3, <2>4, <2>5 DEF Pr!Step
  <1>. QED  BY <1>1, <1>2, <1>3, <1>4, <1>5 DEF Pr!Next

(* The promise follows: a zombie's parent is alive, and not asleep. *)
LEMMA PrInvEnough == NPROC \in Nat \ {0} /\ PrIInv => Pr!ZombiesAreSeen
  BY PrProcsFacts DEF PrIInv, PrTypeInv, PrParentInv, PrWaitInv, Pr!ZombiesAreSeen,
      Pr!NoOrphans,
                      Pr!SleepersHaveNoZombie, Pr!Children, PrAlive, PrStates

(* Every zombie has a parent that can reap it and that does not sleep on,  *)
(* for any size of the table.                                              *)
LEMMA PrZombiesReaped ==
    ASSUME NPROC \in Nat \ {0}
    PROVE  Pr!Spec => []Pr!ZombiesAreSeen
  <1>1. Pr!Init => PrIInv
    BY PrInvInit
  <1>2. PrIInv /\ [Pr!Next]_Pr!vars => PrIInv'
    BY PrInvStep
  <1>3. PrIInv => Pr!ZombiesAreSeen
    BY PrInvEnough
  <1>. QED  BY <1>1, <1>2, <1>3, PTL DEF Pr!Spec

-----------------------------------------------------------------------------
(* Inodes, for any finite sets of processes and of names, and any inodes.  *)

LEMMA InCardinality == \A S : In!Cardinality(S) = Cardinality(S)
  BY DEF In!Cardinality, Cardinality, In!IsFiniteSet, IsFiniteSet

InLooking == {"open", "create", "unlink", "link"}
InLocked == {"opened", "create_enter", "unlink_clear", "unlink_dec", "link_inc", "link_dec", "free"}
InHolding == InLocked \cup {"open_lock", "create_lock", "unlink_lock", "link_lock", "link_name",
                            "link_bad", "iput", "unref"}
InPending == {"link_name", "link_bad", "link_dec", "unlink_dec"}
InMaking == {"create_lock", "create_enter"}
InOpening == {"open", "open_lock", "opened", "create"} \cup InMaking
InClearing == {"unlink_lock", "unlink_clear"}

InTypeInv ==
    /\ dir \in [InoNames -> Inums \cup {0}]
    /\ type \in [Inums -> BOOLEAN] /\ nlink \in [Inums -> Int]
    /\ saved \in [dir : [InoNames -> Inums \cup {0}], type : [Inums -> BOOLEAN],
                  nlink : [Inums -> Int]]
    /\ ref \in [Inums -> Int] /\ valid \in [Inums -> BOOLEAN]
    /\ dpLock \in InoProcs \cup {0} /\ ipLock \in [Inums -> InoProcs \cup {0}]
    /\ inoPc \in [InoProcs -> {"user", "end_op"} \cup InLooking \cup InHolding]
    /\ ip \in [InoProcs -> Inums \cup {0}] /\ inoFile \in [InoProcs -> Inums \cup {0}]
    /\ name \in [InoProcs -> InoNames \cup {In!NoName}]
    /\ up \in BOOLEAN

InHas(p, i) == inoPc[p] \in InHolding /\ ip[p] = i
InOpen(i) == {p \in InoProcs : inoFile[p] = i}
InHeld(i) == {p \in InoProcs : InHas(p, i)}
InOwed(i) == {p \in InoProcs : inoPc[p] \in InPending /\ ip[p] = i}

InPlaceInv ==
    \A p \in InoProcs :
        /\ inoPc[p] \in InHolding => ip[p] # 0
        /\ inoPc[p] \in InLooking \cup InMaking \cup InClearing => name[p] \in InoNames
        /\ inoPc[p] \in InClearing => dpLock = p /\ dir[name[p]] = ip[p]
        /\ inoPc[p] \in InOpening => inoFile[p] = 0
        /\ ~up => inoPc[p] = "user" /\ inoFile[p] = 0

InCountInv ==
    \A i \in Inums :
        /\ ref[i] = Cardinality(InOpen(i)) + Cardinality(InHeld(i))
        /\ nlink[i] = In!Links(dir, i) + Cardinality(InOwed(i))
        /\ \A p \in InoProcs : ipLock[i] = p <=> inoPc[p] \in InLocked /\ ip[p] = i

InAliveInv ==
    /\ \A n \in InoNames : dir[n] # 0 => type[dir[n]]
    /\ \A p \in InoProcs : /\ inoFile[p] # 0 => type[inoFile[p]]
                           /\ inoPc[p] \in InHolding \ {"unref"} => type[ip[p]]

(* Nobody else leads to an inode that is being made, or freed. *)
InAloneInv ==
    \A p \in InoProcs :
        /\ inoPc[p] \in InMaking =>
            /\ dpLock = p /\ dir[name[p]] = 0 /\ nlink[ip[p]] = 0
            /\ \A q \in InoProcs : inoFile[q] # ip[p] /\ (InHas(q, ip[p]) => q = p \/ inoPc[q] = "unref")
        /\ inoPc[p] = "free" =>
            /\ nlink[ip[p]] = 0
            /\ \A q \in InoProcs : inoFile[q] # ip[p] /\ (InHas(q, ip[p]) => q = p)

InSavedInv ==
    /\ \A n \in InoNames : saved.dir[n] # 0 => saved.type[saved.dir[n]]
    /\ \A i \in Inums : saved.nlink[i] = In!Links(saved.dir, i)
    /\ ~up => saved = In!Disk

InIInv == InTypeInv /\ InPlaceInv /\ InCountInv /\ InAliveInv /\ InAloneInv /\ InSavedInv

InSizes ==
    /\ IsFiniteSet(InoProcs) /\ IsFiniteSet(InoNames)
    /\ 0 \notin InoProcs
    /\ Inums \subseteq Nat /\ 0 \notin Inums

-----------------------------------------------------------------------------
(* Counting.  A set that changes at one element.                           *)
LEMMA InCountMoves ==
    ASSUME NEW S, NEW T, NEW x, IsFiniteSet(S), \A y : y # x => (y \in S <=> y \in T)
    PROVE  /\ IsFiniteSet(T)
           /\ Cardinality(T) =
                Cardinality(S) + (IF x \in T THEN 1 ELSE 0) - (IF x \in S THEN 1 ELSE 0)
  <1>1. Cardinality(S) \in Nat
    BY FS_CardinalityType
  <1>2. CASE x \in T /\ x \notin S
    <2>1. T = S \cup {x}
      BY <1>2
    <2>. QED  BY <1>1, <1>2, <2>1, FS_AddElement
  <1>3. CASE x \in S /\ x \notin T
    <2>1. T = S \ {x}
      BY <1>3
    <2>. QED  BY <1>1, <1>3, <2>1, FS_RemoveElement
  <1>4. CASE x \in S <=> x \in T
    <2>1. T = S
      BY <1>4
    <2>. QED  BY <1>1, <1>4, <2>1
  <1>. QED  BY <1>2, <1>3, <1>4

(* What leads to inode i is counted in finite sets. *)
LEMMA InFinite ==
    ASSUME InSizes, NEW i
    PROVE  /\ IsFiniteSet(InOpen(i)) /\ IsFiniteSet(InHeld(i)) /\ IsFiniteSet(InOwed(i))
           /\ IsFiniteSet({n \in InoNames : dir[n] = i})
           /\ Cardinality(InOpen(i)) \in Nat /\ Cardinality(InHeld(i)) \in Nat
           /\ Cardinality(InOwed(i)) \in Nat /\ In!Links(dir, i) \in Nat
  <1>1. /\ InOpen(i) \in SUBSET InoProcs /\ InHeld(i) \in SUBSET InoProcs
        /\ InOwed(i) \in SUBSET InoProcs /\ {n \in InoNames : dir[n] = i} \in SUBSET InoNames
    BY DEF InOpen, InHeld, InOwed
  <1>2. /\ IsFiniteSet(InOpen(i)) /\ IsFiniteSet(InHeld(i)) /\ IsFiniteSet(InOwed(i))
        /\ IsFiniteSet({n \in InoNames : dir[n] = i})
    BY <1>1, FS_Subset DEF InSizes
  <1>. QED  BY <1>2, FS_CardinalityType, InCardinality DEF In!Links

InOthersStay(p) ==
    \A q \in InoProcs \ {p} : inoPc'[q] = inoPc[q] /\ ip'[q] = ip[q] /\ inoFile'[q] = inoFile[q]

(* A step of process p changes the counts by p. *)
LEMMA InCounts ==
    ASSUME InSizes, NEW p \in InoProcs, NEW i, InOthersStay(p)
    PROVE  /\ Cardinality(InOpen(i)') = Cardinality(InOpen(i))
                + (IF inoFile'[p] = i THEN 1 ELSE 0) - (IF inoFile[p] = i THEN 1 ELSE 0)
           /\ Cardinality(InHeld(i)') = Cardinality(InHeld(i))
                + (IF inoPc'[p] \in InHolding /\ ip'[p] = i THEN 1 ELSE 0)
                - (IF inoPc[p] \in InHolding /\ ip[p] = i THEN 1 ELSE 0)
           /\ Cardinality(InOwed(i)') = Cardinality(InOwed(i))
                + (IF inoPc'[p] \in InPending /\ ip'[p] = i THEN 1 ELSE 0)
                - (IF inoPc[p] \in InPending /\ ip[p] = i THEN 1 ELSE 0)
  <1>1. /\ \A y : y # p => (y \in InOpen(i) <=> y \in InOpen(i)')
        /\ p \in InOpen(i) <=> inoFile[p] = i
        /\ p \in InOpen(i)' <=> inoFile'[p] = i
    BY DEF InOthersStay, InOpen
  <1>2. /\ \A y : y # p => (y \in InHeld(i) <=> y \in InHeld(i)')
        /\ p \in InHeld(i) <=> inoPc[p] \in InHolding /\ ip[p] = i
        /\ p \in InHeld(i)' <=> inoPc'[p] \in InHolding /\ ip'[p] = i
    BY DEF InOthersStay, InHeld, InHas
  <1>3. /\ \A y : y # p => (y \in InOwed(i) <=> y \in InOwed(i)')
        /\ p \in InOwed(i) <=> inoPc[p] \in InPending /\ ip[p] = i
        /\ p \in InOwed(i)' <=> inoPc'[p] \in InPending /\ ip'[p] = i
    BY DEF InOthersStay, InOwed
  <1>4. IsFiniteSet(InOpen(i)) /\ IsFiniteSet(InHeld(i)) /\ IsFiniteSet(InOwed(i))
    BY InFinite
  <1>5. Cardinality(InOpen(i)') = Cardinality(InOpen(i))
                + (IF inoFile'[p] = i THEN 1 ELSE 0) - (IF inoFile[p] = i THEN 1 ELSE 0)
    BY <1>1, <1>4, InCountMoves
  <1>6. Cardinality(InHeld(i)') = Cardinality(InHeld(i))
                + (IF inoPc'[p] \in InHolding /\ ip'[p] = i THEN 1 ELSE 0)
                - (IF inoPc[p] \in InHolding /\ ip[p] = i THEN 1 ELSE 0)
    BY <1>2, <1>4, InCountMoves
  <1>7. Cardinality(InOwed(i)') = Cardinality(InOwed(i))
                + (IF inoPc'[p] \in InPending /\ ip'[p] = i THEN 1 ELSE 0)
                - (IF inoPc[p] \in InPending /\ ip[p] = i THEN 1 ELSE 0)
    BY <1>3, <1>4, InCountMoves
  <1>. QED  BY <1>5, <1>6, <1>7

(* A change of one name changes the count by that name. *)
LEMMA InLinks ==
    ASSUME InSizes, NEW n \in InoNames, NEW i, \A m \in InoNames \ {n} : dir'[m] = dir[m]
    PROVE  In!Links(dir', i) = In!Links(dir, i)
                   + (IF dir'[n] = i THEN 1 ELSE 0) - (IF dir[n] = i THEN 1 ELSE 0)
  <1>. DEFINE S == {m \in InoNames : dir[m] = i}
              T == {m \in InoNames : dir'[m] = i}
  <1>1. IsFiniteSet(S) /\ In!Links(dir, i) = Cardinality(S) /\ In!Links(dir', i) = Cardinality(T)
    BY InFinite, InCardinality DEF In!Links
  <1>2. /\ \A y : y # n => (y \in S <=> y \in T)
        /\ n \in S <=> dir[n] = i
        /\ n \in T <=> dir'[n] = i
    OBVIOUS
  <1>. HIDE DEF S, T
  <1>. QED  BY <1>1, <1>2, InCountMoves

(* What process p has of the references to inode j, and of its links; and  *)
(* what an entry of the directory has.                                     *)
InRefs(p, j) ==
    (IF inoFile[p] = j THEN 1 ELSE 0) + (IF inoPc[p] \in InHolding /\ ip[p] = j THEN 1 ELSE 0)
InOwes(p, j) == IF inoPc[p] \in InPending /\ ip[p] = j THEN 1 ELSE 0
InEntry(n, j) == IF dir[n] = j THEN 1 ELSE 0

(* The counts stay right if they change by what p's step takes and gives,  *)
(* here with m links of the directory more.                                *)
LEMMA InCountedAt ==
    ASSUME InSizes, InCountInv, NEW p \in InoProcs, InOthersStay(p), NEW j \in Inums,
           NEW m \in Int,
           In!Links(dir', j) = In!Links(dir, j) + m,
           ref'[j] = ref[j] + (InRefs(p, j)' - InRefs(p, j)),
           nlink'[j] = nlink[j] + m + (InOwes(p, j)' - InOwes(p, j))
    PROVE  /\ ref'[j] = Cardinality(InOpen(j)') + Cardinality(InHeld(j)')
           /\ nlink'[j] = In!Links(dir', j) + Cardinality(InOwed(j)')
  <1>1. /\ Cardinality(InOpen(j)) \in Nat /\ Cardinality(InHeld(j)) \in Nat
        /\ Cardinality(InOwed(j)) \in Nat /\ In!Links(dir, j) \in Nat
    BY InFinite
  <1>2. /\ Cardinality(InOpen(j)') = Cardinality(InOpen(j))
             + (IF inoFile'[p] = j THEN 1 ELSE 0) - (IF inoFile[p] = j THEN 1 ELSE 0)
        /\ Cardinality(InHeld(j)') = Cardinality(InHeld(j))
             + (IF inoPc'[p] \in InHolding /\ ip'[p] = j THEN 1 ELSE 0)
             - (IF inoPc[p] \in InHolding /\ ip[p] = j THEN 1 ELSE 0)
        /\ Cardinality(InOwed(j)') = Cardinality(InOwed(j)) + (InOwes(p, j)' - InOwes(p, j))
    BY <1>1, InCounts DEF InOwes
  <1>3. /\ ref[j] = Cardinality(InOpen(j)) + Cardinality(InHeld(j))
        /\ nlink[j] = In!Links(dir, j) + Cardinality(InOwed(j))
    BY DEF InCountInv
  <1>4. InOwes(p, j)' - InOwes(p, j) \in Int
    BY DEF InOwes
  <1>5. ref'[j] = Cardinality(InOpen(j)') + Cardinality(InHeld(j)')
    BY <1>1, <1>2, <1>3 DEF InRefs
  <1>6. nlink'[j] = In!Links(dir', j) + Cardinality(InOwed(j)')
    BY <1>1, <1>2, <1>3, <1>4
  <1>. QED  BY <1>5, <1>6

LEMMA InCounted ==
    ASSUME InSizes, InCountInv, InTypeInv, NEW p \in InoProcs, InOthersStay(p), dir' = dir,
           \A j \in Inums : ref'[j] = ref[j] + (InRefs(p, j)' - InRefs(p, j)),
           \A j \in Inums : nlink'[j] = nlink[j] + (InOwes(p, j)' - InOwes(p, j)),
           \A j \in Inums, q \in InoProcs : ipLock'[j] = q <=> inoPc'[q] \in InLocked /\ ip'[q] = j
    PROVE  InCountInv'
  <1>1. ASSUME NEW j \in Inums
        PROVE  /\ ref'[j] = Cardinality(InOpen(j)') + Cardinality(InHeld(j)')
               /\ nlink'[j] = In!Links(dir', j) + Cardinality(InOwed(j)')
    <2>1. In!Links(dir', j) = In!Links(dir, j) + 0
      <3>1. PICK n \in Nat : n = In!Links(dir, j)
        BY InFinite
      <3>2. In!Links(dir', j) = In!Links(dir, j)
        OBVIOUS
      <3>. QED  BY <3>1, <3>2
    <2>2. nlink[j] \in Int /\ InOwes(p, j)' - InOwes(p, j) \in Int
      BY DEF InTypeInv, InOwes
    <2>3. nlink'[j] = nlink[j] + 0 + (InOwes(p, j)' - InOwes(p, j))
      BY <2>2
    <2>4. ref'[j] = ref[j] + (InRefs(p, j)' - InRefs(p, j))
      OBVIOUS
    <2>5. 0 \in Int
      OBVIOUS
    <2>. QED  BY <2>1, <2>3, <2>4, <2>5, InCountedAt
  <1>. QED  BY <1>1 DEF InCountInv

LEMMA InCountedEntry ==
    ASSUME InSizes, InCountInv, NEW p \in InoProcs, InOthersStay(p), NEW x \in InoNames,
           \A y \in InoNames \ {x} : dir'[y] = dir[y],
           \A j \in Inums : ref'[j] = ref[j] + (InRefs(p, j)' - InRefs(p, j)),
           \A j \in Inums : nlink'[j] = nlink[j] + (InEntry(x, j)' - InEntry(x, j))
                                          + (InOwes(p, j)' - InOwes(p, j)),
           \A j \in Inums, q \in InoProcs : ipLock'[j] = q <=> inoPc'[q] \in InLocked /\ ip'[q] = j
    PROVE  InCountInv'
  <1>1. ASSUME NEW j \in Inums
        PROVE  /\ ref'[j] = Cardinality(InOpen(j)') + Cardinality(InHeld(j)')
               /\ nlink'[j] = In!Links(dir', j) + Cardinality(InOwed(j)')
    <2>1. PICK m \in Int : m = InEntry(x, j)' - InEntry(x, j)
      BY DEF InEntry
    <2>2. In!Links(dir', j) = In!Links(dir, j) + m
      BY <2>1, InLinks, InFinite DEF InEntry
    <2>3. nlink'[j] = nlink[j] + m + (InOwes(p, j)' - InOwes(p, j))
      BY <2>1
    <2>4. ref'[j] = ref[j] + (InRefs(p, j)' - InRefs(p, j))
      OBVIOUS
    <2>. QED  BY <2>2, <2>3, <2>4, InCountedAt
  <1>. QED  BY <1>1 DEF InCountInv

(* An inode whose count is 0 has no name and is owed none; *)
LEMMA InUnlinked ==
    ASSUME InSizes, InCountInv, NEW i \in Inums, nlink[i] = 0
    PROVE  /\ \A n \in InoNames : dir[n] # i
           /\ \A q \in InoProcs : inoPc[q] \in InPending => ip[q] # i
  <1>a. In!Links(dir, i) \in Nat /\ Cardinality(InOwed(i)) \in Nat
    BY InFinite
  <1>b. nlink[i] = In!Links(dir, i) + Cardinality(InOwed(i))
    BY DEF InCountInv
  <1>1. In!Links(dir, i) = 0 /\ Cardinality(InOwed(i)) = 0
    BY <1>a, <1>b
  <1>2. {n \in InoNames : dir[n] = i} = {} /\ InOwed(i) = {}
    BY <1>1, InFinite, FS_EmptySet, InCardinality DEF In!Links
  <1>. QED  BY <1>2 DEF InOwed

(* and the other way round; *)
LEMMA InUnowed ==
    ASSUME InSizes, InCountInv, NEW i \in Inums, \A n \in InoNames : dir[n] # i,
           \A q \in InoProcs : inoPc[q] \in InPending => ip[q] # i
    PROVE  nlink[i] = 0
  <1>1. {n \in InoNames : dir[n] = i} = {} /\ InOwed(i) = {}
    BY DEF InOwed
  <1>2. In!Links(dir, i) = 0 /\ Cardinality(InOwed(i)) = 0
    BY <1>1, FS_EmptySet, InCardinality DEF In!Links
  <1>. QED  BY <1>2 DEF InCountInv

(* one with a single reference is led to by whoever holds it. *)
LEMMA InSole ==
    ASSUME InSizes, InCountInv, NEW i \in Inums, ref[i] = 1, NEW p \in InoProcs, InHas(p, i)
    PROVE  \A q \in InoProcs : inoFile[q] # i /\ (InHas(q, i) => q = p)
  <1>1. p \in InHeld(i)
    BY DEF InHeld
  <1>2. Cardinality(InHeld(i)) # 0
    BY <1>1, InFinite, FS_EmptySet
  <1>a. Cardinality(InHeld(i)) \in Nat /\ Cardinality(InOpen(i)) \in Nat
    BY InFinite
  <1>b. ref[i] = Cardinality(InOpen(i)) + Cardinality(InHeld(i))
    BY DEF InCountInv
  <1>3. Cardinality(InHeld(i)) = 1 /\ Cardinality(InOpen(i)) = 0
    BY <1>2, <1>a, <1>b
  <1>4. InOpen(i) = {} /\ \E x : InHeld(i) = {x}
    BY <1>3, InFinite, FS_EmptySet, FS_Singleton
  <1>. QED  BY <1>1, <1>4 DEF InOpen, InHeld

(* A call begins. *)
LEMMA InCallKeeps ==
    ASSUME InSizes, InIInv, NEW p \in InoProcs, NEW op \in InLooking, NEW n \in InoNames,
           In!Call(p, op, n)
    PROVE  InIInv'
  <1>. USE DEF InIInv, In!Call, In!Goto
  <1>. USE DEF InLooking, InHolding, InLocked, InPending, InMaking, InOpening, InClearing
  <1>0. 0 \notin InoProcs /\ 0 \notin Inums
    BY DEF InSizes
  <1>7. /\ inoPc[p] \in InHolding => ip[p] \in Inums
        /\ name[p] \in InoNames => dir[name[p]] \in Inums \cup {0}
        /\ inoPc[p] \in InLooking \cup InMaking \cup InClearing => name[p] \in InoNames
    BY <1>0 DEF InTypeInv
  <1>1. InTypeInv'
    BY <1>0, <1>7 DEF InTypeInv
  <1>2. InPlaceInv'
    BY <1>0 DEF InTypeInv, InPlaceInv
  <1>3. InCountInv'
    <2>1. InOthersStay(p)
      BY DEF InOthersStay
    <2>2. \A j \in Inums : ref'[j] = ref[j] + (InRefs(p, j)' - InRefs(p, j))
      BY <1>0, <1>7 DEF InTypeInv, InRefs
    <2>3. \A j \in Inums : nlink'[j] = nlink[j] + (InOwes(p, j)' - InOwes(p, j))
      BY <1>0, <1>7 DEF InTypeInv, InOwes
    <2>4. \A j \in Inums, q \in InoProcs : ipLock'[j] = q <=> inoPc'[q] \in InLocked /\ ip'[q] = j
      BY <1>0 DEF InCountInv
    <2>. QED  BY <2>1, <2>2, <2>3, <2>4, InCounted
  <1>4. InAliveInv'
    BY <1>0, <1>7 DEF InAliveInv
  <1>5. InAloneInv'
    BY <1>0, <1>7 DEF InAloneInv, InHas
  <1>6. InSavedInv'
    BY <1>0 DEF InSavedInv, In!Disk
  <1>. QED  BY <1>1, <1>2, <1>3, <1>4, <1>5, <1>6

(* A file is closed. *)
LEMMA InCloseKeeps ==
    ASSUME InSizes, InIInv, NEW p \in InoProcs, In!Close(p)
    PROVE  InIInv'
  <1>. USE DEF InIInv, In!Close, In!Goto
  <1>. USE DEF InLooking, InHolding, InLocked, InPending, InMaking, InOpening, InClearing
  <1>0. 0 \notin InoProcs /\ 0 \notin Inums
    BY DEF InSizes
  <1>7. /\ inoPc[p] \in InHolding => ip[p] \in Inums
        /\ name[p] \in InoNames => dir[name[p]] \in Inums \cup {0}
        /\ inoPc[p] \in InLooking \cup InMaking \cup InClearing => name[p] \in InoNames
    BY <1>0 DEF InTypeInv
  <1>1. InTypeInv'
    BY <1>0, <1>7 DEF InTypeInv
  <1>2. InPlaceInv'
    BY <1>0 DEF InTypeInv, InPlaceInv
  <1>3. InCountInv'
    <2>1. InOthersStay(p)
      BY DEF InOthersStay
    <2>2. \A j \in Inums : ref'[j] = ref[j] + (InRefs(p, j)' - InRefs(p, j))
      BY <1>0, <1>7 DEF InTypeInv, InRefs
    <2>3. \A j \in Inums : nlink'[j] = nlink[j] + (InOwes(p, j)' - InOwes(p, j))
      BY <1>0, <1>7 DEF InTypeInv, InOwes
    <2>4. \A j \in Inums, q \in InoProcs : ipLock'[j] = q <=> inoPc'[q] \in InLocked /\ ip'[q] = j
      BY <1>0 DEF InCountInv
    <2>. QED  BY <2>1, <2>2, <2>3, <2>4, InCounted
  <1>4. InAliveInv'
    <2>1. ASSUME NEW n \in InoNames, dir'[n] # 0 PROVE type'[dir'[n]]
      BY <2>1, <1>0, <1>7 DEF InTypeInv, InAliveInv
    <2>2. ASSUME NEW q \in InoProcs, inoFile'[q] # 0 PROVE type'[inoFile'[q]]
      BY <2>2, <1>0, <1>7 DEF InTypeInv, InAliveInv
    <2>3. ASSUME NEW q \in InoProcs, inoPc'[q] \in InHolding \ {"unref"} PROVE type'[ip'[q]]
      BY <2>3, <1>0, <1>7 DEF InTypeInv, InAliveInv
    <2>. QED  BY <2>1, <2>2, <2>3 DEF InAliveInv
  <1>5. InAloneInv'
    BY <1>0, <1>7 DEF InTypeInv, InPlaceInv, InAloneInv, InHas
  <1>6. InSavedInv'
    BY <1>0 DEF InSavedInv, In!Disk
  <1>. QED  BY <1>1, <1>2, <1>3, <1>4, <1>5, <1>6

(* A path is not found. *)
LEMMA InFailKeeps ==
    ASSUME InSizes, InIInv, NEW p \in InoProcs, inoPc[p] \in InLooking, In!Goto(p, "end_op"),
           UNCHANGED <<dir, type, nlink, saved, ref, valid, dpLock, ipLock, ip, name, inoFile, up>>
    PROVE  InIInv'
  <1>. USE DEF InIInv, In!Goto
  <1>. USE DEF InLooking, InHolding, InLocked, InPending, InMaking, InOpening, InClearing
  <1>0. 0 \notin InoProcs /\ 0 \notin Inums
    BY DEF InSizes
  <1>7. /\ inoPc[p] \in InHolding => ip[p] \in Inums
        /\ name[p] \in InoNames => dir[name[p]] \in Inums \cup {0}
        /\ inoPc[p] \in InLooking \cup InMaking \cup InClearing => name[p] \in InoNames
    BY <1>0 DEF InTypeInv, InPlaceInv
  <1>1. InTypeInv'
    BY <1>0, <1>7 DEF InTypeInv
  <1>2. InPlaceInv'
    BY <1>0 DEF InPlaceInv
  <1>3. InCountInv'
    <2>1. InOthersStay(p)
      BY DEF InOthersStay
    <2>2. \A j \in Inums : ref'[j] = ref[j] + (InRefs(p, j)' - InRefs(p, j))
      BY <1>0, <1>7 DEF InTypeInv, InRefs
    <2>3. \A j \in Inums : nlink'[j] = nlink[j] + (InOwes(p, j)' - InOwes(p, j))
      BY <1>0, <1>7 DEF InTypeInv, InOwes
    <2>4. \A j \in Inums, q \in InoProcs : ipLock'[j] = q <=> inoPc'[q] \in InLocked /\ ip'[q] = j
      BY <1>0 DEF InCountInv
    <2>. QED  BY <2>1, <2>2, <2>3, <2>4, InCounted
  <1>4. InAliveInv'
    <2>1. ASSUME NEW n \in InoNames, dir'[n] # 0 PROVE type'[dir'[n]]
      BY <2>1, <1>0, <1>7 DEF InAliveInv
    <2>2. ASSUME NEW q \in InoProcs, inoFile'[q] # 0 PROVE type'[inoFile'[q]]
      BY <2>2, <1>0, <1>7 DEF InAliveInv
    <2>3. ASSUME NEW q \in InoProcs, inoPc'[q] \in InHolding \ {"unref"} PROVE type'[ip'[q]]
      BY <2>3, <1>0, <1>7 DEF InAliveInv
    <2>. QED  BY <2>1, <2>2, <2>3 DEF InAliveInv
  <1>5. InAloneInv'
    BY <1>0, <1>7 DEF InAloneInv, InHas
  <1>6. InSavedInv'
    BY <1>0 DEF InSavedInv, In!Disk
  <1>. QED  BY <1>1, <1>2, <1>3, <1>4, <1>5, <1>6

(* A path is found. *)
LEMMA InFindKeeps ==
    ASSUME InSizes, InIInv, NEW p \in InoProcs, NEW i \in Inums, NEW to, dir[name[p]] = i,
           In!IGet(p, i), In!Goto(p, to),
           \/ inoPc[p] \in {"open", "create"} /\ to = "open_lock"
           \/ inoPc[p] = "link" /\ to = "link_lock",
           UNCHANGED <<dir, type, nlink, saved, dpLock, ipLock, name, inoFile, up>>
    PROVE  InIInv'
  <1>. USE DEF InIInv, In!IGet, In!Goto
  <1>. USE DEF InLooking, InHolding, InLocked, InPending, InMaking, InOpening, InClearing
  <1>0. 0 \notin InoProcs /\ 0 \notin Inums
    BY DEF InSizes
  <1>7. /\ inoPc[p] \in InHolding => ip[p] \in Inums
        /\ name[p] \in InoNames => dir[name[p]] \in Inums \cup {0}
        /\ inoPc[p] \in InLooking \cup InMaking \cup InClearing => name[p] \in InoNames
    BY <1>0 DEF InPlaceInv
  <1>8. \A j \in Inums : nlink[j] = 0 => \A n \in InoNames : dir[n] # j
    BY InUnlinked
  <1>1. InTypeInv'
    BY <1>0, <1>7, <1>8 DEF InTypeInv
  <1>2. InPlaceInv'
    BY <1>0 DEF InTypeInv, InPlaceInv
  <1>3. InCountInv'
    <2>1. InOthersStay(p)
      BY DEF InOthersStay
    <2>2. \A j \in Inums : ref'[j] = ref[j] + (InRefs(p, j)' - InRefs(p, j))
      BY <1>0, <1>7 DEF InTypeInv, InRefs
    <2>3. \A j \in Inums : nlink'[j] = nlink[j] + (InOwes(p, j)' - InOwes(p, j))
      BY <1>0, <1>7, <1>8 DEF InTypeInv, InOwes
    <2>4. \A j \in Inums, q \in InoProcs : ipLock'[j] = q <=> inoPc'[q] \in InLocked /\ ip'[q] = j
      BY <1>0 DEF InCountInv
    <2>. QED  BY <2>1, <2>2, <2>3, <2>4, InCounted
  <1>4. InAliveInv'
    BY <1>0, <1>7, <1>8 DEF InTypeInv, InAliveInv
  <1>5. InAloneInv'
    BY <1>0, <1>7, <1>8 DEF InTypeInv, InAloneInv, InHas
  <1>6. InSavedInv'
    BY <1>0, <1>8 DEF InSavedInv, In!Disk
  <1>. QED  BY <1>1, <1>2, <1>3, <1>4, <1>5, <1>6

(* unlink finds its path, and keeps the directory locked. *)
LEMMA InFindToClearKeeps ==
    ASSUME InSizes, InIInv, NEW p \in InoProcs, NEW i \in Inums, dir[name[p]] = i,
           In!IGet(p, i), In!Goto(p, "unlink_lock"),
           inoPc[p] = "unlink", dpLock = 0, dpLock' = p,
           UNCHANGED <<dir, type, nlink, saved, ipLock, name, inoFile, up>>
    PROVE  InIInv'
  <1>. USE DEF InIInv, In!IGet, In!Goto
  <1>. USE DEF InLooking, InHolding, InLocked, InPending, InMaking, InOpening, InClearing
  <1>0. 0 \notin InoProcs /\ 0 \notin Inums
    BY DEF InSizes
  <1>7. /\ inoPc[p] \in InHolding => ip[p] \in Inums
        /\ name[p] \in InoNames => dir[name[p]] \in Inums \cup {0}
        /\ inoPc[p] \in InLooking \cup InMaking \cup InClearing => name[p] \in InoNames
    BY <1>0 DEF InPlaceInv
  <1>8. \A j \in Inums : nlink[j] = 0 => \A n \in InoNames : dir[n] # j
    BY InUnlinked
  <1>1. InTypeInv'
    BY <1>0, <1>7, <1>8 DEF InTypeInv
  <1>2. InPlaceInv'
    BY <1>0 DEF InTypeInv, InPlaceInv
  <1>3. InCountInv'
    <2>1. InOthersStay(p)
      BY DEF InOthersStay
    <2>2. \A j \in Inums : ref'[j] = ref[j] + (InRefs(p, j)' - InRefs(p, j))
      BY <1>0, <1>7 DEF InTypeInv, InRefs
    <2>3. \A j \in Inums : nlink'[j] = nlink[j] + (InOwes(p, j)' - InOwes(p, j))
      BY <1>0, <1>7, <1>8 DEF InTypeInv, InOwes
    <2>4. \A j \in Inums, q \in InoProcs : ipLock'[j] = q <=> inoPc'[q] \in InLocked /\ ip'[q] = j
      BY <1>0 DEF InCountInv
    <2>. QED  BY <2>1, <2>2, <2>3, <2>4, InCounted
  <1>4. InAliveInv'
    BY <1>0, <1>7, <1>8 DEF InTypeInv, InAliveInv
  <1>5. InAloneInv'
    BY <1>0, <1>7, <1>8 DEF InTypeInv, InAloneInv, InHas
  <1>6. InSavedInv'
    BY <1>0, <1>8 DEF InSavedInv, In!Disk
  <1>. QED  BY <1>1, <1>2, <1>3, <1>4, <1>5, <1>6

(* An inode is locked. *)
LEMMA InILockKeeps ==
    ASSUME InSizes, InIInv, NEW p \in InoProcs, NEW from, NEW to, In!ILock(p, from, to),
           \/ from = "open_lock" /\ to = "opened"
           \/ from = "create_lock" /\ to = "create_enter"
           \/ from = "unlink_lock" /\ to = "unlink_clear"
           \/ from = "link_lock" /\ to = "link_inc"
           \/ from = "link_bad" /\ to = "link_dec"
    PROVE  InIInv'
  <1>. USE DEF InIInv, In!ILock, In!Goto
  <1>. USE DEF InLooking, InHolding, InLocked, InPending, InMaking, InOpening, InClearing
  <1>0. 0 \notin InoProcs /\ 0 \notin Inums
    BY DEF InSizes
  <1>7. /\ inoPc[p] \in InHolding => ip[p] \in Inums
        /\ name[p] \in InoNames => dir[name[p]] \in Inums \cup {0}
        /\ inoPc[p] \in InLooking \cup InMaking \cup InClearing => name[p] \in InoNames
    BY <1>0 DEF InTypeInv, InPlaceInv
  <1>1. InTypeInv'
    BY <1>0, <1>7 DEF InTypeInv
  <1>2. InPlaceInv'
    BY <1>0 DEF InPlaceInv
  <1>3. InCountInv'
    <2>1. InOthersStay(p)
      BY DEF InOthersStay
    <2>2. \A j \in Inums : ref'[j] = ref[j] + (InRefs(p, j)' - InRefs(p, j))
      BY <1>0, <1>7 DEF InTypeInv, InRefs
    <2>3. \A j \in Inums : nlink'[j] = nlink[j] + (InOwes(p, j)' - InOwes(p, j))
      BY <1>0, <1>7 DEF InTypeInv, InOwes
    <2>4. \A j \in Inums, q \in InoProcs : ipLock'[j] = q <=> inoPc'[q] \in InLocked /\ ip'[q] = j
      BY <1>0 DEF InTypeInv, InCountInv
    <2>. QED  BY <2>1, <2>2, <2>3, <2>4, InCounted
  <1>4. InAliveInv'
    BY <1>0, <1>7 DEF InAliveInv
  <1>5. InAloneInv'
    BY <1>0, <1>7 DEF InAloneInv, InHas
  <1>6. InSavedInv'
    BY <1>0 DEF InSavedInv, In!Disk
  <1>. QED  BY <1>1, <1>2, <1>3, <1>4, <1>5, <1>6

(* The end of open. *)
LEMMA InOpenedKeeps ==
    ASSUME InSizes, InIInv, NEW p \in InoProcs, In!Opened(p)
    PROVE  InIInv'
  <1>. USE DEF InIInv, In!Opened, In!IUnlock, In!Goto
  <1>. USE DEF InLooking, InHolding, InLocked, InPending, InMaking, InOpening, InClearing
  <1>0. 0 \notin InoProcs /\ 0 \notin Inums
    BY DEF InSizes
  <1>7. /\ inoPc[p] \in InHolding => ip[p] \in Inums
        /\ name[p] \in InoNames => dir[name[p]] \in Inums \cup {0}
        /\ inoPc[p] \in InLooking \cup InMaking \cup InClearing => name[p] \in InoNames
    BY <1>0 DEF InTypeInv, InPlaceInv
  <1>1. InTypeInv'
    BY <1>0, <1>7 DEF InTypeInv
  <1>2. InPlaceInv'
    BY <1>0 DEF InTypeInv, InPlaceInv
  <1>3. InCountInv'
    <2>1. InOthersStay(p)
      BY DEF InOthersStay, InTypeInv
    <2>2. \A j \in Inums : ref'[j] = ref[j] + (InRefs(p, j)' - InRefs(p, j))
      BY <1>0, <1>7 DEF InTypeInv, InPlaceInv, InRefs
    <2>3. \A j \in Inums : nlink'[j] = nlink[j] + (InOwes(p, j)' - InOwes(p, j))
      BY <1>0, <1>7 DEF InTypeInv, InOwes
    <2>4. \A j \in Inums, q \in InoProcs : ipLock'[j] = q <=> inoPc'[q] \in InLocked /\ ip'[q] = j
      BY <1>0 DEF InTypeInv, InCountInv
    <2>. QED  BY <2>1, <2>2, <2>3, <2>4, InCounted
  <1>4. InAliveInv'
    <2>1. ASSUME NEW n \in InoNames, dir'[n] # 0 PROVE type'[dir'[n]]
      BY <2>1, <1>0, <1>7 DEF InTypeInv, InAliveInv
    <2>2. ASSUME NEW q \in InoProcs, inoFile'[q] # 0 PROVE type'[inoFile'[q]]
      BY <2>2, <1>0, <1>7 DEF InTypeInv, InAliveInv
    <2>3. ASSUME NEW q \in InoProcs, inoPc'[q] \in InHolding \ {"unref"} PROVE type'[ip'[q]]
      BY <2>3, <1>0, <1>7 DEF InTypeInv, InAliveInv
    <2>. QED  BY <2>1, <2>2, <2>3 DEF InAliveInv
  <1>5. InAloneInv'
    BY <1>0, <1>7 DEF InTypeInv, InAloneInv, InHas
  <1>6. InSavedInv'
    BY <1>0 DEF InSavedInv, In!Disk
  <1>. QED  BY <1>1, <1>2, <1>3, <1>4, <1>5, <1>6

(* An inode is allocated. *)
LEMMA InAllocKeeps ==
    ASSUME InSizes, InIInv, NEW p \in InoProcs, NEW i \in Inums, inoPc[p] = "create",
           dpLock = 0, dir[name[p]] = 0, ~type[i],
           type' = [type EXCEPT ![i] = TRUE], nlink' = [nlink EXCEPT ![i] = 0],
           In!IGet(p, i), dpLock' = p, In!Goto(p, "create_lock"),
           UNCHANGED <<dir, saved, ipLock, name, inoFile, up>>
    PROVE  InIInv'
  <1>. USE DEF InIInv, In!IGet, In!Goto
  <1>. USE DEF InLooking, InHolding, InLocked, InPending, InMaking, InOpening, InClearing
  <1>0. 0 \notin InoProcs /\ 0 \notin Inums
    BY DEF InSizes
  <1>7. /\ inoPc[p] \in InHolding => ip[p] \in Inums
        /\ name[p] \in InoNames => dir[name[p]] \in Inums \cup {0}
        /\ inoPc[p] \in InLooking \cup InMaking \cup InClearing => name[p] \in InoNames
    BY <1>0 DEF InPlaceInv
  <1>8. nlink[i] = 0
    <2>1. \A n \in InoNames : dir[n] # i
      BY <1>0 DEF InAliveInv
    <2>2. ASSUME NEW q \in InoProcs, inoPc[q] \in InPending PROVE ip[q] # i
      <3>1. inoPc[q] \in InHolding \ {"unref"}
        BY <2>2
      <3>. QED  BY <3>1 DEF InAliveInv
    <2>. QED  BY <2>1, <2>2, InUnowed
  <1>1. InTypeInv'
    BY <1>0, <1>7, <1>8 DEF InTypeInv
  <1>2. InPlaceInv'
    BY <1>0 DEF InTypeInv, InPlaceInv
  <1>3. InCountInv'
    <2>1. InOthersStay(p)
      BY DEF InOthersStay
    <2>2. \A j \in Inums : ref'[j] = ref[j] + (InRefs(p, j)' - InRefs(p, j))
      BY <1>0, <1>7 DEF InTypeInv, InRefs
    <2>3. \A j \in Inums : nlink'[j] = nlink[j] + (InOwes(p, j)' - InOwes(p, j))
      BY <1>0, <1>7, <1>8 DEF InTypeInv, InOwes
    <2>4. \A j \in Inums, q \in InoProcs : ipLock'[j] = q <=> inoPc'[q] \in InLocked /\ ip'[q] = j
      BY <1>0 DEF InCountInv
    <2>. QED  BY <2>1, <2>2, <2>3, <2>4, InCounted
  <1>4. InAliveInv'
    <2>1. ASSUME NEW n \in InoNames, dir'[n] # 0 PROVE type'[dir'[n]]
      BY <2>1, <1>0, <1>7, <1>8 DEF InTypeInv, InAliveInv
    <2>2. ASSUME NEW q \in InoProcs, inoFile'[q] # 0 PROVE type'[inoFile'[q]]
      BY <2>2, <1>0, <1>7, <1>8 DEF InTypeInv, InAliveInv
    <2>3. ASSUME NEW q \in InoProcs, inoPc'[q] \in InHolding \ {"unref"} PROVE type'[ip'[q]]
      BY <2>3, <1>0, <1>7, <1>8 DEF InTypeInv, InAliveInv
    <2>. QED  BY <2>1, <2>2, <2>3 DEF InAliveInv
  <1>5. InAloneInv'
    BY <1>0, <1>7, <1>8 DEF InTypeInv, InAliveInv, InAloneInv, InHas
  <1>6. InSavedInv'
    BY <1>0, <1>8 DEF InPlaceInv, InSavedInv, In!Disk
  <1>. QED  BY <1>1, <1>2, <1>3, <1>4, <1>5, <1>6

(* A new inode gets its name. *)
LEMMA InEnterKeeps ==
    ASSUME InSizes, InIInv, NEW p \in InoProcs, In!Enter(p)
    PROVE  InIInv'
  <1>. USE DEF InIInv, In!Enter, In!IUnlock, In!Goto
  <1>. USE DEF InLooking, InHolding, InLocked, InPending, InMaking, InOpening, InClearing
  <1>0. 0 \notin InoProcs /\ 0 \notin Inums
    BY DEF InSizes
  <1>7. /\ inoPc[p] \in InHolding => ip[p] \in Inums
        /\ name[p] \in InoNames => dir[name[p]] \in Inums \cup {0}
        /\ inoPc[p] \in InLooking \cup InMaking \cup InClearing => name[p] \in InoNames
    BY <1>0 DEF InTypeInv, InPlaceInv
  <1>8. dir[name[p]] = 0 /\ nlink[ip[p]] = 0
    BY DEF InAloneInv
  <1>1. InTypeInv'
    BY <1>0, <1>7, <1>8 DEF InTypeInv
  <1>2. InPlaceInv'
    BY <1>0 DEF InTypeInv, InPlaceInv, InAloneInv
  <1>3. InCountInv'
    <2>1. InOthersStay(p)
      BY DEF InOthersStay, InTypeInv
    <2>2. \A j \in Inums : ref'[j] = ref[j] + (InRefs(p, j)' - InRefs(p, j))
      BY <1>0, <1>7 DEF InTypeInv, InRefs
    <2>3. PICK x \in InoNames : x = name[p]
      BY <1>7
    <2>4. dir' \in [InoNames -> Inums \cup {0}] /\ \A y \in InoNames \ {x} : dir'[y] = dir[y]
      BY <1>0, <1>7, <2>3 DEF InTypeInv
    <2>5. \A j \in Inums :
              nlink'[j] = nlink[j] + (InEntry(x, j)' - InEntry(x, j)) + (InOwes(p, j)' - InOwes(p, j))
      BY <1>0, <1>7, <2>3, <1>8 DEF InTypeInv, InEntry, InOwes
    <2>6. \A j \in Inums, q \in InoProcs : ipLock'[j] = q <=> inoPc'[q] \in InLocked /\ ip'[q] = j
      BY <1>0 DEF InTypeInv, InCountInv
    <2>. QED  BY <2>1, <2>2, <2>4, <2>5, <2>6, InCountedEntry
  <1>4. InAliveInv'
    <2>1. ASSUME NEW n \in InoNames, dir'[n] # 0 PROVE type'[dir'[n]]
      BY <2>1, <1>0, <1>7, <1>8 DEF InTypeInv, InAliveInv
    <2>2. ASSUME NEW q \in InoProcs, inoFile'[q] # 0 PROVE type'[inoFile'[q]]
      BY <2>2, <1>0, <1>7, <1>8 DEF InTypeInv, InAliveInv
    <2>3. ASSUME NEW q \in InoProcs, inoPc'[q] \in InHolding \ {"unref"} PROVE type'[ip'[q]]
      BY <2>3, <1>0, <1>7, <1>8 DEF InTypeInv, InAliveInv
    <2>. QED  BY <2>1, <2>2, <2>3 DEF InAliveInv
  <1>5. InAloneInv'
    BY <1>0, <1>7, <1>8 DEF InTypeInv, InPlaceInv, InAloneInv, InHas
  <1>6. InSavedInv'
    BY <1>0, <1>8 DEF InPlaceInv, InSavedInv, In!Disk
  <1>. QED  BY <1>1, <1>2, <1>3, <1>4, <1>5, <1>6

(* A name is removed. *)
LEMMA InClearKeeps ==
    ASSUME InSizes, InIInv, NEW p \in InoProcs, In!Clear(p)
    PROVE  InIInv'
  <1>. USE DEF InIInv, In!Clear, In!Goto
  <1>. USE DEF InLooking, InHolding, InLocked, InPending, InMaking, InOpening, InClearing
  <1>0. 0 \notin InoProcs /\ 0 \notin Inums
    BY DEF InSizes
  <1>7. /\ inoPc[p] \in InHolding => ip[p] \in Inums
        /\ name[p] \in InoNames => dir[name[p]] \in Inums \cup {0}
        /\ inoPc[p] \in InLooking \cup InMaking \cup InClearing => name[p] \in InoNames
    BY <1>0 DEF InTypeInv, InPlaceInv
  <1>1. InTypeInv'
    BY <1>0, <1>7 DEF InTypeInv
  <1>2. InPlaceInv'
    BY <1>0 DEF InTypeInv, InPlaceInv
  <1>3. InCountInv'
    <2>1. InOthersStay(p)
      BY DEF InOthersStay
    <2>2. \A j \in Inums : ref'[j] = ref[j] + (InRefs(p, j)' - InRefs(p, j))
      BY <1>0, <1>7 DEF InTypeInv, InRefs
    <2>3. PICK x \in InoNames : x = name[p]
      BY <1>7
    <2>4. dir' \in [InoNames -> Inums \cup {0}] /\ \A y \in InoNames \ {x} : dir'[y] = dir[y]
      BY <1>0, <1>7, <2>3 DEF InTypeInv
    <2>5. \A j \in Inums :
              nlink'[j] = nlink[j] + (InEntry(x, j)' - InEntry(x, j)) + (InOwes(p, j)' - InOwes(p, j))
      BY <1>0, <1>7, <2>3 DEF InTypeInv, InPlaceInv, InEntry, InOwes
    <2>6. \A j \in Inums, q \in InoProcs : ipLock'[j] = q <=> inoPc'[q] \in InLocked /\ ip'[q] = j
      BY <1>0 DEF InCountInv
    <2>. QED  BY <2>1, <2>2, <2>4, <2>5, <2>6, InCountedEntry
  <1>4. InAliveInv'
    BY <1>0, <1>7 DEF InAliveInv
  <1>5. InAloneInv'
    BY <1>0, <1>7 DEF InPlaceInv, InAloneInv, InHas
  <1>6. InSavedInv'
    BY <1>0 DEF InPlaceInv, InSavedInv, In!Disk
  <1>. QED  BY <1>1, <1>2, <1>3, <1>4, <1>5, <1>6

(* The count changes. *)
LEMMA InAddLinkKeeps ==
    ASSUME InSizes, InIInv, NEW p \in InoProcs, NEW by, NEW from, NEW to,
           In!AddLink(p, by, from, to),
           \/ by = -1 /\ from \in {"unlink_dec", "link_dec"} /\ to = "iput"
           \/ by = 1 /\ from = "link_inc" /\ to = "link_name"
    PROVE  InIInv'
  <1>. USE DEF InIInv, In!AddLink, In!IUnlock, In!Goto
  <1>. USE DEF InLooking, InHolding, InLocked, InPending, InMaking, InOpening, InClearing
  <1>0. 0 \notin InoProcs /\ 0 \notin Inums
    BY DEF InSizes
  <1>7. /\ inoPc[p] \in InHolding => ip[p] \in Inums
        /\ name[p] \in InoNames => dir[name[p]] \in Inums \cup {0}
        /\ inoPc[p] \in InLooking \cup InMaking \cup InClearing => name[p] \in InoNames
    BY <1>0 DEF InTypeInv, InPlaceInv
  <1>1. InTypeInv'
    BY <1>0, <1>7 DEF InTypeInv
  <1>2. InPlaceInv'
    BY <1>0 DEF InPlaceInv
  <1>3. InCountInv'
    <2>1. InOthersStay(p)
      BY DEF InOthersStay
    <2>2. \A j \in Inums : ref'[j] = ref[j] + (InRefs(p, j)' - InRefs(p, j))
      BY <1>0, <1>7 DEF InTypeInv, InRefs
    <2>3. \A j \in Inums : nlink'[j] = nlink[j] + (InOwes(p, j)' - InOwes(p, j))
      BY <1>0, <1>7 DEF InTypeInv, InOwes
    <2>4. \A j \in Inums, q \in InoProcs : ipLock'[j] = q <=> inoPc'[q] \in InLocked /\ ip'[q] = j
      BY <1>0 DEF InTypeInv, InCountInv
    <2>. QED  BY <2>1, <2>2, <2>3, <2>4, InCounted
  <1>4. InAliveInv'
    BY <1>0, <1>7 DEF InAliveInv
  <1>5. InAloneInv'
    BY <1>0, <1>7 DEF InAloneInv, InHas
  <1>6. InSavedInv'
    BY <1>0 DEF InPlaceInv, InSavedInv, In!Disk
  <1>. QED  BY <1>1, <1>2, <1>3, <1>4, <1>5, <1>6

(* link enters a name. *)
LEMMA InNewNameKeeps ==
    ASSUME InSizes, InIInv, NEW p \in InoProcs, NEW n \in InoNames, In!NewName(p, n)
    PROVE  InIInv'
  <1>. USE DEF InIInv, In!NewName, In!Goto
  <1>. USE DEF InLooking, InHolding, InLocked, InPending, InMaking, InOpening, InClearing
  <1>0. 0 \notin InoProcs /\ 0 \notin Inums
    BY DEF InSizes
  <1>7. /\ inoPc[p] \in InHolding => ip[p] \in Inums
        /\ name[p] \in InoNames => dir[name[p]] \in Inums \cup {0}
        /\ inoPc[p] \in InLooking \cup InMaking \cup InClearing => name[p] \in InoNames
    BY <1>0 DEF InTypeInv, InPlaceInv
  <1>1. InTypeInv'
    BY <1>0, <1>7 DEF InTypeInv
  <1>2. InPlaceInv'
    BY <1>0 DEF InTypeInv, InPlaceInv
  <1>3. InCountInv'
    <2>1. InOthersStay(p)
      BY DEF InOthersStay, InTypeInv
    <2>2. \A j \in Inums : ref'[j] = ref[j] + (InRefs(p, j)' - InRefs(p, j))
      BY <1>0, <1>7 DEF InTypeInv, InRefs
    <2>3. PICK x \in InoNames : x = n
      BY <1>7
    <2>4. dir' \in [InoNames -> Inums \cup {0}] /\ \A y \in InoNames \ {x} : dir'[y] = dir[y]
      BY <1>0, <1>7, <2>3 DEF InTypeInv
    <2>5. \A j \in Inums :
              nlink'[j] = nlink[j] + (InEntry(x, j)' - InEntry(x, j)) + (InOwes(p, j)' - InOwes(p, j))
      BY <1>0, <1>7, <2>3 DEF InTypeInv, InEntry, InOwes
    <2>6. \A j \in Inums, q \in InoProcs : ipLock'[j] = q <=> inoPc'[q] \in InLocked /\ ip'[q] = j
      BY <1>0 DEF InTypeInv, InCountInv
    <2>. QED  BY <2>1, <2>2, <2>4, <2>5, <2>6, InCountedEntry
  <1>4. InAliveInv'
    <2>1. ASSUME NEW x \in InoNames, dir'[x] # 0 PROVE type'[dir'[x]]
      BY <2>1, <1>0, <1>7 DEF InTypeInv, InAliveInv
    <2>2. ASSUME NEW q \in InoProcs, inoFile'[q] # 0 PROVE type'[inoFile'[q]]
      BY <2>2, <1>0, <1>7 DEF InTypeInv, InAliveInv
    <2>3. ASSUME NEW q \in InoProcs, inoPc'[q] \in InHolding \ {"unref"} PROVE type'[ip'[q]]
      BY <2>3, <1>0, <1>7 DEF InTypeInv, InAliveInv
    <2>. QED  BY <2>1, <2>2, <2>3 DEF InAliveInv
  <1>5. InAloneInv'
    BY <1>0, <1>7 DEF InTypeInv, InAloneInv, InHas
  <1>6. InSavedInv'
    BY <1>0 DEF InPlaceInv, InSavedInv, In!Disk
  <1>. QED  BY <1>1, <1>2, <1>3, <1>4, <1>5, <1>6

(* A reference is dropped. *)
LEMMA InIPutKeeps ==
    ASSUME InSizes, InIInv, NEW p \in InoProcs, In!IPut(p)
    PROVE  InIInv'
  <1>. USE DEF InIInv, In!IPut, In!Goto
  <1>. USE DEF InLooking, InHolding, InLocked, InPending, InMaking, InOpening, InClearing
  <1>0. 0 \notin InoProcs /\ 0 \notin Inums
    BY DEF InSizes
  <1>7. /\ inoPc[p] \in InHolding => ip[p] \in Inums
        /\ name[p] \in InoNames => dir[name[p]] \in Inums \cup {0}
        /\ inoPc[p] \in InLooking \cup InMaking \cup InClearing => name[p] \in InoNames
    BY <1>0 DEF InTypeInv, InPlaceInv
  <1>8. In!Unreferenced(ip[p]) => /\ nlink[ip[p]] = 0
                                  /\ \A q \in InoProcs : inoFile[q] # ip[p] /\ (InHas(q, ip[p]) => q = p)
    BY <1>7, InSole DEF In!Unreferenced, InHas
  <1>1. InTypeInv'
    BY <1>0, <1>7, <1>8 DEF InTypeInv
  <1>2. InPlaceInv'
    BY <1>0 DEF InTypeInv, InPlaceInv
  <1>3. InCountInv'
    <2>1. InOthersStay(p)
      BY DEF InOthersStay, InTypeInv
    <2>2. \A j \in Inums : ref'[j] = ref[j] + (InRefs(p, j)' - InRefs(p, j))
      BY <1>0, <1>7 DEF InTypeInv, InRefs
    <2>3. \A j \in Inums : nlink'[j] = nlink[j] + (InOwes(p, j)' - InOwes(p, j))
      BY <1>0, <1>7 DEF InTypeInv, InOwes
    <2>4. \A j \in Inums, q \in InoProcs : ipLock'[j] = q <=> inoPc'[q] \in InLocked /\ ip'[q] = j
      BY <1>0 DEF InTypeInv, InCountInv
    <2>. QED  BY <2>1, <2>2, <2>3, <2>4, InCounted
  <1>4. InAliveInv'
    BY <1>0, <1>7, <1>8 DEF InTypeInv, InAliveInv
  <1>5. InAloneInv'
    BY <1>0, <1>7, <1>8 DEF InTypeInv, InAloneInv, InHas
  <1>6. InSavedInv'
    BY <1>0, <1>8 DEF InSavedInv, In!Disk
  <1>. QED  BY <1>1, <1>2, <1>3, <1>4, <1>5, <1>6

(* An inode is freed. *)
LEMMA InFreeKeeps ==
    ASSUME InSizes, InIInv, NEW p \in InoProcs, In!Free(p)
    PROVE  InIInv'
  <1>. USE DEF InIInv, In!Free, In!IUnlock, In!Goto
  <1>. USE DEF InLooking, InHolding, InLocked, InPending, InMaking, InOpening, InClearing
  <1>0. 0 \notin InoProcs /\ 0 \notin Inums
    BY DEF InSizes
  <1>7. /\ inoPc[p] \in InHolding => ip[p] \in Inums
        /\ name[p] \in InoNames => dir[name[p]] \in Inums \cup {0}
        /\ inoPc[p] \in InLooking \cup InMaking \cup InClearing => name[p] \in InoNames
    BY <1>0 DEF InTypeInv, InPlaceInv
  <1>8. \A n \in InoNames : dir[n] # ip[p]
    BY <1>7, InUnlinked DEF InAloneInv
  <1>1. InTypeInv'
    BY <1>0, <1>7, <1>8 DEF InTypeInv
  <1>2. InPlaceInv'
    BY <1>0 DEF InPlaceInv
  <1>3. InCountInv'
    <2>1. InOthersStay(p)
      BY DEF InOthersStay
    <2>2. \A j \in Inums : ref'[j] = ref[j] + (InRefs(p, j)' - InRefs(p, j))
      BY <1>0, <1>7 DEF InTypeInv, InRefs
    <2>3. \A j \in Inums : nlink'[j] = nlink[j] + (InOwes(p, j)' - InOwes(p, j))
      BY <1>0, <1>7, <1>8 DEF InTypeInv, InOwes
    <2>4. \A j \in Inums, q \in InoProcs : ipLock'[j] = q <=> inoPc'[q] \in InLocked /\ ip'[q] = j
      BY <1>0 DEF InTypeInv, InCountInv
    <2>. QED  BY <2>1, <2>2, <2>3, <2>4, InCounted
  <1>4. InAliveInv'
    BY <1>0, <1>7, <1>8 DEF InTypeInv, InAliveInv, InAloneInv, InHas
  <1>5. InAloneInv'
    BY <1>0, <1>7, <1>8 DEF InAloneInv, InHas
  <1>6. InSavedInv'
    BY <1>0, <1>8 DEF InPlaceInv, InSavedInv, In!Disk
  <1>. QED  BY <1>1, <1>2, <1>3, <1>4, <1>5, <1>6

(* Its reference is dropped. *)
LEMMA InUnrefKeeps ==
    ASSUME InSizes, InIInv, NEW p \in InoProcs, In!Unref(p)
    PROVE  InIInv'
  <1>. USE DEF InIInv, In!Unref, In!Goto
  <1>. USE DEF InLooking, InHolding, InLocked, InPending, InMaking, InOpening, InClearing
  <1>0. 0 \notin InoProcs /\ 0 \notin Inums
    BY DEF InSizes
  <1>7. /\ inoPc[p] \in InHolding => ip[p] \in Inums
        /\ name[p] \in InoNames => dir[name[p]] \in Inums \cup {0}
        /\ inoPc[p] \in InLooking \cup InMaking \cup InClearing => name[p] \in InoNames
    BY <1>0 DEF InTypeInv, InPlaceInv
  <1>1. InTypeInv'
    BY <1>0, <1>7 DEF InTypeInv
  <1>2. InPlaceInv'
    BY <1>0 DEF InPlaceInv
  <1>3. InCountInv'
    <2>1. InOthersStay(p)
      BY DEF InOthersStay
    <2>2. \A j \in Inums : ref'[j] = ref[j] + (InRefs(p, j)' - InRefs(p, j))
      BY <1>0, <1>7 DEF InTypeInv, InRefs
    <2>3. \A j \in Inums : nlink'[j] = nlink[j] + (InOwes(p, j)' - InOwes(p, j))
      BY <1>0, <1>7 DEF InTypeInv, InOwes
    <2>4. \A j \in Inums, q \in InoProcs : ipLock'[j] = q <=> inoPc'[q] \in InLocked /\ ip'[q] = j
      BY <1>0 DEF InCountInv
    <2>. QED  BY <2>1, <2>2, <2>3, <2>4, InCounted
  <1>4. InAliveInv'
    BY <1>0, <1>7 DEF InAliveInv
  <1>5. InAloneInv'
    BY <1>0, <1>7 DEF InAloneInv, InHas
  <1>6. InSavedInv'
    BY <1>0 DEF InSavedInv, In!Disk
  <1>. QED  BY <1>1, <1>2, <1>3, <1>4, <1>5, <1>6

(* A call ends. *)
LEMMA InEndOpKeeps ==
    ASSUME InSizes, InIInv, NEW p \in InoProcs, In!EndOp(p)
    PROVE  InIInv'
  <1>. USE DEF InIInv, In!EndOp, In!Goto
  <1>. USE DEF InLooking, InHolding, InLocked, InPending, InMaking, InOpening, InClearing
  <1>0. 0 \notin InoProcs /\ 0 \notin Inums
    BY DEF InSizes
  <1>7. /\ inoPc[p] \in InHolding => ip[p] \in Inums
        /\ name[p] \in InoNames => dir[name[p]] \in Inums \cup {0}
        /\ inoPc[p] \in InLooking \cup InMaking \cup InClearing => name[p] \in InoNames
    BY <1>0 DEF InTypeInv
  <1>8. (\A q \in InoProcs \ {p} : inoPc[q] = "user") => \A i \in Inums : nlink[i] = In!Links(dir, i)
    <2>. SUFFICES ASSUME \A q \in InoProcs \ {p} : inoPc[q] = "user", NEW i \in Inums
                  PROVE  nlink[i] = In!Links(dir, i)
      OBVIOUS
    <2>1. InOwed(i) = {}
      BY DEF InOwed
    <2>2. nlink[i] = In!Links(dir, i) + Cardinality(InOwed(i)) /\ In!Links(dir, i) \in Nat
      BY InFinite DEF InCountInv
    <2>. QED  BY <2>1, <2>2, FS_EmptySet
  <1>1. InTypeInv'
    <2>1. saved' \in {saved, In!Disk} /\ dpLock' \in {0, dpLock}
      OBVIOUS
    <2>2. saved' \in [dir : [InoNames -> Inums \cup {0}], type : [Inums -> BOOLEAN],
                      nlink : [Inums -> Int]]
      BY <2>1 DEF InTypeInv, In!Disk
    <2>. QED  BY <1>0, <2>1, <2>2 DEF InTypeInv
  <1>2. InPlaceInv'
    BY <1>0 DEF InPlaceInv
  <1>3. InCountInv'
    <2>1. InOthersStay(p)
      BY DEF InOthersStay
    <2>2. \A j \in Inums : ref'[j] = ref[j] + (InRefs(p, j)' - InRefs(p, j))
      BY <1>0, <1>7 DEF InTypeInv, InRefs
    <2>3. \A j \in Inums : nlink'[j] = nlink[j] + (InOwes(p, j)' - InOwes(p, j))
      BY <1>0, <1>7, <1>8 DEF InTypeInv, InOwes
    <2>4. \A j \in Inums, q \in InoProcs : ipLock'[j] = q <=> inoPc'[q] \in InLocked /\ ip'[q] = j
      BY <1>0 DEF InCountInv
    <2>. QED  BY <2>1, <2>2, <2>3, <2>4, InCounted
  <1>4. InAliveInv'
    BY <1>0, <1>7, <1>8 DEF InAliveInv
  <1>5. InAloneInv'
    BY <1>0, <1>7, <1>8 DEF InAloneInv, InHas
  <1>6. InSavedInv'
    BY <1>0, <1>8 DEF InAliveInv, InSavedInv, In!Disk
  <1>. QED  BY <1>1, <1>2, <1>3, <1>4, <1>5, <1>6

(* What holds when nobody is inside a call, and no file is open. *)
InQuiet == \A p \in InoProcs : inoPc[p] = "user" /\ inoFile[p] = 0

LEMMA InQuietCounts ==
    ASSUME InSizes, InQuiet, NEW i \in Inums
    PROVE  Cardinality(InOpen(i)) = 0 /\ Cardinality(InHeld(i)) = 0 /\ Cardinality(InOwed(i)) = 0
  <1>1. InOpen(i) = {} /\ InHeld(i) = {} /\ InOwed(i) = {}
    BY DEF InQuiet, InOpen, InHeld, InOwed, InHas, InHolding, InLocked, InPending, InSizes
  <1>. QED  BY <1>1, FS_EmptySet

LEMMA InSameCounts ==
    ASSUME InCountInv, UNCHANGED <<dir, nlink, ref, ipLock, inoPc, ip, inoFile>>
    PROVE  InCountInv'
  <1>1. ASSUME NEW i
        PROVE  InOpen(i)' = InOpen(i) /\ InHeld(i)' = InHeld(i) /\ InOwed(i)' = InOwed(i)
    BY DEF InOpen, InHeld, InOwed, InHas
  <1>. QED  BY <1>1 DEF InCountInv

(* A crash takes back what was not committed. *)
LEMMA InCrashKeeps == ASSUME InSizes, InIInv, In!Crash PROVE InIInv'
  <1>. USE DEF InIInv, In!Crash
  <1>0. 0 \notin InoProcs /\ 0 \notin Inums
    BY DEF InSizes
  <1>1. InTypeInv'
    <2>1. /\ saved.dir \in [InoNames -> Inums \cup {0}] /\ saved.type \in [Inums -> BOOLEAN]
          /\ saved.nlink \in [Inums -> Int]
      BY DEF InTypeInv
    <2>2. In!Zeros \in [Inums -> Int] /\ In!Zeros \in [Inums -> InoProcs \cup {0}]
      BY DEF In!Zeros
    <2>3. In!Idle \in [InoProcs -> Inums \cup {0}]
      BY DEF In!Idle
    <2>. QED  BY <2>1, <2>2, <2>3 DEF InTypeInv
  <1>2. InPlaceInv' /\ InAloneInv'
    BY DEF InPlaceInv, InAloneInv, In!Idle, InHolding, InLocked, InLooking, InMaking,
        InClearing,
           InOpening
  <1>3. InCountInv'
    <2>. SUFFICES ASSUME NEW i \in Inums
                  PROVE  /\ ref'[i] = Cardinality(InOpen(i)') + Cardinality(InHeld(i)')
                         /\ nlink'[i] = In!Links(dir', i) + Cardinality(InOwed(i)')
                         /\ \A q \in InoProcs : ipLock'[i] = q <=> inoPc'[q] \in InLocked /\ ip'[q] = i
      BY DEF InCountInv
    <2>1. InQuiet'
      BY DEF InQuiet, In!Idle
    <2>2. /\ Cardinality(InOpen(i)') = 0 /\ Cardinality(InHeld(i)') = 0
          /\ Cardinality(InOwed(i)') = 0
      <3>1. InOpen(i)' = {} /\ InHeld(i)' = {} /\ InOwed(i)' = {}
        BY <1>0, <2>1 DEF InQuiet, InOpen, InHeld, InOwed, InHas, InHolding, InLocked,
            InPending
      <3>. QED  BY <3>1, FS_EmptySet
    <2>3. ref'[i] = 0 /\ ipLock'[i] = 0
      BY DEF In!Zeros
    <2>4. nlink'[i] = In!Links(dir', i) /\ nlink'[i] \in Int
      BY DEF InSavedInv, InTypeInv
    <2>. QED  BY <1>0, <2>2, <2>3, <2>4 DEF InLocked
  <1>4. InAliveInv' /\ InSavedInv'
    BY DEF InAliveInv, InSavedInv, In!Disk, In!Idle, InHolding, InLocked, InTypeInv
  <1>. QED  BY <1>1, <1>2, <1>3, <1>4

(* Boot frees an inode without a name, *)
LEMMA InReclaimKeeps == ASSUME InSizes, InIInv, NEW i \in Inums, In!Reclaim(i) PROVE InIInv'
  <1>. USE DEF InIInv
  <1>0. InQuiet /\ saved = In!Disk
    BY DEF In!Reclaim, InPlaceInv, InQuiet, InSavedInv
  <1>1. nlink[i] = 0 /\ \A n \in InoNames : dir[n] # i
    BY InUnlinked DEF In!Reclaim, In!Orphan
  <1>2. /\ type' = [type EXCEPT ![i] = FALSE]
        /\ UNCHANGED <<dir, nlink, ref, valid, dpLock, ipLock, inoPc, ip, name, inoFile, up>>
    BY DEF In!Reclaim
  <1>3. saved'.dir = dir /\ saved'.type = type' /\ saved'.nlink = nlink /\ saved' = In!Disk'
    <2>1. saved' = [In!Disk EXCEPT !.type = [In!Disk.type EXCEPT ![i] = FALSE]]
      BY <1>0 DEF In!Reclaim
    <2>2. In!Disk.type = type
      BY DEF In!Disk
    <2>3. saved' = [In!Disk EXCEPT !.type = type']
      BY <1>2, <2>1, <2>2
    <2>4. saved' = [dir |-> dir, type |-> type', nlink |-> nlink]
      BY <2>3 DEF In!Disk
    <2>. QED  BY <1>2, <2>4 DEF In!Disk
  <1>4. InTypeInv'
    <2>1. dir' \in [InoNames -> Inums \cup {0}] /\ type' \in [Inums -> BOOLEAN] /\ nlink' \in [Inums -> Int]
      BY <1>2 DEF InTypeInv
    <2>2. In!Disk' \in [dir : [InoNames -> Inums \cup {0}], type : [Inums -> BOOLEAN],
                        nlink : [Inums -> Int]]
      BY <2>1 DEF In!Disk
    <2>. QED  BY <1>2, <1>3, <2>1, <2>2 DEF InTypeInv
  <1>5. InPlaceInv' /\ InCountInv' /\ InAloneInv'
    BY <1>2, InSameCounts DEF InPlaceInv, InAloneInv, InHas
  <1>6. InAliveInv'
    BY <1>0, <1>1, <1>2 DEF InAliveInv, InQuiet, InHolding, InLocked
  <1>7. InSavedInv'
    <2>1. saved.dir = dir /\ saved.nlink = nlink
      BY <1>0 DEF In!Disk
    <2>2. \A j \in Inums : saved'.nlink[j] = In!Links(saved'.dir, j)
      BY <1>3, <2>1 DEF InSavedInv
    <2>3. \A n \in InoNames : saved'.dir[n] # 0 => saved'.type[saved'.dir[n]]
      BY <1>2, <1>3, <1>6 DEF InAliveInv
    <2>. QED  BY <1>3, <2>2, <2>3 DEF InSavedInv
  <1>. QED  BY <1>4, <1>5, <1>6, <1>7

(* and is over. *)
LEMMA InBootKeeps == ASSUME InSizes, InIInv, In!Boot PROVE InIInv'
  <1>. USE DEF InIInv, In!Boot
  <1>1. InTypeInv' /\ InPlaceInv' /\ InAloneInv'
    BY DEF InTypeInv, InPlaceInv, InAloneInv
  <1>2. InCountInv'
    BY InSameCounts
  <1>3. InAliveInv' /\ InSavedInv'
    BY DEF InAliveInv, InSavedInv
  <1>. QED  BY <1>1, <1>2, <1>3

LEMMA InStutterKeeps == ASSUME InIInv, UNCHANGED In!vars PROVE InIInv'
  <1>. USE DEF InIInv, In!vars
  <1>1. InTypeInv' /\ InPlaceInv' /\ InAloneInv'
    BY DEF InTypeInv, InPlaceInv, InAloneInv, InHas
  <1>2. InCountInv'
    BY InSameCounts
  <1>3. InAliveInv' /\ InSavedInv'
    BY DEF InAliveInv, InSavedInv, In!Disk
  <1>. QED  BY <1>1, <1>2, <1>3

(* The calls that look a path up find it or fail. *)
LEMMA InNameiKeeps ==
    ASSUME InSizes, InIInv, NEW p \in InoProcs, NEW op, NEW to, In!Namei(p, op, to),
           \/ op = "open" /\ to = "open_lock"
           \/ op = "link" /\ to = "link_lock"
    PROVE  InIInv'
  <1>1. inoPc[p] = op /\ inoPc[p] \in InLooking /\ name[p] \in InoNames
    BY DEF In!Namei, InIInv, InPlaceInv, InLooking
  <1>2. CASE dir[name[p]] = 0
    BY <1>1, <1>2, InFailKeeps DEF In!Namei
  <1>3. CASE dir[name[p]] # 0
    <2>1. PICK i \in Inums : dir[name[p]] = i
      BY <1>1, <1>3 DEF InIInv, InTypeInv
    <2>. QED  BY <1>1, <1>3, <2>1, InFindKeeps DEF In!Namei
  <1>. QED  BY <1>2, <1>3

LEMMA InLookUpKeeps == ASSUME InSizes, InIInv, NEW p \in InoProcs, In!LookUp(p) PROVE InIInv'
  <1>1. inoPc[p] = "unlink" /\ inoPc[p] \in InLooking /\ name[p] \in InoNames
    BY DEF In!LookUp, InIInv, InPlaceInv, InLooking
  <1>2. CASE dir[name[p]] = 0
    BY <1>1, <1>2, InFailKeeps DEF In!LookUp
  <1>3. CASE dir[name[p]] # 0
    <2>1. PICK i \in Inums : dir[name[p]] = i
      BY <1>1, <1>3 DEF InIInv, InTypeInv
    <2>. QED  BY <1>1, <1>3, <2>1, InFindToClearKeeps DEF In!LookUp
  <1>. QED  BY <1>2, <1>3

LEMMA InCreateKeeps == ASSUME InSizes, InIInv, NEW p \in InoProcs, In!Create(p) PROVE InIInv'
  <1>. DEFINE unused == {j \in Inums : ~type[j]}
  <1>1. inoPc[p] = "create" /\ inoPc[p] \in InLooking /\ name[p] \in InoNames /\ dpLock = 0
    BY DEF In!Create, InIInv, InPlaceInv, InLooking
  <1>2. CASE dir[name[p]] = 0 /\ unused = {}
    BY <1>1, <1>2, InFailKeeps DEF In!Create
  <1>3. CASE dir[name[p]] # 0
    <2>1. PICK i \in Inums : dir[name[p]] = i
      BY <1>1, <1>3 DEF InIInv, InTypeInv
    <2>. QED  BY <1>1, <1>3, <2>1, InFindKeeps DEF In!Create
  <1>4. CASE dir[name[p]] = 0 /\ unused # {}
    <2>. DEFINE i == CHOOSE j \in unused : \A h \in unused : j <= h
    <2>1. i \in unused
      BY <1>4, Least DEF InSizes
    <2>2. /\ type' = [type EXCEPT ![i] = TRUE] /\ nlink' = [nlink EXCEPT ![i] = 0]
          /\ In!IGet(p, i) /\ dpLock' = p /\ In!Goto(p, "create_lock")
          /\ UNCHANGED <<dir, saved, ipLock, name, inoFile, up>>
      BY <1>4 DEF In!Create
    <2>. HIDE DEF i
    <2>. QED  BY <1>1, <1>4, <2>1, <2>2, InAllocKeeps
  <1>. QED  BY <1>2, <1>3, <1>4

LEMMA InStep == ASSUME InSizes, InIInv, [In!Next]_In!vars PROVE InIInv'
  <1>1. ASSUME NEW p \in InoProcs, In!Step(p) PROVE InIInv'
    <2>. USE <1>1
    <2>1. CASE In!Namei(p, "open", "open_lock") \/ In!Namei(p, "link", "link_lock")
      BY <2>1, InNameiKeeps
    <2>2. CASE \/ In!ILock(p, "open_lock", "opened") \/ In!ILock(p, "create_lock", "create_enter")
               \/ In!ILock(p, "unlink_lock", "unlink_clear") \/ In!ILock(p, "link_lock", "link_inc")
               \/ In!ILock(p, "link_bad", "link_dec")
      BY <2>2, InILockKeeps
    <2>3. CASE In!AddLink(p, -1, "unlink_dec", "iput") \/ In!AddLink(p, -1, "link_dec", "iput")
      BY <2>3, InAddLinkKeeps
    <2>4. CASE In!AddLink(p, 1, "link_inc", "link_name")
      BY <2>4, InAddLinkKeeps
    <2>. QED  BY <2>1, <2>2, <2>3, <2>4, InCloseKeeps, InOpenedKeeps, InCreateKeeps,
                 InEnterKeeps, InLookUpKeeps, InClearKeeps, InNewNameKeeps, InIPutKeeps,
                 InFreeKeeps, InUnrefKeeps, InEndOpKeeps
              DEF In!Step
  <1>2. ASSUME NEW p \in InoProcs, NEW op \in {"open", "create", "unlink", "link"},
               NEW n \in InoNames,
               In!Call(p, op, n)
        PROVE  InIInv'
    BY <1>2, InCallKeeps DEF InLooking
  <1>. QED  BY <1>1, <1>2, InCrashKeeps, InBootKeeps, InReclaimKeeps, InStutterKeeps
      DEF In!Next

LEMMA InInit == ASSUME InSizes, In!Init PROVE InIInv
  <1>. USE DEF In!Init
  <1>0. 0 \notin InoProcs /\ 0 \notin Inums
    BY DEF InSizes
  <1>1. InTypeInv
    BY <1>0 DEF InTypeInv, In!Zeros, In!Idle, In!Disk
  <1>2. InPlaceInv /\ InAloneInv /\ InAliveInv
    BY DEF InPlaceInv, InAloneInv, InAliveInv, In!Idle, InHolding, InLocked, InLooking,
        InMaking,
           InClearing, InOpening
  <1>3. ASSUME NEW i \in Inums PROVE In!Links(dir, i) = 0
    <2>1. {n \in InoNames : dir[n] = i} = {}
      BY <1>0
    <2>. QED  BY <2>1, FS_EmptySet, InCardinality DEF In!Links
  <1>4. InCountInv
    <2>. SUFFICES ASSUME NEW i \in Inums
                  PROVE  /\ ref[i] = Cardinality(InOpen(i)) + Cardinality(InHeld(i))
                         /\ nlink[i] = In!Links(dir, i) + Cardinality(InOwed(i))
                         /\ \A q \in InoProcs : ipLock[i] = q <=> inoPc[q] \in InLocked /\ ip[q] = i
      BY DEF InCountInv
    <2>1. InQuiet
      BY DEF InQuiet, In!Idle
    <2>2. /\ Cardinality(InOpen(i)) = 0 /\ Cardinality(InHeld(i)) = 0
          /\ Cardinality(InOwed(i)) = 0
      BY <2>1, InQuietCounts
    <2>3. ref[i] = 0 /\ ipLock[i] = 0 /\ nlink[i] = 0
      BY DEF In!Zeros
    <2>. QED  BY <1>0, <1>3, <2>2, <2>3 DEF InLocked
  <1>5. InSavedInv
    BY <1>0, <1>3 DEF InSavedInv, In!Disk, In!Zeros
  <1>. QED  BY <1>1, <1>2, <1>4, <1>5 DEF InIInv

LEMMA InEnough == ASSUME InSizes, InIInv PROVE In!InodesKept
  <1>. USE DEF InIInv
  <1>0. 0 \notin InoProcs /\ 0 \notin Inums
    BY DEF InSizes
  <1>1. ASSUME NEW n \in InoNames, dir[n] # 0 PROVE type[dir[n]] /\ nlink[dir[n]] > 0
    <2>1. PICK i \in Inums : dir[n] = i
      BY <1>1 DEF InTypeInv
    <2>2. nlink[i] # 0
      BY <2>1, InUnlinked
    <2>3. In!Links(dir, i) \in Nat /\ Cardinality(InOwed(i)) \in Nat
      BY InFinite
    <2>4. nlink[i] = In!Links(dir, i) + Cardinality(InOwed(i))
      BY DEF InCountInv
    <2>5. nlink[i] > 0
      BY <2>2, <2>3, <2>4
    <2>. QED  BY <1>1, <2>1, <2>5 DEF InAliveInv
  <1>2. ASSUME NEW p \in InoProcs
        PROVE  (inoFile[p] # 0 => type[inoFile[p]]) /\ (In!Locking(p) => type[ip[p]])
    <2>1. In!Locking(p) => inoPc[p] \in InHolding \ {"unref"}
      BY DEF In!Locking, InHolding, InLocked
    <2>. QED  BY <2>1 DEF InAliveInv
  <1>3. ASSUME NEW p \in InoProcs, inoPc[p] = "iput", In!Unreferenced(ip[p])
        PROVE  ipLock[ip[p]] = 0
    <2>1. PICK i \in Inums : i = ip[p]
      BY <1>3 DEF InTypeInv, InPlaceInv, InHolding
    <2>2. \A q \in InoProcs : InHas(q, i) => q = p
      BY <1>3, <2>1, InSole DEF In!Unreferenced, InHas, InHolding
    <2>3. \A q \in InoProcs : ipLock[i] # q
      BY <1>3, <2>1, <2>2 DEF InCountInv, InHas, InHolding, InLocked
    <2>. QED  BY <2>1, <2>3 DEF InTypeInv
  <1>4. ASSUME NEW i \in Inums, In!AtRest
        PROVE  ref[i] = Cardinality({p \in InoProcs : inoFile[p] = i})
    <2>1. InHeld(i) = {}
      BY <1>4 DEF In!AtRest, InHeld, InHas, InHolding, InLocked
    <2>2. Cardinality(InHeld(i)) = 0 /\ Cardinality(InOpen(i)) \in Nat
      BY <2>1, FS_EmptySet, InFinite
    <2>3. ref[i] = Cardinality(InOpen(i))
      BY <2>2 DEF InCountInv
    <2>. QED  BY <2>3 DEF InOpen
  <1>. QED  BY <1>1, <1>2, <1>3, <1>4, InCardinality DEF In!InodesKept, InSavedInv

LEMMA InInodesKept == ASSUME InSizes PROVE In!Spec => []In!InodesKept
  <1>1. In!Init => InIInv
    BY InInit
  <1>2. InIInv /\ [In!Next]_In!vars => InIInv'
    BY InStep
  <1>3. InIInv => In!InodesKept
    BY InEnough
  <1>. QED  BY <1>1, <1>2, <1>3, PTL DEF In!Spec

-----------------------------------------------------------------------------
(* Smp, for any number of harts and threads.                               *)

SmIrqs == {"none", "claimed", "lock", "held", "wakeup", "release", "return"}
SmPlaces == {"forkret", "prepare", "call", "lock", "held", "release", "sleep_lock",
             "sleep_release", "sleep", "awake", "yield", "yield_lock", "yield_switch",
             "yield_back", "trap_return"}
SmTypeInv ==
    /\ intr \in [Sm!CPUs -> BOOLEAN] /\ noff \in [Sm!CPUs -> Nat] /\ intena \in [Sm!CPUs -> BOOLEAN]
    /\ running \in [Sm!CPUs -> Sm!Procs \cup {0}]
    /\ at \in [Sm!CPUs -> {"top", "on", "scan", "lock", "back"}] /\ cpuK \in [Sm!CPUs -> Sm!Procs]
    /\ irq \in [Sm!CPUs -> SmIrqs] /\ irqI \in [Sm!CPUs -> Sm!Procs]
    /\ smpState \in [Sm!Procs -> {"RUNNABLE", "RUNNING", "SLEEPING"}]
    /\ sleeping \in [Sm!Procs -> BOOLEAN]
    /\ p_lock \in [Sm!Procs -> Sm!CPUs \cup {0}]
    /\ smpPc \in [Sm!Procs -> SmPlaces] /\ below \in [Sm!Procs -> {"none", "prepare", "call"}]
    /\ smpSaved \in [Sm!Procs -> BOOLEAN]
    /\ tx_lock \in Sm!CPUs \cup {0}
    /\ tx_busy \in BOOLEAN /\ sending \in BOOLEAN /\ pending \in BOOLEAN

(* Outside locks and traps. *)
SmOpen(c) ==
    \/ running[c] = 0 /\ at[c] \in {"top", "on", "scan"}
    \/ running[c] # 0 /\ smpPc[running[c]] \in {"prepare", "call"}

SmDepth(c) ==
    IF irq[c] # "none" THEN IF irq[c] \in {"lock", "held", "wakeup", "release"} THEN 1 ELSE 0
    ELSE IF running[c] = 0 THEN IF at[c] \in {"lock", "back"} THEN 1 ELSE 0
    ELSE IF smpPc[running[c]] \in {"sleep_lock", "sleep_release"} THEN 2
    ELSE IF smpPc[running[c]] \in {"prepare", "call", "yield", "trap_return"} THEN 0 ELSE 1

SmCpuInv ==
    \A c \in Sm!CPUs :
        /\ noff[c] = SmDepth(c)
        /\ intr[c] => irq[c] = "none" /\ SmOpen(c)
        /\ irq[c] # "none" => SmOpen(c)
        /\ irq[c] \in {"lock", "held", "wakeup", "release"} => ~intena[c]
        /\ running[c] # 0 => cpuK[c] = running[c] /\ at[c] = "lock"
        /\ irq[c] = "none" /\ running[c] # 0 =>
            /\ smpPc[running[c]] = "call" => intr[c]
            /\ smpPc[running[c]] \in {"lock", "held", "release", "sleep_lock", "sleep_release", "sleep"} =>
                     intena[c]
            /\ smpPc[running[c]] \in {"yield_lock", "yield_switch"} => ~intena[c]

SmStackInv ==
    /\ \A c, d \in Sm!CPUs : running[c] = running[d] /\ running[c] # 0 => c = d
    /\ \A p \in Sm!Procs :
        /\ smpState[p] = "RUNNING" <=> \E c \in Sm!CPUs : running[c] = p
        /\ smpState[p] # "RUNNING" => smpPc[p] \in {"forkret", "awake", "yield_back"}
        /\ smpState[p] = "SLEEPING" => sleeping[p]
        /\ sleeping[p] => smpPc[p] = "awake"
        /\ Sm!InTrap(p) => below[p] # "none"
        /\ smpPc[p] = "awake" => smpSaved[p]
        /\ smpPc[p] = "yield_back" => ~smpSaved[p]

SmHolds(c, p) ==
    \/ running[c] = p /\ Sm!OwnLock(p)
    \/ running[c] = 0 /\ at[c] = "back" /\ cpuK[c] = p
SmHoldsTx(c) ==
    \/ irq[c] \in {"held", "wakeup", "release"}
    \/ running[c] # 0 /\ smpPc[running[c]] \in {"held", "release", "sleep_lock", "sleep_release"}

SmLockInv ==
    /\ \A c \in Sm!CPUs, p \in Sm!Procs : p_lock[p] = c <=> SmHolds(c, p)
    /\ \A c \in Sm!CPUs : tx_lock = c <=> SmHoldsTx(c)

SmWaking(p) == \E c \in Sm!CPUs : irq[c] = "wakeup" /\ irqI[c] <= p
SmWakeInv ==
    /\ \A p \in Sm!Procs :
        /\ smpPc[p] \in {"sleep_lock", "sleep_release"} => tx_busy
        /\ smpPc[p] = "sleep" \/ smpState[p] = "SLEEPING" => tx_busy \/ SmWaking(p)
    /\ tx_busy => \/ sending \/ pending
                  \/ \E c \in Sm!CPUs : irq[c] \in {"claimed", "lock", "held"}

SmIInv == SmTypeInv /\ SmCpuInv /\ SmStackInv /\ SmLockInv /\ SmWakeInv

SmSizes == NCPU \in Nat \ {0} /\ NTHREADS \in Nat \ {0}

LEMMA SmZero == 0 \notin Sm!CPUs /\ 0 \notin Sm!Procs
  BY DEF Sm!CPUs, Sm!Procs

LEMMA SmNext ==
    ASSUME SmSizes
    PROVE  1 \in Sm!Procs /\ \A q \in Sm!Procs : q # NTHREADS => q + 1 \in Sm!Procs
  BY DEF Sm!Procs, SmSizes

(* forkret lets go of the lock that the scheduler took. *)
LEMMA SmForkretKeeps ==
    ASSUME SmSizes, SmIInv, NEW c \in Sm!CPUs, NEW p \in Sm!Procs, Sm!Forkret(c, p)
    PROVE  SmIInv'
  <1>. USE DEF SmIInv, Sm!Forkret, Sm!On, Sm!pop_off, Sm!Goto, Sm!schedVars, Sm!irqVars,
      Sm!uartVars
  <1>0. 0 \notin Sm!CPUs /\ 0 \notin Sm!Procs
    BY SmZero
  <1>a. noff[c] \in Nat /\ noff[c] > 0
    BY <1>0 DEF SmCpuInv, SmDepth
  <1>b. noff[c] - 1 \in Nat
    BY <1>a
  <1>1. SmTypeInv'
    BY <1>0, <1>b, SmNext DEF SmTypeInv, SmPlaces, SmIrqs
  <1>2. SmCpuInv'
    BY <1>0 DEF SmTypeInv, SmCpuInv, SmDepth, SmStackInv, SmOpen
  <1>3. SmStackInv'
    BY <1>0 DEF SmStackInv, Sm!InTrap
  <1>4. SmLockInv'
    BY <1>0 DEF SmTypeInv, SmLockInv, SmHolds, SmHoldsTx, Sm!OwnLock
  <1>5. SmWakeInv'
    BY <1>0 DEF SmWakeInv, SmWaking
  <1>. QED  BY <1>1, <1>2, <1>3, <1>4, <1>5

(* The return to user mode. *)
LEMMA SmToUserKeeps ==
    ASSUME SmSizes, SmIInv, NEW c \in Sm!CPUs, NEW p \in Sm!Procs, Sm!ToUser(c, p)
    PROVE  SmIInv'
  <1>. USE DEF SmIInv, Sm!ToUser, Sm!On, Sm!Goto, Sm!schedVars, Sm!irqVars, Sm!procVars,
      Sm!uartVars
  <1>0. 0 \notin Sm!CPUs /\ 0 \notin Sm!Procs
    BY SmZero
  <1>1. SmTypeInv'
    BY <1>0, SmNext DEF SmTypeInv, SmPlaces, SmIrqs
  <1>2. SmCpuInv'
    BY <1>0 DEF SmTypeInv, SmCpuInv, SmDepth, SmStackInv, SmOpen
  <1>3. SmStackInv'
    BY <1>0 DEF SmStackInv, Sm!InTrap
  <1>4. SmLockInv'
    BY <1>0 DEF SmLockInv, SmHolds, SmHoldsTx, Sm!OwnLock
  <1>5. SmWakeInv'
    BY <1>0 DEF SmWakeInv, SmWaking
  <1>. QED  BY <1>1, <1>2, <1>3, <1>4, <1>5

(* Interrupts off for tx_lock. *)
LEMMA SmPushOffKeeps ==
    ASSUME SmSizes, SmIInv, NEW c \in Sm!CPUs, NEW p \in Sm!Procs, Sm!PushOff(c, p)
    PROVE  SmIInv'
  <1>. USE DEF SmIInv, Sm!PushOff, Sm!On, Sm!push_off, Sm!Goto, Sm!schedVars, Sm!irqVars,
      Sm!procVars, Sm!uartVars
  <1>0. 0 \notin Sm!CPUs /\ 0 \notin Sm!Procs
    BY SmZero
  <1>1. SmTypeInv'
    BY <1>0, SmNext DEF SmTypeInv, SmPlaces, SmIrqs
  <1>2. SmCpuInv'
    BY <1>0 DEF SmTypeInv, SmCpuInv, SmDepth, SmStackInv, SmOpen
  <1>3. SmStackInv'
    BY <1>0 DEF SmStackInv, Sm!InTrap
  <1>4. SmLockInv'
    BY <1>0 DEF SmLockInv, SmHolds, SmHoldsTx, Sm!OwnLock
  <1>5. SmWakeInv'
    BY <1>0 DEF SmWakeInv, SmWaking
  <1>. QED  BY <1>1, <1>2, <1>3, <1>4, <1>5

(* tx_lock is taken. *)
LEMMA SmLockKeeps ==
    ASSUME SmSizes, SmIInv, NEW c \in Sm!CPUs, NEW p \in Sm!Procs, Sm!Lock(c, p)
    PROVE  SmIInv'
  <1>. USE DEF SmIInv, Sm!Lock, Sm!On, Sm!Goto, Sm!cpuVars, Sm!schedVars, Sm!irqVars,
      Sm!procVars
  <1>0. 0 \notin Sm!CPUs /\ 0 \notin Sm!Procs
    BY SmZero
  <1>1. SmTypeInv'
    BY <1>0, SmNext DEF SmTypeInv, SmPlaces, SmIrqs
  <1>2. SmCpuInv'
    BY <1>0 DEF SmCpuInv, SmDepth, SmOpen
  <1>3. SmStackInv'
    BY <1>0 DEF SmStackInv, Sm!InTrap
  <1>4. SmLockInv'
    BY <1>0 DEF SmTypeInv, SmStackInv, SmLockInv, SmHolds, SmHoldsTx, Sm!OwnLock
  <1>5. SmWakeInv'
    BY <1>0 DEF SmWakeInv, SmWaking
  <1>. QED  BY <1>1, <1>2, <1>3, <1>4, <1>5

(* A byte is sent. *)
LEMMA SmTransmitKeeps ==
    ASSUME SmSizes, SmIInv, NEW c \in Sm!CPUs, NEW p \in Sm!Procs, Sm!Transmit(c, p)
    PROVE  SmIInv'
  <1>. USE DEF SmIInv, Sm!Transmit, Sm!On, Sm!Goto, Sm!cpuVars, Sm!schedVars, Sm!irqVars,
      Sm!procVars
  <1>0. 0 \notin Sm!CPUs /\ 0 \notin Sm!Procs
    BY SmZero
  <1>1. SmTypeInv'
    BY <1>0, SmNext DEF SmTypeInv, SmPlaces, SmIrqs
  <1>2. SmCpuInv'
    BY <1>0 DEF SmCpuInv, SmDepth, SmOpen
  <1>3. SmStackInv'
    BY <1>0 DEF SmStackInv, Sm!InTrap
  <1>4. SmLockInv'
    BY <1>0 DEF SmLockInv, SmHolds, SmHoldsTx, Sm!OwnLock
  <1>5. SmWakeInv'
    BY <1>0 DEF SmWakeInv, SmWaking
  <1>. QED  BY <1>1, <1>2, <1>3, <1>4, <1>5

(* tx_lock is released. *)
LEMMA SmReleaseKeeps ==
    ASSUME SmSizes, SmIInv, NEW c \in Sm!CPUs, NEW p \in Sm!Procs, Sm!Release(c, p)
    PROVE  SmIInv'
  <1>. USE DEF SmIInv, Sm!Release, Sm!On, Sm!pop_off, Sm!Goto, Sm!schedVars, Sm!irqVars,
      Sm!procVars
  <1>0. 0 \notin Sm!CPUs /\ 0 \notin Sm!Procs
    BY SmZero
  <1>a. noff[c] \in Nat /\ noff[c] > 0
    BY <1>0 DEF SmCpuInv, SmDepth
  <1>b. noff[c] - 1 \in Nat
    BY <1>a
  <1>1. SmTypeInv'
    BY <1>0, <1>b, SmNext DEF SmTypeInv, SmPlaces, SmIrqs
  <1>2. SmCpuInv'
    BY <1>0 DEF SmTypeInv, SmCpuInv, SmDepth, SmStackInv, SmOpen
  <1>3. SmStackInv'
    BY <1>0 DEF SmStackInv, Sm!InTrap
  <1>4. SmLockInv'
    BY <1>0 DEF SmTypeInv, SmLockInv, SmHolds, SmHoldsTx, Sm!OwnLock
  <1>5. SmWakeInv'
    BY <1>0 DEF SmWakeInv, SmWaking
  <1>. QED  BY <1>1, <1>2, <1>3, <1>4, <1>5

(* Interrupts off for p->lock. *)
LEMMA SmSleepPushKeeps ==
    ASSUME SmSizes, SmIInv, NEW c \in Sm!CPUs, NEW p \in Sm!Procs, Sm!SleepPush(c, p)
    PROVE  SmIInv'
  <1>. USE DEF SmIInv, Sm!SleepPush, Sm!On, Sm!push_off, Sm!Goto, Sm!schedVars, Sm!irqVars,
      Sm!procVars, Sm!uartVars
  <1>0. 0 \notin Sm!CPUs /\ 0 \notin Sm!Procs
    BY SmZero
  <1>1. SmTypeInv'
    BY <1>0, SmNext DEF SmTypeInv, SmPlaces, SmIrqs
  <1>2. SmCpuInv'
    BY <1>0 DEF SmTypeInv, SmCpuInv, SmDepth, SmStackInv, SmOpen
  <1>3. SmStackInv'
    BY <1>0 DEF SmStackInv, Sm!InTrap
  <1>4. SmLockInv'
    BY <1>0 DEF SmLockInv, SmHolds, SmHoldsTx, Sm!OwnLock
  <1>5. SmWakeInv'
    BY <1>0 DEF SmWakeInv, SmWaking
  <1>. QED  BY <1>1, <1>2, <1>3, <1>4, <1>5

(* sleep takes p->lock. *)
LEMMA SmSleepLockKeeps ==
    ASSUME SmSizes, SmIInv, NEW c \in Sm!CPUs, NEW p \in Sm!Procs, Sm!SleepLock(c, p)
    PROVE  SmIInv'
  <1>. USE DEF SmIInv, Sm!SleepLock, Sm!On, Sm!Goto, Sm!cpuVars, Sm!schedVars, Sm!irqVars,
      Sm!uartVars
  <1>0. 0 \notin Sm!CPUs /\ 0 \notin Sm!Procs
    BY SmZero
  <1>1. SmTypeInv'
    BY <1>0, SmNext DEF SmTypeInv, SmPlaces, SmIrqs
  <1>2. SmCpuInv'
    BY <1>0 DEF SmCpuInv, SmDepth, SmOpen
  <1>3. SmStackInv'
    BY <1>0 DEF SmStackInv, Sm!InTrap
  <1>4. SmLockInv'
    BY <1>0 DEF SmTypeInv, SmLockInv, SmHolds, SmHoldsTx, Sm!OwnLock
  <1>5. SmWakeInv'
    BY <1>0 DEF SmWakeInv, SmWaking
  <1>. QED  BY <1>1, <1>2, <1>3, <1>4, <1>5

(* sleep lets go of tx_lock. *)
LEMMA SmSleepReleaseKeeps ==
    ASSUME SmSizes, SmIInv, NEW c \in Sm!CPUs, NEW p \in Sm!Procs, Sm!SleepRelease(c, p)
    PROVE  SmIInv'
  <1>. USE DEF SmIInv, Sm!SleepRelease, Sm!On, Sm!pop_off, Sm!Goto, Sm!schedVars,
      Sm!irqVars, Sm!procVars
  <1>0. 0 \notin Sm!CPUs /\ 0 \notin Sm!Procs
    BY SmZero
  <1>a. noff[c] \in Nat /\ noff[c] > 0
    BY <1>0 DEF SmCpuInv, SmDepth
  <1>b. noff[c] - 1 \in Nat
    BY <1>a
  <1>1. SmTypeInv'
    BY <1>0, <1>b, SmNext DEF SmTypeInv, SmPlaces, SmIrqs
  <1>2. SmCpuInv'
    BY <1>0 DEF SmTypeInv, SmCpuInv, SmDepth, SmStackInv, SmOpen
  <1>3. SmStackInv'
    BY <1>0 DEF SmStackInv, Sm!InTrap
  <1>4. SmLockInv'
    BY <1>0 DEF SmTypeInv, SmLockInv, SmHolds, SmHoldsTx, Sm!OwnLock
  <1>5. SmWakeInv'
    BY <1>0 DEF SmWakeInv, SmWaking
  <1>. QED  BY <1>1, <1>2, <1>3, <1>4, <1>5

(* The process sleeps. *)
LEMMA SmSleepKeeps ==
    ASSUME SmSizes, SmIInv, NEW c \in Sm!CPUs, NEW p \in Sm!Procs, Sm!Sleep(c, p)
    PROVE  SmIInv'
  <1>. USE DEF SmIInv, Sm!Sleep, Sm!On, Sm!Switch, Sm!cpuVars, Sm!irqVars, Sm!uartVars
  <1>0. 0 \notin Sm!CPUs /\ 0 \notin Sm!Procs
    BY SmZero
  <1>1. SmTypeInv'
    BY <1>0, SmNext DEF SmTypeInv, SmPlaces, SmIrqs
  <1>2. SmCpuInv'
    BY <1>0 DEF SmTypeInv, SmCpuInv, SmDepth, SmOpen
  <1>3. SmStackInv'
    BY <1>0 DEF SmTypeInv, SmCpuInv, SmStackInv, Sm!InTrap
  <1>4. SmLockInv'
    <2>1. cpuK[c] = p /\ UNCHANGED <<p_lock, cpuK, irq, tx_lock>>
      BY <1>0 DEF SmCpuInv
    <2>2. \A d \in Sm!CPUs, q \in Sm!Procs : SmHolds(d, q)' <=> SmHolds(d, q)
      BY <2>1, <1>0 DEF SmTypeInv, SmStackInv, SmHolds, Sm!OwnLock
    <2>3. \A d \in Sm!CPUs : SmHoldsTx(d)' <=> SmHoldsTx(d)
      BY <2>1, <1>0 DEF SmTypeInv, SmStackInv, SmHoldsTx
    <2>. QED  BY <2>1, <2>2, <2>3 DEF SmLockInv
  <1>5. SmWakeInv'
    BY <1>0 DEF SmWakeInv, SmWaking
  <1>. QED  BY <1>1, <1>2, <1>3, <1>4, <1>5

(* The process is back from sleep. *)
LEMMA SmAwakeKeeps ==
    ASSUME SmSizes, SmIInv, NEW c \in Sm!CPUs, NEW p \in Sm!Procs, Sm!Awake(c, p)
    PROVE  SmIInv'
  <1>. USE DEF SmIInv, Sm!Awake, Sm!On, Sm!pop_off, Sm!Goto, Sm!schedVars, Sm!irqVars,
      Sm!uartVars
  <1>0. 0 \notin Sm!CPUs /\ 0 \notin Sm!Procs
    BY SmZero
  <1>a. noff[c] \in Nat /\ noff[c] > 0
    BY <1>0 DEF SmCpuInv, SmDepth
  <1>b. noff[c] - 1 \in Nat
    BY <1>a
  <1>1. SmTypeInv'
    BY <1>0, <1>b, SmNext DEF SmTypeInv, SmPlaces, SmIrqs
  <1>2. SmCpuInv'
    BY <1>0 DEF SmTypeInv, SmCpuInv, SmDepth, SmStackInv, SmOpen
  <1>3. SmStackInv'
    BY <1>0 DEF SmTypeInv, SmStackInv, Sm!InTrap
  <1>4. SmLockInv'
    BY <1>0 DEF SmTypeInv, SmLockInv, SmHolds, SmHoldsTx, Sm!OwnLock
  <1>5. SmWakeInv'
    BY <1>0 DEF SmWakeInv, SmWaking
  <1>. QED  BY <1>1, <1>2, <1>3, <1>4, <1>5

(* The timer interrupts. *)
LEMMA SmTimerKeeps ==
    ASSUME SmSizes, SmIInv, NEW c \in Sm!CPUs, NEW p \in Sm!Procs, Sm!Timer(c, p)
    PROVE  SmIInv'
  <1>. USE DEF SmIInv, Sm!Timer, Sm!schedVars, Sm!irqVars, Sm!procVars, Sm!uartVars
  <1>0. 0 \notin Sm!CPUs /\ 0 \notin Sm!Procs
    BY SmZero
  <1>1. SmTypeInv'
    BY <1>0 DEF SmTypeInv, SmPlaces, SmCpuInv, SmOpen
  <1>2. SmCpuInv'
    BY <1>0 DEF SmTypeInv, SmCpuInv, SmDepth, SmStackInv, SmOpen
  <1>3. SmStackInv'
    BY <1>0 DEF SmTypeInv, SmCpuInv, SmStackInv, Sm!InTrap, SmOpen
  <1>4. SmLockInv'
    BY <1>0 DEF SmCpuInv, SmLockInv, SmHolds, SmHoldsTx, Sm!OwnLock, SmOpen
  <1>5. SmWakeInv'
    BY <1>0 DEF SmWakeInv, SmWaking
  <1>. QED  BY <1>1, <1>2, <1>3, <1>4, <1>5

(* Interrupts off for yield. *)
LEMMA SmYieldPushKeeps ==
    ASSUME SmSizes, SmIInv, NEW c \in Sm!CPUs, NEW p \in Sm!Procs, Sm!YieldPush(c, p)
    PROVE  SmIInv'
  <1>. USE DEF SmIInv, Sm!YieldPush, Sm!On, Sm!push_off, Sm!Goto, Sm!schedVars, Sm!irqVars,
      Sm!procVars, Sm!uartVars
  <1>0. 0 \notin Sm!CPUs /\ 0 \notin Sm!Procs
    BY SmZero
  <1>1. SmTypeInv'
    BY <1>0, SmNext DEF SmTypeInv, SmPlaces, SmIrqs
  <1>2. SmCpuInv'
    BY <1>0 DEF SmTypeInv, SmCpuInv, SmDepth, SmStackInv, SmOpen
  <1>3. SmStackInv'
    BY <1>0 DEF SmStackInv, Sm!InTrap
  <1>4. SmLockInv'
    BY <1>0 DEF SmLockInv, SmHolds, SmHoldsTx, Sm!OwnLock
  <1>5. SmWakeInv'
    BY <1>0 DEF SmWakeInv, SmWaking
  <1>. QED  BY <1>1, <1>2, <1>3, <1>4, <1>5

(* yield takes p->lock. *)
LEMMA SmYieldLockKeeps ==
    ASSUME SmSizes, SmIInv, NEW c \in Sm!CPUs, NEW p \in Sm!Procs, Sm!YieldLock(c, p)
    PROVE  SmIInv'
  <1>. USE DEF SmIInv, Sm!YieldLock, Sm!On, Sm!Goto, Sm!cpuVars, Sm!schedVars, Sm!irqVars,
      Sm!uartVars
  <1>0. 0 \notin Sm!CPUs /\ 0 \notin Sm!Procs
    BY SmZero
  <1>1. SmTypeInv'
    BY <1>0, SmNext DEF SmTypeInv, SmPlaces, SmIrqs
  <1>2. SmCpuInv'
    BY <1>0 DEF SmCpuInv, SmDepth, SmOpen
  <1>3. SmStackInv'
    BY <1>0 DEF SmStackInv, Sm!InTrap
  <1>4. SmLockInv'
    BY <1>0 DEF SmTypeInv, SmStackInv, SmLockInv, SmHolds, SmHoldsTx, Sm!OwnLock
  <1>5. SmWakeInv'
    BY <1>0 DEF SmWakeInv, SmWaking
  <1>. QED  BY <1>1, <1>2, <1>3, <1>4, <1>5

(* yield switches away. *)
LEMMA SmYieldKeeps ==
    ASSUME SmSizes, SmIInv, NEW c \in Sm!CPUs, NEW p \in Sm!Procs, Sm!Yield(c, p)
    PROVE  SmIInv'
  <1>. USE DEF SmIInv, Sm!Yield, Sm!On, Sm!Switch, Sm!cpuVars, Sm!irqVars, Sm!uartVars
  <1>0. 0 \notin Sm!CPUs /\ 0 \notin Sm!Procs
    BY SmZero
  <1>1. SmTypeInv'
    BY <1>0, SmNext DEF SmTypeInv, SmPlaces, SmIrqs
  <1>2. SmCpuInv'
    BY <1>0 DEF SmTypeInv, SmCpuInv, SmDepth, SmOpen
  <1>3. SmStackInv'
    BY <1>0 DEF SmTypeInv, SmCpuInv, SmStackInv, Sm!InTrap
  <1>4. SmLockInv'
    BY <1>0 DEF SmTypeInv, SmCpuInv, SmLockInv, SmHolds, SmHoldsTx, Sm!OwnLock
  <1>5. SmWakeInv'
    BY <1>0 DEF SmWakeInv, SmWaking
  <1>. QED  BY <1>1, <1>2, <1>3, <1>4, <1>5

(* yield is back. *)
LEMMA SmYieldBackKeeps ==
    ASSUME SmSizes, SmIInv, NEW c \in Sm!CPUs, NEW p \in Sm!Procs, Sm!YieldBack(c, p)
    PROVE  SmIInv'
  <1>. USE DEF SmIInv, Sm!YieldBack, Sm!On, Sm!pop_off, Sm!Goto, Sm!schedVars, Sm!irqVars,
      Sm!uartVars
  <1>0. 0 \notin Sm!CPUs /\ 0 \notin Sm!Procs
    BY SmZero
  <1>a. noff[c] \in Nat /\ noff[c] > 0
    BY <1>0 DEF SmCpuInv, SmDepth
  <1>b. noff[c] - 1 \in Nat
    BY <1>a
  <1>1. SmTypeInv'
    BY <1>0, <1>b, SmNext DEF SmTypeInv, SmPlaces, SmIrqs
  <1>2. SmCpuInv'
    BY <1>0 DEF SmTypeInv, SmCpuInv, SmDepth, SmStackInv, SmOpen
  <1>3. SmStackInv'
    BY <1>0 DEF SmStackInv, Sm!InTrap
  <1>4. SmLockInv'
    BY <1>0 DEF SmTypeInv, SmLockInv, SmHolds, SmHoldsTx, Sm!OwnLock
  <1>5. SmWakeInv'
    BY <1>0 DEF SmWakeInv, SmWaking
  <1>. QED  BY <1>1, <1>2, <1>3, <1>4, <1>5

(* The trap returns. *)
LEMMA SmTrapReturnKeeps ==
    ASSUME SmSizes, SmIInv, NEW c \in Sm!CPUs, NEW p \in Sm!Procs, Sm!TrapReturn(c, p)
    PROVE  SmIInv'
  <1>. USE DEF SmIInv, Sm!TrapReturn, Sm!On, Sm!schedVars, Sm!irqVars, Sm!procVars,
      Sm!uartVars
  <1>0. 0 \notin Sm!CPUs /\ 0 \notin Sm!Procs
    BY SmZero
  <1>1. SmTypeInv'
    BY <1>0 DEF SmTypeInv, SmPlaces, SmStackInv, Sm!InTrap
  <1>2. SmCpuInv'
    BY <1>0 DEF SmTypeInv, SmCpuInv, SmDepth, SmStackInv, SmOpen, Sm!InTrap
  <1>3. SmStackInv'
    BY <1>0 DEF SmTypeInv, SmStackInv, Sm!InTrap
  <1>4. SmLockInv'
    BY <1>0 DEF SmTypeInv, SmLockInv, SmHolds, SmHoldsTx, Sm!OwnLock
  <1>5. SmWakeInv'
    BY <1>0 DEF SmTypeInv, SmWakeInv, SmWaking
  <1>. QED  BY <1>1, <1>2, <1>3, <1>4, <1>5

(* The interrupt is claimed. *)
LEMMA SmClaimKeeps ==
    ASSUME SmSizes, SmIInv, NEW c \in Sm!CPUs, Sm!Claim(c)
    PROVE  SmIInv'
  <1>. USE DEF SmIInv, Sm!Claim, Sm!Irq, Sm!schedVars, Sm!procVars, Sm!threadVars
  <1>0. 0 \notin Sm!CPUs /\ 0 \notin Sm!Procs
    BY SmZero
  <1>1. SmTypeInv'
    BY <1>0, SmNext DEF SmTypeInv, SmPlaces, SmIrqs
  <1>2. SmCpuInv'
    BY <1>0 DEF SmTypeInv, SmCpuInv, SmDepth, SmOpen
  <1>3. SmStackInv'
    BY <1>0 DEF SmStackInv, Sm!InTrap
  <1>4. SmLockInv'
    BY <1>0 DEF SmLockInv, SmHolds, SmHoldsTx, Sm!OwnLock
  <1>5. SmWakeInv'
    BY <1>0 DEF SmTypeInv, SmWakeInv, SmWaking
  <1>. QED  BY <1>1, <1>2, <1>3, <1>4, <1>5

(* Interrupts off for uartintr. *)
LEMMA SmIrqPushKeeps ==
    ASSUME SmSizes, SmIInv, NEW c \in Sm!CPUs, Sm!IrqPush(c)
    PROVE  SmIInv'
  <1>. USE DEF SmIInv, Sm!IrqPush, Sm!push_off, Sm!Irq, Sm!schedVars, Sm!procVars,
      Sm!threadVars, Sm!uartVars
  <1>0. 0 \notin Sm!CPUs /\ 0 \notin Sm!Procs
    BY SmZero
  <1>1. SmTypeInv'
    BY <1>0, SmNext DEF SmTypeInv, SmPlaces, SmIrqs
  <1>2. SmCpuInv'
    BY <1>0 DEF SmTypeInv, SmCpuInv, SmDepth, SmOpen
  <1>3. SmStackInv'
    BY <1>0 DEF SmStackInv, Sm!InTrap
  <1>4. SmLockInv'
    BY <1>0 DEF SmLockInv, SmHolds, SmHoldsTx, Sm!OwnLock
  <1>5. SmWakeInv'
    BY <1>0 DEF SmWakeInv, SmWaking
  <1>. QED  BY <1>1, <1>2, <1>3, <1>4, <1>5

(* uartintr takes tx_lock. *)
LEMMA SmIrqLockKeeps ==
    ASSUME SmSizes, SmIInv, NEW c \in Sm!CPUs, Sm!IrqLock(c)
    PROVE  SmIInv'
  <1>. USE DEF SmIInv, Sm!IrqLock, Sm!Irq, Sm!cpuVars, Sm!schedVars, Sm!procVars,
      Sm!threadVars
  <1>0. 0 \notin Sm!CPUs /\ 0 \notin Sm!Procs
    BY SmZero
  <1>1. SmTypeInv'
    BY <1>0, SmNext DEF SmTypeInv, SmPlaces, SmIrqs
  <1>2. SmCpuInv'
    BY <1>0 DEF SmCpuInv, SmDepth, SmOpen
  <1>3. SmStackInv'
    BY <1>0 DEF SmStackInv, Sm!InTrap
  <1>4. SmLockInv'
    BY <1>0 DEF SmTypeInv, SmLockInv, SmHolds, SmHoldsTx, Sm!OwnLock
  <1>5. SmWakeInv'
    BY <1>0 DEF SmWakeInv, SmWaking
  <1>. QED  BY <1>1, <1>2, <1>3, <1>4, <1>5

(* uartintr finds the line busy. *)
LEMMA SmIrqBusyKeeps ==
    ASSUME SmSizes, SmIInv, NEW c \in Sm!CPUs, Sm!IrqBusy(c)
    PROVE  SmIInv'
  <1>. USE DEF SmIInv, Sm!IrqBusy, Sm!Irq, Sm!cpuVars, Sm!schedVars, Sm!procVars,
      Sm!threadVars, Sm!uartVars
  <1>0. 0 \notin Sm!CPUs /\ 0 \notin Sm!Procs
    BY SmZero
  <1>1. SmTypeInv'
    BY <1>0, SmNext DEF SmTypeInv, SmPlaces, SmIrqs
  <1>2. SmCpuInv'
    BY <1>0 DEF SmCpuInv, SmDepth, SmOpen
  <1>3. SmStackInv'
    BY <1>0 DEF SmStackInv, Sm!InTrap
  <1>4. SmLockInv'
    BY <1>0 DEF SmLockInv, SmHolds, SmHoldsTx, Sm!OwnLock
  <1>5. SmWakeInv'
    BY <1>0 DEF SmWakeInv, SmWaking
  <1>. QED  BY <1>1, <1>2, <1>3, <1>4, <1>5

(* uartintr finds the line idle. *)
LEMMA SmIrqIdleKeeps ==
    ASSUME SmSizes, SmIInv, NEW c \in Sm!CPUs, Sm!IrqIdle(c)
    PROVE  SmIInv'
  <1>. USE DEF SmIInv, Sm!IrqIdle, Sm!cpuVars, Sm!schedVars, Sm!procVars, Sm!threadVars
  <1>0. 0 \notin Sm!CPUs /\ 0 \notin Sm!Procs
    BY SmZero
  <1>1. SmTypeInv'
    BY <1>0, SmNext DEF SmTypeInv, SmPlaces, SmIrqs
  <1>2. SmCpuInv'
    BY <1>0 DEF SmCpuInv, SmDepth, SmOpen
  <1>3. SmStackInv'
    BY <1>0 DEF SmStackInv, Sm!InTrap
  <1>4. SmLockInv'
    BY <1>0 DEF SmLockInv, SmHolds, SmHoldsTx, Sm!OwnLock
  <1>5. SmWakeInv'
    <2>1. ASSUME NEW q \in Sm!Procs PROVE smpPc[q] \notin {"sleep_lock", "sleep_release"}
      <3>1. SUFFICES ASSUME smpPc[q] \in {"sleep_lock", "sleep_release"} PROVE FALSE
        OBVIOUS
      <3>2. PICK d \in Sm!CPUs : running[d] = q
        BY <3>1 DEF SmStackInv
      <3>3. tx_lock = d /\ tx_lock = c
        BY <1>0, <3>1, <3>2 DEF SmLockInv, SmHoldsTx
      <3>. QED  BY <1>0, <3>1, <3>2, <3>3 DEF SmCpuInv, SmOpen
    <2>2. ASSUME NEW q \in Sm!Procs PROVE SmWaking(q)'
      <3>1. irq'[c] = "wakeup" /\ irqI'[c] = 1 /\ 1 <= q
        BY DEF SmTypeInv, Sm!Procs
      <3>. QED  BY <3>1 DEF SmWaking
    <2>. QED  BY <2>1, <2>2 DEF SmWakeInv
  <1>. QED  BY <1>1, <1>2, <1>3, <1>4, <1>5

(* wakeup looks at a process. *)
LEMMA SmIrqWakeupKeeps ==
    ASSUME SmSizes, SmIInv, NEW c \in Sm!CPUs, Sm!IrqWakeup(c)
    PROVE  SmIInv'
  <1>. USE DEF SmIInv, Sm!IrqWakeup, Sm!cpuVars, Sm!schedVars, Sm!threadVars, Sm!uartVars
  <1>0. 0 \notin Sm!CPUs /\ 0 \notin Sm!Procs
    BY SmZero
  <1>1. SmTypeInv'
    BY <1>0, SmNext DEF SmTypeInv, SmPlaces, SmIrqs
  <1>2. SmCpuInv'
    BY <1>0 DEF SmCpuInv, SmDepth, SmOpen
  <1>3. SmStackInv'
    BY <1>0 DEF SmTypeInv, SmStackInv, Sm!InTrap
  <1>4. SmLockInv'
    BY <1>0 DEF SmLockInv, SmHolds, SmHoldsTx, Sm!OwnLock
  <1>5. SmWakeInv'
    <2>1. SUFFICES ASSUME NEW q \in Sm!Procs,
                          smpPc[q] = "sleep" \/ smpState'[q] = "SLEEPING", SmWaking(q)
          PROVE  SmWaking(q)'
      BY <1>0 DEF SmWakeInv, SmTypeInv
    <2>2. PICK d \in Sm!CPUs : irq[d] = "wakeup" /\ irqI[d] <= q
      BY <2>1 DEF SmWaking
    <2>3. CASE d # c
      BY <2>2, <2>3 DEF SmWaking
    <2>4. irqI[c] # q \/ d # c
      BY <1>0, <2>1, <2>2 DEF SmTypeInv, SmCpuInv, SmStackInv, SmLockInv, SmHolds,
          Sm!OwnLock, SmOpen
    <2>5. q \in 1..NTHREADS /\ irqI[c] \in 1..NTHREADS
      BY DEF SmTypeInv, Sm!Procs
    <2>6. CASE d = c
      <3>1. irqI[c] < q /\ irqI[c] # NTHREADS
        BY <2>2, <2>4, <2>5, <2>6 DEF SmSizes
      <3>2. irq'[c] = "wakeup" /\ irqI'[c] = irqI[c] + 1
        BY <3>1 DEF SmTypeInv
      <3>. QED  BY <3>1, <3>2, <2>5 DEF SmWaking
    <2>. QED  BY <2>3, <2>6
  <1>. QED  BY <1>1, <1>2, <1>3, <1>4, <1>5

(* uartintr releases tx_lock. *)
LEMMA SmIrqReleaseKeeps ==
    ASSUME SmSizes, SmIInv, NEW c \in Sm!CPUs, Sm!IrqRelease(c)
    PROVE  SmIInv'
  <1>. USE DEF SmIInv, Sm!IrqRelease, Sm!pop_off, Sm!Irq, Sm!schedVars, Sm!procVars,
      Sm!threadVars
  <1>0. 0 \notin Sm!CPUs /\ 0 \notin Sm!Procs
    BY SmZero
  <1>a. noff[c] \in Nat /\ noff[c] > 0
    BY <1>0 DEF SmCpuInv, SmDepth
  <1>b. noff[c] - 1 \in Nat
    BY <1>a
  <1>1. SmTypeInv'
    BY <1>0, <1>b, SmNext DEF SmTypeInv, SmPlaces, SmIrqs
  <1>2. SmCpuInv'
    BY <1>0 DEF SmTypeInv, SmCpuInv, SmDepth, SmOpen
  <1>3. SmStackInv'
    BY <1>0 DEF SmStackInv, Sm!InTrap
  <1>4. SmLockInv'
    BY <1>0 DEF SmTypeInv, SmCpuInv, SmLockInv, SmHolds, SmHoldsTx, Sm!OwnLock, SmOpen
  <1>5. SmWakeInv'
    BY <1>0 DEF SmWakeInv, SmWaking
  <1>. QED  BY <1>1, <1>2, <1>3, <1>4, <1>5

(* The interrupt returns. *)
LEMMA SmIrqReturnKeeps ==
    ASSUME SmSizes, SmIInv, NEW c \in Sm!CPUs, Sm!IrqReturn(c)
    PROVE  SmIInv'
  <1>. USE DEF SmIInv, Sm!IrqReturn, Sm!Irq, Sm!schedVars, Sm!procVars, Sm!threadVars,
      Sm!uartVars
  <1>0. 0 \notin Sm!CPUs /\ 0 \notin Sm!Procs
    BY SmZero
  <1>1. SmTypeInv'
    BY <1>0, SmNext DEF SmTypeInv, SmPlaces, SmIrqs
  <1>2. SmCpuInv'
    BY <1>0 DEF SmTypeInv, SmCpuInv, SmDepth, SmOpen
  <1>3. SmStackInv'
    BY <1>0 DEF SmStackInv, Sm!InTrap
  <1>4. SmLockInv'
    BY <1>0 DEF SmLockInv, SmHolds, SmHoldsTx, Sm!OwnLock
  <1>5. SmWakeInv'
    BY <1>0 DEF SmWakeInv, SmWaking
  <1>. QED  BY <1>1, <1>2, <1>3, <1>4, <1>5

(* The scheduler turns interrupts on. *)
LEMMA SmIntrOnKeeps ==
    ASSUME SmSizes, SmIInv, NEW c \in Sm!CPUs, Sm!IntrOn(c)
    PROVE  SmIInv'
  <1>. USE DEF SmIInv, Sm!IntrOn, Sm!In, Sm!GoOn, Sm!irqVars, Sm!procVars, Sm!threadVars,
      Sm!uartVars
  <1>0. 0 \notin Sm!CPUs /\ 0 \notin Sm!Procs
    BY SmZero
  <1>1. SmTypeInv'
    BY <1>0, SmNext DEF SmTypeInv, SmPlaces, SmIrqs
  <1>2. SmCpuInv'
    BY <1>0 DEF SmCpuInv, SmDepth, SmOpen
  <1>3. SmStackInv'
    BY <1>0 DEF SmStackInv, Sm!InTrap
  <1>4. SmLockInv'
    BY <1>0 DEF SmLockInv, SmHolds, SmHoldsTx, Sm!OwnLock
  <1>5. SmWakeInv'
    BY <1>0 DEF SmWakeInv, SmWaking
  <1>. QED  BY <1>1, <1>2, <1>3, <1>4, <1>5

(* The scheduler turns interrupts off. *)
LEMMA SmIntrOffKeeps ==
    ASSUME SmSizes, SmIInv, NEW c \in Sm!CPUs, Sm!IntrOff(c)
    PROVE  SmIInv'
  <1>. USE DEF SmIInv, Sm!IntrOff, Sm!In, Sm!GoOn, Sm!irqVars, Sm!procVars, Sm!threadVars,
      Sm!uartVars
  <1>0. 0 \notin Sm!CPUs /\ 0 \notin Sm!Procs
    BY SmZero
  <1>1. SmTypeInv'
    BY <1>0, SmNext DEF SmTypeInv, SmPlaces, SmIrqs
  <1>2. SmCpuInv'
    BY <1>0 DEF SmCpuInv, SmDepth, SmOpen
  <1>3. SmStackInv'
    BY <1>0 DEF SmStackInv, Sm!InTrap
  <1>4. SmLockInv'
    BY <1>0 DEF SmLockInv, SmHolds, SmHoldsTx, Sm!OwnLock
  <1>5. SmWakeInv'
    BY <1>0 DEF SmWakeInv, SmWaking
  <1>. QED  BY <1>1, <1>2, <1>3, <1>4, <1>5

(* Interrupts off for the scan. *)
LEMMA SmScanPushKeeps ==
    ASSUME SmSizes, SmIInv, NEW c \in Sm!CPUs, Sm!ScanPush(c)
    PROVE  SmIInv'
  <1>. USE DEF SmIInv, Sm!ScanPush, Sm!In, Sm!push_off, Sm!GoOn, Sm!irqVars, Sm!procVars,
      Sm!threadVars, Sm!uartVars
  <1>0. 0 \notin Sm!CPUs /\ 0 \notin Sm!Procs
    BY SmZero
  <1>1. SmTypeInv'
    BY <1>0, SmNext DEF SmTypeInv, SmPlaces, SmIrqs
  <1>2. SmCpuInv'
    BY <1>0 DEF SmTypeInv, SmCpuInv, SmDepth, SmOpen
  <1>3. SmStackInv'
    BY <1>0 DEF SmStackInv, Sm!InTrap
  <1>4. SmLockInv'
    BY <1>0 DEF SmLockInv, SmHolds, SmHoldsTx, Sm!OwnLock
  <1>5. SmWakeInv'
    BY <1>0 DEF SmWakeInv, SmWaking
  <1>. QED  BY <1>1, <1>2, <1>3, <1>4, <1>5

(* The scheduler skips a process. *)
LEMMA SmSkipKeeps ==
    ASSUME SmSizes, SmIInv, NEW c \in Sm!CPUs, Sm!Skip(c)
    PROVE  SmIInv'
  <1>. USE DEF SmIInv, Sm!Skip, Sm!In, Sm!pop_off, Sm!NextProc, Sm!GoOn, Sm!irqVars,
      Sm!procVars, Sm!threadVars, Sm!uartVars
  <1>0. 0 \notin Sm!CPUs /\ 0 \notin Sm!Procs
    BY SmZero
  <1>a. noff[c] \in Nat /\ noff[c] > 0
    BY <1>0 DEF SmCpuInv, SmDepth
  <1>b. noff[c] - 1 \in Nat
    BY <1>a
  <1>1. SmTypeInv'
    BY <1>0, <1>b, SmNext DEF SmTypeInv, SmPlaces, SmIrqs
  <1>2. SmCpuInv'
    BY <1>0 DEF SmTypeInv, SmCpuInv, SmDepth, SmOpen
  <1>3. SmStackInv'
    BY <1>0 DEF SmStackInv, Sm!InTrap
  <1>4. SmLockInv'
    BY <1>0 DEF SmTypeInv, SmLockInv, SmHolds, SmHoldsTx, Sm!OwnLock
  <1>5. SmWakeInv'
    BY <1>0 DEF SmWakeInv, SmWaking
  <1>. QED  BY <1>1, <1>2, <1>3, <1>4, <1>5

(* The scheduler switches to a process. *)
LEMMA SmDispatchKeeps ==
    ASSUME SmSizes, SmIInv, NEW c \in Sm!CPUs, Sm!Dispatch(c)
    PROVE  SmIInv'
  <1>. USE DEF SmIInv, Sm!Dispatch, Sm!In, Sm!cpuVars, Sm!irqVars, Sm!threadVars,
      Sm!uartVars
  <1>0. 0 \notin Sm!CPUs /\ 0 \notin Sm!Procs
    BY SmZero
  <1>1. SmTypeInv'
    BY <1>0, SmNext DEF SmTypeInv, SmPlaces, SmIrqs
  <1>2. SmCpuInv'
    BY <1>0 DEF SmTypeInv, SmCpuInv, SmDepth, SmStackInv, SmOpen
  <1>3. SmStackInv'
    BY <1>0 DEF SmTypeInv, SmStackInv, Sm!InTrap
  <1>4. SmLockInv'
    BY <1>0 DEF SmTypeInv, SmStackInv, SmLockInv, SmHolds, SmHoldsTx, Sm!OwnLock
  <1>5. SmWakeInv'
    BY <1>0 DEF SmWakeInv, SmWaking
  <1>. QED  BY <1>1, <1>2, <1>3, <1>4, <1>5

(* The scheduler is back. *)
LEMMA SmBackKeeps ==
    ASSUME SmSizes, SmIInv, NEW c \in Sm!CPUs, Sm!Back(c)
    PROVE  SmIInv'
  <1>. USE DEF SmIInv, Sm!Back, Sm!In, Sm!pop_off, Sm!NextProc, Sm!GoOn, Sm!irqVars,
      Sm!threadVars, Sm!uartVars
  <1>0. 0 \notin Sm!CPUs /\ 0 \notin Sm!Procs
    BY SmZero
  <1>a. noff[c] \in Nat /\ noff[c] > 0
    BY <1>0 DEF SmCpuInv, SmDepth
  <1>b. noff[c] - 1 \in Nat
    BY <1>a
  <1>1. SmTypeInv'
    BY <1>0, <1>b, SmNext DEF SmTypeInv, SmPlaces, SmIrqs
  <1>2. SmCpuInv'
    BY <1>0 DEF SmTypeInv, SmCpuInv, SmDepth, SmOpen
  <1>3. SmStackInv'
    BY <1>0 DEF SmStackInv, Sm!InTrap
  <1>4. SmLockInv'
    BY <1>0 DEF SmTypeInv, SmLockInv, SmHolds, SmHoldsTx, Sm!OwnLock
  <1>5. SmWakeInv'
    BY <1>0 DEF SmWakeInv, SmWaking
  <1>. QED  BY <1>1, <1>2, <1>3, <1>4, <1>5

LEMMA SmInit == ASSUME SmSizes, Sm!Init PROVE SmIInv
  <1>0. 0 \notin Sm!CPUs /\ 0 \notin Sm!Procs /\ 1 \in Sm!Procs
    BY SmZero, SmNext
  <1>1. SmTypeInv
    BY <1>0 DEF Sm!Init, SmTypeInv, SmIrqs, SmPlaces
  <1>2. SmCpuInv
    BY <1>0 DEF Sm!Init, SmCpuInv, SmDepth
  <1>3. SmStackInv
    BY <1>0 DEF Sm!Init, SmStackInv, Sm!InTrap
  <1>4. SmLockInv
    BY <1>0 DEF Sm!Init, SmLockInv, SmHolds, SmHoldsTx
  <1>5. SmWakeInv
    BY <1>0 DEF Sm!Init, SmWakeInv, SmWaking
  <1>. QED  BY <1>1, <1>2, <1>3, <1>4, <1>5 DEF SmIInv

LEMMA SmStep == ASSUME SmSizes, SmIInv, [Sm!Next]_Sm!vars PROVE SmIInv'
  <1>1. CASE UNCHANGED Sm!vars
    <2>. USE <1>1 DEF Sm!vars, Sm!cpuVars, Sm!schedVars, Sm!irqVars, Sm!procVars, Sm!threadVars,
        Sm!uartVars, SmIInv
    <2>1. SmTypeInv'
      BY DEF SmTypeInv
    <2>2. SmCpuInv'
      BY DEF SmCpuInv, SmDepth, SmOpen
    <2>3. SmStackInv'
      BY DEF SmStackInv, Sm!InTrap
    <2>4. SmLockInv'
      BY DEF SmLockInv, SmHolds, SmHoldsTx, Sm!OwnLock
    <2>5. SmWakeInv'
      BY DEF SmWakeInv, SmWaking
    <2>. QED  BY <2>1, <2>2, <2>3, <2>4, <2>5
  <1>2. ASSUME NEW c \in Sm!CPUs, NEW p \in Sm!Procs, Sm!Thread(c, p) PROVE SmIInv'
    BY <1>2, SmForkretKeeps, SmToUserKeeps, SmPushOffKeeps, SmLockKeeps, SmTransmitKeeps,
       SmReleaseKeeps, SmSleepPushKeeps, SmSleepLockKeeps, SmSleepReleaseKeeps, SmSleepKeeps,
       SmAwakeKeeps, SmTimerKeeps, SmYieldPushKeeps, SmYieldLockKeeps, SmYieldKeeps,
       SmYieldBackKeeps, SmTrapReturnKeeps
       DEF Sm!Thread
  <1>3. ASSUME NEW c \in Sm!CPUs, Sm!Uartintr(c) PROVE SmIInv'
    BY <1>3, SmClaimKeeps, SmIrqPushKeeps, SmIrqLockKeeps, SmIrqBusyKeeps, SmIrqIdleKeeps,
       SmIrqWakeupKeeps, SmIrqReleaseKeeps, SmIrqReturnKeeps
       DEF Sm!Uartintr
  <1>4. ASSUME NEW c \in Sm!CPUs, Sm!Scheduler(c) PROVE SmIInv'
    BY <1>4, SmIntrOnKeeps, SmIntrOffKeeps, SmScanPushKeeps, SmSkipKeeps, SmDispatchKeeps,
       SmBackKeeps
       DEF Sm!Scheduler
  <1>5. CASE Sm!Sent \/ Sm!Received
    <2>. USE DEF Sm!Sent, Sm!Received, Sm!cpuVars, Sm!schedVars, Sm!irqVars, Sm!procVars,
        Sm!threadVars, SmIInv, SmTypeInv
    <2>1. SmTypeInv'
      BY <1>5
    <2>4. SmCpuInv'
      BY <1>5 DEF SmCpuInv, SmDepth, SmOpen
    <2>5. SmStackInv'
      BY <1>5 DEF SmStackInv, Sm!InTrap
    <2>2. SmLockInv'
      BY <1>5 DEF SmLockInv, SmHolds, SmHoldsTx, Sm!OwnLock
    <2>3. SmWakeInv'
      BY <1>5 DEF SmWakeInv, SmWaking
    <2>. QED  BY <2>1, <2>2, <2>3, <2>4, <2>5
  <1>. QED  BY <1>1, <1>2, <1>3, <1>4, <1>5 DEF Sm!Next

(* Who holds the lock of a process does not spin; who holds tx_lock may    *)
(* spin, but on the lock of a process.                                     *)
LEMMA SmHolders ==
    ASSUME SmSizes, SmIInv, NEW d \in Sm!CPUs
    PROVE  /\ (\E p \in Sm!Procs : p_lock[p] = d) => Sm!SpinsOn(d) = 0
           /\ tx_lock = d => Sm!SpinsOn(d) = 0 \/ \E p \in Sm!Procs : Sm!SpinsOn(d) = p_lock[p]
           /\ Sm!SpinsOn(d) = 0 \/ Sm!SpinsOn(d) = tx_lock \/ \E p \in Sm!Procs : Sm!SpinsOn(d) = p_lock[p]
  <1>. USE DEF SmIInv, SmTypeInv, SmCpuInv, SmOpen, SmIrqs, SmPlaces
  <1>0. 0 \notin Sm!CPUs /\ 0 \notin Sm!Procs
    BY SmZero
  <1>1. ASSUME NEW p \in Sm!Procs, p_lock[p] = d PROVE Sm!SpinsOn(d) = 0
    <2>1. SmHolds(d, p)
      BY <1>1 DEF SmLockInv
    <2>2. irq[d] = "none"
      BY <2>1, <1>0 DEF SmHolds, Sm!OwnLock
    <2>. QED  BY <2>1, <2>2, <1>0 DEF Sm!SpinsOn, SmHolds, Sm!OwnLock
  <1>2. ASSUME tx_lock = d
        PROVE  Sm!SpinsOn(d) = 0 \/ \E p \in Sm!Procs : Sm!SpinsOn(d) = p_lock[p]
    <2>1. SmHoldsTx(d)
      BY <1>2 DEF SmLockInv
    <2>. QED  BY <2>1, <1>0 DEF Sm!SpinsOn, SmHoldsTx
  <1>3. Sm!SpinsOn(d) = 0 \/ Sm!SpinsOn(d) = tx_lock \/ \E p \in Sm!Procs : Sm!SpinsOn(d) = p_lock[p]
    BY <1>0 DEF Sm!SpinsOn
  <1>. QED  BY <1>1, <1>2, <1>3

LEMMA SmSomeCpuGoesOn == ASSUME SmSizes, SmIInv PROVE Sm!SomeCpuGoesOn
  <1>0. 1 \in Sm!CPUs /\ 0 \notin Sm!CPUs
    BY SmZero DEF Sm!CPUs, SmSizes
  <1>1. SUFFICES ASSUME \A c \in Sm!CPUs : Sm!SpinsOn(c) # 0 PROVE FALSE
    BY DEF Sm!SomeCpuGoesOn
  <1>2. \A p \in Sm!Procs : p_lock[p] \notin Sm!CPUs
    BY <1>1, SmHolders
  <1>3. \A p \in Sm!Procs : p_lock[p] = 0
    BY <1>2 DEF SmIInv, SmTypeInv
  <1>4. \A c \in Sm!CPUs : Sm!SpinsOn(c) = tx_lock
    BY <1>1, <1>3, SmHolders
  <1>5. tx_lock \in Sm!CPUs
    BY <1>0, <1>1, <1>4 DEF SmIInv, SmTypeInv
  <1>. QED  BY <1>1, <1>3, <1>5, SmHolders

LEMMA SmEnough == ASSUME SmSizes, SmIInv PROVE Sm!Switching
  <1>. USE DEF SmIInv, SmTypeInv
  <1>0. 0 \notin Sm!CPUs /\ 0 \notin Sm!Procs
    BY SmZero
  <1>1. ASSUME NEW c \in Sm!CPUs PROVE Sm!SpinsOn(c) # c
    <2>1. CASE irq[c] # "none"
      <3>1. SmOpen(c)
        BY <2>1 DEF SmCpuInv
      <3>2. ASSUME NEW p \in Sm!Procs PROVE p_lock[p] # c
        <4>1. ~SmHolds(c, p)
          BY <3>1, <1>0 DEF SmHolds, Sm!OwnLock, SmOpen
        <4>. QED  BY <4>1 DEF SmLockInv
      <3>3. irq[c] = "lock" => tx_lock # c
        BY <3>1, <1>0 DEF SmLockInv, SmHoldsTx, SmOpen
      <3>. QED  BY <2>1, <3>2, <3>3, <1>0 DEF Sm!SpinsOn
    <2>2. CASE irq[c] = "none" /\ running[c] = 0
      BY <2>2, <1>0 DEF Sm!SpinsOn, SmLockInv, SmHolds
    <2>3. CASE irq[c] = "none" /\ running[c] # 0
      BY <2>3, <1>0 DEF Sm!SpinsOn, SmLockInv, SmHolds, SmHoldsTx, Sm!OwnLock
    <2>. QED  BY <2>1, <2>2, <2>3
  <1>2. ASSUME NEW c \in Sm!CPUs, Sm!Unlocks(c) PROVE noff[c] >= 1 /\ ~intr[c]
    BY <1>2, <1>0 DEF Sm!Unlocks, SmCpuInv, SmDepth, SmOpen
  <1>3. ASSUME NEW c \in Sm!CPUs
        PROVE  /\ running[c] = 0 /\ at[c] = "back" => p_lock[cpuK[c]] = c
               /\ irq[c] = "release" => tx_lock = c
    BY <1>0 DEF SmLockInv, SmHolds, SmHoldsTx
  <1>4. ASSUME NEW c \in Sm!CPUs, NEW p \in Sm!Procs, running[c] = p
        PROVE  /\ Sm!OwnLock(p) => p_lock[p] = c
               /\ smpPc[p] \in {"release", "sleep_release"} => tx_lock = c
               /\ smpPc[p] \in {"sleep", "yield_switch"} => noff[c] = 1 /\ ~intr[c]
    BY <1>4, <1>0 DEF SmLockInv, SmHolds, SmHoldsTx, SmCpuInv, SmDepth, SmOpen
  <1>5. Sm!NoPanic
    BY <1>1, <1>2, <1>3, <1>4 DEF Sm!NoPanic
  <1>6. Sm!OneStack
    BY DEF Sm!OneStack, SmStackInv
  <1>7. Sm!InterruptsKept
    <2>1. ASSUME NEW c \in Sm!CPUs, irq[c] # "none" PROVE ~intr[c]
      BY <2>1 DEF SmCpuInv
    <2>2. ASSUME NEW c \in Sm!CPUs, irq[c] = "none", NEW p \in Sm!Procs, running[c] = p
          PROVE  /\ smpPc[p] = "call" => intr[c] /\ noff[c] = 0
                 /\ Sm!InTrap(p) => ~intr[c]
      BY <2>2, <1>0 DEF SmCpuInv, SmDepth, SmOpen, Sm!InTrap
    <2>. QED  BY <2>1, <2>2 DEF Sm!InterruptsKept
  <1>8. Sm!WakeupDue
    BY DEF Sm!WakeupDue, SmWakeInv, SmWaking
  <1>. QED  BY <1>5, <1>6, <1>7, <1>8, SmSomeCpuGoesOn DEF Sm!Switching

LEMMA SmSwitching == ASSUME SmSizes PROVE Sm!Spec => []Sm!Switching
  <1>1. Sm!Init => SmIInv
    BY SmInit
  <1>2. SmIInv /\ [Sm!Next]_Sm!vars => SmIInv'
    BY SmStep
  <1>3. SmIInv => Sm!Switching
    BY SmEnough
  <1>. QED  BY <1>1, <1>2, <1>3, PTL DEF Sm!Spec

-----------------------------------------------------------------------------
(* Pipe, for any processes and ends, and any sizes of the ring and of its    *)
(* counters that fit.                                                      *)

PpSizes ==
    /\ PIPESIZE \in Nat \ {0}
    /\ PipeWrap \in Nat /\ PipeWrap > PIPESIZE /\ PipeWrap % PIPESIZE = 0
    /\ 0 \notin PipeProcs /\ PipeEnds \in [PipeProcs -> SUBSET {"r", "w"}]
    /\ MaxTransfer \in Nat

PpReading == {"empty?", "rest", "take"}
PpWriting == {"more?", "put"}

PpTypeInv ==
    /\ pipeData \in [0..(PIPESIZE - 1) -> 0..(PipeWrap - 1)]
    /\ nread \in 0..(PipeWrap - 1) /\ nwrite \in 0..(PipeWrap - 1)
    /\ readopen \in BOOLEAN /\ writeopen \in BOOLEAN
    /\ pipeLock \in PipeProcs \cup {0}
    /\ ends \in [PipeProcs -> SUBSET {"r", "w"}]
    /\ pipePc \in [PipeProcs -> PpReading \cup PpWriting \cup {"user", "r", "w", "rsleep", "wsleep"}]
    /\ todo \in [PipeProcs -> Nat]
    /\ pipeKilled \in [PipeProcs -> BOOLEAN]

(* The ring holds at most its size. *)
PpRingInv == Pp!Count <= PIPESIZE

(* Whoever is in a transfer has the lock. *)
PpLockInv == \A p \in PipeProcs : pipePc[p] \in PpReading \cup PpWriting <=> pipeLock = p

(* A read end in use is open. *)
PpEndsInv ==
    \A p \in PipeProcs :
        /\ pipePc[p] \in PpReading \cup {"r", "rsleep"} => "r" \in ends[p]
        /\ "r" \in ends[p] => readopen

(* What was tested with the lock held is still so. *)
PpTestedInv ==
    \A p \in PipeProcs :
        /\ pipePc[p] = "put" => readopen /\ todo[p] > 0
        /\ pipePc[p] = "rest" => Pp!Empty /\ writeopen

(* Who sleeps has a reason to, or the holder of the lock will wake it. *)
PpSleepInv ==
    \A p \in PipeProcs :
        /\ pipePc[p] = "wsleep" =>
                   readopen /\ (Pp!Full \/ \E q \in PipeProcs : pipePc[q] = "take")
        /\ pipePc[p] = "rsleep" =>
                   /\ writeopen
                   /\ \/ Pp!Empty
                      \/ \E q \in PipeProcs : pipeKilled[q]
                      \/ \E q \in PipeProcs : pipePc[q] \in PpWriting

PpIInv == PpTypeInv /\ PpRingInv /\ PpLockInv /\ PpEndsInv /\ PpTestedInv /\ PpSleepInv

LEMMA PpDivMod ==
    ASSUME NEW a \in Int, NEW b \in Nat \ {0}
    PROVE  a \div b \in Int /\ (a % b) \in 0..(b - 1) /\ a = b * (a \div b) + (a % b)
  <1>1. a \div b \in Int
    OBVIOUS
  <1>2. (a % b) \in 0..(b - 1)
    OBVIOUS
  <1>3. a = b * (a \div b) + (a % b)
    OBVIOUS
  <1>. QED  BY <1>1, <1>2, <1>3

(* A remainder is the only one. *)
LEMMA PpModIs ==
    ASSUME NEW b \in Nat \ {0}, NEW q \in Int, NEW r \in 0..(b - 1)
    PROVE  (b * q + r) % b = r
  <1>. DEFINE a == b * q + r
  <1>. DEFINE c == a \div b
  <1>. DEFINE s == a % b
  <1>0. a \in Int
    OBVIOUS
  <1>1. c \in Int /\ s \in 0..(b - 1) /\ a = b * c + s
    BY <1>0, PpDivMod
  <1>2. b * (q - c) = s - r
    BY <1>1
  <1>. HIDE DEF c, s
  <1>3. q = c
    <2>1. q - c >= 1 => b * (q - c) >= b
      BY <1>1
    <2>2. q - c <= -1 => b * (q - c) <= -b
      BY <1>1
    <2>. QED  BY <1>1, <1>2, <2>1, <2>2
  <1>4. s = r
    BY <1>1, <1>2, <1>3
  <1>. QED  BY <1>4 DEF s

LEMMA PpModSmall ==
    ASSUME NEW b \in Nat \ {0}, NEW a \in Int
    PROVE  /\ 0 <= a /\ a < b => a % b = a
           /\ b <= a /\ a - b < b => a % b = a - b
           /\ 0 <= a + b /\ a < 0 => a % b = a + b
  <1>1. 0 <= a /\ a < b => a % b = a
    BY PpModIs, b * 0 + a = a
  <1>2. b <= a /\ a - b < b => a % b = a - b
    BY PpModIs, b * 1 + (a - b) = a
  <1>3. 0 <= a + b /\ a < 0 => a % b = a + b
    BY PpModIs, b * (-1) + (a + b) = a
  <1>. QED  BY <1>1, <1>2, <1>3

LEMMA PpModDiff ==
    ASSUME NEW w \in Nat \ {0}, NEW a \in 0..(w - 1), NEW b \in 0..(w - 1)
    PROVE  /\ (a - b) % w = IF a >= b THEN a - b ELSE a - b + w
           /\ (a + b) % w = IF a + b < w THEN a + b ELSE a + b - w
  <1>1. PICK d \in Int : d = a - b
    OBVIOUS
  <1>2. d % w = IF a >= b THEN d ELSE d + w
    <2>1. CASE d >= 0
      BY <1>1, <2>1, PpModIs, w * 0 + d = d
    <2>2. CASE d < 0
      BY <1>1, <2>2, PpModIs, w * (-1) + (d + w) = d
    <2>. QED  BY <2>1, <2>2, <1>1
  <1>3. PICK e \in Int : e = a + b
    OBVIOUS
  <1>4. e % w = IF e < w THEN e ELSE e - w
    <2>1. CASE e < w
      BY <1>3, <2>1, PpModIs, w * 0 + e = e
    <2>2. CASE e >= w
      BY <1>3, <2>2, PpModIs, w * 1 + (e - w) = e
    <2>. QED  BY <2>1, <2>2, <1>3
  <1>. QED  BY <1>1, <1>2, <1>3, <1>4

(* What is a multiple of b away has the same remainder. *)
LEMMA PpModShift ==
    ASSUME NEW b \in Nat \ {0}, NEW w \in Nat, w % b = 0, NEW a \in Int
    PROVE  (a + w) % b = a % b
  <1>1. w = b * (w \div b) /\ (w \div b) \in Int
    BY PpDivMod
  <1>2. (a \div b) \in Int /\ (a % b) \in 0..(b - 1) /\ a = b * (a \div b) + (a % b)
    BY PpDivMod
  <1>3. a + w = b * ((a \div b) + (w \div b)) + (a % b)
    BY <1>1, <1>2
  <1>4. (a \div b) + (w \div b) \in Int
    BY <1>1, <1>2
  <1>5. (b * ((a \div b) + (w \div b)) + (a % b)) % b = a % b
    BY <1>2, <1>4, PpModIs
  <1>. QED  BY <1>3, <1>5

-----------------------------------------------------------------------------
(* Where the counters are to each other. *)
PpDist == IF nwrite >= nread THEN nwrite - nread ELSE nwrite - nread + PipeWrap

LEMMA PpCounters ==
    ASSUME PpSizes, PpTypeInv
    PROVE  /\ Pp!Count = PpDist
           /\ PpDist \in 0..(PipeWrap - 1)
           /\ Pp!Empty <=> PpDist = 0
           /\ Pp!Full <=> PpDist = PIPESIZE
           /\ \A a \in 0..(PipeWrap - 1) : (a + 1) % PipeWrap = IF a = PipeWrap - 1 THEN 0 ELSE a + 1
  <1>. USE DEF PpDist
  <1>0. nread \in 0..(PipeWrap - 1) /\ nwrite \in 0..(PipeWrap - 1) /\ PipeWrap \in Nat \ {0}
    BY DEF PpSizes, PpTypeInv
  <1>p. PIPESIZE \in 1..(PipeWrap - 1)
    BY DEF PpSizes
  <1>1. Pp!Count = PpDist
    BY <1>0, PpModDiff DEF Pp!Count
  <1>2. (nread + PIPESIZE) % PipeWrap =
            IF nread + PIPESIZE < PipeWrap THEN nread + PIPESIZE ELSE nread + PIPESIZE - PipeWrap
    BY <1>0, <1>p, PpModDiff
  <1>3. \A a \in 0..(PipeWrap - 1) : (a + 1) % PipeWrap = IF a = PipeWrap - 1 THEN 0 ELSE a + 1
    BY <1>0, PpModSmall
  <1>. QED  BY <1>0, <1>p, <1>1, <1>2, <1>3 DEF Pp!Full, Pp!Empty

LEMMA PpSlots ==
    ASSUME PpSizes, NEW a \in Int
    PROVE  /\ (a % PIPESIZE) \in 0..(PIPESIZE - 1)
           /\ (a + PipeWrap) % PIPESIZE = a % PIPESIZE
  BY PpModShift, PpDivMod DEF PpSizes

(* Two bytes of the ring, less than its size apart, have two slots. *)
LEMMA PpSlotsDiffer ==
    ASSUME PpSizes, NEW a \in Int, NEW b \in Int, a < b, b - a < PIPESIZE
    PROVE  (a % PIPESIZE) # (b % PIPESIZE)
  <1>1. SUFFICES ASSUME (a % PIPESIZE) = (b % PIPESIZE) PROVE FALSE
    OBVIOUS
  <1>2. PICK c \in Int, d \in Int, r \in 0..(PIPESIZE - 1) :
            a = PIPESIZE * c + r /\ b = PIPESIZE * d + r
    <2>1. /\ (a \div PIPESIZE) \in Int /\ a = PIPESIZE * (a \div PIPESIZE) + (a % PIPESIZE)
          /\ (b \div PIPESIZE) \in Int /\ b = PIPESIZE * (b \div PIPESIZE) + (b % PIPESIZE)
          /\ (a % PIPESIZE) \in 0..(PIPESIZE - 1)
      BY PpDivMod DEF PpSizes
    <2>. QED  BY <2>1, <1>1
  <1>3. PIPESIZE * (d - c) = b - a /\ PIPESIZE \in Nat \ {0}
    BY <1>2 DEF PpSizes
  <1>4. d - c >= 1 => PIPESIZE * (d - c) >= PIPESIZE
    BY <1>3
  <1>5. d - c <= 0 => PIPESIZE * (d - c) <= 0
    BY <1>3
  <1>. QED  BY <1>3, <1>4, <1>5

(* Put and Take make the queue one longer and one shorter. *)
LEMMA PpMoves ==
    ASSUME PpSizes, PpTypeInv, PpTypeInv', PpRingInv
    PROVE  /\ nwrite' = (nwrite + 1) % PipeWrap /\ nread' = nread /\ ~Pp!Full =>
                  Pp!Count < PIPESIZE /\ Pp!Count' = Pp!Count + 1
           /\ nread' = (nread + 1) % PipeWrap /\ nwrite' = nwrite /\ ~Pp!Empty =>
                  Pp!Count > 0 /\ Pp!Count' = Pp!Count - 1
  <1>1. /\ Pp!Count = PpDist /\ PpDist \in 0..(PipeWrap - 1)
        /\ Pp!Empty <=> PpDist = 0
        /\ Pp!Full <=> PpDist = PIPESIZE
        /\ \A a \in 0..(PipeWrap - 1) : (a + 1) % PipeWrap = IF a = PipeWrap - 1 THEN 0 ELSE a + 1
    BY PpCounters
  <1>2. Pp!Count' = PpDist'
    <2>1. nread' \in 0..(PipeWrap - 1) /\ nwrite' \in 0..(PipeWrap - 1) /\ PipeWrap \in Nat \ {0}
      BY DEF PpTypeInv, PpSizes
    <2>. QED  BY <2>1, PpModSmall DEF Pp!Count, PpDist
  <1>3. nread \in 0..(PipeWrap - 1) /\ nwrite \in 0..(PipeWrap - 1)
    BY DEF PpTypeInv
  <1>. QED  BY <1>1, <1>2, <1>3 DEF PpDist, PpRingInv, PpSizes

-----------------------------------------------------------------------------
LEMMA PpInit == ASSUME PpSizes PROVE Pp!Init => PpIInv
  <1>. USE DEF PpSizes, Pp!Init, PpTypeInv, PpReading, PpWriting
  <1>1. Pp!Init => PpTypeInv
    OBVIOUS
  <1>2. Pp!Init => PpRingInv
    BY <1>1, PpCounters DEF PpRingInv, PpDist
  <1>. QED  BY <1>1, <1>2 DEF PpIInv, PpLockInv, PpEndsInv, PpTestedInv, PpSleepInv

(* Only Put and Take move the counters. *)
LEMMA PpRingSame ==
    ASSUME PpRingInv, UNCHANGED <<nread, nwrite>>
    PROVE  PpRingInv'
  BY DEF PpRingInv, Pp!Count

LEMMA PpCallKeeps ==
    ASSUME PpSizes, PpIInv, NEW p \in PipeProcs, NEW end \in {"r", "w"}, NEW n \in 1..MaxTransfer, Pp!Call(p, end, n)
    PROVE  PpIInv'
  <1>. USE DEF Pp!Call, Pp!In, Pp!Inside, PpReading, PpWriting
  <1>1. PpTypeInv'
    BY DEF PpIInv, PpTypeInv, PpSizes, PpTestedInv
  <1>2. PpRingInv'
    BY PpRingSame DEF PpIInv
  <1>3. PpLockInv'
    BY DEF PpIInv, PpTypeInv, PpLockInv, PpSizes
  <1>4. PpEndsInv'
    BY DEF PpIInv, PpTypeInv, PpEndsInv
  <1>5. PpTestedInv'
    BY DEF PpIInv, PpTypeInv, PpTestedInv, PpLockInv, Pp!Empty
  <1>6. PpSleepInv'
    BY DEF PpIInv, PpTypeInv, PpSleepInv, PpTestedInv, PpLockInv, PpEndsInv, Pp!Full,
        Pp!Empty
  <1>. QED  BY <1>1, <1>2, <1>3, <1>4, <1>5, <1>6 DEF PpIInv

LEMMA PpReacquireKeeps ==
    ASSUME PpSizes, PpIInv, NEW p \in PipeProcs, Pp!Reacquire(p)
    PROVE  PpIInv'
  <1>. USE DEF Pp!Reacquire, Pp!In, Pp!Inside, PpReading, PpWriting
  <1>1. PpTypeInv'
    BY DEF PpIInv, PpTypeInv, PpSizes, PpTestedInv
  <1>2. PpRingInv'
    BY PpRingSame DEF PpIInv
  <1>3. PpLockInv'
    BY DEF PpIInv, PpTypeInv, PpLockInv, PpSizes
  <1>4. PpEndsInv'
    BY DEF PpIInv, PpTypeInv, PpEndsInv
  <1>5. PpTestedInv'
    BY DEF PpIInv, PpTypeInv, PpTestedInv, PpLockInv, Pp!Empty
  <1>6. PpSleepInv'
    BY DEF PpIInv, PpTypeInv, PpSleepInv, PpTestedInv, PpLockInv, PpEndsInv, Pp!Full,
        Pp!Empty
  <1>. QED  BY <1>1, <1>2, <1>3, <1>4, <1>5, <1>6 DEF PpIInv

LEMMA PpNoReaderKeeps ==
    ASSUME PpSizes, PpIInv, NEW p \in PipeProcs, Pp!NoReader(p)
    PROVE  PpIInv'
  <1>. USE DEF Pp!NoReader, Pp!In, Pp!Leave, PpReading, PpWriting
  <1>1. PpTypeInv'
    BY DEF PpIInv, PpTypeInv, PpSizes, PpTestedInv
  <1>2. PpRingInv'
    BY PpRingSame DEF PpIInv
  <1>3. PpLockInv'
    BY DEF PpIInv, PpTypeInv, PpLockInv, PpSizes
  <1>4. PpEndsInv'
    BY DEF PpIInv, PpTypeInv, PpEndsInv
  <1>5. PpTestedInv'
    BY DEF PpIInv, PpTypeInv, PpTestedInv, PpLockInv, Pp!Empty
  <1>6. PpSleepInv'
    BY DEF PpIInv, PpTypeInv, PpSleepInv, PpTestedInv, PpLockInv, PpEndsInv, Pp!Full,
        Pp!Empty
  <1>. QED  BY <1>1, <1>2, <1>3, <1>4, <1>5, <1>6 DEF PpIInv

LEMMA PpMayWriteKeeps ==
    ASSUME PpSizes, PpIInv, NEW p \in PipeProcs, Pp!MayWrite(p)
    PROVE  PpIInv'
  <1>. USE DEF Pp!MayWrite, Pp!In, PpReading, PpWriting
  <1>1. PpTypeInv'
    BY DEF PpIInv, PpTypeInv, PpSizes, PpTestedInv
  <1>2. PpRingInv'
    BY PpRingSame DEF PpIInv
  <1>3. PpLockInv'
    BY DEF PpIInv, PpTypeInv, PpLockInv, PpSizes
  <1>4. PpEndsInv'
    BY DEF PpIInv, PpTypeInv, PpEndsInv
  <1>5. PpTestedInv'
    BY DEF PpIInv, PpTypeInv, PpTestedInv, PpLockInv, Pp!Empty
  <1>6. PpSleepInv'
    BY DEF PpIInv, PpTypeInv, PpSleepInv, PpTestedInv, PpLockInv, PpEndsInv, Pp!Full,
        Pp!Empty
  <1>. QED  BY <1>1, <1>2, <1>3, <1>4, <1>5, <1>6 DEF PpIInv

LEMMA PpWaitForRoomKeeps ==
    ASSUME PpSizes, PpIInv, NEW p \in PipeProcs, Pp!WaitForRoom(p)
    PROVE  PpIInv'
  <1>. USE DEF Pp!WaitForRoom, Pp!In, Pp!SleepOn, Pp!WakeReaders, Pp!Woken, PpReading,
      PpWriting
  <1>1. PpTypeInv'
    BY DEF PpIInv, PpTypeInv, PpSizes, PpTestedInv
  <1>2. PpRingInv'
    BY PpRingSame DEF PpIInv
  <1>3. PpLockInv'
    BY DEF PpIInv, PpTypeInv, PpLockInv, PpSizes
  <1>4. PpEndsInv'
    BY DEF PpIInv, PpTypeInv, PpEndsInv
  <1>5. PpTestedInv'
    BY DEF PpIInv, PpTypeInv, PpTestedInv, PpLockInv, Pp!Empty
  <1>6. PpSleepInv'
    BY DEF PpIInv, PpTypeInv, PpSleepInv, PpTestedInv, PpLockInv, PpEndsInv, Pp!Full,
        Pp!Empty
  <1>. QED  BY <1>1, <1>2, <1>3, <1>4, <1>5, <1>6 DEF PpIInv

LEMMA PpPutKeeps ==
    ASSUME PpSizes, PpIInv, NEW p \in PipeProcs, Pp!Put(p)
    PROVE  PpIInv'
  <1>. USE DEF Pp!Put, Pp!In, PpReading, PpWriting
  <1>1. PpTypeInv'
    BY DEF PpIInv, PpTypeInv, PpSizes, PpTestedInv
  <1>2. PpRingInv'
    <2>1. ~Pp!Full /\ nwrite' = (nwrite + 1) % PipeWrap /\ nread' = nread
      OBVIOUS
    <2>2. Pp!Count \in Int
      BY PpCounters DEF PpIInv
    <2>3. Pp!Count < PIPESIZE /\ Pp!Count' = Pp!Count + 1
      BY <1>1, <2>1, PpMoves DEF PpIInv
    <2>. QED  BY <2>2, <2>3 DEF PpRingInv, PpSizes
  <1>3. PpLockInv'
    BY DEF PpIInv, PpTypeInv, PpLockInv, PpSizes
  <1>4. PpEndsInv'
    BY DEF PpIInv, PpTypeInv, PpEndsInv
  <1>5. PpTestedInv'
    BY DEF PpIInv, PpTypeInv, PpTestedInv, PpLockInv, Pp!Empty
  <1>6. PpSleepInv'
    BY DEF PpIInv, PpTypeInv, PpSleepInv, PpTestedInv, PpLockInv, PpEndsInv, Pp!Full,
        Pp!Empty
  <1>. QED  BY <1>1, <1>2, <1>3, <1>4, <1>5, <1>6 DEF PpIInv

LEMMA PpWrittenKeeps ==
    ASSUME PpSizes, PpIInv, NEW p \in PipeProcs, Pp!Written(p)
    PROVE  PpIInv'
  <1>. USE DEF Pp!Written, Pp!In, Pp!Leave, Pp!WakeReaders, Pp!Woken, PpReading, PpWriting
  <1>1. PpTypeInv'
    BY DEF PpIInv, PpTypeInv, PpSizes, PpTestedInv
  <1>2. PpRingInv'
    BY PpRingSame DEF PpIInv
  <1>3. PpLockInv'
    BY DEF PpIInv, PpTypeInv, PpLockInv, PpSizes
  <1>4. PpEndsInv'
    BY DEF PpIInv, PpTypeInv, PpEndsInv
  <1>5. PpTestedInv'
    BY DEF PpIInv, PpTypeInv, PpTestedInv, PpLockInv, Pp!Empty
  <1>6. PpSleepInv'
    BY DEF PpIInv, PpTypeInv, PpSleepInv, PpTestedInv, PpLockInv, PpEndsInv, Pp!Full,
        Pp!Empty
  <1>. QED  BY <1>1, <1>2, <1>3, <1>4, <1>5, <1>6 DEF PpIInv

LEMMA PpGiveUpKeeps ==
    ASSUME PpSizes, PpIInv, NEW p \in PipeProcs, Pp!GiveUp(p)
    PROVE  PpIInv'
  <1>. USE DEF Pp!GiveUp, Pp!In, Pp!NothingYet, Pp!Leave, PpReading, PpWriting
  <1>1. PpTypeInv'
    BY DEF PpIInv, PpTypeInv, PpSizes, PpTestedInv
  <1>2. PpRingInv'
    BY PpRingSame DEF PpIInv
  <1>3. PpLockInv'
    BY DEF PpIInv, PpTypeInv, PpLockInv, PpSizes
  <1>4. PpEndsInv'
    BY DEF PpIInv, PpTypeInv, PpEndsInv
  <1>5. PpTestedInv'
    BY DEF PpIInv, PpTypeInv, PpTestedInv, PpLockInv, Pp!Empty
  <1>6. PpSleepInv'
    BY DEF PpIInv, PpTypeInv, PpSleepInv, PpTestedInv, PpLockInv, PpEndsInv, Pp!Full,
        Pp!Empty
  <1>. QED  BY <1>1, <1>2, <1>3, <1>4, <1>5, <1>6 DEF PpIInv

LEMMA PpWillSleepKeeps ==
    ASSUME PpSizes, PpIInv, NEW p \in PipeProcs, Pp!WillSleep(p)
    PROVE  PpIInv'
  <1>. USE DEF Pp!WillSleep, Pp!In, Pp!NothingYet, PpReading, PpWriting
  <1>1. PpTypeInv'
    BY DEF PpIInv, PpTypeInv, PpSizes, PpTestedInv
  <1>2. PpRingInv'
    BY PpRingSame DEF PpIInv
  <1>3. PpLockInv'
    BY DEF PpIInv, PpTypeInv, PpLockInv, PpSizes
  <1>4. PpEndsInv'
    BY DEF PpIInv, PpTypeInv, PpEndsInv
  <1>5. PpTestedInv'
    BY DEF PpIInv, PpTypeInv, PpTestedInv, PpLockInv, Pp!Empty
  <1>6. PpSleepInv'
    BY DEF PpIInv, PpTypeInv, PpSleepInv, PpTestedInv, PpLockInv, PpEndsInv, Pp!Full,
        Pp!Empty
  <1>. QED  BY <1>1, <1>2, <1>3, <1>4, <1>5, <1>6 DEF PpIInv

LEMMA PpWaitForBytesKeeps ==
    ASSUME PpSizes, PpIInv, NEW p \in PipeProcs, Pp!WaitForBytes(p)
    PROVE  PpIInv'
  <1>. USE DEF Pp!WaitForBytes, Pp!In, Pp!SleepOn, PpReading, PpWriting
  <1>1. PpTypeInv'
    BY DEF PpIInv, PpTypeInv, PpSizes, PpTestedInv
  <1>2. PpRingInv'
    BY PpRingSame DEF PpIInv
  <1>3. PpLockInv'
    BY DEF PpIInv, PpTypeInv, PpLockInv, PpSizes
  <1>4. PpEndsInv'
    BY DEF PpIInv, PpTypeInv, PpEndsInv
  <1>5. PpTestedInv'
    BY DEF PpIInv, PpTypeInv, PpTestedInv, PpLockInv, Pp!Empty
  <1>6. PpSleepInv'
    BY DEF PpIInv, PpTypeInv, PpSleepInv, PpTestedInv, PpLockInv, PpEndsInv, Pp!Full,
        Pp!Empty
  <1>. QED  BY <1>1, <1>2, <1>3, <1>4, <1>5, <1>6 DEF PpIInv

LEMMA PpMayReadKeeps ==
    ASSUME PpSizes, PpIInv, NEW p \in PipeProcs, Pp!MayRead(p)
    PROVE  PpIInv'
  <1>. USE DEF Pp!MayRead, Pp!In, PpReading, PpWriting
  <1>1. PpTypeInv'
    BY DEF PpIInv, PpTypeInv, PpSizes, PpTestedInv
  <1>2. PpRingInv'
    BY PpRingSame DEF PpIInv
  <1>3. PpLockInv'
    BY DEF PpIInv, PpTypeInv, PpLockInv, PpSizes
  <1>4. PpEndsInv'
    BY DEF PpIInv, PpTypeInv, PpEndsInv
  <1>5. PpTestedInv'
    BY DEF PpIInv, PpTypeInv, PpTestedInv, PpLockInv, Pp!Empty
  <1>6. PpSleepInv'
    BY DEF PpIInv, PpTypeInv, PpSleepInv, PpTestedInv, PpLockInv, PpEndsInv, Pp!Full,
        Pp!Empty
  <1>. QED  BY <1>1, <1>2, <1>3, <1>4, <1>5, <1>6 DEF PpIInv

LEMMA PpTakeKeeps ==
    ASSUME PpSizes, PpIInv, NEW p \in PipeProcs, Pp!Take(p)
    PROVE  PpIInv'
  <1>. USE DEF Pp!Take, Pp!In, PpReading, PpWriting
  <1>1. PpTypeInv'
    <2>1. nread \in Nat /\ PipeWrap \in Nat \ {0}
      BY DEF PpIInv, PpTypeInv, PpSizes
    <2>2. (nread + 1) % PipeWrap \in 0..(PipeWrap - 1)
      BY <2>1
    <2>3. todo[p] \in Nat /\ todo[p] > 0
      BY DEF PpIInv, PpTypeInv
    <2>4. todo[p] - 1 \in Nat /\ 0 \in Nat
      BY <2>3
    <2>5. todo' \in [PipeProcs -> Nat]
      BY <2>4 DEF PpIInv, PpTypeInv
    <2>6. nread' \in 0..(PipeWrap - 1)
      BY <2>2
    <2>. QED  BY <2>5, <2>6 DEF PpIInv, PpTypeInv
  <1>2. PpRingInv'
    <2>1. ~Pp!Empty /\ nread' = (nread + 1) % PipeWrap /\ nwrite' = nwrite
      OBVIOUS
    <2>2. Pp!Count \in Int
      BY PpCounters DEF PpIInv
    <2>3. Pp!Count' = Pp!Count - 1
      BY <1>1, <2>1, PpMoves DEF PpIInv
    <2>. QED  BY <2>2, <2>3 DEF PpRingInv, PpIInv, PpSizes
  <1>3. PpLockInv'
    BY DEF PpIInv, PpTypeInv, PpLockInv, PpSizes
  <1>4. PpEndsInv'
    BY DEF PpIInv, PpTypeInv, PpEndsInv
  <1>5. PpTestedInv'
    BY DEF PpIInv, PpTypeInv, PpTestedInv, PpLockInv, Pp!Empty
  <1>6. PpSleepInv'
    BY DEF PpIInv, PpTypeInv, PpSleepInv, PpTestedInv, PpLockInv, PpEndsInv, Pp!Full,
        Pp!Empty
  <1>. QED  BY <1>1, <1>2, <1>3, <1>4, <1>5, <1>6 DEF PpIInv

LEMMA PpReadDoneKeeps ==
    ASSUME PpSizes, PpIInv, NEW p \in PipeProcs, Pp!ReadDone(p)
    PROVE  PpIInv'
  <1>. USE DEF Pp!ReadDone, Pp!In, Pp!Leave, Pp!WakeWriters, Pp!Woken, PpReading, PpWriting
  <1>1. PpTypeInv'
    BY DEF PpIInv, PpTypeInv, PpSizes, PpTestedInv
  <1>2. PpRingInv'
    BY PpRingSame DEF PpIInv
  <1>3. PpLockInv'
    BY DEF PpIInv, PpTypeInv, PpLockInv, PpSizes
  <1>4. PpEndsInv'
    BY DEF PpIInv, PpTypeInv, PpEndsInv
  <1>5. PpTestedInv'
    BY DEF PpIInv, PpTypeInv, PpTestedInv, PpLockInv, Pp!Empty
  <1>6. PpSleepInv'
    BY DEF PpIInv, PpTypeInv, PpSleepInv, PpTestedInv, PpLockInv, PpEndsInv, Pp!Full,
        Pp!Empty
  <1>. QED  BY <1>1, <1>2, <1>3, <1>4, <1>5, <1>6 DEF PpIInv

LEMMA PpCloseKeeps ==
    ASSUME PpSizes, PpIInv, NEW p \in PipeProcs, NEW end \in {"r", "w"}, Pp!Close(p, end)
    PROVE  PpIInv'
  <1>. USE DEF Pp!Close, Pp!LastTo, Pp!WakeReaders, Pp!WakeWriters, Pp!Woken, PpReading,
      PpWriting
  <1>0. \A q \in PipeProcs : pipePc[q] \notin PpReading \cup PpWriting
    BY DEF PpIInv, PpLockInv, PpSizes
  <1>1. PpTypeInv'
    BY DEF PpIInv, PpTypeInv
  <1>2. PpRingInv'
    BY PpRingSame DEF PpIInv
  <1>3. PpLockInv'
    <2>1. pipeLock' = 0 /\ 0 \notin PipeProcs
      BY DEF PpSizes
    <2>2. \A q \in PipeProcs : pipePc'[q] \notin PpReading \cup PpWriting
      BY <1>0 DEF PpIInv, PpTypeInv
    <2>. QED  BY <2>1, <2>2 DEF PpLockInv
  <1>4. PpEndsInv'
    <2>1. ends \in [PipeProcs -> SUBSET {"r", "w"}] /\ pipePc[p] = "user"
      BY DEF PpIInv, PpTypeInv
    <2>2. \A q \in PipeProcs : /\ "r" \in ends'[q] => "r" \in ends[q]
                             /\ q # p => ends'[q] = ends[q]
      BY <2>1
    <2>3. /\ pipePc'[p] = "user"
          /\ \A q \in PipeProcs :
               pipePc'[q] \in PpReading \cup {"r", "rsleep"} =>
                 pipePc[q] \in PpReading \cup {"r", "rsleep"}
      BY DEF PpIInv, PpTypeInv
    <2>4. ASSUME NEW q \in PipeProcs, "r" \in ends'[q] PROVE readopen'
      <3>1. CASE end = "r" /\ Pp!LastTo(p, end)
        <4>1. q = p
          BY <2>2, <2>4, <3>1 DEF Pp!LastTo
        <4>. QED  BY <2>1, <2>4, <3>1, <4>1
      <3>2. CASE ~(end = "r" /\ Pp!LastTo(p, end))
        <4>1. readopen' = readopen
          BY <3>2 DEF Pp!LastTo
        <4>. QED  BY <2>2, <2>4, <4>1 DEF PpIInv, PpEndsInv
      <3>. QED  BY <3>1, <3>2
    <2>5. ASSUME NEW q \in PipeProcs, pipePc'[q] \in PpReading \cup {"r", "rsleep"}
          PROVE  "r" \in ends'[q]
      <3>1. q # p
        BY <2>3, <2>5
      <3>2. "r" \in ends[q]
        BY <2>3, <2>5 DEF PpIInv, PpEndsInv
      <3>. QED  BY <2>2, <3>1, <3>2
    <2>. QED  BY <2>4, <2>5 DEF PpEndsInv
  <1>5. PpTestedInv'
    BY <1>0 DEF PpIInv, PpTypeInv, PpTestedInv
  <1>6. PpSleepInv'
    <2>1. \A q \in PipeProcs : pipePc[q] = "wsleep" => readopen /\ Pp!Full
      BY <1>0 DEF PpIInv, PpSleepInv
    <2>2. \A q \in PipeProcs : pipePc[q] = "rsleep" => writeopen /\ (Pp!Empty \/ \E r \in PipeProcs : pipeKilled[r])
      BY <1>0 DEF PpIInv, PpSleepInv
    <2>3. \A q \in PipeProcs :
              /\ pipePc'[q] = "wsleep" => pipePc[q] = "wsleep" /\ readopen' = readopen
              /\ pipePc'[q] = "rsleep" => pipePc[q] = "rsleep" /\ writeopen' = writeopen
      BY DEF PpIInv, PpTypeInv
    <2>4. Pp!Full' = Pp!Full /\ Pp!Empty' = Pp!Empty /\ pipeKilled' = pipeKilled
      BY DEF Pp!Full, Pp!Empty
    <2>. QED  BY <2>1, <2>2, <2>3, <2>4 DEF PpSleepInv
  <1>. QED  BY <1>1, <1>2, <1>3, <1>4, <1>5, <1>6 DEF PpIInv

LEMMA PpKillKeeps ==
    ASSUME PpSizes, PpIInv, NEW p \in PipeProcs, Pp!Kill(p)
    PROVE  PpIInv'
  <1>. USE DEF Pp!Kill, Pp!In, PpReading, PpWriting
  <1>1. PpTypeInv'
    BY DEF PpIInv, PpTypeInv, PpSizes, PpTestedInv
  <1>2. PpRingInv'
    BY PpRingSame DEF PpIInv
  <1>3. PpLockInv'
    BY DEF PpIInv, PpTypeInv, PpLockInv, PpSizes
  <1>4. PpEndsInv'
    BY DEF PpIInv, PpTypeInv, PpEndsInv
  <1>5. PpTestedInv'
    BY DEF PpIInv, PpTypeInv, PpTestedInv, PpLockInv, Pp!Empty
  <1>6. PpSleepInv'
    BY DEF PpIInv, PpTypeInv, PpSleepInv, PpTestedInv, PpLockInv, PpEndsInv, Pp!Full,
        Pp!Empty
  <1>. QED  BY <1>1, <1>2, <1>3, <1>4, <1>5, <1>6 DEF PpIInv

LEMMA PpStep == ASSUME PpSizes PROVE PpIInv /\ [Pp!Next]_Pp!vars => PpIInv'
  <1>1. ASSUME PpIInv, Pp!Next PROVE PpIInv'
    <2>1. PICK p \in PipeProcs :
              \/ Pp!Step(p) \/ Pp!Kill(p)
              \/ \E end \in {"r", "w"} : Pp!Close(p, end) \/ \E n \in 1..MaxTransfer : Pp!Call(p, end, n)
      BY <1>1 DEF Pp!Next
    <2>2. CASE Pp!Step(p)
      BY <1>1, <2>2, PpReacquireKeeps, PpNoReaderKeeps, PpMayWriteKeeps, PpWaitForRoomKeeps,
         PpPutKeeps, PpWrittenKeeps, PpGiveUpKeeps, PpWillSleepKeeps, PpWaitForBytesKeeps,
         PpMayReadKeeps, PpTakeKeeps, PpReadDoneKeeps
         DEF Pp!Step
    <2>. QED  BY <1>1, <2>1, <2>2, PpKillKeeps, PpCloseKeeps, PpCallKeeps
  <1>2. ASSUME PpIInv, UNCHANGED Pp!vars PROVE PpIInv'
    <2>1. PpTypeInv' /\ PpRingInv'
      BY <1>2 DEF PpIInv, PpTypeInv, PpRingInv, Pp!Count, Pp!vars
    <2>2. PpLockInv' /\ PpEndsInv'
      BY <1>2 DEF PpIInv, PpLockInv, PpEndsInv, Pp!vars
    <2>3. PpTestedInv' /\ PpSleepInv'
      BY <1>2 DEF PpIInv, PpTestedInv, PpSleepInv, Pp!Full, Pp!Empty, Pp!vars
    <2>. QED  BY <2>1, <2>2, <2>3 DEF PpIInv
  <1>. QED  BY <1>1, <1>2

-----------------------------------------------------------------------------
(* What the ring holds, byte by byte. *)
LEMMA PpQueue ==
    ASSUME PpSizes, PpIInv
    PROVE  /\ Pp!Count \in 0..PIPESIZE
           /\ Pp!queue \in Seq(0..(PipeWrap - 1)) /\ Len(Pp!queue) = Pp!Count
           /\ \A j \in 1..Pp!Count : Pp!queue[j] = pipeData[(nread + j - 1) % PIPESIZE]
           /\ \A j \in 1..Pp!Count : Pp!queue[j] \in 0..(PipeWrap - 1)
           /\ \/ nwrite = nread + Pp!Count
              \/ nwrite + PipeWrap = nread + Pp!Count
  <1>1. Pp!Count = PpDist /\ PpDist \in 0..(PipeWrap - 1) /\ Pp!Count \in 0..PIPESIZE
    <2>1. Pp!Count = PpDist /\ PpDist \in 0..(PipeWrap - 1)
      BY PpCounters DEF PpIInv
    <2>. QED  BY <2>1 DEF PpIInv, PpRingInv, PpSizes
  <1>2. ASSUME NEW j \in 1..Pp!Count PROVE pipeData[(nread + j - 1) % PIPESIZE] \in 0..(PipeWrap - 1)
    <2>1. nread + j - 1 \in Int
      BY <1>1 DEF PpIInv, PpTypeInv
    <2>2. ((nread + j - 1) % PIPESIZE) \in 0..(PIPESIZE - 1)
      BY <2>1, PpSlots
    <2>. QED  BY <2>2 DEF PpIInv, PpTypeInv
  <1>3. Pp!queue \in Seq(0..(PipeWrap - 1)) /\ Len(Pp!queue) = Pp!Count
    BY <1>1, <1>2 DEF Pp!queue
  <1>4. \A j \in 1..Pp!Count : Pp!queue[j] = pipeData[(nread + j - 1) % PIPESIZE]
    BY DEF Pp!queue
  <1>5. nwrite = nread + Pp!Count \/ nwrite + PipeWrap = nread + Pp!Count
    BY <1>1 DEF PpDist, PpIInv, PpTypeInv, PpSizes
  <1>6. \A j \in 1..Pp!Count : Pp!queue[j] \in 0..(PipeWrap - 1)
    BY <1>2, <1>4
  <1>. QED  BY <1>1, <1>3, <1>4, <1>5, <1>6

LEMMA PpPutImplements ==
    ASSUME PpSizes, PpIInv, PpIInv', NEW p \in PipeProcs, Pp!Put(p)
    PROVE  Pp!F!Put(nwrite) /\ nwrite \in 0..(PipeWrap - 1)
  <1>1. ~Pp!Full /\ nwrite' = (nwrite + 1) % PipeWrap /\ nread' = nread
        /\ pipeData' = [pipeData EXCEPT ![nwrite % PIPESIZE] = nwrite] /\ pipeGot' = pipeGot
    BY DEF Pp!Put
  <1>2. Pp!Count < PIPESIZE /\ Pp!Count' = Pp!Count + 1
    BY <1>1, PpMoves DEF PpIInv
  <1>3. /\ nread \in 0..(PipeWrap - 1) /\ nwrite \in 0..(PipeWrap - 1)
        /\ pipeData \in [0..(PIPESIZE - 1) -> 0..(PipeWrap - 1)]
        /\ PIPESIZE \in Nat \ {0} /\ PipeWrap \in Nat \ {0}
    BY DEF PpIInv, PpTypeInv, PpSizes
  <1>4. /\ Pp!Count \in Nat /\ Pp!queue \in Seq(0..(PipeWrap - 1)) /\ Len(Pp!queue) = Pp!Count
        /\ \A j \in 1..Pp!Count : Pp!queue[j] = pipeData[(nread + j - 1) % PIPESIZE]
        /\ nwrite = nread + Pp!Count \/ nwrite + PipeWrap = nread + Pp!Count
    BY PpQueue
  <1>5. (nwrite % PIPESIZE) = (nread + Pp!Count) % PIPESIZE
    <2>1. nwrite \in Int
      BY <1>3
    <2>2. (nwrite + PipeWrap) % PIPESIZE = nwrite % PIPESIZE
      BY <2>1, PpSlots
    <2>. QED  BY <1>4, <2>2
  <1>6. Pp!queue' = [j \in 1..(Pp!Count + 1) |-> pipeData'[(nread + j - 1) % PIPESIZE]]
    BY <1>1, <1>2 DEF Pp!queue
  <1>7. ASSUME NEW j \in 1..Pp!Count
        PROVE  pipeData'[(nread + j - 1) % PIPESIZE] = Pp!queue[j]
    <2>1. ((nread + j - 1) % PIPESIZE) # ((nread + Pp!Count) % PIPESIZE)
      <3>1. PICK a \in Int : a = nread + j - 1
        BY <1>3, <1>4
      <3>2. PICK b \in Int : b = nread + Pp!Count
        BY <1>3, <1>4
      <3>3. a < b /\ b - a < PIPESIZE
        BY <1>2, <1>3, <1>4, <3>1, <3>2
      <3>. QED  BY <3>1, <3>2, <3>3, PpSlotsDiffer
    <2>2. nread + j - 1 \in Int
      BY <1>3, <1>4
    <2>3. ((nread + j - 1) % PIPESIZE) \in 0..(PIPESIZE - 1)
      BY <2>2, PpSlots
    <2>. QED  BY <1>1, <1>3, <1>4, <1>5, <2>1, <2>3
  <1>8. pipeData'[(nread + Pp!Count) % PIPESIZE] = nwrite
    <2>1. (nwrite % PIPESIZE) \in 0..(PIPESIZE - 1)
      <3>1. nwrite \in Int
        BY <1>3
      <3>. QED  BY <3>1, PpSlots
    <2>. QED  BY <1>1, <1>3, <1>5, <2>1
  <1>9. Pp!queue' = Append(Pp!queue, nwrite)
    <2>1. \A j \in 1..(Pp!Count + 1) : Append(Pp!queue, nwrite)[j] = Pp!queue'[j]
      <3>1. ASSUME NEW j \in 1..Pp!Count PROVE Append(Pp!queue, nwrite)[j] = Pp!queue'[j]
        <4>1. Append(Pp!queue, nwrite)[j] = Pp!queue[j]
          BY <1>4
        <4>2. Pp!queue'[j] = pipeData'[(nread + j - 1) % PIPESIZE]
          BY <1>4, <1>6
        <4>. QED  BY <1>7, <4>1, <4>2
      <3>2. Append(Pp!queue, nwrite)[Pp!Count + 1] = Pp!queue'[Pp!Count + 1]
        <4>1. Append(Pp!queue, nwrite)[Pp!Count + 1] = nwrite
          BY <1>4
        <4>2. Pp!queue'[Pp!Count + 1] = pipeData'[(nread + (Pp!Count + 1) - 1) % PIPESIZE]
          BY <1>4, <1>6
        <4>3. nread + (Pp!Count + 1) - 1 = nread + Pp!Count
          BY <1>3, <1>4
        <4>. QED  BY <1>8, <4>1, <4>2, <4>3
      <3>. QED  BY <3>1, <3>2, <1>4
    <2>2. Pp!queue' \in Seq(0..(PipeWrap - 1)) /\ Len(Pp!queue') = Pp!Count + 1
      <3>1. ASSUME NEW j \in 1..(Pp!Count + 1) PROVE pipeData'[(nread + j - 1) % PIPESIZE] \in 0..(PipeWrap - 1)
        <4>1. CASE j = Pp!Count + 1
          BY <4>1, <1>3, <1>4, <1>8, nread + (Pp!Count + 1) - 1 = nread + Pp!Count
        <4>2. CASE j # Pp!Count + 1
          <5>1. j \in 1..Pp!Count
            BY <4>2, <1>4
          <5>2. Pp!queue[j] \in 0..(PipeWrap - 1)
            BY <5>1, PpQueue
          <5>. QED  BY <5>1, <5>2, <1>7
        <4>. QED  BY <4>1, <4>2
      <3>. QED  BY <3>1, <1>4, <1>6
    <2>3. /\ Append(Pp!queue, nwrite) \in Seq(0..(PipeWrap - 1))
          /\ Len(Append(Pp!queue, nwrite)) = Pp!Count + 1
      <3>1. nwrite \in 0..(PipeWrap - 1)
        BY <1>3
      <3>2. Pp!queue \in Seq(0..(PipeWrap - 1)) /\ Len(Pp!queue) = Pp!Count
        BY <1>4
      <3>. QED  BY <3>1, <3>2
    <2>. QED  BY <2>1, <2>2, <2>3
  <1>. QED  BY <1>1, <1>2, <1>3, <1>4, <1>9 DEF Pp!F!Put, Pp!taken

LEMMA PpTakeImplements ==
    ASSUME PpSizes, PpIInv, PpIInv', NEW p \in PipeProcs, Pp!Take(p)
    PROVE  Pp!F!Get("readers")
  <1>1. ~Pp!Empty /\ nread' = (nread + 1) % PipeWrap /\ nwrite' = nwrite
        /\ pipeData' = pipeData /\ pipeGot' = <<pipeData[nread % PIPESIZE]>>
    BY DEF Pp!Take
  <1>2. Pp!Count > 0 /\ Pp!Count' = Pp!Count - 1
    BY <1>1, PpMoves DEF PpIInv
  <1>3. /\ nread \in 0..(PipeWrap - 1) /\ nread' = IF nread = PipeWrap - 1 THEN 0 ELSE nread + 1
        /\ PIPESIZE \in Nat \ {0} /\ PipeWrap \in Nat \ {0}
    BY <1>1, PpCounters DEF PpIInv, PpTypeInv, PpSizes
  <1>4. /\ Pp!Count \in Nat /\ Pp!queue \in Seq(0..(PipeWrap - 1)) /\ Len(Pp!queue) = Pp!Count
        /\ \A j \in 1..Pp!Count : Pp!queue[j] = pipeData[(nread + j - 1) % PIPESIZE]
    BY PpQueue
  <1>5. Pp!queue' = [j \in 1..(Pp!Count - 1) |-> pipeData[(nread' + j - 1) % PIPESIZE]]
    BY <1>1, <1>2 DEF Pp!queue
  <1>6. ASSUME NEW j \in 1..(Pp!Count - 1) PROVE pipeData[(nread' + j - 1) % PIPESIZE] = Pp!queue[j + 1]
    <2>1. Pp!queue[j + 1] = pipeData[(nread + j) % PIPESIZE]
      <3>1. PICK i \in 1..Pp!Count : i = j + 1
        BY <1>4
      <3>2. Pp!queue[i] = pipeData[(nread + i - 1) % PIPESIZE]
        BY <1>4
      <3>3. nread + i - 1 = nread + j
        BY <1>3, <3>1
      <3>. QED  BY <3>1, <3>2, <3>3
    <2>2. CASE nread = PipeWrap - 1
      <3>1. ((j - 1) + PipeWrap) % PIPESIZE = (j - 1) % PIPESIZE
        BY <1>4, PpSlots
      <3>2. nread + j = (j - 1) + PipeWrap /\ nread' + j - 1 = j - 1
        BY <2>2, <1>3, <1>4
      <3>. QED  BY <2>1, <3>1, <3>2
    <2>3. CASE nread # PipeWrap - 1
      <3>1. nread' + j - 1 = nread + j
        BY <2>3, <1>3, <1>4
      <3>. QED  BY <2>1, <3>1
    <2>. QED  BY <2>2, <2>3
  <1>7. Pp!queue' = Tail(Pp!queue)
    <2>1. /\ Tail(Pp!queue) \in Seq(0..(PipeWrap - 1)) /\ Len(Tail(Pp!queue)) = Pp!Count - 1
          /\ \A j \in 1..(Pp!Count - 1) : Tail(Pp!queue)[j] = Pp!queue[j + 1]
      BY <1>2, <1>4
    <2>2. \A j \in 1..(Pp!Count - 1) : Pp!queue'[j] = Pp!queue[j + 1]
      BY <1>5, <1>6
    <2>3. Pp!queue' \in Seq(0..(PipeWrap - 1)) /\ Len(Pp!queue') = Pp!Count - 1
      <3>1. \A j \in 1..(Pp!Count - 1) : j + 1 \in 1..Pp!Count
        BY <1>4
      <3>2. \A j \in 1..(Pp!Count - 1) : Pp!queue[j + 1] \in 0..(PipeWrap - 1)
        BY <3>1, PpQueue
      <3>. QED  BY <3>2, <1>2, <1>4, <1>5, <1>6
    <2>. QED  BY <2>1, <2>2, <2>3
  <1>8. Head(Pp!queue) = pipeData[nread % PIPESIZE] /\ Pp!queue # <<>>
    BY <1>2, <1>3, <1>4, nread + 1 - 1 = nread
  <1>. QED  BY <1>1, <1>7, <1>8 DEF Pp!F!Get, Pp!taken

LEMMA PpImplements == ASSUME PpSizes PROVE Pp!Spec => Pp!ImplementsFifo
  <1>1. Pp!Init => Pp!F!Init
    <2>1. Pp!Init /\ PpSizes => Pp!Count = 0
      <3>1. Pp!Init => PpTypeInv /\ Pp!Empty
        BY PpInit DEF PpIInv, Pp!Init, Pp!Empty
      <3>. QED  BY <3>1, PpCounters
    <2>. QED  BY <2>1 DEF Pp!Init, Pp!F!Init, Pp!queue, Pp!taken
  <1>2. PpIInv /\ PpIInv' /\ [Pp!Next]_Pp!vars => [Pp!F!Next]_Pp!F!fifoVars
    <2>1. ASSUME UNCHANGED <<pipeData, nread, nwrite, pipeGot>> PROVE UNCHANGED Pp!F!fifoVars
      BY <2>1 DEF Pp!F!fifoVars, Pp!queue, Pp!taken, Pp!Count
    <2>2. ASSUME PpIInv, PpIInv', NEW p \in PipeProcs, Pp!Put(p) PROVE Pp!F!Next
      BY <2>2, PpPutImplements DEF Pp!F!Next
    <2>3. ASSUME PpIInv, PpIInv', NEW p \in PipeProcs, Pp!Take(p) PROVE Pp!F!Next
      BY <2>3, PpTakeImplements DEF Pp!F!Next
    <2>4. ASSUME NEW p \in PipeProcs, Pp!Step(p), ~Pp!Put(p), ~Pp!Take(p)
          PROVE  UNCHANGED <<pipeData, nread, nwrite, pipeGot>>
      BY <2>4 DEF Pp!Step, Pp!Reacquire, Pp!NoReader, Pp!MayWrite, Pp!WaitForRoom,
          Pp!Written, Pp!GiveUp, Pp!WillSleep,
         Pp!WaitForBytes, Pp!MayRead, Pp!ReadDone
    <2>5. ASSUME NEW p \in PipeProcs,
                 \/ Pp!Kill(p)
                 \/ \E end \in {"r", "w"} : Pp!Close(p, end) \/ \E n \in 1..MaxTransfer : Pp!Call(p, end, n)
          PROVE  UNCHANGED <<pipeData, nread, nwrite, pipeGot>>
      BY <2>5 DEF Pp!Kill, Pp!Close, Pp!Call
    <2>6. UNCHANGED Pp!vars => UNCHANGED <<pipeData, nread, nwrite, pipeGot>>
      BY DEF Pp!vars
    <2>7. ASSUME PpIInv, PpIInv', Pp!Next PROVE Pp!F!Next \/ UNCHANGED Pp!F!fifoVars
      <3>1. PICK p \in PipeProcs :
                \/ Pp!Step(p) \/ Pp!Kill(p)
                \/ \E end \in {"r", "w"} : Pp!Close(p, end) \/ \E n \in 1..MaxTransfer : Pp!Call(p, end, n)
        BY <2>7 DEF Pp!Next
      <3>2. CASE Pp!Step(p)
        <4>1. CASE Pp!Put(p)
          BY <2>7, <4>1, <2>2
        <4>2. CASE Pp!Take(p)
          BY <2>7, <4>2, <2>3
        <4>3. CASE ~Pp!Put(p) /\ ~Pp!Take(p)
          BY <3>2, <4>3, <2>4, <2>1
        <4>. QED  BY <4>1, <4>2, <4>3
      <3>3. CASE ~Pp!Step(p)
        BY <3>1, <3>3, <2>5, <2>1
      <3>. QED  BY <3>2, <3>3
    <2>. QED  BY <2>1, <2>6, <2>7
  <1>. QED  BY <1>1, <1>2, PpInit, PpStep, PTL DEF Pp!Spec, Pp!ImplementsFifo, Pp!F!Spec

LEMMA PpBlocked == ASSUME PpSizes PROVE Pp!Spec => [](Pp!WritersBlocked /\ Pp!ReadersBlocked)
  <1>1. PpIInv => Pp!WritersBlocked /\ Pp!ReadersBlocked
    <2>1. PpIInv /\ pipeLock = 0 => \A q \in PipeProcs : pipePc[q] \notin PpReading \cup PpWriting
      BY DEF PpIInv, PpLockInv, PpSizes
    <2>. QED  BY <2>1 DEF PpIInv, PpSleepInv, Pp!WritersBlocked, Pp!ReadersBlocked,
        PpReading, PpWriting
  <1>. QED  BY <1>1, PpInit, PpStep, PTL DEF Pp!Spec

LEMMA PpPipeWorks == ASSUME PpSizes PROVE Pp!Spec => Pp!PipeWorks
  BY PpImplements, PpBlocked, PTL DEF Pp!PipeWorks

-----------------------------------------------------------------------------
(* XvLog, for any processes, blocks and contents, and any length of the log *)
(* and of an operation.                                                    *)

LgSizes == MAXOPBLOCKS \in Nat /\ LOGBLOCKS \in Nat

LgCommitting == {"write_log", "write_head", "install", "erase", "done"}

(* A list of blocks that fits in the log and names none twice. *)
LgList(s) ==
    /\ s \in Seq(LogBlocks) /\ Len(s) <= LOGBLOCKS
    /\ \A i, j \in 1..Len(s) : s[i] = s[j] => i = j

LgTypeInv ==
    /\ home \in [LogBlocks -> LogVals] /\ cache \in [LogBlocks -> LogVals]
    /\ logSlots \in [Lg!Slots -> LogVals]
    /\ LgList(logHead) /\ LgList(lh)
    /\ committing \in BOOLEAN
    /\ wrote \in [LogProcs -> SUBSET LogBlocks]
    /\ logPc \in [LogProcs -> {"user", "asleep", "op", "commit"}]
    /\ kernel \in LgCommitting \cup {"up", "panic", "boot", "recover", "clear"}
    /\ logTail \in Nat

LgOpen == {p \in LogProcs : logPc[p] = "op"}

(* The blocks the open operations may still add to the log. *)
LgDue == {x \in LgOpen \X (1..MAXOPBLOCKS) : x[2] > Cardinality(wrote[x[1]])}

(* The operations under way, and what they have logged. *)
LgOpsInv ==
    /\ IsFiniteSet(LgOpen) /\ outstanding = Cardinality(LgOpen)
    /\ LgOpen # {} => kernel \in {"up", "panic"}
    /\ \A p \in LogProcs :
        /\ IsFiniteSet(wrote[p]) /\ wrote[p] \subseteq Lg!ToSet(lh)
        /\ logPc[p] # "op" => wrote[p] = {}

LgRoomInv == Len(lh) + Cardinality(LgDue) <= LOGBLOCKS

LgSleepInv ==
    /\ committing <=> kernel \in LgCommitting
    /\ \A p \in LogProcs : logPc[p] = "asleep" => ~Lg!Booting /\ (committing \/ Lg!NoRoom)

(* What is in the log, the buffers and the places at each stage. *)
LgStageInv ==
    /\ kernel \notin {"install", "erase", "boot", "recover", "clear"} => logHead = <<>>
    /\ kernel \in {"install", "erase", "recover", "clear"} => lh = logHead
    /\ kernel \in {"write_log", "write_head"} => lh # <<>>
    /\ kernel \in {"done", "boot"} => lh = <<>>
    /\ kernel \in {"write_log", "install", "recover"} =>
           logTail = 1 \/ logTail \in 1..Len(lh)
    /\ kernel \notin {"write_log", "install", "recover"} => logTail = 1
    /\ Lg!Booting => cache = home
    /\ \A b \in LogBlocks : b \notin Lg!ToSet(lh) => cache[b] = home[b]
    /\ kernel = "write_log" => \A i \in 1..(logTail - 1) : logSlots[i] = cache[lh[i]]
    /\ kernel \in {"write_head", "install", "erase"} =>
           \A i \in 1..Len(lh) : logSlots[i] = cache[lh[i]]
    /\ kernel \in {"install", "recover"} => \A i \in 1..(logTail - 1) : home[lh[i]] = logSlots[i]
    /\ kernel \in {"erase", "clear"} => \A i \in 1..Len(lh) : home[lh[i]] = logSlots[i]

(* A panic is log_write's, for a log that is full and nothing that is due. *)
LgPanicInv ==
    kernel = "panic" => LgOpen # {} /\ ~committing /\ Len(lh) = LOGBLOCKS /\ LgDue = {}

LgIInv == LgTypeInv /\ LgOpsInv /\ LgRoomInv /\ LgSleepInv /\ LgStageInv /\ LgPanicInv

(* A list by its places. *)
LEMMA LgInList ==
    ASSUME NEW s, LgList(s)
    PROVE  /\ s \in Seq(LogBlocks) /\ Len(s) \in Nat /\ DOMAIN s = 1..Len(s)
           /\ \A b : b \in Lg!ToSet(s) <=> \E i \in 1..Len(s) : s[i] = b
           /\ \A i \in 1..Len(s) : s[i] \in LogBlocks /\ s[i] \in Lg!ToSet(s)
           /\ s # <<>> <=> Len(s) > 0
           /\ Lg!ToSet(<<>>) = {}
  BY DEF LgList, Lg!ToSet

LEMMA LgEmptyList == LgSizes => LgList(<<>>)
  BY DEF LgList, LgSizes

(* So many blocks for each of a set of operations. *)
LEMMA LgProduct ==
    ASSUME LgSizes, NEW S, IsFiniteSet(S)
    PROVE  /\ IsFiniteSet(S \X (1..MAXOPBLOCKS))
           /\ Cardinality(S \X (1..MAXOPBLOCKS)) = Cardinality(S) * MAXOPBLOCKS
  <1>1. IsFiniteSet(1..MAXOPBLOCKS) /\ Cardinality(1..MAXOPBLOCKS) = MAXOPBLOCKS
    BY FS_Interval DEF LgSizes
  <1>. QED  BY <1>1, FS_Product

LEMMA LgDueFacts ==
    ASSUME LgSizes, IsFiniteSet(LgOpen)
    PROVE  /\ IsFiniteSet(LgDue) /\ Cardinality(LgDue) \in Nat
           /\ Cardinality(LgOpen) \in Nat
           /\ Cardinality(LgDue) <= Cardinality(LgOpen) * MAXOPBLOCKS
  <1>1. /\ IsFiniteSet(LgOpen \X (1..MAXOPBLOCKS))
        /\ Cardinality(LgOpen \X (1..MAXOPBLOCKS)) = Cardinality(LgOpen) * MAXOPBLOCKS
    BY LgProduct
  <1>2. LgDue \in SUBSET (LgOpen \X (1..MAXOPBLOCKS))
    BY DEF LgDue
  <1>3. Cardinality(LgOpen) \in Nat
    BY FS_CardinalityType
  <1>4. IsFiniteSet(LgDue) /\ Cardinality(LgDue) <= Cardinality(LgOpen \X (1..MAXOPBLOCKS))
    BY <1>1, <1>2, FS_Subset
  <1>. QED  BY <1>1, <1>3, <1>4, FS_CardinalityType

(* With no operation open nothing is due. *)
LEMMA LgIdle ==
    ASSUME LgOpen = {}
    PROVE  LgDue = {} /\ Cardinality(LgDue) = 0 /\ Cardinality(LgOpen) = 0
  BY FS_EmptySet DEF LgDue

(* The module's own Cardinality is the library's. *)
LEMMA LgCardinality == ASSUME NEW S PROVE Lg!Cardinality(S) = Cardinality(S)
  BY DEF Lg!Cardinality, Cardinality, Lg!IsFiniteSet, IsFiniteSet

LEMMA LgInit == LgSizes => (Lg!Init => LgIInv)
  <1>. SUFFICES ASSUME LgSizes, Lg!Init PROVE LgIInv
    OBVIOUS
  <1>1. LgTypeInv
    <2>1. home \in [LogBlocks -> LogVals] /\ logSlots \in [Lg!Slots -> LogVals]
      BY DEF Lg!Init
    <2>. QED  BY <2>1, LgEmptyList DEF Lg!Init, LgTypeInv
  <1>2. LgOpen = {}
    BY DEF Lg!Init, LgOpen
  <1>3. LgOpsInv
    BY <1>2, FS_EmptySet DEF Lg!Init, LgOpsInv
  <1>4. LgRoomInv
    BY <1>2, LgIdle DEF Lg!Init, LgRoomInv, LgSizes
  <1>5. LgSleepInv
    BY DEF Lg!Init, LgSleepInv, LgCommitting
  <1>6. LgStageInv /\ LgPanicInv
    BY DEF Lg!Init, LgStageInv, LgPanicInv, Lg!Booting
  <1>. QED  BY <1>1, <1>3, <1>4, <1>5, <1>6 DEF LgIInv

(* The log's own steps leave the operations alone; none is open then. *)
LEMMA LgOpsSame ==
    ASSUME LgIInv, UNCHANGED <<logPc, wrote, outstanding>>,
           lh' = lh \/ (LgOpen = {} /\ \A p \in LogProcs : wrote[p] = {}),
           kernel' = kernel \/ LgOpen = {}
    PROVE  LgOpsInv'
  <1>1. LgOpen' = LgOpen
    BY DEF LgOpen
  <1>. QED  BY <1>1 DEF LgIInv, LgOpsInv, Lg!ToSet

LEMMA LgRoomSame ==
    ASSUME LgIInv, UNCHANGED <<logPc, wrote>>, LgTypeInv',
           lh' = lh \/ LgOpen = {}
    PROVE  LgRoomInv'
  <1>1. LgOpen' = LgOpen /\ LgDue' = LgDue
    BY DEF LgOpen, LgDue
  <1>2. CASE lh' = lh
    BY <1>1, <1>2 DEF LgIInv, LgRoomInv
  <1>3. CASE LgOpen = {} /\ lh' # lh
    <2>1. Cardinality(LgDue') = 0
      BY <1>1, <1>3, LgIdle
    <2>. QED  BY <2>1 DEF LgTypeInv, LgList, LgRoomInv
  <1>. QED  BY <1>2, <1>3

LEMMA LgNoneOpen ==
    ASSUME LgIInv, kernel \notin {"up", "panic"}
    PROVE  /\ LgOpen = {} /\ outstanding = 0
           /\ \A p \in LogProcs : logPc[p] # "op" /\ wrote[p] = {}
  BY FS_EmptySet DEF LgIInv, LgOpsInv, LgOpen

LEMMA LgBeginOpKeeps ==
    ASSUME LgSizes, LgIInv, NEW p \in LogProcs, Lg!BeginOp(p)
    PROVE  LgIInv'
  <1>. USE DEF Lg!BeginOp
  <1>1. LgTypeInv'
    BY DEF LgIInv, LgTypeInv, Lg!Slots
  <1>2. CASE committing \/ Lg!NoRoom
    <2>1. LgOpen' = LgOpen /\ LgDue' = LgDue
      BY <1>2 DEF LgOpen, LgDue, LgIInv, LgTypeInv
    <2>2. LgOpsInv'
      BY <1>2, <2>1 DEF LgIInv, LgOpsInv, LgTypeInv
    <2>3. LgRoomInv'
      BY <2>1 DEF LgIInv, LgRoomInv
    <2>4. LgSleepInv'
      BY <1>2 DEF LgIInv, LgSleepInv, LgTypeInv, Lg!NoRoom, Lg!Booting
    <2>. QED  BY <1>1, <2>2, <2>3, <2>4 DEF LgIInv, LgStageInv, LgPanicInv, Lg!Booting
  <1>3. CASE ~committing /\ ~Lg!NoRoom
    <2>1. kernel = "up"
      BY <1>3 DEF LgIInv, LgTypeInv, LgSleepInv, Lg!Booting, LgCommitting
    <2>2. LgOpen' = LgOpen \cup {p} /\ p \notin LgOpen
      BY <1>3 DEF LgOpen, LgIInv, LgTypeInv
    <2>3. IsFiniteSet(LgOpen') /\ Cardinality(LgOpen') = Cardinality(LgOpen) + 1
      BY <2>2, FS_AddElement DEF LgIInv, LgOpsInv
    <2>4. LgOpsInv'
      BY <1>3, <2>1, <2>3 DEF LgIInv, LgOpsInv, LgTypeInv
    <2>5. LgRoomInv'
      <3>1. Cardinality(LgDue') <= Cardinality(LgOpen') * MAXOPBLOCKS /\ Cardinality(LgDue') \in Nat
        <4>1. LgDue' \in SUBSET (LgOpen' \X (1..MAXOPBLOCKS))
          BY DEF LgDue
        <4>2. /\ IsFiniteSet(LgOpen' \X (1..MAXOPBLOCKS))
              /\ Cardinality(LgOpen' \X (1..MAXOPBLOCKS)) = Cardinality(LgOpen') * MAXOPBLOCKS
          BY <2>3, LgProduct
        <4>3. IsFiniteSet(LgDue') /\ Cardinality(LgDue') <= Cardinality(LgOpen' \X (1..MAXOPBLOCKS))
          BY <4>1, <4>2, FS_Subset
        <4>. QED  BY <4>2, <4>3, FS_CardinalityType
      <3>2. Cardinality(LgOpen') * MAXOPBLOCKS = (outstanding + 1) * MAXOPBLOCKS
        BY <2>3 DEF LgIInv, LgOpsInv
      <3>3. ~(Len(lh) + (outstanding + 1) * MAXOPBLOCKS > LOGBLOCKS)
        BY <1>3 DEF Lg!NoRoom
      <3>4. Len(lh) \in Nat /\ Cardinality(LgOpen') * MAXOPBLOCKS \in Nat /\ LOGBLOCKS \in Nat
        BY <2>3, FS_CardinalityType DEF LgIInv, LgTypeInv, LgList, LgSizes
      <3>. QED  BY <3>1, <3>2, <3>3, <3>4 DEF LgRoomInv
    <2>6. LgSleepInv'
      BY <1>3 DEF LgIInv, LgSleepInv, LgTypeInv
    <2>. QED  BY <1>1, <2>1, <2>4, <2>5, <2>6 DEF LgIInv, LgStageInv, LgPanicInv, Lg!Booting
  <1>. QED  BY <1>2, <1>3

LEMMA LgOutstanding ==
    ASSUME LgIInv
    PROVE  outstanding \in Nat /\ (LgOpen # {} => outstanding > 0 /\ Lg!InOp)
  <1>1. outstanding \in Nat
    BY FS_CardinalityType DEF LgIInv, LgOpsInv
  <1>. QED  BY <1>1, FS_EmptySet DEF LgIInv, LgOpsInv, Lg!InOp

(* The next block of an operation that may log another is due. *)
LEMMA LgMayAdd ==
    ASSUME LgSizes, LgIInv, NEW p \in LgOpen, Lg!MayAdd(p)
    PROVE  LgDue # {}
  <1>1. IsFiniteSet(wrote[p]) /\ Cardinality(wrote[p]) < MAXOPBLOCKS
    BY LgCardinality DEF LgIInv, LgOpsInv, LgOpen, Lg!MayAdd
  <1>2. PICK n \in Nat : n = Cardinality(wrote[p])
    BY <1>1, FS_CardinalityType
  <1>3. <<p, n + 1>> \in LgDue
    BY <1>1, <1>2 DEF LgDue, LgSizes
  <1>. QED  BY <1>3

(* What log_write refuses is a block that is in the log already. *)
LEMMA LgRefusedKeeps ==
    ASSUME LgSizes, LgIInv, NEW p \in LogProcs, NEW b \in LogBlocks, NEW v \in LogVals, Lg!LogWrite(p, b, v),
           Lg!Refused
    PROVE  LgIInv'
  <1>1. /\ logPc[p] = "op" /\ kernel # "panic" /\ (b \in wrote[p] \/ Lg!MayAdd(p))
        /\ cache' = [cache EXCEPT ![b] = v] /\ kernel' = "panic"
        /\ UNCHANGED <<home, logSlots, logHead, lh, outstanding, committing, wrote, logPc, logTail>>
    BY DEF Lg!LogWrite
  <1>2. p \in LgOpen /\ kernel = "up"
    BY <1>1 DEF LgIInv, LgOpsInv, LgOpen
  <1>3. Len(lh) = LOGBLOCKS /\ LgDue = {}
    <2>1. Len(lh) \in Nat /\ IsFiniteSet(LgDue) /\ Cardinality(LgDue) \in Nat
      BY LgDueFacts DEF LgIInv, LgOpsInv, LgTypeInv, LgList
    <2>2. Len(lh) >= LOGBLOCKS
      BY <1>2, LgOutstanding DEF Lg!Refused
    <2>3. Len(lh) = LOGBLOCKS /\ Cardinality(LgDue) = 0
      BY <2>1, <2>2 DEF LgIInv, LgRoomInv, LgSizes
    <2>. QED  BY <2>1, <2>3, FS_EmptySet
  <1>4. b \in Lg!ToSet(lh)
    BY <1>1, <1>2, <1>3, LgMayAdd DEF LgIInv, LgOpsInv
  <1>5. LgOpen' = LgOpen /\ LgDue' = LgDue /\ Lg!ToSet(lh') = Lg!ToSet(lh)
    BY <1>1 DEF LgOpen, LgDue
  <1>6. LgTypeInv'
    BY <1>1 DEF LgIInv, LgTypeInv, Lg!Slots
  <1>7. LgOpsInv' /\ LgRoomInv'
    BY <1>1, <1>5 DEF LgIInv, LgOpsInv, LgRoomInv
  <1>8. LgSleepInv'
    BY <1>1, <1>2 DEF LgIInv, LgSleepInv, LgCommitting, Lg!Booting, Lg!NoRoom
  <1>9. LgStageInv'
    <2>1. \A x \in LogBlocks : x \notin Lg!ToSet(lh') => cache'[x] = home'[x]
      BY <1>1, <1>4, <1>5 DEF LgIInv, LgStageInv, LgTypeInv
    <2>. QED  BY <1>1, <1>2, <2>1 DEF LgIInv, LgStageInv, Lg!Booting
  <1>10. LgPanicInv'
    <2>1. ~committing
      BY <1>2 DEF LgIInv, LgSleepInv, LgCommitting
    <2>. QED  BY <1>1, <1>2, <1>3, <1>5, <2>1 DEF LgPanicInv
  <1>. QED  BY <1>6, <1>7, <1>8, <1>9, <1>10 DEF LgIInv

(* A block of an operation that has not written MAXOPBLOCKS has room in    *)
(* the log.                                                                *)
LEMMA LgLoggedKeeps ==
    ASSUME LgSizes, LgIInv, NEW p \in LogProcs, NEW b \in LogBlocks, NEW v \in LogVals, Lg!LogWrite(p, b, v),
           ~Lg!Refused
    PROVE  LgIInv'
  <1>. USE DEF Lg!LogWrite
  <1>0. /\ kernel = "up" /\ p \in LgOpen /\ LgList(lh) /\ IsFiniteSet(LgOpen)
        /\ b \in wrote[p] => b \in Lg!ToSet(lh)
        /\ IsFiniteSet(wrote[p])
    BY DEF LgIInv, LgOpsInv, LgOpen, LgTypeInv
  <1>1. LgOpen' = LgOpen
    BY DEF LgOpen
  <1>2. IsFiniteSet(LgDue) /\ Cardinality(LgDue) \in Nat
    BY <1>0, LgDueFacts
  <1>3. /\ IsFiniteSet(LgDue') /\ Cardinality(LgDue') \in Nat
        /\ Cardinality(LgDue') <= Cardinality(LgDue)
        /\ b \notin wrote[p] => Cardinality(LgDue') = Cardinality(LgDue) - 1
    <2>1. CASE b \in wrote[p]
      <3>1. wrote' = wrote
        <4>1. wrote' = [wrote EXCEPT ![p] = wrote[p] \cup {b}]
          OBVIOUS
        <4>2. wrote[p] \cup {b} = wrote[p]
          BY <2>1
        <4>3. wrote \in [LogProcs -> SUBSET LogBlocks]
          BY DEF LgIInv, LgTypeInv
        <4>. QED  BY <4>1, <4>2, <4>3
      <3>2. LgDue' = LgDue
        BY <1>1, <3>1 DEF LgDue
      <3>. QED  BY <1>2, <2>1, <3>2
    <2>2. CASE b \notin wrote[p]
      <3>. DEFINE n == Cardinality(wrote[p])
      <3>1. n \in Nat /\ n < MAXOPBLOCKS
        BY <1>0, <2>2, FS_CardinalityType, LgCardinality DEF Lg!MayAdd
      <3>2. Cardinality(wrote'[p]) = n + 1
        <4>1. wrote'[p] = wrote[p] \cup {b}
          BY DEF LgIInv, LgTypeInv
        <4>. QED  BY <1>0, <2>2, <4>1, FS_AddElement
      <3>3. \A q \in LogProcs \ {p} : wrote'[q] = wrote[q]
        BY DEF LgIInv, LgTypeInv
      <3>4. LgDue' = LgDue \ {<<p, n + 1>>}
        <4>1. ASSUME NEW x \in LgOpen \X (1..MAXOPBLOCKS)
              PROVE  x[2] > Cardinality(wrote'[x[1]]) <=> x[2] > Cardinality(wrote[x[1]]) /\ x # <<p, n + 1>>
          <5>1. CASE x[1] = p
            BY <5>1, <3>1, <3>2
          <5>2. CASE x[1] # p
            BY <5>2, <3>3 DEF LgOpen
          <5>. QED  BY <5>1, <5>2
        <4>. QED  BY <1>1, <4>1 DEF LgDue
      <3>5. <<p, n + 1>> \in LgDue
        BY <1>0, <3>1 DEF LgDue, LgSizes
      <3>6. IsFiniteSet(LgDue') /\ Cardinality(LgDue') = Cardinality(LgDue) - 1
        BY <1>2, <3>4, <3>5, FS_RemoveElement
      <3>. QED  BY <1>2, <2>2, <3>6, FS_CardinalityType
    <2>. QED  BY <2>1, <2>2
  <1>4. LgRoomInv'
    <2>1. CASE b \in Lg!ToSet(lh)
      BY <1>2, <1>3, <2>1 DEF LgIInv, LgRoomInv, LgSizes, LgTypeInv, LgList
    <2>2. CASE b \notin Lg!ToSet(lh)
      <3>1. Len(lh') = Len(lh) + 1 /\ Len(lh) \in Nat
        BY <2>2 DEF LgIInv, LgTypeInv, LgList
      <3>. QED  BY <1>0, <1>2, <1>3, <2>2, <3>1 DEF LgIInv, LgRoomInv, LgSizes
    <2>. QED  BY <2>1, <2>2
  <1>5. LgList(lh') /\ Lg!ToSet(lh') = Lg!ToSet(lh) \cup {b}
    <2>1. CASE b \in Lg!ToSet(lh)
      BY <1>0, <2>1
    <2>2. CASE b \notin Lg!ToSet(lh)
      <3>1. lh' = Append(lh, b) /\ lh \in Seq(LogBlocks) /\ Len(lh') <= LOGBLOCKS
        <4>1. Len(lh') \in Nat
          BY <2>2, <1>0 DEF LgList
        <4>. QED  BY <1>0, <1>3, <1>4, <2>2, <4>1 DEF LgList, LgRoomInv, LgSizes
      <3>2. \A i \in 1..Len(lh) : lh[i] # b
        BY <2>2, <1>0, LgInList
      <3>3. LgList(lh')
        BY <1>0, <3>1, <3>2 DEF LgList
      <3>4. \A x : x \in Lg!ToSet(lh') <=> x \in Lg!ToSet(lh) \/ x = b
        <4>1. \A x : x \in Lg!ToSet(lh) <=> \E i \in 1..Len(lh) : lh[i] = x
          BY <1>0, LgInList
        <4>2. \A x : x \in Lg!ToSet(lh') <=> \E i \in 1..Len(lh') : lh'[i] = x
          <5>1. ASSUME NEW s, LgList(s)
                PROVE  \A x : x \in Lg!ToSet(s) <=> \E i \in 1..Len(s) : s[i] = x
            BY <5>1, LgInList
          <5>. QED  BY <3>3, <5>1
        <4>3. /\ Len(lh) \in Nat /\ Len(lh') = Len(lh) + 1 /\ lh'[Len(lh) + 1] = b
              /\ \A i \in 1..Len(lh) : lh'[i] = lh[i]
          BY <3>1
        <4>. QED  BY <4>1, <4>2, <4>3
      <3>. QED  BY <3>3, <3>4
    <2>. QED  BY <2>1, <2>2
  <1>6. LgTypeInv'
    BY <1>5 DEF LgIInv, LgTypeInv, Lg!Slots
  <1>7. LgOpsInv'
    <2>1. ASSUME NEW q \in LogProcs
          PROVE  /\ IsFiniteSet(wrote'[q]) /\ wrote'[q] \subseteq Lg!ToSet(lh')
                 /\ logPc'[q] # "op" => wrote'[q] = {}
      <3>1. CASE q = p
        <4>1. wrote'[q] = wrote[p] \cup {b} /\ logPc'[q] = "op"
          BY <3>1 DEF LgIInv, LgTypeInv
        <4>. QED  BY <1>0, <1>5, <3>1, <4>1, FS_AddElement DEF LgIInv, LgOpsInv
      <3>2. CASE q # p
        <4>1. wrote'[q] = wrote[q]
          BY <3>2 DEF LgIInv, LgTypeInv
        <4>. QED  BY <1>5, <4>1 DEF LgIInv, LgOpsInv
      <3>. QED  BY <3>1, <3>2
    <2>. QED  BY <1>0, <1>1, <2>1 DEF LgIInv, LgOpsInv
  <1>8. LgSleepInv'
    <2>1. Lg!NoRoom => Lg!NoRoom'
      <3>1. Len(lh') >= Len(lh) /\ Len(lh) \in Nat /\ Len(lh') \in Nat
        BY <1>0 DEF LgList
      <3>2. PICK d : d = (outstanding + 1) * MAXOPBLOCKS
        OBVIOUS
      <3>3. d \in Int
        <4>1. outstanding \in Nat
          BY FS_CardinalityType DEF LgIInv, LgOpsInv
        <4>. QED  BY <4>1, <3>2 DEF LgSizes
      <3>. QED  BY <3>1, <3>2, <3>3 DEF Lg!NoRoom, LgSizes
    <2>. QED  BY <2>1 DEF LgIInv, LgSleepInv, Lg!Booting
  <1>9. LgStageInv'
    <2>1. \A x \in LogBlocks : x \notin Lg!ToSet(lh') => cache'[x] = home'[x]
      BY <1>5 DEF LgIInv, LgStageInv, LgTypeInv
    <2>. QED  BY <1>0, <2>1 DEF LgIInv, LgStageInv, Lg!Booting
  <1>10. LgPanicInv'
    BY <1>0 DEF LgPanicInv
  <1>. QED  BY <1>4, <1>6, <1>7, <1>8, <1>9, <1>10 DEF LgIInv

LEMMA LgLogWriteKeeps ==
    ASSUME LgSizes, LgIInv, NEW p \in LogProcs, NEW b \in LogBlocks, NEW v \in LogVals, Lg!LogWrite(p, b, v)
    PROVE  LgIInv'
  BY LgRefusedKeeps, LgLoggedKeeps

LEMMA LgEndOpKeeps ==
    ASSUME LgSizes, LgIInv, NEW p \in LogProcs, Lg!EndOp(p)
    PROVE  LgIInv'
  <1>. USE DEF Lg!EndOp
  <1>0. kernel = "up" /\ p \in LgOpen /\ ~committing /\ logHead = <<>> /\ LgList(lh)
    BY DEF LgIInv, LgOpsInv, LgOpen, LgSleepInv, LgCommitting, LgStageInv, LgTypeInv
  <1>1. LgOpen' = LgOpen \ {p}
    BY <1>0 DEF LgOpen, LgIInv, LgTypeInv, Lg!Woken
  <1>2. /\ IsFiniteSet(LgOpen') /\ outstanding' = Cardinality(LgOpen')
        /\ outstanding = 1 => LgOpen' = {}
    <2>1. IsFiniteSet(LgOpen') /\ Cardinality(LgOpen') = Cardinality(LgOpen) - 1
      BY <1>0, <1>1, FS_RemoveElement DEF LgIInv, LgOpsInv
    <2>2. outstanding' = Cardinality(LgOpen')
      BY <2>1 DEF LgIInv, LgOpsInv
    <2>. QED  BY <2>1, <2>2, FS_EmptySet
  <1>3. LgTypeInv'
    BY <1>0 DEF LgIInv, LgTypeInv, Lg!Slots, Lg!Woken, LgCommitting
  <1>4. LgOpsInv'
    <2>1. \A q \in LogProcs : wrote'[q] = IF q = p THEN {} ELSE wrote[q]
      BY <1>0 DEF LgIInv, LgTypeInv
    <2>2. \A q \in LogProcs : q # p /\ logPc[q] = "op" => logPc'[q] = "op"
      BY <1>0 DEF LgIInv, LgTypeInv, Lg!Woken
    <2>3. LgOpen' # {} => kernel' = "up"
      BY <1>0, <1>2
    <2>4. Lg!ToSet(lh') = Lg!ToSet(lh)
      OBVIOUS
    <2>. QED  BY <1>2, <2>1, <2>2, <2>3, <2>4, FS_EmptySet DEF LgIInv, LgOpsInv
  <1>5. LgRoomInv'
    <2>1. LgDue' \in SUBSET LgDue
      <3>1. \A q \in LgOpen' : wrote'[q] = wrote[q]
        BY <1>0, <1>1 DEF LgIInv, LgTypeInv, LgOpen
      <3>. QED  BY <1>1, <3>1 DEF LgDue
    <2>2. IsFiniteSet(LgDue) /\ Cardinality(LgDue) \in Nat
      BY LgDueFacts DEF LgIInv, LgOpsInv
    <2>3. Cardinality(LgDue') <= Cardinality(LgDue) /\ Cardinality(LgDue') \in Nat
      BY <2>1, <2>2, FS_Subset, FS_CardinalityType
    <2>. QED  BY <1>0, <2>2, <2>3 DEF LgIInv, LgRoomInv, LgList, LgSizes
  <1>6. LgSleepInv'
    <2>1. CASE outstanding = 1
      BY <1>0, <2>1 DEF LgIInv, LgSleepInv, LgTypeInv, LgCommitting, Lg!Booting
    <2>2. CASE outstanding # 1
      BY <1>0, <2>2 DEF LgIInv, LgSleepInv, LgTypeInv, Lg!Woken
    <2>. QED  BY <2>1, <2>2
  <1>7. LgStageInv'
    <2>1. logTail = 1 /\ \A b \in LogBlocks : b \notin Lg!ToSet(lh) => cache[b] = home[b]
      BY <1>0 DEF LgIInv, LgStageInv
    <2>2. kernel' \in {"up", "done", "write_log"} /\ (kernel' = "done" => lh = <<>>)
          /\ (kernel' = "write_log" => lh # <<>>)
      BY <1>0
    <2>3. Lg!ToSet(lh') = Lg!ToSet(lh)
      OBVIOUS
    <2>. QED  BY <1>0, <2>1, <2>2, <2>3 DEF LgStageInv, Lg!Booting
  <1>8. LgPanicInv'
    BY <1>0 DEF LgPanicInv
  <1>. QED  BY <1>3, <1>4, <1>5, <1>6, <1>7, <1>8 DEF LgIInv

LEMMA LgRecycleKeeps ==
    ASSUME LgSizes, LgIInv, NEW b \in LogBlocks, Lg!Recycle(b)
    PROVE  LgIInv'
  <1>. USE DEF Lg!Recycle
  <1>1. cache' = cache
    BY DEF LgIInv, LgTypeInv, LgStageInv
  <1>2. LgTypeInv'
    BY <1>1 DEF LgIInv, LgTypeInv, Lg!Slots
  <1>3. LgOpsInv' /\ LgRoomInv'
    BY <1>2, LgOpsSame, LgRoomSame
  <1>4. LgSleepInv'
    BY DEF LgIInv, LgSleepInv, Lg!Booting, Lg!NoRoom
  <1>5. LgStageInv' /\ LgPanicInv'
    BY <1>1 DEF LgIInv, LgStageInv, LgPanicInv, Lg!Booting, Lg!ToSet
  <1>. QED  BY <1>2, <1>3, <1>4, <1>5 DEF LgIInv

(* The steps of the commit and of recovery: no operation is open.          *)
LEMMA LgStep ==
    ASSUME LgSizes, LgIInv, kernel \notin {"up", "panic"}, kernel' # "panic", LgTypeInv', LgStageInv',
           UNCHANGED <<logPc, wrote, outstanding, committing>>,
           kernel' \in LgCommitting <=> kernel \in LgCommitting
    PROVE  LgIInv'
  <1>1. LgOpen = {} /\ \A p \in LogProcs : wrote[p] = {}
    BY LgNoneOpen
  <1>2. LgOpsInv' /\ LgRoomInv'
    BY <1>1, LgOpsSame, LgRoomSame
  <1>3. LgSleepInv'
    <2>1. ASSUME NEW p \in LogProcs, logPc[p] = "asleep" PROVE committing
      BY <2>1 DEF LgIInv, LgSleepInv, LgTypeInv, Lg!Booting
    <2>. QED  BY <2>1 DEF LgIInv, LgSleepInv, LgTypeInv, Lg!Booting, LgCommitting
  <1>. QED  BY <1>2, <1>3 DEF LgIInv, LgPanicInv

LEMMA LgWriteLogKeeps == ASSUME LgSizes, LgIInv, Lg!WriteLog PROVE LgIInv'
  <1>. USE DEF Lg!WriteLog, Lg!Advance
  <1>0. /\ LgList(lh) /\ lh # <<>> /\ logTail \in 1..Len(lh) /\ logHead = <<>>
        /\ logSlots \in [Lg!Slots -> LogVals] /\ cache \in [LogBlocks -> LogVals]
    BY LgInList DEF LgIInv, LgStageInv, LgTypeInv
  <1>1. /\ lh[logTail] \in LogBlocks /\ logTail \in Lg!Slots /\ Len(lh) \in Nat /\ Len(lh) <= LOGBLOCKS
        /\ LOGBLOCKS \in Nat
    BY <1>0, LgInList DEF LgList, Lg!Slots, LgSizes
  <1>2. logSlots' \in [Lg!Slots -> LogVals] /\ \A i \in 1..logTail : logSlots'[i] = cache[lh[i]]
    <2>1. logSlots' \in [Lg!Slots -> LogVals]
      BY <1>0, <1>1
    <2>2. \A i \in 1..(logTail - 1) : logSlots[i] = cache[lh[i]]
      BY DEF LgIInv, LgStageInv
    <2>3. logSlots'[logTail] = cache[lh[logTail]] /\ \A i \in Lg!Slots : i # logTail => logSlots'[i] = logSlots[i]
      BY <1>0, <1>1
    <2>. QED  BY <1>1, <1>0, <2>1, <2>2, <2>3 DEF Lg!Slots
  <1>3. LgTypeInv'
    BY <1>1, <1>2 DEF LgIInv, LgTypeInv, LgCommitting, Lg!Slots
  <1>4. LgStageInv'
    <2>1. \A b \in LogBlocks : b \notin Lg!ToSet(lh) => cache[b] = home[b]
      BY DEF LgIInv, LgStageInv
    <2>2. Lg!ToSet(lh') = Lg!ToSet(lh)
      OBVIOUS
    <2>3. CASE logTail < Len(lh)
      BY <1>0, <1>1, <1>2, <2>1, <2>2, <2>3 DEF LgStageInv, Lg!Booting
    <2>4. CASE logTail = Len(lh)
      BY <1>0, <1>1, <1>2, <2>1, <2>2, <2>4 DEF LgStageInv, Lg!Booting
    <2>. QED  BY <1>0, <2>3, <2>4
  <1>. QED  BY <1>3, <1>4, LgStep DEF LgCommitting

LEMMA LgWriteHeadKeeps == ASSUME LgSizes, LgIInv, Lg!WriteHead PROVE LgIInv'
  <1>. USE DEF Lg!WriteHead
  <1>1. LgTypeInv'
    BY DEF LgIInv, LgTypeInv, LgCommitting, Lg!Slots
  <1>2. LgStageInv'
    BY DEF LgIInv, LgTypeInv, LgStageInv, Lg!Booting, Lg!ToSet
  <1>. QED  BY <1>1, <1>2, LgStep DEF LgCommitting

LEMMA LgInstallKeeps ==
    ASSUME LgSizes, LgIInv,
           Lg!Install("install", "erase") \/ Lg!Install("recover", "clear")
    PROVE  LgIInv'
  <1>. USE DEF Lg!Install, Lg!Advance
  <1>0. /\ kernel \in {"install", "recover"} /\ LgList(lh) /\ lh = logHead
        /\ logSlots \in [Lg!Slots -> LogVals] /\ home \in [LogBlocks -> LogVals] /\ cache \in [LogBlocks -> LogVals]
        /\ lh # <<>> => logTail \in 1..Len(lh)
        /\ kernel = "install" => \A i \in 1..Len(lh) : logSlots[i] = cache[lh[i]]
        /\ kernel = "recover" => cache = home
        /\ \A b \in LogBlocks : b \notin Lg!ToSet(lh) => cache[b] = home[b]
        /\ \A i \in 1..(logTail - 1) : home[lh[i]] = logSlots[i]
    BY LgInList DEF LgIInv, LgStageInv, LgTypeInv, Lg!Booting
  <1>1. CASE lh = <<>>
    <2>1. LgTypeInv'
      BY <1>1 DEF LgIInv, LgTypeInv, LgCommitting, Lg!Slots
    <2>2. logTail = 1
      BY <1>0, <1>1 DEF LgIInv, LgStageInv
    <2>3. LgStageInv'
      BY <1>0, <1>1, <2>2 DEF LgStageInv, Lg!Booting, Lg!ToSet
    <2>. QED  BY <1>0, <2>1, <2>3, LgStep DEF LgCommitting
  <1>2. CASE lh # <<>>
    <2>1. /\ lh[logTail] \in LogBlocks /\ logTail \in Lg!Slots /\ Len(lh) \in Nat /\ Len(lh) <= LOGBLOCKS
          /\ LOGBLOCKS \in Nat /\ lh[logTail] \in Lg!ToSet(lh)
          /\ \A i \in 1..Len(lh) : lh[i] \in LogBlocks /\ (i # logTail => lh[i] # lh[logTail])
      BY <1>0, <1>2, LgInList DEF LgList, Lg!Slots, LgSizes
    <2>2. /\ home' \in [LogBlocks -> LogVals] /\ home'[lh[logTail]] = logSlots[logTail]
          /\ \A b \in LogBlocks : b # lh[logTail] => home'[b] = home[b]
      BY <1>0, <1>2, <2>1
    <2>3. /\ cache' \in [LogBlocks -> LogVals] /\ cache'[lh[logTail]] = logSlots[logTail]
          /\ \A b \in LogBlocks : b # lh[logTail] => cache'[b] = cache[b]
      BY <1>0, <1>2, <2>1
    <2>4. LgTypeInv'
      BY <1>2, <2>2, <2>3 DEF LgIInv, LgTypeInv, LgCommitting, Lg!Slots
    <2>5. \A i \in 1..logTail : home'[lh[i]] = logSlots[i]
      BY <1>0, <1>2, <2>1, <2>2
    <2>6. \A b \in LogBlocks : b \notin Lg!ToSet(lh) => cache'[b] = home'[b]
      BY <1>0, <2>1, <2>2, <2>3
    <2>7. kernel = "install" => \A i \in 1..Len(lh) : logSlots[i] = cache'[lh[i]]
      BY <1>0, <2>1, <2>3
    <2>8. kernel = "recover" => cache' = home'
      BY <1>0, <2>2, <2>3
    <2>9. Lg!ToSet(lh') = Lg!ToSet(lh)
      OBVIOUS
    <2>10. LgStageInv'
      <3>1. CASE logTail < Len(lh)
        BY <1>0, <1>2, <2>1, <2>5, <2>6, <2>7, <2>8, <2>9, <3>1 DEF LgStageInv, Lg!Booting
      <3>2. CASE logTail = Len(lh)
        BY <1>0, <1>2, <2>1, <2>5, <2>6, <2>7, <2>8, <2>9, <3>2 DEF LgStageInv, Lg!Booting
      <3>. QED  BY <1>0, <1>2, <3>1, <3>2
    <2>. QED  BY <1>0, <2>4, <2>10, LgStep DEF LgCommitting
  <1>. QED  BY <1>1, <1>2

(* The log is installed: with its header go no blocks that are not home.   *)
LEMMA LgHome ==
    ASSUME LgIInv, kernel \in {"erase", "clear", "done", "boot"}
    PROVE  cache = home
  <1>1. \A b \in LogBlocks : b \notin Lg!ToSet(lh) => cache[b] = home[b]
    BY DEF LgIInv, LgStageInv
  <1>2. kernel = "erase" => \A b \in LogBlocks : b \in Lg!ToSet(lh) => cache[b] = home[b]
    BY LgInList DEF LgIInv, LgStageInv, LgTypeInv
  <1>3. kernel = "done" => Lg!ToSet(lh) = {}
    BY DEF LgIInv, LgStageInv, Lg!ToSet
  <1>. QED  BY <1>1, <1>2, <1>3 DEF LgIInv, LgTypeInv, LgStageInv, Lg!Booting

LEMMA LgEraseKeeps ==
    ASSUME LgSizes, LgIInv, Lg!Erase("erase", "done")
    PROVE  LgIInv'
  <1>. USE DEF Lg!Erase
  <1>1. LgTypeInv'
    BY LgEmptyList DEF LgIInv, LgTypeInv, LgCommitting, Lg!Slots
  <1>2. LgStageInv'
    BY LgHome DEF LgIInv, LgStageInv, Lg!Booting
  <1>. QED  BY <1>1, <1>2, LgStep DEF LgCommitting

(* The kernel is up again, with an empty log. *)
LEMMA LgUp ==
    ASSUME LgSizes, LgIInv, kernel \notin {"up", "panic"}, LgTypeInv', kernel' = "up", lh' = <<>>, logHead' = <<>>,
           logTail' = 1, cache' = home', committing' = FALSE, UNCHANGED <<wrote, outstanding>>,
           \A p \in LogProcs : logPc'[p] \notin {"op", "asleep"}
    PROVE  LgIInv'
  <1>1. LgOpen = {} /\ outstanding = 0 /\ \A p \in LogProcs : wrote[p] = {}
    BY LgNoneOpen
  <1>2. LgOpen' = {}
    BY DEF LgOpen
  <1>3. LgOpsInv'
    BY <1>1, <1>2, FS_EmptySet DEF LgOpsInv
  <1>4. LgRoomInv'
    <2>1. LgDue' = {}
      BY <1>2 DEF LgDue
    <2>2. Cardinality(LgDue') = 0
      BY <2>1, FS_EmptySet
    <2>. QED  BY <2>2 DEF LgRoomInv, LgSizes
  <1>5. LgSleepInv'
    BY DEF LgSleepInv, LgCommitting
  <1>6. LgStageInv' /\ LgPanicInv'
    BY DEF LgStageInv, LgPanicInv, Lg!Booting
  <1>. QED  BY <1>3, <1>4, <1>5, <1>6 DEF LgIInv

LEMMA LgClearKeeps ==
    ASSUME LgSizes, LgIInv, Lg!Erase("clear", "up")
    PROVE  LgIInv'
  <1>. USE DEF Lg!Erase
  <1>1. LgTypeInv'
    BY LgEmptyList DEF LgIInv, LgTypeInv, LgCommitting, Lg!Slots
  <1>2. \A p \in LogProcs : logPc[p] \notin {"op", "asleep"}
    BY LgNoneOpen DEF LgIInv, LgSleepInv, Lg!Booting
  <1>3. logTail = 1 /\ cache = home /\ committing = FALSE
    BY LgHome DEF LgIInv, LgStageInv, LgSleepInv, LgCommitting, LgTypeInv
  <1>. QED  BY <1>1, <1>2, <1>3, LgUp

LEMMA LgDoneKeeps == ASSUME LgSizes, LgIInv, Lg!Done PROVE LgIInv'
  <1>. USE DEF Lg!Done
  <1>1. LgTypeInv'
    BY DEF LgIInv, LgTypeInv, LgCommitting, Lg!Slots, Lg!Woken
  <1>2. \A p \in LogProcs : logPc'[p] \notin {"op", "asleep"}
    BY LgNoneOpen DEF Lg!Woken
  <1>3. logTail = 1 /\ cache = home /\ lh = <<>> /\ logHead = <<>>
    BY LgHome DEF LgIInv, LgStageInv
  <1>. QED  BY <1>1, <1>2, <1>3, LgUp

LEMMA LgCrashKeeps == ASSUME LgSizes, LgIInv, Lg!Crash PROVE LgIInv'
  <1>. USE DEF Lg!Crash
  <1>1. LgTypeInv'
    BY LgEmptyList DEF LgIInv, LgTypeInv, Lg!Slots
  <1>2. LgOpen' = {}
    BY DEF LgOpen
  <1>3. LgOpsInv'
    BY <1>2, FS_EmptySet DEF LgOpsInv
  <1>4. LgRoomInv'
    <2>1. LgDue' = {}
      BY <1>2 DEF LgDue
    <2>2. Cardinality(LgDue') = 0
      BY <2>1, FS_EmptySet
    <2>. QED  BY <2>2 DEF LgRoomInv, LgSizes
  <1>5. LgSleepInv'
    BY DEF LgSleepInv, LgCommitting
  <1>6. LgStageInv' /\ LgPanicInv'
    BY DEF LgStageInv, LgPanicInv, Lg!Booting
  <1>. QED  BY <1>1, <1>3, <1>4, <1>5, <1>6 DEF LgIInv

LEMMA LgReadHeadKeeps == ASSUME LgSizes, LgIInv, Lg!ReadHead PROVE LgIInv'
  <1>. USE DEF Lg!ReadHead
  <1>1. LgTypeInv'
    BY DEF LgIInv, LgTypeInv, Lg!Slots
  <1>2. LgStageInv'
    BY DEF LgIInv, LgStageInv, Lg!Booting
  <1>. QED  BY <1>1, <1>2, LgStep DEF LgCommitting

LEMMA LgNext == ASSUME LgSizes PROVE LgIInv /\ [Lg!Next]_Lg!vars => LgIInv'
  <1>1. ASSUME LgIInv, Lg!Next PROVE LgIInv'
    BY <1>1, LgBeginOpKeeps, LgEndOpKeeps, LgLogWriteKeeps, LgRecycleKeeps, LgWriteLogKeeps,
       LgWriteHeadKeeps, LgInstallKeeps, LgEraseKeeps, LgClearKeeps, LgDoneKeeps, LgCrashKeeps,
       LgReadHeadKeeps
       DEF Lg!Next
  <1>2. ASSUME LgIInv, UNCHANGED Lg!vars PROVE LgIInv'
    <2>1. LgTypeInv'
      BY <1>2 DEF LgIInv, LgTypeInv, Lg!vars, Lg!Slots
    <2>2. LgOpsInv' /\ LgRoomInv'
      BY <1>2, <2>1, LgOpsSame, LgRoomSame DEF Lg!vars
    <2>3. LgSleepInv' /\ LgStageInv'
      BY <1>2 DEF LgIInv, LgSleepInv, LgStageInv, Lg!Booting, Lg!NoRoom, Lg!ToSet, Lg!vars
    <2>4. LgPanicInv'
      BY <1>2 DEF LgIInv, LgPanicInv, LgOpen, LgDue, Lg!vars
    <2>. QED  BY <2>1, <2>2, <2>3, <2>4 DEF LgIInv
  <1>. QED  BY <1>1, <1>2

-----------------------------------------------------------------------------
(* The refinement. *)

(* What recovery would leave of the blocks in the header, and of others. *)
LEMMA LgDurable ==
    ASSUME LgSizes, LgIInv
    PROVE  /\ Lg!Durable \in [LogBlocks -> LogVals]
           /\ \A b \in LogBlocks : b \notin Lg!ToSet(logHead) => Lg!Durable[b] = home[b]
           /\ \A i \in 1..Len(logHead) : Lg!Durable[logHead[i]] = logSlots[i]
  <1>0. LgList(logHead) /\ home \in [LogBlocks -> LogVals] /\ logSlots \in [Lg!Slots -> LogVals]
    BY DEF LgIInv, LgTypeInv
  <1>1. DOMAIN logHead = 1..Len(logHead) /\ Len(logHead) \in Nat /\ Len(logHead) <= LOGBLOCKS
        /\ \A i \in 1..Len(logHead) : logHead[i] \in LogBlocks
    BY <1>0, LgInList DEF LgList
  <1>2. ASSUME NEW i \in 1..Len(logHead)
        PROVE  (CHOOSE j \in DOMAIN logHead : logHead[j] = logHead[i]) = i
    BY <1>0, <1>1 DEF LgList
  <1>3. \A i \in 1..Len(logHead) : Lg!Durable[logHead[i]] = logSlots[i] /\ logHead[i] \in LogBlocks /\ logSlots[i] \in LogVals
    <2>1. ASSUME NEW i \in 1..Len(logHead) PROVE Lg!Durable[logHead[i]] = logSlots[i]
      <3>1. logHead[i] \in LogBlocks /\ logHead[i] \in Lg!ToSet(logHead)
        BY <1>0, LgInList
      <3>. QED  BY <1>2, <3>1 DEF Lg!Durable
    <2>2. \A i \in 1..Len(logHead) : i \in Lg!Slots
      BY <1>1 DEF Lg!Slots, LgSizes
    <2>. QED  BY <1>0, <1>1, <2>1, <2>2
  <1>4. \A b \in LogBlocks : b \notin Lg!ToSet(logHead) => Lg!Durable[b] = home[b]
    BY DEF Lg!Durable
  <1>5. \A b \in LogBlocks : Lg!Durable[b] \in LogVals
    BY <1>0, <1>3, <1>4, LgInList
  <1>6. Lg!Durable = [b \in LogBlocks |-> Lg!Durable[b]]
    BY DEF Lg!Durable
  <1>. QED  BY <1>3, <1>4, <1>5, <1>6

(* An empty header leaves the blocks as they are. *)
LEMMA LgDurableHome ==
    ASSUME LgSizes, LgIInv, logHead = <<>>
    PROVE  Lg!Durable = home
  BY LgDurable, LgInList DEF LgIInv, LgTypeInv

LEMMA LgDurableSame == ASSUME UNCHANGED <<home, logSlots, logHead>> PROVE Lg!Durable' = Lg!Durable
  BY DEF Lg!Durable, Lg!ToSet

(* A step that changes neither the disk nor what is read. *)
LEMMA LgStutter ==
    ASSUME Lg!Durable' = Lg!Durable, cache' = cache, Lg!Booting' = Lg!Booting, UNCHANGED <<outstanding, committing>>
    PROVE  UNCHANGED Lg!A!diskVars
  BY DEF Lg!A!diskVars, Lg!Seen, Lg!InOp

LEMMA LgBeginOpMaps ==
    ASSUME LgSizes, LgIInv, NEW p \in LogProcs, Lg!BeginOp(p)
    PROVE  [Lg!A!Next]_Lg!A!diskVars
  <1>. USE DEF Lg!BeginOp
  <1>1. Lg!Durable' = Lg!Durable /\ cache' = cache /\ Lg!Booting' = Lg!Booting
    BY LgDurableSame DEF Lg!Booting
  <1>2. outstanding \in Nat
    BY LgOutstanding
  <1>3. CASE committing \/ Lg!NoRoom
    BY <1>1, <1>3, LgStutter
  <1>4. CASE ~committing /\ ~Lg!NoRoom
    <2>1. Lg!Seen' = Lg!Seen /\ Lg!InOp'
      BY <1>1, <1>2, <1>4 DEF Lg!Seen, Lg!InOp
    <2>. QED  BY <1>1, <2>1 DEF Lg!A!Next, Lg!A!BeginOp, Lg!A!diskVars
  <1>. QED  BY <1>3, <1>4

LEMMA LgLogWriteMaps ==
    ASSUME LgSizes, LgIInv, NEW p \in LogProcs, NEW b \in LogBlocks, NEW v \in LogVals, Lg!LogWrite(p, b, v)
    PROVE  [Lg!A!Next]_Lg!A!diskVars
  <1>. USE DEF Lg!LogWrite
  <1>1. p \in LgOpen
    BY DEF LgOpen
  <1>2. kernel = "up" /\ kernel' \in {"up", "panic"} /\ Lg!InOp
    BY <1>1, LgOutstanding DEF LgIInv, LgOpsInv
  <1>3. Lg!Durable' = Lg!Durable /\ Lg!InOp' = Lg!InOp
    BY LgDurableSame DEF Lg!InOp
  <1>4. Lg!Seen' = [Lg!Seen EXCEPT ![b] = v]
    BY <1>2 DEF Lg!Seen, Lg!Booting
  <1>. QED  BY <1>2, <1>3, <1>4 DEF Lg!A!Next, Lg!A!Write

LEMMA LgEndOpMaps ==
    ASSUME LgSizes, LgIInv, NEW p \in LogProcs, Lg!EndOp(p)
    PROVE  [Lg!A!Next]_Lg!A!diskVars
  <1>. USE DEF Lg!EndOp
  <1>1. p \in LgOpen
    BY DEF LgOpen
  <1>2. kernel = "up" /\ ~committing /\ outstanding \in Nat /\ outstanding > 0
    BY <1>1, LgOutstanding DEF LgIInv, LgOpsInv, LgSleepInv, LgCommitting
  <1>3. Lg!InOp /\ Lg!InOp'
    BY <1>2 DEF Lg!InOp
  <1>4. Lg!InOp' = Lg!InOp
    BY <1>3 DEF Lg!InOp
  <1>5. Lg!Durable' = Lg!Durable
    BY LgDurableSame
  <1>6. ~Lg!Booting /\ ~Lg!Booting'
    BY <1>2 DEF Lg!Booting
  <1>. QED  BY <1>4, <1>5, <1>6 DEF Lg!A!diskVars, Lg!Seen

(* The steps of the log: the header's write is the commit, Done the return *)
(* of the last end_op, and the others change nothing that can be seen.     *)
LEMMA LgInstallMaps ==
    ASSUME LgSizes, LgIInv, LgIInv', Lg!Install("install", "erase") \/ Lg!Install("recover", "clear")
    PROVE  UNCHANGED Lg!A!diskVars
  <1>. USE DEF Lg!Install, Lg!Advance
  <1>0. /\ kernel \in {"install", "recover"} /\ lh = logHead /\ LgList(logHead)
        /\ lh # <<>> => logTail \in 1..Len(lh)
        /\ home \in [LogBlocks -> LogVals] /\ cache \in [LogBlocks -> LogVals]
        /\ kernel = "install" => \A i \in 1..Len(lh) : logSlots[i] = cache[lh[i]]
    BY LgInList DEF LgIInv, LgStageInv, LgTypeInv
  <1>1. \A b \in LogBlocks : b \notin Lg!ToSet(logHead) => home'[b] = home[b]
    BY <1>0, LgInList
  <1>2. logHead' = logHead /\ logSlots' = logSlots /\ Lg!ToSet(logHead') = Lg!ToSet(logHead)
    OBVIOUS
  <1>3. Lg!Durable' = Lg!Durable
    BY <1>1, <1>2 DEF Lg!Durable
  <1>4. UNCHANGED <<outstanding, committing>>
    OBVIOUS
  <1>5. Lg!Booting' = Lg!Booting
    BY <1>0 DEF Lg!Booting
  <1>6. kernel = "install" => cache' = cache
    BY <1>0
  <1>. QED  BY <1>0, <1>3, <1>4, <1>5, <1>6 DEF Lg!A!diskVars, Lg!Seen, Lg!InOp, Lg!Booting

LEMMA LgEraseMaps ==
    ASSUME LgSizes, LgIInv, LgIInv', Lg!Erase("erase", "done") \/ Lg!Erase("clear", "up")
    PROVE  UNCHANGED Lg!A!diskVars
  <1>. USE DEF Lg!Erase
  <1>1. cache = home
    BY LgHome
  <1>2. Lg!Durable = home
    <2>1. \A i \in 1..Len(logHead) : home[logHead[i]] = logSlots[i]
      <3>1. lh = logHead /\ \A i \in 1..Len(lh) : home[lh[i]] = logSlots[i]
        BY DEF LgIInv, LgStageInv
      <3>. QED  BY <3>1
    <2>2. \A b \in LogBlocks : Lg!Durable[b] = home[b]
      <3>1. ASSUME NEW b \in LogBlocks, b \in Lg!ToSet(logHead) PROVE Lg!Durable[b] = home[b]
        <4>1. PICK i \in 1..Len(logHead) : logHead[i] = b
          BY <3>1, LgInList DEF LgIInv, LgTypeInv
        <4>. QED  BY <2>1, <4>1, LgDurable
      <3>. QED  BY <3>1, LgDurable
    <2>. QED  BY <2>2, LgDurable DEF LgIInv, LgTypeInv
  <1>3. Lg!Durable' = home'
    <2>1. Lg!ToSet(logHead') = {}
      BY DEF Lg!ToSet
    <2>2. Lg!Durable' = [b \in LogBlocks |-> home[b]]
      BY <2>1 DEF Lg!Durable
    <2>. QED  BY <2>2 DEF LgIInv, LgTypeInv
  <1>4. Lg!Seen' = Lg!Seen
    BY <1>1, <1>2, <1>3 DEF Lg!Seen, Lg!Booting
  <1>. QED  BY <1>2, <1>3, <1>4 DEF Lg!A!diskVars, Lg!InOp

LEMMA LgWriteHeadMaps == ASSUME LgSizes, LgIInv, LgIInv', Lg!WriteHead PROVE Lg!A!Commit
  <1>. USE DEF Lg!WriteHead
  <1>0. /\ LgList(lh) /\ cache \in [LogBlocks -> LogVals] /\ committing
        /\ \A i \in 1..Len(lh) : logSlots[i] = cache[lh[i]]
        /\ \A b \in LogBlocks : b \notin Lg!ToSet(lh) => cache[b] = home[b]
    BY DEF LgIInv, LgStageInv, LgTypeInv, LgSleepInv, LgCommitting
  <1>1. /\ DOMAIN lh = 1..Len(lh)
        /\ \A b : b \in Lg!ToSet(lh) <=> \E i \in 1..Len(lh) : lh[i] = b
    BY <1>0, LgInList
  <1>2. Lg!Durable' = [b \in LogBlocks |-> IF b \in Lg!ToSet(lh) THEN logSlots[CHOOSE i \in DOMAIN lh : lh[i] = b]
                                           ELSE home[b]]
    BY DEF Lg!Durable, Lg!ToSet
  <1>3. \A b \in LogBlocks : Lg!Durable'[b] = cache[b]
    <2>1. ASSUME NEW b \in LogBlocks, b \in Lg!ToSet(lh)
          PROVE  Lg!Durable'[b] = cache[b]
      <3>1. PICK i \in 1..Len(lh) : i = CHOOSE j \in DOMAIN lh : lh[j] = b
        BY <1>1, <2>1
      <3>2. lh[i] = b
        BY <1>1, <2>1, <3>1
      <3>. QED  BY <1>0, <1>2, <2>1, <3>1, <3>2
    <2>2. ASSUME NEW b \in LogBlocks, b \notin Lg!ToSet(lh)
          PROVE  Lg!Durable'[b] = cache[b]
      BY <1>0, <1>2, <2>2
    <2>. QED  BY <2>1, <2>2
  <1>4. Lg!Durable' = cache
    BY <1>0, <1>2, <1>3
  <1>. QED  BY <1>0, <1>4 DEF Lg!A!Commit, Lg!Seen, Lg!InOp, Lg!Booting

LEMMA LgDoneMaps == ASSUME LgSizes, LgIInv, Lg!Done PROVE Lg!A!EndOp
  <1>. USE DEF Lg!Done
  <1>1. cache = home /\ Lg!Durable = home /\ Lg!Durable' = Lg!Durable
    BY LgHome, LgDurableHome, LgDurableSame DEF LgIInv, LgStageInv
  <1>2. outstanding = 0 /\ committing
    BY LgNoneOpen DEF LgIInv, LgSleepInv, LgCommitting
  <1>. QED  BY <1>1, <1>2 DEF Lg!A!EndOp, Lg!Seen, Lg!InOp, Lg!Booting

LEMMA LgCrashMaps == ASSUME Lg!Crash PROVE Lg!A!Crash
  <1>1. Lg!Durable' = Lg!Durable
    BY LgDurableSame DEF Lg!Crash
  <1>. QED  BY <1>1 DEF Lg!Crash, Lg!A!Crash, Lg!Seen, Lg!InOp, Lg!Booting

LEMMA LgOthersMap ==
    ASSUME LgSizes, LgIInv,
           Lg!WriteLog \/ Lg!ReadHead \/ (\E b \in LogBlocks : Lg!Recycle(b)) \/ UNCHANGED Lg!vars
    PROVE  UNCHANGED Lg!A!diskVars
  <1>1. CASE Lg!WriteLog
    <2>1. logHead = <<>> /\ logHead' = <<>> /\ Lg!ToSet(logHead) = {} /\ Lg!ToSet(logHead') = {} /\ home' = home
      BY <1>1 DEF Lg!WriteLog, LgIInv, LgStageInv, Lg!ToSet
    <2>2. Lg!Durable' = Lg!Durable
      BY <2>1 DEF Lg!Durable
    <2>. QED  BY <1>1, <2>2, LgStutter DEF Lg!WriteLog, Lg!Advance, Lg!Booting
  <1>2. CASE Lg!ReadHead
    BY <1>2, LgDurableSame, LgStutter DEF Lg!ReadHead, Lg!Booting
  <1>3. ASSUME NEW b \in LogBlocks, Lg!Recycle(b) PROVE UNCHANGED Lg!A!diskVars
    <2>1. cache' = cache
      BY <1>3 DEF Lg!Recycle, LgIInv, LgTypeInv, LgStageInv
    <2>. QED  BY <1>3, <2>1, LgDurableSame, LgStutter DEF Lg!Recycle, Lg!Booting
  <1>4. CASE UNCHANGED Lg!vars
    BY <1>4, LgDurableSame, LgStutter DEF Lg!vars, Lg!Booting
  <1>. QED  BY <1>1, <1>2, <1>3, <1>4

LEMMA LgStepMaps ==
    ASSUME LgSizes, LgIInv, LgIInv', [Lg!Next]_Lg!vars
    PROVE  [Lg!A!Next]_Lg!A!diskVars
  <1>1. CASE \E p \in LogProcs : Lg!BeginOp(p) \/ Lg!EndOp(p) \/ \E b \in LogBlocks, v \in LogVals : Lg!LogWrite(p, b, v)
    BY <1>1, LgBeginOpMaps, LgEndOpMaps, LgLogWriteMaps
  <1>2. CASE \/ Lg!Install("install", "erase") \/ Lg!Install("recover", "clear")
             \/ Lg!Erase("erase", "done") \/ Lg!Erase("clear", "up")
    BY <1>2, LgInstallMaps, LgEraseMaps
  <1>3. CASE Lg!WriteHead \/ Lg!Done \/ Lg!Crash
    BY <1>3, LgWriteHeadMaps, LgDoneMaps, LgCrashMaps DEF Lg!A!Next
  <1>4. CASE Lg!WriteLog \/ Lg!ReadHead \/ (\E b \in LogBlocks : Lg!Recycle(b)) \/ UNCHANGED Lg!vars
    BY <1>4, LgOthersMap
  <1>. QED  BY <1>1, <1>2, <1>3, <1>4 DEF Lg!Next

(* The disk changes only at the commit, when no operation is open. *)
LEMMA LgWhole ==
    ASSUME LgSizes, LgIInv, LgIInv', [Lg!Next]_Lg!vars, Lg!Durable' # Lg!Durable
    PROVE  \A p \in LogProcs : logPc[p] # "op"
  <1>1. CASE \E p \in LogProcs : Lg!BeginOp(p) \/ Lg!EndOp(p) \/ \E b \in LogBlocks, v \in LogVals : Lg!LogWrite(p, b, v)
    BY <1>1, LgDurableSame DEF Lg!BeginOp, Lg!EndOp, Lg!LogWrite
  <1>2. CASE \/ Lg!Install("install", "erase") \/ Lg!Install("recover", "clear")
             \/ Lg!Erase("erase", "done") \/ Lg!Erase("clear", "up")
    BY <1>2, LgInstallMaps, LgEraseMaps DEF Lg!A!diskVars
  <1>3. CASE Lg!Done \/ Lg!Crash
    BY <1>3, LgDurableSame DEF Lg!Done, Lg!Crash
  <1>4. CASE Lg!WriteLog \/ Lg!ReadHead \/ (\E b \in LogBlocks : Lg!Recycle(b)) \/ UNCHANGED Lg!vars
    BY <1>4, LgOthersMap DEF Lg!A!diskVars
  <1>5. CASE Lg!WriteHead
    BY <1>5, LgNoneOpen DEF Lg!WriteHead
  <1>. QED  BY <1>1, <1>2, <1>3, <1>4, <1>5 DEF Lg!Next

LEMMA LgInitMaps == ASSUME LgSizes PROVE Lg!Init => Lg!A!Init
  <1>. SUFFICES ASSUME Lg!Init PROVE Lg!A!Init
    OBVIOUS
  <1>1. LgIInv /\ logHead = <<>>
    BY LgInit DEF Lg!Init
  <1>2. Lg!Durable = home
    BY <1>1, LgDurableHome
  <1>. QED  BY <1>1, <1>2 DEF Lg!Init, Lg!A!Init, Lg!Seen, Lg!InOp, Lg!Booting, LgIInv,
      LgTypeInv

LEMMA LgEnough == ASSUME LgSizes, LgIInv PROVE Lg!Reservation /\ Lg!SleepersBlocked
  <1>1. ASSUME kernel = "panic" PROVE outstanding >= 1
    BY <1>1, LgOutstanding DEF LgIInv, LgPanicInv
  <1>2. ASSUME kernel = "panic", NEW p \in LogProcs, logPc[p] = "op" PROVE ~Lg!MayAdd(p)
    BY <1>2, LgMayAdd DEF LgIInv, LgPanicInv, LgOpen
  <1>3. Lg!Reservation
    BY <1>1, <1>2 DEF LgIInv, LgPanicInv, Lg!Reservation
  <1>. QED  BY <1>3 DEF LgIInv, LgSleepInv, Lg!SleepersBlocked

LEMMA LgLogWorks == ASSUME LgSizes PROVE Lg!Spec => Lg!LogWorks
  <1>1. LgIInv /\ LgIInv' /\ [Lg!Next]_Lg!vars => [Lg!A!Next]_Lg!A!diskVars
    BY LgStepMaps
  <1>2. LgIInv /\ LgIInv' /\ [Lg!Next]_Lg!vars => [Lg!Durable' # Lg!Durable => \A p \in LogProcs : logPc[p] # "op"]_Lg!vars
    BY LgWhole
  <1>3. LgIInv => Lg!Reservation /\ Lg!SleepersBlocked
    BY LgEnough
  <1>4. Lg!Spec => []LgIInv
    BY LgInit, LgNext, PTL DEF Lg!Spec
  <1>5. Lg!Spec => Lg!ImplementsAtomicDisk
    BY <1>1, <1>4, LgInitMaps, PTL DEF Lg!Spec, Lg!ImplementsAtomicDisk, Lg!A!Spec
  <1>6. Lg!Spec => Lg!NoHalfOp
    BY <1>2, <1>4, PTL DEF Lg!Spec, Lg!NoHalfOp
  <1>7. Lg!Spec => [](Lg!Reservation /\ Lg!SleepersBlocked)
    BY <1>3, <1>4, PTL
  <1>. QED  BY <1>5, <1>6, <1>7, PTL DEF Lg!LogWorks

-----------------------------------------------------------------------------
(* The console (console.c).  A counter and its wrap have the same slot, so  *)
(* that the ring is read off the distances between its counters.           *)

CoSizes ==
    /\ INPUT_BUF_SIZE \in Nat \ {0}
    /\ ConsWrap \in Nat /\ ConsWrap > INPUT_BUF_SIZE /\ ConsWrap % INPUT_BUF_SIZE = 0
    /\ "nl" \in ConsKeys

(* How much there is for the readers, and how much can be taken back. *)
CoLines == Co!Distance(consR, consW)
CoTyping == Co!Distance(consW, consE)

CoTypeInv ==
    /\ cons \in [0..(INPUT_BUF_SIZE - 1) -> ConsKeys]
    /\ consR \in 0..(ConsWrap - 1) /\ consW \in 0..(ConsWrap - 1) /\ consE \in 0..(ConsWrap - 1)
    /\ consPc \in [ConsProcs -> {"user", "loop", "asleep", "woken"}]

(* w is between r and e, and what they hold fits. *)
CoRingInv == CoLines + CoTyping <= INPUT_BUF_SIZE

(* No line ends among what can be taken back. *)
CoTypingInv ==
    \A j \in 1..CoTyping : cons[(consW + j - 1) % INPUT_BUF_SIZE] \notin {"nl", "^D"}

CoSleepInv == \A p \in ConsProcs : consPc[p] = "asleep" => Co!Empty

CoIInv == CoTypeInv /\ CoRingInv /\ CoTypingInv /\ CoSleepInv

(* A counter and its wrap have the same slot. *)
LEMMA CoSlot ==
    ASSUME CoSizes, NEW a \in Int
    PROVE  /\ Co!Slot(a) \in 0..(INPUT_BUF_SIZE - 1)
           /\ Co!Slot(a % ConsWrap) = Co!Slot(a)
           /\ Co!Slot(a + ConsWrap) = Co!Slot(a)
  <1>1. ConsWrap \in Nat \ {0} /\ INPUT_BUF_SIZE \in Nat \ {0} /\ ConsWrap % INPUT_BUF_SIZE = 0
    BY DEF CoSizes
  <1>2. PICK m \in Int : ConsWrap = INPUT_BUF_SIZE * m
    <2>1. ConsWrap = INPUT_BUF_SIZE * (ConsWrap \div INPUT_BUF_SIZE) /\ (ConsWrap \div INPUT_BUF_SIZE) \in Int
      BY <1>1, PpDivMod
    <2>. QED  BY <2>1
  <1>3. PICK q \in Int, s \in Int : a = ConsWrap * q + s /\ s = a % ConsWrap
    <2>1. /\ (a \div ConsWrap) \in Int /\ (a % ConsWrap) \in 0..(ConsWrap - 1)
          /\ a = ConsWrap * (a \div ConsWrap) + (a % ConsWrap)
      BY <1>1, PpDivMod
    <2>. QED  BY <2>1
  <1>4. PICK u \in Int, v \in 0..(INPUT_BUF_SIZE - 1) :
            s = INPUT_BUF_SIZE * u + v /\ v = s % INPUT_BUF_SIZE
    <2>1. /\ (s \div INPUT_BUF_SIZE) \in Int /\ (s % INPUT_BUF_SIZE) \in 0..(INPUT_BUF_SIZE - 1)
          /\ s = INPUT_BUF_SIZE * (s \div INPUT_BUF_SIZE) + (s % INPUT_BUF_SIZE)
      BY <1>1, <1>3, PpDivMod
    <2>. QED  BY <2>1
  <1>5. a % INPUT_BUF_SIZE = v
    <2>1. PICK u1 \in Int : u1 = m * q + u
      BY <1>2, <1>3, <1>4
    <2>2. a = INPUT_BUF_SIZE * u1 + v
      <3>1. ASSUME NEW x \in Int, NEW y \in Int, NEW z \in Int PROVE (x * y) * z = x * (y * z)
        OBVIOUS
      <3>2. ConsWrap * q = INPUT_BUF_SIZE * (m * q)
        BY <1>1, <1>2, <1>3, <3>1
      <3>3. m * q \in Int
        BY <1>2, <1>3
      <3>4. INPUT_BUF_SIZE * u1 = INPUT_BUF_SIZE * (m * q) + INPUT_BUF_SIZE * u
        BY <1>1, <1>4, <2>1, <3>3
      <3>5. PICK A \in Int, B \in Int : A = ConsWrap * q /\ B = INPUT_BUF_SIZE * u
        BY <1>1, <1>3, <1>4
      <3>6. INPUT_BUF_SIZE * u1 = A + B
        BY <3>2, <3>4, <3>5
      <3>7. a = A + s
        BY <1>3, <3>5
      <3>8. s = B + v
        BY <1>4, <3>5
      <3>9. v \in Int
        OBVIOUS
      <3>. QED  BY <3>6, <3>7, <3>8, <3>9
    <2>. QED  BY <1>1, <1>4, <2>1, <2>2, PpModIs
  <1>6. Co!Slot(a) \in 0..(INPUT_BUF_SIZE - 1)
    BY <1>5 DEF Co!Slot
  <1>7. Co!Slot(a % ConsWrap) = Co!Slot(a)
    BY <1>3, <1>4, <1>5 DEF Co!Slot
  <1>8. Co!Slot(a + ConsWrap) = Co!Slot(a)
    BY <1>1, PpModShift DEF Co!Slot
  <1>. QED  BY <1>6, <1>7, <1>8

(* Two characters of the ring, less than its size apart, have two slots. *)
LEMMA CoSlotsDiffer ==
    ASSUME CoSizes, NEW a \in Int, NEW b \in Int, a < b, b - a < INPUT_BUF_SIZE
    PROVE  Co!Slot(a) # Co!Slot(b)
  <1>1. SUFFICES ASSUME (a % INPUT_BUF_SIZE) = (b % INPUT_BUF_SIZE) PROVE FALSE
    BY DEF Co!Slot
  <1>2. PICK c \in Int, d \in Int, v \in 0..(INPUT_BUF_SIZE - 1) :
            a = INPUT_BUF_SIZE * c + v /\ b = INPUT_BUF_SIZE * d + v
    <2>1. /\ (a \div INPUT_BUF_SIZE) \in Int
          /\ a = INPUT_BUF_SIZE * (a \div INPUT_BUF_SIZE) + (a % INPUT_BUF_SIZE)
          /\ (b \div INPUT_BUF_SIZE) \in Int
          /\ b = INPUT_BUF_SIZE * (b \div INPUT_BUF_SIZE) + (b % INPUT_BUF_SIZE)
          /\ (a % INPUT_BUF_SIZE) \in 0..(INPUT_BUF_SIZE - 1)
      BY PpDivMod DEF CoSizes
    <2>. QED  BY <2>1, <1>1
  <1>3. INPUT_BUF_SIZE * (d - c) = b - a /\ INPUT_BUF_SIZE \in Nat \ {0}
    BY <1>2 DEF CoSizes
  <1>4. d - c >= 1 => INPUT_BUF_SIZE * (d - c) >= INPUT_BUF_SIZE
    BY <1>3
  <1>5. d - c <= 0 => INPUT_BUF_SIZE * (d - c) <= 0
    BY <1>3
  <1>. QED  BY <1>3, <1>4, <1>5

LEMMA CoDistance ==
    ASSUME CoSizes, NEW a \in 0..(ConsWrap - 1), NEW b \in 0..(ConsWrap - 1)
    PROVE  Co!Distance(a, b) = IF b >= a THEN b - a ELSE b - a + ConsWrap
  <1>1. ConsWrap \in Nat \ {0}
    BY DEF CoSizes
  <1>. QED  BY <1>1, PpModDiff DEF Co!Distance

LEMMA CoPlus ==
    ASSUME CoSizes, NEW a \in 0..(ConsWrap - 1), NEW d \in 0..(ConsWrap - 1)
    PROVE  /\ Co!Plus(a, d) = IF a + d < ConsWrap THEN a + d ELSE a + d - ConsWrap
           /\ Co!Plus(a, -d) = IF a >= d THEN a - d ELSE a - d + ConsWrap
  <1>1. ConsWrap \in Nat \ {0}
    BY DEF CoSizes
  <1>2. (a + d) % ConsWrap = IF a + d < ConsWrap THEN a + d ELSE a + d - ConsWrap
    BY <1>1, PpModDiff
  <1>3. (a - d) % ConsWrap = IF a >= d THEN a - d ELSE a - d + ConsWrap
    BY <1>1, PpModDiff
  <1>4. a + (-d) = a - d
    OBVIOUS
  <1>. QED  BY <1>2, <1>3, <1>4 DEF Co!Plus

(* Where w and e are from r. *)
LEMMA CoCounters ==
    ASSUME CoSizes, CoTypeInv, CoRingInv
    PROVE  /\ CoLines \in Nat /\ CoTyping \in Nat /\ CoLines + CoTyping <= INPUT_BUF_SIZE
           /\ INPUT_BUF_SIZE \in Nat \ {0} /\ INPUT_BUF_SIZE < ConsWrap /\ ConsWrap \in Nat
           /\ consW = consR + CoLines \/ consW + ConsWrap = consR + CoLines
           /\ consE = consW + CoTyping \/ consE + ConsWrap = consW + CoTyping
           /\ Co!Distance(consR, consE) = CoLines + CoTyping
           /\ Co!Empty <=> CoLines = 0
           /\ consE = consW <=> CoTyping = 0
  <1>1. /\ CoLines = IF consW >= consR THEN consW - consR ELSE consW - consR + ConsWrap
        /\ CoTyping = IF consE >= consW THEN consE - consW ELSE consE - consW + ConsWrap
        /\ Co!Distance(consR, consE) = IF consE >= consR THEN consE - consR ELSE consE - consR + ConsWrap
    BY CoDistance DEF CoLines, CoTyping, CoTypeInv
  <1>2. /\ consR \in 0..(ConsWrap - 1) /\ consW \in 0..(ConsWrap - 1) /\ consE \in 0..(ConsWrap - 1)
        /\ CoLines + CoTyping <= INPUT_BUF_SIZE
        /\ INPUT_BUF_SIZE \in Nat \ {0} /\ INPUT_BUF_SIZE < ConsWrap /\ ConsWrap \in Nat
    BY DEF CoTypeInv, CoRingInv, CoSizes
  <1>. QED  BY <1>1, <1>2 DEF Co!Empty

(* A stretch of a ring, character by character. *)
CoStretch(ring, a, m) == [j \in 1..m |-> ring[Co!Slot(Co!Plus(a, j - 1))]]

LEMMA CoReading ==
    ASSUME CoSizes, NEW ring \in [0..(INPUT_BUF_SIZE - 1) -> ConsKeys], NEW a \in Int, NEW m \in Nat,
           NEW s, s = CoStretch(ring, a, m)
    PROVE  /\ s \in Seq(ConsKeys) /\ Len(s) = m
           /\ \A j \in 1..m : s[j] = ring[Co!Slot(a + j - 1)] /\ s[j] \in ConsKeys
  <1>1. ASSUME NEW j \in Int
        PROVE  Co!Slot(Co!Plus(a, j - 1)) = Co!Slot(a + j - 1) /\ ring[Co!Slot(a + j - 1)] \in ConsKeys
    <2>1. PICK x \in Int : x = a + j - 1 /\ x = a + (j - 1)
      OBVIOUS
    <2>2. Co!Slot(x) \in 0..(INPUT_BUF_SIZE - 1) /\ Co!Slot(x % ConsWrap) = Co!Slot(x)
      BY CoSlot
    <2>3. Co!Slot(Co!Plus(a, j - 1)) = Co!Slot(x)
      BY <2>1, <2>2 DEF Co!Plus
    <2>4. Co!Slot(a + j - 1) = Co!Slot(x)
      BY <2>1
    <2>5. ring[Co!Slot(x)] \in ConsKeys
      BY <2>2
    <2>. QED  BY <2>3, <2>4, <2>5
  <1>2. \A j \in 1..m : s[j] = ring[Co!Slot(a + j - 1)] /\ s[j] \in ConsKeys
    BY <1>1 DEF CoStretch
  <1>3. s \in [1..m -> ConsKeys]
    BY <1>2 DEF CoStretch
  <1>. QED  BY <1>2, <1>3

(* What the ring holds. *)
LEMMA CoSlices ==
    ASSUME CoSizes, CoTypeInv, CoRingInv
    PROVE  /\ Co!lines \in Seq(ConsKeys) /\ Len(Co!lines) = CoLines
           /\ Co!typing \in Seq(ConsKeys) /\ Len(Co!typing) = CoTyping
           /\ \A j \in 1..CoLines : Co!lines[j] = cons[Co!Slot(consR + j - 1)] /\ Co!lines[j] \in ConsKeys
           /\ \A j \in 1..CoTyping : Co!typing[j] = cons[Co!Slot(consW + j - 1)] /\ Co!typing[j] \in ConsKeys
           /\ \A j \in Int : Co!Slot(consW + j) = Co!Slot(consR + CoLines + j) /\ Co!Slot(consE + j) = Co!Slot(consW + CoTyping + j)
  <1>0. /\ CoLines \in Nat /\ CoTyping \in Nat
        /\ consW = consR + CoLines \/ consW + ConsWrap = consR + CoLines
        /\ consE = consW + CoTyping \/ consE + ConsWrap = consW + CoTyping
        /\ consR \in Int /\ consW \in Int /\ consE \in Int /\ ConsWrap \in Nat
    BY CoCounters DEF CoTypeInv
  <1>1. /\ Co!lines = CoStretch(cons, consR, CoLines)
        /\ Co!typing = CoStretch(cons, consW, CoTyping)
        /\ cons \in [0..(INPUT_BUF_SIZE - 1) -> ConsKeys]
    BY DEF Co!lines, Co!typing, Co!Slice, CoStretch, CoLines, CoTyping, CoTypeInv
  <1>2. Co!lines \in Seq(ConsKeys) /\ Len(Co!lines) = CoLines
        /\ \A j \in 1..CoLines : Co!lines[j] = cons[Co!Slot(consR + j - 1)] /\ Co!lines[j] \in ConsKeys
    <2>1. PICK x : x = Co!lines
      OBVIOUS
    <2>2. PICK m \in Nat : m = CoLines
      BY <1>0, <1>1
    <2>3. PICK a \in Int : a = consR
      BY <1>0, <1>1
    <2>4. x = CoStretch(cons, a, m) /\ cons \in [0..(INPUT_BUF_SIZE - 1) -> ConsKeys]
      BY <1>1, <2>1, <2>2, <2>3
    <2>5. x \in Seq(ConsKeys) /\ Len(x) = m /\ \A j \in 1..m : x[j] = cons[Co!Slot(a + j - 1)] /\ x[j] \in ConsKeys
      BY <2>4, CoReading DEF CoSizes
    <2>. QED  BY <2>1, <2>2, <2>3, <2>5
  <1>3. Co!typing \in Seq(ConsKeys) /\ Len(Co!typing) = CoTyping
        /\ \A j \in 1..CoTyping : Co!typing[j] = cons[Co!Slot(consW + j - 1)] /\ Co!typing[j] \in ConsKeys
    <2>1. PICK x : x = Co!typing
      OBVIOUS
    <2>2. PICK m \in Nat : m = CoTyping
      BY <1>0, <1>1
    <2>3. PICK a \in Int : a = consW
      BY <1>0, <1>1
    <2>4. x = CoStretch(cons, a, m) /\ cons \in [0..(INPUT_BUF_SIZE - 1) -> ConsKeys]
      BY <1>1, <2>1, <2>2, <2>3
    <2>5. x \in Seq(ConsKeys) /\ Len(x) = m /\ \A j \in 1..m : x[j] = cons[Co!Slot(a + j - 1)] /\ x[j] \in ConsKeys
      BY <2>4, CoReading DEF CoSizes
    <2>. QED  BY <2>1, <2>2, <2>3, <2>5
  <1>4. ASSUME NEW j \in Int
        PROVE  Co!Slot(consW + j) = Co!Slot(consR + CoLines + j) /\ Co!Slot(consE + j) = Co!Slot(consW + CoTyping + j)
    <2>1. PICK x \in Int : x = consW + j
      BY <1>0
    <2>2. PICK y \in Int : y = consE + j
      BY <1>0
    <2>3. Co!Slot(x + ConsWrap) = Co!Slot(x) /\ Co!Slot(y + ConsWrap) = Co!Slot(y)
      BY CoSlot
    <2>4. consR + CoLines + j = x \/ consR + CoLines + j = x + ConsWrap
      BY <1>0, <2>1
    <2>5. consW + CoTyping + j = y \/ consW + CoTyping + j = y + ConsWrap
      BY <1>0, <2>2
    <2>. QED  BY <2>1, <2>2, <2>3, <2>4, <2>5
  <1>. QED  BY <1>2, <1>3, <1>4

(* The same of the state after a step. *)
LEMMA CoSlicesAfter ==
    ASSUME CoSizes, CoTypeInv', CoLines' \in Nat, CoTyping' \in Nat
    PROVE  /\ Co!lines' \in Seq(ConsKeys) /\ Len(Co!lines') = CoLines'
           /\ Co!typing' \in Seq(ConsKeys) /\ Len(Co!typing') = CoTyping'
           /\ \A j \in 1..CoLines' : Co!lines'[j] = cons'[Co!Slot(consR' + j - 1)]
           /\ \A j \in 1..CoTyping' : Co!typing'[j] = cons'[Co!Slot(consW' + j - 1)]
  <1>1. /\ Co!lines' = CoStretch(cons', consR', CoLines')
        /\ Co!typing' = CoStretch(cons', consW', CoTyping')
        /\ cons' \in [0..(INPUT_BUF_SIZE - 1) -> ConsKeys]
        /\ consR' \in Int /\ consW' \in Int
    BY DEF Co!lines, Co!typing, Co!Slice, CoStretch, CoLines, CoTyping, CoTypeInv, Co!Slot,
        Co!Plus, CoSizes
  <1>2. Co!lines' \in Seq(ConsKeys) /\ Len(Co!lines') = CoLines'
        /\ \A j \in 1..CoLines' : Co!lines'[j] = cons'[Co!Slot(consR' + j - 1)]
    <2>1. PICK x : x = Co!lines'
      OBVIOUS
    <2>2. PICK m \in Nat : m = CoLines'
      BY <1>1
    <2>3. PICK a \in Int : a = consR'
      BY <1>1
    <2>4. x = CoStretch(cons', a, m) /\ cons' \in [0..(INPUT_BUF_SIZE - 1) -> ConsKeys]
      BY <1>1, <2>1, <2>2, <2>3
    <2>5. x \in Seq(ConsKeys) /\ Len(x) = m /\ \A j \in 1..m : x[j] = cons'[Co!Slot(a + j - 1)] /\ x[j] \in ConsKeys
      <3>1. PICK g \in [0..(INPUT_BUF_SIZE - 1) -> ConsKeys] : g = cons'
        BY <2>4
      <3>2. x = CoStretch(g, a, m)
        BY <2>4, <3>1
      <3>3. x \in Seq(ConsKeys) /\ Len(x) = m /\ \A j \in 1..m : x[j] = g[Co!Slot(a + j - 1)] /\ x[j] \in ConsKeys
        BY <3>2, CoReading DEF CoSizes
      <3>. QED  BY <3>1, <3>3
    <2>. QED  BY <2>1, <2>2, <2>3, <2>5
  <1>3. Co!typing' \in Seq(ConsKeys) /\ Len(Co!typing') = CoTyping'
        /\ \A j \in 1..CoTyping' : Co!typing'[j] = cons'[Co!Slot(consW' + j - 1)]
    <2>1. PICK x : x = Co!typing'
      OBVIOUS
    <2>2. PICK m \in Nat : m = CoTyping'
      BY <1>1
    <2>3. PICK a \in Int : a = consW'
      BY <1>1
    <2>4. x = CoStretch(cons', a, m) /\ cons' \in [0..(INPUT_BUF_SIZE - 1) -> ConsKeys]
      BY <1>1, <2>1, <2>2, <2>3
    <2>5. x \in Seq(ConsKeys) /\ Len(x) = m /\ \A j \in 1..m : x[j] = cons'[Co!Slot(a + j - 1)] /\ x[j] \in ConsKeys
      <3>1. PICK g \in [0..(INPUT_BUF_SIZE - 1) -> ConsKeys] : g = cons'
        BY <2>4
      <3>2. x = CoStretch(g, a, m)
        BY <2>4, <3>1
      <3>3. x \in Seq(ConsKeys) /\ Len(x) = m /\ \A j \in 1..m : x[j] = g[Co!Slot(a + j - 1)] /\ x[j] \in ConsKeys
        BY <3>2, CoReading DEF CoSizes
      <3>. QED  BY <3>1, <3>3
    <2>. QED  BY <2>1, <2>2, <2>3, <2>5
  <1>. QED  BY <1>2, <1>3

LEMMA CoInit == ASSUME CoSizes PROVE Co!Init => CoIInv
  <1>. SUFFICES ASSUME Co!Init PROVE CoIInv
    OBVIOUS
  <1>1. CoTypeInv
    BY DEF CoSizes, Co!Init, CoTypeInv
  <1>2. CoLines = 0 /\ CoTyping = 0
    BY <1>1, CoDistance DEF Co!Init, CoTypeInv, CoLines, CoTyping
  <1>3. CoRingInv /\ CoTypingInv
    BY <1>2 DEF CoRingInv, CoTypingInv, CoSizes
  <1>4. CoSleepInv
    BY DEF Co!Init, CoSleepInv
  <1>. QED  BY <1>1, <1>3, <1>4 DEF CoIInv

(* What is stored for a key, and whether it ends what is being typed. *)
CoKey(c) == IF c = "cr" THEN "nl" ELSE c
CoEnds(c) == CoKey(c) \in {"nl", "^D"} \/ CoLines + CoTyping + 1 = INPUT_BUF_SIZE

LEMMA CoKeyFacts ==
    ASSUME CoSizes, CoIInv, NEW c \in ConsKeys \cup {"cr"}, Co!Key(c)
    PROVE  /\ CoLines + CoTyping < INPUT_BUF_SIZE
           /\ CoTypeInv'
           /\ \A j \in 1..CoLines : cons'[Co!Slot(consR + j - 1)] = Co!lines[j]
           /\ \A j \in 1..CoTyping : cons'[Co!Slot(consR + CoLines + j - 1)] = Co!typing[j]
           /\ cons'[Co!Slot(consR + CoLines + CoTyping)] = CoKey(c) /\ CoKey(c) \in ConsKeys
           /\ consR' = consR
           /\ CoEnds(c) => consW' = consE' /\ CoLines' = CoLines + CoTyping + 1 /\ CoTyping' = 0
           /\ ~CoEnds(c) => consW' = consW /\ CoLines' = CoLines /\ CoTyping' = CoTyping + 1
  <1>. DEFINE key == CoKey(c)
  <1>0. /\ CoTypeInv /\ CoRingInv
        /\ consR \in 0..(ConsWrap - 1) /\ consW \in 0..(ConsWrap - 1) /\ consE \in 0..(ConsWrap - 1)
        /\ cons \in [0..(INPUT_BUF_SIZE - 1) -> ConsKeys]
    BY DEF CoIInv, CoTypeInv
  <1>1. /\ CoLines \in Nat /\ CoTyping \in Nat /\ CoLines + CoTyping <= INPUT_BUF_SIZE
        /\ INPUT_BUF_SIZE \in Nat \ {0} /\ INPUT_BUF_SIZE < ConsWrap /\ ConsWrap \in Nat
        /\ consW = consR + CoLines \/ consW + ConsWrap = consR + CoLines
        /\ consE = consW + CoTyping \/ consE + ConsWrap = consW + CoTyping
        /\ Co!Distance(consR, consE) = CoLines + CoTyping
    BY <1>0, CoCounters
  <1>2. CoLines + CoTyping < INPUT_BUF_SIZE
    BY <1>1 DEF Co!Key
  <1>3. /\ cons' = [cons EXCEPT ![Co!Slot(consE)] = key] /\ consE' = Co!Plus(consE, 1) /\ consR' = consR
        /\ IF key \in {"nl", "^D"} \/ Co!Distance(consR, consE') = INPUT_BUF_SIZE
           THEN consW' = consE' /\ consPc' = [p \in ConsProcs |-> IF consPc[p] = "asleep" THEN "woken" ELSE consPc[p]]
           ELSE consW' = consW /\ consPc' = consPc
    BY DEF Co!Key, CoKey
  <1>4. consE' = IF consE + 1 < ConsWrap THEN consE + 1 ELSE consE + 1 - ConsWrap
    <2>1. 1 \in 0..(ConsWrap - 1)
      BY <1>1
    <2>. QED  BY <1>0, <1>3, <2>1, CoPlus
  <1>5. consE' \in 0..(ConsWrap - 1)
    BY <1>0, <1>1, <1>4
  <1>6. Co!Distance(consR, consE') = CoLines + CoTyping + 1
    <2>1. Co!Distance(consR, consE') = IF consE' >= consR THEN consE' - consR ELSE consE' - consR + ConsWrap
      BY <1>0, <1>5, CoDistance
    <2>. QED  BY <1>0, <1>1, <1>2, <1>4, <1>5, <2>1
  <1>7. Co!Distance(consW, consE') = CoTyping + 1
    <2>1. Co!Distance(consW, consE') = IF consE' >= consW THEN consE' - consW ELSE consE' - consW + ConsWrap
      BY <1>0, <1>5, CoDistance
    <2>. QED  BY <1>0, <1>1, <1>2, <1>4, <1>5, <2>1
  <1>8. Co!Distance(consE', consE') = 0
    BY <1>5, CoDistance
  <1>9. key \in ConsKeys
    BY DEF CoKey, CoSizes
  <1>10. CoTypeInv'
    <2>1. consPc' \in [ConsProcs -> {"user", "loop", "asleep", "woken"}]
      BY <1>3 DEF CoIInv, CoTypeInv
    <2>2. cons' \in [0..(INPUT_BUF_SIZE - 1) -> ConsKeys]
      BY <1>0, <1>3, <1>9
    <2>. QED  BY <1>0, <1>3, <1>5, <2>1, <2>2 DEF CoTypeInv
  <1>11. Co!Slot(consE) = Co!Slot(consR + CoLines + CoTyping) /\ Co!Slot(consE) \in 0..(INPUT_BUF_SIZE - 1)
    <2>0. \A j \in Int : Co!Slot(consW + j) = Co!Slot(consR + CoLines + j) /\ Co!Slot(consE + j) = Co!Slot(consW + CoTyping + j)
      BY <1>0, CoSlices
    <2>1. Co!Slot(consE + 0) = Co!Slot(consW + CoTyping + 0) /\ Co!Slot(consW + CoTyping) = Co!Slot(consR + CoLines + CoTyping)
      BY <1>1, <2>0
    <2>2. consE + 0 = consE /\ consW + CoTyping + 0 = consW + CoTyping
      BY <1>0, <1>1
    <2>. QED  BY <1>0, <2>1, <2>2, CoSlot
  <1>12. ASSUME NEW j \in 1..(CoLines + CoTyping)
         PROVE  cons'[Co!Slot(consR + j - 1)] = cons[Co!Slot(consR + j - 1)]
    <2>1. PICK a \in Int : a = consR + j - 1
      BY <1>0, <1>1
    <2>2. PICK b \in Int : b = consR + CoLines + CoTyping
      BY <1>0, <1>1
    <2>3. a < b /\ b - a < INPUT_BUF_SIZE
      BY <1>0, <1>1, <1>2, <2>1, <2>2
    <2>4. Co!Slot(a) # Co!Slot(b) /\ Co!Slot(a) \in 0..(INPUT_BUF_SIZE - 1)
      BY <2>3, CoSlotsDiffer, CoSlot
    <2>. QED  BY <1>0, <1>3, <1>11, <2>1, <2>2, <2>4
  <1>13. \A j \in 1..CoLines : cons'[Co!Slot(consR + j - 1)] = Co!lines[j]
    <2>1. \A j \in 1..CoLines : Co!lines[j] = cons[Co!Slot(consR + j - 1)] /\ j \in 1..(CoLines + CoTyping)
      BY <1>0, <1>1, CoSlices
    <2>. QED  BY <1>12, <2>1
  <1>14. ASSUME NEW j \in 1..CoTyping PROVE cons'[Co!Slot(consR + CoLines + j - 1)] = Co!typing[j]
    <2>1. PICK a \in Int : a = j - 1
      BY <1>1
    <2>2. Co!typing[j] = cons[Co!Slot(consW + j - 1)] /\ Co!Slot(consW + a) = Co!Slot(consR + CoLines + a)
      BY <1>0, <1>1, CoSlices
    <2>3. consW + j - 1 = consW + a /\ consR + CoLines + j - 1 = consR + CoLines + a
      BY <1>0, <1>1, <2>1
    <2>4. PICK m \in 1..(CoLines + CoTyping) : m = CoLines + j
      BY <1>1
    <2>5. consR + CoLines + a = consR + m - 1
      BY <1>0, <1>1, <2>1, <2>4
    <2>6. cons'[Co!Slot(consR + m - 1)] = cons[Co!Slot(consR + m - 1)]
      BY <1>12
    <2>. QED  BY <2>2, <2>3, <2>5, <2>6
  <1>15. cons'[Co!Slot(consR + CoLines + CoTyping)] = key
    BY <1>0, <1>3, <1>11
  <1>16. CoEnds(c) => consW' = consE' /\ CoLines' = CoLines + CoTyping + 1 /\ CoTyping' = 0
    BY <1>3, <1>6, <1>8 DEF CoEnds, CoLines, CoTyping
  <1>17. ~CoEnds(c) => consW' = consW /\ CoLines' = CoLines /\ CoTyping' = CoTyping + 1
    BY <1>3, <1>6, <1>7 DEF CoEnds, CoLines, CoTyping
  <1>. QED  BY <1>2, <1>3, <1>9, <1>10, <1>13, <1>14, <1>15, <1>16, <1>17

LEMMA CoKeyKeeps ==
    ASSUME CoSizes, CoIInv, NEW c \in ConsKeys \cup {"cr"}, Co!Key(c)
    PROVE  CoIInv'
  <1>0. /\ CoLines \in Nat /\ CoTyping \in Nat /\ INPUT_BUF_SIZE \in Nat
        /\ CoTypeInv /\ CoRingInv
        /\ consR \in Int /\ consW \in Int
    <2>1. CoTypeInv /\ CoRingInv
      BY DEF CoIInv
    <2>2. consR \in Int /\ consW \in Int
      BY <2>1 DEF CoTypeInv, CoSizes
    <2>3. CoLines \in Nat /\ CoTyping \in Nat /\ INPUT_BUF_SIZE \in Nat
      BY <2>1, CoCounters
    <2>. QED  BY <2>1, <2>2, <2>3
  <1>1. CoTypeInv'
    BY CoKeyFacts
  <1>2. CoRingInv'
    <2>1. CoLines' + CoTyping' = CoLines + CoTyping + 1 /\ CoLines + CoTyping < INPUT_BUF_SIZE
      BY <1>0, CoKeyFacts
    <2>. QED  BY <1>0, <2>1 DEF CoRingInv
  <1>3. CoTypingInv'
    <2>1. CASE CoEnds(c)
      <3>1. CoTyping' = 0
        BY <2>1, CoKeyFacts
      <3>. QED  BY <3>1 DEF CoTypingInv
    <2>2. CASE ~CoEnds(c)
      <3>1. consW' = consW /\ CoTyping' = CoTyping + 1 /\ CoKey(c) \notin {"nl", "^D"}
        BY <2>2, CoKeyFacts DEF CoEnds
      <3>2. ASSUME NEW j \in 1..(CoTyping + 1)
            PROVE  cons'[(consW + j - 1) % INPUT_BUF_SIZE] \notin {"nl", "^D"}
        <4>1. PICK a \in Int : a = j - 1
          BY <1>0
        <4>2. Co!Slot(consW + a) = Co!Slot(consR + CoLines + a)
          BY <1>0, CoSlices
        <4>3. CASE j \in 1..CoTyping
          <5>1. consR + CoLines + a = consR + CoLines + j - 1 /\ consW + a = consW + j - 1
            BY <1>0, <4>1
          <5>2. cons'[Co!Slot(consR + CoLines + j - 1)] = Co!typing[j]
            BY <4>3, CoKeyFacts
          <5>3. Co!typing[j] = cons[Co!Slot(consW + j - 1)]
            BY <1>0, <4>3, CoSlices
          <5>4. cons[Co!Slot(consW + j - 1)] \notin {"nl", "^D"}
            BY <4>3 DEF CoIInv, CoTypingInv, Co!Slot
          <5>5. cons'[Co!Slot(consW + j - 1)] \notin {"nl", "^D"}
            BY <4>2, <5>1, <5>2, <5>3, <5>4
          <5>. QED  BY <5>5 DEF Co!Slot
        <4>4. CASE j = CoTyping + 1
          <5>1. consR + CoLines + a = consR + CoLines + CoTyping /\ consW + a = consW + j - 1
            BY <1>0, <4>1, <4>4
          <5>2. cons'[Co!Slot(consR + CoLines + CoTyping)] = CoKey(c)
            BY CoKeyFacts
          <5>3. cons'[Co!Slot(consW + j - 1)] \notin {"nl", "^D"}
            BY <3>1, <4>2, <5>1, <5>2
          <5>. QED  BY <5>3 DEF Co!Slot
        <4>. QED  BY <1>0, <4>3, <4>4
      <3>. QED  BY <3>1, <3>2 DEF CoTypingInv
    <2>. QED  BY <2>1, <2>2
  <1>4. CoSleepInv'
    <2>1. CASE CoEnds(c)
      <3>1. Co!Distance(consR, consE') = CoLines + CoTyping + 1 \/ CoKey(c) \in {"nl", "^D"}
        BY <2>1, CoKeyFacts DEF CoLines
      <3>2. \A p \in ConsProcs : consPc'[p] # "asleep"
        <4>1. consW' = consE' /\ CoLines' = CoLines + CoTyping + 1
          BY <2>1, CoKeyFacts
        <4>2. consPc' = [p \in ConsProcs |-> IF consPc[p] = "asleep" THEN "woken" ELSE consPc[p]]
          BY <2>1, <4>1 DEF Co!Key, CoEnds, CoKey, CoLines
        <4>. QED  BY <4>2
      <3>. QED  BY <3>2 DEF CoSleepInv
    <2>2. CASE ~CoEnds(c)
      <3>1. consW' = consW /\ consR' = consR
        BY <2>2, CoKeyFacts
      <3>2. \A p \in ConsProcs : consPc'[p] = "asleep" => consPc[p] = "asleep"
        BY DEF Co!Key, CoIInv, CoTypeInv
      <3>. QED  BY <3>1, <3>2 DEF CoIInv, CoSleepInv, Co!Empty
    <2>. QED  BY <2>1, <2>2
  <1>. QED  BY <1>1, <1>2, <1>3, <1>4 DEF CoIInv

(* Sequences that agree place by place are the same. *)
LEMMA CoSameKeys ==
    ASSUME NEW x \in Seq(ConsKeys), NEW y \in Seq(ConsKeys), NEW n \in Nat,
           Len(x) = n, Len(y) = n, \A j \in 1..n : x[j] = y[j]
    PROVE  x = y
  OBVIOUS

(* A key is added to what is being typed, or ends it. *)
LEMMA CoKeyMaps ==
    ASSUME CoSizes, CoIInv, CoIInv', NEW c \in ConsKeys \cup {"cr"}, Co!Key(c)
    PROVE  Co!Type(CoKey(c)) /\ CoKey(c) \in ConsKeys
  <1>. DEFINE key == CoKey(c)
  <1>0. /\ CoLines \in Nat /\ CoTyping \in Nat /\ INPUT_BUF_SIZE \in Nat
        /\ CoTypeInv /\ CoRingInv /\ CoTypeInv' /\ CoRingInv'
        /\ consR \in Int /\ consW \in Int
    <2>1. CoTypeInv /\ CoRingInv /\ CoTypeInv' /\ CoRingInv'
      BY DEF CoIInv
    <2>2. consR \in Int /\ consW \in Int
      BY <2>1 DEF CoTypeInv, CoSizes
    <2>3. CoLines \in Nat /\ CoTyping \in Nat /\ INPUT_BUF_SIZE \in Nat
      BY <2>1, CoCounters
    <2>. QED  BY <2>1, <2>2, <2>3
  <1>1. /\ CoLines + CoTyping < INPUT_BUF_SIZE
        /\ \A j \in 1..CoLines : cons'[Co!Slot(consR + j - 1)] = Co!lines[j]
        /\ \A j \in 1..CoTyping : cons'[Co!Slot(consR + CoLines + j - 1)] = Co!typing[j]
        /\ cons'[Co!Slot(consR + CoLines + CoTyping)] = key /\ key \in ConsKeys
        /\ consR' = consR
        /\ CoEnds(c) => consW' = consE' /\ CoLines' = CoLines + CoTyping + 1 /\ CoTyping' = 0
        /\ ~CoEnds(c) => consW' = consW /\ CoLines' = CoLines /\ CoTyping' = CoTyping + 1
    BY CoKeyFacts
  <1>2. /\ Co!lines \in Seq(ConsKeys) /\ Len(Co!lines) = CoLines
        /\ Co!typing \in Seq(ConsKeys) /\ Len(Co!typing) = CoTyping
        /\ \A j \in Int : Co!Slot(consW + j) = Co!Slot(consR + CoLines + j)
    BY <1>0, CoSlices
  <1>3. /\ Co!lines' \in Seq(ConsKeys) /\ Len(Co!lines') = CoLines'
        /\ Co!typing' \in Seq(ConsKeys) /\ Len(Co!typing') = CoTyping'
        /\ \A j \in 1..CoLines' : Co!lines'[j] = cons'[Co!Slot(consR' + j - 1)]
        /\ \A j \in 1..CoTyping' : Co!typing'[j] = cons'[Co!Slot(consW' + j - 1)]
    <2>1. CoLines' \in Nat /\ CoTyping' \in Nat
      BY <1>0, <1>1
    <2>. QED  BY <1>0, <2>1, CoSlicesAfter
  <1>5. consRead' = consRead
    BY DEF Co!Key
  <1>6. CASE CoEnds(c)
    <2>1. consW' = consE' /\ CoLines' = CoLines + CoTyping + 1 /\ CoTyping' = 0
      BY <1>1, <1>6
    <2>2. Co!typing' = <<>>
      BY <1>3, <2>1
    <2>3. Append(Co!typing, key) \in Seq(ConsKeys) /\ Len(Append(Co!typing, key)) = CoTyping + 1
          /\ Append(Co!typing, key)[CoTyping + 1] = key
          /\ \A j \in 1..CoTyping : Append(Co!typing, key)[j] = Co!typing[j]
      BY <1>0, <1>1, <1>2
    <2>4. PICK u1 \in Seq(ConsKeys) : u1 = Append(Co!typing, key)
      BY <2>3
    <2>5. /\ Co!lines \o u1 \in Seq(ConsKeys) /\ Len(Co!lines \o u1) = CoLines + CoTyping + 1
          /\ \A j \in 1..CoLines : (Co!lines \o u1)[j] = Co!lines[j]
          /\ \A j \in 1..(CoTyping + 1) : (Co!lines \o u1)[CoLines + j] = u1[j]
      <3>1. Len(u1) = CoTyping + 1 /\ Len(Co!lines) = CoLines /\ Co!lines \in Seq(ConsKeys) /\ u1 \in Seq(ConsKeys)
        BY <1>2, <2>3, <2>4
      <3>2. Co!lines \o u1 \in Seq(ConsKeys)
        BY <3>1
      <3>3. Len(Co!lines \o u1) = CoLines + CoTyping + 1
        BY <1>0, <3>1
      <3>4. \A j \in 1..CoLines : (Co!lines \o u1)[j] = Co!lines[j]
        BY <1>0, <3>1
      <3>5. \A j \in 1..(CoTyping + 1) : (Co!lines \o u1)[CoLines + j] = u1[j]
        BY <1>0, <3>1
      <3>. QED  BY <3>2, <3>3, <3>4, <3>5
    <2>6. ASSUME NEW j \in 1..(CoLines + CoTyping + 1) PROVE Co!lines'[j] = (Co!lines \o u1)[j]
      <3>0. Co!lines'[j] = cons'[Co!Slot(consR + j - 1)]
        BY <1>1, <1>3, <2>1
      <3>1. CASE j \in 1..CoLines
        BY <1>1, <2>5, <3>0, <3>1
      <3>2. CASE j \in (CoLines + 1)..(CoLines + CoTyping)
        <4>1. PICK k1 \in 1..CoTyping : j = CoLines + k1
          <5>1. j - CoLines \in 1..CoTyping /\ j = CoLines + (j - CoLines)
            BY <1>0, <3>2
          <5>. QED  BY <5>1
        <4>2. consR + j - 1 = consR + CoLines + k1 - 1
          BY <1>0, <4>1
        <4>3. cons'[Co!Slot(consR + CoLines + k1 - 1)] = Co!typing[k1]
          BY <1>1
        <4>4. (Co!lines \o u1)[j] = u1[k1] /\ u1[k1] = Co!typing[k1]
          BY <1>0, <2>3, <2>4, <2>5, <4>1
        <4>. QED  BY <3>0, <4>2, <4>3, <4>4
      <3>3. CASE j = CoLines + CoTyping + 1
        <4>1. PICK k1 \in 1..(CoTyping + 1) : k1 = CoTyping + 1 /\ j = CoLines + k1
          BY <1>0, <3>3
        <4>2. consR + j - 1 = consR + CoLines + CoTyping
          BY <1>0, <3>3
        <4>3. (Co!lines \o u1)[j] = u1[k1] /\ u1[k1] = key
          BY <1>0, <2>3, <2>4, <2>5, <4>1
        <4>. QED  BY <1>1, <3>0, <4>2, <4>3
      <3>4. j \in 1..CoLines \/ j \in (CoLines + 1)..(CoLines + CoTyping) \/ j = CoLines + CoTyping + 1
        BY <1>0
      <3>. QED  BY <3>1, <3>2, <3>3, <3>4
    <2>7. Co!lines' = Co!lines \o u1
      <3>1. PICK n \in Nat : n = CoLines + CoTyping + 1
        BY <1>0
      <3>2. PICK x : x = Co!lines'
        OBVIOUS
      <3>3. PICK y : y = Co!lines \o u1
        OBVIOUS
      <3>4. x \in Seq(ConsKeys) /\ Len(x) = n
        BY <1>3, <2>1, <3>1, <3>2
      <3>5. y \in Seq(ConsKeys) /\ Len(y) = n
        BY <2>5, <3>1, <3>3
      <3>6. \A j \in 1..n : x[j] = y[j]
        BY <2>6, <3>1, <3>2, <3>3
      <3>. QED  BY <3>2, <3>3, <3>4, <3>5, <3>6, CoSameKeys
    <2>. QED  BY <1>1, <1>2, <1>5, <1>6, <2>2, <2>4, <2>7 DEF Co!Type, CoEnds
  <1>7. CASE ~CoEnds(c)
    <2>1. consW' = consW /\ CoLines' = CoLines /\ CoTyping' = CoTyping + 1
      BY <1>1, <1>7
    <2>2. Co!lines' = Co!lines
      <3>1. \A j \in 1..CoLines : Co!lines'[j] = Co!lines[j]
        BY <1>1, <1>3, <2>1
      <3>. QED  BY <1>2, <1>3, <2>1, <3>1
    <2>3. Append(Co!typing, key) \in Seq(ConsKeys) /\ Len(Append(Co!typing, key)) = CoTyping + 1
          /\ Append(Co!typing, key)[CoTyping + 1] = key
          /\ \A j \in 1..CoTyping : Append(Co!typing, key)[j] = Co!typing[j]
      BY <1>0, <1>1, <1>2
    <2>4. ASSUME NEW j \in 1..(CoTyping + 1) PROVE Co!typing'[j] = Append(Co!typing, key)[j]
      <3>1. PICK a \in Int : a = j - 1
        BY <1>0
      <3>2. Co!Slot(consW + a) = Co!Slot(consR + CoLines + a) /\ consW + a = consW + j - 1 /\ consR + CoLines + a = consR + CoLines + j - 1
        BY <1>0, <1>2, <3>1
      <3>3. Co!typing'[j] = cons'[Co!Slot(consR + CoLines + j - 1)]
        BY <1>3, <2>1, <3>2
      <3>4. CASE j \in 1..CoTyping
        BY <1>1, <2>3, <3>3, <3>4
      <3>5. CASE j = CoTyping + 1
        <4>1. consR + CoLines + j - 1 = consR + CoLines + CoTyping
          BY <1>0, <3>5
        <4>. QED  BY <1>1, <2>3, <3>3, <3>5, <4>1
      <3>6. j \in 1..CoTyping \/ j = CoTyping + 1
        BY <1>0
      <3>. QED  BY <3>4, <3>5, <3>6
    <2>5. Co!typing' = Append(Co!typing, key)
      BY <1>3, <2>1, <2>3, <2>4
    <2>. QED  BY <1>1, <1>2, <1>5, <1>7, <2>2, <2>5 DEF Co!Type, CoEnds
  <1>. QED  BY <1>1, <1>6, <1>7

(* Taking back some of what is being typed. *)
LEMMA CoErases ==
    ASSUME CoSizes, CoIInv, UNCHANGED <<cons, consR, consW, consPc>>, NEW d \in 0..CoTyping, consE' = Co!Plus(consE, -d)
    PROVE  /\ CoIInv'
           /\ Co!lines' = Co!lines
           /\ Len(Co!typing') = CoTyping - d /\ Co!typing' \in Seq(ConsKeys)
           /\ \A j \in 1..(CoTyping - d) : Co!typing'[j] = Co!typing[j]
  <1>0. /\ CoTypeInv /\ CoRingInv
        /\ consR \in 0..(ConsWrap - 1) /\ consW \in 0..(ConsWrap - 1) /\ consE \in 0..(ConsWrap - 1)
        /\ cons' = cons /\ consR' = consR /\ consW' = consW /\ consPc' = consPc
    BY DEF CoIInv, CoTypeInv
  <1>1. /\ CoLines \in Nat /\ CoTyping \in Nat /\ CoLines + CoTyping <= INPUT_BUF_SIZE
        /\ INPUT_BUF_SIZE \in Nat \ {0} /\ INPUT_BUF_SIZE < ConsWrap /\ ConsWrap \in Nat
        /\ consE = consW + CoTyping \/ consE + ConsWrap = consW + CoTyping
    BY <1>0, CoCounters
  <1>2. consE' = IF consE >= d THEN consE - d ELSE consE - d + ConsWrap
    <2>1. d \in 0..(ConsWrap - 1)
      BY <1>1
    <2>. QED  BY <1>0, <2>1, CoPlus
  <1>3. consE' \in 0..(ConsWrap - 1)
    BY <1>0, <1>1, <1>2
  <1>4. CoTyping' = CoTyping - d
    <2>1. Co!Distance(consW, consE') = IF consE' >= consW THEN consE' - consW ELSE consE' - consW + ConsWrap
      BY <1>0, <1>3, CoDistance
    <2>2. PICK u1 \in Nat, x \in Int, y \in Int : u1 = CoTyping /\ x = consE' /\ y = consE
      BY <1>0, <1>1, <1>3
    <2>3. y = consW + u1 \/ y + ConsWrap = consW + u1
      BY <1>1, <2>2
    <2>4. x = IF y >= d THEN y - d ELSE y - d + ConsWrap
      BY <1>2, <2>2
    <2>5. (IF x >= consW THEN x - consW ELSE x - consW + ConsWrap) = u1 - d
      BY <1>0, <1>1, <2>2, <2>3, <2>4
    <2>6. Co!Distance(consW, consE') = CoTyping - d
      BY <2>1, <2>2, <2>5
    <2>. QED  BY <1>0, <2>6 DEF CoTyping
  <1>5. CoLines' = CoLines
    BY <1>0 DEF CoLines
  <1>6. CoTypeInv'
    BY <1>0, <1>3 DEF CoTypeInv
  <1>7. CoRingInv'
    <2>1. CoLines' + CoTyping' <= INPUT_BUF_SIZE
      BY <1>1, <1>4, <1>5
    <2>. QED  BY <2>1 DEF CoRingInv
  <1>8. CoTypingInv'
    <2>1. \A j \in 1..(CoTyping - d) : j \in 1..CoTyping
      BY <1>1
    <2>2. \A j \in 1..CoTyping' : cons'[(consW' + j - 1) % INPUT_BUF_SIZE] \notin {"nl", "^D"}
      BY <1>0, <1>4, <2>1 DEF CoIInv, CoTypingInv
    <2>. QED  BY <2>2 DEF CoTypingInv
  <1>9. CoSleepInv'
    BY <1>0 DEF CoIInv, CoSleepInv, Co!Empty
  <1>10. Co!lines' = Co!lines
    BY <1>0, <1>5 DEF Co!lines, Co!Slice, CoLines
  <1>11. Len(Co!typing') = CoTyping - d /\ Co!typing' \in Seq(ConsKeys)
         /\ \A j \in 1..(CoTyping - d) : Co!typing'[j] = Co!typing[j]
    <2>1. CoLines' \in Nat /\ CoTyping' \in Nat
      BY <1>1, <1>4, <1>5
    <2>2. Co!typing' \in Seq(ConsKeys) /\ Len(Co!typing') = CoTyping - d
          /\ \A j \in 1..(CoTyping - d) : Co!typing'[j] = cons[Co!Slot(consW + j - 1)]
      BY <1>0, <1>4, <1>6, <2>1, CoSlicesAfter
    <2>3. \A j \in 1..CoTyping : Co!typing[j] = cons[Co!Slot(consW + j - 1)]
      BY <1>0, CoSlices
    <2>4. \A j \in 1..(CoTyping - d) : j \in 1..CoTyping
      BY <1>1
    <2>. QED  BY <2>2, <2>3, <2>4
  <1>. QED  BY <1>6, <1>7, <1>8, <1>9, <1>10, <1>11 DEF CoIInv

(* Nothing of a line that is the readers' is taken back by ^U: there is no *)
(* newline among what is being typed, so it goes back to w.                *)
LEMMA CoKillLine ==
    ASSUME CoSizes, CoIInv, Co!KillLine
    PROVE  CoIInv' /\ (Co!Erase \/ UNCHANGED <<Co!lines, Co!typing, consRead>>)
  <1>0. CoTypeInv /\ CoRingInv /\ UNCHANGED <<cons, consR, consW, consPc>> /\ consRead' = consRead
    BY DEF CoIInv, Co!KillLine, Co!Edit
  <1>1. /\ CoTyping \in Nat /\ consW \in Int /\ consE \in Int /\ INPUT_BUF_SIZE \in Nat \ {0}
    BY <1>0, CoCounters DEF CoTypeInv
  <1>2. PICK d \in 0..CoTyping :
            /\ d < CoTyping => cons[Co!Slot(Co!Plus(consE, -d - 1))] = "nl"
            /\ consE' = Co!Plus(consE, -d)
    BY DEF Co!KillLine, CoTyping
  <1>3. d = CoTyping
    <2>1. SUFFICES ASSUME d < CoTyping PROVE FALSE
      BY <1>1
    <2>2. PICK j \in 1..CoTyping : j = CoTyping - d
      BY <1>1, <2>1
    <2>3. PICK x \in Int : x = -d - 1
      BY <1>1
    <2>4. Co!Plus(consE, -d - 1) = (consE + x) % ConsWrap
      BY <2>3 DEF Co!Plus
    <2>5. PICK y \in Int : y = consE + x
      BY <1>1
    <2>6. Co!Slot(y % ConsWrap) = Co!Slot(y)
      BY CoSlot
    <2>7. Co!Slot(consE + x) = Co!Slot(consW + CoTyping + x)
      <3>1. \A k1 \in Int : Co!Slot(consE + k1) = Co!Slot(consW + CoTyping + k1)
        BY <1>0, CoSlices
      <3>. QED  BY <3>1
    <2>8. consW + CoTyping + x = consW + j - 1
      BY <1>1, <2>2, <2>3
    <2>9. cons[Co!Slot(consW + j - 1)] = "nl"
      BY <1>2, <2>1, <2>4, <2>5, <2>6, <2>7, <2>8
    <2>. QED  BY <2>9 DEF CoIInv, CoTypingInv, Co!Slot
  <1>4. CoIInv' /\ Co!lines' = Co!lines /\ Len(Co!typing') = CoTyping - d /\ Co!typing' \in Seq(ConsKeys)
    BY <1>0, <1>2, CoErases
  <1>5. Co!typing' = <<>>
    BY <1>1, <1>3, <1>4
  <1>. QED  BY <1>0, <1>4, <1>5 DEF Co!Erase

LEMMA CoBackspace ==
    ASSUME CoSizes, CoIInv, Co!Backspace
    PROVE  CoIInv' /\ Co!Erase
  <1>0. CoTypeInv /\ CoRingInv /\ UNCHANGED <<cons, consR, consW, consPc>> /\ consRead' = consRead
        /\ consE # consW /\ consE' = Co!Plus(consE, -1)
    BY DEF CoIInv, Co!Backspace, Co!Edit
  <1>1. CoTyping \in Nat /\ CoTyping # 0
    BY <1>0, CoCounters
  <1>2. 1 \in 0..CoTyping
    BY <1>1
  <1>3. CoIInv' /\ Co!lines' = Co!lines /\ Len(Co!typing') = CoTyping - 1 /\ Co!typing' \in Seq(ConsKeys)
        /\ \A j \in 1..(CoTyping - 1) : Co!typing'[j] = Co!typing[j]
    BY <1>0, <1>2, CoErases
  <1>4. Co!typing \in Seq(ConsKeys) /\ Len(Co!typing) = CoTyping
    BY <1>0, CoSlices
  <1>5. Co!typing' = SubSeq(Co!typing, 1, CoTyping - 1)
    <2>1. SubSeq(Co!typing, 1, CoTyping - 1) \in Seq(ConsKeys) /\ Len(SubSeq(Co!typing, 1, CoTyping - 1)) = CoTyping - 1
          /\ \A j \in 1..(CoTyping - 1) : SubSeq(Co!typing, 1, CoTyping - 1)[j] = Co!typing[j]
      BY <1>1, <1>4
    <2>. QED  BY <1>3, <2>1
  <1>6. Co!typing # <<>>
    BY <1>1, <1>4
  <1>. QED  BY <1>0, <1>3, <1>4, <1>5, <1>6 DEF Co!Erase

(* The character a reader takes is the first of its lines. *)
LEMMA CoTakes ==
    ASSUME CoSizes, CoIInv, ~Co!Empty, Co!Take,
           consPc' \in [ConsProcs -> {"user", "loop", "asleep", "woken"}], CoSleepInv'
    PROVE  CoIInv' /\ Co!Deliver
  <1>0. /\ CoTypeInv /\ CoRingInv
        /\ consR \in 0..(ConsWrap - 1) /\ consW \in 0..(ConsWrap - 1) /\ consE \in 0..(ConsWrap - 1)
        /\ cons' = cons /\ consW' = consW /\ consE' = consE /\ consR' = Co!Plus(consR, 1) /\ consRead' = <<Co!NextChar>>
    BY DEF CoIInv, CoTypeInv, Co!Take
  <1>1. /\ CoLines \in Nat /\ CoTyping \in Nat /\ CoLines + CoTyping <= INPUT_BUF_SIZE
        /\ INPUT_BUF_SIZE \in Nat \ {0} /\ INPUT_BUF_SIZE < ConsWrap /\ ConsWrap \in Nat
        /\ consW = consR + CoLines \/ consW + ConsWrap = consR + CoLines
        /\ CoLines # 0
    BY <1>0, CoCounters
  <1>2. consR' = IF consR + 1 < ConsWrap THEN consR + 1 ELSE consR + 1 - ConsWrap
    <2>1. 1 \in 0..(ConsWrap - 1)
      BY <1>1
    <2>. QED  BY <1>0, <2>1, CoPlus
  <1>3. consR' \in 0..(ConsWrap - 1)
    BY <1>0, <1>1, <1>2
  <1>4. CoLines' = CoLines - 1
    <2>1. Co!Distance(consR', consW) = IF consW >= consR' THEN consW - consR' ELSE consW - consR' + ConsWrap
      BY <1>0, <1>3, CoDistance
    <2>2. Co!Distance(consR', consW) = CoLines - 1
      BY <1>0, <1>1, <1>2, <1>3, <2>1
    <2>. QED  BY <1>0, <2>2 DEF CoLines
  <1>5. CoTyping' = CoTyping
    BY <1>0 DEF CoTyping
  <1>6. CoTypeInv'
    BY <1>0, <1>3 DEF CoTypeInv
  <1>7. CoRingInv'
    <2>1. CoLines' + CoTyping' <= INPUT_BUF_SIZE
      BY <1>1, <1>4, <1>5
    <2>. QED  BY <2>1 DEF CoRingInv
  <1>8. CoTypingInv'
    BY <1>0, <1>5 DEF CoIInv, CoTypingInv
  <1>9. Co!typing' = Co!typing
    BY <1>0 DEF Co!typing, Co!Slice
  <1>10. /\ Co!lines' \in Seq(ConsKeys) /\ Len(Co!lines') = CoLines - 1
         /\ \A j \in 1..(CoLines - 1) : Co!lines'[j] = cons[Co!Slot(consR' + j - 1)]
    <2>1. CoLines' \in Nat /\ CoTyping' \in Nat
      BY <1>1, <1>4, <1>5
    <2>. QED  BY <1>0, <1>4, <1>6, <2>1, CoSlicesAfter
  <1>11. /\ Co!lines \in Seq(ConsKeys) /\ Len(Co!lines) = CoLines
         /\ \A j \in 1..CoLines : Co!lines[j] = cons[Co!Slot(consR + j - 1)]
    BY <1>0, CoSlices
  <1>12. Co!lines # <<>> /\ Head(Co!lines) = Co!NextChar
    <2>1. consR + 1 - 1 = consR /\ 1 \in 1..CoLines
      BY <1>0, <1>1
    <2>2. Co!lines[1] = cons[Co!Slot(consR)]
      BY <1>11, <2>1
    <2>3. Co!lines # <<>> /\ Head(Co!lines) = Co!lines[1]
      BY <1>1, <1>11
    <2>. QED  BY <2>2, <2>3 DEF Co!NextChar
  <1>13. Co!lines' = Tail(Co!lines)
    <2>1. /\ Tail(Co!lines) \in Seq(ConsKeys) /\ Len(Tail(Co!lines)) = CoLines - 1
          /\ \A j \in 1..(CoLines - 1) : Tail(Co!lines)[j] = Co!lines[j + 1]
      BY <1>1, <1>11, <1>12
    <2>2. ASSUME NEW j \in 1..(CoLines - 1) PROVE Co!lines'[j] = Tail(Co!lines)[j]
      <3>0. consR' \in Int /\ j \in Int
        BY <1>0, <1>1, <1>2
      <3>1. PICK x \in Int : x = consR' + j - 1
        <4>1. consR' + j - 1 \in Int
          BY <3>0
        <4>. QED  BY <4>1
      <3>2. PICK k1 \in 1..CoLines : k1 = j + 1
        BY <1>1
      <3>3. PICK y \in Int : y = consR + k1 - 1
        BY <1>0
      <3>4. y = x \/ y = x + ConsWrap
        BY <1>0, <1>1, <1>2, <3>1, <3>2, <3>3
      <3>5. Co!Slot(x + ConsWrap) = Co!Slot(x)
        BY CoSlot
      <3>6. Co!lines[k1] = cons[Co!Slot(y)]
        BY <1>11, <3>3
      <3>7. Co!lines'[j] = cons[Co!Slot(x)]
        BY <1>10, <3>1
      <3>8. Tail(Co!lines)[j] = Co!lines[k1]
        BY <2>1, <3>2
      <3>. QED  BY <3>4, <3>5, <3>6, <3>7, <3>8
    <2>. QED  BY <1>10, <2>1, <2>2
  <1>14. Co!Deliver
    BY <1>0, <1>9, <1>12, <1>13 DEF Co!Deliver
  <1>. QED  BY <1>6, <1>7, <1>8, <1>14 DEF CoIInv

(* A step of a reader that takes nothing changes nothing the keyboard and  *)
(* the readers share.                                                      *)
LEMMA CoStays ==
    ASSUME CoSizes, CoIInv, UNCHANGED <<cons, consR, consW, consE, consRead>>,
           consPc' \in [ConsProcs -> {"user", "loop", "asleep", "woken"}],
           \A p \in ConsProcs : consPc'[p] = "asleep" => Co!Empty
    PROVE  CoIInv' /\ UNCHANGED <<Co!lines, Co!typing, consRead>>
  <1>1. CoTypeInv' /\ CoLines' = CoLines /\ CoTyping' = CoTyping
    BY DEF CoIInv, CoTypeInv, CoLines, CoTyping
  <1>2. CoRingInv' /\ CoTypingInv'
    BY <1>1 DEF CoIInv, CoRingInv, CoTypingInv
  <1>3. CoSleepInv'
    BY DEF CoSleepInv, Co!Empty
  <1>4. UNCHANGED <<Co!lines, Co!typing, consRead>>
    BY DEF Co!lines, Co!typing, Co!Slice
  <1>. QED  BY <1>1, <1>2, <1>3, <1>4 DEF CoIInv

LEMMA CoStep ==
    ASSUME CoSizes, CoIInv, [Co!Next]_Co!vars
    PROVE  CoIInv' /\ [(\E c \in ConsKeys : Co!Type(c)) \/ Co!Erase \/ Co!Deliver]_<<Co!lines, Co!typing, consRead>>
  <1>. DEFINE States == {"user", "loop", "asleep", "woken"}
              A == (\E c \in ConsKeys : Co!Type(c)) \/ Co!Erase \/ Co!Deliver
              Stutter == UNCHANGED <<Co!lines, Co!typing, consRead>>
  <1>0. consPc \in [ConsProcs -> States] /\ \A p \in ConsProcs : consPc[p] = "asleep" => Co!Empty
    BY DEF CoIInv, CoTypeInv, CoSleepInv
  <1>. HIDE DEF States
  <1>s. \A s \in {"user", "loop", "asleep", "woken"} : s \in States
    BY DEF States
  <1>1. CASE Co!KillLine
    BY <1>1, CoKillLine
  <1>2. CASE Co!Backspace
    BY <1>2, CoBackspace
  <1>3. ASSUME NEW c \in ConsKeys \cup {"cr"}, Co!Key(c) PROVE CoIInv' /\ A
    <2>1. CoIInv'
      BY <1>3, CoKeyKeeps
    <2>. QED  BY <1>3, <2>1, CoKeyMaps
  <1>4. ASSUME NEW p \in ConsProcs, UNCHANGED <<cons, consR, consW, consE, consRead>>,
               \/ consPc' = consPc
               \/ \E s \in States \ {"asleep"} : consPc' = [consPc EXCEPT ![p] = s]
               \/ Co!Empty /\ consPc' = [consPc EXCEPT ![p] = "asleep"]
        PROVE  CoIInv' /\ Stutter
    <2>1. consPc' \in [ConsProcs -> States]
      BY <1>0, <1>4, <1>s
    <2>2. \A q \in ConsProcs : consPc'[q] = "asleep" => Co!Empty
      BY <1>0, <1>4
    <2>. QED  BY <1>4, <2>1, <2>2, CoStays DEF States
  <1>5. ASSUME NEW p \in ConsProcs, ~Co!Empty, Co!Take, consPc' = consPc \/ consPc' = [consPc EXCEPT ![p] = "user"]
        PROVE  CoIInv' /\ A
    <2>1. consPc' \in [ConsProcs -> States]
      BY <1>0, <1>5, <1>s
    <2>2. \A q \in ConsProcs : consPc'[q] # "asleep"
      BY <1>0, <1>5
    <2>3. CoSleepInv'
      BY <2>2 DEF CoSleepInv
    <2>. QED  BY <1>5, <2>1, <2>3, CoTakes DEF States
  <1>6. ASSUME NEW p \in ConsProcs, NEW asked \in 1..MaxRead, Co!Call(p, asked) PROVE CoIInv' /\ Stutter
    BY <1>4, <1>6, <1>s DEF Co!Call
  <1>7. ASSUME NEW p \in ConsProcs, Co!Reacquire(p) PROVE CoIInv' /\ Stutter
    BY <1>4, <1>7, <1>s DEF Co!Reacquire
  <1>8. ASSUME NEW p \in ConsProcs, Co!Killed(p) PROVE CoIInv' /\ Stutter
    BY <1>4, <1>8, <1>s DEF Co!Killed, Co!Return
  <1>9. ASSUME NEW p \in ConsProcs, Co!Sleep(p) PROVE CoIInv' /\ Stutter
    BY <1>4, <1>9 DEF Co!Sleep
  <1>10. ASSUME NEW p \in ConsProcs, Co!Eof(p) PROVE CoIInv' /\ (A \/ Stutter)
    <2>1. CASE some[p]
      BY <1>4, <1>10, <1>s, <2>1 DEF Co!Eof, Co!Return
    <2>2. CASE ~some[p]
      BY <1>5, <1>10, <2>2 DEF Co!Eof, Co!Return
    <2>. QED  BY <2>1, <2>2
  <1>11. ASSUME NEW p \in ConsProcs, Co!Char(p) PROVE CoIInv' /\ A
    BY <1>5, <1>11 DEF Co!Char, Co!Return
  <1>12. ASSUME NEW p \in ConsProcs, Co!BadAddress(p) PROVE CoIInv' /\ A
    BY <1>5, <1>12 DEF Co!BadAddress, Co!Return
  <1>13. ASSUME NEW p \in ConsProcs, Co!Kill(p) PROVE CoIInv' /\ Stutter
    <2>1. consPc[p] \in States /\ (consPc[p] = "asleep" => Co!Empty)
      BY <1>0
    <2>2. UNCHANGED <<cons, consR, consW, consE, consRead>>
      BY <1>13 DEF Co!Kill
    <2>3. consPc' = [consPc EXCEPT ![p] = IF consPc[p] = "asleep" THEN "woken" ELSE consPc[p]]
      BY <1>13 DEF Co!Kill
    <2>. QED  BY <1>4, <1>s, <2>1, <2>2, <2>3
  <1>14. CASE UNCHANGED Co!vars
    <2>1. UNCHANGED <<cons, consR, consW, consE, consRead, consPc>>
      BY <1>14 DEF Co!vars
    <2>. QED  BY <1>0, <2>1, CoStays DEF States
  <1>. QED  BY <1>1, <1>2, <1>3, <1>6, <1>7, <1>8, <1>9, <1>10, <1>11, <1>12, <1>13, <1>14
      DEF Co!Next

LEMMA CoImplements == ASSUME CoSizes PROVE Co!Spec => Co!LineInput /\ []CoIInv
  <1>1. Co!Init => CoIInv /\ Co!lines = <<>> /\ Co!typing = <<>> /\ consRead = <<>>
    <2>. SUFFICES ASSUME Co!Init PROVE CoIInv /\ Co!lines = <<>> /\ Co!typing = <<>> /\ consRead = <<>>
      OBVIOUS
    <2>1. CoIInv
      BY CoInit
    <2>2. consR = consW /\ consW = consE
      BY DEF Co!Init
    <2>3. CoTypeInv /\ CoRingInv
      BY <2>1 DEF CoIInv
    <2>4. CoLines = 0 /\ CoTyping = 0
      BY <2>2, <2>3, CoCounters DEF Co!Empty
    <2>5. Co!lines \in Seq(ConsKeys) /\ Len(Co!lines) = 0 /\ Co!typing \in Seq(ConsKeys) /\ Len(Co!typing) = 0
      BY <2>3, <2>4, CoSlices
    <2>. QED  BY <2>1, <2>5 DEF Co!Init
  <1>2. CoIInv /\ [Co!Next]_Co!vars =>
            CoIInv' /\ [(\E c \in ConsKeys : Co!Type(c)) \/ Co!Erase \/ Co!Deliver]_<<Co!lines, Co!typing, consRead>>
    BY CoStep
  <1>. QED  BY <1>1, <1>2, PTL DEF Co!Spec, Co!LineInput

LEMMA CoConsoleWorks == ASSUME CoSizes PROVE Co!Spec => Co!ConsoleWorks
  <1>1. CoIInv => Co!SleepersHaveNothing
    BY DEF CoIInv, CoSleepInv, Co!SleepersHaveNothing
  <1>. QED  BY <1>1, CoImplements, PTL DEF Co!ConsoleWorks, Co!ImplementsLineInput

-----------------------------------------------------------------------------
(* BigFile, for any files, blocks and numbers of addresses: the blocks of  *)
(* files, and what the checker of images makes of them.                    *)

BfSizes ==
    /\ NBlocks \in Nat /\ NDIRECT \in Nat /\ NINDIRECT \in Nat \ {0}
    /\ BigFiles \subseteq Nat \ {0} /\ IsFiniteSet(BigFiles)

BfIndex == 0..(NINDIRECT - 1)

(* What follows is said of any disk: addresses A, blocks W, bitmap u.      *)
(* A block of addresses of f.                                              *)
BfTable(A, W, f, b) ==
    /\ b # 0
    /\ \/ b = A[f][NDIRECT] \/ b = A[f][NDIRECT + 1]
       \/ A[f][NDIRECT + 1] # 0 /\ \E j \in BfIndex : b = W[A[f][NDIRECT + 1]][j]

(* A place that can name a block: a slot of the inode, or a word of such.  *)
BfCell(A, W, f, b, i) ==
    \/ b = 0 /\ i \in 0..(NDIRECT + 1)
    \/ BfTable(A, W, f, b) /\ i \in BfIndex

BfName(A, W, f, b, i) == IF b = 0 THEN A[f][i] ELSE W[b][i]

BfTypes(A, W, u) ==
    /\ A \in [BigFiles -> [0..(NDIRECT + 1) -> 0..NBlocks]]
    /\ W \in [Bf!Block -> [BfIndex -> Nat]]
    /\ u \in SUBSET Bf!Block

(* What is named is a block in use, ... *)
BfNamesUsed(A, W, u) ==
    \A f \in BigFiles, b \in 0..NBlocks, i \in Nat :
        BfCell(A, W, f, b, i) => BfName(A, W, f, b, i) \in u \cup {0}

(* ... what is in use is named, ... *)
BfUsedNamed(A, W, u) ==
    \A x \in u : \E f \in BigFiles, b \in 0..NBlocks, i \in Nat :
        BfCell(A, W, f, b, i) /\ BfName(A, W, f, b, i) = x

(* ... at one place, ... *)
BfOnce(A, W) ==
    \A f, g \in BigFiles, b, c \in 0..NBlocks, i, j \in Nat :
        /\ BfCell(A, W, f, b, i) /\ BfCell(A, W, g, c, j)
        /\ BfName(A, W, f, b, i) # 0
        /\ BfName(A, W, f, b, i) = BfName(A, W, g, c, j)
        => f = g /\ b = c /\ i = j

(* ... and the data of files does not look like addresses. *)
BfData(A, W, u) ==
    \A b \in u : (\A f \in BigFiles : ~BfTable(A, W, f, b)) =>
        \A j \in BfIndex : W[b][j] = 0 \/ W[b][j] > NBlocks

BfGood(A, W, u) ==
    /\ BfTypes(A, W, u) /\ BfNamesUsed(A, W, u) /\ BfUsedNamed(A, W, u)
    /\ BfOnce(A, W) /\ BfData(A, W, u)

(* Where block bn of a file is named: in which table, and at which entry.  *)
BfVia(W, b, j) == IF b = 0 THEN 0 ELSE W[b][j]
BfDouble(bn) == bn - NDIRECT - NINDIRECT
BfBase(A, W, f, bn) ==
    CASE bn < NDIRECT -> 0
      [] bn >= NDIRECT /\ bn - NDIRECT < NINDIRECT -> A[f][NDIRECT]
      [] OTHER -> BfVia(W, A[f][NDIRECT + 1], BfDouble(bn) \div NINDIRECT)
BfEntry(bn) ==
    CASE bn < NDIRECT -> bn
      [] bn >= NDIRECT /\ bn - NDIRECT < NINDIRECT -> bn - NDIRECT
      [] OTHER -> BfDouble(bn) % NINDIRECT
BfBlk(A, W, f, bn) ==
    IF bn < NDIRECT THEN A[f][bn] ELSE BfVia(W, BfBase(A, W, f, bn), BfEntry(bn))

(* What is in the files is what was written there. *)
BfKept(A, W, S) ==
    \A f \in BigFiles, bn \in 0..(Bf!MAXFILE - 1) : bn < S[f] =>
        /\ BfBlk(A, W, f, bn) # 0
        /\ W[BfBlk(A, W, f, bn)] = Bf!Content(f, bn)

BfSizeInv == fsize \in [BigFiles -> 0..Bf!MAXFILE]

BfIInv == BfGood(addrs, words, used) /\ BfKept(addrs, words, fsize) /\ BfSizeInv

LEMMA BfFirstFree ==
    ASSUME BfSizes, NEW u \in SUBSET Bf!Block
    PROVE  \/ Bf!FirstFree(u) = 0 /\ Bf!Block \subseteq u
           \/ Bf!FirstFree(u) \in Bf!Block \ u /\ ~(Bf!Block \subseteq u)
  <1>1. CASE Bf!Block \subseteq u
    BY <1>1 DEF Bf!FirstFree
  <1>2. CASE ~(Bf!Block \subseteq u)
    <2>1. Bf!Block \ u \in SUBSET Nat /\ Bf!Block \ u # {}
      BY <1>2 DEF Bf!Block
    <2>2. \E b \in Bf!Block \ u : \A c \in Bf!Block \ u : b <= c
      BY <2>1, Least
    <2>3. Bf!FirstFree(u) = CHOOSE b \in Bf!Block \ u : \A c \in Bf!Block \ u : b <= c
      BY <1>2 DEF Bf!FirstFree
    <2>. QED  BY <1>2, <2>2, <2>3
  <1>. QED  BY <1>1, <1>2

(* A block of addresses is named itself, at a place that only names such.  *)
LEMMA BfTableNamed ==
    ASSUME BfSizes, NEW A, NEW W, NEW u, BfGood(A, W, u), NEW f \in BigFiles, NEW b, BfTable(A, W, f, b)
    PROVE  /\ b \in u /\ b \in Bf!Block
           /\ \E c \in 0..NBlocks, i \in Nat :
                /\ BfCell(A, W, f, c, i) /\ BfName(A, W, f, c, i) = b
                /\ \/ c = 0 /\ i \in {NDIRECT, NDIRECT + 1}
                   \/ c # 0 /\ c = A[f][NDIRECT + 1]
  <1>0. /\ NBlocks \in Nat /\ NDIRECT \in Nat /\ NINDIRECT \in Nat \ {0}
        /\ A \in [BigFiles -> [0..(NDIRECT + 1) -> 0..NBlocks]]
        /\ u \in SUBSET Bf!Block /\ b # 0
        /\ NDIRECT \in 0..(NDIRECT + 1) /\ NDIRECT + 1 \in 0..(NDIRECT + 1)
        /\ A[f][NDIRECT + 1] \in 0..NBlocks
    BY DEF BfSizes, BfGood, BfTypes, BfTable
  <1>1. SUFFICES \E c \in 0..NBlocks, i \in Nat :
                /\ BfCell(A, W, f, c, i) /\ BfName(A, W, f, c, i) = b
                /\ \/ c = 0 /\ i \in {NDIRECT, NDIRECT + 1}
                   \/ c # 0 /\ c = A[f][NDIRECT + 1]
    <2>1. b \in u \cup {0}
      BY <1>1 DEF BfGood, BfNamesUsed
    <2>. QED  BY <1>0, <1>1, <2>1
  <1>2. CASE b = A[f][NDIRECT]
    <2>1. BfCell(A, W, f, 0, NDIRECT) /\ BfName(A, W, f, 0, NDIRECT) = b
      BY <1>0, <1>2 DEF BfCell, BfName
    <2>2. 0 \in 0..NBlocks /\ NDIRECT \in Nat
      BY <1>0
    <2>. QED  BY <2>1, <2>2
  <1>3. CASE b = A[f][NDIRECT + 1]
    <2>1. BfCell(A, W, f, 0, NDIRECT + 1) /\ BfName(A, W, f, 0, NDIRECT + 1) = b
      BY <1>0, <1>3 DEF BfCell, BfName
    <2>2. 0 \in 0..NBlocks /\ NDIRECT + 1 \in Nat
      BY <1>0
    <2>. QED  BY <2>1, <2>2
  <1>4. CASE A[f][NDIRECT + 1] # 0 /\ \E j \in BfIndex : b = W[A[f][NDIRECT + 1]][j]
    <2>1. PICK j \in BfIndex : b = W[A[f][NDIRECT + 1]][j]
      BY <1>4
    <2>2. BfTable(A, W, f, A[f][NDIRECT + 1])
      BY <1>4 DEF BfTable
    <2>3. BfCell(A, W, f, A[f][NDIRECT + 1], j) /\ BfName(A, W, f, A[f][NDIRECT + 1], j) = b
      BY <1>4, <2>1, <2>2 DEF BfCell, BfName
    <2>4. j \in Nat
      BY <1>0 DEF BfIndex
    <2>. QED  BY <1>0, <1>4, <2>3, <2>4
  <1>. QED  BY <1>2, <1>3, <1>4 DEF BfTable

(* No two files share one. *)
LEMMA BfOwner ==
    ASSUME BfSizes, NEW A, NEW W, NEW u, BfGood(A, W, u), NEW f \in BigFiles, NEW g \in BigFiles,
           NEW b, BfTable(A, W, f, b), BfTable(A, W, g, b)
    PROVE  f = g
  <1>1. PICK c \in 0..NBlocks, i \in Nat : BfCell(A, W, f, c, i) /\ BfName(A, W, f, c, i) = b
    BY BfTableNamed
  <1>2. PICK d \in 0..NBlocks, j \in Nat : BfCell(A, W, g, d, j) /\ BfName(A, W, g, d, j) = b
    BY BfTableNamed
  <1>3. b # 0
    BY DEF BfTable
  <1>. QED  BY <1>1, <1>2, <1>3 DEF BfGood, BfOnce

(* A place that names nothing gets block n, free until then and zeroed.    *)
BfGrows(A, W, u, f0, b0, i0, n, A2, W2) ==
    /\ BfCell(A, W, f0, b0, i0) /\ BfName(A, W, f0, b0, i0) = 0
    /\ n \in Bf!Block \ u
    /\ A2 = IF b0 = 0 THEN [A EXCEPT ![f0][i0] = n] ELSE A
    /\ W2 = IF b0 = 0 THEN [W EXCEPT ![n] = Bf!Filled(0)]
            ELSE [[W EXCEPT ![n] = Bf!Filled(0)] EXCEPT ![b0][i0] = n]

(* What there is then, place by place. *)
BfGrown(A, W, u, f0, b0, i0, n, A2, W2) ==
    /\ BfTypes(A2, W2, u \cup {n})
    /\ \A g \in BigFiles, i \in 0..(NDIRECT + 1) :
         A2[g][i] = IF b0 = 0 /\ g = f0 /\ i = i0 THEN n ELSE A[g][i]
    /\ \A b \in Bf!Block, j \in BfIndex :
         W2[b][j] = IF b = n THEN 0 ELSE IF b0 # 0 /\ b = b0 /\ j = i0 THEN n ELSE W[b][j]
    /\ n \in Bf!Block /\ n \notin u /\ n # 0 /\ n # b0
    /\ b0 # 0 => BfTable(A, W, f0, b0) /\ b0 \in u /\ i0 \in BfIndex
    /\ b0 = 0 => i0 \in 0..(NDIRECT + 1)

LEMMA BfGrowsTo ==
    ASSUME BfSizes, NEW A, NEW W, NEW u, BfGood(A, W, u),
           NEW f0 \in BigFiles, NEW b0 \in 0..NBlocks, NEW i0 \in Nat, NEW n, NEW A2, NEW W2,
           BfGrows(A, W, u, f0, b0, i0, n, A2, W2)
    PROVE  BfGrown(A, W, u, f0, b0, i0, n, A2, W2)
  <1>1. b0 # 0 => BfTable(A, W, f0, b0) /\ b0 \in u /\ i0 \in BfIndex
    BY BfTableNamed DEF BfGrows, BfCell
  <1>2. b0 = 0 => i0 \in 0..(NDIRECT + 1)
    <2>1. ~BfTable(A, W, f0, 0)
      BY DEF BfTable
    <2>. QED  BY <2>1 DEF BfGrows, BfCell
  <1>3. n \in Bf!Block /\ n \notin u /\ n # 0 /\ n # b0 /\ n \in 0..NBlocks /\ n \in Nat
    BY <1>1 DEF BfGrows, Bf!Block, BfSizes
  <1>4. Bf!Filled(0) \in [BfIndex -> Nat] /\ \A j \in BfIndex : Bf!Filled(0)[j] = 0
    BY DEF Bf!Filled, BfIndex
  <1>5. /\ A \in [BigFiles -> [0..(NDIRECT + 1) -> 0..NBlocks]]
        /\ W \in [Bf!Block -> [BfIndex -> Nat]] /\ u \in SUBSET Bf!Block
    BY DEF BfGood, BfTypes
  <1>6. b0 # 0 => b0 \in Bf!Block
    BY <1>1, <1>5
  <1>7. /\ A2 \in [BigFiles -> [0..(NDIRECT + 1) -> 0..NBlocks]]
        /\ \A g \in BigFiles, i \in 0..(NDIRECT + 1) :
                A2[g][i] = IF b0 = 0 /\ g = f0 /\ i = i0 THEN n ELSE A[g][i]
    <2>1. CASE b0 # 0
      BY <1>5, <2>1 DEF BfGrows
    <2>2. CASE b0 = 0
      <3>1. A2 = [A EXCEPT ![f0] = [A[f0] EXCEPT ![i0] = n]]
        BY <2>2 DEF BfGrows
      <3>2. [A[f0] EXCEPT ![i0] = n] \in [0..(NDIRECT + 1) -> 0..NBlocks]
        BY <1>3, <1>5
      <3>. QED  BY <1>2, <1>5, <2>2, <3>1, <3>2
    <2>. QED  BY <2>1, <2>2
  <1>8. /\ W2 \in [Bf!Block -> [BfIndex -> Nat]]
        /\ \A b \in Bf!Block, j \in BfIndex :
                W2[b][j] = IF b = n THEN 0 ELSE IF b0 # 0 /\ b = b0 /\ j = i0 THEN n ELSE W[b][j]
    <2>. DEFINE X == [W EXCEPT ![n] = Bf!Filled(0)]
    <2>1. X \in [Bf!Block -> [BfIndex -> Nat]] /\ \A b \in Bf!Block : X[b] = IF b = n THEN Bf!Filled(0) ELSE W[b]
      BY <1>3, <1>4, <1>5
    <2>2. W2 = IF b0 = 0 THEN X ELSE [X EXCEPT ![b0][i0] = n]
      BY DEF BfGrows
    <2>. HIDE DEF X
    <2>3. CASE b0 = 0
      BY <1>4, <2>1, <2>2, <2>3
    <2>4. CASE b0 # 0
      <3>1. W2 = [X EXCEPT ![b0] = [X[b0] EXCEPT ![i0] = n]]
        BY <2>2, <2>4
      <3>2. [X[b0] EXCEPT ![i0] = n] \in [BfIndex -> Nat]
        BY <1>3, <1>6, <2>1, <2>4
      <3>3. W2 \in [Bf!Block -> [BfIndex -> Nat]] /\ \A b \in Bf!Block :
                W2[b] = IF b = b0 THEN [X[b0] EXCEPT ![i0] = n] ELSE X[b]
        BY <1>6, <2>1, <2>4, <3>1, <3>2
      <3>4. \A j \in BfIndex : [X[b0] EXCEPT ![i0] = n][j] = IF j = i0 THEN n ELSE X[b0][j]
        BY <1>6, <2>1, <2>4
      <3>. QED  BY <1>3, <1>4, <2>1, <2>4, <3>3, <3>4
    <2>. QED  BY <2>3, <2>4
  <1>. QED  BY <1>1, <1>2, <1>3, <1>5, <1>7, <1>8 DEF BfTypes, BfGrown

(* The blocks of addresses are then those there were, and n if the place   *)
(* is one that names such.                                                 *)
LEMMA BfGrowsTables ==
    ASSUME BfSizes, NEW A, NEW W, NEW u, BfGood(A, W, u),
           NEW f0 \in BigFiles, NEW b0 \in 0..NBlocks, NEW i0 \in Nat, NEW n, NEW A2, NEW W2,
           BfGrows(A, W, u, f0, b0, i0, n, A2, W2),
           NEW g \in BigFiles, NEW b
    PROVE  BfTable(A2, W2, g, b) <=>
             \/ BfTable(A, W, g, b)
             \/ /\ g = f0 /\ b = n
                /\ \/ b0 = 0 /\ i0 \in {NDIRECT, NDIRECT + 1}
                   \/ b0 # 0 /\ b0 = A[f0][NDIRECT + 1]
  <1>. DEFINE R == A[g][NDIRECT + 1]
  <1>0. /\ NDIRECT \in 0..(NDIRECT + 1) /\ NDIRECT + 1 \in 0..(NDIRECT + 1) /\ NDIRECT # NDIRECT + 1
        /\ R \in 0..NBlocks
    BY DEF BfSizes, BfGood, BfTypes
  <1>1. /\ \A i \in 0..(NDIRECT + 1) :
             A2[g][i] = IF b0 = 0 /\ g = f0 /\ i = i0 THEN n ELSE A[g][i]
        /\ \A c \in Bf!Block, j \in BfIndex :
             W2[c][j] = IF c = n THEN 0 ELSE IF b0 # 0 /\ c = b0 /\ j = i0 THEN n ELSE W[c][j]
        /\ n \in Bf!Block /\ n \notin u /\ n # 0 /\ n # b0
        /\ b0 # 0 => BfTable(A, W, f0, b0) /\ b0 \in u /\ i0 \in BfIndex
        /\ b0 = 0 => i0 \in 0..(NDIRECT + 1)
    <2>1. BfGrown(A, W, u, f0, b0, i0, n, A2, W2)
      BY BfGrowsTo
    <2>. QED  BY <2>1 DEF BfGrown
  <1>2. ASSUME R # 0 PROVE BfTable(A, W, g, R) /\ R \in Bf!Block /\ R # n /\ (b0 = R => g = f0)
    <2>1. BfTable(A, W, g, R)
      BY <1>2 DEF BfTable
    <2>2. R \in u /\ R \in Bf!Block
      BY <2>1, BfTableNamed
    <2>3. b0 = R => g = f0
      BY <1>1, <1>2, <2>1, BfOwner
    <2>. QED  BY <1>1, <2>1, <2>2, <2>3
  <1>3. ASSUME R # 0, b0 # R, NEW j \in BfIndex PROVE W2[R][j] = W[R][j]
    BY <1>1, <1>2, <1>3
  <1>4. CASE g # f0
    <2>1. A2[g][NDIRECT] = A[g][NDIRECT] /\ A2[g][NDIRECT + 1] = R
      BY <1>0, <1>1, <1>4
    <2>2. R # 0 => \A j \in BfIndex : W2[R][j] = W[R][j]
      BY <1>2, <1>3, <1>4
    <2>. QED  BY <1>4, <2>1, <2>2 DEF BfTable
  <1>5. CASE g = f0 /\ b0 = 0
    <2>0. A[g][i0] = 0
      BY <1>5 DEF BfGrows, BfName
    <2>1. CASE i0 = NDIRECT + 1
      <3>1. A2[g][NDIRECT] = A[g][NDIRECT] /\ A2[g][NDIRECT + 1] = n /\ R = 0
        BY <1>0, <1>1, <1>5, <2>0, <2>1
      <3>2. \A j \in BfIndex : W2[n][j] = 0
        BY <1>1
      <3>. QED  BY <1>1, <1>5, <2>1, <3>1, <3>2 DEF BfTable
    <2>2. CASE i0 = NDIRECT
      <3>1. A2[g][NDIRECT] = n /\ A2[g][NDIRECT + 1] = R /\ A[g][NDIRECT] = 0
        BY <1>0, <1>1, <1>5, <2>0, <2>2
      <3>2. R # 0 => \A j \in BfIndex : W2[R][j] = W[R][j]
        BY <1>3, <1>5
      <3>. QED  BY <1>1, <1>5, <2>2, <3>1, <3>2 DEF BfTable
    <2>3. CASE i0 \notin {NDIRECT, NDIRECT + 1}
      <3>1. A2[g][NDIRECT] = A[g][NDIRECT] /\ A2[g][NDIRECT + 1] = R
        BY <1>0, <1>1, <2>3
      <3>2. R # 0 => \A j \in BfIndex : W2[R][j] = W[R][j]
        BY <1>3, <1>5
      <3>. QED  BY <1>5, <2>3, <3>1, <3>2 DEF BfTable
    <2>. QED  BY <2>1, <2>2, <2>3
  <1>6. CASE g = f0 /\ b0 # 0
    <2>1. A2[g][NDIRECT] = A[g][NDIRECT] /\ A2[g][NDIRECT + 1] = R
      BY <1>0, <1>1, <1>6
    <2>2. CASE b0 # R
      <3>1. R # 0 => \A j \in BfIndex : W2[R][j] = W[R][j]
        BY <1>3, <2>2
      <3>. QED  BY <1>6, <2>1, <2>2, <3>1 DEF BfTable
    <2>3. CASE b0 = R
      <3>1. W[R][i0] = 0 /\ R # 0
        BY <1>6, <2>3 DEF BfGrows, BfName
      <3>2. \A j \in BfIndex : W2[R][j] = IF j = i0 THEN n ELSE W[R][j]
        BY <1>1, <1>2, <1>6, <2>3, <3>1
      <3>3. i0 \in BfIndex
        BY <1>1, <1>6
      <3>4. (\E j \in BfIndex : b = W2[R][j]) <=> b = n \/ \E j \in BfIndex : j # i0 /\ b = W[R][j]
        BY <3>2, <3>3
      <3>5. b # 0 => ((\E j \in BfIndex : b = W[R][j]) <=> \E j \in BfIndex : j # i0 /\ b = W[R][j])
        BY <3>1
      <3>. QED  BY <1>1, <1>6, <2>1, <2>3, <3>1, <3>4, <3>5 DEF BfTable
    <2>. QED  BY <2>2, <2>3
  <1>. QED  BY <1>4, <1>5, <1>6

(* So are the places, and what they name but for the one that gets n.      *)
LEMMA BfGrowsCells ==
    ASSUME BfSizes, NEW A, NEW W, NEW u, BfGood(A, W, u),
           NEW f0 \in BigFiles, NEW b0 \in 0..NBlocks, NEW i0 \in Nat, NEW n, NEW A2, NEW W2,
           BfGrows(A, W, u, f0, b0, i0, n, A2, W2),
           NEW g \in BigFiles, NEW b \in 0..NBlocks, NEW i \in Nat
    PROVE  /\ BfCell(A, W, g, b, i) => 
                /\ BfCell(A2, W2, g, b, i)
                /\ BfName(A2, W2, g, b, i) =
                     IF g = f0 /\ b = b0 /\ i = i0 THEN n ELSE BfName(A, W, g, b, i)
           /\ BfCell(A2, W2, g, b, i) /\ ~BfCell(A, W, g, b, i) => b = n /\ BfName(A2, W2, g, b, i) = 0
  <1>1. /\ \A j \in 0..(NDIRECT + 1) :
             A2[g][j] = IF b0 = 0 /\ g = f0 /\ j = i0 THEN n ELSE A[g][j]
        /\ \A c \in Bf!Block, j \in BfIndex :
             W2[c][j] = IF c = n THEN 0 ELSE IF b0 # 0 /\ c = b0 /\ j = i0 THEN n ELSE W[c][j]
        /\ n \in Bf!Block /\ n \notin u /\ n # 0 /\ n # b0
        /\ b0 # 0 => BfTable(A, W, f0, b0) /\ b0 \in u /\ i0 \in BfIndex
        /\ b0 = 0 => i0 \in 0..(NDIRECT + 1)
    <2>1. BfGrown(A, W, u, f0, b0, i0, n, A2, W2)
      BY BfGrowsTo
    <2>. QED  BY <2>1 DEF BfGrown
  <1>2. BfTable(A2, W2, g, b) <=>
             \/ BfTable(A, W, g, b)
             \/ /\ g = f0 /\ b = n
                /\ \/ b0 = 0 /\ i0 \in {NDIRECT, NDIRECT + 1}
                   \/ b0 # 0 /\ b0 = A[f0][NDIRECT + 1]
    BY BfGrowsTables
  <1>3. CASE b = 0
    <2>1. ~BfTable(A, W, g, 0) /\ ~BfTable(A2, W2, g, 0)
      BY DEF BfTable
    <2>2. BfCell(A, W, g, b, i) <=> i \in 0..(NDIRECT + 1)
      BY <1>3, <2>1 DEF BfCell
    <2>3. BfCell(A2, W2, g, b, i) <=> i \in 0..(NDIRECT + 1)
      BY <1>3, <2>1 DEF BfCell
    <2>4. i \in 0..(NDIRECT + 1) => A2[g][i] = IF g = f0 /\ b = b0 /\ i = i0 THEN n ELSE A[g][i]
      BY <1>1, <1>3
    <2>. QED  BY <1>3, <2>2, <2>3, <2>4 DEF BfName
  <1>4. CASE b # 0 /\ BfTable(A, W, g, b)
    <2>1. b \in u /\ b \in Bf!Block /\ b # n
      BY <1>1, <1>4, BfTableNamed
    <2>2. b = b0 => g = f0
      BY <1>1, <1>4, BfOwner
    <2>3. BfCell(A, W, g, b, i) <=> i \in BfIndex
      BY <1>4 DEF BfCell
    <2>4. BfCell(A2, W2, g, b, i) <=> i \in BfIndex
      BY <1>2, <1>4 DEF BfCell
    <2>5. i \in BfIndex => W2[b][i] = IF g = f0 /\ b = b0 /\ i = i0 THEN n ELSE W[b][i]
      BY <1>1, <1>4, <2>1, <2>2
    <2>. QED  BY <1>4, <2>3, <2>4, <2>5 DEF BfName
  <1>5. CASE b # 0 /\ ~BfTable(A, W, g, b)
    <2>1. ~BfCell(A, W, g, b, i)
      BY <1>5 DEF BfCell
    <2>2. BfCell(A2, W2, g, b, i) => b = n /\ i \in BfIndex
      BY <1>2, <1>5 DEF BfCell
    <2>3. BfCell(A2, W2, g, b, i) => W2[b][i] = 0
      BY <1>1, <2>2
    <2>. QED  BY <1>5, <2>1, <2>2, <2>3 DEF BfName
  <1>. QED  BY <1>3, <1>4, <1>5

LEMMA BfGrowsGood ==
    ASSUME BfSizes, NEW A, NEW W, NEW u, BfGood(A, W, u),
           NEW f0 \in BigFiles, NEW b0 \in 0..NBlocks, NEW i0 \in Nat, NEW n, NEW A2, NEW W2,
           BfGrows(A, W, u, f0, b0, i0, n, A2, W2)
    PROVE  /\ BfGood(A2, W2, u \cup {n})
           /\ BfCell(A2, W2, f0, b0, i0) /\ BfName(A2, W2, f0, b0, i0) = n
  <1>. DEFINE v == u \cup {n}
  <1>1. /\ BfTypes(A2, W2, v)
        /\ \A c \in Bf!Block, j \in BfIndex :
             W2[c][j] = IF c = n THEN 0 ELSE IF b0 # 0 /\ c = b0 /\ j = i0 THEN n ELSE W[c][j]
        /\ n \in Bf!Block /\ n \notin u /\ n # 0 /\ n # b0
        /\ b0 # 0 => BfTable(A, W, f0, b0) /\ b0 \in u /\ i0 \in BfIndex
    <2>1. BfGrown(A, W, u, f0, b0, i0, n, A2, W2)
      BY BfGrowsTo
    <2>. QED  BY <2>1 DEF BfGrown
  <1>2. /\ \A g \in BigFiles, b \in 0..NBlocks, i \in Nat : BfCell(A, W, g, b, i) =>
                /\ BfCell(A2, W2, g, b, i)
                /\ BfName(A2, W2, g, b, i) =
                     IF g = f0 /\ b = b0 /\ i = i0 THEN n ELSE BfName(A, W, g, b, i)
        /\ \A g \in BigFiles, b \in 0..NBlocks, i \in Nat :
                BfCell(A2, W2, g, b, i) /\ ~BfCell(A, W, g, b, i) => BfName(A2, W2, g, b, i) = 0
    BY BfGrowsCells
  <1>3. BfCell(A, W, f0, b0, i0) /\ BfName(A, W, f0, b0, i0) = 0
    BY DEF BfGrows
  <1>4. BfCell(A2, W2, f0, b0, i0) /\ BfName(A2, W2, f0, b0, i0) = n
    BY <1>2, <1>3
  <1>5. /\ BfNamesUsed(A, W, u) /\ BfUsedNamed(A, W, u) /\ BfOnce(A, W) /\ BfData(A, W, u)
        /\ u \in SUBSET Bf!Block
    BY DEF BfGood, BfTypes
  <1>6. BfNamesUsed(A2, W2, v)
    BY <1>2, <1>5 DEF BfNamesUsed
  <1>7. BfUsedNamed(A2, W2, v)
    <2>1. ASSUME NEW x \in u
          PROVE  \E g \in BigFiles, b \in 0..NBlocks, i \in Nat :
                   BfCell(A2, W2, g, b, i) /\ BfName(A2, W2, g, b, i) = x
      <3>1. PICK g \in BigFiles, b \in 0..NBlocks, i \in Nat : BfCell(A, W, g, b, i) /\ BfName(A, W, g, b, i) = x
        BY <1>5 DEF BfUsedNamed
      <3>2. x # 0
        BY <1>5 DEF Bf!Block
      <3>3. BfCell(A2, W2, g, b, i) /\ BfName(A2, W2, g, b, i) = x
        BY <1>2, <1>3, <3>1, <3>2
      <3>. QED  BY <3>3
    <2>. QED  BY <1>4, <2>1 DEF BfUsedNamed
  <1>8. BfOnce(A2, W2)
    <2>1. ASSUME NEW f \in BigFiles, NEW g \in BigFiles, NEW b \in 0..NBlocks, NEW c \in 0..NBlocks,
                 NEW i \in Nat, NEW j \in Nat,
                 BfCell(A2, W2, f, b, i), BfCell(A2, W2, g, c, j),
                 BfName(A2, W2, f, b, i) # 0,
                 BfName(A2, W2, f, b, i) = BfName(A2, W2, g, c, j)
          PROVE  f = g /\ b = c /\ i = j
      <3>1. BfCell(A, W, f, b, i) /\ BfCell(A, W, g, c, j)
        BY <1>2, <2>1
      <3>2. BfName(A, W, f, b, i) # n /\ BfName(A, W, g, c, j) # n
        BY <1>1, <1>5, <3>1 DEF BfNamesUsed
      <3>3. CASE f = f0 /\ b = b0 /\ i = i0
        BY <1>2, <2>1, <3>1, <3>2, <3>3
      <3>4. CASE g = f0 /\ c = b0 /\ j = i0
        BY <1>2, <2>1, <3>1, <3>2, <3>4
      <3>5. CASE ~(f = f0 /\ b = b0 /\ i = i0) /\ ~(g = f0 /\ c = b0 /\ j = i0)
        <4>1. BfName(A, W, f, b, i) # 0 /\ BfName(A, W, f, b, i) = BfName(A, W, g, c, j)
          BY <1>2, <2>1, <3>1, <3>5
        <4>. QED  BY <1>5, <3>1, <4>1 DEF BfOnce
      <3>. QED  BY <3>3, <3>4, <3>5
    <2>. QED  BY <2>1 DEF BfOnce
  <1>9. BfData(A2, W2, v)
    <2>1. ASSUME NEW b \in v, \A f \in BigFiles : ~BfTable(A2, W2, f, b), NEW j \in BfIndex
          PROVE  W2[b][j] = 0 \/ W2[b][j] > NBlocks
      <3>1. CASE b = n
        BY <1>1, <3>1
      <3>2. CASE b # n
        <4>1. b \in u /\ b \in Bf!Block
          BY <1>5, <3>2
        <4>2. \A f \in BigFiles : ~BfTable(A, W, f, b)
          BY <2>1, BfGrowsTables
        <4>3. W2[b][j] = W[b][j]
          BY <1>1, <3>2, <4>1, <4>2
        <4>. QED  BY <1>5, <4>1, <4>2, <4>3 DEF BfData
      <3>. QED  BY <3>1, <3>2
    <2>. QED  BY <2>1 DEF BfData
  <1>. QED  BY <1>1, <1>4, <1>6, <1>7, <1>8, <1>9 DEF BfGood

(* The three ranges of a file's blocks. *)
LEMMA BfRanges ==
    ASSUME BfSizes, NEW bn \in 0..(Bf!MAXFILE - 1)
    PROVE  \/ bn < NDIRECT
           \/ bn >= NDIRECT /\ bn - NDIRECT < NINDIRECT /\ bn - NDIRECT \in BfIndex
           \/ /\ bn >= NDIRECT /\ ~(bn - NDIRECT < NINDIRECT)
              /\ BfDouble(bn) \div NINDIRECT \in BfIndex /\ (BfDouble(bn) % NINDIRECT) \in BfIndex
              /\ BfDouble(bn) = NINDIRECT * (BfDouble(bn) \div NINDIRECT) + (BfDouble(bn) % NINDIRECT)
  <1>0. NDIRECT \in Nat /\ NINDIRECT \in Nat \ {0} /\ bn \in Int
    BY DEF BfSizes
  <1>1. CASE bn < NDIRECT
    BY <1>1
  <1>2. CASE bn >= NDIRECT /\ bn - NDIRECT < NINDIRECT
    <2>1. bn - NDIRECT \in 0..(NINDIRECT - 1)
      BY <1>0, <1>2
    <2>. QED  BY <1>2, <2>1 DEF BfIndex
  <1>3. CASE bn >= NDIRECT /\ ~(bn - NDIRECT < NINDIRECT)
    <2>1. PICK d \in Int : d = BfDouble(bn) /\ d >= 0
      <3>1. BfDouble(bn) \in Int /\ BfDouble(bn) >= 0
        BY <1>0, <1>3 DEF BfDouble
      <3>. QED  BY <3>1
    <2>2. PICK m \in Int : m = NINDIRECT * NINDIRECT
      BY <1>0
    <2>3. d < m
      BY <1>0, <2>1, <2>2 DEF BfDouble, Bf!MAXFILE
    <2>4. PICK q \in Int, x \in 0..(NINDIRECT - 1) :
             q = d \div NINDIRECT /\ x = d % NINDIRECT /\ d = NINDIRECT * q + x
      <3>1. /\ (d \div NINDIRECT) \in Int /\ (d % NINDIRECT) \in 0..(NINDIRECT - 1)
            /\ d = NINDIRECT * (d \div NINDIRECT) + (d % NINDIRECT)
        BY <1>0, PpDivMod
      <3>. QED  BY <3>1
    <2>5. PICK y \in Int : y = NINDIRECT * q
      BY <1>0
    <2>6. q >= NINDIRECT => y >= m
      BY <1>0, <2>2, <2>5
    <2>7. q <= -1 => y <= -NINDIRECT
      BY <1>0, <2>5
    <2>8. q \in 0..(NINDIRECT - 1)
      <3>1. d = y + x
        BY <2>4, <2>5
      <3>. QED  BY <1>0, <2>1, <2>3, <2>6, <2>7, <3>1
    <2>. QED  BY <1>3, <2>1, <2>4, <2>8 DEF BfIndex
  <1>. QED  BY <1>0, <1>1, <1>2, <1>3

(* Where a block of a file is named, when it is. *)
LEMMA BfWhere ==
    ASSUME BfSizes, NEW A, NEW W, NEW u, BfGood(A, W, u), NEW f \in BigFiles, NEW bn \in 0..(Bf!MAXFILE - 1),
           BfBlk(A, W, f, bn) # 0
    PROVE  /\ BfBase(A, W, f, bn) \in 0..NBlocks /\ BfEntry(bn) \in Nat
           /\ BfCell(A, W, f, BfBase(A, W, f, bn), BfEntry(bn))
           /\ BfName(A, W, f, BfBase(A, W, f, bn), BfEntry(bn)) = BfBlk(A, W, f, bn)
           /\ BfBlk(A, W, f, bn) \in u /\ BfBlk(A, W, f, bn) \in Bf!Block
           /\ BfBase(A, W, f, bn) = 0 <=> bn < NDIRECT
           /\ BfBase(A, W, f, bn) = 0 => BfEntry(bn) = bn
           /\ BfBase(A, W, f, bn) # 0 =>
                BfBase(A, W, f, bn) # A[f][NDIRECT + 1] /\ BfTable(A, W, f, BfBase(A, W, f, bn))
  <1>. DEFINE b == BfBase(A, W, f, bn)
              i == BfEntry(bn)
              R == A[f][NDIRECT + 1]
  <1>0. /\ NBlocks \in Nat /\ NDIRECT \in Nat /\ NINDIRECT \in Nat \ {0} /\ bn \in Nat
        /\ NDIRECT \in 0..(NDIRECT + 1) /\ NDIRECT + 1 \in 0..(NDIRECT + 1) /\ NDIRECT # NDIRECT + 1
        /\ NDIRECT \in Nat /\ NDIRECT + 1 \in Nat /\ 0 \in 0..NBlocks
        /\ A[f] \in [0..(NDIRECT + 1) -> 0..NBlocks]
        /\ BfNamesUsed(A, W, u) /\ BfOnce(A, W) /\ u \in SUBSET Bf!Block
        /\ \A j \in BfIndex : j \in Nat
    BY DEF BfSizes, BfGood, BfTypes, BfIndex
  <1>a. BfCell(A, W, f, 0, NDIRECT) /\ BfName(A, W, f, 0, NDIRECT) = A[f][NDIRECT]
        /\ BfCell(A, W, f, 0, NDIRECT + 1) /\ BfName(A, W, f, 0, NDIRECT + 1) = R
    BY <1>0 DEF BfCell, BfName
  <1>b. ASSUME R # 0, NEW q \in BfIndex
        PROVE  /\ BfCell(A, W, f, R, q) /\ BfName(A, W, f, R, q) = W[R][q]
               /\ W[R][q] # 0 => BfTable(A, W, f, W[R][q])
               /\ W[R][q] \in 0..NBlocks
    <2>1. BfTable(A, W, f, R) /\ (W[R][q] # 0 => BfTable(A, W, f, W[R][q]))
      BY <1>b DEF BfTable
    <2>2. BfCell(A, W, f, R, q) /\ BfName(A, W, f, R, q) = W[R][q]
      BY <1>b, <2>1 DEF BfCell, BfName
    <2>3. R \in 0..NBlocks /\ q \in Nat
      BY <1>0
    <2>4. W[R][q] \in u \cup {0}
      BY <1>0, <2>2, <2>3 DEF BfNamesUsed
    <2>5. PICK x \in u \cup {0} : x = W[R][q]
      BY <2>4
    <2>6. x \in 0..NBlocks
      BY <1>0 DEF Bf!Block
    <2>. QED  BY <2>1, <2>2, <2>5, <2>6
  <1>1. /\ b \in 0..NBlocks /\ i \in Nat
        /\ BfCell(A, W, f, b, i) /\ BfName(A, W, f, b, i) = BfBlk(A, W, f, bn)
        /\ b = 0 <=> bn < NDIRECT
        /\ b = 0 => i = bn
        /\ b # 0 => b # R /\ BfTable(A, W, f, b)
    <2>1. CASE bn < NDIRECT
      <3>1. b = 0 /\ i = bn /\ BfBlk(A, W, f, bn) = A[f][bn]
        <4>1. ~(bn >= NDIRECT)
          BY <1>0, <2>1
        <4>. QED  BY <2>1, <4>1 DEF BfBase, BfEntry, BfBlk
      <3>2. bn \in 0..(NDIRECT + 1)
        BY <1>0, <2>1
      <3>. QED  BY <1>0, <2>1, <3>1, <3>2 DEF BfCell, BfName
    <2>2. CASE bn >= NDIRECT /\ bn - NDIRECT < NINDIRECT /\ bn - NDIRECT \in BfIndex
      <3>1. b = A[f][NDIRECT] /\ i = bn - NDIRECT /\ BfBlk(A, W, f, bn) = BfVia(W, b, i) /\ ~(bn < NDIRECT)
        BY <1>0, <2>2 DEF BfBase, BfEntry, BfBlk
      <3>2. b # 0 /\ BfBlk(A, W, f, bn) = W[b][i]
        BY <3>1 DEF BfVia
      <3>3. BfTable(A, W, f, b)
        BY <3>1, <3>2 DEF BfTable
      <3>4. b # R
        BY <1>0, <1>a, <3>1, <3>2 DEF BfOnce
      <3>. QED  BY <1>0, <2>2, <3>1, <3>2, <3>3, <3>4 DEF BfCell, BfName
    <2>3. CASE /\ bn >= NDIRECT /\ ~(bn - NDIRECT < NINDIRECT)
               /\ BfDouble(bn) \div NINDIRECT \in BfIndex /\ (BfDouble(bn) % NINDIRECT) \in BfIndex
      <3>0. PICK q \in BfIndex : q = BfDouble(bn) \div NINDIRECT
        BY <2>3
      <3>1. /\ b = BfVia(W, R, q) /\ i = BfDouble(bn) % NINDIRECT /\ i \in BfIndex
            /\ BfBlk(A, W, f, bn) = BfVia(W, b, i) /\ ~(bn < NDIRECT)
        BY <1>0, <2>3, <3>0 DEF BfBase, BfEntry, BfBlk
      <3>2. b # 0 /\ BfBlk(A, W, f, bn) = W[b][i] /\ R # 0 /\ b = W[R][q]
        BY <3>1 DEF BfVia
      <3>3. BfTable(A, W, f, b) /\ b \in 0..NBlocks
        BY <1>b, <3>2
      <3>4. b # R
        <4>1. BfCell(A, W, f, R, q) /\ BfName(A, W, f, R, q) = b /\ R \in 0..NBlocks /\ q \in Nat
          BY <1>0, <1>b, <3>2
        <4>. QED  BY <1>0, <1>a, <3>2, <4>1 DEF BfOnce
      <3>. QED  BY <1>0, <3>1, <3>2, <3>3, <3>4 DEF BfCell, BfName
    <2>. QED  BY <2>1, <2>2, <2>3, BfRanges
  <1>2. BfBlk(A, W, f, bn) \in u
    BY <1>0, <1>1 DEF BfNamesUsed
  <1>. QED  BY <1>0, <1>1, <1>2

(* It holds data and no addresses. *)
LEMMA BfBlkNoTable ==
    ASSUME BfSizes, NEW A, NEW W, NEW u, BfGood(A, W, u), NEW f \in BigFiles, NEW bn \in 0..(Bf!MAXFILE - 1),
           BfBlk(A, W, f, bn) # 0, NEW g \in BigFiles
    PROVE  ~BfTable(A, W, g, BfBlk(A, W, f, bn))
  <1>. DEFINE x == BfBlk(A, W, f, bn)
              b == BfBase(A, W, f, bn)
              i == BfEntry(bn)
  <1>1. SUFFICES ASSUME BfTable(A, W, g, x) PROVE FALSE
    OBVIOUS
  <1>2. PICK c \in 0..NBlocks, j \in Nat :
                /\ BfCell(A, W, g, c, j) /\ BfName(A, W, g, c, j) = x
                /\ \/ c = 0 /\ j \in {NDIRECT, NDIRECT + 1}
                   \/ c # 0 /\ c = A[g][NDIRECT + 1]
    BY <1>1, BfTableNamed
  <1>3. /\ b \in 0..NBlocks /\ i \in Nat
        /\ BfCell(A, W, f, b, i) /\ BfName(A, W, f, b, i) = x
        /\ b = 0 <=> bn < NDIRECT
        /\ b = 0 => i = bn
        /\ b # 0 => b # A[f][NDIRECT + 1]
    BY BfWhere
  <1>4. g = f /\ c = b /\ j = i
    BY <1>2, <1>3 DEF BfGood, BfOnce
  <1>5. NDIRECT \in Nat /\ bn \in Int
    BY DEF BfSizes
  <1>. QED  BY <1>2, <1>3, <1>4, <1>5

(* Each block of a file is another. *)
LEMMA BfApart ==
    ASSUME BfSizes, NEW A, NEW W, NEW u, BfGood(A, W, u),
           NEW f \in BigFiles, NEW bn \in 0..(Bf!MAXFILE - 1), NEW g \in BigFiles, NEW bm \in 0..(Bf!MAXFILE - 1),
           BfBlk(A, W, f, bn) # 0, BfBlk(A, W, f, bn) = BfBlk(A, W, g, bm)
    PROVE  f = g /\ bn = bm
  <1>. DEFINE b == BfBase(A, W, f, bn)
              c == BfBase(A, W, g, bm)
              R == A[f][NDIRECT + 1]
  <1>0. /\ NBlocks \in Nat /\ NDIRECT \in Nat /\ NINDIRECT \in Nat \ {0} /\ bn \in Nat /\ bm \in Nat
        /\ NDIRECT \in 0..(NDIRECT + 1) /\ NDIRECT + 1 \in 0..(NDIRECT + 1)
        /\ NDIRECT + 1 \in Nat /\ 0 \in 0..NBlocks
        /\ A[f] \in [0..(NDIRECT + 1) -> 0..NBlocks]
        /\ BfOnce(A, W)
        /\ \A j \in BfIndex : j \in Nat
    BY DEF BfSizes, BfGood, BfTypes, BfIndex
  <1>1. f = g /\ b = c /\ BfEntry(bn) = BfEntry(bm) /\ (b = 0 => bn = bm)
        /\ (b = 0 <=> bn < NDIRECT) /\ (b = 0 <=> bm < NDIRECT)
    <2>1. /\ b \in 0..NBlocks /\ BfEntry(bn) \in Nat
          /\ BfCell(A, W, f, b, BfEntry(bn)) /\ BfName(A, W, f, b, BfEntry(bn)) = BfBlk(A, W, f, bn)
          /\ b = 0 <=> bn < NDIRECT
          /\ b = 0 => BfEntry(bn) = bn
      BY BfWhere
    <2>2. /\ c \in 0..NBlocks /\ BfEntry(bm) \in Nat
          /\ BfCell(A, W, g, c, BfEntry(bm)) /\ BfName(A, W, g, c, BfEntry(bm)) = BfBlk(A, W, g, bm)
          /\ c = 0 <=> bm < NDIRECT
          /\ c = 0 => BfEntry(bm) = bm
      BY BfWhere
    <2>3. f = g /\ b = c /\ BfEntry(bn) = BfEntry(bm)
      BY <1>0, <2>1, <2>2 DEF BfOnce
    <2>. QED  BY <2>1, <2>2, <2>3
  <1>2. SUFFICES ASSUME b # 0 PROVE bn = bm
    BY <1>1
  <1>3. ~(bn < NDIRECT) /\ ~(bm < NDIRECT) /\ bn >= NDIRECT /\ bm >= NDIRECT
    BY <1>0, <1>1, <1>2
  <1>4. ASSUME NEW x \in {bn, bm}, ~(x - NDIRECT < NINDIRECT)
        PROVE  \E q \in BfIndex :
                 /\ R # 0 /\ b = W[R][q]
                 /\ BfDouble(x) = NINDIRECT * q + BfEntry(x) /\ BfEntry(x) \in BfIndex
                 /\ b # A[f][NDIRECT]
    <2>0. x \in 0..(Bf!MAXFILE - 1) /\ x >= NDIRECT /\ b = BfBase(A, W, f, x) /\ x \in Int
      BY <1>0, <1>1, <1>3
    <2>1. PICK q \in BfIndex : /\ q = BfDouble(x) \div NINDIRECT /\ (BfDouble(x) % NINDIRECT) \in BfIndex
                               /\ BfDouble(x) = NINDIRECT * q + (BfDouble(x) % NINDIRECT)
      BY <1>0, <1>4, <2>0, BfRanges
    <2>2. b = BfVia(W, R, q) /\ BfEntry(x) = BfDouble(x) % NINDIRECT
      BY <1>0, <1>4, <2>0, <2>1 DEF BfBase, BfEntry
    <2>3. R # 0 /\ b = W[R][q]
      BY <1>2, <2>2 DEF BfVia
    <2>4. BfTable(A, W, f, R)
      BY <2>3 DEF BfTable
    <2>5. BfCell(A, W, f, R, q) /\ BfName(A, W, f, R, q) = b
          /\ BfCell(A, W, f, 0, NDIRECT) /\ BfName(A, W, f, 0, NDIRECT) = A[f][NDIRECT]
      BY <1>0, <2>3, <2>4 DEF BfCell, BfName
    <2>6. R \in 0..NBlocks /\ 0 \in 0..NBlocks /\ q \in Nat /\ NDIRECT \in Nat
      BY <1>0
    <2>7. ASSUME b = A[f][NDIRECT] PROVE R = 0
      <3>1. BfName(A, W, f, R, q) # 0 /\ BfName(A, W, f, R, q) = BfName(A, W, f, 0, NDIRECT)
        BY <1>2, <2>5, <2>7
      <3>. QED  BY <1>0, <2>5, <2>6, <3>1, Zenon DEF BfOnce
    <2>8. b # A[f][NDIRECT]
      BY <2>3, <2>7
    <2>. QED  BY <2>1, <2>2, <2>3, <2>8
  <1>5. ASSUME NEW x \in {bn, bm}, x - NDIRECT < NINDIRECT
        PROVE  b = A[f][NDIRECT] /\ BfEntry(x) = x - NDIRECT
    <2>0. x >= NDIRECT /\ b = BfBase(A, W, f, x) /\ x \in Int /\ ~(x < NDIRECT)
      BY <1>0, <1>1, <1>3
    <2>. QED  BY <1>5, <2>0 DEF BfBase, BfEntry
  <1>6. CASE bn - NDIRECT < NINDIRECT
    <2>1. bm - NDIRECT < NINDIRECT
      BY <1>4, <1>5, <1>6
    <2>2. BfEntry(bn) = bn - NDIRECT
      BY <1>5, <1>6
    <2>3. BfEntry(bm) = bm - NDIRECT
      BY <1>5, <2>1
    <2>4. bn - NDIRECT = bm - NDIRECT
      BY <1>1, <2>2, <2>3
    <2>5. bn \in Nat /\ bm \in Nat /\ NDIRECT \in Nat
      BY <1>0
    <2>. QED  BY <2>4, <2>5
  <1>7. CASE ~(bn - NDIRECT < NINDIRECT)
    <2>1. ~(bm - NDIRECT < NINDIRECT)
      BY <1>4, <1>5, <1>7
    <2>2. PICK q \in BfIndex : /\ R # 0 /\ b = W[R][q] /\ BfDouble(bn) = NINDIRECT * q + BfEntry(bn)
                               /\ BfEntry(bn) \in BfIndex
      BY <1>4, <1>7
    <2>3. PICK p \in BfIndex : b = W[R][p] /\ BfDouble(bm) = NINDIRECT * p + BfEntry(bm)
      BY <1>4, <2>1
    <2>4. BfTable(A, W, f, R) /\ R \in 0..NBlocks
      BY <1>0, <2>2 DEF BfTable
    <2>5. BfCell(A, W, f, R, q) /\ BfName(A, W, f, R, q) = b /\ BfCell(A, W, f, R, p) /\ BfName(A, W, f, R, p) = b
      BY <2>2, <2>3, <2>4 DEF BfCell, BfName
    <2>6. q = p
      BY <1>0, <1>2, <2>4, <2>5 DEF BfOnce
    <2>7. BfDouble(bn) = BfDouble(bm)
      BY <1>1, <2>2, <2>3, <2>6
    <2>. QED  BY <1>0, <2>7 DEF BfDouble
  <1>. QED  BY <1>6, <1>7

(* What a file has stays where it is. *)
LEMMA BfGrowsKeepsBlk ==
    ASSUME BfSizes, NEW A, NEW W, NEW u, BfGood(A, W, u),
           NEW f0 \in BigFiles, NEW b0 \in 0..NBlocks, NEW i0 \in Nat, NEW n, NEW A2, NEW W2,
           BfGrows(A, W, u, f0, b0, i0, n, A2, W2),
           NEW f \in BigFiles, NEW bn \in 0..(Bf!MAXFILE - 1), BfBlk(A, W, f, bn) # 0
    PROVE  /\ BfBlk(A2, W2, f, bn) = BfBlk(A, W, f, bn)
           /\ W2[BfBlk(A, W, f, bn)] = W[BfBlk(A, W, f, bn)]
  <1>. DEFINE b == BfBase(A, W, f, bn)
              i == BfEntry(bn)
              R == A[f][NDIRECT + 1]
              x == BfBlk(A, W, f, bn)
  <1>0. /\ NBlocks \in Nat /\ NDIRECT \in Nat /\ NINDIRECT \in Nat \ {0} /\ bn \in Nat
        /\ NDIRECT \in 0..(NDIRECT + 1) /\ NDIRECT + 1 \in 0..(NDIRECT + 1)
        /\ NDIRECT \in Nat /\ NDIRECT + 1 \in Nat /\ 0 \in 0..NBlocks
        /\ A[f] \in [0..(NDIRECT + 1) -> 0..NBlocks]
        /\ W \in [Bf!Block -> [BfIndex -> Nat]]
        /\ \A j \in BfIndex : j \in Nat
    BY DEF BfSizes, BfGood, BfTypes, BfIndex
  <1>1. ASSUME NEW c \in 0..NBlocks, NEW j \in Nat, BfCell(A, W, f, c, j), BfName(A, W, f, c, j) # 0
        PROVE  BfName(A2, W2, f, c, j) = BfName(A, W, f, c, j)
    <2>1. BfName(A, W, f0, b0, i0) = 0
      BY DEF BfGrows
    <2>. QED  BY <1>1, <2>1, BfGrowsCells
  <1>2. ASSUME NEW j \in 0..(NDIRECT + 1), A[f][j] # 0 PROVE A2[f][j] = A[f][j]
    <2>1. BfCell(A, W, f, 0, j) /\ j \in Nat
      BY <1>0 DEF BfCell
    <2>. QED  BY <1>0, <1>1, <1>2, <2>1 DEF BfName
  <1>3. ASSUME NEW c \in 0..NBlocks, NEW j \in BfIndex, BfTable(A, W, f, c), W[c][j] # 0
        PROVE  W2[c][j] = W[c][j]
    <2>1. BfCell(A, W, f, c, j) /\ j \in Nat /\ c # 0
      BY <1>0, <1>3 DEF BfCell, BfTable
    <2>. QED  BY <1>1, <1>3, <2>1 DEF BfName
  <1>4. BfBlk(A2, W2, f, bn) = x
    <2>1. CASE bn < NDIRECT
      <3>1. bn \in 0..(NDIRECT + 1)
        BY <1>0, <2>1
      <3>. QED  BY <1>2, <2>1, <3>1 DEF BfBlk
    <2>2. CASE bn >= NDIRECT /\ bn - NDIRECT < NINDIRECT /\ bn - NDIRECT \in BfIndex
      <3>0. ~(bn < NDIRECT)
        BY <1>0, <2>2
      <3>1. b = A[f][NDIRECT] /\ BfBase(A2, W2, f, bn) = A2[f][NDIRECT] /\ i = bn - NDIRECT
        BY <2>2, <3>0 DEF BfBase, BfEntry
      <3>2. x = BfVia(W, b, i) /\ BfBlk(A2, W2, f, bn) = BfVia(W2, A2[f][NDIRECT], i)
        BY <3>0, <3>1 DEF BfBlk
      <3>3. b # 0 /\ x = W[b][i] /\ BfTable(A, W, f, b) /\ b \in 0..NBlocks
        BY <1>0, <3>1, <3>2 DEF BfVia, BfTable
      <3>4. A2[f][NDIRECT] = b /\ W2[b][i] = x
        BY <1>0, <1>2, <1>3, <2>2, <3>1, <3>3
      <3>. QED  BY <3>2, <3>3, <3>4 DEF BfVia
    <2>3. CASE /\ bn >= NDIRECT /\ ~(bn - NDIRECT < NINDIRECT)
               /\ BfDouble(bn) \div NINDIRECT \in BfIndex /\ (BfDouble(bn) % NINDIRECT) \in BfIndex
      <3>a. PICK q \in BfIndex : q = BfDouble(bn) \div NINDIRECT
        BY <2>3
      <3>0. ~(bn < NDIRECT)
        BY <1>0, <2>3
      <3>1. /\ b = BfVia(W, R, q) /\ BfBase(A2, W2, f, bn) = BfVia(W2, A2[f][NDIRECT + 1], q)
            /\ i = BfDouble(bn) % NINDIRECT /\ i \in BfIndex
        BY <2>3, <3>a, <3>0 DEF BfBase, BfEntry
      <3>2. x = BfVia(W, b, i) /\ BfBlk(A2, W2, f, bn) = BfVia(W2, BfVia(W2, A2[f][NDIRECT + 1], q), i)
        BY <3>0, <3>1 DEF BfBlk
      <3>3. R # 0 /\ b # 0 /\ x = W[b][i] /\ b = W[R][q]
        BY <3>1, <3>2 DEF BfVia
      <3>4. BfTable(A, W, f, R) /\ BfTable(A, W, f, b) /\ R \in 0..NBlocks
        BY <1>0, <3>3 DEF BfTable
      <3>5. b \in 0..NBlocks
        BY BfWhere
      <3>6. A2[f][NDIRECT + 1] = R
        BY <1>0, <1>2, <3>3
      <3>7. W2[R][q] = b
        BY <1>3, <3>3, <3>4
      <3>8. W2[b][i] = x
        BY <1>3, <3>1, <3>3, <3>4, <3>5
      <3>. QED  BY <3>2, <3>3, <3>6, <3>7, <3>8 DEF BfVia
    <2>. QED  BY <2>1, <2>2, <2>3, BfRanges
  <1>5. W2[x] = W[x]
    <2>1. x \in u /\ x \in Bf!Block
      BY BfWhere
    <2>2. ~BfTable(A, W, f0, x)
      BY BfBlkNoTable
    <2>3. BfGrown(A, W, u, f0, b0, i0, n, A2, W2)
      BY BfGrowsTo
    <2>4. W2 \in [Bf!Block -> [BfIndex -> Nat]] /\ \A j \in BfIndex : W2[x][j] = W[x][j]
      BY <2>1, <2>2, <2>3 DEF BfGrown, BfTypes
    <2>. QED  BY <1>0, <2>1, <2>4
  <1>. QED  BY <1>4, <1>5

LEMMA BfGrowsKept ==
    ASSUME BfSizes, NEW A, NEW W, NEW u, BfGood(A, W, u),
           NEW f0 \in BigFiles, NEW b0 \in 0..NBlocks, NEW i0 \in Nat, NEW n, NEW A2, NEW W2,
           BfGrows(A, W, u, f0, b0, i0, n, A2, W2), NEW S, BfKept(A, W, S)
    PROVE  BfKept(A2, W2, S)
  <1>1. SUFFICES ASSUME NEW f \in BigFiles, NEW bn \in 0..(Bf!MAXFILE - 1), bn < S[f]
                 PROVE  BfBlk(A2, W2, f, bn) # 0 /\ W2[BfBlk(A2, W2, f, bn)] = Bf!Content(f, bn)
    BY DEF BfKept
  <1>2. BfBlk(A, W, f, bn) # 0 /\ W[BfBlk(A, W, f, bn)] = Bf!Content(f, bn)
    BY <1>1 DEF BfKept
  <1>. QED  BY <1>2, BfGrowsKeepsBlk

-----------------------------------------------------------------------------
(* The walk of bmap over a file f: what it has made of the disk is good.   *)

BfWalk(u, a, W, x) == [used |-> u, addrs |-> a, words |-> W, addr |-> x]
BfOn(A0, f, a) == [A0 EXCEPT ![f] = a]
BfZeroed(W, n) == [W EXCEPT ![n] = Bf!Filled(0)]

BfWalked(A0, f, S, w) ==
    /\ w = BfWalk(w.used, w.addrs, w.words, w.addr)
    /\ w.addrs \in [0..(NDIRECT + 1) -> 0..NBlocks]
    /\ BfGood(BfOn(A0, f, w.addrs), w.words, w.used)
    /\ BfKept(BfOn(A0, f, w.addrs), w.words, S)

LEMMA BfWalkFields ==
    ASSUME NEW u, NEW a, NEW W, NEW x
    PROVE  /\ BfWalk(u, a, W, x).used = u /\ BfWalk(u, a, W, x).addrs = a
           /\ BfWalk(u, a, W, x).words = W /\ BfWalk(u, a, W, x).addr = x
  BY DEF BfWalk

LEMMA BfSetUsed ==
    ASSUME NEW u, NEW a, NEW W, NEW x, NEW y
    PROVE  [BfWalk(u, a, W, x) EXCEPT !.used = y] = BfWalk(y, a, W, x)
  BY DEF BfWalk

LEMMA BfSetAddrs ==
    ASSUME NEW u, NEW a, NEW W, NEW x, NEW y
    PROVE  [BfWalk(u, a, W, x) EXCEPT !.addrs = y] = BfWalk(u, y, W, x)
  BY DEF BfWalk

LEMMA BfSetWords ==
    ASSUME NEW u, NEW a, NEW W, NEW x, NEW y
    PROVE  [BfWalk(u, a, W, x) EXCEPT !.words = y] = BfWalk(u, a, y, x)
  BY DEF BfWalk

LEMMA BfSetAddr ==
    ASSUME NEW u, NEW a, NEW W, NEW x, NEW y
    PROVE  [BfWalk(u, a, W, x) EXCEPT !.addr = y] = BfWalk(u, a, W, y)
  BY DEF BfWalk

LEMMA BfWalksOn ==
    ASSUME NEW A0, NEW f, NEW S, NEW u, NEW a, NEW W, NEW x, NEW A, NEW y,
           a \in [0..(NDIRECT + 1) -> 0..NBlocks], A = BfOn(A0, f, a),
           BfGood(A, W, u), BfKept(A, W, S), y = BfWalk(u, a, W, x)
    PROVE  BfWalked(A0, f, S, y) /\ y.addr = x /\ y.addrs = a /\ y.words = W
  <1>1. y.used = u /\ y.addrs = a /\ y.words = W /\ y.addr = x
    BY BfWalkFields
  <1>. QED  BY <1>1 DEF BfWalked

(* What balloc gives. *)
BfBallocs(u, a, W, y) ==
    \/ y = BfWalk(u, a, W, 0)
    \/ \E n \in Bf!Block \ u : \E v, V :
         v = u \cup {n} /\ V = BfZeroed(W, n) /\ y = BfWalk(v, a, V, n)

LEMMA BfBalloc ==
    ASSUME BfSizes, NEW u \in SUBSET Bf!Block, NEW a, NEW W \in [Bf!Block -> [BfIndex -> Nat]], NEW x
    PROVE  BfBallocs(u, a, W, Bf!Balloc(BfWalk(u, a, W, x)))
  <1>a. PICK w : w = BfWalk(u, a, W, x)
    OBVIOUS
  <1>b. PICK n : n = Bf!FirstFree(u)
    OBVIOUS
  <1>0. w.used = u /\ w.words = W
    BY <1>a, BfWalkFields
  <1>1. CASE n = 0
    <2>1. Bf!Balloc(w) = [w EXCEPT !.addr = 0]
      BY <1>0, <1>1, <1>b DEF Bf!Balloc
    <2>2. [w EXCEPT !.addr = 0] = BfWalk(u, a, W, 0)
      BY <1>a, BfSetAddr
    <2>. QED  BY <1>a, <2>1, <2>2 DEF BfBallocs
  <1>2. CASE n # 0
    <2>0. PICK v, V : v = u \cup {n} /\ V = BfZeroed(W, n)
      OBVIOUS
    <2>1. Bf!Balloc(w) = [w EXCEPT !.used = @ \cup {n}, !.addr = n, !.words[n] = Bf!Filled(0)]
      BY <1>0, <1>2, <1>b DEF Bf!Balloc
    <2>2. [w EXCEPT !.used = @ \cup {n}, !.addr = n, !.words[n] = Bf!Filled(0)]
            = [[[w EXCEPT !.used = w.used \cup {n}] EXCEPT !.addr = n]
                 EXCEPT !.words = [w.words EXCEPT ![n] = Bf!Filled(0)]]
      OBVIOUS
    <2>3. [w EXCEPT !.used = v] = BfWalk(v, a, W, x)
      BY <1>a, BfSetUsed
    <2>4. [BfWalk(v, a, W, x) EXCEPT !.addr = n] = BfWalk(v, a, W, n)
      BY BfSetAddr
    <2>5. [BfWalk(v, a, W, n) EXCEPT !.words = V] = BfWalk(v, a, V, n)
      BY BfSetWords
    <2>6. Bf!Balloc(w) = BfWalk(v, a, V, n)
      <3>1. [w EXCEPT !.used = @ \cup {n}, !.addr = n, !.words[n] = Bf!Filled(0)]
              = [[[w EXCEPT !.used = v] EXCEPT !.addr = n] EXCEPT !.words = V]
        BY <1>0, <2>0, <2>2 DEF BfZeroed
      <3>. QED  BY <2>1, <2>3, <2>4, <2>5, <3>1
    <2>7. n \in Bf!Block \ u
      BY <1>2, <1>b, BfFirstFree
    <2>. QED  BY <1>a, <2>0, <2>6, <2>7 DEF BfBallocs
  <1>. QED  BY <1>1, <1>2

(* A slot of the inode. *)
LEMMA BfDirect ==
    ASSUME BfSizes, NEW A0 \in [BigFiles -> [0..(NDIRECT + 1) -> 0..NBlocks]], NEW f \in BigFiles, NEW S,
           NEW w, BfWalked(A0, f, S, w), NEW i \in 0..(NDIRECT + 1)
    PROVE  BfWalked(A0, f, S, Bf!Direct(w, i)) /\ Bf!Direct(w, i).addr = Bf!Direct(w, i).addrs[i]
  <1>1. PICK u, a, W, x : w = BfWalk(u, a, W, x)
    BY DEF BfWalked
  <1>2. w.used = u /\ w.addrs = a /\ w.words = W /\ w.addr = x
    BY <1>1, BfWalkFields
  <1>3. PICK A : A = BfOn(A0, f, a)
    OBVIOUS
  <1>4. /\ a \in [0..(NDIRECT + 1) -> 0..NBlocks] /\ BfGood(A, W, u) /\ BfKept(A, W, S)
        /\ u \in SUBSET Bf!Block /\ W \in [Bf!Block -> [BfIndex -> Nat]]
        /\ A[f] = a
    BY <1>2, <1>3 DEF BfWalked, BfGood, BfTypes, BfOn
  <1>5. CASE a[i] # 0
    <2>1. Bf!Direct(w, i) = [w EXCEPT !.addr = a[i]]
      BY <1>2, <1>5 DEF Bf!Direct
    <2>2. PICK y : y = a[i]
      OBVIOUS
    <2>3. Bf!Direct(w, i) = BfWalk(u, a, W, y)
      BY <1>1, <2>1, <2>2, BfSetAddr
    <2>4. BfWalked(A0, f, S, Bf!Direct(w, i)) /\ Bf!Direct(w, i).addr = y /\ Bf!Direct(w, i).addrs = a
      BY <1>3, <1>4, <2>3, BfWalksOn
    <2>. QED  BY <2>2, <2>4
  <1>6. CASE a[i] = 0 /\ Bf!Balloc(w) = BfWalk(u, a, W, 0)
    <2>0. [a EXCEPT ![i] = 0] = a
      BY <1>4, <1>6
    <2>1. PICK v : v = BfWalk(u, a, W, 0)
      OBVIOUS
    <2>2. v.addr = 0 /\ v.addrs = a
      BY <2>1, BfWalkFields
    <2>3. Bf!Direct(w, i) = [v EXCEPT !.addrs[i] = v.addr]
      BY <1>2, <1>6, <2>1 DEF Bf!Direct
    <2>4. [v EXCEPT !.addrs[i] = 0] = [v EXCEPT !.addrs = [v.addrs EXCEPT ![i] = 0]]
      OBVIOUS
    <2>5. [v EXCEPT !.addrs = a] = v
      BY <2>1, BfSetAddrs
    <2>6. Bf!Direct(w, i) = v
      BY <2>0, <2>2, <2>3, <2>4, <2>5
    <2>7. BfWalked(A0, f, S, Bf!Direct(w, i)) /\ Bf!Direct(w, i).addr = 0 /\ Bf!Direct(w, i).addrs = a
      <3>1. v.used = u /\ v.words = W
        BY <2>1, BfWalkFields
      <3>2. v = BfWalk(v.used, v.addrs, v.words, v.addr)
        BY <2>1, <2>2, <3>1
      <3>3. BfGood(BfOn(A0, f, v.addrs), v.words, v.used) /\ BfKept(BfOn(A0, f, v.addrs), v.words, S)
        BY <1>3, <1>4, <2>2, <3>1
      <3>4. BfWalked(A0, f, S, v)
        BY <1>4, <2>2, <3>2, <3>3 DEF BfWalked
      <3>. QED  BY <2>2, <2>6, <3>4
    <2>. QED  BY <1>6, <2>7
  <1>7. ASSUME a[i] = 0, NEW n \in Bf!Block \ u, NEW u2, NEW W2,
               u2 = u \cup {n}, W2 = BfZeroed(W, n),
               Bf!Balloc(w) = BfWalk(u2, a, W2, n)
        PROVE  BfWalked(A0, f, S, Bf!Direct(w, i)) /\ Bf!Direct(w, i).addr = Bf!Direct(w, i).addrs[i]
    <2>0. PICK a2, A2 : a2 = [a EXCEPT ![i] = n] /\ A2 = [A EXCEPT ![f][i] = n]
      OBVIOUS
    <2>1. Bf!Direct(w, i) = BfWalk(u2, a2, W2, n)
      <3>1. PICK v : v = BfWalk(u2, a, W2, n)
        OBVIOUS
      <3>2. [v EXCEPT !.addrs[i] = n] = [v EXCEPT !.addrs = [v.addrs EXCEPT ![i] = n]]
        OBVIOUS
      <3>3. Bf!Direct(w, i) = [v EXCEPT !.addrs[i] = v.addr]
        BY <1>2, <1>7, <3>1 DEF Bf!Direct
      <3>4. v.addr = n /\ v.addrs = a
        BY <3>1, BfWalkFields
      <3>5. Bf!Direct(w, i) = [v EXCEPT !.addrs = a2]
        BY <2>0, <3>2, <3>3, <3>4
      <3>. QED  BY <3>1, <3>5, BfSetAddrs
    <2>2. 0 \in 0..NBlocks /\ i \in Nat /\ n \in 0..NBlocks
      BY DEF BfSizes, Bf!Block
    <2>3. BfGrows(A, W, u, f, 0, i, n, A2, W2)
      BY <1>4, <1>7, <2>0 DEF BfGrows, BfCell, BfName, BfZeroed
    <2>4. BfGood(A2, W2, u \cup {n})
      BY <1>4, <2>2, <2>3, BfGrowsGood
    <2>5. BfKept(A2, W2, S)
      BY <1>4, <2>2, <2>3, BfGrowsKept
    <2>6. A2 = BfOn(A0, f, a2)
      <3>1. A \in [BigFiles -> [0..(NDIRECT + 1) -> 0..NBlocks]]
        BY <1>3, <1>4 DEF BfOn
      <3>2. A2 = [A EXCEPT ![f] = a2]
        BY <1>4, <2>0
      <3>. QED  BY <1>3, <3>2 DEF BfOn
    <2>7. a2 \in [0..(NDIRECT + 1) -> 0..NBlocks] /\ a2[i] = n
      BY <1>4, <2>0, <2>2
    <2>8. BfWalked(A0, f, S, Bf!Direct(w, i)) /\ Bf!Direct(w, i).addr = n /\ Bf!Direct(w, i).addrs = a2
      BY <1>7, <2>1, <2>4, <2>5, <2>6, <2>7, BfWalksOn
    <2>. QED  BY <2>7, <2>8
  <1>8. BfBallocs(u, a, W, Bf!Balloc(w))
    <2>1. BfBallocs(u, a, W, Bf!Balloc(BfWalk(u, a, W, x)))
      BY <1>4, BfBalloc
    <2>. QED  BY <1>1, <2>1
  <1>. QED  BY <1>5, <1>6, <1>7, <1>8 DEF BfBallocs

(* A word of a block of addresses. *)
LEMMA BfIndirect ==
    ASSUME BfSizes, NEW A0 \in [BigFiles -> [0..(NDIRECT + 1) -> 0..NBlocks]], NEW f \in BigFiles, NEW S,
           NEW w, BfWalked(A0, f, S, w), NEW i \in BfIndex,
           w.addr # 0 => BfTable(BfOn(A0, f, w.addrs), w.words, f, w.addr)
    PROVE  /\ BfWalked(A0, f, S, Bf!Indirect(w, i))
           /\ Bf!Indirect(w, i).addrs = w.addrs
           /\ Bf!Indirect(w, i).addr = BfVia(Bf!Indirect(w, i).words, w.addr, i)
           /\ \A b \in Bf!Block, j \in BfIndex :
                BfTable(BfOn(A0, f, w.addrs), w.words, f, b) /\ w.words[b][j] # 0 =>
                  Bf!Indirect(w, i).words[b][j] = w.words[b][j]
  <1>1. PICK u, a, W, x : w = BfWalk(u, a, W, x)
    BY DEF BfWalked
  <1>2. w.used = u /\ w.addrs = a /\ w.words = W /\ w.addr = x
    BY <1>1, BfWalkFields
  <1>3. PICK A : A = BfOn(A0, f, a)
    OBVIOUS
  <1>4. /\ a \in [0..(NDIRECT + 1) -> 0..NBlocks] /\ BfGood(A, W, u) /\ BfKept(A, W, S)
        /\ u \in SUBSET Bf!Block /\ W \in [Bf!Block -> [BfIndex -> Nat]]
    BY <1>2, <1>3 DEF BfWalked, BfGood, BfTypes
  <1>5. x # 0 => BfTable(A, W, f, x) /\ x \in Bf!Block /\ x \in 0..NBlocks /\ x \in u
    <2>1. x # 0 => BfTable(A, W, f, x)
      BY <1>2, <1>3
    <2>2. x # 0 => x \in Bf!Block /\ x \in u
      BY <1>4, <2>1, BfTableNamed
    <2>. QED  BY <2>1, <2>2 DEF Bf!Block
  <1>6. CASE x = 0
    <2>1. Bf!Indirect(w, i) = w
      BY <1>2, <1>6 DEF Bf!Indirect
    <2>. QED  BY <1>2, <1>6, <2>1 DEF BfVia
  <1>7. CASE x # 0 /\ W[x][i] # 0
    <2>0. PICK y : y = W[x][i]
      OBVIOUS
    <2>1. Bf!Indirect(w, i) = [w EXCEPT !.addr = y]
      BY <1>2, <1>7, <2>0 DEF Bf!Indirect
    <2>2. Bf!Indirect(w, i) = BfWalk(u, a, W, y)
      BY <1>1, <2>1, BfSetAddr
    <2>3. BfWalked(A0, f, S, Bf!Indirect(w, i))
      BY <1>3, <1>4, <2>2, BfWalksOn
    <2>4. Bf!Indirect(w, i).addrs = a /\ Bf!Indirect(w, i).words = W /\ Bf!Indirect(w, i).addr = y
      BY <2>2, BfWalkFields
    <2>. QED  BY <1>2, <1>7, <2>0, <2>3, <2>4 DEF BfVia
  <1>8. CASE x # 0 /\ W[x][i] = 0 /\ Bf!Balloc(w) = BfWalk(u, a, W, 0)
    <2>0. [W EXCEPT ![x][i] = 0] = W
      BY <1>4, <1>5, <1>8
    <2>1. PICK v : v = BfWalk(u, a, W, 0)
      OBVIOUS
    <2>2. [v EXCEPT !.words[x][i] = 0] = [v EXCEPT !.words = [v.words EXCEPT ![x][i] = 0]]
      OBVIOUS
    <2>3. v.addr = 0 /\ v.words = W /\ v.addrs = a
      BY <2>1, BfWalkFields
    <2>4. Bf!Indirect(w, i) = [v EXCEPT !.words[x][i] = v.addr]
      BY <1>2, <1>8, <2>1 DEF Bf!Indirect
    <2>5. [v EXCEPT !.words = W] = v
      BY <2>1, BfSetWords
    <2>6. Bf!Indirect(w, i) = v
      BY <2>0, <2>2, <2>3, <2>4, <2>5
    <2>7. BfWalked(A0, f, S, Bf!Indirect(w, i))
      BY <1>3, <1>4, <2>1, <2>6, BfWalksOn
    <2>. QED  BY <1>2, <1>8, <2>3, <2>6, <2>7 DEF BfVia
  <1>9. ASSUME x # 0, W[x][i] = 0, NEW n \in Bf!Block \ u, NEW u2, NEW W1,
               u2 = u \cup {n}, W1 = BfZeroed(W, n),
               Bf!Balloc(w) = BfWalk(u2, a, W1, n)
        PROVE  /\ BfWalked(A0, f, S, Bf!Indirect(w, i))
               /\ Bf!Indirect(w, i).addrs = a
               /\ Bf!Indirect(w, i).addr = BfVia(Bf!Indirect(w, i).words, x, i)
               /\ \A b \in Bf!Block, j \in BfIndex :
                    BfTable(A, W, f, b) /\ W[b][j] # 0 => Bf!Indirect(w, i).words[b][j] = W[b][j]
    <2>0. PICK W2 : W2 = [W1 EXCEPT ![x][i] = n]
      OBVIOUS
    <2>1. Bf!Indirect(w, i) = BfWalk(u2, a, W2, n)
      <3>1. PICK v : v = BfWalk(u2, a, W1, n)
        OBVIOUS
      <3>2. [v EXCEPT !.words[x][i] = n] = [v EXCEPT !.words = [v.words EXCEPT ![x][i] = n]]
        OBVIOUS
      <3>3. Bf!Indirect(w, i) = [v EXCEPT !.words[x][i] = v.addr]
        BY <1>2, <1>9, <3>1 DEF Bf!Indirect
      <3>4. v.addr = n /\ v.words = W1
        BY <3>1, BfWalkFields
      <3>5. Bf!Indirect(w, i) = [v EXCEPT !.words = W2]
        BY <2>0, <3>2, <3>3, <3>4
      <3>. QED  BY <3>1, <3>5, BfSetWords
    <2>2. i \in Nat
      BY DEF BfIndex, BfSizes
    <2>3. BfGrows(A, W, u, f, x, i, n, A, W2)
      BY <1>4, <1>5, <1>9, <2>0 DEF BfGrows, BfCell, BfName, BfZeroed
    <2>4. BfGood(A, W2, u \cup {n})
      BY <1>4, <1>5, <1>9, <2>2, <2>3, BfGrowsGood
    <2>a. BfKept(A, W2, S)
      BY <1>4, <1>5, <1>9, <2>2, <2>3, BfGrowsKept
    <2>5. BfGrown(A, W, u, f, x, i, n, A, W2)
      BY <1>4, <1>5, <1>9, <2>2, <2>3, BfGrowsTo
    <2>6. W2[x][i] = n
      BY <1>5, <1>9, <2>5 DEF BfGrown
    <2>7. ASSUME NEW b \in Bf!Block, NEW j \in BfIndex, BfTable(A, W, f, b), W[b][j] # 0
          PROVE  W2[b][j] = W[b][j]
      <3>1. b \in u
        BY <1>4, <2>7, BfTableNamed
      <3>. QED  BY <1>9, <2>5, <2>7, <3>1 DEF BfGrown
    <2>8. BfWalked(A0, f, S, Bf!Indirect(w, i))
      BY <1>3, <1>4, <1>9, <2>1, <2>4, <2>a, BfWalksOn
    <2>9. Bf!Indirect(w, i).addrs = a /\ Bf!Indirect(w, i).words = W2 /\ Bf!Indirect(w, i).addr = n
      BY <2>1, BfWalkFields
    <2>. QED  BY <1>9, <2>6, <2>7, <2>8, <2>9 DEF BfVia
  <1>10. BfBallocs(u, a, W, Bf!Balloc(w))
    <2>1. BfBallocs(u, a, W, Bf!Balloc(BfWalk(u, a, W, x)))
      BY <1>4, BfBalloc
    <2>. QED  BY <1>1, <2>1
  <1>. QED  BY <1>2, <1>3, <1>6, <1>7, <1>8, <1>9, <1>10 DEF BfBallocs

(* bmap: the disk stays good, and the walk comes to the block's place. *)
LEMMA BfBmap ==
    ASSUME BfSizes, BfIInv, NEW f \in BigFiles, NEW bn \in 0..(Bf!MAXFILE - 1)
    PROVE  /\ BfWalked(addrs, f, fsize, Bf!bmap(f, bn))
           /\ Bf!bmap(f, bn).addr = BfBlk(BfOn(addrs, f, Bf!bmap(f, bn).addrs), Bf!bmap(f, bn).words, f, bn)
  <1>. DEFINE s == Bf!Start(f)
              On(w) == BfOn(addrs, f, w.addrs)
  <1>0. /\ NDIRECT \in Nat /\ NINDIRECT \in Nat \ {0} /\ bn \in Nat
        /\ NDIRECT \in 0..(NDIRECT + 1) /\ NDIRECT + 1 \in 0..(NDIRECT + 1)
        /\ addrs \in [BigFiles -> [0..(NDIRECT + 1) -> 0..NBlocks]]
    BY DEF BfSizes, BfIInv, BfGood, BfTypes
  <1>1. BfWalked(addrs, f, fsize, s)
    <2>1. s = BfWalk(used, addrs[f], words, 0)
      BY DEF Bf!Start, BfWalk
    <2>2. addrs = BfOn(addrs, f, addrs[f]) /\ addrs[f] \in [0..(NDIRECT + 1) -> 0..NBlocks]
      BY <1>0 DEF BfOn
    <2>3. BfGood(addrs, words, used) /\ BfKept(addrs, words, fsize)
      BY DEF BfIInv
    <2>. QED  BY <2>1, <2>2, <2>3, BfWalksOn
  <1>2. ASSUME NEW w, BfWalked(addrs, f, fsize, w) PROVE On(w)[f] = w.addrs
    BY <1>0 DEF BfOn
  <1>. HIDE DEF s
  <1>d. ASSUME NEW k1 \in 0..(NDIRECT + 1)
        PROVE  BfWalked(addrs, f, fsize, Bf!Direct(s, k1)) /\ Bf!Direct(s, k1).addr = Bf!Direct(s, k1).addrs[k1]
    <2>0. addrs \in [BigFiles -> [0..(NDIRECT + 1) -> 0..NBlocks]]
      BY <1>0
    <2>1. BfWalked(addrs, f, fsize, s)
      BY <1>1
    <2>. QED  BY ONLY <2>0, <2>1, BfSizes, f \in BigFiles, k1 \in 0..(NDIRECT + 1),
        BfDirect, ZenonT(60)
  <1>3. CASE bn < NDIRECT
    <2>0. bn \in 0..(NDIRECT + 1)
      BY <1>0, <1>3
    <2>1. Bf!bmap(f, bn) = Bf!Direct(s, bn)
      <3>1. ~(bn >= NDIRECT)
        BY <1>0, <1>3
      <3>. QED  BY <1>3, <3>1 DEF Bf!bmap, s
    <2>2. PICK w : w = Bf!Direct(s, bn)
      OBVIOUS
    <2>3. BfWalked(addrs, f, fsize, w) /\ w.addr = w.addrs[bn]
      BY <1>d, <2>0, <2>2
    <2>4. w.addr = BfBlk(On(w), w.words, f, bn)
      BY <1>2, <1>3, <2>3 DEF BfBlk
    <2>. QED  BY <2>1, <2>2, <2>3, <2>4
  <1>4. CASE bn >= NDIRECT /\ bn - NDIRECT < NINDIRECT /\ bn - NDIRECT \in BfIndex
    <2>0. PICK j \in BfIndex : j = bn - NDIRECT
      BY <1>4
    <2>1. ~(bn < NDIRECT)
      BY <1>0, <1>4
    <2>2. PICK d, w : d = Bf!Direct(s, NDIRECT) /\ w = Bf!Indirect(d, j)
      OBVIOUS
    <2>3. Bf!bmap(f, bn) = w
      BY <1>4, <2>0, <2>1, <2>2 DEF Bf!bmap, s
    <2>a. BfWalked(addrs, f, fsize, Bf!Direct(s, NDIRECT))
          /\ Bf!Direct(s, NDIRECT).addr = Bf!Direct(s, NDIRECT).addrs[NDIRECT]
      BY <1>0, <1>d
    <2>4. BfWalked(addrs, f, fsize, d) /\ d.addr = d.addrs[NDIRECT]
      BY <2>2, <2>a
    <2>5. d.addr # 0 => BfTable(On(d), d.words, f, d.addr)
      BY <1>2, <2>4 DEF BfTable
    <2>6. BfWalked(addrs, f, fsize, w) /\ w.addrs = d.addrs /\ w.addr = BfVia(w.words, d.addr, j)
      BY <1>0, <2>2, <2>4, <2>5, BfIndirect
    <2>7. w.addr = BfBlk(On(w), w.words, f, bn)
      <3>1. BfBase(On(w), w.words, f, bn) = On(w)[f][NDIRECT] /\ BfEntry(bn) = j
        BY <1>4, <2>0, <2>1 DEF BfBase, BfEntry
      <3>2. On(w)[f][NDIRECT] = d.addr
        BY <1>2, <2>4, <2>6
      <3>. QED  BY <2>1, <2>6, <3>1, <3>2 DEF BfBlk
    <2>. QED  BY <2>3, <2>6, <2>7
  <1>5. CASE /\ bn >= NDIRECT /\ ~(bn - NDIRECT < NINDIRECT)
             /\ BfDouble(bn) \div NINDIRECT \in BfIndex /\ (BfDouble(bn) % NINDIRECT) \in BfIndex
    <2>0. PICK q \in BfIndex, j \in BfIndex : q = BfDouble(bn) \div NINDIRECT /\ j = BfDouble(bn) % NINDIRECT
      BY <1>5
    <2>1. ~(bn < NDIRECT)
      BY <1>0, <1>5
    <2>2. PICK d, e, w : d = Bf!Direct(s, NDIRECT + 1) /\ e = Bf!Indirect(d, q) /\ w = Bf!Indirect(e, j)
      OBVIOUS
    <2>3. Bf!bmap(f, bn) = w
      BY <1>5, <2>0, <2>1, <2>2 DEF Bf!bmap, s, BfDouble
    <2>4. BfWalked(addrs, f, fsize, d) /\ d.addr = d.addrs[NDIRECT + 1]
      BY <1>0, <1>1, <2>2, BfDirect
    <2>5. d.addr # 0 => BfTable(On(d), d.words, f, d.addr)
      BY <1>2, <2>4 DEF BfTable
    <2>6. BfWalked(addrs, f, fsize, e) /\ e.addrs = d.addrs /\ e.addr = BfVia(e.words, d.addr, q)
      BY <1>0, <2>2, <2>4, <2>5, BfIndirect
    <2>7. e.addr # 0 => /\ BfTable(On(e), e.words, f, e.addr) /\ BfTable(On(e), e.words, f, d.addr)
                        /\ d.addr # 0 /\ e.addr = e.words[d.addr][q]
      <3>1. e.addr # 0 => d.addr # 0 /\ e.addr = e.words[d.addr][q]
        BY <2>6 DEF BfVia
      <3>2. On(e)[f][NDIRECT + 1] = d.addr
        BY <1>2, <2>4, <2>6
      <3>. QED  BY <3>1, <3>2 DEF BfTable
    <2>8. /\ BfWalked(addrs, f, fsize, w) /\ w.addrs = e.addrs /\ w.addr = BfVia(w.words, e.addr, j)
          /\ \A b \in Bf!Block, i \in BfIndex :
                BfTable(On(e), e.words, f, b) /\ e.words[b][i] # 0 => w.words[b][i] = e.words[b][i]
      <3>1. e.addr # 0 => BfTable(BfOn(addrs, f, e.addrs), e.words, f, e.addr)
        BY <2>7
      <3>2. PICK v : v = Bf!Indirect(e, j)
        OBVIOUS
      <3>3. /\ BfWalked(addrs, f, fsize, Bf!Indirect(e, j)) /\ Bf!Indirect(e, j).addrs = e.addrs
            /\ Bf!Indirect(e, j).addr = BfVia(Bf!Indirect(e, j).words, e.addr, j)
            /\ \A b \in Bf!Block, i \in BfIndex :
                 BfTable(BfOn(addrs, f, e.addrs), e.words, f, b) /\ e.words[b][i] # 0 =>
                   Bf!Indirect(e, j).words[b][i] = e.words[b][i]
        BY <1>0, <2>0, <2>6, <3>1, BfIndirect
      <3>. QED  BY <2>2, <3>3
    <2>9. BfVia(w.words, d.addr, q) = e.addr
      <3>1. CASE e.addr = 0
        <4>1. w = e
          BY <2>2, <3>1 DEF Bf!Indirect
        <4>. QED  BY <2>6, <4>1
      <3>2. CASE e.addr # 0
        <4>1. d.addr \in Bf!Block
          <5>1. BfGood(On(e), e.words, e.used)
            BY <2>6 DEF BfWalked
          <5>. QED  BY <2>7, <3>2, <5>1, BfTableNamed
        <4>2. w.words[d.addr][q] = e.addr
          BY <2>7, <2>8, <3>2, <4>1
        <4>. QED  BY <2>7, <3>2, <4>2 DEF BfVia
      <3>. QED  BY <3>1, <3>2
    <2>10. w.addr = BfBlk(On(w), w.words, f, bn)
      <3>1. BfBase(On(w), w.words, f, bn) = BfVia(w.words, On(w)[f][NDIRECT + 1], q) /\ BfEntry(bn) = j
        BY <1>5, <2>0, <2>1 DEF BfBase, BfEntry
      <3>2. On(w)[f][NDIRECT + 1] = d.addr
        BY <1>2, <2>4, <2>6, <2>8
      <3>. QED  BY <2>1, <2>8, <2>9, <3>1, <3>2 DEF BfBlk
    <2>. QED  BY <2>3, <2>8, <2>10
  <1>. QED  BY <1>3, <1>4, <1>5, BfRanges

(* What does not touch the blocks of addresses of a file leaves its places *)
(* as they were.                                                           *)
BfUntouched(A, W, A2, W2, f) ==
    A2[f] = A[f] /\ \A b \in Bf!Block : BfTable(A, W, f, b) => W2[b] = W[b]
BfAlike(A, W, A2, W2, f) ==
    /\ \A b : BfTable(A2, W2, f, b) <=> BfTable(A, W, f, b)
    /\ \A b, i : BfCell(A2, W2, f, b, i) <=> BfCell(A, W, f, b, i)
    /\ \A b \in 0..NBlocks, i \in Nat :
         BfCell(A, W, f, b, i) => BfName(A2, W2, f, b, i) = BfName(A, W, f, b, i)
    /\ \A bn \in 0..(Bf!MAXFILE - 1) : BfBlk(A2, W2, f, bn) = BfBlk(A, W, f, bn)

LEMMA BfSame ==
    ASSUME BfSizes, NEW A, NEW W, NEW u, BfGood(A, W, u), NEW f \in BigFiles, NEW A2, NEW W2,
           BfUntouched(A, W, A2, W2, f)
    PROVE  BfAlike(A, W, A2, W2, f)
  <1>. SUFFICES ASSUME A2[f] = A[f], \A b \in Bf!Block : BfTable(A, W, f, b) => W2[b] = W[b]
                PROVE  /\ \A b : BfTable(A2, W2, f, b) <=> BfTable(A, W, f, b)
                       /\ \A b, i : BfCell(A2, W2, f, b, i) <=> BfCell(A, W, f, b, i)
                       /\ \A b \in 0..NBlocks, i \in Nat :
                            BfCell(A, W, f, b, i) => BfName(A2, W2, f, b, i) = BfName(A, W, f, b, i)
                       /\ \A bn \in 0..(Bf!MAXFILE - 1) : BfBlk(A2, W2, f, bn) = BfBlk(A, W, f, bn)
    BY DEF BfUntouched, BfAlike
  <1>. DEFINE R == A[f][NDIRECT + 1]
  <1>1. \A b : BfTable(A, W, f, b) => W2[b] = W[b]
    BY BfTableNamed
  <1>2. R # 0 => BfTable(A, W, f, R)
    BY DEF BfTable
  <1>3. R # 0 => W2[R] = W[R]
    BY <1>1, <1>2
  <1>4. ASSUME NEW b PROVE BfTable(A2, W2, f, b) <=> BfTable(A, W, f, b)
    BY <1>3 DEF BfTable
  <1>5. ASSUME NEW b, NEW i PROVE BfCell(A2, W2, f, b, i) <=> BfCell(A, W, f, b, i)
    BY <1>4 DEF BfCell
  <1>6. ASSUME NEW b \in 0..NBlocks, NEW i \in Nat, BfCell(A, W, f, b, i)
        PROVE  BfName(A2, W2, f, b, i) = BfName(A, W, f, b, i)
    BY <1>1, <1>6 DEF BfCell, BfName
  <1>7. ASSUME NEW bn \in 0..(Bf!MAXFILE - 1) PROVE BfBlk(A2, W2, f, bn) = BfBlk(A, W, f, bn)
    <2>1. CASE bn < NDIRECT
      BY <2>1 DEF BfBlk
    <2>2. CASE bn >= NDIRECT /\ bn - NDIRECT < NINDIRECT /\ ~(bn < NDIRECT)
      <3>1. BfBase(A, W, f, bn) = A[f][NDIRECT] /\ BfBase(A2, W2, f, bn) = A[f][NDIRECT]
        BY <2>2 DEF BfBase
      <3>2. A[f][NDIRECT] # 0 => W2[A[f][NDIRECT]] = W[A[f][NDIRECT]]
        <4>1. A[f][NDIRECT] # 0 => BfTable(A, W, f, A[f][NDIRECT])
          BY DEF BfTable
        <4>. QED  BY <1>1, <4>1
      <3>. QED  BY <2>2, <3>1, <3>2 DEF BfBlk, BfVia
    <2>3. CASE /\ bn >= NDIRECT /\ ~(bn - NDIRECT < NINDIRECT) /\ ~(bn < NDIRECT)
               /\ BfDouble(bn) \div NINDIRECT \in BfIndex
      <3>0. PICK q \in BfIndex : q = BfDouble(bn) \div NINDIRECT
        BY <2>3
      <3>1. BfBase(A, W, f, bn) = BfVia(W, R, q) /\ BfBase(A2, W2, f, bn) = BfVia(W2, R, q)
        BY <2>3, <3>0 DEF BfBase
      <3>2. PICK b : b = BfVia(W, R, q)
        OBVIOUS
      <3>3. BfVia(W2, R, q) = b
        BY <1>3, <3>2 DEF BfVia
      <3>4. b # 0 => BfTable(A, W, f, b)
        BY <3>2 DEF BfVia, BfTable
      <3>5. b # 0 => W2[b] = W[b]
        BY <1>1, <3>4
      <3>. QED  BY <2>3, <3>1, <3>2, <3>3, <3>5 DEF BfBlk, BfVia
    <2>4. NDIRECT \in Nat /\ bn \in Int
      BY DEF BfSizes
    <2>. QED  BY <2>1, <2>2, <2>3, <2>4, BfRanges
  <1>. QED  BY <1>4, <1>5, <1>6, <1>7

(* What is written to a block of a file is one word, and no address. *)
LEMMA BfContent ==
    ASSUME BfSizes, NEW f \in BigFiles, NEW bn \in 0..(Bf!MAXFILE - 1)
    PROVE  /\ Bf!Content(f, bn) \in [BfIndex -> Nat]
           /\ \A j \in BfIndex : Bf!Content(f, bn)[j] > NBlocks
           /\ Bf!MAXFILE \in Nat
  <1>1. NDIRECT \in Nat /\ NINDIRECT \in Nat \ {0} /\ NBlocks \in Nat /\ f \in Nat \ {0}
    BY DEF BfSizes
  <1>2. PICK m \in Nat : m = Bf!MAXFILE /\ bn \in 0..(m - 1)
    <2>1. PICK s \in Nat : s = NINDIRECT * NINDIRECT
      BY <1>1
    <2>2. Bf!MAXFILE \in Nat
      BY <1>1, <2>1 DEF Bf!MAXFILE
    <2>. QED  BY <2>2
  <1>3. PICK y \in Nat : y = f * m /\ y >= m
    <2>1. f * m \in Nat /\ f * m >= m
      BY <1>1
    <2>. QED  BY <2>1
  <1>4. PICK v \in Nat : v = NBlocks + y + bn /\ v > NBlocks
    BY <1>1, <1>2, <1>3
  <1>5. Bf!Content(f, bn) = [j \in BfIndex |-> v]
    BY <1>2, <1>3, <1>4 DEF Bf!Content, Bf!Filled, BfIndex
  <1>. QED  BY <1>2, <1>4, <1>5

(* Data written to a block of a file is where it is looked for, and        *)
(* nothing else has changed.                                               *)
BfLonger(S, S2, f, bn) ==
    \A g \in BigFiles : S2[g] = S[g] \/ (g = f /\ bn = S[g] /\ S2[g] = S[g] + 1)

LEMMA BfStore ==
    ASSUME BfSizes, NEW A, NEW W, NEW u, BfGood(A, W, u), NEW S, BfKept(A, W, S),
           NEW f \in BigFiles, NEW bn \in 0..(Bf!MAXFILE - 1), NEW x, x = BfBlk(A, W, f, bn), x # 0,
           NEW W2, W2 = [W EXCEPT ![x] = Bf!Content(f, bn)],
           NEW S2, BfLonger(S, S2, f, bn),
           S \in [BigFiles -> 0..Bf!MAXFILE]
    PROVE  BfGood(A, W2, u) /\ BfKept(A, W2, S2)
  <1>1. x \in u /\ x \in Bf!Block /\ \A g \in BigFiles : ~BfTable(A, W, g, x)
    BY BfWhere, BfBlkNoTable
  <1>2. BfTypes(A, W, u)
    BY DEF BfGood
  <1>3. \A b \in Bf!Block : b # x => W2[b] = W[b]
    BY <1>2 DEF BfTypes
  <1>4. W2[x] = Bf!Content(f, bn)
    BY <1>1, <1>2 DEF BfTypes
  <1>5. ASSUME NEW g \in BigFiles
        PROVE  /\ \A b : BfTable(A, W2, g, b) <=> BfTable(A, W, g, b)
               /\ \A b, i : BfCell(A, W2, g, b, i) <=> BfCell(A, W, g, b, i)
               /\ \A b \in 0..NBlocks, i \in Nat :
                    BfCell(A, W, g, b, i) => BfName(A, W2, g, b, i) = BfName(A, W, g, b, i)
               /\ \A bm \in 0..(Bf!MAXFILE - 1) : BfBlk(A, W2, g, bm) = BfBlk(A, W, g, bm)
    <2>1. BfUntouched(A, W, A, W2, g)
      BY <1>1, <1>3 DEF BfUntouched
    <2>2. BfAlike(A, W, A, W2, g)
      BY <2>1, BfSame
    <2>. QED  BY <2>2 DEF BfAlike
  <1>6. BfTypes(A, W2, u)
    BY <1>1, <1>2, BfContent DEF BfTypes
  <1>7. BfNamesUsed(A, W2, u)
    <2>1. BfNamesUsed(A, W, u)
      BY DEF BfGood
    <2>. QED  BY <1>5, <2>1 DEF BfNamesUsed
  <1>8. BfUsedNamed(A, W2, u)
    <2>1. BfUsedNamed(A, W, u)
      BY DEF BfGood
    <2>2. SUFFICES ASSUME NEW y \in u
                   PROVE  \E g \in BigFiles, b \in 0..NBlocks, i \in Nat :
                            BfCell(A, W2, g, b, i) /\ BfName(A, W2, g, b, i) = y
      BY DEF BfUsedNamed
    <2>3. PICK g \in BigFiles, b \in 0..NBlocks, i \in Nat : BfCell(A, W, g, b, i) /\ BfName(A, W, g, b, i) = y
      BY <2>1 DEF BfUsedNamed
    <2>4. BfCell(A, W2, g, b, i) /\ BfName(A, W2, g, b, i) = y
      BY <1>5, <2>3
    <2>. QED  BY <2>4
  <1>9. BfOnce(A, W2)
    <2>1. BfOnce(A, W)
      BY DEF BfGood
    <2>2. SUFFICES ASSUME NEW g \in BigFiles, NEW h \in BigFiles, NEW b \in 0..NBlocks, NEW c \in 0..NBlocks,
                          NEW i \in Nat, NEW j \in Nat,
                          BfCell(A, W2, g, b, i), BfCell(A, W2, h, c, j), BfName(A, W2, g, b, i) # 0,
                          BfName(A, W2, g, b, i) = BfName(A, W2, h, c, j)
                   PROVE  g = h /\ b = c /\ i = j
      BY DEF BfOnce
    <2>3. /\ BfCell(A, W, g, b, i) /\ BfName(A, W, g, b, i) = BfName(A, W2, g, b, i)
          /\ BfCell(A, W, h, c, j) /\ BfName(A, W, h, c, j) = BfName(A, W2, h, c, j)
      BY <1>5, <2>2
    <2>. QED  BY <2>1, <2>2, <2>3 DEF BfOnce
  <1>10. BfData(A, W2, u)
    <2>1. BfData(A, W, u)
      BY DEF BfGood
    <2>2. SUFFICES ASSUME NEW b \in u, \A g \in BigFiles : ~BfTable(A, W2, g, b), NEW j \in BfIndex
                   PROVE  W2[b][j] = 0 \/ W2[b][j] > NBlocks
      BY DEF BfData
    <2>3. CASE b = x
      BY <1>4, <2>3, BfContent
    <2>4. CASE b # x
      <3>1. b \in Bf!Block
        BY <1>2 DEF BfTypes
      <3>. QED  BY <1>3, <1>5, <2>1, <2>2, <2>4, <3>1 DEF BfData
    <2>. QED  BY <2>3, <2>4
  <1>11. BfKept(A, W2, S2)
    <2>1. SUFFICES ASSUME NEW g \in BigFiles, NEW bm \in 0..(Bf!MAXFILE - 1), bm < S2[g]
                   PROVE  BfBlk(A, W2, g, bm) # 0 /\ W2[BfBlk(A, W2, g, bm)] = Bf!Content(g, bm)
      BY DEF BfKept
    <2>2. BfBlk(A, W2, g, bm) = BfBlk(A, W, g, bm)
      BY <1>5
    <2>3. CASE g = f /\ bm = bn
      BY <1>4, <2>2, <2>3
    <2>4. CASE ~(g = f /\ bm = bn)
      <3>1. bm < S[g]
        <4>1. S[g] \in 0..Bf!MAXFILE /\ bm \in Int /\ bn \in Int
          OBVIOUS
        <4>2. CASE S2[g] = S[g]
          BY <2>1, <4>2
        <4>a. S2[g] = S[g] \/ (g = f /\ bn = S[g] /\ S2[g] = S[g] + 1)
          BY DEF BfLonger
        <4>3. CASE g = f /\ bn = S[g] /\ S2[g] = S[g] + 1
          <5>1. bm < bn + 1 /\ bm # bn
            BY <2>1, <2>4, <4>3
          <5>. QED  BY <4>1, <4>3, <5>1
        <4>. QED  BY <4>a, <4>2, <4>3
      <3>2. BfBlk(A, W, g, bm) # 0 /\ W[BfBlk(A, W, g, bm)] = Bf!Content(g, bm)
        BY <3>1 DEF BfKept
      <3>3. BfBlk(A, W, g, bm) # x
        BY <2>4, <3>2, BfApart
      <3>4. BfBlk(A, W, g, bm) \in Bf!Block
        BY <3>2, BfWhere
      <3>. QED  BY <1>3, <2>2, <3>2, <3>3, <3>4
    <2>. QED  BY <2>3, <2>4
  <1>. QED  BY <1>6, <1>7, <1>8, <1>9, <1>10, <1>11 DEF BfGood

LEMMA BfWrite ==
    ASSUME BfSizes, BfIInv, NEW f \in BigFiles, NEW bn \in 0..(Bf!MAXFILE - 1), NEW ok \in BOOLEAN,
           Bf!Write(f, bn, ok)
    PROVE  BfIInv'
  <1>1. PICK w : w = Bf!bmap(f, bn)
    OBVIOUS
  <1>2. PICK A : A = BfOn(addrs, f, w.addrs)
    OBVIOUS
  <1>3. /\ BfGood(A, w.words, w.used) /\ BfKept(A, w.words, fsize)
        /\ w.addr = BfBlk(A, w.words, f, bn)
    BY <1>1, <1>2, BfBmap DEF BfWalked
  <1>4. used' = w.used /\ addrs' = A
    BY <1>1, <1>2 DEF Bf!Write, BfOn
  <1>5. fsize \in [BigFiles -> 0..Bf!MAXFILE] /\ Bf!MAXFILE \in Nat /\ bn \in Nat
    BY BfContent DEF BfIInv, BfSizeInv
  <1>6. CASE ok /\ w.addr # 0
    <2>1. words' = [w.words EXCEPT ![w.addr] = Bf!Content(f, bn)]
      BY <1>1, <1>6 DEF Bf!Write
    <2>2. fsize' = [fsize EXCEPT ![f] = IF bn = @ THEN @ + 1 ELSE @]
      BY <1>1, <1>6 DEF Bf!Write
    <2>3. BfLonger(fsize, fsize', f, bn)
      <3>1. PICK z \in Int : z = fsize[f]
        BY <1>5
      <3>2. PICK v \in Int : v = IF bn = z THEN z + 1 ELSE z
        BY <1>5
      <3>3. fsize' = [fsize EXCEPT ![f] = v]
        BY <2>2, <3>1, <3>2
      <3>4. \A g \in BigFiles : fsize'[g] = IF g = f THEN v ELSE fsize[g]
        BY <1>5, <3>3
      <3>5. SUFFICES ASSUME NEW g \in BigFiles
                     PROVE  fsize'[g] = fsize[g] \/ (g = f /\ bn = fsize[g] /\ fsize'[g] = fsize[g] + 1)
        BY DEF BfLonger
      <3>6. CASE g # f
        BY <3>4, <3>6
      <3>7. CASE g = f
        <4>1. fsize'[g] = v /\ fsize[g] = z
          BY <3>1, <3>4, <3>7
        <4>. QED  BY <3>2, <3>7, <4>1
      <3>. QED  BY <3>6, <3>7
    <2>4. PICK x, W2, S, S2 : x = w.addr /\ W2 = words' /\ S = fsize /\ S2 = fsize'
      OBVIOUS
    <2>5. BfGood(A, W2, w.used) /\ BfKept(A, W2, S2)
      <3>1. PICK W, u : W = w.words /\ u = w.used
        OBVIOUS
      <3>2. /\ BfGood(A, W, u) /\ BfKept(A, W, S) /\ x = BfBlk(A, W, f, bn) /\ x # 0
            /\ W2 = [W EXCEPT ![x] = Bf!Content(f, bn)]
            /\ BfLonger(S, S2, f, bn) /\ S \in [BigFiles -> 0..Bf!MAXFILE]
        BY <1>3, <1>5, <1>6, <2>1, <2>3, <2>4, <3>1
      <3>3. BfGood(A, W2, u) /\ BfKept(A, W2, S2)
        BY <3>2, BfStore
      <3>. QED  BY <3>1, <3>3
    <2>6. fsize' \in [BigFiles -> 0..Bf!MAXFILE]
      BY <1>5, <2>2
    <2>. QED  BY <1>4, <2>4, <2>5, <2>6 DEF BfIInv, BfSizeInv
  <1>7. CASE ~(ok /\ w.addr # 0)
    <2>1. words' = w.words
      BY <1>1, <1>7 DEF Bf!Write
    <2>2. fsize' = fsize
      BY <1>1, <1>5, <1>7 DEF Bf!Write
    <2>. QED  BY <1>3, <1>4, <1>5, <2>1, <2>2 DEF BfIInv, BfSizeInv
  <1>. QED  BY <1>6, <1>7

(* The blocks of addresses of a file, and all of its blocks, as the cells  *)
(* say.                                                                    *)
LEMMA BfTablesAre ==
    ASSUME BfSizes, BfGood(addrs, words, used), NEW f \in BigFiles, NEW b
    PROVE  b \in (Bf!Singles(f) \cup {addrs[f][NDIRECT + 1]}) \ {0} <=> BfTable(addrs, words, f, b)
  <1>1. ASSUME b \in (Bf!Singles(f) \cup {addrs[f][NDIRECT + 1]}) \ {0}
        PROVE  BfTable(addrs, words, f, b)
    <2>1. CASE b = addrs[f][NDIRECT] \/ b = addrs[f][NDIRECT + 1]
      BY <1>1, <2>1 DEF BfTable
    <2>2. CASE b \in UNION {Bf!Named(c) : c \in {addrs[f][NDIRECT + 1]} \ {0}}
      <3>1. addrs[f][NDIRECT + 1] # 0 /\ b \in Bf!Named(addrs[f][NDIRECT + 1])
        BY <2>2
      <3>. QED  BY <1>1, <3>1 DEF Bf!Named, BfTable, BfIndex
    <2>. QED  BY <1>1, <2>1, <2>2 DEF Bf!Singles
  <1>2. ASSUME BfTable(addrs, words, f, b)
        PROVE  b \in (Bf!Singles(f) \cup {addrs[f][NDIRECT + 1]}) \ {0}
    <2>1. CASE b = addrs[f][NDIRECT] \/ b = addrs[f][NDIRECT + 1]
      BY <1>2, <2>1 DEF BfTable, Bf!Singles
    <2>2. CASE addrs[f][NDIRECT + 1] # 0 /\ \E j \in BfIndex : b = words[addrs[f][NDIRECT + 1]][j]
      <3>1. b # 0
        BY <1>2 DEF BfTable
      <3>2. b \in Bf!Named(addrs[f][NDIRECT + 1])
        BY <2>2, <3>1 DEF Bf!Named, BfIndex
      <3>3. b \in UNION {Bf!Named(c) : c \in {addrs[f][NDIRECT + 1]} \ {0}}
        BY <2>2, <3>2
      <3>. QED  BY <3>1, <3>3 DEF Bf!Singles
    <2>. QED  BY <1>2, <2>1, <2>2 DEF BfTable
  <1>. QED  BY <1>1, <1>2

BfNames(A, W, f, x) ==
    \E b \in 0..NBlocks, i \in Nat : BfCell(A, W, f, b, i) /\ BfName(A, W, f, b, i) = x

LEMMA BfOwned ==
    ASSUME BfSizes, BfGood(addrs, words, used), NEW f \in BigFiles, NEW x
    PROVE  x \in Bf!Owned(f) <=> x # 0 /\ BfNames(addrs, words, f, x)
  <1>0. NDIRECT \in Nat /\ NINDIRECT \in Nat \ {0} /\ 0 \in 0..NBlocks
    BY DEF BfSizes
  <1>. DEFINE R == addrs[f][NDIRECT + 1]
  <1>1. ASSUME NEW k1 \in 0..(NDIRECT + 1) PROVE BfNames(addrs, words, f, addrs[f][k1])
    <2>1. k1 \in Nat /\ BfCell(addrs, words, f, 0, k1) /\ BfName(addrs, words, f, 0, k1) = addrs[f][k1]
      BY <1>0 DEF BfCell, BfName
    <2>. QED  BY <1>0, <2>1 DEF BfNames
  <1>2. ASSUME NEW b, BfTable(addrs, words, f, b), NEW j \in BfIndex
        PROVE  BfNames(addrs, words, f, words[b][j])
    <2>1. b \in Bf!Block
      BY <1>2, BfTableNamed
    <2>2. /\ j \in Nat /\ b \in 0..NBlocks /\ b # 0
          /\ BfCell(addrs, words, f, b, j) /\ BfName(addrs, words, f, b, j) = words[b][j]
      BY <1>0, <1>2, <2>1 DEF BfCell, BfName, BfIndex, Bf!Block
    <2>. QED  BY <2>2 DEF BfNames
  <1>3. ASSUME x \in Bf!Owned(f) PROVE x # 0 /\ BfNames(addrs, words, f, x)
    <2>1. x # 0
      BY <1>3 DEF Bf!Owned
    <2>2. CASE x \in {addrs[f][k1] : k1 \in 0..(NDIRECT + 1)}
      BY <1>1, <2>1, <2>2
    <2>3. CASE x \in Bf!Singles(f)
      <3>1. CASE x = addrs[f][NDIRECT]
        BY <1>0, <1>1, <2>1, <3>1
      <3>2. CASE x \in UNION {Bf!Named(c) : c \in {R} \ {0}}
        <4>1. R # 0 /\ x \in Bf!Named(R)
          BY <3>2
        <4>2. BfTable(addrs, words, f, R)
          BY <4>1 DEF BfTable
        <4>3. PICK j \in BfIndex : x = words[R][j]
          BY <4>1 DEF Bf!Named, BfIndex
        <4>. QED  BY <1>2, <2>1, <4>2, <4>3
      <3>. QED  BY <2>3, <3>1, <3>2 DEF Bf!Singles
    <2>4. CASE x \in UNION {Bf!Named(b) : b \in Bf!Singles(f) \ {0}}
      <3>1. PICK b : b \in Bf!Singles(f) \ {0} /\ x \in Bf!Named(b)
        BY <2>4
      <3>2. BfTable(addrs, words, f, b)
        BY <3>1, BfTablesAre
      <3>3. PICK j \in BfIndex : x = words[b][j]
        BY <3>1 DEF Bf!Named, BfIndex
      <3>. QED  BY <1>2, <2>1, <3>2, <3>3
    <2>. QED  BY <1>3, <2>2, <2>3, <2>4 DEF Bf!Owned
  <1>4. ASSUME x # 0, BfNames(addrs, words, f, x) PROVE x \in Bf!Owned(f)
    <2>1. PICK b \in 0..NBlocks, i \in Nat : BfCell(addrs, words, f, b, i) /\ BfName(addrs, words, f, b, i) = x
      BY <1>4 DEF BfNames
    <2>2. CASE b = 0 /\ i \in 0..(NDIRECT + 1)
      <3>1. x = addrs[f][i]
        BY <2>1, <2>2 DEF BfName
      <3>. QED  BY <1>4, <2>2, <3>1 DEF Bf!Owned
    <2>3. CASE BfTable(addrs, words, f, b) /\ i \in BfIndex
      <3>1. b # 0 /\ x = words[b][i]
        BY <2>1, <2>3 DEF BfTable, BfName
      <3>2. x \in Bf!Named(b)
        BY <1>4, <2>3, <3>1 DEF Bf!Named, BfIndex
      <3>3. b \in (Bf!Singles(f) \cup {R}) \ {0}
        BY <2>3, BfTablesAre
      <3>4. CASE b \in Bf!Singles(f)
        <4>1. x \in UNION {Bf!Named(c) : c \in Bf!Singles(f) \ {0}}
          BY <3>1, <3>2, <3>4
        <4>. QED  BY <1>4, <4>1 DEF Bf!Owned
      <3>5. CASE b = R
        <4>1. x \in UNION {Bf!Named(c) : c \in {R} \ {0}}
          BY <3>1, <3>2, <3>5
        <4>. QED  BY <1>4, <4>1 DEF Bf!Owned, Bf!Singles
      <3>. QED  BY <3>3, <3>4, <3>5
    <2>. QED  BY <2>1, <2>2, <2>3 DEF BfCell
  <1>. QED  BY <1>3, <1>4

(* No block is named by two files. *)
LEMMA BfNamesOne ==
    ASSUME NEW A, NEW W, NEW u, BfGood(A, W, u), NEW f \in BigFiles, NEW g \in BigFiles,
           NEW x, x # 0, BfNames(A, W, f, x), BfNames(A, W, g, x)
    PROVE  f = g
  <1>1. BfOnce(A, W)
    BY DEF BfGood
  <1>2. PICK b \in 0..NBlocks, i \in Nat : BfCell(A, W, f, b, i) /\ BfName(A, W, f, b, i) = x
    BY DEF BfNames
  <1>3. PICK c \in 0..NBlocks, j \in Nat : BfCell(A, W, g, c, j) /\ BfName(A, W, g, c, j) = x
    BY DEF BfNames
  <1>. QED  BY <1>1, <1>2, <1>3 DEF BfOnce

LEMMA BfTrunc ==
    ASSUME BfSizes, BfIInv, NEW f \in BigFiles, Bf!Trunc(f)
    PROVE  BfIInv'
  <1>0. /\ NDIRECT \in Nat /\ NINDIRECT \in Nat \ {0} /\ NBlocks \in Nat
        /\ BfGood(addrs, words, used) /\ BfKept(addrs, words, fsize)
    BY DEF BfSizes, BfIInv
  <1>1. BfTypes(addrs, words, used)
    BY <1>0 DEF BfGood
  <1>2. PICK O, u, A, W, S : O = Bf!Owned(f) /\ u = used' /\ A = addrs' /\ W = words' /\ S = fsize'
    OBVIOUS
  <1>3. /\ u = used \ O
        /\ A = [addrs EXCEPT ![f] = [k1 \in 0..(NDIRECT + 1) |-> 0]]
        /\ W = [b \in Bf!Block |-> IF b \in O THEN Bf!Left ELSE words[b]]
        /\ S = [fsize EXCEPT ![f] = 0]
    BY <1>2 DEF Bf!Trunc, Bf!Freed
  <1>4. \A x : x \in O <=> x # 0 /\ BfNames(addrs, words, f, x)
    BY <1>0, <1>2, BfOwned
  <1>5. \A g \in BigFiles : \A x : x # 0 /\ BfNames(addrs, words, g, x) /\ g # f => x \notin O
    BY <1>0, <1>4, BfNamesOne
  <1>6. ASSUME NEW g \in BigFiles, NEW b, BfTable(addrs, words, g, b)
        PROVE  b \in Bf!Block /\ b # 0 /\ BfNames(addrs, words, g, b)
    <2>1. /\ b \in Bf!Block
          /\ \E c \in 0..NBlocks, i \in Nat :
                /\ BfCell(addrs, words, g, c, i) /\ BfName(addrs, words, g, c, i) = b
                /\ \/ c = 0 /\ i \in {NDIRECT, NDIRECT + 1}
                   \/ c # 0 /\ c = addrs[g][NDIRECT + 1]
      BY <1>0, <1>6, BfTableNamed
    <2>. QED  BY <1>6, <2>1 DEF BfNames, BfTable
  <1>7. ASSUME NEW g \in BigFiles, g # f PROVE BfAlike(addrs, words, A, W, g)
    <2>1. A[g] = addrs[g]
      BY <1>1, <1>3, <1>7 DEF BfTypes
    <2>2. \A b \in Bf!Block : BfTable(addrs, words, g, b) => W[b] = words[b]
      BY <1>3, <1>5, <1>6, <1>7
    <2>3. BfUntouched(addrs, words, A, W, g)
      BY <2>1, <2>2 DEF BfUntouched
    <2>. QED  BY <1>0, <2>3, BfSame
  <1>8. /\ \A k1 \in 0..(NDIRECT + 1) : A[f][k1] = 0
        /\ \A b : ~BfTable(A, W, f, b)
        /\ \A b, i : BfCell(A, W, f, b, i) => b = 0 /\ BfName(A, W, f, b, i) = 0
    <2>1. \A k1 \in 0..(NDIRECT + 1) : A[f][k1] = 0
      BY <1>1, <1>3 DEF BfTypes
    <2>2. A[f][NDIRECT] = 0 /\ A[f][NDIRECT + 1] = 0
      BY <1>0, <2>1
    <2>3. \A b : ~BfTable(A, W, f, b)
      BY <2>2 DEF BfTable
    <2>. QED  BY <2>1, <2>3 DEF BfCell, BfName
  <1>9. BfTypes(A, W, u)
    <2>1. Bf!Left \in [BfIndex -> Nat]
      BY DEF Bf!Left, Bf!Filled, BfIndex
    <2>. QED  BY <1>0, <1>1, <1>3, <2>1 DEF BfTypes
  <1>10. ASSUME NEW g \in BigFiles, NEW b \in 0..NBlocks, NEW i \in Nat,
                BfCell(A, W, g, b, i), BfName(A, W, g, b, i) # 0
         PROVE  /\ g # f /\ BfCell(addrs, words, g, b, i)
                /\ BfName(addrs, words, g, b, i) = BfName(A, W, g, b, i)
    <2>1. g # f
      BY <1>8, <1>10
    <2>. QED  BY <1>7, <1>10, <2>1 DEF BfAlike
  <1>11. BfNamesUsed(A, W, u)
    <2>1. SUFFICES ASSUME NEW g \in BigFiles, NEW b \in 0..NBlocks, NEW i \in Nat,
                          BfCell(A, W, g, b, i), BfName(A, W, g, b, i) # 0
                   PROVE  BfName(A, W, g, b, i) \in u
      BY DEF BfNamesUsed
    <2>2. PICK x : x = BfName(A, W, g, b, i)
      OBVIOUS
    <2>3. g # f /\ BfCell(addrs, words, g, b, i) /\ BfName(addrs, words, g, b, i) = x
      BY <1>10, <2>1, <2>2
    <2>4. x \in used
      <3>1. BfNamesUsed(addrs, words, used)
        BY <1>0 DEF BfGood
      <3>. QED  BY <2>1, <2>2, <2>3, <3>1 DEF BfNamesUsed
    <2>5. BfNames(addrs, words, g, x)
      BY <2>3 DEF BfNames
    <2>. QED  BY <1>3, <1>5, <2>1, <2>2, <2>3, <2>4, <2>5
  <1>12. BfUsedNamed(A, W, u)
    <2>1. SUFFICES ASSUME NEW x \in u
                   PROVE  \E g \in BigFiles, b \in 0..NBlocks, i \in Nat :
                            BfCell(A, W, g, b, i) /\ BfName(A, W, g, b, i) = x
      BY DEF BfUsedNamed
    <2>2. BfUsedNamed(addrs, words, used)
      BY <1>0 DEF BfGood
    <2>3. PICK g \in BigFiles, b \in 0..NBlocks, i \in Nat :
             BfCell(addrs, words, g, b, i) /\ BfName(addrs, words, g, b, i) = x
      BY <1>3, <2>2 DEF BfUsedNamed
    <2>4. g # f
      <3>1. BfNames(addrs, words, g, x)
        BY <2>3 DEF BfNames
      <3>2. x # 0
        BY <1>1, <1>3 DEF BfTypes, Bf!Block
      <3>. QED  BY <1>3, <1>4, <3>1, <3>2
    <2>5. BfCell(A, W, g, b, i) /\ BfName(A, W, g, b, i) = x
      BY <1>7, <2>3, <2>4 DEF BfAlike
    <2>. QED  BY <2>5
  <1>13. BfOnce(A, W)
    <2>1. BfOnce(addrs, words)
      BY <1>0 DEF BfGood
    <2>2. SUFFICES ASSUME NEW g \in BigFiles, NEW h \in BigFiles, NEW b \in 0..NBlocks, NEW c \in 0..NBlocks,
                          NEW i \in Nat, NEW j \in Nat,
                          BfCell(A, W, g, b, i), BfCell(A, W, h, c, j), BfName(A, W, g, b, i) # 0,
                          BfName(A, W, g, b, i) = BfName(A, W, h, c, j)
                   PROVE  g = h /\ b = c /\ i = j
      BY DEF BfOnce
    <2>3. /\ BfCell(addrs, words, g, b, i) /\ BfName(addrs, words, g, b, i) = BfName(A, W, g, b, i)
          /\ BfCell(addrs, words, h, c, j) /\ BfName(addrs, words, h, c, j) = BfName(A, W, h, c, j)
      BY <1>10, <2>2
    <2>. QED  BY <2>1, <2>2, <2>3 DEF BfOnce
  <1>14. BfData(A, W, u)
    <2>1. BfData(addrs, words, used)
      BY <1>0 DEF BfGood
    <2>2. SUFFICES ASSUME NEW b \in u, \A g \in BigFiles : ~BfTable(A, W, g, b), NEW j \in BfIndex
                   PROVE  W[b][j] = 0 \/ W[b][j] > NBlocks
      BY DEF BfData
    <2>3. b \in used /\ b \notin O /\ b \in Bf!Block
      BY <1>1, <1>3 DEF BfTypes
    <2>4. W[b] = words[b]
      BY <1>3, <2>3
    <2>5. \A g \in BigFiles : ~BfTable(addrs, words, g, b)
      <3>1. ASSUME NEW g \in BigFiles, BfTable(addrs, words, g, b), g # f PROVE FALSE
        BY <1>7, <2>2, <3>1 DEF BfAlike
      <3>2. ~BfTable(addrs, words, f, b)
        BY <1>4, <1>6, <2>3
      <3>. QED  BY <3>1, <3>2
    <2>. QED  BY <2>1, <2>3, <2>4, <2>5 DEF BfData
  <1>15. BfKept(A, W, S)
    <2>0. fsize \in [BigFiles -> 0..Bf!MAXFILE]
      BY DEF BfIInv, BfSizeInv
    <2>1. SUFFICES ASSUME NEW g \in BigFiles, NEW bm \in 0..(Bf!MAXFILE - 1), bm < S[g]
                   PROVE  BfBlk(A, W, g, bm) # 0 /\ W[BfBlk(A, W, g, bm)] = Bf!Content(g, bm)
      BY DEF BfKept
    <2>2. g # f /\ bm < fsize[g]
      <3>1. S[f] = 0 /\ \A h \in BigFiles : h # f => S[h] = fsize[h]
        BY <1>3, <2>0
      <3>. QED  BY <2>1, <3>1
    <2>3. PICK x : x = BfBlk(addrs, words, g, bm)
      OBVIOUS
    <2>4. x # 0 /\ words[x] = Bf!Content(g, bm)
      BY <1>0, <2>2, <2>3 DEF BfKept
    <2>5. BfBlk(A, W, g, bm) = x
      BY <1>7, <2>2, <2>3 DEF BfAlike
    <2>6. BfNames(addrs, words, g, x) /\ x \in Bf!Block
      BY <1>0, <2>3, <2>4, BfWhere DEF BfNames
    <2>7. x \notin O
      BY <1>5, <2>2, <2>4, <2>6
    <2>. QED  BY <1>3, <2>4, <2>5, <2>6, <2>7
  <1>16. BfSizeInv'
    <2>1. Bf!MAXFILE \in Nat
      BY <1>0 DEF Bf!MAXFILE
    <2>. QED  BY <1>2, <1>3, <2>1 DEF BfIInv, BfSizeInv
  <1>17. BfGood(A, W, u)
    BY <1>9, <1>11, <1>12, <1>13, <1>14 DEF BfGood
  <1>. QED  BY <1>2, <1>15, <1>16, <1>17 DEF BfIInv

LEMMA BfInit == ASSUME BfSizes, Bf!Init PROVE BfIInv
  <1>0. /\ NDIRECT \in Nat /\ NINDIRECT \in Nat \ {0} /\ NBlocks \in Nat
    BY DEF BfSizes
  <1>1. /\ \A f \in BigFiles : \A k1 \in 0..(NDIRECT + 1) : addrs[f][k1] = 0
        /\ \A f \in BigFiles : fsize[f] = 0
        /\ used = {}
    BY DEF Bf!Init
  <1>2. BfTypes(addrs, words, used)
    <2>1. Bf!Left \in [BfIndex -> Nat]
      BY DEF Bf!Left, Bf!Filled, BfIndex
    <2>. QED  BY <1>0, <2>1 DEF BfTypes, Bf!Init
  <1>3. ASSUME NEW f \in BigFiles
        PROVE  /\ \A b : ~BfTable(addrs, words, f, b)
               /\ \A b, i : BfCell(addrs, words, f, b, i) => BfName(addrs, words, f, b, i) = 0
    <2>1. addrs[f][NDIRECT] = 0 /\ addrs[f][NDIRECT + 1] = 0
      BY <1>0, <1>1
    <2>2. \A b : ~BfTable(addrs, words, f, b)
      BY <2>1 DEF BfTable
    <2>. QED  BY <1>1, <2>2 DEF BfCell, BfName
  <1>4. BfGood(addrs, words, used)
    BY <1>1, <1>2, <1>3 DEF BfGood, BfNamesUsed, BfUsedNamed, BfOnce, BfData
  <1>5. Bf!MAXFILE \in Nat
    BY <1>0 DEF Bf!MAXFILE
  <1>6. BfKept(addrs, words, fsize) /\ BfSizeInv
    <2>1. BfKept(addrs, words, fsize)
      BY <1>1, <1>5 DEF BfKept
    <2>2. BfSizeInv
      BY <1>5 DEF BfSizeInv, Bf!Init
    <2>. QED  BY <2>1, <2>2
  <1>. QED  BY <1>4, <1>6 DEF BfIInv

(* The inductive invariant. *)
LEMMA BfStep == ASSUME BfSizes, BfIInv, [Bf!Next]_Bf!vars PROVE BfIInv'
  <1>1. CASE Bf!Next
    BY <1>1, BfWrite, BfTrunc DEF Bf!Next
  <1>2. CASE UNCHANGED Bf!vars
    BY <1>2 DEF Bf!vars, BfIInv, BfSizeInv
  <1>. QED  BY <1>1, <1>2

(* What is in use is what the files own. *)
LEMMA BfUsedOwned ==
    ASSUME BfSizes, BfGood(addrs, words, used)
    PROVE  used = UNION {Bf!Owned(f) : f \in BigFiles}
  <1>0. BfUsedNamed(addrs, words, used) /\ BfNamesUsed(addrs, words, used) /\ used \subseteq Bf!Block
    BY DEF BfGood, BfTypes
  <1>1. ASSUME NEW x \in used PROVE \E f \in BigFiles : x \in Bf!Owned(f)
    <2>1. x # 0
      BY <1>0 DEF Bf!Block
    <2>2. PICK f \in BigFiles : BfNames(addrs, words, f, x)
      BY <1>0 DEF BfUsedNamed, BfNames
    <2>. QED  BY <2>1, <2>2, BfOwned
  <1>2. ASSUME NEW f \in BigFiles, NEW x \in Bf!Owned(f) PROVE x \in used
    <2>1. x # 0 /\ BfNames(addrs, words, f, x)
      BY BfOwned
    <2>. QED  BY <1>0, <2>1 DEF BfNamesUsed, BfNames
  <1>. QED  BY <1>1, <1>2

(* The places that name a block, as the cells say. *)
BfPlaces(A, W) ==
    {p \in BigFiles \X (0..NBlocks) \X Nat :
        BfCell(A, W, p[1], p[2], p[3]) /\ BfName(A, W, p[1], p[2], p[3]) # 0}

LEMMA BfPlacesAre ==
    ASSUME BfSizes, BfGood(addrs, words, used)
    PROVE  UNION {Bf!Places(f) : f \in BigFiles} = BfPlaces(addrs, words)
  <1>0. NDIRECT \in Nat /\ NINDIRECT \in Nat \ {0} /\ 0 \in 0..NBlocks
    BY DEF BfSizes
  <1>1. ASSUME NEW f \in BigFiles, NEW p \in Bf!Places(f) PROVE p \in BfPlaces(addrs, words)
    <2>1. CASE p \in {<<f, 0, k1>> : k1 \in {i \in 0..(NDIRECT + 1) : addrs[f][i] # 0}}
      <3>1. PICK k1 \in 0..(NDIRECT + 1) : p = <<f, 0, k1>> /\ addrs[f][k1] # 0
        BY <2>1
      <3>2. k1 \in Nat /\ BfCell(addrs, words, f, 0, k1) /\ BfName(addrs, words, f, 0, k1) # 0
        BY <1>0, <3>1 DEF BfCell, BfName
      <3>. QED  BY <1>0, <3>1, <3>2 DEF BfPlaces
    <2>2. ASSUME NEW b \in (Bf!Singles(f) \cup {addrs[f][NDIRECT + 1]}) \ {0},
                 NEW j \in 0..(NINDIRECT - 1), words[b][j] # 0, p = <<f, b, j>>
          PROVE  p \in BfPlaces(addrs, words)
      <3>1. BfTable(addrs, words, f, b)
        BY BfTablesAre
      <3>2. b \in Bf!Block
        BY <3>1, BfTableNamed
      <3>3. b \in 0..NBlocks /\ b # 0 /\ j \in Nat
        BY <1>0, <3>2 DEF Bf!Block
      <3>4. BfCell(addrs, words, f, b, j) /\ BfName(addrs, words, f, b, j) # 0
        BY <2>2, <3>1, <3>3 DEF BfCell, BfName, BfIndex
      <3>. QED  BY <2>2, <3>3, <3>4 DEF BfPlaces
    <2>. QED  BY <2>1, <2>2 DEF Bf!Places
  <1>2. ASSUME NEW p \in BfPlaces(addrs, words) PROVE \E f \in BigFiles : p \in Bf!Places(f)
    <2>1. PICK f \in BigFiles, b \in 0..NBlocks, i \in Nat :
             p = <<f, b, i>> /\ BfCell(addrs, words, f, b, i) /\ BfName(addrs, words, f, b, i) # 0
      BY <1>2 DEF BfPlaces
    <2>2. CASE b = 0 /\ i \in 0..(NDIRECT + 1)
      <3>1. addrs[f][i] # 0
        BY <2>1, <2>2 DEF BfName
      <3>2. p \in {<<f, 0, k1>> : k1 \in {j \in 0..(NDIRECT + 1) : addrs[f][j] # 0}}
        BY <2>1, <2>2, <3>1
      <3>. QED  BY <3>2 DEF Bf!Places
    <2>3. CASE BfTable(addrs, words, f, b) /\ i \in BfIndex
      <3>1. b # 0 /\ words[b][i] # 0 /\ i \in 0..(NINDIRECT - 1)
        BY <2>1, <2>3 DEF BfName, BfTable, BfIndex
      <3>2. b \in (Bf!Singles(f) \cup {addrs[f][NDIRECT + 1]}) \ {0}
        BY <2>3, BfTablesAre
      <3>3. p \in {<<f, b, j>> : j \in {k1 \in 0..(NINDIRECT - 1) : words[b][k1] # 0}}
        BY <2>1, <3>1
      <3>. QED  BY <3>2, <3>3 DEF Bf!Places
    <2>. QED  BY <2>1, <2>2, <2>3 DEF BfCell
  <1>. QED  BY <1>1, <1>2

LEMMA BfPlacesCount ==
    ASSUME BfSizes, BfGood(addrs, words, used)
    PROVE  Cardinality(BfPlaces(addrs, words)) = Cardinality(used)
  <1>0. /\ BfUsedNamed(addrs, words, used) /\ BfNamesUsed(addrs, words, used) /\ used \subseteq Bf!Block
        /\ BfOnce(addrs, words)
    BY DEF BfGood, BfTypes
  <1>1. IsFiniteSet(used)
    <2>1. IsFiniteSet(1..NBlocks)
      BY FS_Interval DEF BfSizes
    <2>. QED  BY <1>0, <2>1, FS_Subset DEF Bf!Block
  <1>. DEFINE P == BfPlaces(addrs, words)
              F == [p \in P |-> BfName(addrs, words, p[1], p[2], p[3])]
  <1>2. ASSUME NEW p \in P
        PROVE  /\ p[1] \in BigFiles /\ p[2] \in 0..NBlocks /\ p[3] \in Nat /\ p = <<p[1], p[2], p[3]>>
               /\ BfCell(addrs, words, p[1], p[2], p[3]) /\ F[p] # 0
               /\ F[p] = BfName(addrs, words, p[1], p[2], p[3])
    BY DEF BfPlaces
  <1>3. F \in [P -> used]
    <2>1. \A p \in P : F[p] \in used
      BY <1>0, <1>2 DEF BfNamesUsed
    <2>. QED  BY <2>1
  <1>4. ASSUME NEW p \in P, NEW q \in P, F[p] = F[q] PROVE p = q
    <2>1. p[1] = q[1] /\ p[2] = q[2] /\ p[3] = q[3]
      BY <1>0, <1>2, <1>4 DEF BfOnce
    <2>. QED  BY <1>2, <2>1
  <1>5. ASSUME NEW x \in used PROVE \E p \in P : F[p] = x
    <2>1. PICK f \in BigFiles, b \in 0..NBlocks, i \in Nat :
             BfCell(addrs, words, f, b, i) /\ BfName(addrs, words, f, b, i) = x
      BY <1>0 DEF BfUsedNamed
    <2>2. x # 0
      BY <1>0 DEF Bf!Block
    <2>3. <<f, b, i>> \in P
      BY <2>1, <2>2 DEF BfPlaces
    <2>4. F[<<f, b, i>>] = x
      BY <2>1, <2>3
    <2>. QED  BY <2>3, <2>4
  <1>. HIDE DEF P, F
  <1>6. F \in Injection(P, used)
    BY <1>3, <1>4 DEF Injection, IsInjective
  <1>7. F \in Surjection(P, used)
    BY <1>3, <1>5 DEF Surjection
  <1>8. Cardinality(P) = Cardinality(used)
    BY <1>1, <1>6, <1>7, FS_Injection
  <1>. QED  BY <1>8 DEF P

(* bmap of a block that is there: it is found, and nothing is allocated.   *)
LEMMA BfDirectOld ==
    ASSUME NEW u, NEW a, NEW W, NEW x, NEW k1, a[k1] # 0
    PROVE  Bf!Direct(BfWalk(u, a, W, x), k1) = BfWalk(u, a, W, a[k1])
  BY DEF Bf!Direct, BfWalk

LEMMA BfIndirectOld ==
    ASSUME NEW u, NEW a, NEW W, NEW x, NEW k1, x # 0, W[x][k1] # 0
    PROVE  Bf!Indirect(BfWalk(u, a, W, x), k1) = BfWalk(u, a, W, W[x][k1])
  BY DEF Bf!Indirect, BfWalk

LEMMA BfBmapOld ==
    ASSUME BfSizes, BfGood(addrs, words, used), NEW f \in BigFiles, NEW bn \in 0..(Bf!MAXFILE - 1),
           BfBlk(addrs, words, f, bn) # 0
    PROVE  Bf!bmap(f, bn) = BfWalk(used, addrs[f], words, BfBlk(addrs, words, f, bn))
  <1>. DEFINE s == Bf!Start(f)
              R == addrs[f][NDIRECT + 1]
  <1>0. /\ NDIRECT \in Nat /\ NINDIRECT \in Nat \ {0} /\ bn \in Nat
    BY DEF BfSizes
  <1>1. s = BfWalk(used, addrs[f], words, 0)
    BY DEF Bf!Start, BfWalk
  <1>2. PICK x : x = BfBlk(addrs, words, f, bn) /\ x # 0
    OBVIOUS
  <1>. HIDE DEF s
  <1>3. CASE bn < NDIRECT
    <2>1. Bf!bmap(f, bn) = Bf!Direct(s, bn)
      <3>1. ~(bn >= NDIRECT)
        BY <1>0, <1>3
      <3>. QED  BY <1>3, <3>1 DEF Bf!bmap, s
    <2>2. addrs[f][bn] = x
      BY <1>2, <1>3 DEF BfBlk
    <2>. QED  BY <1>1, <1>2, <2>1, <2>2, BfDirectOld
  <1>4. CASE bn >= NDIRECT /\ bn - NDIRECT < NINDIRECT /\ bn - NDIRECT \in BfIndex
    <2>0. PICK j \in BfIndex : j = bn - NDIRECT
      BY <1>4
    <2>1. ~(bn < NDIRECT)
      BY <1>0, <1>4
    <2>2. Bf!bmap(f, bn) = Bf!Indirect(Bf!Direct(s, NDIRECT), j)
      BY <1>4, <2>0, <2>1 DEF Bf!bmap, s
    <2>3. PICK b : b = addrs[f][NDIRECT]
      OBVIOUS
    <2>4. x = BfVia(words, b, j)
      BY <1>2, <1>4, <2>0, <2>1, <2>3 DEF BfBlk, BfBase, BfEntry
    <2>5. b # 0 /\ words[b][j] = x
      BY <1>2, <2>4 DEF BfVia
    <2>6. Bf!Direct(s, NDIRECT) = BfWalk(used, addrs[f], words, b)
      BY <1>1, <2>3, <2>5, BfDirectOld
    <2>7. Bf!Indirect(BfWalk(used, addrs[f], words, b), j) = BfWalk(used, addrs[f], words, x)
      BY <1>2, <2>5, BfIndirectOld
    <2>. QED  BY <1>2, <2>2, <2>6, <2>7
  <1>5. CASE /\ bn >= NDIRECT /\ ~(bn - NDIRECT < NINDIRECT)
             /\ BfDouble(bn) \div NINDIRECT \in BfIndex /\ (BfDouble(bn) % NINDIRECT) \in BfIndex
    <2>0. PICK q \in BfIndex, j \in BfIndex : q = BfDouble(bn) \div NINDIRECT /\ j = BfDouble(bn) % NINDIRECT
      BY <1>5
    <2>1. ~(bn < NDIRECT)
      BY <1>0, <1>5
    <2>2. Bf!bmap(f, bn) = Bf!Indirect(Bf!Indirect(Bf!Direct(s, NDIRECT + 1), q), j)
      BY <1>5, <2>0, <2>1 DEF Bf!bmap, s, BfDouble
    <2>3. PICK r, b : r = addrs[f][NDIRECT + 1] /\ b = BfVia(words, r, q)
      OBVIOUS
    <2>4. x = BfVia(words, b, j)
      BY <1>2, <1>5, <2>0, <2>1, <2>3 DEF BfBlk, BfBase, BfEntry
    <2>5. /\ b # 0 /\ words[b][j] = x
          /\ r # 0 /\ words[r][q] = b
      BY <1>2, <2>3, <2>4 DEF BfVia
    <2>6. Bf!Direct(s, NDIRECT + 1) = BfWalk(used, addrs[f], words, r)
      BY <1>1, <2>3, <2>5, BfDirectOld
    <2>7. Bf!Indirect(BfWalk(used, addrs[f], words, r), q) = BfWalk(used, addrs[f], words, b)
      BY <2>5, BfIndirectOld
    <2>8. Bf!Indirect(BfWalk(used, addrs[f], words, b), j) = BfWalk(used, addrs[f], words, x)
      BY <1>2, <2>5, BfIndirectOld
    <2>. QED  BY <1>2, <2>2, <2>6, <2>7, <2>8
  <1>. QED  BY <1>3, <1>4, <1>5, BfRanges

LEMMA BfCardinality == \A S : Bf!Cardinality(S) = Cardinality(S)
  BY DEF Bf!Cardinality, Cardinality, Bf!IsFiniteSet, IsFiniteSet

LEMMA BfIntact == ASSUME BfSizes, BfIInv PROVE Bf!FilesIntact
  <1>0. /\ BfGood(addrs, words, used) /\ BfKept(addrs, words, fsize)
    BY DEF BfIInv
  <1>1. Cardinality(UNION {Bf!Places(f) : f \in BigFiles}) = Cardinality(used)
    <2>1. UNION {Bf!Places(f) : f \in BigFiles} = BfPlaces(addrs, words)
      BY <1>0, BfPlacesAre
    <2>2. Cardinality(BfPlaces(addrs, words)) = Cardinality(used)
      BY <1>0, BfPlacesCount
    <2>. QED  BY <2>1, <2>2
  <1>2. ASSUME NEW f \in BigFiles, NEW bn \in 0..(Bf!MAXFILE - 1), bn < fsize[f]
        PROVE  Bf!bmap(f, bn).used = used /\ words[Bf!bmap(f, bn).addr] = Bf!Content(f, bn)
    <2>1. PICK x : x = BfBlk(addrs, words, f, bn)
      OBVIOUS
    <2>2. x # 0 /\ words[x] = Bf!Content(f, bn)
      BY <1>0, <1>2, <2>1 DEF BfKept
    <2>3. Bf!bmap(f, bn) = BfWalk(used, addrs[f], words, x)
      BY <1>0, <2>1, <2>2, BfBmapOld
    <2>4. Bf!bmap(f, bn).used = used /\ Bf!bmap(f, bn).addr = x
      BY <2>3, BfWalkFields
    <2>. QED  BY <2>2, <2>4
  <1>3. used = UNION {Bf!Owned(f) : f \in BigFiles}
    BY <1>0, BfUsedOwned
  <1>. QED  BY <1>1, <1>2, <1>3, BfCardinality DEF Bf!FilesIntact

(* What the checker claims, as paths: a slot of an inode, a word of the    *)
(* block it names, a word of the block that names.  NINDIRECT stands for   *)
(* no word.                                                                *)
BfQ == {q \in BigFiles \X (0..(NDIRECT + 1)) \X (0..NINDIRECT) \X (0..NINDIRECT) :
          /\ q[3] = NINDIRECT => q[4] = NINDIRECT
          /\ q[3] # NINDIRECT => q[2] \in {NDIRECT, NDIRECT + 1}
          /\ q[4] # NINDIRECT => q[2] = NDIRECT + 1}

BfWd(W, b, j) == IF b \in Bf!Block THEN W[b][j] ELSE 0

BfAt(A, W, q) ==
    IF q[3] = NINDIRECT THEN A[q[1]][q[2]]
    ELSE IF q[4] = NINDIRECT THEN BfWd(W, A[q[1]][q[2]], q[3])
    ELSE BfWd(W, BfWd(W, A[q[1]][q[2]], q[3]), q[4])

BfPaths(A, W) == {q \in BfQ : BfAt(A, W, q) # 0}

BfClaim(q, v) ==
    IF q[3] = NINDIRECT THEN <<q[1], q[2], v>>
    ELSE IF q[4] = NINDIRECT THEN <<q[1], q[2], q[3], v>>
    ELSE <<q[1], q[2], q[3], q[4], v>>

LEMMA BfClaimIs ==
    ASSUME BfSizes, NEW q \in BfQ, NEW v
    PROVE  BfClaim(q, v)[Len(BfClaim(q, v))] = v
  <1>1. CASE q[3] = NINDIRECT
    <2>1. BfClaim(q, v) = <<q[1], q[2], v>>
      BY <1>1 DEF BfClaim
    <2>. QED  BY <2>1
  <1>2. CASE q[3] # NINDIRECT /\ q[4] = NINDIRECT
    <2>1. BfClaim(q, v) = <<q[1], q[2], q[3], v>>
      BY <1>2 DEF BfClaim
    <2>. QED  BY <2>1
  <1>3. CASE q[3] # NINDIRECT /\ q[4] # NINDIRECT
    <2>1. BfClaim(q, v) = <<q[1], q[2], q[3], q[4], v>>
      BY <1>3 DEF BfClaim
    <2>. QED  BY <2>1
  <1>. QED  BY <1>1, <1>2, <1>3

LEMMA BfClaimOnce ==
    ASSUME BfSizes, NEW q \in BfQ, NEW r \in BfQ, NEW v, NEW w, BfClaim(q, v) = BfClaim(r, w)
    PROVE  q = r /\ v = w
  <1>0. /\ q = <<q[1], q[2], q[3], q[4]>> /\ r = <<r[1], r[2], r[3], r[4]>>
        /\ q[3] = NINDIRECT => q[4] = NINDIRECT
        /\ r[3] = NINDIRECT => r[4] = NINDIRECT
    BY DEF BfQ
  <1>1. /\ q[3] = NINDIRECT => BfClaim(q, v) = <<q[1], q[2], v>>
        /\ q[3] # NINDIRECT /\ q[4] = NINDIRECT => BfClaim(q, v) = <<q[1], q[2], q[3], v>>
        /\ q[3] # NINDIRECT /\ q[4] # NINDIRECT => BfClaim(q, v) = <<q[1], q[2], q[3], q[4], v>>
    BY DEF BfClaim
  <1>2. /\ r[3] = NINDIRECT => BfClaim(r, w) = <<r[1], r[2], w>>
        /\ r[3] # NINDIRECT /\ r[4] = NINDIRECT => BfClaim(r, w) = <<r[1], r[2], r[3], w>>
        /\ r[3] # NINDIRECT /\ r[4] # NINDIRECT => BfClaim(r, w) = <<r[1], r[2], r[3], r[4], w>>
    BY DEF BfClaim
  <1>3. \A a1, a2, a3, a4, a5, b1, b2, b3, b4, b5 :
          /\ <<a1, a2, a3>> = <<b1, b2, b3>> => a1 = b1 /\ a2 = b2 /\ a3 = b3
          /\ <<a1, a2, a3, a4>> = <<b1, b2, b3, b4>> => a1 = b1 /\ a2 = b2 /\ a3 = b3 /\ a4 = b4
          /\ <<a1, a2, a3, a4, a5>> = <<b1, b2, b3, b4, b5>> =>
               a1 = b1 /\ a2 = b2 /\ a3 = b3 /\ a4 = b4 /\ a5 = b5
          /\ <<a1, a2, a3>> # <<b1, b2, b3, b4>>
          /\ <<a1, a2, a3>> # <<b1, b2, b3, b4, b5>>
          /\ <<a1, a2, a3, a4>> # <<b1, b2, b3, b4, b5>>
          /\ <<a1, a2, a3, a4>> # <<b1, b2, b3>>
          /\ <<a1, a2, a3, a4, a5>> # <<b1, b2, b3, b4>>
          /\ <<a1, a2, a3, a4, a5>> # <<b1, b2, b3>>
    OBVIOUS
  <1>4. (q[3] = NINDIRECT <=> r[3] = NINDIRECT) /\ (q[4] = NINDIRECT <=> r[4] = NINDIRECT)
    BY <1>0, <1>1, <1>2, <1>3
  <1>5. q[1] = r[1] /\ q[2] = r[2] /\ q[3] = r[3] /\ q[4] = r[4] /\ v = w
    <2>1. CASE q[3] = NINDIRECT
      BY <1>0, <1>1, <1>2, <1>3, <1>4, <2>1
    <2>2. CASE q[3] # NINDIRECT /\ q[4] = NINDIRECT
      BY <1>1, <1>2, <1>3, <1>4, <2>2
    <2>3. CASE q[3] # NINDIRECT /\ q[4] # NINDIRECT
      BY <1>1, <1>2, <1>3, <1>4, <2>3
    <2>. QED  BY <2>1, <2>2, <2>3
  <1>. QED  BY <1>0, <1>5

LEMMA BfPrefixed ==
    ASSUME NEW f, NEW x, NEW y, NEW z, NEW w
    PROVE  /\ <<f>> \o <<x, y>> = <<f, x, y>>
           /\ <<f>> \o <<x, y, z>> = <<f, x, y, z>>
           /\ <<f>> \o <<x, y, z, w>> = <<f, x, y, z, w>>
  <1>. DEFINE S == {f, x, y, z, w}
  <1>0. <<f>> \in Seq(S) /\ <<x, y>> \in Seq(S) /\ <<x, y, z>> \in Seq(S) /\ <<x, y, z, w>> \in Seq(S)
    OBVIOUS
  <1>1. <<f>> \o <<x, y>> = <<f, x, y>>
    <2>1. PICK s : s = <<f>> \o <<x, y>>
      OBVIOUS
    <2>2. Len(s) = 3 /\ s[1] = f /\ s[2] = x /\ s[3] = y /\ s \in Seq(S)
      BY <1>0, <2>1
    <2>3. PICK seq : seq = <<f, x, y>>
      OBVIOUS
    <2>4. Len(seq) = 3 /\ seq \in Seq(S) /\ \A i \in 1..3 : seq[i] = s[i]
      BY <2>2, <2>3
    <2>5. s = seq
      BY <2>2, <2>4
    <2>. QED  BY <2>1, <2>3, <2>5
  <1>2. <<f>> \o <<x, y, z>> = <<f, x, y, z>>
    <2>1. PICK s : s = <<f>> \o <<x, y, z>>
      OBVIOUS
    <2>2. Len(s) = 4 /\ s[1] = f /\ s[2] = x /\ s[3] = y /\ s[4] = z /\ s \in Seq(S)
      BY <1>0, <2>1
    <2>3. PICK seq : seq = <<f, x, y, z>>
      OBVIOUS
    <2>4. Len(seq) = 4 /\ seq \in Seq(S) /\ \A i \in 1..4 : seq[i] = s[i]
      BY <2>2, <2>3
    <2>5. s = seq
      BY <2>2, <2>4
    <2>. QED  BY <2>1, <2>3, <2>5
  <1>3. <<f>> \o <<x, y, z, w>> = <<f, x, y, z, w>>
    <2>1. PICK s : s = <<f>> \o <<x, y, z, w>>
      OBVIOUS
    <2>2. Len(s) = 5 /\ s[1] = f /\ s[2] = x /\ s[3] = y /\ s[4] = z /\ s[5] = w /\ s \in Seq(S)
      BY <1>0, <2>1
    <2>3. PICK seq : seq = <<f, x, y, z, w>>
      OBVIOUS
    <2>4. Len(seq) = 5 /\ seq \in Seq(S) /\ \A i \in 1..5 : seq[i] = s[i]
      BY <2>2, <2>3
    <2>5. s = seq
      BY <2>2, <2>4
    <2>. QED  BY <2>1, <2>3, <2>5
  <1>. QED  BY <1>1, <1>2, <1>3

LEMMA BfClaimsOf ==
    ASSUME BfSizes, NEW d, NEW f \in BigFiles, NEW c
    PROVE  c \in {<<f>> \o e : e \in Bf!Claims(d, f)} <=>
             \E q \in BfQ : q[1] = f /\ c = BfClaim(q, BfAt(d.addrs, d.words, q))
  <1>. DEFINE A == d.addrs
              W == d.words
              C1 == {<<k1, A[f][k1]>> : k1 \in 0..(NDIRECT + 1)}
              C2 == {<<NDIRECT, i, Bf!Word(d, A[f][NDIRECT], i)>> : i \in BfIndex}
              C3 == {<<NDIRECT + 1, i, Bf!Word(d, A[f][NDIRECT + 1], i)>> : i \in BfIndex}
              C4 == {<<NDIRECT + 1, i, j, Bf!Word(d, Bf!Word(d, A[f][NDIRECT + 1], i), j)>> :
                       i \in BfIndex, j \in BfIndex}
  <1>0. /\ NDIRECT \in Nat /\ NINDIRECT \in Nat \ {0} /\ NINDIRECT \notin BfIndex
        /\ BfIndex \subseteq 0..NINDIRECT /\ \A i \in 0..NINDIRECT : i # NINDIRECT => i \in BfIndex
        /\ NDIRECT \in 0..(NDIRECT + 1) /\ NDIRECT + 1 \in 0..(NDIRECT + 1) /\ NINDIRECT \in 0..NINDIRECT
    BY DEF BfSizes, BfIndex
  <1>1. Bf!Claims(d, f) = C1 \cup C2 \cup C3 \cup C4
    BY DEF Bf!Claims, BfIndex
  <1>2. \A b, j : Bf!Word(d, b, j) = BfWd(W, b, j)
    BY DEF Bf!Word, BfWd
  <1>a. \A x, y, z, w :
          /\ <<f>> \o <<x, y>> = <<f, x, y>>
          /\ <<f>> \o <<x, y, z>> = <<f, x, y, z>>
          /\ <<f>> \o <<x, y, z, w>> = <<f, x, y, z, w>>
    BY BfPrefixed
  <1>. HIDE DEF A, W
  <1>3. ASSUME NEW k1 \in 0..(NDIRECT + 1)
        PROVE  /\ <<f, k1, NINDIRECT, NINDIRECT>> \in BfQ
               /\ BfClaim(<<f, k1, NINDIRECT, NINDIRECT>>, BfAt(A, W, <<f, k1, NINDIRECT, NINDIRECT>>)) =
                    <<f, k1, A[f][k1]>>
    BY <1>0 DEF BfQ, BfClaim, BfAt
  <1>4. ASSUME NEW k1 \in {NDIRECT, NDIRECT + 1}, NEW i \in BfIndex
        PROVE  /\ <<f, k1, i, NINDIRECT>> \in BfQ
               /\ BfClaim(<<f, k1, i, NINDIRECT>>, BfAt(A, W, <<f, k1, i, NINDIRECT>>)) =
                    <<f, k1, i, BfWd(W, A[f][k1], i)>>
    <2>1. i # NINDIRECT /\ i \in 0..NINDIRECT /\ k1 \in 0..(NDIRECT + 1)
      BY <1>0
    <2>. QED  BY <1>0, <2>1 DEF BfQ, BfClaim, BfAt
  <1>5. ASSUME NEW i \in BfIndex, NEW j \in BfIndex
        PROVE  /\ <<f, NDIRECT + 1, i, j>> \in BfQ
               /\ BfClaim(<<f, NDIRECT + 1, i, j>>, BfAt(A, W, <<f, NDIRECT + 1, i, j>>)) =
                    <<f, NDIRECT + 1, i, j, BfWd(W, BfWd(W, A[f][NDIRECT + 1], i), j)>>
    <2>1. i # NINDIRECT /\ i \in 0..NINDIRECT /\ j # NINDIRECT /\ j \in 0..NINDIRECT
      BY <1>0
    <2>. QED  BY <1>0, <2>1 DEF BfQ, BfClaim, BfAt
  <1>6. ASSUME NEW e \in Bf!Claims(d, f)
        PROVE  \E q \in BfQ : q[1] = f /\ <<f>> \o e = BfClaim(q, BfAt(A, W, q))
    <2>1. CASE e \in C1
      <3>1. PICK k1 \in 0..(NDIRECT + 1) : e = <<k1, A[f][k1]>>
        BY <2>1
      <3>. QED  BY <1>3, <1>a, <3>1
    <2>2. CASE e \in C2
      <3>1. PICK i \in BfIndex : e = <<NDIRECT, i, BfWd(W, A[f][NDIRECT], i)>>
        BY <1>2, <2>2
      <3>. QED  BY <1>4, <1>a, <3>1
    <2>3. CASE e \in C3
      <3>1. PICK i \in BfIndex : e = <<NDIRECT + 1, i, BfWd(W, A[f][NDIRECT + 1], i)>>
        BY <1>2, <2>3
      <3>. QED  BY <1>4, <1>a, <3>1
    <2>4. CASE e \in C4
      <3>1. PICK i \in BfIndex, j \in BfIndex :
               e = <<NDIRECT + 1, i, j, BfWd(W, BfWd(W, A[f][NDIRECT + 1], i), j)>>
        BY <1>2, <2>4
      <3>2. <<f>> \o e = <<f, NDIRECT + 1, i, j, BfWd(W, BfWd(W, A[f][NDIRECT + 1], i), j)>>
        BY <1>a, <3>1
      <3>3. <<f, NDIRECT + 1, i, j>>[1] = f
        OBVIOUS
      <3>. QED  BY <1>5, <3>2, <3>3
    <2>. QED  BY <1>1, <2>1, <2>2, <2>3, <2>4
  <1>7. ASSUME NEW q \in BfQ, q[1] = f
        PROVE  \E e \in Bf!Claims(d, f) : <<f>> \o e = BfClaim(q, BfAt(A, W, q))
    <2>0. /\ q = <<f, q[2], q[3], q[4]>>
          /\ q[2] \in 0..(NDIRECT + 1) /\ q[3] \in 0..NINDIRECT /\ q[4] \in 0..NINDIRECT
          /\ q[3] = NINDIRECT => q[4] = NINDIRECT
          /\ q[3] # NINDIRECT => q[2] \in {NDIRECT, NDIRECT + 1}
          /\ q[4] # NINDIRECT => q[2] = NDIRECT + 1
      BY <1>7 DEF BfQ
    <2>1. CASE q[3] = NINDIRECT
      <3>1. BfClaim(q, BfAt(A, W, q)) = <<f>> \o <<q[2], A[f][q[2]]>>
        BY <1>3, <1>a, <2>0, <2>1
      <3>2. PICK e : e = <<q[2], A[f][q[2]]>>
        OBVIOUS
      <3>3. e \in Bf!Claims(d, f)
        BY <1>1, <2>0, <3>2
      <3>. QED  BY <3>1, <3>2, <3>3
    <2>2. CASE q[3] # NINDIRECT /\ q[4] = NINDIRECT
      <3>0. PICK k1 \in {NDIRECT, NDIRECT + 1}, i \in BfIndex : k1 = q[2] /\ i = q[3]
        BY <1>0, <2>0, <2>2
      <3>1. BfClaim(q, BfAt(A, W, q)) = <<f>> \o <<k1, i, BfWd(W, A[f][k1], i)>>
        BY <1>4, <1>a, <2>0, <2>2, <3>0
      <3>2. PICK e : e = <<k1, i, BfWd(W, A[f][k1], i)>>
        OBVIOUS
      <3>3. e \in Bf!Claims(d, f)
        <4>1. k1 = NDIRECT => e \in C2
          BY <1>2, <3>2
        <4>2. k1 = NDIRECT + 1 => e \in C3
          BY <1>2, <3>2
        <4>. QED  BY <1>1, <4>1, <4>2
      <3>. QED  BY <3>1, <3>2, <3>3
    <2>3. CASE q[3] # NINDIRECT /\ q[4] # NINDIRECT
      <3>0. PICK i \in BfIndex, j \in BfIndex : i = q[3] /\ j = q[4]
        BY <1>0, <2>0, <2>3
      <3>1. BfClaim(q, BfAt(A, W, q)) =
              <<f>> \o <<NDIRECT + 1, i, j, BfWd(W, BfWd(W, A[f][NDIRECT + 1], i), j)>>
        BY <1>5, <1>a, <2>0, <2>3, <3>0
      <3>2. PICK e : e = <<NDIRECT + 1, i, j, BfWd(W, BfWd(W, A[f][NDIRECT + 1], i), j)>>
        OBVIOUS
      <3>3. e \in Bf!Claims(d, f)
        BY <1>1, <1>2, <3>2
      <3>. QED  BY <3>1, <3>2, <3>3
    <2>. QED  BY <2>1, <2>2, <2>3
  <1>. HIDE DEF C1, C2, C3, C4
  <1>8. ASSUME c \in {<<f>> \o e : e \in Bf!Claims(d, f)}
        PROVE  \E q \in BfQ : q[1] = f /\ c = BfClaim(q, BfAt(A, W, q))
    <2>1. PICK e \in Bf!Claims(d, f) : c = <<f>> \o e
      BY <1>8
    <2>. QED  BY <1>6, <2>1
  <1>9. ASSUME NEW q \in BfQ, q[1] = f, c = BfClaim(q, BfAt(A, W, q))
        PROVE  c \in {<<f>> \o e : e \in Bf!Claims(d, f)}
    <2>1. PICK e \in Bf!Claims(d, f) : <<f>> \o e = c
      BY <1>7, <1>9
    <2>. QED  BY <2>1
  <1>. QED  BY <1>8, <1>9 DEF A, W

LEMMA BfClaimsAre ==
    ASSUME BfSizes, NEW d
    PROVE  Bf!AllClaims(d) = {BfClaim(q, BfAt(d.addrs, d.words, q)) : q \in BfPaths(d.addrs, d.words)}
  <1>. DEFINE V(q) == BfAt(d.addrs, d.words, q)
  <1>1. ASSUME NEW c \in Bf!AllClaims(d)
        PROVE  c \in {BfClaim(q, V(q)) : q \in BfPaths(d.addrs, d.words)}
    <2>1. c[Len(c)] # 0 /\ \E f \in BigFiles : c \in {<<f>> \o e : e \in Bf!Claims(d, f)}
      BY DEF Bf!AllClaims
    <2>2. PICK f \in BigFiles : c \in {<<f>> \o e : e \in Bf!Claims(d, f)}
      BY <2>1
    <2>3. PICK q \in BfQ : c = BfClaim(q, V(q))
      BY <2>2, BfClaimsOf
    <2>4. V(q) # 0
      BY <2>1, <2>3, BfClaimIs
    <2>. QED  BY <2>3, <2>4 DEF BfPaths
  <1>2. ASSUME NEW q \in BfPaths(d.addrs, d.words) PROVE BfClaim(q, V(q)) \in Bf!AllClaims(d)
    <2>1. q \in BfQ /\ V(q) # 0
      BY DEF BfPaths
    <2>2. PICK c : c = BfClaim(q, V(q))
      OBVIOUS
    <2>3. q[1] \in BigFiles
      BY <2>1 DEF BfQ
    <2>4. c \in {<<q[1]>> \o e : e \in Bf!Claims(d, q[1])}
      <3>1. PICK f \in BigFiles : f = q[1]
        BY <2>3
      <3>2. \E r \in BfQ : r[1] = f /\ c = BfClaim(r, BfAt(d.addrs, d.words, r))
        BY <2>1, <2>2, <3>1
      <3>3. c \in {<<f>> \o e : e \in Bf!Claims(d, f)}
        BY <3>2, BfClaimsOf
      <3>. QED  BY <3>1, <3>3
    <2>5. c[Len(c)] # 0
      BY <2>1, <2>2, BfClaimIs
    <2>6. c \in Bf!AllClaims(d)
      BY <2>3, <2>4, <2>5 DEF Bf!AllClaims
    <2>. QED  BY <2>2, <2>6
  <1>. QED  BY <1>1, <1>2

(* No complaint: each path of its own leads to a block of its own, and     *)
(* these are the ones in use.                                              *)
BfClean(A, W, u) ==
    /\ \A q \in BfPaths(A, W) : BfAt(A, W, q) \in Bf!Block /\ BfAt(A, W, q) \in u
    /\ \A x \in u : \E q \in BfPaths(A, W) : BfAt(A, W, q) = x
    /\ \A q, r \in BfPaths(A, W) : BfAt(A, W, q) = BfAt(A, W, r) => q = r

LEMMA BfQFinite == ASSUME BfSizes PROVE IsFiniteSet(BfQ)
  <1>. DEFINE K == 0..(NDIRECT + 1)
              I == 0..NINDIRECT
              P == (BigFiles \X K) \X (I \X I)
              Q == BigFiles \X K \X I \X I
  <1>1. IsFiniteSet(K) /\ IsFiniteSet(I)
    BY FS_Interval DEF BfSizes
  <1>. HIDE DEF K, I
  <1>2. IsFiniteSet(P)
    <2>1. IsFiniteSet(BigFiles \X K) /\ IsFiniteSet(I \X I)
      BY <1>1, FS_Product DEF BfSizes
    <2>. QED  BY <2>1, FS_Product
  <1>. DEFINE F == [p \in P |-> <<p[1][1], p[1][2], p[2][1], p[2][2]>>]
  <1>3. F \in Surjection(P, Q)
    <2>1. F \in [P -> Q]
      OBVIOUS
    <2>2. ASSUME NEW q \in Q PROVE \E p \in P : F[p] = q
      <3>1. <<<<q[1], q[2]>>, <<q[3], q[4]>>>> \in P
        OBVIOUS
      <3>2. F[<<<<q[1], q[2]>>, <<q[3], q[4]>>>>] = q
        BY <3>1
      <3>. QED  BY <3>1, <3>2
    <2>. QED  BY <2>1, <2>2 DEF Surjection
  <1>4. IsFiniteSet(Q)
    BY <1>2, <1>3, FS_Surjection
  <1>5. BfQ \in SUBSET Q
    BY DEF BfQ, K, I
  <1>. QED  BY <1>4, <1>5, FS_Subset

LEMMA BfCleanIs ==
    ASSUME BfSizes, NEW d
    PROVE  Bf!Clean(d) <=> BfClean(d.addrs, d.words, d.used)
  <1>. DEFINE P == BfPaths(d.addrs, d.words)
              V(q) == BfAt(d.addrs, d.words, q)
              C == Bf!AllClaims(d)
  <1>1. C = {BfClaim(q, V(q)) : q \in P}
    BY BfClaimsAre
  <1>2. ASSUME NEW q \in P PROVE q \in BfQ /\ V(q) # 0 /\ BfClaim(q, V(q))[Len(BfClaim(q, V(q)))] = V(q)
    BY BfClaimIs DEF BfPaths
  <1>. HIDE DEF P, V, C
  <1>3. Bf!Claimed(C) = {V(q) : q \in P}
    <2>1. ASSUME NEW x \in Bf!Claimed(C) PROVE x \in {V(q) : q \in P}
      <3>1. PICK c \in C : x = c[Len(c)]
        BY DEF Bf!Claimed
      <3>2. PICK q \in P : c = BfClaim(q, V(q))
        BY <1>1
      <3>. QED  BY <1>2, <3>1, <3>2
    <2>2. ASSUME NEW q \in P PROVE V(q) \in Bf!Claimed(C)
      <3>1. PICK c : c = BfClaim(q, V(q))
        OBVIOUS
      <3>2. c \in C /\ V(q) = c[Len(c)]
        BY <1>1, <1>2, <3>1
      <3>. QED  BY <3>2 DEF Bf!Claimed
    <2>. QED  BY <2>1, <2>2
  <1>4. IsFiniteSet(P)
    <2>1. P \in SUBSET BfQ
      BY DEF P, BfPaths
    <2>. QED  BY <2>1, BfQFinite, FS_Subset
  <1>5. IsFiniteSet(C)
    <2>. DEFINE F == [q \in P |-> BfClaim(q, V(q))]
    <2>1. F \in Surjection(P, C)
      <3>1. F \in [P -> C]
        BY <1>1
      <3>2. ASSUME NEW c \in C PROVE \E q \in P : F[q] = c
        BY <1>1
      <3>. QED  BY <3>1, <3>2 DEF Surjection
    <2>. QED  BY <1>4, <2>1, FS_Surjection
  <1>. DEFINE L == [c \in C |-> c[Len(c)]]
  <1>6. L \in Surjection(C, Bf!Claimed(C))
    <2>1. L \in [C -> Bf!Claimed(C)]
      BY DEF Bf!Claimed
    <2>2. ASSUME NEW x \in Bf!Claimed(C) PROVE \E c \in C : L[c] = x
      BY DEF Bf!Claimed
    <2>. QED  BY <2>1, <2>2 DEF Surjection
  <1>7. Cardinality(C) = Cardinality(Bf!Claimed(C)) <=> L \in Injection(C, Bf!Claimed(C))
    <2>1. Cardinality(Bf!Claimed(C)) = Cardinality(C) <=> L \in Injection(C, Bf!Claimed(C))
      BY <1>5, <1>6, FS_Surjection
    <2>. QED  BY <2>1
  <1>8. ASSUME NEW q \in P PROVE BfClaim(q, V(q)) \in C /\ L[BfClaim(q, V(q))] = V(q)
    <2>1. PICK c : c = BfClaim(q, V(q))
      OBVIOUS
    <2>2. c \in C /\ c[Len(c)] = V(q)
      BY <1>1, <1>2, <2>1
    <2>. QED  BY <2>1, <2>2
  <1>9. L \in [C -> Bf!Claimed(C)]
    BY <1>6 DEF Surjection
  <1>. HIDE DEF L
  <1>10. ASSUME L \in Injection(C, Bf!Claimed(C)), NEW q \in P, NEW r \in P, V(q) = V(r) PROVE q = r
    <2>1. BfClaim(q, V(q)) = BfClaim(r, V(r))
      <3>1. PICK c \in C, e \in C : c = BfClaim(q, V(q)) /\ e = BfClaim(r, V(r)) /\ L[c] = V(q) /\ L[e] = V(r)
        BY <1>8
      <3>2. c = e
        BY <1>10, <3>1 DEF Injection, IsInjective
      <3>. QED  BY <3>1, <3>2
    <2>. QED  BY <1>2, <2>1, BfClaimOnce
  <1>11. ASSUME \A q, r \in P : V(q) = V(r) => q = r PROVE L \in Injection(C, Bf!Claimed(C))
    <2>1. ASSUME NEW c \in C, NEW e \in C, L[c] = L[e] PROVE c = e
      <3>1. PICK q \in P, r \in P : c = BfClaim(q, V(q)) /\ e = BfClaim(r, V(r))
        BY <1>1
      <3>2. V(q) = V(r)
        BY <1>8, <2>1, <3>1
      <3>. QED  BY <1>11, <3>1, <3>2
    <2>. QED  BY <1>9, <2>1 DEF Injection, IsInjective
  <1>12. Bf!Clean(d) <=> /\ Bf!Claimed(C) \subseteq Bf!Block
                         /\ L \in Injection(C, Bf!Claimed(C))
                         /\ Bf!Claimed(C) = d.used
    BY <1>7, BfCardinality DEF Bf!Clean, Bf!ClaimsGood, C
  <1>13. Bf!Clean(d) <=> /\ \A q \in P : V(q) \in Bf!Block
                         /\ \A q, r \in P : V(q) = V(r) => q = r
                         /\ {V(q) : q \in P} = d.used
    BY <1>3, <1>10, <1>11, <1>12
  <1>14. {V(q) : q \in P} = d.used <=>
           (\A q \in P : V(q) \in d.used) /\ (\A x \in d.used : \E q \in P : V(q) = x)
    OBVIOUS
  <1>. QED  BY <1>13, <1>14 DEF BfClean, P, V

(* The last place of a path. *)
BfAtTable(A, W, q) ==
    IF q[3] = NINDIRECT THEN 0
    ELSE IF q[4] = NINDIRECT THEN A[q[1]][q[2]]
    ELSE BfWd(W, A[q[1]][q[2]], q[3])
BfAtEntry(q) == IF q[3] = NINDIRECT THEN q[2] ELSE IF q[4] = NINDIRECT THEN q[3] ELSE q[4]

(* The parts of a path. *)
LEMMA BfQIs ==
    ASSUME BfSizes, NEW q \in BfQ
    PROVE  /\ q = <<q[1], q[2], q[3], q[4]>> /\ q[1] \in BigFiles /\ q[2] \in 0..(NDIRECT + 1)
           /\ \/ q[3] = NINDIRECT /\ q[4] = NINDIRECT
              \/ q[3] # NINDIRECT /\ q[4] = NINDIRECT /\ q[3] \in BfIndex /\ q[2] \in {NDIRECT, NDIRECT + 1}
              \/ /\ q[3] # NINDIRECT /\ q[4] # NINDIRECT /\ q[3] \in BfIndex /\ q[4] \in BfIndex
                 /\ q[2] = NDIRECT + 1
  <1>1. \A i \in 0..NINDIRECT : i # NINDIRECT => i \in BfIndex
    BY DEF BfSizes, BfIndex
  <1>. QED  BY <1>1 DEF BfQ

LEMMA BfQOf ==
    ASSUME BfSizes, NEW f \in BigFiles
    PROVE  /\ \A k1 \in 0..(NDIRECT + 1) : <<f, k1, NINDIRECT, NINDIRECT>> \in BfQ
           /\ \A k1 \in {NDIRECT, NDIRECT + 1}, i \in BfIndex : <<f, k1, i, NINDIRECT>> \in BfQ
           /\ \A i, j \in BfIndex : <<f, NDIRECT + 1, i, j>> \in BfQ
  <1>1. /\ NDIRECT \in Nat /\ NINDIRECT \in 0..NINDIRECT
        /\ \A i \in BfIndex : i # NINDIRECT /\ i \in 0..NINDIRECT
        /\ NDIRECT \in 0..(NDIRECT + 1) /\ NDIRECT + 1 \in 0..(NDIRECT + 1)
    BY DEF BfSizes, BfIndex
  <1>. QED  BY <1>1 DEF BfQ

LEMMA BfAtIs ==
    ASSUME BfSizes, NEW A, NEW W, NEW f, NEW k1
    PROVE  /\ BfAt(A, W, <<f, k1, NINDIRECT, NINDIRECT>>) = A[f][k1]
           /\ \A i \in BfIndex : BfAt(A, W, <<f, k1, i, NINDIRECT>>) = BfWd(W, A[f][k1], i)
           /\ \A i, j \in BfIndex : BfAt(A, W, <<f, k1, i, j>>) = BfWd(W, BfWd(W, A[f][k1], i), j)
  <1>1. \A i \in BfIndex : i # NINDIRECT
    BY DEF BfSizes, BfIndex
  <1>. QED  BY <1>1 DEF BfAt

(* On a good disk, a path that comes to a block ends in a place that       *)
(* names it; ...                                                           *)
LEMMA BfPathCell ==
    ASSUME BfSizes, NEW A, NEW W, NEW u, BfGood(A, W, u), NEW q \in BfQ, BfAt(A, W, q) # 0
    PROVE  /\ BfAtTable(A, W, q) \in 0..NBlocks /\ BfAtEntry(q) \in Nat
           /\ BfCell(A, W, q[1], BfAtTable(A, W, q), BfAtEntry(q))
           /\ BfName(A, W, q[1], BfAtTable(A, W, q), BfAtEntry(q)) = BfAt(A, W, q)
           /\ BfAtTable(A, W, q) = 0 <=> q[3] = NINDIRECT
           /\ BfAt(A, W, q) \in u /\ BfAt(A, W, q) \in Bf!Block
  <1>0. /\ NDIRECT \in Nat /\ NINDIRECT \in Nat \ {0} /\ NBlocks \in Nat
        /\ BfTypes(A, W, u) /\ BfNamesUsed(A, W, u)
    BY DEF BfSizes, BfGood
  <1>1. /\ q[1] \in BigFiles /\ q[2] \in 0..(NDIRECT + 1)
        /\ \/ q[3] = NINDIRECT /\ q[4] = NINDIRECT
           \/ q[3] # NINDIRECT /\ q[4] = NINDIRECT /\ q[3] \in BfIndex /\ q[2] \in {NDIRECT, NDIRECT + 1}
           \/ /\ q[3] # NINDIRECT /\ q[4] # NINDIRECT /\ q[3] \in BfIndex /\ q[4] \in BfIndex
              /\ q[2] = NDIRECT + 1
    BY BfQIs
  <1>a. PICK f \in BigFiles, k1 \in 0..(NDIRECT + 1) : f = q[1] /\ k1 = q[2]
    BY <1>1
  <1>2. PICK b, e : f = q[1] /\ k1 = q[2] /\ b = BfAtTable(A, W, q) /\ e = BfAtEntry(q)
    BY <1>a
  <1>3. /\ b \in 0..NBlocks /\ e \in Nat /\ BfCell(A, W, f, b, e)
        /\ BfName(A, W, f, b, e) = BfAt(A, W, q) /\ (b = 0 <=> q[3] = NINDIRECT)
    <2>1. CASE q[3] = NINDIRECT /\ q[4] = NINDIRECT
      <3>1. b = 0 /\ e = k1 /\ BfAt(A, W, q) = A[f][k1]
        BY <1>2, <2>1 DEF BfAtTable, BfAtEntry, BfAt
      <3>. QED  BY <1>0, <2>1, <3>1 DEF BfCell, BfName
    <2>2. CASE /\ q[3] # NINDIRECT /\ q[4] = NINDIRECT /\ q[3] \in BfIndex
               /\ q[2] \in {NDIRECT, NDIRECT + 1}
      <3>1. b = A[f][k1] /\ e = q[3] /\ BfAt(A, W, q) = BfWd(W, b, e)
        BY <1>2, <2>2 DEF BfAtTable, BfAtEntry, BfAt
      <3>2. b \in Bf!Block /\ b # 0 /\ W[b][e] = BfAt(A, W, q)
        BY <1>0, <3>1 DEF BfWd, Bf!Block
      <3>3. BfTable(A, W, f, b)
        BY <1>2, <2>2, <3>1, <3>2 DEF BfTable
      <3>. QED  BY <1>0, <2>2, <3>1, <3>2, <3>3 DEF BfCell, BfName, Bf!Block, BfIndex
    <2>3. CASE /\ q[3] # NINDIRECT /\ q[4] # NINDIRECT /\ q[3] \in BfIndex /\ q[4] \in BfIndex
               /\ q[2] = NDIRECT + 1
      <3>1. PICK r : r = A[f][NDIRECT + 1]
        OBVIOUS
      <3>2. b = BfWd(W, r, q[3]) /\ e = q[4] /\ BfAt(A, W, q) = BfWd(W, b, e)
        BY <1>2, <2>3, <3>1 DEF BfAtTable, BfAtEntry, BfAt
      <3>3. b \in Bf!Block /\ b # 0 /\ W[b][e] = BfAt(A, W, q)
        BY <1>0, <3>2 DEF BfWd, Bf!Block
      <3>4. r \in Bf!Block /\ r # 0 /\ W[r][q[3]] = b
        BY <1>0, <3>2, <3>3 DEF BfWd, Bf!Block
      <3>5. BfTable(A, W, f, b)
        BY <2>3, <3>1, <3>3, <3>4 DEF BfTable
      <3>. QED  BY <1>0, <2>3, <3>2, <3>3, <3>5 DEF BfCell, BfName, Bf!Block, BfIndex
    <2>. QED  BY <1>1, <2>1, <2>2, <2>3
  <1>4. BfAt(A, W, q) \in u
    BY <1>0, <1>3 DEF BfNamesUsed
  <1>. QED  BY <1>0, <1>2, <1>3, <1>4 DEF BfTypes

(* ... every place is the last of a path, on which all names before are    *)
(* there; ...                                                              *)
LEMMA BfCellPath ==
    ASSUME BfSizes, NEW A, NEW W, NEW u, BfGood(A, W, u), NEW f \in BigFiles, NEW b \in 0..NBlocks, NEW e \in Nat,
           BfCell(A, W, f, b, e)
    PROVE  \E q \in BfQ : /\ q[1] = f /\ BfAtTable(A, W, q) = b /\ BfAtEntry(q) = e
                          /\ BfAt(A, W, q) = BfName(A, W, f, b, e)
                          /\ b # 0 => A[f][q[2]] # 0 /\ q[3] # NINDIRECT
                          /\ b = 0 => q[3] = NINDIRECT
  <1>0. /\ NDIRECT \in Nat /\ NINDIRECT \in Nat \ {0} /\ NBlocks \in Nat
        /\ BfTypes(A, W, u) /\ \A i \in BfIndex : i # NINDIRECT
    BY DEF BfSizes, BfGood, BfIndex
  <1>1. CASE b = 0 /\ e \in 0..(NDIRECT + 1)
    <2>1. PICK q : q = <<f, e, NINDIRECT, NINDIRECT>>
      OBVIOUS
    <2>2. q \in BfQ /\ BfAt(A, W, q) = A[f][e]
      BY <1>1, <2>1, BfQOf, BfAtIs
    <2>3. q[1] = f /\ q[2] = e /\ q[3] = NINDIRECT
      BY <2>1
    <2>. QED  BY <1>1, <2>2, <2>3 DEF BfAtTable, BfAtEntry, BfName
  <1>2. ASSUME BfTable(A, W, f, b), e \in BfIndex, NEW k1 \in {NDIRECT, NDIRECT + 1}, b = A[f][k1]
        PROVE  \E q \in BfQ : /\ q[1] = f /\ BfAtTable(A, W, q) = b /\ BfAtEntry(q) = e
                              /\ BfAt(A, W, q) = BfName(A, W, f, b, e)
                              /\ b # 0 => A[f][q[2]] # 0 /\ q[3] # NINDIRECT
                              /\ b = 0 => q[3] = NINDIRECT
    <2>0. b # 0 /\ b \in Bf!Block
      BY <1>2, BfTableNamed DEF BfTable
    <2>1. PICK q : q = <<f, k1, e, NINDIRECT>>
      OBVIOUS
    <2>2. q \in BfQ /\ BfAt(A, W, q) = BfWd(W, b, e)
      <3>1. <<f, k1, e, NINDIRECT>> \in BfQ
        BY <1>2, BfQOf
      <3>2. BfAt(A, W, <<f, k1, e, NINDIRECT>>) = BfWd(W, A[f][k1], e)
        BY <1>0, <1>2 DEF BfAt
      <3>. QED  BY <1>2, <2>1, <3>1, <3>2
    <2>3. q[1] = f /\ q[2] = k1 /\ q[3] = e /\ q[4] = NINDIRECT /\ e # NINDIRECT
      BY <1>0, <1>2, <2>1
    <2>. QED  BY <1>2, <2>0, <2>2, <2>3 DEF BfAtTable, BfAtEntry, BfName, BfWd
  <1>3. ASSUME BfTable(A, W, f, b), e \in BfIndex, A[f][NDIRECT + 1] # 0,
               NEW i \in BfIndex, b = W[A[f][NDIRECT + 1]][i]
        PROVE  \E q \in BfQ : /\ q[1] = f /\ BfAtTable(A, W, q) = b /\ BfAtEntry(q) = e
                              /\ BfAt(A, W, q) = BfName(A, W, f, b, e)
                              /\ b # 0 => A[f][q[2]] # 0 /\ q[3] # NINDIRECT
                              /\ b = 0 => q[3] = NINDIRECT
    <2>0. b # 0 /\ b \in Bf!Block
      BY <1>3, BfTableNamed DEF BfTable
    <2>a. PICK r : r = A[f][NDIRECT + 1]
      OBVIOUS
    <2>b. r \in Bf!Block
      <3>1. NDIRECT + 1 \in 0..(NDIRECT + 1)
        BY <1>0
      <3>2. r \in 0..NBlocks
        BY <1>0, <2>a, <3>1 DEF BfTypes
      <3>. QED  BY <1>0, <1>3, <2>a, <3>2 DEF Bf!Block
    <2>c. BfWd(W, r, i) = b
      BY <1>3, <2>a, <2>b DEF BfWd
    <2>1. PICK q : q = <<f, NDIRECT + 1, i, e>>
      OBVIOUS
    <2>2. q \in BfQ /\ BfAt(A, W, q) = BfWd(W, b, e)
      <3>1. <<f, NDIRECT + 1, i, e>> \in BfQ
        BY <1>3, BfQOf
      <3>2. BfAt(A, W, <<f, NDIRECT + 1, i, e>>) = BfWd(W, BfWd(W, A[f][NDIRECT + 1], i), e)
        BY <1>0, <1>3 DEF BfAt
      <3>. QED  BY <2>1, <2>a, <2>c, <3>1, <3>2
    <2>3. q[1] = f /\ q[2] = NDIRECT + 1 /\ q[3] = i /\ q[4] = e /\ e # NINDIRECT /\ i # NINDIRECT
      BY <1>0, <1>3, <2>1
    <2>. QED  BY <1>3, <2>0, <2>a, <2>c, <2>2, <2>3 DEF BfAtTable, BfAtEntry, BfName, BfWd
  <1>. QED  BY <1>1, <1>2, <1>3 DEF BfCell, BfTable

(* ... and of one path only. *)
LEMMA BfPathOnce ==
    ASSUME BfSizes, NEW A, NEW W, NEW u, BfGood(A, W, u), NEW q \in BfQ, NEW r \in BfQ,
           BfAt(A, W, q) # 0, BfAt(A, W, q) = BfAt(A, W, r)
    PROVE  q = r
  <1>0. /\ NDIRECT \in Nat /\ NINDIRECT \in Nat \ {0} /\ NBlocks \in Nat /\ 0 \in 0..NBlocks
        /\ BfOnce(A, W) /\ NDIRECT \in 0..(NDIRECT + 1) /\ NDIRECT + 1 \in 0..(NDIRECT + 1)
    BY DEF BfSizes, BfGood
  <1>1. /\ BfAtTable(A, W, q) \in 0..NBlocks /\ BfAtEntry(q) \in Nat
        /\ BfCell(A, W, q[1], BfAtTable(A, W, q), BfAtEntry(q))
        /\ BfName(A, W, q[1], BfAtTable(A, W, q), BfAtEntry(q)) = BfAt(A, W, q)
        /\ BfAtTable(A, W, q) = 0 <=> q[3] = NINDIRECT
    BY BfPathCell
  <1>2. /\ BfAtTable(A, W, r) \in 0..NBlocks /\ BfAtEntry(r) \in Nat
        /\ BfCell(A, W, r[1], BfAtTable(A, W, r), BfAtEntry(r))
        /\ BfName(A, W, r[1], BfAtTable(A, W, r), BfAtEntry(r)) = BfAt(A, W, r)
        /\ BfAtTable(A, W, r) = 0 <=> r[3] = NINDIRECT
    BY BfPathCell
  <1>3. /\ q = <<q[1], q[2], q[3], q[4]>> /\ q[1] \in BigFiles /\ q[2] \in 0..(NDIRECT + 1)
        /\ \/ q[3] = NINDIRECT /\ q[4] = NINDIRECT
           \/ q[3] # NINDIRECT /\ q[4] = NINDIRECT /\ q[3] \in BfIndex /\ q[2] \in {NDIRECT, NDIRECT + 1}
           \/ /\ q[3] # NINDIRECT /\ q[4] # NINDIRECT /\ q[3] \in BfIndex /\ q[4] \in BfIndex
              /\ q[2] = NDIRECT + 1
    BY BfQIs
  <1>4. /\ r = <<r[1], r[2], r[3], r[4]>> /\ r[1] \in BigFiles /\ r[2] \in 0..(NDIRECT + 1)
        /\ \/ r[3] = NINDIRECT /\ r[4] = NINDIRECT
           \/ r[3] # NINDIRECT /\ r[4] = NINDIRECT /\ r[3] \in BfIndex /\ r[2] \in {NDIRECT, NDIRECT + 1}
           \/ /\ r[3] # NINDIRECT /\ r[4] # NINDIRECT /\ r[3] \in BfIndex /\ r[4] \in BfIndex
              /\ r[2] = NDIRECT + 1
    BY BfQIs
  <1>5. q[1] = r[1] /\ BfAtTable(A, W, q) = BfAtTable(A, W, r) /\ BfAtEntry(q) = BfAtEntry(r)
    BY <1>0, <1>1, <1>2, <1>3, <1>4 DEF BfOnce
  <1>6. PICK f \in BigFiles, b \in 0..NBlocks : f = q[1] /\ b = BfAtTable(A, W, q)
    BY <1>1, <1>3
  <1>7. PICK R : R = A[f][NDIRECT + 1]
    OBVIOUS
  (* Two names of a table are one. *)
  <1>8. ASSUME NEW k1 \in 0..(NDIRECT + 1), NEW l \in 0..(NDIRECT + 1), A[f][k1] = A[f][l], A[f][k1] # 0
        PROVE  k1 = l
    <2>1. /\ BfCell(A, W, f, 0, k1) /\ BfCell(A, W, f, 0, l) /\ k1 \in Nat /\ l \in Nat
          /\ BfName(A, W, f, 0, k1) = A[f][k1] /\ BfName(A, W, f, 0, l) = A[f][l]
      BY <1>0 DEF BfCell, BfName
    <2>. QED  BY <1>0, <1>8, <2>1 DEF BfOnce
  <1>9. ASSUME NEW k1 \in 0..(NDIRECT + 1), NEW i \in BfIndex, A[f][k1] = BfWd(W, R, i), A[f][k1] # 0
        PROVE  FALSE
    <2>1. R \in Bf!Block /\ W[R][i] = A[f][k1]
      BY <1>9 DEF BfWd
    <2>2. R # 0 /\ R \in 0..NBlocks /\ i \in Nat
      BY <1>0, <2>1 DEF Bf!Block, BfIndex
    <2>3. BfTable(A, W, f, R)
      BY <1>7, <2>2 DEF BfTable
    <2>4. /\ BfCell(A, W, f, 0, k1) /\ BfCell(A, W, f, R, i) /\ k1 \in Nat
          /\ BfName(A, W, f, 0, k1) = A[f][k1] /\ BfName(A, W, f, R, i) = A[f][k1]
      BY <1>0, <2>1, <2>2, <2>3 DEF BfCell, BfName
    <2>. QED  BY <1>0, <1>9, <2>2, <2>4 DEF BfOnce
  <1>10. ASSUME NEW i \in BfIndex, NEW j \in BfIndex, BfWd(W, R, i) = BfWd(W, R, j), BfWd(W, R, i) # 0
         PROVE  i = j
    <2>1. R \in Bf!Block /\ W[R][i] # 0 /\ W[R][i] = W[R][j]
      BY <1>10 DEF BfWd
    <2>2. R # 0 /\ R \in 0..NBlocks /\ i \in Nat /\ j \in Nat
      BY <1>0, <2>1 DEF Bf!Block, BfIndex
    <2>3. BfTable(A, W, f, R)
      BY <1>7, <2>2 DEF BfTable
    <2>4. /\ BfCell(A, W, f, R, i) /\ BfCell(A, W, f, R, j)
          /\ BfName(A, W, f, R, i) = W[R][i] /\ BfName(A, W, f, R, j) = W[R][j]
      BY <2>2, <2>3 DEF BfCell, BfName
    <2>. QED  BY <1>0, <2>1, <2>2, <2>4 DEF BfOnce
  <1>11. CASE b = 0
    <2>1. q[3] = NINDIRECT /\ r[3] = NINDIRECT
      BY <1>1, <1>2, <1>5, <1>6, <1>11
    <2>2. q[2] = r[2] /\ q[4] = r[4]
      BY <1>3, <1>4, <1>5, <2>1 DEF BfAtEntry
    <2>. QED  BY <1>3, <1>4, <1>5, <2>1, <2>2
  <1>12. CASE b # 0
    <2>1. q[3] # NINDIRECT /\ r[3] # NINDIRECT
      BY <1>1, <1>2, <1>5, <1>6, <1>12
    <2>2. /\ q[4] = NINDIRECT => b = A[f][q[2]] /\ BfAtEntry(q) = q[3]
          /\ q[4] # NINDIRECT => b = BfWd(W, R, q[3]) /\ BfAtEntry(q) = q[4]
      BY <1>3, <1>6, <1>7, <2>1 DEF BfAtTable, BfAtEntry
    <2>3. /\ r[4] = NINDIRECT => b = A[f][r[2]] /\ BfAtEntry(r) = r[3]
          /\ r[4] # NINDIRECT => b = BfWd(W, R, r[3]) /\ BfAtEntry(r) = r[4]
      BY <1>4, <1>5, <1>6, <1>7, <2>1 DEF BfAtTable, BfAtEntry
    <2>4. q[4] = NINDIRECT <=> r[4] = NINDIRECT
      BY <1>3, <1>4, <1>9, <1>12, <2>1, <2>2, <2>3
    <2>5. q[2] = r[2]
      <3>1. CASE q[4] = NINDIRECT
        BY <1>3, <1>4, <1>8, <1>12, <2>2, <2>3, <2>4, <3>1
      <3>2. CASE q[4] # NINDIRECT
        BY <1>3, <1>4, <2>4, <3>2
      <3>. QED  BY <3>1, <3>2
    <2>6. q[3] = r[3] /\ q[4] = r[4]
      <3>1. CASE q[4] = NINDIRECT
        BY <1>5, <2>2, <2>3, <2>4, <3>1
      <3>2. CASE q[4] # NINDIRECT
        BY <1>3, <1>4, <1>5, <1>10, <1>12, <2>2, <2>3, <2>4, <3>2
      <3>. QED  BY <3>1, <3>2
    <2>. QED  BY <1>3, <1>4, <1>5, <2>5, <2>6
  <1>. QED  BY <1>11, <1>12

LEMMA BfGoodClean ==
    ASSUME BfSizes, NEW A, NEW W, NEW u, BfGood(A, W, u)
    PROVE  BfClean(A, W, u)
  <1>1. \A q \in BfPaths(A, W) : BfAt(A, W, q) \in Bf!Block /\ BfAt(A, W, q) \in u
    BY BfPathCell DEF BfPaths
  <1>2. \A q, r \in BfPaths(A, W) : BfAt(A, W, q) = BfAt(A, W, r) => q = r
    BY BfPathOnce DEF BfPaths
  <1>3. ASSUME NEW x \in u PROVE \E q \in BfPaths(A, W) : BfAt(A, W, q) = x
    <2>1. BfUsedNamed(A, W, u) /\ u \subseteq Bf!Block
      BY DEF BfGood, BfTypes
    <2>2. PICK f \in BigFiles, b \in 0..NBlocks, i \in Nat : BfCell(A, W, f, b, i) /\ BfName(A, W, f, b, i) = x
      BY <2>1 DEF BfUsedNamed
    <2>3. PICK q \in BfQ : BfAt(A, W, q) = x
      BY <2>2, BfCellPath
    <2>4. x # 0
      BY <2>1 DEF Bf!Block
    <2>. QED  BY <2>3, <2>4 DEF BfPaths
  <1>. QED  BY <1>1, <1>2, <1>3 DEF BfClean

(* One place holds v instead. *)
BfMod(A, W, f0, b0, i0, v, A2, W2) ==
    /\ \A f \in BigFiles, k1 \in 0..(NDIRECT + 1) :
         A2[f][k1] = IF b0 = 0 /\ f = f0 /\ k1 = i0 THEN v ELSE A[f][k1]
    /\ \A b \in Bf!Block, j \in BfIndex :
         W2[b][j] = IF b0 # 0 /\ b = b0 /\ j = i0 THEN v ELSE W[b][j]

(* A name that is gone is missed: nothing else in a block that is in use   *)
(* looks like it.                                                          *)
LEMMA BfModLost ==
    ASSUME BfSizes, NEW A, NEW W, NEW u, BfGood(A, W, u),
           NEW f0 \in BigFiles, NEW b0 \in 0..NBlocks, NEW i0 \in Nat, BfCell(A, W, f0, b0, i0),
           NEW v, v # BfName(A, W, f0, b0, i0), BfName(A, W, f0, b0, i0) # 0,
           NEW A2, NEW W2, BfMod(A, W, f0, b0, i0, v, A2, W2)
    PROVE  ~BfClean(A2, W2, u)
  <1>. SUFFICES ASSUME BfClean(A2, W2, u) PROVE FALSE
    OBVIOUS
  <1>0. /\ NDIRECT \in Nat /\ NINDIRECT \in Nat \ {0} /\ NBlocks \in Nat /\ 0 \in 0..NBlocks
        /\ BfOnce(A, W) /\ BfTypes(A, W, u) /\ BfNamesUsed(A, W, u) /\ BfData(A, W, u)
        /\ \A i \in BfIndex : i # NINDIRECT /\ i \in Nat
    BY DEF BfSizes, BfGood, BfIndex
  <1>1. PICK x \in u : x = BfName(A, W, f0, b0, i0) /\ x # 0 /\ x # v /\ x \in Bf!Block
    BY <1>0 DEF BfNamesUsed, BfTypes
  <1>2. PICK q \in BfQ : BfAt(A2, W2, q) = x
    BY DEF BfClean, BfPaths
  <1>3. /\ q[1] \in BigFiles /\ q[2] \in 0..(NDIRECT + 1)
        /\ \/ q[3] = NINDIRECT /\ q[4] = NINDIRECT
           \/ q[3] # NINDIRECT /\ q[4] = NINDIRECT /\ q[3] \in BfIndex /\ q[2] \in {NDIRECT, NDIRECT + 1}
           \/ /\ q[3] # NINDIRECT /\ q[4] # NINDIRECT /\ q[3] \in BfIndex /\ q[4] \in BfIndex
              /\ q[2] = NDIRECT + 1
    BY BfQIs
  <1>4. PICK f \in BigFiles, k1 \in 0..(NDIRECT + 1) : f = q[1] /\ k1 = q[2]
    BY <1>3
  <1>5. CASE q[3] = NINDIRECT
    <2>1. A2[f][k1] = x
      BY <1>2, <1>4, <1>5 DEF BfAt
    <2>2. ~(b0 = 0 /\ f = f0 /\ k1 = i0) /\ A[f][k1] = x
      BY <1>1, <2>1 DEF BfMod
    <2>3. BfCell(A, W, f, 0, k1) /\ BfName(A, W, f, 0, k1) = x /\ k1 \in Nat
      BY <1>0, <2>2 DEF BfCell, BfName
    <2>4. f = f0 /\ 0 = b0 /\ k1 = i0
      BY <1>0, <1>1, <2>3 DEF BfOnce
    <2>. QED  BY <2>2, <2>4
  (* A place of a block that the damaged disk takes for one of addresses. *)
  <1>6. ASSUME NEW b \in Bf!Block, NEW e \in BfIndex, W2[b][e] = x,
               NEW r \in BfQ, BfAt(A2, W2, r) = b
        PROVE  FALSE
    <2>1. ~(b0 # 0 /\ b = b0 /\ e = i0) /\ W[b][e] = x
      BY <1>1, <1>6 DEF BfMod
    <2>2. b # 0 /\ b \in 0..NBlocks
      BY <1>0 DEF Bf!Block
    <2>3. b \in u
      BY <1>6, <2>2 DEF BfClean, BfPaths
    <2>4. CASE \E g \in BigFiles : BfTable(A, W, g, b)
      <3>1. PICK g \in BigFiles : BfTable(A, W, g, b)
        BY <2>4
      <3>2. BfCell(A, W, g, b, e) /\ BfName(A, W, g, b, e) = x /\ e \in Nat
        BY <1>0, <2>1, <2>2, <3>1 DEF BfCell, BfName
      <3>3. b = b0 /\ e = i0
        BY <1>0, <1>1, <2>2, <3>2 DEF BfOnce
      <3>. QED  BY <2>1, <2>2, <3>3
    <2>5. CASE \A g \in BigFiles : ~BfTable(A, W, g, b)
      <3>1. x = 0 \/ x > NBlocks
        BY <1>0, <2>1, <2>3, <2>5 DEF BfData
      <3>2. x \in 1..NBlocks
        BY <1>1 DEF Bf!Block
      <3>. QED  BY <1>0, <1>1, <3>1, <3>2
    <2>. QED  BY <2>4, <2>5
  <1>7. CASE q[3] # NINDIRECT /\ q[4] = NINDIRECT
    <2>0. PICK i \in BfIndex : i = q[3]
      BY <1>3, <1>7
    <2>1. BfWd(W2, A2[f][k1], i) = x
      BY <1>2, <1>4, <1>7, <2>0 DEF BfAt
    <2>2. A2[f][k1] \in Bf!Block /\ W2[A2[f][k1]][i] = x
      BY <1>1, <2>1 DEF BfWd
    <2>3. PICK r : r = <<f, k1, NINDIRECT, NINDIRECT>>
      OBVIOUS
    <2>4. r \in BfQ
      BY <2>3, BfQOf
    <2>5. BfAt(A2, W2, r) = A2[f][k1]
      BY <2>3 DEF BfAt
    <2>. QED  BY <1>6, <2>2, <2>4, <2>5
  <1>8. CASE q[3] # NINDIRECT /\ q[4] # NINDIRECT
    <2>0. PICK i \in BfIndex, j \in BfIndex : i = q[3] /\ j = q[4] /\ k1 = NDIRECT + 1
      BY <1>3, <1>4, <1>8
    <2>1. PICK b : b = BfWd(W2, A2[f][k1], i)
      OBVIOUS
    <2>2. BfWd(W2, b, j) = x
      BY <1>2, <1>4, <1>8, <2>0, <2>1 DEF BfAt
    <2>3. b \in Bf!Block /\ W2[b][j] = x
      BY <1>1, <2>2 DEF BfWd
    <2>4. PICK r : r = <<f, k1, i, NINDIRECT>>
      OBVIOUS
    <2>5. r \in BfQ
      <3>1. k1 \in {NDIRECT, NDIRECT + 1}
        BY <2>0
      <3>. QED  BY <2>4, <3>1, BfQOf
    <2>6. BfAt(A2, W2, r) = b
      BY <1>0, <2>1, <2>4 DEF BfAt
    <2>. QED  BY <1>6, <2>3, <2>5, <2>6
  <1>. QED  BY <1>3, <1>5, <1>7, <1>8

(* A name that is new is claimed, and is claimed elsewhere or was free.    *)
LEMMA BfModNew ==
    ASSUME BfSizes, NEW A, NEW W, NEW u, BfGood(A, W, u),
           NEW f0 \in BigFiles, NEW b0 \in 0..NBlocks, NEW i0 \in Nat, BfCell(A, W, f0, b0, i0),
           NEW v, v # 0, BfName(A, W, f0, b0, i0) = 0,
           NEW A2, NEW W2, BfMod(A, W, f0, b0, i0, v, A2, W2)
    PROVE  ~BfClean(A2, W2, u)
  <1>. SUFFICES ASSUME BfClean(A2, W2, u) PROVE FALSE
    OBVIOUS
  <1>0. /\ NDIRECT \in Nat /\ NINDIRECT \in Nat \ {0} /\ NBlocks \in Nat /\ 0 \in 0..NBlocks
        /\ BfTypes(A, W, u) /\ 0 \notin Bf!Block
        /\ \A i \in BfIndex : i # NINDIRECT /\ i \in Nat
    BY DEF BfSizes, BfGood, BfIndex, Bf!Block
  <1>1. \A f \in BigFiles, k1 \in 0..(NDIRECT + 1) : A[f][k1] # 0 => A2[f][k1] = A[f][k1]
    BY DEF BfMod, BfName
  <1>2. \A b \in Bf!Block, j \in BfIndex : W[b][j] # 0 => W2[b][j] = W[b][j]
    BY DEF BfMod, BfName
  <1>3. ASSUME NEW a, NEW j \in BfIndex, BfWd(W, a, j) # 0
        PROVE  a \in Bf!Block /\ a # 0 /\ BfWd(W2, a, j) = BfWd(W, a, j)
    BY <1>0, <1>2, <1>3 DEF BfWd
  <1>4. ASSUME NEW q \in BfQ, BfAt(A, W, q) # 0 PROVE BfAt(A2, W2, q) = BfAt(A, W, q)
    <2>1. /\ q[1] \in BigFiles /\ q[2] \in 0..(NDIRECT + 1)
          /\ \/ q[3] = NINDIRECT /\ q[4] = NINDIRECT
             \/ q[3] # NINDIRECT /\ q[4] = NINDIRECT /\ q[3] \in BfIndex /\ q[2] \in {NDIRECT, NDIRECT + 1}
             \/ /\ q[3] # NINDIRECT /\ q[4] # NINDIRECT /\ q[3] \in BfIndex /\ q[4] \in BfIndex
                /\ q[2] = NDIRECT + 1
      BY BfQIs
    <2>2. PICK a : a = A[q[1]][q[2]]
      OBVIOUS
    <2>3. a # 0 => A2[q[1]][q[2]] = a
      BY <1>1, <2>1, <2>2
    <2>4. CASE q[3] = NINDIRECT
      BY <1>4, <2>2, <2>3, <2>4 DEF BfAt
    <2>5. CASE q[3] # NINDIRECT /\ q[4] = NINDIRECT
      <3>1. BfAt(A, W, q) = BfWd(W, a, q[3])
        BY <2>2, <2>5 DEF BfAt
      <3>2. a # 0 /\ BfWd(W2, a, q[3]) = BfWd(W, a, q[3])
        BY <1>3, <1>4, <2>1, <2>5, <3>1
      <3>. QED  BY <2>3, <2>5, <3>1, <3>2 DEF BfAt
    <2>6. CASE q[3] # NINDIRECT /\ q[4] # NINDIRECT
      <3>0. PICK i \in BfIndex, j \in BfIndex : i = q[3] /\ j = q[4]
        BY <2>1, <2>6
      <3>1. PICK b : b = BfWd(W, a, i)
        OBVIOUS
      <3>2. BfAt(A, W, q) = BfWd(W, b, j)
        BY <2>2, <2>6, <3>0, <3>1 DEF BfAt
      <3>3. b # 0 /\ BfWd(W2, b, j) = BfWd(W, b, j)
        BY <1>3, <1>4, <3>2
      <3>4. a # 0 /\ BfWd(W2, a, i) = b
        BY <1>3, <3>1, <3>3
      <3>. QED  BY <2>3, <2>6, <3>0, <3>2, <3>3, <3>4 DEF BfAt
    <2>. QED  BY <2>4, <2>5, <2>6
  <1>5. PICK q \in BfQ : /\ q[1] = f0 /\ BfAtTable(A, W, q) = b0 /\ BfAtEntry(q) = i0
                         /\ BfAt(A, W, q) = 0
                         /\ b0 # 0 => A[f0][q[2]] # 0 /\ q[3] # NINDIRECT
                         /\ b0 = 0 => q[3] = NINDIRECT
    BY BfCellPath
  <1>6. BfAt(A2, W2, q) = v
    <2>1. /\ q[1] \in BigFiles /\ q[2] \in 0..(NDIRECT + 1)
          /\ \/ q[3] = NINDIRECT /\ q[4] = NINDIRECT
             \/ q[3] # NINDIRECT /\ q[4] = NINDIRECT /\ q[3] \in BfIndex /\ q[2] \in {NDIRECT, NDIRECT + 1}
             \/ /\ q[3] # NINDIRECT /\ q[4] # NINDIRECT /\ q[3] \in BfIndex /\ q[4] \in BfIndex
                /\ q[2] = NDIRECT + 1
      BY BfQIs
    <2>2. CASE b0 = 0
      <3>1. q[3] = NINDIRECT /\ q[2] = i0
        BY <1>5, <2>2 DEF BfAtEntry
      <3>2. A2[f0][q[2]] = v
        BY <2>1, <2>2, <3>1 DEF BfMod
      <3>. QED  BY <1>5, <3>1, <3>2 DEF BfAt
    <2>3. CASE b0 # 0
      <3>1. b0 \in Bf!Block
        BY <2>3, <1>0 DEF Bf!Block
      <3>2. PICK a : a = A[f0][q[2]]
        OBVIOUS
      <3>3. a # 0 /\ A2[f0][q[2]] = a
        BY <1>1, <1>5, <2>1, <2>3, <3>2
      <3>4. CASE q[4] = NINDIRECT
        <4>1. b0 = a /\ i0 = q[3] /\ q[3] \in BfIndex
          BY <1>5, <2>1, <2>3, <3>2, <3>4 DEF BfAtTable, BfAtEntry
        <4>2. W2[b0][i0] = v
          BY <2>3, <3>1, <4>1 DEF BfMod
        <4>. QED  BY <1>5, <2>3, <3>1, <3>3, <3>4, <4>1, <4>2 DEF BfAt, BfWd
      <3>5. CASE q[4] # NINDIRECT
        <4>1. b0 = BfWd(W, a, q[3]) /\ i0 = q[4] /\ q[3] \in BfIndex /\ q[4] \in BfIndex
          BY <1>5, <2>1, <2>3, <3>2, <3>5 DEF BfAtTable, BfAtEntry
        <4>2. BfWd(W2, a, q[3]) = b0
          BY <1>3, <2>3, <4>1
        <4>3. W2[b0][i0] = v
          BY <2>3, <3>1, <4>1 DEF BfMod
        <4>4. BfWd(W2, b0, q[4]) = v
          BY <3>1, <4>1, <4>3 DEF BfWd
        <4>. QED  BY <1>5, <2>3, <3>3, <3>5, <4>2, <4>4 DEF BfAt
      <3>. QED  BY <3>4, <3>5
    <2>. QED  BY <2>2, <2>3
  <1>7. v \in u
    BY <1>6 DEF BfClean, BfPaths
  <1>8. PICK r \in BfQ : BfAt(A, W, r) = v
    <2>1. BfClean(A, W, u)
      BY BfGoodClean
    <2>. QED  BY <1>7, <2>1 DEF BfClean, BfPaths
  <1>9. BfAt(A2, W2, r) = v
    BY <1>4, <1>8
  <1>10. q = r
    BY <1>6, <1>9 DEF BfClean, BfPaths
  <1>. QED  BY <1>5, <1>8, <1>10

LEMMA BfModFound ==
    ASSUME BfSizes, NEW A, NEW W, NEW u, BfGood(A, W, u),
           NEW f0 \in BigFiles, NEW b0 \in 0..NBlocks, NEW i0 \in Nat, BfCell(A, W, f0, b0, i0),
           NEW v, v # BfName(A, W, f0, b0, i0),
           NEW A2, NEW W2, BfMod(A, W, f0, b0, i0, v, A2, W2)
    PROVE  ~BfClean(A2, W2, u)
  <1>1. CASE BfName(A, W, f0, b0, i0) # 0
    BY <1>1, BfModLost
  <1>2. CASE BfName(A, W, f0, b0, i0) = 0
    <2>1. v # 0
      BY <1>2
    <2>. QED  BY <1>2, <2>1, BfModNew
  <1>. QED  BY <1>1, <1>2

(* What is not a block of addresses is not looked at. *)
LEMMA BfDataUnread ==
    ASSUME BfSizes, NEW A, NEW W, NEW u, BfGood(A, W, u), NEW W2,
           \A f \in BigFiles : \A b : BfTable(A, W, f, b) => W2[b] = W[b]
    PROVE  BfClean(A, W2, u)
  <1>0. NDIRECT \in Nat /\ BfTypes(A, W, u) /\ 0 \notin Bf!Block
    BY DEF BfSizes, BfGood, Bf!Block
  <1>1. ASSUME NEW q \in BfQ PROVE BfAt(A, W2, q) = BfAt(A, W, q)
    <2>1. /\ q[1] \in BigFiles /\ q[2] \in 0..(NDIRECT + 1)
          /\ \/ q[3] = NINDIRECT /\ q[4] = NINDIRECT
             \/ q[3] # NINDIRECT /\ q[4] = NINDIRECT /\ q[3] \in BfIndex /\ q[2] \in {NDIRECT, NDIRECT + 1}
             \/ /\ q[3] # NINDIRECT /\ q[4] # NINDIRECT /\ q[3] \in BfIndex /\ q[4] \in BfIndex
                /\ q[2] = NDIRECT + 1
      BY BfQIs
    <2>2. PICK f, k1, a : f = q[1] /\ k1 = q[2] /\ a = A[f][k1] /\ f \in BigFiles
      BY <2>1
    <2>3. CASE q[3] = NINDIRECT
      BY <2>3 DEF BfAt
    <2>4. CASE q[3] # NINDIRECT
      <3>1. a \in Bf!Block => BfTable(A, W, f, a)
        BY <1>0, <2>1, <2>2, <2>4 DEF BfTable
      <3>2. PICK b : b = BfWd(W, a, q[3])
        OBVIOUS
      <3>3. BfWd(W2, a, q[3]) = b
        BY <2>2, <3>1, <3>2 DEF BfWd
      <3>4. CASE q[4] = NINDIRECT
        BY <2>2, <2>4, <3>2, <3>3, <3>4 DEF BfAt
      <3>5. CASE q[4] # NINDIRECT
        <4>1. b \in Bf!Block => BfTable(A, W, f, b)
          BY <1>0, <2>1, <2>2, <3>2, <3>5 DEF BfTable, BfWd
        <4>2. BfWd(W2, b, q[4]) = BfWd(W, b, q[4])
          BY <2>2, <4>1 DEF BfWd
        <4>. QED  BY <2>2, <2>4, <3>2, <3>3, <3>5, <4>2 DEF BfAt
      <3>. QED  BY <3>4, <3>5
    <2>. QED  BY <2>3, <2>4
  <1>2. BfPaths(A, W2) = BfPaths(A, W)
    BY <1>1 DEF BfPaths
  <1>3. \A q \in BfPaths(A, W) : BfAt(A, W2, q) = BfAt(A, W, q)
    BY <1>1 DEF BfPaths
  <1>. QED  BY <1>2, <1>3, BfGoodClean DEF BfClean

LEMMA BfImage ==
    Bf!Image.addrs = addrs /\ Bf!Image.words = words /\ Bf!Image.used = used
  BY DEF Bf!Image

LEMMA BfBitFound ==
    ASSUME BfSizes, BfGood(addrs, words, used), NEW b \in Bf!Block, NEW d,
           d = [Bf!Image EXCEPT !.used = (@ \ {b}) \cup ({b} \ @)]
    PROVE  ~Bf!Clean(d)
  <1>1. d.addrs = addrs /\ d.words = words /\ d.used = (used \ {b}) \cup ({b} \ used)
    BY DEF Bf!Image
  <1>2. d.used # used
    BY <1>1
  <1>3. BfClean(addrs, words, used)
    BY BfGoodClean
  <1>4. ~BfClean(addrs, words, d.used)
    <2>1. SUFFICES ASSUME BfClean(addrs, words, d.used) PROVE d.used = used
      BY <1>2
    <2>. QED  BY <1>3, <2>1 DEF BfClean
  <1>. QED  BY <1>1, <1>4, BfCleanIs

LEMMA BfSlotFound ==
    ASSUME BfSizes, BfGood(addrs, words, used), NEW f \in BigFiles, NEW k1 \in 0..(NDIRECT + 1), NEW v, NEW d,
           d = [Bf!Image EXCEPT !.addrs[f][k1] = v], d # Bf!Image
    PROVE  ~Bf!Clean(d)
  <1>0. /\ BfTypes(addrs, words, used) /\ NDIRECT \in Nat /\ 0 \in 0..NBlocks /\ k1 \in Nat
    BY DEF BfSizes, BfGood
  <1>1. PICK A2 : A2 = [addrs EXCEPT ![f][k1] = v]
    OBVIOUS
  <1>2. d.addrs = A2 /\ d.words = words /\ d.used = used
    BY <1>1 DEF Bf!Image
  <1>3. v # addrs[f][k1]
    <2>1. SUFFICES ASSUME v = addrs[f][k1] PROVE d = Bf!Image
      OBVIOUS
    <2>2. A2 = addrs
      BY <1>0, <1>1, <2>1 DEF BfTypes
    <2>. QED  BY <1>1, <2>2 DEF Bf!Image
  <1>4. BfCell(addrs, words, f, 0, k1) /\ BfName(addrs, words, f, 0, k1) = addrs[f][k1]
    BY DEF BfCell, BfName
  <1>5. BfMod(addrs, words, f, 0, k1, v, A2, words)
    BY <1>0, <1>1 DEF BfMod, BfTypes
  <1>6. ~BfClean(A2, words, used)
    BY <1>0, <1>3, <1>4, <1>5, BfModFound
  <1>. QED  BY <1>2, <1>6, BfCleanIs

LEMMA BfWordFound ==
    ASSUME BfSizes, BfGood(addrs, words, used), NEW b \in Bf!AddressBlocks, NEW j \in 0..(NINDIRECT - 1), NEW v, NEW d,
           d = [Bf!Image EXCEPT !.words[b][j] = v], d # Bf!Image
    PROVE  ~Bf!Clean(d)
  <1>0. /\ BfTypes(addrs, words, used) /\ NINDIRECT \in Nat /\ NBlocks \in Nat /\ j \in Nat /\ j \in BfIndex
    BY DEF BfSizes, BfGood, BfIndex
  <1>a. PICK f \in BigFiles : BfTable(addrs, words, f, b)
    <2>1. PICK f \in BigFiles : b \in (Bf!Singles(f) \cup {addrs[f][NDIRECT + 1]}) \ {0}
      BY DEF Bf!AddressBlocks
    <2>. QED  BY <2>1, BfTablesAre
  <1>b. b \in Bf!Block /\ b # 0 /\ b \in 0..NBlocks
    <2>1. b \in Bf!Block
      BY <1>a, BfTableNamed
    <2>. QED  BY <1>0, <2>1 DEF Bf!Block
  <1>1. PICK W2 : W2 = [words EXCEPT ![b][j] = v]
    OBVIOUS
  <1>2. d.addrs = addrs /\ d.words = W2 /\ d.used = used
    BY <1>1 DEF Bf!Image
  <1>3. v # words[b][j]
    <2>1. SUFFICES ASSUME v = words[b][j] PROVE d = Bf!Image
      OBVIOUS
    <2>2. W2 = words
      BY <1>0, <1>1, <1>b, <2>1 DEF BfTypes
    <2>. QED  BY <1>1, <2>2 DEF Bf!Image
  <1>4. BfCell(addrs, words, f, b, j) /\ BfName(addrs, words, f, b, j) = words[b][j]
    BY <1>0, <1>a, <1>b DEF BfCell, BfName
  <1>5. BfMod(addrs, words, f, b, j, v, addrs, W2)
    BY <1>0, <1>1, <1>b DEF BfMod, BfTypes
  <1>6. ~BfClean(addrs, W2, used)
    BY <1>0, <1>b, <1>3, <1>4, <1>5, BfModFound
  <1>. QED  BY <1>2, <1>6, BfCleanIs

LEMMA BfChecked == ASSUME BfSizes, BfIInv PROVE Bf!CheckerExact
  <1>0. BfGood(addrs, words, used)
    BY DEF BfIInv
  <1>1. Bf!Clean(Bf!Image)
    <2>1. BfClean(addrs, words, used)
      BY <1>0, BfGoodClean
    <2>. QED  BY <2>1, BfImage, BfCleanIs
  <1>2. ASSUME NEW d \in Bf!Damaged, d # Bf!Image PROVE ~Bf!Clean(d)
    <2>1. ASSUME NEW b \in Bf!Block, d = [Bf!Image EXCEPT !.used = (@ \ {b}) \cup ({b} \ @)] PROVE ~Bf!Clean(d)
      BY <1>0, <2>1, BfBitFound
    <2>2. ASSUME NEW f \in BigFiles, NEW k1 \in 0..(NDIRECT + 1), NEW v \in Bf!SomeBlocks,
                 d = [Bf!Image EXCEPT !.addrs[f][k1] = v]
          PROVE  ~Bf!Clean(d)
      BY <1>0, <1>2, <2>2, BfSlotFound
    <2>3. ASSUME NEW b \in Bf!AddressBlocks, NEW j \in 0..(NINDIRECT - 1), NEW v \in Bf!SomeBlocks,
                 d = [Bf!Image EXCEPT !.words[b][j] = v]
          PROVE  ~Bf!Clean(d)
      BY <1>0, <1>2, <2>3, BfWordFound
    <2>. QED  BY <2>1, <2>2, <2>3 DEF Bf!Damaged
  <1>3. ASSUME NEW d \in Bf!Altered PROVE Bf!Clean(d)
    <2>1. PICK b \in used \ Bf!AddressBlocks : d = [Bf!Image EXCEPT !.words[b] = Bf!Left]
      BY DEF Bf!Altered
    <2>2. PICK W2 : W2 = [words EXCEPT ![b] = Bf!Left]
      OBVIOUS
    <2>3. d.addrs = addrs /\ d.words = W2 /\ d.used = used
      BY <2>1, <2>2 DEF Bf!Image
    <2>4. ASSUME NEW f \in BigFiles, NEW c, BfTable(addrs, words, f, c) PROVE W2[c] = words[c]
      <3>1. c \in (Bf!Singles(f) \cup {addrs[f][NDIRECT + 1]}) \ {0}
        BY <1>0, <2>4, BfTablesAre
      <3>2. c \in Bf!AddressBlocks
        BY <3>1 DEF Bf!AddressBlocks
      <3>3. c \in Bf!Block
        BY <1>0, <2>4, BfTableNamed
      <3>. QED  BY <1>0, <2>2, <3>2, <3>3 DEF BfGood, BfTypes
    <2>5. BfClean(addrs, W2, used)
      BY <1>0, <2>4, BfDataUnread
    <2>. QED  BY <2>3, <2>5, BfCleanIs
  <1>. QED  BY <1>1, <1>2, <1>3 DEF Bf!CheckerExact

-----------------------------------------------------------------------------
(* With the other components. *)

(* proc.c, kexit, kwait and reparent: every zombie has a parent that can   *)
(* reap it and that does not sleep on, for any size of the table.          *)
THEOREM ZombiesReaped == SafetySpec => []ZombiesAreSeen
BY SafetyImplements, PrZombiesReaped, SizesAssumption, PTL DEF ZombiesAreSeen

(* fs.c and sysfile.c: an inode that a name or an open file leads to is    *)
(* not freed, and its counts are right, over crashes, for any processes,   *)
(* names and inodes.                                                       *)
THEOREM InodesLiveOn == SafetySpec => []InodesKept
<1>1. InSizes  BY SizesAssumption DEF InSizes
<1>2. In!InodesKept => InodesKept  BY DEF InodesKept
<1> QED  BY <1>1, <1>2, SafetyImplements, InInodesKept, PTL

(* spinlock.c, proc.c, trap.c and uart.c: none of the panics of push_off,  *)
(* pop_off, acquire, release and sched is reached, no stack is on two      *)
(* harts, interrupts are as each place needs them, a writer asleep is      *)
(* still to be woken, and some hart always goes on, for any number of      *)
(* harts and threads.                                                      *)
THEOREM SwitchesKept == SafetySpec => []Switching
<1>1. SmSizes  BY SizesAssumption DEF SmSizes
<1>2. Sm!Switching => Switching  BY DEF Switching
<1> QED  BY <1>1, <1>2, SafetyImplements, SmSwitching, PTL

(* pipe.c: through the wrap of its counters, concurrent readers and        *)
(* writers, kills and closes, a pipe is a bounded queue, and who sleeps on *)
(* it has a reason to, for any processes and sizes.                        *)
THEOREM PipeIsQueue == SafetySpec => PipeWorks
<1>1. PpSizes  BY SizesAssumption DEF PpSizes
<1> QED  BY <1>1, SafetyImplements, PpPipeWorks DEF PipeWorks

(* log.c: the system calls of a group reach the disk all at once or not at *)
(* all, whenever the machine stops, none of them half way; log_write       *)
(* refuses no block that its operation may still log, so that its panic,   *)
(* tested before absorption, is left to a log that operations which have   *)
(* all used up their blocks have filled; and who sleeps in begin_op has    *)
(* to, for any processes, blocks and sizes.                                *)
THEOREM LogIsAtomic == SafetySpec => LogWorks
<1>1. LgSizes  BY SizesAssumption DEF LgSizes
<1> QED  BY <1>1, SafetyImplements, LgLogWorks DEF LogWorks

(* console.c: whatever is typed and taken back, and through the wrap of    *)
(* its indices, the readers get the lines in order and nothing else, and   *)
(* none sleeps while there is one, for any buffer, keys and processes.     *)
THEOREM ConsoleInOrder == SafetySpec => ConsoleWorks
<1>1. CoSizes  BY SizesAssumption DEF CoSizes
<1> QED  BY <1>1, SafetyImplements, CoConsoleWorks DEF ConsoleWorks

(* fs.c and xfsck.c: whatever is written and truncated and wherever the    *)
(* disk runs full, the bitmap marks the blocks that files name, each named *)
(* once, and a file reads back what was written; the checker has no        *)
(* complaint about such a disk, finds any one bit or address that is       *)
(* another, and does not look at data, for any files, blocks and numbers   *)
(* of addresses.                                                           *)
THEOREM FilesStayIntact == SafetySpec => []FilesIntact
<1>1. BfSizes  BY SizesAssumption DEF BfSizes
<1>2. Bf!Init => BfIInv  BY <1>1, BfInit
<1>3. BfIInv /\ [Bf!Next]_Bf!vars => BfIInv'  BY <1>1, BfStep
<1>4. BfIInv => FilesIntact  BY <1>1, BfIntact, BfChecked DEF FilesIntact
<1> QED  BY <1>2, <1>3, <1>4, SafetyImplements, PTL DEF Bf!Spec
=============================================================================

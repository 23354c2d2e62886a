--------------------------------- MODULE Smp ----------------------------------
(***************************************************************************)
(* What the other modules of the xv6 kernel take for granted: spin locks   *)
(* with interrupts off (spinlock.c), sleep, wakeup, yield and the switch   *)
(* to and from the scheduler of each CPU (proc.c), traps (trap.c).  The    *)
(* code that uses them here is that of the serial line (uart.c): uartwrite *)
(* sleeps until uartintr says that the line is idle.                       *)
(*                                                                         *)
(* A lock is the CPU that holds it, or 0.  A spin is a step that waits.    *)
(* Releasing a lock and the pop_off after it are one step: interrupts are  *)
(* still off in between.  The line, the timer and the interrupt controller *)
(* are external.  The controller gives a request to one CPU and holds back *)
(* the next until plic_complete.                                           *)
(***************************************************************************)
EXTENDS Integers

CONSTANTS NCPU, NPROC

VARIABLES
    intr,           \* sstatus.SIE of each CPU
    noff, intena,   \* struct cpu
    running,        \* the process on each CPU, 0 for its scheduler
    at, k,          \* where that scheduler is, and its p
    irq, i,         \* where uartintr is on each CPU, and wakeup's p
    state,          \* p->state
    sleeping,       \* p->chan = &tx_chan
    p_lock,         \* p->lock
    pc,             \* where each process is
    below,          \* where it was when the timer interrupted it
    saved,          \* intena of its sched()
    tx_lock, tx_busy,
    sending,        \* the line is not idle
    pending         \* it asks for an interrupt

cpuVars == <<intr, noff, intena>>
schedVars == <<running, at, k>>
irqVars == <<irq, i>>
procVars == <<state, sleeping, p_lock>>
threadVars == <<pc, below, saved>>
uartVars == <<tx_lock, tx_busy, sending, pending>>
vars == <<cpuVars, schedVars, irqVars, procVars, threadVars, uartVars>>

CPUs == 1..NCPU
Procs == 1..NPROC

Init ==
    /\ intr = [c \in CPUs |-> FALSE] /\ noff = [c \in CPUs |-> 0] /\ intena = [c \in CPUs |-> FALSE]
    /\ running = [c \in CPUs |-> 0] /\ at = [c \in CPUs |-> "top"] /\ k = [c \in CPUs |-> 1]
    /\ irq = [c \in CPUs |-> "none"] /\ i = [c \in CPUs |-> 1]
    /\ state = [p \in Procs |-> "RUNNABLE"] /\ sleeping = [p \in Procs |-> FALSE]
    /\ p_lock = [p \in Procs |-> 0]
    /\ pc = [p \in Procs |-> "forkret"] /\ below = [p \in Procs |-> "none"]
    /\ saved = [p \in Procs |-> FALSE]
    /\ tx_lock = 0 /\ tx_busy = FALSE /\ sending = FALSE /\ pending = FALSE

-----------------------------------------------------------------------------
(* spinlock.c on CPU c.                                                    *)

push_off(c) ==
    /\ intr' = [intr EXCEPT ![c] = FALSE]
    /\ intena' = [intena EXCEPT ![c] = IF noff[c] = 0 THEN intr[c] ELSE @]
    /\ noff' = [noff EXCEPT ![c] = @ + 1]

(* pop_off with old for c->intena. *)
pop_off(c, old) ==
    /\ noff' = [noff EXCEPT ![c] = @ - 1]
    /\ intr' = [intr EXCEPT ![c] = @ \/ (noff[c] = 1 /\ old)]
    /\ intena' = [intena EXCEPT ![c] = old]

-----------------------------------------------------------------------------
(* A process on CPU c.                                                     *)

Goto(p, l) == pc' = [pc EXCEPT ![p] = l] /\ UNCHANGED <<below, saved>>
On(c, p, l) == running[c] = p /\ irq[c] = "none" /\ pc[p] = l

(* forkret releases the lock the scheduler took. *)
Forkret(c, p) ==
    /\ On(c, p, "forkret")
    /\ p_lock' = [p_lock EXCEPT ![p] = 0] /\ pop_off(c, intena[c])
    /\ Goto(p, "prepare")
    /\ UNCHANGED <<schedVars, irqVars, state, sleeping, uartVars>>

(* prepare_return: interrupts are off until user mode. *)
ToUser(c, p) ==
    /\ On(c, p, "prepare")
    /\ intr' = [intr EXCEPT ![c] = TRUE]
    /\ Goto(p, "call")
    /\ UNCHANGED <<noff, intena, schedVars, irqVars, procVars, uartVars>>

(* uartwrite, or sleep at its end: acquire(&tx_lock). *)
PushOff(c, p) ==
    /\ On(c, p, "call")
    /\ push_off(c)
    /\ Goto(p, "lock")
    /\ UNCHANGED <<schedVars, irqVars, procVars, uartVars>>

Lock(c, p) ==
    /\ On(c, p, "lock") /\ tx_lock = 0
    /\ tx_lock' = c
    /\ Goto(p, "held")
    /\ UNCHANGED <<cpuVars, schedVars, irqVars, procVars, tx_busy, sending, pending>>

(* A byte, and another or none. *)
Transmit(c, p) ==
    /\ On(c, p, "held") /\ ~tx_busy
    /\ tx_busy' = TRUE /\ sending' = TRUE
    /\ \E l \in {"held", "release"} : Goto(p, l)
    /\ UNCHANGED <<cpuVars, schedVars, irqVars, procVars, tx_lock, pending>>

Release(c, p) ==
    /\ On(c, p, "release")
    /\ tx_lock' = 0 /\ pop_off(c, intena[c])
    /\ Goto(p, "call")
    /\ UNCHANGED <<schedVars, irqVars, procVars, tx_busy, sending, pending>>

(* sleep: acquire(&p->lock), *)
SleepPush(c, p) ==
    /\ On(c, p, "held") /\ tx_busy
    /\ push_off(c)
    /\ Goto(p, "sleep_lock")
    /\ UNCHANGED <<schedVars, irqVars, procVars, uartVars>>

(* Mutant: sleep lets go of tx_lock before it has p->lock. *)
SleepUnlocked(c, p) ==
    /\ \/ /\ On(c, p, "sleep_lock") /\ tx_lock = c
          /\ tx_lock' = 0 /\ UNCHANGED <<p_lock, noff, intr, intena, threadVars>>
       \/ /\ On(c, p, "sleep_lock") /\ tx_lock # c /\ p_lock[p] = 0
          /\ p_lock' = [p_lock EXCEPT ![p] = c] /\ pop_off(c, intena[c])
          /\ Goto(p, "sleep") /\ UNCHANGED tx_lock
    /\ UNCHANGED <<schedVars, irqVars, state, sleeping, tx_busy, sending, pending>>

SleepLock(c, p) ==
    /\ On(c, p, "sleep_lock") /\ p_lock[p] = 0
    /\ p_lock' = [p_lock EXCEPT ![p] = c]
    /\ Goto(p, "sleep_release")
    /\ UNCHANGED <<cpuVars, schedVars, irqVars, state, sleeping, uartVars>>

(* release(lk), *)
SleepRelease(c, p) ==
    /\ On(c, p, "sleep_release")
    /\ tx_lock' = 0 /\ pop_off(c, intena[c])
    /\ Goto(p, "sleep")
    /\ UNCHANGED <<schedVars, irqVars, procVars, tx_busy, sending, pending>>

(* sched: the scheduler goes on, with the CPU's intena as it is. *)
Switch(c, p, l) ==
    /\ saved' = [saved EXCEPT ![p] = intena[c]]
    /\ running' = [running EXCEPT ![c] = 0] /\ at' = [at EXCEPT ![c] = "back"]
    /\ pc' = [pc EXCEPT ![p] = l]
    /\ UNCHANGED <<below, k>>

Sleep(c, p) ==
    /\ On(c, p, "sleep")
    /\ sleeping' = [sleeping EXCEPT ![p] = TRUE]
    /\ state' = [state EXCEPT ![p] = "SLEEPING"]
    /\ Switch(c, p, "awake")
    /\ UNCHANGED <<cpuVars, irqVars, p_lock, uartVars>>

(* and, once the scheduler has switched back, the end of sched and sleep.  *)
Awake(c, p) ==
    /\ On(c, p, "awake")
    /\ sleeping' = [sleeping EXCEPT ![p] = FALSE]
    /\ p_lock' = [p_lock EXCEPT ![p] = 0] /\ pop_off(c, saved[p])
    /\ Goto(p, "call")
    /\ UNCHANGED <<schedVars, irqVars, state, uartVars>>

-----------------------------------------------------------------------------
(* The timer interrupts a process: kerneltrap or usertrap, and yield.      *)

Timer(c, p) ==
    /\ running[c] = p /\ irq[c] = "none" /\ intr[c]
    /\ intr' = [intr EXCEPT ![c] = FALSE]
    /\ below' = [below EXCEPT ![p] = pc[p]] /\ pc' = [pc EXCEPT ![p] = "yield"]
    /\ UNCHANGED <<saved, noff, intena, schedVars, irqVars, procVars, uartVars>>

YieldPush(c, p) ==
    /\ On(c, p, "yield")
    /\ push_off(c)
    /\ Goto(p, "yield_lock")
    /\ UNCHANGED <<schedVars, irqVars, procVars, uartVars>>

YieldLock(c, p) ==
    /\ On(c, p, "yield_lock") /\ p_lock[p] = 0
    /\ p_lock' = [p_lock EXCEPT ![p] = c]
    /\ Goto(p, "yield_switch")
    /\ UNCHANGED <<cpuVars, schedVars, irqVars, state, sleeping, uartVars>>

Yield(c, p) ==
    /\ On(c, p, "yield_switch")
    /\ state' = [state EXCEPT ![p] = "RUNNABLE"]
    /\ Switch(c, p, "yield_back")
    /\ UNCHANGED <<cpuVars, irqVars, sleeping, p_lock, uartVars>>

YieldBack(c, p) ==
    /\ On(c, p, "yield_back")
    /\ p_lock' = [p_lock EXCEPT ![p] = 0] /\ pop_off(c, saved[p])
    /\ Goto(p, "trap_return")
    /\ UNCHANGED <<schedVars, irqVars, state, sleeping, uartVars>>

(* The trap returns: sret turns interrupts on again. *)
TrapReturn(c, p) ==
    /\ On(c, p, "trap_return")
    /\ intr' = [intr EXCEPT ![c] = TRUE]
    /\ pc' = [pc EXCEPT ![p] = below[p]] /\ below' = [below EXCEPT ![p] = "none"]
    /\ UNCHANGED <<saved, noff, intena, schedVars, irqVars, procVars, uartVars>>

-----------------------------------------------------------------------------
(* uartintr on CPU c, on top of whatever runs there.                       *)

Irq(c, l) == irq' = [irq EXCEPT ![c] = l] /\ UNCHANGED i

(* devintr: the claim. *)
Claim(c) ==
    /\ pending /\ intr[c] /\ \A d \in CPUs : irq[d] = "none"
    /\ intr' = [intr EXCEPT ![c] = FALSE] /\ pending' = FALSE
    /\ Irq(c, "claimed")
    /\ UNCHANGED <<noff, intena, schedVars, procVars, threadVars, tx_lock, tx_busy, sending>>

IrqPush(c) ==
    /\ irq[c] = "claimed"
    /\ push_off(c)
    /\ Irq(c, "lock")
    /\ UNCHANGED <<schedVars, procVars, threadVars, uartVars>>

IrqLock(c) ==
    /\ irq[c] = "lock" /\ tx_lock = 0
    /\ tx_lock' = c
    /\ Irq(c, "held")
    /\ UNCHANGED <<cpuVars, schedVars, procVars, threadVars, tx_busy, sending, pending>>

(* An interrupt for input finds the line busy. *)
IrqBusy(c) ==
    /\ irq[c] = "held" /\ sending
    /\ Irq(c, "release")
    /\ UNCHANGED <<cpuVars, schedVars, procVars, threadVars, uartVars>>

IrqIdle(c) ==
    /\ irq[c] = "held" /\ ~sending
    /\ tx_busy' = FALSE
    /\ irq' = [irq EXCEPT ![c] = "wakeup"] /\ i' = [i EXCEPT ![c] = 1]
    /\ UNCHANGED <<cpuVars, schedVars, procVars, threadVars, tx_lock, sending, pending>>

(* wakeup: one process, under its lock; nothing sees the lock taken.       *)
IrqWakeup(c) ==
    /\ irq[c] = "wakeup"
    /\ LET p == i[c] IN
       IF p = running[c] THEN UNCHANGED state
       ELSE /\ p_lock[p] = 0
            /\ state' = IF state[p] = "SLEEPING" /\ sleeping[p]
                        THEN [state EXCEPT ![p] = "RUNNABLE"] ELSE state
    /\ i' = [i EXCEPT ![c] = IF @ = NPROC THEN 1 ELSE @ + 1]
    /\ irq' = [irq EXCEPT ![c] = IF i[c] = NPROC THEN "release" ELSE @]
    /\ UNCHANGED <<cpuVars, schedVars, sleeping, p_lock, threadVars, uartVars>>

IrqRelease(c) ==
    /\ irq[c] = "release"
    /\ tx_lock' = 0 /\ pop_off(c, intena[c])
    /\ Irq(c, "return")
    /\ UNCHANGED <<schedVars, procVars, threadVars, tx_busy, sending, pending>>

(* plic_complete, and the trap returns. *)
IrqReturn(c) ==
    /\ irq[c] = "return"
    /\ intr' = [intr EXCEPT ![c] = TRUE]
    /\ Irq(c, "none")
    /\ UNCHANGED <<noff, intena, schedVars, procVars, threadVars, uartVars>>

-----------------------------------------------------------------------------
(* The scheduler of CPU c.  It never stays in wfi: the timer ticks.        *)

In(c, l) == running[c] = 0 /\ irq[c] = "none" /\ at[c] = l
GoOn(c, l, n) == at' = [at EXCEPT ![c] = l] /\ k' = [k EXCEPT ![c] = n] /\ UNCHANGED running
NextProc(c) == IF k[c] = NPROC THEN GoOn(c, "top", 1) ELSE GoOn(c, "scan", k[c] + 1)

IntrOn(c) ==
    /\ In(c, "top")
    /\ intr' = [intr EXCEPT ![c] = TRUE]
    /\ GoOn(c, "on", 1)
    /\ UNCHANGED <<noff, intena, irqVars, procVars, threadVars, uartVars>>

IntrOff(c) ==
    /\ In(c, "on")
    /\ intr' = [intr EXCEPT ![c] = FALSE]
    /\ GoOn(c, "scan", 1)
    /\ UNCHANGED <<noff, intena, irqVars, procVars, threadVars, uartVars>>

ScanPush(c) ==
    /\ In(c, "scan")
    /\ push_off(c)
    /\ GoOn(c, "lock", k[c])
    /\ UNCHANGED <<irqVars, procVars, threadVars, uartVars>>

(* Not RUNNABLE: nothing sees its lock taken. *)
Skip(c) ==
    /\ In(c, "lock") /\ p_lock[k[c]] = 0 /\ state[k[c]] # "RUNNABLE"
    /\ pop_off(c, intena[c])
    /\ NextProc(c)
    /\ UNCHANGED <<irqVars, procVars, threadVars, uartVars>>

Dispatch(c) ==
    /\ In(c, "lock") /\ p_lock[k[c]] = 0 /\ state[k[c]] = "RUNNABLE"
    /\ p_lock' = [p_lock EXCEPT ![k[c]] = c]
    /\ state' = [state EXCEPT ![k[c]] = "RUNNING"]
    /\ running' = [running EXCEPT ![c] = k[c]]
    /\ UNCHANGED <<at, k, cpuVars, irqVars, sleeping, threadVars, uartVars>>

(* The process has switched back. *)
Back(c) ==
    /\ In(c, "back")
    /\ p_lock' = [p_lock EXCEPT ![k[c]] = 0] /\ pop_off(c, intena[c])
    /\ NextProc(c)
    /\ UNCHANGED <<irqVars, state, sleeping, threadVars, uartVars>>

-----------------------------------------------------------------------------
(* The line: a byte is out, or one has come in. *)
Sent ==
    /\ sending /\ sending' = FALSE /\ pending' = TRUE
    /\ UNCHANGED <<cpuVars, schedVars, irqVars, procVars, threadVars, tx_lock, tx_busy>>

Received ==
    /\ ~pending /\ pending' = TRUE
    /\ UNCHANGED <<cpuVars, schedVars, irqVars, procVars, threadVars, tx_lock, tx_busy, sending>>

Thread(c, p) ==
    \/ Forkret(c, p) \/ ToUser(c, p)
    \/ PushOff(c, p) \/ Lock(c, p) \/ Transmit(c, p) \/ Release(c, p)
    \/ SleepPush(c, p) \/ SleepLock(c, p) \/ SleepRelease(c, p) \/ Sleep(c, p) \/ Awake(c, p)
    \/ Timer(c, p) \/ YieldPush(c, p) \/ YieldLock(c, p) \/ Yield(c, p) \/ YieldBack(c, p)
    \/ TrapReturn(c, p)

Uartintr(c) ==
    \/ Claim(c) \/ IrqPush(c) \/ IrqLock(c) \/ IrqBusy(c) \/ IrqIdle(c) \/ IrqWakeup(c)
    \/ IrqRelease(c) \/ IrqReturn(c)

Scheduler(c) ==
    \/ IntrOn(c) \/ IntrOff(c) \/ ScanPush(c) \/ Skip(c) \/ Dispatch(c) \/ Back(c)

Next ==
    \/ \E c \in CPUs : (\E p \in Procs : Thread(c, p)) \/ Uartintr(c) \/ Scheduler(c)
    \/ Sent \/ Received

Spec == Init /\ [][Next]_vars

-----------------------------------------------------------------------------
(* Properties.                                                             *)

InTrap(p) == pc[p] \in {"yield", "yield_lock", "yield_switch", "yield_back", "trap_return"}
OwnLock(p) == pc[p] \in {"forkret", "sleep_release", "sleep", "awake", "yield_switch", "yield_back"}
Unlocks(c) ==
    \/ irq[c] = "release"
    \/ irq[c] = "none" /\ IF running[c] = 0 THEN at[c] = "back"
                          ELSE pc[running[c]] \in {"release", "forkret", "sleep_release", "awake", "yield_back"}

(* The lock a CPU spins on, by its holder; 0 if it does not spin. *)
SpinsOn(c) ==
    IF irq[c] # "none"
    THEN CASE irq[c] = "lock" -> tx_lock
           [] irq[c] = "wakeup" /\ i[c] # running[c] -> p_lock[i[c]]
           [] OTHER -> 0
    ELSE IF running[c] = 0 THEN IF at[c] = "lock" THEN p_lock[k[c]] ELSE 0
    ELSE LET p == running[c] IN
         CASE pc[p] = "lock" -> tx_lock
           [] pc[p] \in {"sleep_lock", "yield_lock"} -> p_lock[p]
           [] OTHER -> 0

(* Nothing acquire, release, pop_off, sched and kerneltrap panic about     *)
(* happens: no CPU waits for a lock it holds, or releases another's.       *)
NoPanic ==
    \A c \in CPUs :
        /\ SpinsOn(c) # c
        /\ Unlocks(c) => noff[c] >= 1 /\ ~intr[c]
        /\ running[c] = 0 /\ at[c] = "back" => p_lock[k[c]] = c
        /\ irq[c] = "release" => tx_lock = c
        /\ \A p \in Procs : running[c] = p =>
             /\ OwnLock(p) => p_lock[p] = c
             /\ pc[p] \in {"release", "sleep_release"} => tx_lock = c
             /\ pc[p] \in {"sleep", "yield_switch"} => noff[c] = 1 /\ ~intr[c]

(* A kernel stack is used by one CPU at a time. *)
OneStack ==
    /\ \A c, d \in CPUs : running[c] = running[d] /\ running[c] # 0 => c = d
    /\ \A p \in Procs : p_lock[p] = 0 =>
           (state[p] = "RUNNING" <=> \E c \in CPUs : running[c] = p)

(* Whatever it was switched from and to in between, a process outside      *)
(* locks and traps has interrupts on; traps have them off to the end.      *)
InterruptsKept ==
    \A c \in CPUs :
        /\ irq[c] # "none" => ~intr[c]
        /\ irq[c] = "none" => \A p \in Procs : running[c] = p =>
             /\ pc[p] = "call" => intr[c] /\ noff[c] = 0
             /\ InTrap(p) => ~intr[c]

(* Not every CPU spins. *)
SomeCpuGoesOn == \E c \in CPUs : SpinsOn(c) = 0

(* A process sleeps only while the line is busy or it is about to be woken,*)
(* and a line marked busy will interrupt.                                  *)
WakeupDue ==
    /\ \A p \in Procs : state[p] = "SLEEPING" =>
           tx_busy \/ \E c \in CPUs : irq[c] = "wakeup" /\ i[c] <= p
    /\ tx_busy => \/ sending \/ pending
                  \/ \E c \in CPUs : irq[c] \in {"claimed", "lock", "held"}

(* However CPUs, interrupts and switches interleave: no panic, no shared   *)
(* stack, no lost interrupt flag, no lost wake-up, no deadlock.            *)
Switching == NoPanic /\ OneStack /\ InterruptsKept /\ SomeCpuGoesOn /\ WakeupDue
=============================================================================

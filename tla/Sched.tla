-------------------------------- MODULE Sched --------------------------------
(***************************************************************************)
(* The schedulers of the lab02 kernel (proc.c): round robin, lottery and   *)
(* the multi-level feedback queue, on the one CPU the lab runs.  With      *)
(* interrupts off from the top of its loop to the switch, the scheduler    *)
(* chooses in one step.                                                    *)
(*                                                                         *)
(* What a process does while it runs is up to it: block, exit, fork, reap, *)
(* set its tickets, or compute until the timer takes the CPU.              *)
(***************************************************************************)
EXTENDS Integers, FiniteSets

CONSTANTS
    NPROC, NPRIO,
    MLFQ_BOOST,         \* ticks between two boosts
    MaxTickets          \* MAX_TICKETS, 100000 in the code

VARIABLES
    policy,             \* SCHED_POLICY
    state, prio, allot, tickets,    \* struct proc
    cpu,                \* c->proc, or InSched, or InWfi
    scan, found,        \* p and found of the round-robin pass
    rr_next,            \* rr_next[lvl]: where a level's scan resumes
    since,              \* ticks - last_boost, no more than MLFQ_BOOST
    stalled             \* found nothing although something was runnable

vars == <<policy, state, prio, allot, tickets, cpu, scan, found, rr_next, since, stalled>>

InSched == -1
InWfi == -2
Procs == 0..(NPROC - 1)
Levels == 0..(NPRIO - 1)
MLFQ_ALLOTMENT(lvl) == 2^lvl
Runnable == {p \in Procs : state[p] = "RUNNABLE"}

Init ==
    /\ policy \in {"RR", "LOTTERY", "MLFQ"}
    /\ state = [p \in Procs |-> IF p = 0 THEN "RUNNABLE" ELSE "UNUSED"]
    /\ prio = [p \in Procs |-> 0]
    /\ allot = [p \in Procs |-> 0]
    /\ tickets = [p \in Procs |-> 1]
    /\ cpu = InSched /\ scan = 0 /\ found = FALSE
    /\ rr_next = [l \in Levels |-> 0]
    /\ since = 0
    /\ stalled = FALSE

-----------------------------------------------------------------------------
(* The scheduler.                                                          *)

Dispatch(p) ==
    /\ state' = [state EXCEPT ![p] = "RUNNING"]
    /\ cpu' = p

(* SCHED_RR: the next runnable process of this pass over the table. *)
NextInPass(p) == p >= scan /\ \A q \in Runnable : q >= scan => p <= q

(* SCHED_LOTTERY: the first process at which acc, the tickets of the       *)
(* runnable processes up to it, passes the winning ticket.                 *)
Held(p) == UNION {{q} \X (1..tickets[q]) : q \in {r \in Runnable : r <= p}}
Acc(p) == Cardinality(Held(p))

(* Mutant: a process wins with the ticket after its last. *)
WinsNext(p, winner) == Acc(p) >= winner /\ Acc(p) - tickets[p] < winner

Wins(p, winner) == Acc(p) > winner /\ Acc(p) - tickets[p] <= winner

(* Mutant: the boost is forgotten. *)
BoostsNever(p) == FALSE

(* Rule 5: the boost is due, and p is a process. *)
Boosts(p) == policy = "MLFQ" /\ since >= MLFQ_BOOST /\ state[p] # "UNUSED"

Level(p) == IF Boosts(p) THEN 0 ELSE prio[p]

Boost ==
    /\ prio' = [p \in Procs |-> Level(p)]
    /\ allot' = [p \in Procs |-> IF Boosts(p) THEN 0 ELSE allot[p]]
    /\ since' = IF policy = "MLFQ" /\ since >= MLFQ_BOOST THEN 0 ELSE since

(* SCHED_MLFQ: the best level that has a runnable process, and in it the   *)
(* first from where the scan of the level stopped.                         *)
Distance(p, l) == (p - rr_next[l]) % NPROC

FirstOfBest(p) ==
    LET l == Level(p) IN
    /\ l \in Levels
    /\ \A q \in Runnable :
         Level(q) > l \/ (Level(q) = l /\ Distance(p, l) <= Distance(q, l))

(* The scheduler takes p; the lottery draws any ticket. *)
MayTake(p) ==
    CASE policy = "RR" -> NextInPass(p)
      [] policy = "LOTTERY" -> \E winner \in 0..(Acc(NPROC - 1) - 1) : Wins(p, winner)
      [] policy = "MLFQ" -> FirstOfBest(p)

Choose(p) ==
    /\ cpu = InSched /\ p \in Runnable /\ MayTake(p)
    /\ Dispatch(p)
    /\ Boost
    /\ IF policy = "RR" THEN scan' = p + 1 /\ found' = TRUE ELSE UNCHANGED <<scan, found>>
    /\ rr_next' = IF policy = "MLFQ" THEN [rr_next EXCEPT ![Level(p)] = (p + 1) % NPROC]
                  ELSE rr_next
    /\ UNCHANGED <<policy, tickets, stalled>>

(* A pass that has run something is over: back to the top of the loop. *)
NextPass ==
    /\ cpu = InSched /\ found /\ \A p \in Runnable : ~MayTake(p)
    /\ scan' = 0 /\ found' = FALSE
    /\ UNCHANGED <<policy, state, prio, allot, tickets, cpu, rr_next, since, stalled>>

(* found == 0: remember it if something was runnable, and wait. *)
Idle ==
    /\ cpu = InSched /\ ~found /\ \A p \in Runnable : ~MayTake(p)
    /\ Boost
    /\ stalled' = (stalled \/ Runnable # {})
    /\ cpu' = InWfi
    /\ UNCHANGED <<policy, state, tickets, scan, found, rr_next>>

-----------------------------------------------------------------------------
(* The running process, and interrupts.                                    *)

(* The first interrupt ends wfi.  Inside a round-robin pass they are on or *)
(* off as the last process left them; both are allowed.                    *)
AfterInterrupt == IF cpu = InWfi THEN InSched ELSE cpu

(* Mutant: the last level does not stop the sinking. *)
SinksOn(p) == allot[p] + 1 >= MLFQ_ALLOTMENT(prio[p])

(* Rule 4: the allotment is used up and there is a level below. *)
Sinks(p) == allot[p] + 1 >= MLFQ_ALLOTMENT(prio[p]) /\ prio[p] < NPRIO - 1
UsedUp(p) == allot[p] + 1 >= MLFQ_ALLOTMENT(prio[p])

(* The timer: clockintr advances ticks, and the process that runs yields;  *)
(* under MLFQ it is charged a tick.                                        *)
Tick ==
    /\ since' = IF policy = "MLFQ" /\ since < MLFQ_BOOST THEN since + 1 ELSE since
    /\ IF cpu \in Procs
       THEN /\ state' = [state EXCEPT ![cpu] = "RUNNABLE"]
            /\ IF policy = "MLFQ"
               THEN /\ allot' = [allot EXCEPT ![cpu] = IF UsedUp(cpu) THEN 0 ELSE @ + 1]
                    /\ prio' = [prio EXCEPT ![cpu] = IF Sinks(cpu) THEN @ + 1 ELSE @]
               ELSE UNCHANGED <<allot, prio>>
            /\ cpu' = InSched
       ELSE cpu' = AfterInterrupt /\ UNCHANGED <<state, allot, prio>>
    /\ UNCHANGED <<policy, tickets, scan, found, rr_next, stalled>>

(* What p waits for is there: it is runnable again. *)
Wakeup(p) ==
    /\ state[p] = "SLEEPING"
    /\ state' = [state EXCEPT ![p] = "RUNNABLE"]
    /\ cpu' = AfterInterrupt
    /\ UNCHANGED <<policy, prio, allot, tickets, scan, found, rr_next, since, stalled>>

(* sleep, or kexit unless it is init: the process gives up the CPU without *)
(* being charged.                                                          *)
Leave(p, s) ==
    /\ cpu = p
    /\ state' = [state EXCEPT ![p] = s]
    /\ cpu' = InSched
    /\ UNCHANGED <<policy, prio, allot, tickets, scan, found, rr_next, since, stalled>>

(* kwait frees the slot of a child that has exited. *)
Reap(p) ==
    /\ cpu \in Procs /\ state[p] = "ZOMBIE"
    /\ state' = [state EXCEPT ![p] = "UNUSED"]
    /\ UNCHANGED <<policy, prio, allot, tickets, cpu, scan, found, rr_next, since, stalled>>

(* kfork: allocproc takes the first free slot and starts it at the top     *)
(* level with a fresh allotment and the default tickets.                   *)
Fork(p) ==
    /\ cpu \in Procs /\ state[p] = "UNUSED"
    /\ \A q \in Procs : state[q] = "UNUSED" => p <= q
    /\ state' = [state EXCEPT ![p] = "RUNNABLE"]
    /\ prio' = [prio EXCEPT ![p] = 0]
    /\ allot' = [allot EXCEPT ![p] = 0]
    /\ tickets' = [tickets EXCEPT ![p] = 1]
    /\ UNCHANGED <<policy, cpu, scan, found, rr_next, since, stalled>>

(* Mutant: zero tickets are accepted. *)
SetTicketsAny(n) ==
    /\ policy = "LOTTERY" /\ cpu \in Procs
    /\ n <= MaxTickets
    /\ tickets' = [tickets EXCEPT ![cpu] = n]
    /\ UNCHANGED <<policy, state, prio, allot, cpu, scan, found, rr_next, since, stalled>>

(* sys_settickets; under the other policies nothing reads the tickets, and *)
(* a number outside the bounds is refused.                                 *)
SetTickets(n) ==
    /\ policy = "LOTTERY" /\ cpu \in Procs
    /\ ~(n < 1 \/ n > MaxTickets)
    /\ tickets' = [tickets EXCEPT ![cpu] = n]
    /\ UNCHANGED <<policy, state, prio, allot, cpu, scan, found, rr_next, since, stalled>>

Next ==
    \/ \E p \in Procs :
         \/ Choose(p) \/ Wakeup(p) \/ Reap(p) \/ Fork(p)
         \/ Leave(p, "SLEEPING") \/ (p # 0 /\ Leave(p, "ZOMBIE"))
    \/ \E n \in 0..(MaxTickets + 1) : SetTickets(n)
    \/ NextPass \/ Idle \/ Tick

Spec == Init /\ [][Next]_vars

(* The CPU executes the scheduler, and the timer keeps ticking. *)
Fairness ==
    /\ WF_vars(NextPass \/ Idle \/ \E p \in Procs : Choose(p))
    /\ WF_vars(Tick)

-----------------------------------------------------------------------------
(* Properties.                                                             *)

(* The scheduler never finds nothing to run while a process is runnable,   *)
(* the case the message of its idle branch is about, and whatever ticket   *)
(* the lottery draws, one process and no other has it.                     *)
NeverStalls ==
    /\ ~stalled
    /\ policy = "LOTTERY" => \A winner \in 0..(Acc(NPROC - 1) - 1) :
         \E p \in Runnable : \A q \in Runnable : Wins(q, winner) <=> q = p

(* Under round robin and the feedback queue a runnable process gets the    *)
(* CPU, however many others fork, block before their tick is up, or come   *)
(* back at a better level.  The lottery promises this only on average.     *)
NoStarvation ==
    \A p \in Procs : (policy # "LOTTERY" /\ state[p] = "RUNNABLE") ~> (state[p] = "RUNNING")
=============================================================================

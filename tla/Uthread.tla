------------------------------- MODULE Uthread -------------------------------
(***************************************************************************)
(* The user-level threads of lab05 (uthread.c): the thread table, the      *)
(* ready queue, the switches between threads and scheduler, the stacks.    *)
(* One kernel thread runs it all, so what lies between two switches is a   *)
(* step.  What main and the threads do between calls is left open.         *)
(***************************************************************************)
EXTENDS Integers, Sequences

CONSTANTS
    UTHREAD_MAX,
    MaxTid          \* bound: threads created

VARIABLES
    state,          \* state[i] of table entry i
    tid, next_tid,
    stack,          \* the entries that have a stack
    queue,          \* the entries from qhead to qtail
    on,             \* whose stack the kernel thread is on: main, sched or thread
    t,              \* the entry the scheduler last switched to; current on "thread"
    passed          \* history: the threads that have run since entry i was queued

vars == <<state, tid, next_tid, stack, queue, on, t, passed>>
Slots == 1..UTHREAD_MAX

Init ==
    /\ state = [i \in Slots |-> "FREE"] /\ tid = [i \in Slots |-> 0] /\ next_tid = 1
    /\ stack = {} /\ queue = <<>> /\ on = "main" /\ t = 0
    /\ passed = [i \in Slots |-> {}]

(* Mutant: at the head. *)
enqueueFirst(i) == queue' = <<i>> \o queue /\ passed' = [passed EXCEPT ![i] = {}]

enqueue(i) == queue' = Append(queue, i) /\ passed' = [passed EXCEPT ![i] = {}]

(* By main or by a thread, in the first free entry; without one, or        *)
(* without memory, the call changes nothing.                               *)
uthread_create(i) ==
    /\ on # "sched" /\ next_tid <= MaxTid
    /\ state[i] = "FREE" /\ \A j \in Slots : j < i => state[j] # "FREE"
    /\ stack' = stack \cup {i}
    /\ tid' = [tid EXCEPT ![i] = next_tid] /\ next_tid' = next_tid + 1
    /\ state' = [state EXCEPT ![i] = "RUNNABLE"]
    /\ enqueue(i)
    /\ UNCHANGED <<on, t>>

uthread_run ==
    /\ on = "main"
    /\ on' = "sched" /\ t' = 0
    /\ UNCHANGED <<state, tid, next_tid, stack, queue, passed>>

(* The scheduler switches to the thread at the head. *)
Dispatch ==
    /\ on = "sched" /\ t = 0 /\ queue # <<>>
    /\ t' = Head(queue) /\ queue' = Tail(queue)
    /\ state' = [state EXCEPT ![t'] = "RUNNING"]
    /\ passed' = [i \in Slots |-> passed[i] \cup {tid[t']}]
    /\ on' = "thread"
    /\ UNCHANGED <<tid, next_tid, stack>>

Return ==
    /\ on = "sched" /\ t = 0 /\ queue = <<>>
    /\ on' = "main"
    /\ UNCHANGED <<state, tid, next_tid, stack, queue, t, passed>>

Switch(s) ==
    /\ on = "thread"
    /\ state' = [state EXCEPT ![t] = s]
    /\ on' = "sched"
    /\ UNCHANGED <<tid, next_tid, stack, queue, t, passed>>

uthread_yield == Switch("RUNNABLE")

(* Mutant: the entry is given back at once. *)
uthread_exitFrees == Switch("FREE")

(* Called, or reached when the thread's function returns. *)
uthread_exit == Switch("ZOMBIE")

(* Back in the scheduler. *)
Back ==
    /\ on = "sched" /\ t # 0
    /\ IF state[t] = "RUNNABLE" THEN enqueue(t) /\ UNCHANGED <<state, stack>>
       ELSE /\ state' = [state EXCEPT ![t] = "FREE"] /\ stack' = stack \ {t}
            /\ UNCHANGED <<queue, passed>>
    /\ t' = 0
    /\ UNCHANGED <<tid, next_tid, on>>

Next ==
    \/ \E i \in Slots : uthread_create(i)
    \/ uthread_run \/ Dispatch \/ Return \/ uthread_yield \/ uthread_exit \/ Back

Spec == Init /\ [][Next]_vars

-----------------------------------------------------------------------------
(* Properties.                                                             *)

Queued(i) == \E k \in DOMAIN queue : queue[k] = i

StacksKept ==
    /\ on = "thread" => t \in stack /\ state[t] = "RUNNING"
    /\ stack = {i \in Slots : state[i] # "FREE"}

QueueExact ==
    /\ \A i \in Slots : Queued(i) <=> state[i] = "RUNNABLE" /\ i # t
    /\ \A j, k \in DOMAIN queue : j # k => queue[j] # queue[k]

(* However threads create, yield and exit: the thread that runs has a      *)
(* stack, as has every queued one, none is lost, and nothing is queued     *)
(* twice; and round robin: while one thread waits no other runs twice, so  *)
(* none waits for more than UTHREAD_MAX - 1 turns.                         *)
RoundRobin ==
    /\ [](StacksKept /\ QueueExact)
    /\ [][on' = "thread" /\ on = "sched"
             => \A i \in Slots \ {t'} : Queued(i) => tid[t'] \notin passed[i]]_vars
=============================================================================

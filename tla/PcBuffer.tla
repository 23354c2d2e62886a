------------------------------ MODULE PcBuffer ------------------------------
(***************************************************************************)
(* The bounded buffer of lab05 (pcbuffer.c): a ring of capacity slots      *)
(* behind one mutex, with two condition variables.  Producers and          *)
(* consumers call pcb_put and pcb_get for ever.                            *)
(*                                                                         *)
(* The mutex and the condition variables are pthreads: a signal moves any  *)
(* one sleeper, a sleeper may also wake by itself, and a woken thread      *)
(* competes for the mutex with everyone else (Mesa semantics).  Between    *)
(* lock and unlock nothing another thread can see happens in between, so   *)
(* the body of the critical section, its signal and the unlock are one     *)
(* step.                                                                   *)
(***************************************************************************)
EXTENDS BufferSizes, Sequences

VARIABLES
    slots, count, head, tail,   \* struct pcbuffer
    lock,       \* the holder of pcbuffer.lock, or NoThread
    pc,         \* pc[t]: where t is in pcb_put or pcb_get
    item,       \* item[p]: the argument of p's pcb_put
    got         \* got[c]: what c's last pcb_get returned

ring == <<slots, count, head, tail>>
vars == <<ring, lock, pc, item, got>>

Threads == Producers \cup Consumers

(* Where a thread is: outside the buffer; at the while with the mutex      *)
(* held; asleep in pthread_cond_wait (producers on empty, consumers on     *)
(* fill); woken there and about to take the mutex back.                    *)
Places == {"out", "test", "asleep", "awake"}

At(place) == {t \in Threads : pc[t] = place}

Init ==
    /\ slots \in [0..(Capacity - 1) -> Items]
    /\ count = 0 /\ head = 0 /\ tail = 0
    /\ lock = NoThread
    /\ pc = [t \in Threads |-> "out"]
    /\ item \in [Producers -> Items]
    /\ got = [c \in Consumers |-> <<>>]

(* pthread_mutex_lock at the top of pcb_put(b, x). *)
EnterPut(p, x) ==
    /\ pc[p] = "out" /\ lock = NoThread
    /\ lock' = p
    /\ pc' = [pc EXCEPT ![p] = "test"]
    /\ item' = [item EXCEPT ![p] = x]
    /\ UNCHANGED <<slots, count, head, tail, got>>

(* pthread_mutex_lock at the top of pcb_get. *)
EnterGet(c) ==
    /\ pc[c] = "out" /\ lock = NoThread
    /\ lock' = c
    /\ pc' = [pc EXCEPT ![c] = "test"]
    /\ UNCHANGED <<slots, count, head, tail, item, got>>

(* pthread_cond_wait: give up the mutex and sleep. *)
Sleep(t) ==
    /\ pc[t] = "test"
    /\ t \in Producers => count = Capacity
    /\ t \in Consumers => count = 0
    /\ lock' = NoThread
    /\ pc' = [pc EXCEPT ![t] = "asleep"]
    /\ UNCHANGED <<slots, count, head, tail, item, got>>

(* pthread_cond_wait returns without a signal. *)
Spurious(t) ==
    /\ pc[t] = "asleep"
    /\ pc' = [pc EXCEPT ![t] = "awake"]
    /\ UNCHANGED <<slots, count, head, tail, lock, item, got>>

(* A woken thread gets the mutex and tests the condition again. *)
Relock(t) ==
    /\ pc[t] = "awake" /\ lock = NoThread
    /\ lock' = t
    /\ pc' = [pc EXCEPT ![t] = "test"]
    /\ UNCHANGED <<slots, count, head, tail, item, got>>

(* t unlocks after signalling the condition variable where group sleeps:   *)
(* one sleeper wakes, if there is one.                                     *)
SignalAndLeave(t, group) ==
    /\ lock' = NoThread
    /\ IF At("asleep") \cap group = {}
       THEN pc' = [pc EXCEPT ![t] = "out"]
       ELSE \E s \in At("asleep") \cap group :
              pc' = [pc EXCEPT ![t] = "out", ![s] = "awake"]

(* Mutant: an if instead of the while: a woken producer does not test. *)
PutUntested(p) ==
    /\ pc[p] = "test"
    /\ slots' = [slots EXCEPT ![tail] = item[p]]
    /\ tail' = (tail + 1) % Capacity
    /\ count' = count + 1
    /\ SignalAndLeave(p, Consumers)
    /\ UNCHANGED <<head, item, got>>

(* Mutant: a signal only when the buffer was empty. *)
PutFirstOnly(p) ==
    /\ pc[p] = "test"
    /\ count # Capacity
    /\ slots' = [slots EXCEPT ![tail] = item[p]]
    /\ tail' = (tail + 1) % Capacity
    /\ count' = count + 1
    /\ SignalAndLeave(p, IF count = 0 THEN Consumers ELSE {})
    /\ UNCHANGED <<head, item, got>>

(* Mutant: tail is not advanced. *)
PutNoAdvance(p) ==
    /\ pc[p] = "test"
    /\ count # Capacity
    /\ slots' = [slots EXCEPT ![tail] = item[p]]
    /\ count' = count + 1
    /\ SignalAndLeave(p, Consumers)
    /\ UNCHANGED <<head, tail, item, got>>

(* The body of pcb_put, signal(fill), unlock. *)
Put(p) ==
    /\ pc[p] = "test"
    /\ count # Capacity
    /\ slots' = [slots EXCEPT ![tail] = item[p]]
    /\ tail' = (tail + 1) % Capacity
    /\ count' = count + 1
    /\ SignalAndLeave(p, Consumers)
    /\ UNCHANGED <<head, item, got>>

(* The body of pcb_get, signal(empty), unlock. *)
Get(c) ==
    /\ pc[c] = "test"
    /\ count # 0
    /\ got' = [got EXCEPT ![c] = <<slots[head]>>]
    /\ head' = (head + 1) % Capacity
    /\ count' = count - 1
    /\ SignalAndLeave(c, Producers)
    /\ UNCHANGED <<slots, tail, item>>

Next ==
    \/ \E p \in Producers : (\E x \in Items : EnterPut(p, x)) \/ Put(p)
    \/ \E c \in Consumers : EnterGet(c) \/ Get(c)
    \/ \E t \in Threads : Sleep(t) \/ Spurious(t) \/ Relock(t)

Spec == Init /\ [][Next]_vars

-----------------------------------------------------------------------------
(* Properties.                                                             *)

(* Type correctness; the mutex is held by the one thread at the test. *)
TypeOK ==
    /\ slots \in [0..(Capacity - 1) -> Items]
    /\ count \in 0..Capacity
    /\ head \in 0..(Capacity - 1) /\ tail \in 0..(Capacity - 1)
    /\ lock \in Threads \cup {NoThread}
    /\ pc \in [Threads -> Places]
    /\ \A t \in Threads : pc[t] = "test" <=> lock = t
    /\ item \in [Producers -> Items]
    /\ got \in [Consumers -> {<<>>} \cup {<<x>> : x \in Items}]

(* No wake-up is lost: if a consumer sleeps although there is an item,     *)
(* another consumer is on its way to take one; likewise a producer and a   *)
(* free slot.  Otherwise everybody could end up asleep.                    *)
NoLostWakeup ==
    /\ At("asleep") \cap Consumers # {} /\ count > 0 =>
           (At("awake") \cup At("test")) \cap Consumers # {}
    /\ At("asleep") \cap Producers # {} /\ count < Capacity =>
           (At("awake") \cup At("test")) \cap Producers # {}

(* The ring read from head, count items long. *)
Contents == [i \in 1..count |-> slots[(head + i - 1) % Capacity]]

Queue == INSTANCE Fifo WITH queue <- Contents

(* The ring behaves as the bounded FIFO queue of pcbuffer.h: no item is    *)
(* lost, duplicated, overwritten or taken out of order.                    *)
ImplementsFifo == Queue!Spec
=============================================================================

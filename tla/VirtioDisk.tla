----------------------------- MODULE VirtioDisk -----------------------------
(***************************************************************************)
(* The disk driver of xv6 (virtio_disk.c): processes in virtio_disk_rw,    *)
(* the interrupt handler and the device, which share the descriptors and   *)
(* the two rings.  A request and its buffer are named by the process that  *)
(* waits for it: the buffer's sleep lock gives it to one process at a time. *)
(* The rings have a place for every descriptor, so they are sequences of   *)
(* what the other side has still to take.  What is under vdisk_lock up to  *)
(* a sleep is one step of a process.  The handler takes a step per request. *)
(***************************************************************************)
EXTENDS Integers, Sequences, FiniteSets

CONSTANTS
    Procs,
    NUM             \* descriptors

VARIABLES
    free,           \* the descriptors with disk.free[i]
    next,           \* desc[i].next where VRING_DESC_F_NEXT is set, else 0
    b,              \* info[i].b, 0 for none
    status,         \* info[i].status, where the device has written it
    avail, used,    \* the rings, from the reader's index on
    taken,          \* the requests the device is working on
    isr,            \* the device's interrupt status
    handler,        \* where virtio_disk_intr is; not at "no" it holds vdisk_lock
    busy,           \* the processes whose b->disk is 1
    served,         \* history: the transfers the device has made
    pc, idx         \* where each process is, and its three descriptors

vars == <<free, next, b, status, avail, used, taken, isr, handler, busy, served, pc, idx>>

Descs == 1..NUM
None == <<>>

Init ==
    /\ free = Descs /\ next = [d \in Descs |-> 0] /\ b = [d \in Descs |-> 0]
    /\ status = [d \in Descs |-> "none"]
    /\ avail = <<>> /\ used = <<>> /\ taken = {} /\ isr = FALSE /\ handler = "no"
    /\ busy = {} /\ served = {}
    /\ pc = [p \in Procs |-> "out"] /\ idx = [p \in Procs |-> None]

Nth(S, n) == CHOOSE d \in S : Cardinality({e \in S : e <= d}) = n

(* wakeup(&disk.free[0]): whoever waits for descriptors looks again. *)
Roused(w) == [p \in Procs |-> IF w[p] = "wait_desc" THEN "rw" ELSE w[p]]

Enter(p) ==
    /\ pc[p] = "out"
    /\ pc' = [pc EXCEPT ![p] = "rw"]
    /\ served' = served \ {p}
    /\ UNCHANGED <<free, next, b, status, avail, used, taken, isr, handler, busy, idx>>

(* alloc3_desc fails: what it has taken is freed again, which wakes the    *)
(* others.                                                                 *)
NoDescs(p) ==
    /\ pc[p] = "rw" /\ handler = "no"
    /\ Cardinality(free) < 3
    /\ pc' = [IF free = {} THEN pc ELSE Roused(pc) EXCEPT ![p] = "wait_desc"]
    /\ UNCHANGED <<free, next, b, status, avail, used, taken, isr, handler, busy, served, idx>>

(* The request is formatted and put in the available ring. *)
Submit(p) ==
    /\ pc[p] = "rw" /\ handler = "no"
    /\ Cardinality(free) >= 3
    /\ LET i == <<Nth(free, 1), Nth(free, 2), Nth(free, 3)>> IN
       /\ idx' = [idx EXCEPT ![p] = i]
       /\ free' = free \ {i[1], i[2], i[3]}
       /\ next' = [next EXCEPT ![i[1]] = i[2], ![i[2]] = i[3], ![i[3]] = 0]
       /\ status' = [status EXCEPT ![i[1]] = "0xff"]
       /\ b' = [b EXCEPT ![i[1]] = p]
       /\ avail' = Append(avail, i[1])
    /\ busy' = busy \cup {p}
    /\ pc' = [pc EXCEPT ![p] = "wait_disk"]
    /\ UNCHANGED <<used, taken, isr, handler, served>>

(* Mutant: the walk stops one short. *)
ChainTwo(d) == {d} \cup ({next[d]} \ {0})

(* free_chain *)
Chain(d) == {d} \cup ({next[d], next[next[d]]} \ {0})

(* Woken, with b->disk 0. *)
Finish(p) ==
    /\ pc[p] = "woken" /\ handler = "no"
    /\ LET chain == Chain(idx[p][1]) IN
       /\ free' = free \cup chain
       /\ next' = [d \in Descs |-> IF d \in chain THEN 0 ELSE next[d]]
    /\ b' = [b EXCEPT ![idx[p][1]] = 0]
    /\ idx' = [idx EXCEPT ![p] = None]
    /\ pc' = Roused([pc EXCEPT ![p] = "out"])
    /\ UNCHANGED <<status, avail, used, taken, isr, handler, busy, served>>

-----------------------------------------------------------------------------
(* The device takes requests in order and completes them in any.           *)
Take ==
    /\ avail # <<>>
    /\ taken' = taken \cup {Head(avail)} /\ avail' = Tail(avail)
    /\ UNCHANGED <<free, next, b, status, used, isr, handler, busy, served, pc, idx>>

Complete(d) ==
    /\ d \in taken
    /\ taken' = taken \ {d}
    /\ status' = [status EXCEPT ![d] = "0"]
    /\ served' = served \cup {b[d]}
    /\ used' = Append(used, d)
    /\ isr' = TRUE
    /\ UNCHANGED <<free, next, b, avail, handler, busy, pc, idx>>

-----------------------------------------------------------------------------
(* virtio_disk_intr.                                                       *)

(* vdisk_lock, and the acknowledgement: the device may complete more from  *)
(* here on.                                                                *)
Ack ==
    /\ isr /\ handler = "no"
    /\ handler' = "loop" /\ isr' = FALSE
    /\ UNCHANGED <<free, next, b, status, avail, used, taken, busy, served, pc, idx>>

Handle ==
    /\ handler = "loop" /\ used # <<>>
    /\ LET p == b[Head(used)] IN
       /\ busy' = busy \ {p}
       /\ pc' = IF pc[p] = "wait_disk" THEN [pc EXCEPT ![p] = "woken"] ELSE pc
    /\ used' = Tail(used)
    /\ UNCHANGED <<free, next, b, status, avail, taken, isr, handler, served, idx>>

(* The loop ends; what is completed now is for the next interrupt. *)
Handled ==
    /\ handler = "loop" /\ used = <<>>
    /\ handler' = "leave"
    /\ UNCHANGED <<free, next, b, status, avail, used, taken, isr, busy, served, pc, idx>>

(* Mutant: the interrupt is acknowledged here. *)
ReleaseAcks ==
    /\ handler = "leave"
    /\ handler' = "no" /\ isr' = FALSE
    /\ UNCHANGED <<free, next, b, status, avail, used, taken, busy, served, pc, idx>>

Release ==
    /\ handler = "leave"
    /\ handler' = "no"
    /\ UNCHANGED <<free, next, b, status, avail, used, taken, isr, busy, served, pc, idx>>

Resume(p) == NoDescs(p) \/ Submit(p) \/ Finish(p)
Device == Take \/ \E d \in Descs : Complete(d)
Interrupt == Ack \/ Handle \/ Handled \/ Release

Next == (\E p \in Procs : Enter(p) \/ Resume(p)) \/ Device \/ Interrupt

(* Processes that have something to do are scheduled, the lock lets them   *)
(* in, the device completes what it was given, interrupts are taken.       *)
Fairness ==
    /\ \A p \in Procs : SF_vars(Resume(p))
    /\ WF_vars(Take) /\ \A d \in Descs : WF_vars(Complete(d))
    /\ WF_vars(Interrupt)

Spec == Init /\ [][Next]_vars /\ Fairness

-----------------------------------------------------------------------------
(* Properties.                                                             *)

Chained == UNION {{idx[p][i] : i \in DOMAIN idx[p]} : p \in Procs}

(* Nothing the driver panics about happens, requests share no descriptor   *)
(* and none is lost; virtio_disk_rw returns only after the device has made *)
(* this very transfer.                                                     *)
RequestsApart ==
    /\ free = Descs \ Chained
    /\ Cardinality(Chained) = 3 * Cardinality({p \in Procs : idx[p] # None})
    /\ used # <<>> => status[Head(used)] = "0" /\ b[Head(used)] # 0
    /\ \A p \in Procs :
         /\ pc[p] = "woken" => p \in served /\ p \notin busy
         /\ pc[p] = "wait_disk" => p \in busy

(* However completions, interrupts and the processes interleave: a request *)
(* given to the device ends, and a process that waits for descriptors gets *)
(* to try again.                                                           *)
RequestsEnd ==
    \A p \in Procs :
        /\ pc[p] = "wait_disk" ~> pc[p] = "out"
        /\ pc[p] = "wait_desc" ~> pc[p] # "wait_desc"
=============================================================================

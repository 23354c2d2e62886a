------------------------------- MODULE Bcache -------------------------------
(***************************************************************************)
(* The buffer cache of the xv6 kernel (bio.c) with the sleep locks of its  *)
(* buffers (sleeplock.c): bread, bwrite, brelse, bpin and bunpin, called   *)
(* by several processes at once.  What happens under bcache.lock, or under *)
(* the spin lock inside a sleep lock, is one step.  A caller changes data  *)
(* only between bread and brelse, and then either writes the buffer        *)
(* through or has log_write pin it until its install.                      *)
(***************************************************************************)
EXTENDS Integers, Sequences, FiniteSets

CONSTANTS
    Procs, Blocks,          \* both without 0, which stands for none
    Vals,
    NBUF,
    MaxPinned               \* blocks the log holds at once

VARIABLES
    lru,                    \* the list from head.next on: most recent first
    blockno, valid, data,   \* struct buf; blockno is 0 for a buffer never used
    refcnt,
    locked,                 \* the holder of b's sleep lock, or 0
    disk,
    pinned,                 \* the buffers the log has pinned
    pc, want, buf,          \* a process's place, its block and its buffer
    latest                  \* history: what was last stored in each block

vars == <<lru, blockno, valid, data, refcnt, locked, disk, pinned, pc, want, buf, latest>>

Bufs == 1..NBUF
Caching(k) == {b \in Bufs : blockno[b] = k}
Goto(p, place) == pc' = [pc EXCEPT ![p] = place]

(* binit: each buffer is put in front of those before it. *)
Init ==
    /\ lru = [i \in Bufs |-> NBUF + 1 - i]
    /\ blockno = [b \in Bufs |-> 0]
    /\ valid = [b \in Bufs |-> FALSE]
    /\ refcnt = [b \in Bufs |-> 0] /\ locked = [b \in Bufs |-> 0]
    /\ disk \in [Blocks -> Vals] /\ latest = disk
    /\ \E v \in Vals : data = [b \in Bufs |-> v]
    /\ pinned = {}
    /\ pc = [p \in Procs |-> "idle"]
    /\ want = [p \in Procs |-> 0] /\ buf = [p \in Procs |-> 0]

-----------------------------------------------------------------------------
(* bget.  Without an unused buffer it panics; here the call waits.         *)

Gets(p, k, b) ==
    /\ pc[p] = "idle"
    /\ want' = [want EXCEPT ![p] = k]
    /\ buf' = [buf EXCEPT ![p] = b]
    /\ Goto(p, "lock")
    /\ UNCHANGED <<lru, data, locked, disk, pinned, latest>>

Hit(p, k) ==
    \E b \in Caching(k) :
        /\ Gets(p, k, b)
        /\ refcnt' = [refcnt EXCEPT ![b] = @ + 1]
        /\ UNCHANGED <<blockno, valid>>

(* Mutant: a buffer nobody has locked counts as unused. *)
UnusedUnlocked(b) == locked[b] = 0

Unused(b) == refcnt[b] = 0

(* The search goes from the least recently used buffer on. *)
LeastRecent(b) ==
    \E i \in DOMAIN lru : lru[i] = b /\ \A j \in DOMAIN lru : j > i => ~Unused(lru[j])

Recycle(p, k) ==
    /\ Caching(k) = {}
    /\ \E b \in Bufs :
        /\ Unused(b) /\ LeastRecent(b)
        /\ Gets(p, k, b)
        /\ blockno' = [blockno EXCEPT ![b] = k]
        /\ valid' = [valid EXCEPT ![b] = FALSE]
        /\ refcnt' = [refcnt EXCEPT ![b] = 1]

(* acquiresleep, from its call or from the wake-up on. *)
AcquireSleep(p) ==
    /\ pc[p] = "lock"
    /\ IF locked[buf[p]] = 0
       THEN locked' = [locked EXCEPT ![buf[p]] = p] /\ Goto(p, "locked")
       ELSE Goto(p, "asleep") /\ UNCHANGED locked
    /\ UNCHANGED <<lru, blockno, valid, data, refcnt, disk, pinned, want, buf, latest>>

(* The rest of bread. *)
Bread(p) ==
    /\ pc[p] = "locked"
    /\ Goto(p, "has")
    /\ IF valid[buf[p]] THEN UNCHANGED <<data, valid>>
       ELSE /\ data' = [data EXCEPT ![buf[p]] = disk[blockno[buf[p]]]]
            /\ valid' = [valid EXCEPT ![buf[p]] = TRUE]
    /\ UNCHANGED <<lru, blockno, refcnt, locked, disk, pinned, want, buf, latest>>

-----------------------------------------------------------------------------
(* What callers do with a locked buffer.                                   *)

Modify(p, v) ==
    /\ pc[p] = "has"
    /\ data' = [data EXCEPT ![buf[p]] = v]
    /\ latest' = [latest EXCEPT ![want[p]] = v]
    /\ Goto(p, "dirty")
    /\ UNCHANGED <<lru, blockno, valid, refcnt, locked, disk, pinned, want, buf>>

WriteOut(p) == disk' = [disk EXCEPT ![blockno[buf[p]]] = data[buf[p]]]

(* A block outside the log is written through. *)
Bwrite(p) ==
    /\ pc[p] = "dirty" /\ buf[p] \notin pinned
    /\ WriteOut(p) /\ Goto(p, "done")
    /\ UNCHANGED <<lru, blockno, valid, data, refcnt, locked, pinned, want, buf, latest>>

(* log_write: bpin, unless the block is in the log already.  How many fit  *)
(* is the business of begin_op.                                            *)
LogWrite(p) ==
    /\ pc[p] = "dirty"
    /\ \/ buf[p] \in pinned /\ UNCHANGED <<pinned, refcnt>>
       \/ /\ buf[p] \notin pinned /\ Cardinality(pinned) < MaxPinned
          /\ pinned' = pinned \cup {buf[p]}
          /\ refcnt' = [refcnt EXCEPT ![buf[p]] = @ + 1]
    /\ Goto(p, "done")
    /\ UNCHANGED <<lru, blockno, valid, data, locked, disk, want, buf, latest>>

(* install_trans: bwrite, then bunpin. *)
Install(p) ==
    /\ pc[p] = "has" /\ buf[p] \in pinned
    /\ WriteOut(p) /\ Goto(p, "unpin")
    /\ UNCHANGED <<lru, blockno, valid, data, refcnt, locked, pinned, want, buf, latest>>

Bunpin(p) ==
    /\ pc[p] = "unpin"
    /\ pinned' = pinned \ {buf[p]}
    /\ refcnt' = [refcnt EXCEPT ![buf[p]] = @ - 1]
    /\ Goto(p, "done")
    /\ UNCHANGED <<lru, blockno, valid, data, locked, disk, want, buf, latest>>

-----------------------------------------------------------------------------
(* brelse.                                                                 *)

ReleaseSleep(p) ==
    /\ pc[p] \in {"has", "done"}
    /\ locked' = [locked EXCEPT ![buf[p]] = 0]
    /\ pc' = [q \in Procs |-> IF q = p THEN "released"
                              ELSE IF pc[q] = "asleep" /\ buf[q] = buf[p] THEN "lock"
                              ELSE pc[q]]
    /\ UNCHANGED <<lru, blockno, valid, data, refcnt, disk, pinned, want, buf, latest>>

(* Under bcache.lock; the last reference moves the buffer to the front. *)
Brelse(p) ==
    /\ pc[p] = "released"
    /\ refcnt' = [refcnt EXCEPT ![buf[p]] = @ - 1]
    /\ lru' = IF refcnt[buf[p]] = 1
              THEN <<buf[p]>> \o SelectSeq(lru, LAMBDA b : b # buf[p]) ELSE lru
    /\ want' = [want EXCEPT ![p] = 0] /\ buf' = [buf EXCEPT ![p] = 0]
    /\ Goto(p, "idle")
    /\ UNCHANGED <<blockno, valid, data, locked, disk, pinned, latest>>

Step(p) ==
    \/ AcquireSleep(p) \/ Bread(p) \/ Bwrite(p) \/ LogWrite(p)
    \/ Install(p) \/ Bunpin(p) \/ ReleaseSleep(p) \/ Brelse(p)

Next ==
    \E p \in Procs :
        \/ \E k \in Blocks : Hit(p, k) \/ Recycle(p, k)
        \/ \E v \in Vals : Modify(p, v)
        \/ Step(p)

Spec == Init /\ [][Next]_vars

-----------------------------------------------------------------------------
(* Properties.                                                             *)

Holds(p) == pc[p] \in {"locked", "has", "dirty", "unpin", "done"}

(* No block has two buffers, and no two processes hold one block. *)
OneCopy ==
    /\ \A k \in Blocks : \A b, c \in Caching(k) : b = c
    /\ \A p, q \in Procs : Holds(p) /\ Holds(q) /\ p # q => want[p] # want[q]

(* The buffer a process waits for or holds stays that of the block it      *)
(* asked for: nobody recycles it in between.                               *)
NotRecycled == \A p \in Procs : pc[p] # "idle" => blockno[buf[p]] = want[p]

(* What was stored last is what the next bread finds, in a valid buffer or *)
(* on the disk.                                                            *)
NothingLost ==
    \A k \in Blocks :
        IF \E b \in Caching(k) : valid[b]
        THEN \A b \in Caching(k) : data[b] = latest[k]
        ELSE disk[k] = latest[k]

(* A process asleep in acquiresleep waits for somebody who holds the lock. *)
WakeupDue == \A p \in Procs : pc[p] = "asleep" => locked[buf[p]] # 0

(* Each block is a register that is passed from process to process whole,  *)
(* whichever buffers are recycled and whoever sleeps.                      *)
BlocksPassedOn == OneCopy /\ NotRecycled /\ NothingLost /\ WakeupDue
=============================================================================

-------------------------------- MODULE XvLog --------------------------------
(***************************************************************************)
(* The logging layer of the xv6 file system (log.c) with the part of the   *)
(* buffer cache it relies on (bio.c): a redo log shared by concurrent      *)
(* system calls, committed as a group by the last end_op.  The disk        *)
(* writes one block at a time and the machine may stop between any two.    *)
(***************************************************************************)
EXTENDS Integers, Sequences, FiniteSets

CONSTANTS
    Procs, Blocks, Vals,
    MAXOPBLOCKS, LOGBLOCKS

VARIABLES
    home,               \* the blocks in their places, on disk
    slots, head,        \* the log on disk: its blocks, and its header
    lh,                 \* log.lh: the block numbers, in log order
    outstanding, committing,
    cache,              \* the buffers: a block's contents in memory
    wrote,              \* the blocks each operation has logged so far
    pc,                 \* the processes
    kernel, tail        \* where boot or the commit is, or "panic"

vars == <<home, slots, head, lh, outstanding, committing, cache, wrote, pc, kernel, tail>>

Slots == 1..LOGBLOCKS
Booting == kernel \in {"boot", "recover", "clear"}
ToSet(s) == {s[i] : i \in DOMAIN s}

(* mkfs: the log is empty. *)
Init ==
    /\ home \in {[b \in Blocks |-> v] : v \in Vals}
    /\ slots = [i \in Slots |-> CHOOSE v \in Vals : TRUE]
    /\ head = <<>> /\ lh = <<>>
    /\ outstanding = 0 /\ committing = FALSE
    /\ cache = home
    /\ wrote = [p \in Procs |-> {}]
    /\ pc = [p \in Procs |-> "user"]
    /\ kernel = "up" /\ tail = 1

-----------------------------------------------------------------------------
(* System calls.                                                           *)

(* Mutant: the operation about to start is not counted. *)
NoRoomWithout == Len(lh) + outstanding * MAXOPBLOCKS > LOGBLOCKS

NoRoom == Len(lh) + (outstanding + 1) * MAXOPBLOCKS > LOGBLOCKS

BeginOp(p) ==
    /\ ~Booting /\ kernel # "panic" /\ pc[p] = "user"
    /\ IF committing \/ NoRoom
       THEN /\ pc' = [pc EXCEPT ![p] = "asleep"]
            /\ UNCHANGED outstanding
       ELSE /\ pc' = [pc EXCEPT ![p] = "op"]
            /\ outstanding' = outstanding + 1
    /\ UNCHANGED <<home, slots, head, lh, committing, cache, wrote, kernel, tail>>

(* log_write's panics, tested before it looks for the block in the log: a  *)
(* full log refuses even a block that is already in it.                    *)
Refused == Len(lh) >= LOGBLOCKS \/ outstanding < 1

(* No operation changes more than MAXOPBLOCKS blocks. *)
MayAdd(p) == Cardinality(wrote[p]) < MAXOPBLOCKS

(* bread, the change to the buffer, log_write and brelse, all under the    *)
(* buffer's lock; a block already in the log is absorbed.  A panic stops   *)
(* the machine with log.lock held.                                         *)
LogWrite(p, b, v) ==
    /\ pc[p] = "op" /\ kernel # "panic"
    /\ b \in wrote[p] \/ MayAdd(p)
    /\ cache' = [cache EXCEPT ![b] = v]
    /\ IF Refused
       THEN kernel' = "panic" /\ UNCHANGED <<lh, wrote>>
       ELSE /\ lh' = IF b \in ToSet(lh) THEN lh ELSE Append(lh, b)
            /\ wrote' = [wrote EXCEPT ![p] = @ \cup {b}]
            /\ UNCHANGED kernel
    /\ UNCHANGED <<home, slots, head, outstanding, committing, pc, tail>>

Woken == [p \in Procs |-> IF pc[p] = "asleep" THEN "user" ELSE pc[p]]

(* Mutant: any end_op commits. *)
EndOpCommits(p) ==
    /\ pc[p] = "op" /\ ~committing /\ kernel # "panic"
    /\ outstanding' = outstanding - 1
    /\ wrote' = [wrote EXCEPT ![p] = {}]
    /\ pc' = [pc EXCEPT ![p] = "commit"]
    /\ committing' = TRUE
    /\ kernel' = IF lh = <<>> THEN "done" ELSE "write_log"
    /\ UNCHANGED <<home, slots, head, lh, cache, tail>>

(* end_op panics too, should a commit be under way. *)
EndOp(p) ==
    /\ pc[p] = "op" /\ kernel # "panic"
    /\ outstanding' = outstanding - 1
    /\ IF committing
       THEN kernel' = "panic" /\ UNCHANGED <<pc, wrote, committing>>
       ELSE /\ wrote' = [wrote EXCEPT ![p] = {}]
            /\ IF outstanding = 1
               THEN /\ committing' = TRUE
                    /\ pc' = [pc EXCEPT ![p] = "commit"]
                    /\ kernel' = IF lh = <<>> THEN "done" ELSE "write_log"
               ELSE /\ pc' = [Woken EXCEPT ![p] = "user"]
                    /\ UNCHANGED <<committing, kernel>>
    /\ UNCHANGED <<home, slots, head, lh, cache, tail>>

(* bget recycles the buffer of a block that is not pinned: the next bread  *)
(* reads the disk.                                                         *)
Recycle(b) ==
    /\ kernel = "up" /\ b \notin ToSet(lh)
    /\ cache' = [cache EXCEPT ![b] = home[b]]
    /\ UNCHANGED <<home, slots, head, lh, outstanding, committing, wrote, pc, kernel, tail>>

-----------------------------------------------------------------------------
(* commit, by the process that ended the last operation.                   *)

(* The loops of write_log and install_trans go on, or next follows. *)
Advance(next) ==
    IF tail < Len(lh) THEN tail' = tail + 1 /\ UNCHANGED kernel
    ELSE tail' = 1 /\ kernel' = next

WriteLog ==
    /\ kernel = "write_log"
    /\ slots' = [slots EXCEPT ![tail] = cache[lh[tail]]]
    /\ Advance("write_head")
    /\ UNCHANGED <<home, head, lh, outstanding, committing, cache, wrote, pc>>

(* write_head: the commit point. *)
WriteHead ==
    /\ kernel = "write_head"
    /\ head' = lh
    /\ kernel' = "install"
    /\ UNCHANGED <<home, slots, lh, outstanding, committing, cache, wrote, pc, tail>>

(* install_trans, of a commit or of recovery: the block is read from the   *)
(* log and written to its place through its buffer.                        *)
Install(stage, next) ==
    /\ kernel = stage
    /\ IF lh = <<>> THEN kernel' = next /\ UNCHANGED <<home, cache, tail>>
       ELSE /\ home' = [home EXCEPT ![lh[tail]] = slots[tail]]
            /\ cache' = [cache EXCEPT ![lh[tail]] = slots[tail]]
            /\ Advance(next)
    /\ UNCHANGED <<slots, head, lh, outstanding, committing, wrote, pc>>

(* lh.n = 0 and write_head again: the log is empty. *)
Erase(stage, next) ==
    /\ kernel = stage
    /\ lh' = <<>> /\ head' = <<>>
    /\ kernel' = next
    /\ UNCHANGED <<home, slots, outstanding, committing, cache, wrote, pc, tail>>

(* Back in end_op. *)
Done ==
    /\ kernel = "done"
    /\ committing' = FALSE
    /\ kernel' = "up"
    /\ pc' = [p \in Procs |-> IF pc[p] = "commit" THEN "user" ELSE Woken[p]]
    /\ UNCHANGED <<home, slots, head, lh, outstanding, cache, wrote, tail>>

-----------------------------------------------------------------------------
(* The machine stops and boots: initlog, recover_from_log.                 *)

Crash ==
    /\ kernel' = "boot" /\ tail' = 1
    /\ cache' = home /\ lh' = <<>>
    /\ outstanding' = 0 /\ committing' = FALSE
    /\ wrote' = [p \in Procs |-> {}]
    /\ pc' = [p \in Procs |-> "user"]
    /\ UNCHANGED <<home, slots, head>>

ReadHead ==
    /\ kernel = "boot"
    /\ lh' = head
    /\ kernel' = "recover"
    /\ UNCHANGED <<home, slots, head, outstanding, committing, cache, wrote, pc, tail>>

Next ==
    \/ \E p \in Procs :
         BeginOp(p) \/ EndOp(p) \/ \E b \in Blocks, v \in Vals : LogWrite(p, b, v)
    \/ \E b \in Blocks : Recycle(b)
    \/ WriteLog \/ WriteHead \/ Install("install", "erase") \/ Erase("erase", "done") \/ Done
    \/ Crash \/ ReadHead \/ Install("recover", "clear") \/ Erase("clear", "up")

Spec == Init /\ [][Next]_vars

-----------------------------------------------------------------------------
(* Properties.                                                             *)

(* What recovery would leave in a block if the machine stopped now. *)
Durable ==
    [b \in Blocks |-> IF b \in ToSet(head) THEN slots[CHOOSE i \in DOMAIN head : head[i] = b]
                      ELSE home[b]]
Seen == IF Booting THEN Durable ELSE cache
InOp == outstanding > 0 \/ committing

A == INSTANCE AtomicDisk WITH disk <- Durable, view <- Seen, inOp <- InOp

(* The group of operations reaches the disk as one, wherever the machine   *)
(* stops, and the last end_op returns only when it has.                    *)
ImplementsAtomicDisk == A!Spec

(* The disk takes on a group only when none of its operations is half way. *)
NoHalfOp == [][Durable' # Durable => \A p \in Procs : pc[p] # "op"]_vars

(* No block that an operation may log is refused.  The machine can panic   *)
(* only when the log is full because every operation under way has logged  *)
(* all the blocks it may, one of them writes such a block again, and no    *)
(* commit is going on.                                                     *)
Reservation ==
    kernel = "panic" =>
        /\ Len(lh) = LOGBLOCKS /\ outstanding >= 1 /\ ~committing
        /\ \A p \in Procs : pc[p] = "op" => ~MayAdd(p)

(* Whoever still sleeps in begin_op has to: the log is being committed or  *)
(* too full.                                                               *)
SleepersBlocked == \A p \in Procs : pc[p] = "asleep" => committing \/ NoRoom

(* What a system call relies on. *)
LogWorks == ImplementsAtomicDisk /\ NoHalfOp /\ [](Reservation /\ SleepersBlocked)
=============================================================================

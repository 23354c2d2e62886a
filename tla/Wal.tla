-------------------------------- MODULE Wal --------------------------------
(***************************************************************************)
(* The write-ahead log of lab09 (wal.py) over the crashable block device   *)
(* (blockdev.py).  A step is one write issued to the device, or one        *)
(* install of a queued write while a barrier drains; the power may fail    *)
(* before each, in recovery too.  A block is installed whole or not at     *)
(* all, which is the assumption the lab makes.                             *)
(*                                                                         *)
(* The sequence number of the log header is left out: nothing but the      *)
(* tool's output depends on it.                                            *)
(***************************************************************************)
EXTENDS Integers, Sequences

CONSTANTS
    Meta,       \* the blocks written with write
    Data,       \* the blocks written with write_data
    Vals,       \* their contents
    LogCap,     \* xv6fs.LOGCAP: log slots
    Header,     \* the log header block
    Mode        \* Journal.mode: "data" or "ordered"

Homes == Meta \cup Data
Slots == 1..LogCap
Blocks == Homes \cup Slots \cup {Header}

ASSUME BlocksAssumption ==
    /\ LogCap \in Nat \ {0}
    /\ Meta \cap Data = {}
    /\ Homes \cap Slots = {} /\ Header \notin Homes \cup Slots
ASSUME ModeAssumption == Mode \in {"data", "ordered"}

VARIABLES
    platter,    \* the durable blocks; a header is its sequence of destinations
    queue,      \* BlockDev.queue: records bno, data in issue order
    devmode,    \* BlockDev.mode: "fifo" or "reorder"
    pc,         \* where the program is
    k,          \* the loop index of end_op and recover
    order,      \* Journal.order, and dests in recover
    buf,        \* Journal.buf
    direct      \* what write_data wrote straight to the device in this operation

dev == <<platter, queue, devmode>>
txn == <<order, buf, direct>>
vars == <<dev, pc, k, txn>>

(* closed: recovered, not opened; idle: no operation; op: inside one; then *)
(* the steps of end_op in order, and those of recover; down: crashed.      *)
EndOpSteps == {"data", "log", "logged", "commit", "committed",
               "checkpoint", "checked", "free", "freed"}
RecoverSteps == {"replay", "replayed", "clear", "cleared"}
Places == {"down", "closed", "idle", "op"} \cup EndOpSteps \cup RecoverSteps

Empty == [b \in {} |-> 0]
Set(f, b, v) == [x \in DOMAIN f \cup {b} |-> IF x = b THEN v ELSE f[x]]

-----------------------------------------------------------------------------
(* The device.                                                             *)

Pending(b) == {i \in DOMAIN queue : queue[i].bno = b}

(* BlockDev.read: a pending write is seen before the platter. *)
DevRead(b) ==
    IF Pending(b) = {} THEN platter[b]
    ELSE queue[CHOOSE i \in Pending(b) : \A j \in Pending(b) : j <= i].data

(* BlockDev.write: fifo installs at once; reorder queues, and a second     *)
(* write of a queued block takes the place of the first.                   *)
DevWrite(b, d) ==
    /\ IF devmode = "fifo"
       THEN platter' = [platter EXCEPT ![b] = d] /\ UNCHANGED queue
       ELSE /\ queue' = IF Pending(b) = {}
                        THEN Append(queue, [bno |-> b, data |-> d])
                        ELSE [i \in DOMAIN queue |->
                                IF i \in Pending(b) THEN [bno |-> b, data |-> d] ELSE queue[i]]
            /\ UNCHANGED platter
    /\ UNCHANGED devmode

(* One install of BlockDev.barrier, which drains the queue from its end. *)
Install ==
    /\ queue # <<>>
    /\ LET w == queue[Len(queue)] IN platter' = [platter EXCEPT ![w.bno] = w.data]
    /\ queue' = SubSeq(queue, 1, Len(queue) - 1)
    /\ UNCHANGED devmode

(* A program at the step from waits there for its barrier, then goes on. *)
Barrier(from, to) ==
    /\ pc = from
    /\ \/ Install /\ UNCHANGED <<pc, k>>
       \/ queue = <<>> /\ pc' = to /\ k' = 1 /\ UNCHANGED dev
    /\ UNCHANGED txn

-----------------------------------------------------------------------------
(* The journal.                                                            *)

Init ==
    /\ \E home \in [Homes -> Vals], slot \in [Slots -> Vals] :
         platter = [b \in Blocks |-> IF b \in Homes THEN home[b]
                                     ELSE IF b \in Slots THEN slot[b] ELSE <<>>]
    /\ queue = <<>> /\ devmode = "fifo"
    /\ pc = "closed" /\ k = 1
    /\ order = <<>> /\ buf = Empty /\ direct = Empty

Open(m) ==
    /\ pc = "closed"
    /\ pc' = "idle" /\ devmode' = m
    /\ UNCHANGED <<platter, queue, k, txn>>

BeginOp ==
    /\ pc = "idle"
    /\ pc' = "op"
    /\ order' = <<>> /\ buf' = Empty /\ direct' = Empty
    /\ UNCHANGED <<dev, k>>

(* Mutant: no test against the size of the log. *)
WriteUnbounded(b, v) ==
    /\ pc = "op"
    /\ order' = IF b \in DOMAIN buf THEN order ELSE Append(order, b)
    /\ buf' = Set(buf, b, v)
    /\ UNCHANGED <<dev, pc, k, direct>>

(* Journal.write: buffered in memory, in the order of the first writes. *)
Write(b, v) ==
    /\ pc = "op"
    /\ b \in DOMAIN buf \/ Len(order) < LogCap
    /\ order' = IF b \in DOMAIN buf THEN order ELSE Append(order, b)
    /\ buf' = Set(buf, b, v)
    /\ UNCHANGED <<dev, pc, k, direct>>

(* Journal.write_data in ordered mode: in place, before the commit. *)
WriteDirect(b, v) ==
    /\ pc = "op"
    /\ DevWrite(b, v)
    /\ direct' = Set(direct, b, v)
    /\ UNCHANGED <<pc, k, order, buf>>

WriteData(b, v) == IF Mode = "ordered" THEN WriteDirect(b, v) ELSE Write(b, v)

(* Mutant: ordered mode without the barrier of step 0. *)
EndOpNoDataBarrier ==
    /\ pc = "op"
    /\ pc' = "log" /\ k' = 1
    /\ UNCHANGED <<dev, txn>>

(* end_op begins: in ordered mode with the barrier of step 0. *)
EndOp ==
    /\ pc = "op"
    /\ pc' = IF DOMAIN direct # {} THEN "data" ELSE "log"
    /\ k' = 1
    /\ UNCHANGED <<dev, txn>>

(* Step 1: the blocks to the log slots. *)
LogBlock ==
    /\ pc = "log"
    /\ IF k <= Len(order)
       THEN DevWrite(k, buf[order[k]]) /\ k' = k + 1 /\ UNCHANGED pc
       ELSE pc' = "logged" /\ UNCHANGED <<dev, k>>
    /\ UNCHANGED txn

Logged == Barrier("logged", "commit")

(* Step 3: the commit record. *)
Commit ==
    /\ pc = "commit"
    /\ DevWrite(Header, order)
    /\ pc' = "committed"
    /\ UNCHANGED <<k, txn>>

(* Step 5: the blocks to their homes. *)
Checkpoint ==
    /\ pc = "checkpoint"
    /\ IF k <= Len(order)
       THEN DevWrite(order[k], buf[order[k]]) /\ k' = k + 1 /\ UNCHANGED pc
       ELSE pc' = "checked" /\ UNCHANGED <<dev, k>>
    /\ UNCHANGED txn

(* Step 7: the header with n = 0. *)
Free ==
    /\ pc = "free"
    /\ DevWrite(Header, <<>>)
    /\ pc' = "freed"
    /\ UNCHANGED <<k, txn>>

(* Step 8, and end_op returns. *)
Freed ==
    /\ pc = "freed"
    /\ \/ Install /\ UNCHANGED <<pc, k, txn>>
       \/ /\ queue = <<>>
          /\ pc' = "idle"
          /\ order' = <<>> /\ buf' = Empty
          /\ UNCHANGED <<dev, k, direct>>

Barriers ==
    \/ Barrier("data", "log") \/ Logged \/ Barrier("committed", "checkpoint")
    \/ Barrier("checked", "free") \/ Freed

-----------------------------------------------------------------------------
(* Crash and recovery.                                                     *)

(* The power fails: the queue and everything in memory is lost. *)
Crash ==
    /\ pc # "down"
    /\ pc' = "down" /\ k' = 1
    /\ queue' = <<>>
    /\ order' = <<>> /\ buf' = Empty /\ direct' = Empty
    /\ UNCHANGED <<platter, devmode>>

(* recover(dev): is there a committed transaction?  The journal tool opens *)
(* a fifo device for it; recover itself takes either kind.                 *)
Recover(m) ==
    /\ pc = "down"
    /\ devmode' = m
    /\ order' = platter[Header]
    /\ pc' = IF platter[Header] = <<>> THEN "closed" ELSE "replay"
    /\ k' = 1
    /\ UNCHANGED <<platter, queue, buf, direct>>

(* Mutant: the header is cleared without waiting for the replays. *)
ClearAtOnce ==
    /\ pc \in {"replayed", "clear"}
    /\ DevWrite(Header, <<>>)
    /\ pc' = "cleared"
    /\ UNCHANGED <<k, txn>>

Replay ==
    /\ pc = "replay"
    /\ IF k <= Len(order)
       THEN DevWrite(order[k], DevRead(k)) /\ k' = k + 1 /\ UNCHANGED pc
       ELSE pc' = "replayed" /\ UNCHANGED <<dev, k>>
    /\ UNCHANGED txn

Clear ==
    /\ pc = "clear"
    /\ DevWrite(Header, <<>>)
    /\ pc' = "cleared"
    /\ UNCHANGED <<k, txn>>

Next ==
    \/ \E m \in {"fifo", "reorder"} : Open(m) \/ Recover(m)
    \/ BeginOp
    \/ \E b \in Meta, v \in Vals : Write(b, v)
    \/ \E b \in Data, v \in Vals : WriteData(b, v)
    \/ EndOp \/ LogBlock \/ Commit \/ Checkpoint \/ Free \/ Barriers
    \/ Crash \/ Replay \/ Clear
    \/ Barrier("replayed", "clear") \/ Barrier("cleared", "closed")

Spec == Init /\ [][Next]_vars

-----------------------------------------------------------------------------
(* Properties.                                                             *)

(* The blocks the log protects. *)
Tracked == IF Mode = "data" THEN Homes ELSE Meta

(* A transaction fits the log and names no block twice. *)
FitsLog(dests) ==
    /\ dests \in Seq(Tracked)
    /\ Len(dests) <= LogCap
    /\ \A i, j \in DOMAIN dests : dests[i] = dests[j] => i = j

(* Type correctness; what is in the header, and what is to go there, fits  *)
(* the log.                                                                *)
TypeOK ==
    /\ DOMAIN platter = Blocks
    /\ \A b \in Homes \cup Slots : platter[b] \in Vals
    /\ FitsLog(platter[Header])
    /\ queue \in Seq([bno : Homes \cup Slots, data : Vals]
                      \cup [bno : {Header}, data : Seq(Tracked)])
    /\ devmode \in {"fifo", "reorder"}
    /\ pc \in Places
    /\ k \in 1..(LogCap + 1)
    /\ FitsLog(order)
    /\ DOMAIN buf \subseteq Tracked /\ \A b \in DOMAIN buf : buf[b] \in Vals
    /\ DOMAIN direct \subseteq Homes \ Tracked /\ \A b \in DOMAIN direct : direct[b] \in Vals

(* The homes as they are once recover has run on this platter. *)
Recovered ==
    LET dests == platter[Header] IN
    [b \in Tracked |->
       IF \E i \in DOMAIN dests : dests[i] = b
       THEN platter[CHOOSE i \in DOMAIN dests : dests[i] = b]
       ELSE platter[b]]

(* Journal.read *)
Read(b) == IF b \in DOMAIN buf THEN buf[b] ELSE DevRead(b)

InOp == pc \in {"op"} \cup EndOpSteps

View == IF InOp \/ pc = "idle" THEN [b \in Tracked |-> Read(b)] ELSE Recovered

Disk == INSTANCE AtomicDisk WITH
            Blocks <- Tracked, disk <- Recovered, view <- View, inOp <- InOp

(* Whatever the power does, in an operation, in end_op or in recovery, the *)
(* protected blocks are as if operations took effect at once; an operation *)
(* whose end_op returned is never lost; reads see the operation's writes.  *)
ImplementsAtomicDisk == Disk!Spec

(* Ordered mode: nothing of an operation reaches the log before the data   *)
(* it wrote in place is durable.                                           *)
DataBeforeJournal ==
    pc \in EndOpSteps \ {"data"} => \A b \in DOMAIN direct : platter[b] = direct[b]
=============================================================================

-------------------------------- MODULE Pipe --------------------------------
(***************************************************************************)
(* The pipe of the xv6 kernel (pipe.c): a ring of bytes between the        *)
(* processes that hold its write end and those that hold its read end.     *)
(* pi->lock is held over a whole transfer and only sleep gives it up, so   *)
(* its holder is kept and a byte is one step: kill, which does not take    *)
(* that lock, may come between two bytes.  What a byte is makes no         *)
(* difference to the pipe: each is the number of its place in the stream.  *)
(***************************************************************************)
EXTENDS Integers, Sequences, FiniteSets

CONSTANTS
    Procs,
    Given,      \* the ends each process has once the forks and closes are done
    PIPESIZE,
    Wrap,       \* nread and nwrite are taken modulo this; 2^32 in the code
    MaxCount,   \* bound: the largest n of a read or a write
    MaxKilled   \* bound: how many processes are killed

VARIABLES
    data, nread, nwrite, readopen, writeopen,   \* struct pipe
    lock,               \* the holder of pi->lock, or 0
    ends,               \* the ends of the pipe p has open, of "r" and "w"
    pc, todo,           \* where p is, and n - i
    killed,
    got                 \* history: the last byte taken, <<>> if none

vars == <<data, nread, nwrite, readopen, writeopen, lock, ends, pc, todo, killed, got>>

Count == (nwrite - nread) % Wrap
Full == nwrite = (nread + PIPESIZE) % Wrap
Empty == nread = nwrite

(* pipealloc, and the forks that hand its ends to the processes. *)
Init ==
    /\ data = [k \in 0..(PIPESIZE - 1) |-> 0]
    /\ nread = Wrap - 1 /\ nwrite = nread
    /\ ends = Given
    /\ readopen = TRUE /\ writeopen = TRUE
    /\ lock = 0
    /\ pc = [p \in Procs |-> "user"]
    /\ todo = [p \in Procs |-> 0]
    /\ killed = [p \in Procs |-> FALSE]
    /\ got = <<>>

(* wakeup(&pi->nread) and wakeup(&pi->nwrite): those who slept there take  *)
(* the lock again and go on with their loop.                               *)
Woken(from, to) == [q \in Procs |-> IF pc[q] = from THEN to ELSE pc[q]]
WakeReaders == Woken("rsleep", "r")
WakeWriters == Woken("wsleep", "w")

(* read or write: the lock is taken at once or waited for, which nobody    *)
(* can tell.  Back from sleep it is taken again.                           *)
Inside(end) == IF end = "r" THEN "empty?" ELSE "more?"

Call(p, end, n) ==
    /\ pc[p] = "user" /\ ~killed[p] /\ end \in ends[p] /\ lock = 0
    /\ lock' = p
    /\ pc' = [pc EXCEPT ![p] = Inside(end)]
    /\ todo' = [todo EXCEPT ![p] = n]
    /\ UNCHANGED <<data, nread, nwrite, readopen, writeopen, ends, killed, got>>

Reacquire(p) ==
    /\ pc[p] \in {"r", "w"} /\ lock = 0
    /\ lock' = p
    /\ pc' = [pc EXCEPT ![p] = Inside(@)]
    /\ UNCHANGED <<data, nread, nwrite, readopen, writeopen, ends, todo, killed, got>>

In(p, place) == lock = p /\ pc[p] = place

(* release, with or without a wakeup before it, and the return. *)
Leave(p, woken) ==
    /\ lock' = 0
    /\ pc' = [woken EXCEPT ![p] = "user"]
    /\ todo' = [todo EXCEPT ![p] = 0]

SleepOn(p, woken, place) ==
    /\ lock' = 0
    /\ pc' = [woken EXCEPT ![p] = place]
    /\ UNCHANGED todo

-----------------------------------------------------------------------------
(* pipewrite.                                                              *)

NoReader(p) ==
    /\ In(p, "more?") /\ todo[p] > 0
    /\ ~readopen \/ killed[p]
    /\ Leave(p, pc)
    /\ UNCHANGED <<data, nread, nwrite, readopen, writeopen, ends, killed, got>>

(* The loop's two tests said no: a kill that comes now is not seen. *)
MayWrite(p) ==
    /\ In(p, "more?") /\ todo[p] > 0
    /\ readopen /\ ~killed[p]
    /\ pc' = [pc EXCEPT ![p] = "put"]
    /\ UNCHANGED <<data, nread, nwrite, readopen, writeopen, lock, ends, todo, killed, got>>

WaitForRoom(p) ==
    /\ In(p, "put") /\ Full
    /\ SleepOn(p, WakeReaders, "wsleep")
    /\ UNCHANGED <<data, nread, nwrite, readopen, writeopen, ends, killed, got>>

(* Mutant: the test for a full ring is off by one. *)
PutLate(p) ==
    /\ In(p, "put") /\ nwrite # (nread + PIPESIZE + 1) % Wrap
    /\ data' = [data EXCEPT ![nwrite % PIPESIZE] = nwrite]
    /\ nwrite' = (nwrite + 1) % Wrap
    /\ todo' = [todo EXCEPT ![p] = @ - 1]
    /\ pc' = [pc EXCEPT ![p] = "more?"]
    /\ UNCHANGED <<nread, readopen, writeopen, lock, ends, killed, got>>

Put(p) ==
    /\ In(p, "put") /\ ~Full
    /\ data' = [data EXCEPT ![nwrite % PIPESIZE] = nwrite]
    /\ nwrite' = (nwrite + 1) % Wrap
    /\ todo' = [todo EXCEPT ![p] = @ - 1]
    /\ pc' = [pc EXCEPT ![p] = "more?"]
    /\ UNCHANGED <<nread, readopen, writeopen, lock, ends, killed, got>>

(* All is written, or copyin fails: the readers are woken. *)
Written(p) ==
    /\ (In(p, "put") /\ ~Full) \/ (In(p, "more?") /\ todo[p] = 0)
    /\ Leave(p, WakeReaders)
    /\ UNCHANGED <<data, nread, nwrite, readopen, writeopen, ends, killed, got>>

-----------------------------------------------------------------------------
(* piperead.                                                               *)

(* Nothing to read, somebody may still write: -1 if killed. *)
NothingYet(p) == In(p, "empty?") /\ Empty /\ writeopen

GiveUp(p) ==
    /\ NothingYet(p) /\ killed[p]
    /\ Leave(p, pc)
    /\ UNCHANGED <<data, nread, nwrite, readopen, writeopen, ends, killed, got>>

WillSleep(p) ==
    /\ NothingYet(p) /\ ~killed[p]
    /\ pc' = [pc EXCEPT ![p] = "rest"]
    /\ UNCHANGED <<data, nread, nwrite, readopen, writeopen, lock, ends, todo, killed, got>>

WaitForBytes(p) ==
    /\ In(p, "rest")
    /\ SleepOn(p, pc, "rsleep")
    /\ UNCHANGED <<data, nread, nwrite, readopen, writeopen, ends, killed, got>>

(* The loop of the copy begins: bytes, or the end of the file. *)
MayRead(p) ==
    /\ In(p, "empty?") /\ (~Empty \/ ~writeopen)
    /\ pc' = [pc EXCEPT ![p] = "take"]
    /\ UNCHANGED <<data, nread, nwrite, readopen, writeopen, lock, ends, todo, killed, got>>

(* A byte is taken; if copyout fails it is lost and the read ends. *)
Take(p) ==
    /\ In(p, "take") /\ todo[p] > 0 /\ ~Empty
    /\ nread' = (nread + 1) % Wrap
    /\ got' = <<data[nread % PIPESIZE]>>
    /\ \/ todo' = [todo EXCEPT ![p] = @ - 1]
       \/ todo' = [todo EXCEPT ![p] = 0]
    /\ UNCHANGED <<data, nwrite, readopen, writeopen, lock, ends, pc, killed>>

(* Mutant: the writers are not woken. *)
ReadDoneQuietly(p) ==
    /\ In(p, "take") /\ (todo[p] = 0 \/ Empty)
    /\ Leave(p, pc)
    /\ UNCHANGED <<data, nread, nwrite, readopen, writeopen, ends, killed, got>>

ReadDone(p) ==
    /\ In(p, "take") /\ (todo[p] = 0 \/ Empty)
    /\ Leave(p, WakeWriters)
    /\ UNCHANGED <<data, nread, nwrite, readopen, writeopen, ends, killed, got>>

-----------------------------------------------------------------------------
(* close and exit: pipeclose when it is the last reference to the end.     *)

LastTo(p, end) == \A q \in Procs \ {p} : end \notin ends[q]

(* Mutant: closing the write end wakes nobody. *)
CloseQuietly(p, end) ==
    /\ pc[p] = "user" /\ lock = 0 /\ end \in ends[p]
    /\ ends' = [ends EXCEPT ![p] = @ \ {end}]
    /\ writeopen' = IF end = "w" /\ LastTo(p, end) THEN FALSE ELSE writeopen
    /\ readopen' = IF end = "r" /\ LastTo(p, end) THEN FALSE ELSE readopen
    /\ pc' = IF end = "r" /\ LastTo(p, end) THEN WakeWriters ELSE pc
    /\ UNCHANGED <<data, nread, nwrite, lock, todo, killed, got>>

Close(p, end) ==
    /\ pc[p] = "user" /\ lock = 0 /\ end \in ends[p]
    /\ ends' = [ends EXCEPT ![p] = @ \ {end}]
    /\ IF LastTo(p, end)
       THEN /\ writeopen' = IF end = "w" THEN FALSE ELSE writeopen
            /\ readopen' = IF end = "r" THEN FALSE ELSE readopen
            /\ pc' = IF end = "w" THEN WakeReaders ELSE WakeWriters
       ELSE UNCHANGED <<writeopen, readopen, pc>>
    /\ UNCHANGED <<data, nread, nwrite, lock, todo, killed, got>>

(* kkill: a sleeper becomes runnable.  Elsewhere than in a transfer all    *)
(* the pipe sees of it is the closing of the ends.                         *)
Kill(p) ==
    /\ Cardinality({q \in Procs : killed[q]}) < MaxKilled
    /\ ~killed[p] /\ pc[p] # "user"
    /\ killed' = [killed EXCEPT ![p] = TRUE]
    /\ pc' = [pc EXCEPT ![p] = IF @ = "rsleep" THEN "r" ELSE IF @ = "wsleep" THEN "w" ELSE @]
    /\ UNCHANGED <<data, nread, nwrite, readopen, writeopen, lock, ends, todo, got>>

Step(p) ==
    \/ Reacquire(p)
    \/ NoReader(p) \/ MayWrite(p) \/ WaitForRoom(p) \/ Put(p) \/ Written(p)
    \/ GiveUp(p) \/ WillSleep(p) \/ WaitForBytes(p) \/ MayRead(p) \/ Take(p) \/ ReadDone(p)

Next ==
    \E p \in Procs :
      \/ Step(p) \/ Kill(p)
      \/ \E end \in {"r", "w"} : Close(p, end) \/ \E n \in 1..MaxCount : Call(p, end, n)

Spec == Init /\ [][Next]_vars

-----------------------------------------------------------------------------
(* Properties.                                                             *)

queue == [i \in 1..Count |-> data[(nread + i - 1) % PIPESIZE]]
taken == [c \in {"readers"} |-> got]
F == INSTANCE Fifo WITH Items <- 0..(Wrap - 1), Consumers <- {"readers"}, Capacity <- PIPESIZE, got <- taken

(* Through the wrap of its counters, concurrent readers and writers, kills *)
(* and closes, the pipe is a bounded queue: every byte that was put is     *)
(* taken once, in order.                                                   *)
ImplementsFifo == F!Spec

(* When nobody is inside, a sleeping writer has no room and somebody may   *)
(* still read.                                                             *)
WritersBlocked == lock = 0 => \A p \in Procs : pc[p] = "wsleep" => Full /\ readopen

(* And a sleeping reader has nothing to read, and somebody may still write.*)
(* A writer killed between two bytes is the exception: it leaves without   *)
(* waking the readers of those it has put.                                 *)
ReadersBlocked ==
    lock = 0 => \A p \in Procs : pc[p] = "rsleep" =>
        (Empty \/ \E q \in Procs : killed[q]) /\ writeopen

(* What the users of a pipe rely on: the queue, and no lost wake-up. *)
PipeWorks == ImplementsFifo /\ [](WritersBlocked /\ ReadersBlocked)
=============================================================================

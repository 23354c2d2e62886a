------------------------------- MODULE MCSafety -------------------------------
(***************************************************************************)
(* For TLC: the components whose promises are safety properties: the log   *)
(* of lab09, the bounded buffer and the user-level threads of lab05, the   *)
(* RAID engine of lab06, the heap of lab03, the launcher of lab11, and of  *)
(* the xv6 kernel the file system, the pipe, the console, the processes    *)
(* and the switch between them.  A behaviour is that of one component,     *)
(* picked by subject; the others stay as they were initialised.            *)
(***************************************************************************)
EXTENDS Wal, BufferSizes

CONSTANTS
    Shapes,                 \* of Raid
    Arena, MaxSize,         \* of Heap
    UTHREAD_MAX, MaxTid,    \* of Uthread
    NPROC,                  \* of Proc
    InoProcs, InoNames, Inums,  \* of Inodes
    NCPU, NTHREADS,         \* of Smp
    LogProcs, LogBlocks, LogVals, MAXOPBLOCKS, LOGBLOCKS,       \* of XvLog
    PipeProcs, PipeEnds, PIPESIZE, PipeWrap, MaxTransfer, PipeKills,    \* of Pipe
    ConsProcs, ConsKeys, INPUT_BUF_SIZE, ConsWrap, MaxRead, ConsKills,  \* of Console
    BigFiles, NBlocks, NDIRECT, NINDIRECT   \* of BigFile

VARIABLES
    subject,
    slots, count, head, tail, lock, pcbPc, item, pcbGot,
    shape, parity_mode, disk, failed, last, stale, beyond,
    size, flags, free, fit_policy, coalesce_on, live,
    home, logSlots, logHead, lh, outstanding, committing, cache, wrote, logPc, kernel,
    logTail,
    pipeData, nread, nwrite, readopen, writeopen, pipeLock, ends, pipePc, todo, pipeKilled,
    pipeGot,
    used, addrs, fsize, words,
    dir, type, nlink, saved, ref, valid, dpLock, ipLock, inoPc, ip, name, inoFile, up,
    userns, limits, launchPc, cpc, byte, armed, maps, cgroup,
    state, tid, next_tid, stack, utQueue, on, t, passed,
    procState, parent, killed, wait_lock, procPc, child,
    intr, noff, intena, running, at, cpuK, irq, irqI, smpState, sleeping, p_lock, smpPc,
    below, smpSaved, tx_lock, tx_busy, sending, pending,
    cons, consR, consW, consE, consLock, consPc, consN, some, consKilled, consRead

bufferVars == <<slots, count, head, tail, lock, pcbPc, item, pcbGot>>
raidVars == <<shape, parity_mode, disk, failed, last, stale, beyond>>
heapVars == <<size, flags, free, fit_policy, coalesce_on, live>>
logVars == <<home, logSlots, logHead, lh, outstanding, committing, cache, wrote, logPc,
             kernel, logTail>>
pipeVars == <<pipeData, nread, nwrite, readopen, writeopen, pipeLock, ends, pipePc, todo,
              pipeKilled, pipeGot>>
bigfileVars == <<used, addrs, fsize, words>>
inodeVars == <<dir, type, nlink, saved, ref, valid, dpLock, ipLock, inoPc, ip, name,
               inoFile, up>>
launcherVars == <<userns, limits, launchPc, cpc, byte, armed, maps, cgroup>>
uthreadVars == <<state, tid, next_tid, stack, utQueue, on, t, passed>>
procVars == <<procState, parent, killed, wait_lock, procPc, child>>
smpVars == <<intr, noff, intena, running, at, cpuK, irq, irqI, smpState, sleeping, p_lock,
             smpPc, below, smpSaved, tx_lock, tx_busy, sending, pending>>
consoleVars == <<cons, consR, consW, consE, consLock, consPc, consN, some, consKilled,
                 consRead>>
allVars == <<subject, vars, bufferVars, raidVars, heapVars, logVars, pipeVars,
             bigfileVars, inodeVars, launcherVars, uthreadVars, procVars, smpVars,
             consoleVars>>

Pb == INSTANCE PcBuffer WITH
    pc <- pcbPc, got <- pcbGot
Rd == INSTANCE Raid
Hp == INSTANCE Heap
Lg == INSTANCE XvLog WITH
    pc <- logPc, slots <- logSlots, head <- logHead, tail <- logTail,
    Procs <- LogProcs, Blocks <- LogBlocks, Vals <- LogVals
Pp == INSTANCE Pipe WITH
    data <- pipeData, lock <- pipeLock, pc <- pipePc, got <- pipeGot, killed <- pipeKilled,
    Procs <- PipeProcs, Given <- PipeEnds, Wrap <- PipeWrap,
    MaxCount <- MaxTransfer, MaxKilled <- PipeKills
Bf == INSTANCE BigFile WITH Files <- BigFiles
In == INSTANCE Inodes WITH
    pc <- inoPc, file <- inoFile,
    Procs <- InoProcs, Names <- InoNames
La == INSTANCE Launcher WITH
    pc <- launchPc
Ut == INSTANCE Uthread WITH queue <- utQueue
Pr == INSTANCE Proc WITH state <- procState, pc <- procPc
Sm == INSTANCE Smp WITH
    k <- cpuK, i <- irqI, state <- smpState, pc <- smpPc, saved <- smpSaved,
    NPROC <- NTHREADS
Co == INSTANCE Console WITH
    buf <- cons, r <- consR, w <- consW, e <- consE, lock <- consLock, pc <- consPc,
    n <- consN, killed <- consKilled, read <- consRead,
    Procs <- ConsProcs, Keys <- ConsKeys, Wrap <- ConsWrap,
    MaxCount <- MaxRead, MaxKilled <- ConsKills

ASSUME SizesAssumption ==
    /\ Hp!ArenaAssumption
    /\ UTHREAD_MAX \in Nat /\ MaxTid \in Nat
    /\ NPROC \in Nat \ {0}
    /\ Rd!ShapesAssumption
    /\ IsFiniteSet(InoProcs) /\ 0 \notin InoProcs
    /\ IsFiniteSet(InoNames) /\ Inums \subseteq Nat \ {0}
    /\ NCPU \in Nat \ {0} /\ NTHREADS \in Nat \ {0}
    /\ MAXOPBLOCKS \in Nat /\ LOGBLOCKS \in Nat
    /\ 0 \notin PipeProcs /\ PipeEnds \in [PipeProcs -> SUBSET {"r", "w"}]
    /\ PIPESIZE \in Nat \ {0} /\ MaxTransfer \in Nat
    /\ PipeWrap \in Nat /\ PipeWrap > PIPESIZE /\ PipeWrap % PIPESIZE = 0
    /\ "nl" \in ConsKeys /\ INPUT_BUF_SIZE \in Nat \ {0}
    /\ ConsWrap \in Nat /\ ConsWrap > INPUT_BUF_SIZE /\ ConsWrap % INPUT_BUF_SIZE = 0
    /\ IsFiniteSet(BigFiles) /\ BigFiles \subseteq Nat \ {0}
    /\ NBlocks \in Nat /\ NDIRECT \in Nat /\ NINDIRECT \in Nat \ {0}

(* A component that is not the subject starts in one of its initial states. *)
Some(S) == CHOOSE x \in S : TRUE
Is(s, fixed) == subject = s \/ fixed

Initially ==
    /\ subject \in {"wal", "buffer", "raid", "heap", "log", "pipe", "bigfile",
                    "inode", "launcher", "uthread", "proc", "smp", "console"}
    /\ Init /\ Is("wal", \A b \in Homes \cup Slots : platter[b] = Some(Vals))
    /\ Pb!Init /\ Is("buffer", /\ \A j \in DOMAIN slots : slots[j] = Some(Items)
                              /\ \A p \in Producers : item[p] = Some(Items))
    /\ Rd!Init /\ Is("raid", shape = Some(Shapes))
    /\ Hp!Init /\ Is("heap", coalesce_on)
    /\ Lg!Init /\ Is("log", home = [b \in LogBlocks |-> Some(LogVals)])
    /\ La!Init /\ Is("launcher", userns /\ limits)
    /\ Pp!Init /\ Bf!Init /\ In!Init /\ Ut!Init /\ Pr!Init /\ Sm!Init
    /\ Co!Init

Only(s) ==
    /\ subject = s /\ UNCHANGED subject
    /\ IF s = "wal" THEN TRUE ELSE UNCHANGED vars
    /\ IF s = "buffer" THEN TRUE ELSE UNCHANGED bufferVars
    /\ IF s = "raid" THEN TRUE ELSE UNCHANGED raidVars
    /\ IF s = "heap" THEN TRUE ELSE UNCHANGED heapVars
    /\ IF s = "log" THEN TRUE ELSE UNCHANGED logVars
    /\ IF s = "pipe" THEN TRUE ELSE UNCHANGED pipeVars
    /\ IF s = "bigfile" THEN TRUE ELSE UNCHANGED bigfileVars
    /\ IF s = "inode" THEN TRUE ELSE UNCHANGED inodeVars
    /\ IF s = "launcher" THEN TRUE ELSE UNCHANGED launcherVars
    /\ IF s = "uthread" THEN TRUE ELSE UNCHANGED uthreadVars
    /\ IF s = "proc" THEN TRUE ELSE UNCHANGED procVars
    /\ IF s = "smp" THEN TRUE ELSE UNCHANGED smpVars
    /\ IF s = "console" THEN TRUE ELSE UNCHANGED consoleVars

Step ==
    \/ Only("wal") /\ Next
    \/ Only("buffer") /\ Pb!Next
    \/ Only("raid") /\ Rd!Next
    \/ Only("heap") /\ Hp!Next
    \/ Only("log") /\ Lg!Next
    \/ Only("pipe") /\ Pp!Next
    \/ Only("bigfile") /\ Bf!Next
    \/ Only("inode") /\ In!Next
    \/ Only("launcher") /\ La!Next
    \/ Only("uthread") /\ Ut!Next
    \/ Only("proc") /\ Pr!Next
    \/ Only("smp") /\ Sm!Next
    \/ Only("console") /\ Co!Next

SafetySpec == Initially /\ [][Step]_allVars

-----------------------------------------------------------------------------
(* Properties of the components, as their modules state them; Wal's are    *)
(* its own.                                                                *)

(* The bounded buffer: nobody sleeps on while there is something for it.   *)
NoLostWakeup == subject = "buffer" => Pb!NoLostWakeup

(* The bounded buffer is a queue. *)
ImplementsFifo == Pb!ImplementsFifo

(* The RAID engine: blocks read back through failures and rebuilds. *)
ReadsBack == subject = "raid" => Rd!ReadsBack

(* The heap: headers, free list and callers agree, and so does the walker. *)
HeapTiled == subject = "heap" => Hp!HeapTiled /\ Hp!WalkerAgrees

(* The log of the xv6 kernel: its operations are atomic over crashes. *)
LogWorks == Lg!LogWorks

(* The pipe of the xv6 kernel: a queue without lost wake-ups. *)
PipeWorks == Pp!PipeWorks

(* Large files: their blocks are their own, and read back; and the checker *)
(* of images agrees.                                                       *)
FilesIntact == subject = "bigfile" => Bf!FilesIntact /\ Bf!CheckerExact

(* Inodes: none is freed while something leads to it. *)
InodesKept == subject = "inode" => In!InodesKept

(* The container launcher: nothing runs outside its limits. *)
Contained == La!Contained

(* User-level threads: the queue, the stacks, the turns. *)
RoundRobin == Ut!RoundRobin

(* Processes: every zombie has a parent that can see it. *)
ZombiesAreSeen == subject = "proc" => Pr!ZombiesAreSeen

(* Two processors: locks, interrupts, sleep and the switch between stacks. *)
Switching == subject = "smp" => Sm!Switching

(* The console: input a line at a time, whatever is taken back. *)
ConsoleWorks == Co!ConsoleWorks

MCPipeEnds == <<{"r", "w"}, {"r"}, {"w"}>>
MCShapes == {
    [level |-> 0, ndisks |-> 2, chunk |-> 2, rows |-> 2],
    [level |-> 1, ndisks |-> 3, chunk |-> 1, rows |-> 1],
    [level |-> 4, ndisks |-> 3, chunk |-> 1, rows |-> 1],
    [level |-> 5, ndisks |-> 4, chunk |-> 1, rows |-> 1],
    [level |-> 5, ndisks |-> 3, chunk |-> 1, rows |-> 2]}
=============================================================================

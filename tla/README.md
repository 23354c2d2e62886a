# TLA+ models of the operating-systems lab programs

The repository is an operating-systems course. Its programs are the reference
implementations of twelve labs (`our-course/labs/labNN-*/solutions`): user-space
C and Python programs, overlays that patch the xv6 kernel, and that kernel
(`our-course/labs/xv6-riscv`). Each is a small system of its own; what they have in
common is that the interesting part is concurrency, loss, crashes or reuse of a
bounded resource. This directory models those parts.

## 1. Inventory

| Component | State it keeps | Operations | What is hard |
|---|---|---|---|
| lab10 RPC (`rpc.c`, `rpcdemo.c`) | per client: sequence number, tries; server: reply cache with eviction cursor, counter | `rpc_call`, timeout and retry, `rpc_server_run`, `cache_find`, `cache_take`, handler | loss, reordering, retries of non-idempotent calls, ghosts of abandoned calls, a full cache |
| lab10 stop-and-wait (`reliable.c`) | sender: sequence number, retransmissions; receiver: expected number, FIN | send, ack, retransmit, give up, FIN, drain | an ack lost, a give-up followed by the next message, the end of the connection |
| lab10 file service (`fileserver.c`, `fileclient.c`) | files by handle; client attribute and data cache with timestamps | lookup, getattr, read, write, cached read, restart of the server | a stale cache, a reply older than the time it is stamped with, a restart that loses the reply cache |
| lab10 lossy network (`net.c`) | socket, PRNG | `net_send`, `net_recv` | drops at the sender |
| lab09 journal (`wal.py`, `blockdev.py`) | log blocks, header, in-memory transaction; platters and a volatile write cache | `begin_op`, `write`, `end_op`, `barrier`, crash, `recover` | a crash between any two writes, reordering inside the cache, a crash during recovery |
| lab05 locks (`mylock.c`) | lock word, ticket counters, futex queue | acquire, release of spin, ticket and sleep lock | interleavings, lost wake-ups, counters that wrap |
| lab05 bounded buffer (`pcbuffer.c`) | ring, count, mutex, two condition variables | `pcb_put`, `pcb_get` | spurious wake-ups, a signal to the wrong waiter |
| lab05 toolkit (`toolkit.c`) | semaphore, barrier, rendezvous, readers-writer lock, dining philosophers | wait/post, arrive, acquire/release, pick up/put down | barrier reuse, writer starvation, deadlock |
| lab05 user threads (`uthread.c`) | run queue, current thread, stacks | create, yield, exit, run | the exit of the running thread, slots used again, ring order |
| lab05 web servers (`wsthread.c`, `wsevent.c`) | work queue; per-connection state machine | accept, serve; select loop, partial reads and writes | connections interleaved in one loop, clients that stall or hang up |
| lab02 scheduler (xv6 `proc.c` overlay) | process table, priorities, tickets, time used | RR, lottery and MLFQ choice, yield, boost | starvation, demotion |
| lab04 copy-on-write (xv6 `kalloc.c`, `vm.c` overlays) | page tables, reference counts, free list | fork copy, write fault, `copyout`, free | a page freed while shared, a reference lost on an error path |
| lab03 allocator (`mymalloc.c`) | heap blocks, free list | malloc, free, split, coalesce | overlap, lost blocks, frees of what is not a block |
| lab06 RAID and disk scheduling (`raidsim.c`, `disksim.c`) | per-disk blocks, parity, failed disk; request queue and head | logical read/write, fail, rebuild; FIFO, SSTF, SCAN, C-SCAN | degraded reads and writes, a rebuild with a second failure |
| lab07 large files and inodes (xv6 `fs.c`, `sysfile.c` overlays) | block maps, bitmap, link and reference counts | `bmap`, `itrunc`, `iget`, `iput`, open, link, unlink, close | a full disk in the middle of an allocation, an unlinked file that is open, a number used again |
| lab07 checker (`xfsck.c`) | claims of blocks, bitmap | walk of an image | damage that two records must betray |
| lab01 shell (`msh.c`) | job table, pipeline | parse, fork, pipe, wait, reap | a pipe end left open, a fork that fails half-way |
| lab11 container (`mycontainer.c`) | launcher, child, release pipe, maps, cgroup | clone, write the maps, release, wait, signals | a launcher that ends before the release, a child that runs before its limits |
| xv6 processes (`proc.c`) | process table, parents, `wait_lock` | fork, exit, wait, kill | an exit between a look and a sleep, children handed over |
| xv6 locks, sleep and switch (`spinlock.c`, `proc.c`, `trap.c`, `uart.c`) | lock holders, interrupt flag and nesting per CPU, saved contexts | acquire, release, sleep, wakeup, sched, interrupts | a wake-up between test and sleep, a thread that comes back on another CPU |
| xv6 buffer cache (`bio.c`, `sleeplock.c`) | buffers, reference counts, list by last use | bread, bwrite, brelse, bpin | a buffer chosen but not locked yet |
| xv6 log (`log.c`) | header, outstanding operations, pinned blocks | begin_op, log_write, end_op, commit, recovery | room that is reserved and not used, a crash anywhere |
| xv6 pipe (`pipe.c`), console (`console.c`) | ring, indices that wrap, sleepers | read, write, close; keys, editing, read | several readers and writers, kill, an end of file kept for later |
| xv6 disk driver (`virtio_disk.c`) | descriptors, two rings | request, interrupt, completion by the device | completions out of order, one more while the handler leaves |
| lab08 security tools, lab00 tools, drivers of the crash lab, exams, exercises, tests | | | no state that outlives a call (section 5) |

The user programs interact inside a lab only: the RPC library is linked into
rpcdemo, fileserver and fileclient and runs over the lossy network; the journal
runs over the block device; `wsthread` uses the bounded buffer. In the kernel,
the file system calls the log, the log pins buffers of the cache, the cache calls
the disk driver, and all of them sleep and wake through `proc.c`. Each layer is a
module, and what it takes from the one below is stated at its head: `XvLog`
assumes of the cache what `Bcache` is checked for, `Inodes` makes each call a
transaction because `XvLog` does, `Pipe` and `Console` take a test under a lock
followed by `sleep` as one step because `Smp` shows that no wake-up gets in between.

## 2. Modules

One module per component, an abstract specification of what it promises where
that is worth stating, a `...Proofs` module for its theorems, and an `MC...`
module or a `.cfg` for TLC. The comments in each module name the function or the
step of the code a definition stands for; `PROJECT.json` has the line numbers.

| Module | Code | State and actions |
|---|---|---|
| `RpcHandler` | `rpcdemo.c` handler | the procedures as a function from operation and counter to reply, counter and `RPC_HALT` |
| `Rpc` | `rpc.c`, `net.c` | `seq`, `inflight`, `tries` are the client's; `cache`, `evict`, `running`, `value` the server's; `net` is a bag of datagrams. `Call`, `Retransmit`, `GiveUp`, `TakeReply`, `DiscardReply` are the loop of `rpc_call`; `ServeDuplicate`, `DropGhost`, `ServeKnown`, `ServeUnknown` the branches of one turn of `rpc_server_run` |
| `CallService` | contract in `rpc.h` | a call is executed at most once, in order, and returns its own result or fails. Implemented by `Rpc` |
| `Reliable` | `reliable.c` | the sender's `cur`, `tries`, `acked`, `giveups`, the receiver's `expected`, `finSeen`, the drain period |
| `FileCache` | `fileclient.c`, `fileserver.c` | `fc` with its attribute and data cache and timestamps, the files with their mtime, a clock; `cached_read` is `ReadHit`, `StartRevalidate`, `StartFetch`, `TakeAttr`, `TakeData` |
| `SpinLocks`, `SleepLock` | `mylock.c` | one action per atomic instruction or futex call; `SleepLock` is shown to implement `Mutex` |
| `PcBuffer`, `BufferSizes` | `pcbuffer.c` | ring, `count`, the mutex, the two condition variables, spurious wake-ups; `Fifo` is what it implements |
| `MSem`, `Barrier`, `RwLock`, `Philosophers` | `toolkit.c` | one action per operation on a semaphore or mutex; `MSem` is shown to implement `Semaphore`, which the other three are built on |
| `Uthread` | `uthread.c` | thread table, ready queue, stacks; what lies between two switches is a step |
| `WsEvent` | `wsevent.c` | connection table, `select`, accept, partial reads and writes; sockets and clients are external |
| `Wal` | `wal.py`, `blockdev.py` | `platter` and `queue` are the device, `order` and `buf` the transaction; one action per device write of `end_op` and `recover`, one per install of a draining barrier, `Crash` anywhere |
| `AtomicDisk` | what a journal promises | an operation takes effect at once or not at all. Implemented by `Wal` and by `XvLog` |
| `Raid` | `raidsim.c` | disks of blocks of one bit, levels 0, 1, 4, 5, both forms of parity; a command of the script is a step |
| `Heap` | `mymalloc.c` | headers that may be stale inside a payload, the free ones, the policy; allocation, free of any pointer, reset, writes by the owner |
| `Pipeline` | `msh.c` | shell, stages, who holds which pipe end, the job table |
| `Launcher` | `mycontainer.c` | launcher and child step by step, the release byte, signals and failure exits |
| `Cow` | lab04 `kalloc.c`, `vm.c`, `proc.c` | free list, reference counts, page tables; per process the kernel path it is in. One action per critical section of `kref.lock` or `kmem.lock`; `wait_lock` is held by whoever reaps |
| `ForkMemory` | what fork promises | memory of one's own for each process, page by page a kind and a value; a store changes the pages of one process and only data pages. Implemented by `Cow` |
| `Sched` | lab02 `proc.c` | the pass of `scheduler()` under three policies, levels, cursors, demotion, boost, the timer |
| `BigFile` | lab07 `fs.c`, `xfsck.c` | bitmap, `addrs` of each inode, contents of each block; `Write` and `Trunc`, with the disk full at any allocation. `Claims` to `Clean` are the checker's pass over blocks |
| `Inodes` | lab07 `fs.c`, `sysfile.c` | one directory, link counts, references, locks of two kinds; the steps of open, link, unlink and close, crashes and `ireclaim` |
| `Proc` | xv6 `proc.c` | table, parents, `killed`, the holder of `wait_lock`; steps of `kfork`, `kexit`, `kwait`, `kkill` |
| `Smp` | xv6 `spinlock.c`, `proc.c`, `trap.c`, `uart.c` | per CPU the interrupt flag, `noff`, `intena` and what it runs; per process its place, its lock and what it left on its stack |
| `Bcache` | xv6 `bio.c`, `sleeplock.c` | buffers by last use, the two locks, the disk |
| `XvLog` | xv6 `log.c` | home blocks, log blocks, both headers, cached blocks, `outstanding`, `committing`, the panics of `log_write` and `end_op`, the group commit one write at a time, crashes |
| `Pipe` | xv6 `pipe.c` | ring with `nread` and `nwrite` modulo `Wrap`, the holders of each end, the lock, sleepers. `Fifo` is what it implements |
| `Console` | xv6 `console.c` | ring with `r`, `w`, `e` modulo `Wrap`; a key, or a character read, is a step. `LineInput` is what it implements |
| `VirtioDisk` | xv6 `virtio_disk.c` | descriptors and rings; the process, the handler and the device take turns |
| `MCSafety`, `MCProgress`, `MCCaches`, `MCSync` | | the instances: a behaviour is that of one component, picked by `subject`; the others stay as they were initialised |

Choices that matter when reading them:

* A datagram is lost when it is sent, as `net_send` does; anything in the bag may
  be received next. Nothing duplicates a datagram but a retransmission. A timeout
  may expire at any moment: nothing in the code bounds how long a datagram is
  under way.
* The lock words of `mylock.c` are acquire/release atomics on one location each,
  so an interleaving of single steps is enough.
* `msem` is a weak semaphore: `pthread_cond_signal` prefers nobody, and a thread
  that arrives may take the unit before the one woken. The barrier, the
  readers-writer lock and the philosophers are modelled over the abstract weak
  semaphore that `MSem` is shown to implement.
* In `Wal` and `XvLog` a block is written whole or not at all (the labs say so);
  the queue of the device of lab09 is drained from its end, which is the order
  `barrier` uses.
* In `Cow` `mappages` can fail only when the free list is empty; page-table
  pages are not counted. exec is part of the initial state, and init never exits.
* In the kernel modules what happens under one spin lock without a sleep is one
  step. `Smp` is the exception, which is there to justify it: it runs the
  instructions of `sleep`, `wakeup`, `sched` and the interrupt handlers on two
  processors. `Pipe` and `Console` keep the holder of their lock and take a step
  per character all the same, for `kkill` does not take that lock.
* In `Raid` a block is one bit. XOR treats the bits of a block alike, so nothing
  is lost.
* In `Heap` a header that a merge has put inside a payload stays in memory until
  the payload is written over, as in the program: `myfree` may be given its address.
* A disk left by `BigFile` is damaged for the checker in one bit of its bitmap or
  in one address, to every value that can make a difference.
* `Inodes` takes a crash at the end of operations only: what is before it is
  `XvLog`'s. Its calls are separated at every lock, so unlink, open and close of
  one inode interleave inside `iput`.
* The history variables `calls`, `outs`, `execs` (Rpc), `acked`, `delivered`
  (Reliable), `ended`, `gone`, `result` (FileCache), `arrivals`, `late`, `behind`,
  `called`, `returned` (locks), `direct` (Wal), `last`, `stale`, `beyond` (Raid),
  `live` (Heap), `passed` (Uthread), `latest` (Bcache), `stalled` (Sched), `read` (Console) and
  `got` (PcBuffer, Pipe, WsEvent) record what the program prints, returns or has done; no
  guard of the code reads them, except that `acked` stands for the counter that
  decides the exit status and `direct` for `wrote_data_direct`. `live` is what the
  callers of the allocator know.

## 3. What the runs check

Six runs pass. Deadlock is not checked by TLC itself: in each of them a behaviour
may end, because every call has been made, every round played, every name closed or a
bound reached. That nobody is left waiting is stated instead, per component
(`NoLostWakeup`, `SleepersCovered`, `SomeCpuGoesOn` of `Smp`, the wake-up parts of
`PipeWorks`, `ConsoleWorks`, `LogWorks`, `ZombiesAreSeen` and `BlocksPassedOn`, and the
liveness properties).

**`rpc`**: 2 clients, 2 calls each, 1 retry, 2 cache slots. Each call runs at most
once and in order (`AtMostOnce`), the implementation is the once-per-call service
(`ImplementsContract`), `rpc_call` returns (`EveryCallReturns`).

**`caches`**: three caches that are too small.

| Component | Bounds | Shows |
|---|---|---|
| `Rpc` | 2 clients, 2 calls, 1 retry, 1 slot, a shutdown among the operations | with evictions a call still never returns another call's result (`ResultIsOwn`) |
| `FileCache` | 2 files of 2 chunks, `ac` = 2, calls up to 1 unit, time up to 5, 2 writes, 1 restart | how stale a cached read can really be (`StalenessBound`), a revalidation never keeps old data (`RevalidatedGood`), a client sees its own writes (`OwnWritesSeen`) |
| `Bcache` | 2 buffers, 3 blocks, 2 processes, 1 pinned | `BlocksPassedOn`: one copy of a block, no buffer recycled under a process that has chosen it, nothing stored lost with its buffer, no sleeper forgotten |

**`safety`**: thirteen components, in every interleaving of their own.

| Component | Bounds | Shows |
|---|---|---|
| `Wal` | 3 metadata blocks, 1 data block, 2 log slots, ordered mode, both devices | `ImplementsAtomicDisk`: atomic and durable operations across crashes, in recovery too; `DataBeforeJournal` |
| `PcBuffer` | 2 producers, 2 consumers, ring of 2 | `ImplementsFifo`; `NoLostWakeup`, spurious wake-ups included |
| `Raid` | five shapes of levels 0, 1, 4, 5 on 2 to 4 disks | `ReadsBack` through failures, degraded writes and rebuilds, with every form of parity |
| `Heap` | arena of 8 units of 16 bytes, requests up to 3, all policies, coalescing on and off | `HeapTiled`: headers, free list and owners tile the arena; a second free is turned away; the program's own walker agrees |
| `XvLog` | 3 processes, 3 blocks, 2 log blocks, `MAXOPBLOCKS` 1 | `LogWorks`: the group commits as one, no operation is split, `log_write` refuses no block its operation may still log, no sleeper without reason |
| `Pipe` | 3 processes, ring of 2, counters modulo 4, one kill | `PipeWorks`: a bounded queue, no lost wake-up |
| `BigFile` | 2 files, 8 blocks, `NDIRECT` 1, `NINDIRECT` 2 | `FilesIntact`: the bitmap is what the files name, blocks are named once, contents read back, wherever the disk runs full; the checker accepts each of these disks, finds every damaged one, and does not look at contents |
| `Inodes` | 2 processes, 2 names, 1 inode number, crashes (`InoProcs`, `InoNames`, `Inums`) | `InodesKept`: nothing is freed while a name, a file or a call leads to it; references and links are exact |
| `Launcher` | user namespace and limits on or off | `Contained`: nothing runs before its maps and limits, nor after a launcher that ends |
| `Uthread` | 3 slots, 4 thread ids | `RoundRobin`: stacks, queue, and nobody runs twice while another waits |
| `Proc` | 4 process slots | `ZombiesAreSeen`: every zombie has a parent that can reap it and that is not asleep |
| `Smp` | 2 CPUs, 2 processes (`NCPU`, `NTHREADS`), timer and serial interrupt | `Switching`: no panic, one CPU per stack, interrupt flags restored, no lost wake-up, not all CPUs spinning |
| `Console` | 2 readers, ring of 3, indices modulo 6, a character, newline, end of file, the editing keys, one kill | `ConsoleWorks`: input a line at a time, in order; no sleeper over a line |

**`cow`**: 3 processes, 4 pages, programs of a text and a data page. Counts equal
references at every step and no page is lost or in two places (`PagesExact`);
private memory (`ImplementsForkMemory`).

**`sync`**: 3 threads; 3 barrier rounds; 2 readers, 2 writers; 4 philosophers. One
holder and no lost wake-up of the futex lock (`ImplementsMutex`, `SleepersCovered`);
one holder of the locks that spin, and hand-over in order over the wrap of the counters
(`SpinningLocks`); `msem` is a semaphore and loses no signal (`SemImplements`); nobody laps
the barrier (`BarrierRounds`); exclusion and the door of the readers-writer lock
(`RwLockWorks`). All of them get on (`PrimitivesProgress`): a lock that is wanted is
taken, a semaphore that stays positive serves, a round that everybody joined ends for
everybody, readers and writers do not wait in a circle; and a hungry philosopher eats
(`PhilSomebodyEats`).

**`progress`**: five programs with promises of progress.

| Component | Bounds | Shows |
|---|---|---|
| `Reliable` | 3 messages and the FIN, 1 retry | `InOrderOnce`, `ReportsTrue` (what counts as acknowledged was delivered, exit status 0 only for a complete stream), `ProgramsGetOn`: both programs stop |
| `Sched` | 3 processes, 2 levels, boost after 4 ticks, `MAX_TICKETS` 2 | `NeverStalls`: the pass never comes out empty over a runnable process, and every draw of the lottery has exactly one winner; `ProgramsGetOn`: under RR and MLFQ every runnable process runs |
| `Pipeline` | two lines of up to 3 stages, 1 job, pipes of 1 piece | `PipelineEnds`: once a stage has ended all of it ends; after a pipe or fork that failed, what was started ends unless one of the ends the shell then leaves open still is |
| `VirtioDisk` | 3 requests for 8 descriptors | `RequestsApart`: requests share no descriptor, none is lost, a call returns only after its own transfer; `ProgramsGetOn`: they end, waiters get to try again |
| `WsEvent` | 2 clients, one of whom reads on; tables of 1 and 2; requests of 1 piece, responses of 2 units, a send buffer of 1 | `ResponsesApart`: everybody's own response, and no event taken for another connection's; `ProgramsGetOn`: the patient client is served whatever the other does |

Why these bounds: a retry needs one duplicate, a ghost needs one abandoned call
followed by another, eviction needs one client more than slots. The barrier
reuses its two gates in the second round, and a thread of the third round can
meet one that is late in leaving the first. Three threads are the fewest for
which one sleeps, one releases and a third takes the lock in between; two of each
kind for a waiter of the same kind to be overtaken. In `Wal` three blocks and two
slots make an operation overwrite a slot that a previous one used for another
block; in `XvLog` two log blocks and three processes make begin_op wait for room
and for a commit, and fill the log with two operations, one of which writes its block
again. In `Sched` a process is at the last level after 1 tick and has used up the
allotment of that level after 3, a tick before the boost: the test that stops it
from sinking further decides (with three levels that takes 7 ticks, and a boost after 8
is more than a run of five minutes holds). In `Cow` four pages let the three processes hold one page each
beside the text and run out during a fault. Eight units hold three blocks and a
hole, so that a free merges on both sides, or on one. Two files on eight blocks
run out at each of the three allocations of a doubly-indirect write. Two
buffers for three blocks force a recycling while one is held or pinned. Four process slots give init a
child, a grandchild and a sibling. Three requests want nine descriptors and there are
eight. Rings and their counters are small enough to wrap several times.

Runs that end in a violation, each a statement of the repository that the code
does not keep:

* `rpc_evict_twice`: rpc.h says that each call is dispatched exactly once. With
  more clients than cache slots, a retransmission of a call whose entry was
  evicted is executed again.
* `filecache_stale`: fileclient.c says that a read is never staler than `ac` ms.
  The attributes are stamped when their reply arrives, so the time the reply was
  under way comes on top. `StalenessBound` is the bound that does hold.
* `rwlock_overtaken`: toolkit.h says that a waiting writer is not overtaken by
  readers that arrive after it. A writer still waiting for the turnstile is.
  `DoorHolds`, a part of `RwLockWorks`, is what holds, from the moment it has the
  turnstile.
* `cow_guard`: vmfault's comment says that a store to the stack guard page is
  fatal. A fork makes that page copy-on-write, and `vmfault` looks only at
  `PTE_COW`: the kernel's store through `copyout` goes through.
* `last_put`: iput's comment says that the last reference to an inode without links
  frees it. Between the write of type 0 and the drop of the reference, ialloc can give
  the number out again; if that file is unlinked and put at once, both calls see
  two references and the inode stays allocated until the next boot.
* `no_orphan`: mycontainer.c says that a killed launcher leaves no container process
  behind. The child waits for the release byte with a copy of the write end in its
  own hands and before it has set its death signal: it waits for ever.

Met while modelling and not made a run:

* a stop-and-wait client that gives up a message goes on with the next number, so the
  branch of `reliable.c` for a number ahead of the expected one, which its comment
  calls impossible, is taken;
* with an mtime as coarse as the clock (`FineMtime = FALSE`), two writes within one
  unit defeat revalidation; a write repeated after a server restart is executed
  twice, which is harmless only because it carries its offset;
* `log_write` panics on a full log before it looks whether the block is already there
  (`log.c:221`). The room that `begin_op` reserves is for distinct blocks, so operations that have
  all used theirs up fill the log to the last block, and the next write of a block that
  needs no room stops the machine. `Reservation` says that this is the only way to that panic. In the code it takes
  three operations of ten distinct blocks each; whether the calls of `fs.c` ever log
  that many is not modelled (nor that such a log pins every one of the `NBUF` buffers);
* a writer killed in the middle of a `pipewrite` returns without waking the readers of
  the bytes it has put (`pipe.c:84-87`): `ReadersBlocked` has that exception;
* a write of level 4 or 5 to a block whose own disk is failed is not kept: the parity
  is computed from what the failed disk still holds (`stale` marks such blocks; the
  comment at `raidsim.c:248` leaves the case to a production array), and a rebuild
  with too few survivors marks the disk live all the same (`beyond`);
* after a failed pipe or fork msh leaves the stages it has started without a wait and
  pipe ends open, in itself and in what it starts later; `PipelineEnds` excepts
  stages that hang on one of these (`Stray`). For stages left so, as for a background job that finds the
  table full, the comment at `msh.c:80-82`, that no child outlives its job entry, does not hold
  to the letter: the sweep at the prompt reaps them without one.

### Fairness

Liveness is checked under weak fairness of single steps: a client that waits is
polling a socket with a timeout, so it either reads a reply, retransmits or gives
up; the drain period of the receiver expires; a thread inside a primitive, or
holding it, is scheduled again; the shell and the stages of its pipelines are
scheduled, but a stage need not end by itself; the timer of the scheduler ticks, and the processes it
runs promise nothing; the event loop is one thread that goes on, and only
the clients in `Patient` go on reading; the virtual disk takes and completes requests
and the interrupt is delivered. Strong fairness is assumed in one place: a process in
`virtio_disk_rw` gets `vdisk_lock` in the end, which a spin lock promises only on average.
No fairness is assumed of the network, of threads that have no business with the
primitive, or of the choice a semaphore makes among waiters: hence `PrimitivesProgress`
and `PhilSomebodyEats` say that somebody gets on, and only the ticket lock promises it to
everybody. In `MCProgress` and `MCSync` the fairness of a component is owed only in
behaviours of that component.

## 4. What is proved

TLAPS checks these for every value of the constants that satisfies the named
assumptions: any clients, threads, processes, number of retries, messages, blocks,
buffers, slots and shapes. A component that `MCCaches`, `MCSafety`, `MCSync` or `MCProgress` instantiates is
proved in the module of that composition: first for the component by itself, under
names with its prefix (`Fc`, `Bc`, `Pb`, `La`, `Ut`, `Hp`, `Rd`, `Pr`, `In`, `Sm`, `Pp`, `Lg`, `Co`, `Bf`,
`Sp`, `Se`, `Ba`, `Rw`, `Sc`, `Vd`, `Wb`), and then for the composition, because a behaviour of all of them is one of each
(`CachesImplement`, `SafetyImplements`, `SyncImplements`, `ProgressImplements`): what a theorem states is then the property
the run checks, to the letter.

| Theorem | Property | Argument |
|---|---|---|
| `RpcProofs`: `OwnResult`, `AtMostOnceTheorem`, `Refinement` | `ResultIsOwn`, `AtMostOnce`, `ImplementsContract` | `ResultInv` says where a result can come from: every reply in the network and every cache entry is that of an execution in the history, and requests carry the operation recorded for their number. `OnceInv` adds that a client has at most one entry (`OneEntryEach`) and that whatever was executed for a client is remembered by an entry at least as new (`Remembered`) |
| `ProgressProofs`: `ExactlyOnceInOrder`, `ReportsAreTrue` | `InOrderOnce`, `ReportsTrue` | `RelInv` ties each acknowledgement in the network to a number below `expected` and the FIN's to `finSeen`, and says that a client that has given up nothing has had an answer to every packet so far (`NothingLeftOut`) |
| `ProgressProofs`: `PassFindsProcess` | `NeverStalls` | Every process keeps a level that exists and at least one ticket (`ScTypeInv`), a boost, a demotion and `settickets` included. Then each policy has somebody to take: the first of the table, the holder of the ticket drawn, the nearest to the cursor of the least level that is not empty. A draw has one holder (`ScDraw`): `acc` does not go down along the table (`ScAcc`), and the least process at which it passes the draw (`Least`) is runnable and the only one |
| `ProgressProofs`: `RequestsKeptApart` | `RequestsApart` | `VdChainInv`: a request has three descriptors of its own, chained, the first of which names it, and the others are free. `VdRingInv`: a request whose transfer is not over is in one place at a time, the available ring, the device or the used ring, once; `VdCallInv` ties that to where its caller is. Every request is three descriptors (`VdCountInv`), so none leaks |
| `ProgressProofs`: `ResponsesKeptApart` | `ResponsesApart` | `WbDescInv`: open sockets have descriptors of their own, and each slot in use one of them. `WbClientInv`, `WbSlotInv`: what a client has read, what is in the socket and what its slot has left to write are, in this order, the units of its response. `WbPassInv`: what `select` reported is still so of the slots the loop has not come to, and a descriptor given out since is in neither set; that there is one to give out is a count (`WbFreeDescriptor`) |
| `WalProofs`: `Refinement`, `OrderedData` | `ImplementsAtomicDisk`, `DataBeforeJournal` | `WalInv` says, per step of `end_op` and of `recover`, what is on the platter, in the log and in the queue. The mapping takes for the disk what `recover` would make of the platter now, so that the install of the commit record is the one step that changes it; the lemmas `Mapped` and `Phases` compute it in every phase. `DirectInv` serves `OrderedData` |
| `SyncProofs`: `Refinement`, `NobodyForgotten` | `ImplementsMutex`, `SleepersCovered` | `LockInv`: at most one holder, a releaser between its decrement and its store included, and the word is 0 exactly when there is none. With it `SleepersCovered` is inductive (`CoverInv`) |
| `SyncProofs`: `SpinnersInOrder` | `SpinningLocks` | `SpTicketInv`: the threads inside the ticket lock are those on the list of arrivals, once each, and their numbers are the ones from `serving` on, over the wrap (`SpPlus`). That no two of them have the same number needs no more threads than numbers (`SpFew`) |
| `SyncProofs`: `SemaphoreKept` | `SemImplements` | `UnitsSpokenFor` is inductive: a post adds a unit and a thread on its way to it, and a thread sleeps only if there is none |
| `SyncProofs`: `BarrierKept` | `BarrierRounds` | `BaRoundInv`: some number R of rounds is over, and either threads leave the last one and gather for the next at the first gate (`BaFill`), or all have come and gather at the second (`BaDrain`). The unit of the open gate is in the semaphore, or with one thread between its wait and its post (`BaUnit`); `arrived` is the threads at the places that count (`BaCountInv`), which is how the last one knows |
| `SyncProofs`: `ReadersExcluded` | `RwLockWorks` | `RwRoomInv`: the room is a writer's or that of readers, of whom the first locks it with `mutex` held, the last unlocks it so; `RwDoorInv`: the turnstile is with one thread, and while a writer has it those not past it then are not past it now |
| `CacheProofs`: `KeptDataIsCurrent` | `RevalidatedGood` | `FcIInv`: while nothing was written since the cached attributes were sampled, the cached data and the chunks fetched so far are the file's; the mtime of an attribute reply under way is bounded by the file's |
| `CacheProofs`: `ReadsAreRecent` | `StalenessBound` | `FcTimeInv` bounds how long the fetch and its calls have been under way; `FcAgeInv` says since when each chunk of the cache, of the fetch and of the replies to it was in the file, a chunk past the size counting as one that holds nothing |
| `CacheProofs`: `OwnWritesAreSeen` | `OwnWritesSeen` | `FcShownInv`: neither the cache, nor the fetch, nor a reply to it shows what is gone. `FcNumberInv`: what is gone does not come back, because a write number is used once |
| `CacheProofs`: `BlocksArePassedOn` | `BlocksPassedOn` | The property is not inductive without the count of those who refer to a buffer (`BcRefInv`), which is what keeps a buffer with a process on the way to its lock from being recycled; `BcLockInv`, `BcBlockInv`, `BcDataInv` and `BcDirtyInv` say who holds a lock, that the list names a block once, and where its last contents are |
| `SafetyProofs`: `WakeupsKept`, `RingIsQueue` | `NoLostWakeup`, `ImplementsFifo` | `PbWakeInv` counts, for either condition variable, the threads on their way to the mutex against the free or full slots; `PbRingInv` keeps `tail` `count` slots ahead of `head` |
| `SafetyProofs`: `ChildContained` | `Contained` | `LaIInv`: until the launcher has released it the child is at the pipe, and by then maps and cgroup are done; past prctl the child dies with the launcher |
| `SafetyProofs`: `TurnsInOrder` | `RoundRobin` | `UtIInv`: all entries but the scheduler's are free or ready, the queue is the ready ones once each, thread numbers are not repeated, and nobody ahead in the queue has run since those behind were queued |
| `SafetyProofs`: `BlocksTileArena` | `HeapTiled` | `HeapTiled` with types is inductive. A free with its merges, on either side, both or none, is one lemma (`HpMergeKeeps`), since the blocks swallowed are the neighbours; that the walk of `mym_check_heap` is the set of blocks needs an induction over the arena, which is a least counterexample (below) |
| `SafetyProofs`: `BlocksReadBack` | `ReadsBack` | `RdKeptInv`: a block that is not stale is where it should be, on every live mirror or on its disk, even a failed one, whose contents the engine goes on computing with. `RdParityInv`: the disks of a row add up to 0 unless its parity disk has failed. `RdXorSplit` takes a disk out of a sum, and the rest is arithmetic modulo 2 |
| `KernelProofs`: `ZombiesReaped` | `ZombiesAreSeen` | `PrIInv` adds what holds inside the calls: where a process must have `wait_lock`, whose child a slot under way in fork is, that parents are alive, that an exiting process has given its children away and woken its parent, and that a parent which has decided to sleep, and still holds `wait_lock`, has no zombie |
| `KernelProofs`: `InodesLiveOn` | `InodesKept` | `InCountInv` makes the counts exact at every step: `ref` is the open files and the calls that have the inode, `nlink` the names and the calls that have counted a name they have yet to make, or to uncount. `InAliveInv` says that whatever leads to an inode finds it allocated; it is inductive only with `InAloneInv`, that nobody leads to an inode that is being made or freed except a call that is about to drop its reference, and `InPlaceInv`, who holds the lock of the directory. `InSavedInv` is the same of the disk |
| `KernelProofs`: `SwitchesKept` | `Switching` | `SmCpuInv` gives `noff` of each CPU as a function of its place (`SmDepth`) and where interrupts are on; `SmStackInv` ties the state of a process to who runs it and what its saved context holds, `SmLockInv` each lock to the places that hold it, `SmWakeInv` sleepers to the wake-up that is due. That not every CPU spins follows from the order of the two locks (`SmHolders`) |
| `KernelProofs`: `PipeIsQueue` | `PipeWorks` | `PpIInv`: the ring holds no more than its size (`PpRingInv`, through the wrap of the counters), whoever is inside a transfer has the lock, what was tested there is still so (`PpTestedInv`), and a sleeper has a reason or somebody who has the lock and will wake it (`PpSleepInv`). Under the mapping to `Fifo` a `Put` adds at the end and a `Take` removes the first, element by element of the ring |
| `KernelProofs`: `LogIsAtomic` | `LogWorks` | `LgStageInv` says, per stage of a commit and of a recovery, what is in the slots, in the header and at home; the mapping takes for the disk what a recovery would make of it, so that `WriteHead` is the one step that changes it. `LgRoomInv` counts the blocks the open operations may still log (`LgDue`), which makes `begin_op`'s test enough: a log that is full leaves nothing due (`LgPanicInv`) |
| `KernelProofs`: `ConsoleInOrder` | `ConsoleWorks` | `CoIInv`: finished lines and typing fit in the ring together (`CoRingInv`), and no line ends among what can be taken back (`CoTypingInv`), so that a kill-line, which stops at the end of a line or at `w`, takes back all of the typing and nothing else. Each key and each read is then a step of `LineInput`, character by character of the ring (`CoStretch`) |
| `KernelProofs`: `FilesStayIntact` | `FilesIntact` | `BfGood` says of any addresses, blocks and bitmap that what is named is in use, what is in use is named, at one place, and that data does not look like an address; `BfKept`, that what was written is where `bmap` looks. Inside a write they hold after each allocation (`BfGrows`, the only change an allocation makes), and `bmap` is a walk over at most three (`BfWalked`). For the checker, claims are paths (`BfQ`), each to a place of its own (`BfPathOnce`), so a changed address loses a name that no other path has (`BfModLost`), or adds one that is taken or free (`BfModNew`) |
| `CowProofs`: `PagesAccounted` | `PagesExact` | `TableInv` says of each kernel path which page tables it works on, that nobody else is at them (`Alone`), and what they hold at its step. The counts are two sums over processes and pages; a step of p changes at most one entry and p's own part in them, so each step is an equation between two terms |
| `CowProofs`: `SharingInvisible` | `ImplementsForkMemory` | `MemInv`: a page that can be written to has one entry (`Sole`), a page being prepared none (`Fresh`), and what a fork has copied so far is what the parent has (`Copies`). A store under the mapping then changes one process's page, and the steps of a fault, a copy and a drop change none |

The assumptions:

* `AtMostOnceTheorem` and `Refinement` of `Rpc` need `Capacity`, no more clients than
  slots: then nothing is evicted. Otherwise they are false, as `rpc_evict_twice` shows.
* `SpinnersInOrder` needs no more threads than the counters have values, 2^32 in the code
  (`SpSizes`): with more of them two threads would hold the same number.
* `KeptDataIsCurrent`, `ReadsAreRecent` and `OwnWritesAreSeen` need `FineMtime`, every write
  an mtime of its own (`FcSizes`). Without it the first is false.
* `SharingInvisible` needs `WithoutGuard`, programs without a guard page. With one it is
  false, and that is the finding of `cow_guard`. `PagesAccounted` does not need it.
  The program of the run `cow`, a text and a data page, satisfies it.
* What counts must be finite: threads of `PcBuffer` and of the primitives, readers, processes of `Bcache`, `Inodes` and `Cow`, callers of the disk driver, web clients,
  names, pages, files. 0 stands for nobody, for no inode and for no block. There is a CPU, a thread, a
  process slot, and a word in a block of addresses.
* The counters of `Pipe` and `Console` wrap at a multiple of the ring's size that is greater than it, as
  2^32 is of 512 and 128, and the Enter key is among the keys of the console (`PpSizes`, `CoSizes`).
* `ShapesAssumption` of `Raid` is what `do_init` accepts: a known level, at least two disks
  unless the level is 0, a chunk that divides the rows. TLC checks it of the shapes of the run, and
  the others with it (`SizesAssumption`).

An invariant by induction on steps is the same every time: it holds at first, a lemma per
action says that the action keeps it, and the last step is temporal. Three things needed
more. An induction over data is not available, so the walk of the heap
uses the least element of a set of naturals (`Least`, from the well-foundedness theorems
of the library) on the set of counterexamples. Counting (`InCountMoves`, the accounts of `Cow`,
`RdXorSplit`) is done by lemmas on a set that changes at one element. And a definition that
an INSTANCE imports has its own copy of `Cardinality`, which lemmas such as `RdCardinality` tie
to the library's.

Only model-checked: liveness, and what depends on ENABLED (`EveryCallReturns`, `PipelineEnds`,
`PrimitivesProgress`, `PhilSomebodyEats`, `ProgramsGetOn`), which are out of the prover's reach. Every
other property of the runs that pass is a theorem.

No module declares a RECURSIVE operator.

## 5. What is not modelled

Inside the modelled components: byte layouts, parsing, logging and command lines;
the rejection of oversized arguments (`rpc.c`); the wrap-around of the 32-bit sequence
numbers of lab10; the sequence number in the log header of lab09; the assertion that a
transaction fits the log (a refused write); uncached reads, file creation and the
workload command of `fileclient.c`; the page tables' own pages, exec, and growth by
several pages (lab04); subdirectories with their own links and the walk of symbolic
links (lab07), a bounded loop over reads; the directory and link passes of `xfsck.c`,
which ask of a disk what `InodesKept` asks of it; in the kernel the tick counter of `clockintr`, polled output and echoes; the
panic of `bget` for want of a buffer, which is a call that waits for its turn here, and the one of
`iget` for want of a table entry (`fs.c:289` of lab07), which the few inode numbers of `Inodes` never fill; the mounts of the container.

Components without a module:

* Disk scheduling (`disksim.c`): functions of a fixed list of requests. Nothing
  interleaves, nothing fails, no state survives a run.
* The system calls lab02 adds: they read a count under a lock and print.
* Buffered I/O, file tools, message encoding, UDP echo: input and output.
* Security tools (lab08): queries on a fixed matrix, hashing, four system calls in a row.
* The crash sweep and the image tools (lab09, lab07): drivers that replay the journal over
  every crash point, which the runs of `Wal` do exhaustively.
* Starters, tests, exercises and exams: the starters are the reference solutions with gaps,
  the kernel overlays of each lab repeat the files of the base kernel around the part the
  lab changes, and `usertests.c` and the test scripts are clients. These are most of the lines of the
  repository. A part that several overlays repeat is modelled once, from the overlay that
  changes it or from the base kernel.

## 6. Plan

Done, in this order: the RPC and its contract, the journal, the locks and the bounded
buffer, the toolkit, stop-and-wait, the file cache, copy-on-write; then the RAID engine, the
heap, the schedulers, the xv6 processes, buffer cache, log, pipe, disk driver and console, the
switch on two processors, large files and their checker, inodes, the shell, the launcher, the
event loop and user threads.

Left, by what there is to get wrong:

1. `Inodes`: subdirectories (the `..` links and the check for an empty directory), rename-like
   sequences of link and unlink with two inode numbers, which make the state space of a run in
   `safety` too large today.
2. `exec` in `Cow`, with the page-table pages, which can fail half-way through an image.
3. Theorems: every invariant, action property and refinement of the runs is one; what is left
   is what the two items above would add.

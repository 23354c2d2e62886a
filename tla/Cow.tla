-------------------------------- MODULE Cow ---------------------------------
(***************************************************************************)
(* Copy-on-write fork of lab04: the reference counts of kalloc.c, the page *)
(* faults and page-table copies of vm.c, and the fork, wait and sbrk paths *)
(* of proc.c that use them.  Every process has a CPU of its own.  Its page *)
(* table is touched by one kernel path at a time, so a step is one         *)
(* critical section of kref.lock or kmem.lock, with the page-table work    *)
(* around it.                                                              *)
(*                                                                         *)
(* A process has pages 1..sz.  Layout gives the kinds of those exec makes: *)
(* "text" is read-only, "data" writable, "guard" writable and hidden from  *)
(* the user by uvmclear; sbrk adds data pages.  Page-table pages are not   *)
(* counted: mappages fails only when there is no page left to make one of. *)
(***************************************************************************)
EXTENDS Integers, Sequences, FiniteSets, TLC

CONSTANTS
    Procs,          \* the slots of proc[]
    InitProc,       \* initproc: it forks and waits, and does not exit
    Pages,          \* the pages kinit hands out
    NoPage, Junk,   \* no page; what kalloc and kfree fill a page with
    Layout,         \* the kinds of the pages of a program
    MaxSz,          \* bound: pages of a process
    Vals            \* what may be stored in a page

ASSUME CowAssumption ==
    /\ InitProc \in Procs /\ NoPage \notin Pages /\ Junk \notin Vals \cup {0}
    /\ IsFiniteSet(Pages) /\ IsFiniteSet(Procs)
    /\ Layout \in Seq({"text", "data", "guard"}) /\ Layout # <<>>
    /\ MaxSz \in Nat /\ MaxSz >= Len(Layout)
    /\ Cardinality(Pages) >= Len(Layout)

VARIABLES
    freelist,       \* kmem.freelist
    count,          \* kref.count
    content,        \* what each page holds
    pt,             \* pt[p][va]: the page table entry
    sz, state, parent,      \* struct proc
    k               \* k[p]: what p's kernel path is at, a Path

vars == <<freelist, count, content, pt, sz, state, parent, k>>

Va == 1..MaxSz

(* A page table entry; pa is NoPage when PTE_V is clear. *)
Pte == [pa : Pages \cup {NoPage}, w : BOOLEAN, cow : BOOLEAN, u : BOOLEAN]
None == [pa |-> NoPage, w |-> FALSE, cow |-> FALSE, u |-> FALSE]
Mapped(e) == e.pa # NoPage

(* pc: the next step; op: the call it belongs to; va: the page it is at,   *)
(* end: the last one; tgt: whose page table; mem: a page it has allocated  *)
(* and not yet mapped; old: a page it is about to kfree; val: the value a  *)
(* copyout writes; child: the zombie a wait has found.                     *)
Ops == {"none", "store", "load", "copyout", "wait", "grow", "fork", "undo", "shrink", "reap"}
Pcs == {"user", "alloc", "count", "fill", "drop", "push", "write", "share", "inc", "unmap"}
Path == [pc : Pcs, op : Ops, va : 1..(MaxSz + 1), end : 0..MaxSz, tgt : Procs,
         mem : Pages \cup {NoPage}, old : Pages \cup {NoPage}, val : Vals \cup {0}, child : Procs]
User(p) == [pc |-> "user", op |-> "none", va |-> 1, end |-> 0, tgt |-> p,
            mem |-> NoPage, old |-> NoPage, val |-> 0, child |-> p]

Running(p) == state[p] = "run"
InUser(p) == Running(p) /\ k[p].pc = "user"
Return(p) == k' = [k EXCEPT ![p] = User(p)]

(* kwait keeps wait_lock until it has freed the child. *)
WaitLockFree == \A p \in Procs : k[p].op \notin {"wait", "reap"}

(* The page table exec leaves: page i of the program at va i. *)
ProgramPte(va, page) ==
    [pa |-> page, w |-> Layout[va] # "text", cow |-> FALSE, u |-> Layout[va] # "guard"]

(* kinit and freerange have freed every page, exec has taken some for init. *)
Init ==
    \E image \in [1..Len(Layout) -> Pages] :
        LET used == {image[va] : va \in DOMAIN image} IN
        /\ \A i, j \in DOMAIN image : image[i] = image[j] => i = j
        /\ freelist = Pages \ used
        /\ count = [a \in Pages |-> IF a \in used THEN 1 ELSE 0]
        /\ content = [a \in Pages |-> IF a \in used THEN 0 ELSE Junk]
        /\ pt = [p \in Procs |-> [va \in Va |->
                   IF p = InitProc /\ va \in DOMAIN image THEN ProgramPte(va, image[va]) ELSE None]]
        /\ sz = [p \in Procs |-> IF p = InitProc THEN Len(Layout) ELSE 0]
        /\ state = [p \in Procs |-> IF p = InitProc THEN "run" ELSE "unused"]
        /\ parent = [p \in Procs |-> InitProc]
        /\ k = [p \in Procs |-> User(p)]

-----------------------------------------------------------------------------
(* kexit, also of a process killed by usertrap: children go to init.  The  *)
(* exit of init is a panic, and a path that would cause it stays where it is. *)
Die(p) ==
    /\ p # InitProc /\ WaitLockFree
    /\ state' = [state EXCEPT ![p] = "zombie"]
    /\ parent' = [q \in Procs |-> IF parent[q] = p THEN InitProc ELSE parent[q]]
    /\ Return(p)

Exit(p) == InUser(p) /\ Die(p) /\ UNCHANGED <<freelist, count, content, pt, sz>>

(* kfork *)

Fork(p, q) ==
    /\ InUser(p) /\ state[q] = "unused"
    /\ state' = [state EXCEPT ![q] = "used"]
    /\ k' = [k EXCEPT ![p] = [User(p) EXCEPT !.pc = "share", !.op = "fork", !.tgt = q]]
    /\ UNCHANGED <<freelist, count, content, pt, sz, parent>>

FirstMapped(p, from, to) ==
    {i \in from..to : Mapped(pt[p][i]) /\ \A j \in from..(i - 1) : ~Mapped(pt[p][j])}

(* Mutant: a page is shared as it is. *)
ProtectedNot(e) == e

(* A writable page becomes copy-on-write. *)
Protected(e) == IF e.w THEN [e EXCEPT !.w = FALSE, !.cow = TRUE] ELSE e

(* uvmcopy: the next page of the parent is mapped into the child. *)
Share(p) ==
    /\ k[p].pc = "share"
    /\ \E i \in FirstMapped(p, k[p].va, sz[p]) :
         LET e == Protected(pt[p][i]) IN
         \/ /\ pt' = [pt EXCEPT ![p][i] = e, ![k[p].tgt][i] = e]
            /\ k' = [k EXCEPT ![p].pc = "inc", ![p].va = i]
         \/ /\ freelist = {}         \* mappages fails
            /\ pt' = [pt EXCEPT ![p][i] = e]
            /\ k' = [k EXCEPT ![p].pc = "unmap", ![p].op = "undo", ![p].va = 1, ![p].end = i - 1]
    /\ UNCHANGED <<freelist, count, content, sz, state, parent>>

(* Mutant: only a page that can be copied is counted. *)
IncCowOnly(p) ==
    /\ k[p].pc = "inc"
    /\ count' = [count EXCEPT ![pt[p][k[p].va].pa] = IF pt[p][k[p].va].cow THEN @ + 1 ELSE @]
    /\ k' = [k EXCEPT ![p].pc = "share", ![p].va = @ + 1]
    /\ UNCHANGED <<freelist, content, pt, sz, state, parent>>

(* krefinc *)
Inc(p) ==
    /\ k[p].pc = "inc"
    /\ count' = [count EXCEPT ![pt[p][k[p].va].pa] = @ + 1]
    /\ k' = [k EXCEPT ![p].pc = "share", ![p].va = @ + 1]
    /\ UNCHANGED <<freelist, content, pt, sz, state, parent>>

(* uvmcopy is through, and the child is made RUNNABLE. *)
Forked(p) ==
    /\ k[p].pc = "share" /\ FirstMapped(p, k[p].va, sz[p]) = {} /\ WaitLockFree
    /\ sz' = [sz EXCEPT ![k[p].tgt] = sz[p]]
    /\ state' = [state EXCEPT ![k[p].tgt] = "run"]
    /\ parent' = [parent EXCEPT ![k[p].tgt] = p]
    /\ Return(p)
    /\ UNCHANGED <<freelist, count, content, pt>>

-----------------------------------------------------------------------------
(* Page faults, copyout and eager sbrk: one page of va.                    *)

(* The tests of vmfault, before it allocates. *)
Resolvable(p, va, read) ==
    /\ va <= sz[p]
    /\ Mapped(pt[p][va]) => pt[p][va].cow /\ ~read

Enter(p, op, va, val, q) ==
    k' = [k EXCEPT ![p] = [User(p) EXCEPT !.pc = "alloc", !.op = op, !.va = va, !.val = val, !.child = q]]

Store(p, va, v) ==
    /\ InUser(p) /\ va <= sz[p] /\ pt[p][va].w /\ pt[p][va].u
    /\ content' = [content EXCEPT ![pt[p][va].pa] = v]
    /\ UNCHANGED <<freelist, count, pt, sz, state, parent, k>>

StoreFault(p, va) ==
    /\ InUser(p) /\ ~(pt[p][va].w /\ pt[p][va].u)
    /\ \/ /\ Resolvable(p, va, FALSE)
          /\ Enter(p, "store", va, 0, p) /\ UNCHANGED <<state, parent>>
       \/ ~Resolvable(p, va, FALSE) /\ Die(p)
    /\ UNCHANGED <<freelist, count, content, pt, sz>>

LoadFault(p, va) ==
    /\ InUser(p) /\ ~pt[p][va].u
    /\ \/ /\ Resolvable(p, va, TRUE)
          /\ Enter(p, "load", va, 0, p) /\ UNCHANGED <<state, parent>>
       \/ ~Resolvable(p, va, TRUE) /\ Die(p)
    /\ UNCHANGED <<freelist, count, content, pt, sz>>

StartUnmap(p, op, q, from, to) ==
    k' = [k EXCEPT ![p] = [User(p) EXCEPT !.pc = "unmap", !.op = op, !.tgt = q, !.va = from, !.end = to]]

(* kwait has the lock and finds q. *)
Waitable(p, q) == WaitLockFree /\ state[q] = "zombie" /\ parent[q] = p

(* copyout of v by a system call of p, or by its wait for q.  One that     *)
(* fails changes nothing: the call returns -1.                             *)
Copyout(p, op, va, v, q) ==
    /\ InUser(p) /\ va <= sz[p]
    /\ IF op = "wait" THEN Waitable(p, q) ELSE q = p
    /\ \/ /\ pt[p][va].u /\ pt[p][va].w
          /\ content' = [content EXCEPT ![pt[p][va].pa] = v]
          /\ IF op = "wait" THEN StartUnmap(p, "reap", q, 1, sz[q]) ELSE UNCHANGED k
       \/ /\ Resolvable(p, va, FALSE)
          /\ Enter(p, op, va, v, q)
          /\ UNCHANGED content
    /\ UNCHANGED <<freelist, count, pt, sz, state, parent>>

(* The fault cannot be served. *)
Failed(p) ==
    IF k[p].op \in {"store", "load"} THEN Die(p) ELSE Return(p) /\ UNCHANGED <<state, parent>>

(* The fault has been served: usertrap returns, copyout writes. *)
Resolved(p) ==
    /\ sz' = IF k[p].op = "grow" THEN [sz EXCEPT ![p] = @ + 1] ELSE sz
    /\ IF k[p].op \in {"copyout", "wait"} THEN k' = [k EXCEPT ![p].pc = "write"] ELSE Return(p)

(* kalloc: first the free list, then the count. *)
Alloc(p) ==
    /\ k[p].pc = "alloc"
    /\ \/ \E a \in freelist :
            /\ freelist' = freelist \ {a}
            /\ k' = [k EXCEPT ![p].pc = "count", ![p].mem = a]
            /\ UNCHANGED <<state, parent>>
       \/ freelist = {} /\ Failed(p) /\ UNCHANGED freelist
    /\ UNCHANGED <<count, content, pt, sz>>

Count(p) ==
    /\ k[p].pc = "count"
    /\ count' = [count EXCEPT ![k[p].mem] = 1]
    /\ content' = [content EXCEPT ![k[p].mem] = Junk]
    /\ k' = [k EXCEPT ![p].pc = "fill"]
    /\ UNCHANGED <<freelist, pt, sz, state, parent>>

(* vmfault: the private copy takes the place of the shared page. *)
CopyPage(p) ==
    /\ k[p].pc = "fill" /\ Mapped(pt[p][k[p].va])
    /\ LET e == pt[p][k[p].va] IN
       /\ content' = [content EXCEPT ![k[p].mem] = content[e.pa]]
       /\ pt' = [pt EXCEPT ![p][k[p].va] = [e EXCEPT !.pa = k[p].mem, !.w = TRUE, !.cow = FALSE]]
       /\ k' = [k EXCEPT ![p].pc = "drop", ![p].old = e.pa, ![p].mem = NoPage]
    /\ UNCHANGED <<freelist, count, sz, state, parent>>

(* vmfault and uvmalloc: a new page, zeroed. *)
ZeroPage(p) ==
    /\ k[p].pc = "fill" /\ ~Mapped(pt[p][k[p].va])
    /\ content' = [content EXCEPT ![k[p].mem] = 0]
    /\ \/ /\ pt' = [pt EXCEPT ![p][k[p].va] = [pa |-> k[p].mem, w |-> TRUE, cow |-> FALSE, u |-> TRUE]]
          /\ Resolved(p)
       \/ /\ freelist = {}            \* mappages fails
          /\ k' = [k EXCEPT ![p].pc = "drop", ![p].old = k[p].mem, ![p].mem = NoPage]
          /\ UNCHANGED <<pt, sz>>
    /\ UNCHANGED <<freelist, count, state, parent>>

(* copyout after the fault; wait goes on to free the child. *)
Write(p) ==
    /\ k[p].pc = "write"
    /\ content' = [content EXCEPT ![pt[p][k[p].va].pa] = k[p].val]
    /\ IF k[p].op = "wait" THEN StartUnmap(p, "reap", k[p].child, 1, sz[k[p].child]) ELSE Return(p)
    /\ UNCHANGED <<freelist, count, pt, sz, state, parent>>

-----------------------------------------------------------------------------
(* kfree and uvmunmap.                                                     *)

Unmapping == {"undo", "shrink", "reap"}

(* kfree has returned: uvmunmap clears the entry, a fault is through.      *)
Freed(p) ==
    IF k[p].op \in Unmapping
    THEN /\ pt' = [pt EXCEPT ![k[p].tgt][k[p].va] = None]
         /\ k' = [k EXCEPT ![p].pc = "unmap", ![p].old = NoPage]
         /\ UNCHANGED <<sz, state, parent>>
    ELSE /\ IF Mapped(pt[p][k[p].va])
            THEN Resolved(p) /\ UNCHANGED <<state, parent>>
            ELSE Failed(p) /\ UNCHANGED sz
         /\ UNCHANGED pt

(* Mutant: one reference too early. *)
DropEarly(p) ==
    /\ k[p].pc = "drop"
    /\ count' = [count EXCEPT ![k[p].old] = @ - 1]
    /\ IF count[k[p].old] > 2
       THEN Freed(p)
       ELSE k' = [k EXCEPT ![p].pc = "push"] /\ UNCHANGED <<pt, sz, state, parent>>
    /\ UNCHANGED <<freelist, content>>

(* kfree: one reference less; the last one frees the page. *)
Drop(p) ==
    /\ k[p].pc = "drop"
    /\ count' = [count EXCEPT ![k[p].old] = @ - 1]
    /\ IF count[k[p].old] > 1
       THEN Freed(p)
       ELSE k' = [k EXCEPT ![p].pc = "push"] /\ UNCHANGED <<pt, sz, state, parent>>
    /\ UNCHANGED <<freelist, content>>

Push(p) ==
    /\ k[p].pc = "push"
    /\ content' = [content EXCEPT ![k[p].old] = Junk]
    /\ freelist' = freelist \cup {k[p].old}
    /\ Freed(p)
    /\ UNCHANGED count

Unmap(p) ==
    /\ k[p].pc = "unmap"
    /\ \E i \in FirstMapped(k[p].tgt, k[p].va, k[p].end) :
         k' = [k EXCEPT ![p].pc = "drop", ![p].va = i, ![p].old = pt[k[p].tgt][i].pa]
    /\ UNCHANGED <<freelist, count, content, pt, sz, state, parent>>

(* The end of uvmunmap: of a failed fork, of sbrk, of freeproc. *)
Unmapped(p) ==
    /\ k[p].pc = "unmap" /\ FirstMapped(k[p].tgt, k[p].va, k[p].end) = {}
    /\ sz' = CASE k[p].op = "shrink" -> [sz EXCEPT ![p] = @ - 1]
               [] k[p].op = "reap"   -> [sz EXCEPT ![k[p].tgt] = 0]
               [] OTHER              -> sz
    /\ state' = IF k[p].op = "shrink" THEN state ELSE [state EXCEPT ![k[p].tgt] = "unused"]
    /\ Return(p)
    /\ UNCHANGED <<freelist, count, content, pt, parent>>

(* kwait with no address for the status. *)
Wait(p, q) ==
    /\ InUser(p) /\ Waitable(p, q)
    /\ StartUnmap(p, "reap", q, 1, sz[q])
    /\ UNCHANGED <<freelist, count, content, pt, sz, state, parent>>

(* sbrk *)

GrowLazy(p) ==
    /\ InUser(p) /\ sz[p] < MaxSz
    /\ sz' = [sz EXCEPT ![p] = @ + 1]
    /\ UNCHANGED <<freelist, count, content, pt, state, parent, k>>

GrowEager(p) ==
    /\ InUser(p) /\ sz[p] < MaxSz
    /\ Enter(p, "grow", sz[p] + 1, 0, p)
    /\ UNCHANGED <<freelist, count, content, pt, sz, state, parent>>

Shrink(p) ==
    /\ InUser(p) /\ sz[p] > 1
    /\ StartUnmap(p, "shrink", p, sz[p], sz[p])
    /\ UNCHANGED <<freelist, count, content, pt, sz, state, parent>>

Kernel(p) ==
    \/ Share(p) \/ Inc(p) \/ Forked(p)
    \/ Alloc(p) \/ Count(p) \/ CopyPage(p) \/ ZeroPage(p) \/ Write(p)
    \/ Drop(p) \/ Push(p) \/ Unmap(p) \/ Unmapped(p)

Syscall(p) ==
    \/ Exit(p) \/ GrowLazy(p) \/ GrowEager(p) \/ Shrink(p)
    \/ \E va \in Va : StoreFault(p, va) \/ LoadFault(p, va)
    \/ \E va \in Va, v \in Vals : Store(p, va, v)
    \/ \E q \in Procs :
         \/ Fork(p, q) \/ Wait(p, q)
         \/ \E va \in Va, v \in Vals, op \in {"copyout", "wait"} : Copyout(p, op, va, v, q)

Next == \E p \in Procs : Kernel(p) \/ Syscall(p)

Spec == Init /\ [][Next]_vars

-----------------------------------------------------------------------------
(* Properties.                                                             *)

(* The entries that stand for a counted reference: all but the one that    *)
(* uvmcopy has just mapped and one whose page uvmunmap has just freed.     *)
Counted(a) ==
    {r \in Procs \X Va :
        /\ pt[r[1]][r[2]].pa = a
        /\ \A p \in Procs : <<k[p].tgt, k[p].va>> = r =>
             /\ k[p].pc # "inc"
             /\ ~(k[p].pc = "push" /\ k[p].op \in Unmapping)}

(* The kernel paths that hold a reference of their own. *)
Holding(a) ==
    {p \in Procs :
        \/ k[p].pc = "fill" /\ k[p].mem = a
        \/ k[p].pc = "drop" /\ k[p].old = a /\ k[p].op \notin Unmapping}

(* The count of a page is the number of references to it, whatever the     *)
(* other processors are in the middle of: kfree neither frees a page that  *)
(* is still mapped nor panics, and krefinc does not panic.                 *)
CountExact == \A a \in Pages : count[a] = Cardinality(Counted(a)) + Cardinality(Holding(a))

(* No page is lost or handed out twice: without references it is on the    *)
(* free list or on its way to or from it, in exactly one place.            *)
PagesConserved ==
    \A a \in Pages :
        LET moving == {p \in Procs : \/ k[p].pc = "count" /\ k[p].mem = a
                                     \/ k[p].pc = "push" /\ k[p].old = a} IN
        IF count[a] > 0
        THEN a \notin freelist /\ moving = {}
        ELSE Cardinality(moving) = IF a \in freelist THEN 0 ELSE 1

(* Every page is accounted for, by its references or by its place. *)
PagesExact == CountExact /\ PagesConserved

(* What the user of p finds in its pages, of a kind a program had them in; *)
(* a lazy page reads as zero.                                              *)
Kind(e) ==
    CASE Mapped(e) /\ ~e.u                -> "guard"
      [] Mapped(e) /\ e.u /\ ~(e.w \/ e.cow) -> "text"
      [] OTHER                            -> "data"

Image(p) ==
    IF ~Running(p) THEN <<>>
    ELSE [va \in 1..(sz[p] - IF k[p].op = "shrink" THEN 1 ELSE 0) |->
            [kind |-> Kind(pt[p][va]),
             val |-> IF Mapped(pt[p][va]) THEN content[pt[p][va].pa] ELSE 0]]

Memory == INSTANCE ForkMemory WITH mem <- [p \in Procs |-> Image(p)]

(* Sharing is invisible: every process has memory of its own, and a child  *)
(* starts with its parent's as it was at the fork.                         *)
ImplementsForkMemory == Memory!Spec

(* vmfault's comment: a store to the stack guard page is fatal.  So what   *)
(* is in the guard page never changes.                                     *)
GuardKept ==
    [][\A p \in Procs : \A va \in Va :
         /\ va \in DOMAIN Image(p) /\ va \in DOMAIN Image(p)'
         /\ Image(p)[va].kind = "guard"
         => Image(p)'[va] = Image(p)[va]]_vars
-----------------------------------------------------------------------------
(* For TLC: two programs exec has loaded, a text page and a data page, or  *)
(* a stack with its guard page below; pages and processes but init are     *)
(* alike.                                                                  *)
TextAndData == <<"text", "data">>
GuardAndData == <<"guard", "data">>
Symmetry == Permutations(Pages) \cup Permutations(Procs \ {InitProc})
=============================================================================

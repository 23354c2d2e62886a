----------------------------- MODULE CowProofs ------------------------------
(***************************************************************************)
(* Proofs about Cow, for any number of processes and pages, programs of    *)
(* any layout and any memory: every page is accounted for, and sharing     *)
(* pages copy-on-write is invisible to programs without a guard page.      *)
(***************************************************************************)
EXTENDS Cow, FiniteSetTheorems, WellFoundedInduction, TLAPS

-----------------------------------------------------------------------------
(* The inductive invariant.                                                *)

Faulting == {"store", "load", "copyout", "wait", "grow"}
Busy(p) == k[p].pc # "user"

CowTypeOK ==
    /\ freelist \subseteq Pages
    /\ count \in [Pages -> Int]
    /\ pt \in [Procs -> [Va -> Pte]]
    /\ sz \in [Procs -> 0..MaxSz]
    /\ state \in [Procs -> {"unused", "used", "run", "zombie"}]
    /\ k \in [Procs -> Path]

(* Which steps belong to which calls, and what they have at hand. *)
PathShape(p) ==
    /\ k[p].pc = "user" => k[p] = User(p)
    /\ k[p].pc \in {"share", "inc"} => k[p].op = "fork"
    /\ k[p].pc \in {"alloc", "count", "fill"} => k[p].op \in Faulting /\ k[p].va \in Va
    /\ k[p].pc = "write" => k[p].op \in {"copyout", "wait"} /\ k[p].va \in Va
    /\ k[p].pc \in {"drop", "push"} => k[p].op \in Faulting \cup Unmapping /\ k[p].va \in Va
    /\ k[p].pc = "unmap" => k[p].op \in Unmapping
    /\ k[p].pc \in {"count", "fill"} => k[p].mem \in Pages
    /\ k[p].pc \in {"drop", "push"} => k[p].old \in Pages

(* A kernel path runs for a running process, on page tables nobody else is *)
(* at: its own, the one it makes for a child, or the one of a zombie that  *)
(* it found with wait_lock held.                                           *)
PathOwns(p) ==
    Busy(p) =>
        /\ state[p] = "run"
        /\ k[p].op \in {"fork", "undo"} => state[k[p].tgt] = "used"
        /\ k[p].op = "reap" => state[k[p].tgt] = "zombie"
        /\ k[p].op \notin {"fork", "undo", "reap"} => k[p].tgt = p
        /\ k[p].op = "wait" => state[k[p].child] = "zombie"

Alone ==
    \A p, q \in Procs :
        Busy(p) /\ Busy(q) /\ p # q =>
            /\ k[p].tgt # k[q].tgt
            /\ ~(k[p].op \in {"wait", "reap"} /\ k[q].op \in {"wait", "reap"})

(* Where a page table may have entries. *)
MappedIn(q, S) == \A va \in Va : Mapped(pt[q][va]) => va \in S

Extent(q) ==
    /\ state[q] = "unused" => MappedIn(q, {})
    /\ state[q] \in {"run", "zombie"} => MappedIn(q, 1..sz[q])

(* What a path knows of the page tables it works on. *)
PathTable(p) ==
    /\ k[p].pc = "share" => k[p].va <= sz[p] + 1 /\ MappedIn(k[p].tgt, 1..(k[p].va - 1))
    /\ k[p].pc = "inc" =>
         /\ k[p].va <= sz[p] /\ MappedIn(k[p].tgt, 1..k[p].va)
         /\ Mapped(pt[p][k[p].va]) /\ pt[k[p].tgt][k[p].va] = pt[p][k[p].va]
    /\ k[p].pc = "write" => Mapped(pt[p][k[p].va])
    /\ k[p].pc \in {"drop", "push"} /\ k[p].op \in Unmapping =>
         pt[k[p].tgt][k[p].va].pa = k[p].old /\ k[p].va <= k[p].end
    /\ k[p].op \in Faulting \ {"grow"} => k[p].va <= sz[p]
    /\ k[p].op = "grow" => k[p].va = sz[p] + 1
    /\ k[p].op = "shrink" => k[p].va = sz[p] /\ k[p].end = sz[p]
    /\ k[p].op \in {"undo", "reap"} => MappedIn(k[p].tgt, k[p].va..k[p].end)

TableInv ==
    /\ CowTypeOK
    /\ \A p \in Procs : PathShape(p) /\ PathOwns(p) /\ Extent(p) /\ PathTable(p)
    /\ Alone

CowInv == TableInv /\ PagesExact

-----------------------------------------------------------------------------
(* A step of p that changes nothing but the slots in T leaves the other    *)
(* kernel paths as they were if none of them is at a slot in T.            *)
Elsewhere(p, T) ==
    \A q \in Procs \ {p} :
        Busy(q) => q \notin T /\ k[q].tgt \notin T /\ (k[q].op = "wait" => k[q].child \notin T)

LEMMA OthersKept ==
    ASSUME TableInv, NEW p \in Procs, NEW T \in SUBSET Procs, Elsewhere(p, T),
           NEW q \in Procs \ {p}, k'[q] = k[q],
           \A s \in Procs \ T : state'[s] = state[s] /\ pt'[s] = pt[s] /\ sz'[s] = sz[s]
    PROVE  PathShape(q)' /\ PathOwns(q)' /\ PathTable(q)'
<1>1. k[q] \in Path /\ k[q].tgt \in Procs /\ k[q].child \in Procs
  BY DEF TableInv, CowTypeOK, Path
<1>2. PathShape(q) /\ PathOwns(q) /\ PathTable(q)
  BY DEF TableInv
<1>3. PathShape(q)'
  BY <1>2 DEF PathShape, User
<1>4. CASE ~Busy(q)
  <2>1. k'[q].pc = "user" /\ k'[q].op = "none"
    BY <1>2, <1>4 DEF PathShape, User, Busy
  <2> QED  BY <1>3, <2>1 DEF PathOwns, PathTable, Busy, Unmapping, Faulting
<1>5. CASE Busy(q)
  <2>1. /\ state'[q] = state[q] /\ pt'[q] = pt[q] /\ sz'[q] = sz[q]
        /\ state'[k[q].tgt] = state[k[q].tgt] /\ pt'[k[q].tgt] = pt[k[q].tgt]
        /\ k[q].op = "wait" => state'[k[q].child] = state[k[q].child]
    BY <1>1, <1>5 DEF Elsewhere
  <2>2. PathOwns(q)'
    BY <1>2, <2>1 DEF PathOwns, Busy
  <2>3. PathTable(q)'
    BY <1>2, <2>1 DEF PathTable, MappedIn
  <2> QED  BY <1>3, <2>2, <2>3
<1> QED  BY <1>4, <1>5

(* Nobody else is at the slots a running process or its path works on. *)
LEMMA MineAlone ==
    ASSUME TableInv, NEW p \in Procs, state[p] = "run"
    PROVE  Elsewhere(p, {p, k[p].tgt})
<1> SUFFICES ASSUME NEW q \in Procs \ {p}, Busy(q)
             PROVE  /\ q \notin {p, k[p].tgt} /\ k[q].tgt \notin {p, k[p].tgt}
                    /\ k[q].op = "wait" => k[q].child \notin {p, k[p].tgt}
  BY DEF Elsewhere
<1>1. PathOwns(q) /\ PathOwns(p) /\ PathShape(p)
  BY DEF TableInv
<1>2. k[q].tgt # p /\ (k[q].op = "wait" => k[q].child # p)
  BY <1>1 DEF PathOwns
<1>3. CASE ~Busy(p)
  BY <1>1, <1>2, <1>3 DEF PathShape, User, Busy
<1>4. CASE Busy(p)
  <2>1. k[q].tgt # k[p].tgt /\ ~(k[p].op \in {"wait", "reap"} /\ k[q].op \in {"wait", "reap"})
    BY <1>4 DEF TableInv, Alone
  <2> QED  BY <1>1, <1>2, <1>4, <2>1 DEF PathOwns
<1> QED  BY <1>3, <1>4

(* What is left to show of a step of p. *)
LEMMA TableKept ==
    ASSUME TableInv, NEW p \in Procs, NEW T \in SUBSET Procs, Elsewhere(p, T),
           CowTypeOK',
           \A q \in Procs \ {p} : k'[q] = k[q],
           \A s \in Procs \ T : state'[s] = state[s] /\ pt'[s] = pt[s] /\ sz'[s] = sz[s],
           \A s \in T : Extent(s)',
           PathShape(p)', PathOwns(p)', PathTable(p)',
           k'[p].pc = "user" \/ k'[p].tgt \in T
             \/ \A q \in Procs \ {p} : Busy(q) => k[q].tgt # k'[p].tgt,
           k'[p].op \in {"wait", "reap"} =>
             \A q \in Procs \ {p} : k[q].op \notin {"wait", "reap"}
    PROVE  TableInv'
<1>1. ASSUME NEW q \in Procs PROVE Extent(q)'
  <2>1. CASE q \in T  BY <2>1
  <2>2. CASE q \notin T
    <3>1. Extent(q)  BY DEF TableInv
    <3> QED  BY <2>2, <3>1 DEF Extent, MappedIn
  <2> QED  BY <2>1, <2>2
<1>2. ASSUME NEW q \in Procs PROVE PathShape(q)' /\ PathOwns(q)' /\ PathTable(q)'
  <2>1. CASE q = p  BY <2>1
  <2>2. CASE q # p  BY <2>2, OthersKept
  <2> QED  BY <2>1, <2>2
<1>3. Alone'
  <2> SUFFICES ASSUME NEW q \in Procs, NEW r \in Procs, Busy(q)', Busy(r)', q # r
               PROVE  /\ k'[q].tgt # k'[r].tgt
                      /\ ~(k'[q].op \in {"wait", "reap"} /\ k'[r].op \in {"wait", "reap"})
    BY DEF Alone
  <2>1. ASSUME NEW s \in Procs \ {p}, Busy(s)', Busy(p)'
        PROVE  /\ k'[s].tgt # k'[p].tgt
               /\ ~(k'[s].op \in {"wait", "reap"} /\ k'[p].op \in {"wait", "reap"})
    <3>1. k'[s] = k[s] /\ Busy(s)
      BY <2>1 DEF Busy
    <3>2. k[s].tgt # k'[p].tgt
      BY <2>1, <3>1 DEF Elsewhere, Busy
    <3> QED  BY <3>1, <3>2
  <2>2. CASE q # p /\ r # p
    <3>1. k'[q] = k[q] /\ k'[r] = k[r] /\ Busy(q) /\ Busy(r)
      BY <2>2 DEF Busy
    <3> QED  BY <3>1 DEF TableInv, Alone
  <2>3. CASE q = p
    BY <2>1, <2>3
  <2>4. CASE r = p
    BY <2>1, <2>4
  <2> QED  BY <2>2, <2>3, <2>4
<1> QED  BY <1>1, <1>2, <1>3 DEF TableInv

-----------------------------------------------------------------------------
(* FirstMapped finds the first mapped page, if there is one.               *)

LEMMA LeastOf ==
    ASSUME NEW S \in SUBSET Nat, S # {}
    PROVE  \E n \in S : \A m \in S : n <= m
<1> DEFINE R == {ss \in Nat \X Nat : ss[1] < ss[2]}
<1>1. IsWellFoundedOn(R, Nat)
  BY NatLessThanWellFounded DEF OpToRel
<1>2. PICK n \in S : \A m \in S : ~(<<m, n>> \in R)
  <2> HIDE DEF R
  <2> QED  BY <1>1, WFMin
<1>3. ASSUME NEW m \in S PROVE n <= m
  <2>1. ~(m < n)  BY <1>2
  <2> QED  BY <2>1
<1> QED  BY <1>3

LEMMA NoneMapped ==
    ASSUME NEW q \in Procs, NEW from \in 1..(MaxSz + 1), NEW to \in 0..MaxSz, MaxSz \in Nat,
           FirstMapped(q, from, to) = {}
    PROVE  \A va \in from..to : ~Mapped(pt[q][va])
<1> DEFINE S == {va \in from..to : Mapped(pt[q][va])}
<1>1. CASE S = {}
  BY <1>1
<1>2. CASE S # {}
  <2>1. S \subseteq Nat
    OBVIOUS
  <2>2. PICK n \in S : \A m \in S : n <= m
    BY <1>2, <2>1, LeastOf
  <2>3. n \in FirstMapped(q, from, to)
    BY <2>2 DEF FirstMapped
  <2> QED  BY <2>3
<1> QED  BY <1>1, <1>2

(* TableInv holds initially. *)
LEMMA TableInit == ASSUME CowAssumption, Init PROVE TableInv
<1>1. PICK image \in [1..Len(Layout) -> Pages] :
        /\ freelist = Pages \ {image[va] : va \in DOMAIN image}
        /\ count = [a \in Pages |-> IF a \in {image[va] : va \in DOMAIN image} THEN 1 ELSE 0]
        /\ pt = [p \in Procs |-> [va \in Va |->
                   IF p = InitProc /\ va \in DOMAIN image THEN ProgramPte(va, image[va]) ELSE None]]
        /\ sz = [p \in Procs |-> IF p = InitProc THEN Len(Layout) ELSE 0]
        /\ state = [p \in Procs |-> IF p = InitProc THEN "run" ELSE "unused"]
        /\ k = [p \in Procs |-> User(p)]
  BY DEF Init
<1>2. Len(Layout) \in Nat /\ MaxSz \in Nat /\ Len(Layout) <= MaxSz /\ NoPage \notin Pages
  BY DEF CowAssumption
<1>3. \A p \in Procs : User(p) \in Path
  BY <1>2 DEF User, Path, Pcs, Ops
<1>4. \A va \in Va, a \in Pages : ProgramPte(va, a) \in Pte /\ None \in Pte
  BY DEF ProgramPte, None, Pte
<1>5. CowTypeOK
  <2>1. pt \in [Procs -> [Va -> Pte]]
    BY <1>1, <1>2, <1>4 DEF Va
  <2> QED  BY <1>1, <1>2, <1>3, <2>1 DEF CowTypeOK
<1>6. ASSUME NEW p \in Procs PROVE PathShape(p) /\ PathOwns(p) /\ PathTable(p)
  BY <1>1 DEF PathShape, PathOwns, PathTable, Busy, User, Unmapping, Faulting
<1>7. ASSUME NEW p \in Procs PROVE Extent(p)
  BY <1>1, <1>2 DEF Extent, MappedIn, None, Mapped, Va
<1>8. Alone
  BY <1>1 DEF Alone, Busy, User
<1> QED  BY <1>5, <1>6, <1>7, <1>8 DEF TableInv

-----------------------------------------------------------------------------
(* The steps of TableInv.                                                  *)

(* A step that changes no page table, size or state, only p's path.        *)
LEMMA PathMoves ==
    ASSUME TableInv, NEW p \in Procs, state[p] = "run", CowTypeOK',
           \A q \in Procs \ {p} : k'[q] = k[q],
           UNCHANGED <<pt, sz, state>>,
           PathShape(p)', PathOwns(p)', PathTable(p)',
           k'[p].pc = "user" \/ k'[p].tgt \in {p, k[p].tgt}
             \/ \A q \in Procs \ {p} : Busy(q) => k[q].tgt # k'[p].tgt,
           k'[p].op \in {"wait", "reap"} =>
             \A q \in Procs \ {p} : k[q].op \notin {"wait", "reap"}
    PROVE  TableInv'
<1>1. {p, k[p].tgt} \in SUBSET Procs
  BY DEF TableInv, CowTypeOK, Path
<1>2. \A s \in {p, k[p].tgt} : Extent(s)'
  BY <1>1 DEF TableInv, Extent, MappedIn
<1> QED  BY <1>1, <1>2, MineAlone, TableKept, Zenon

(* What is known of a path inside the kernel. *)
LEMMA Inside ==
    ASSUME TableInv, NEW p \in Procs, Busy(p)
    PROVE  /\ state[p] = "run" /\ k[p] \in Path /\ k \in [Procs -> Path]
           /\ PathShape(p) /\ PathOwns(p) /\ PathTable(p) /\ Extent(p) /\ Extent(k[p].tgt)
           /\ k[p].op \in {"wait", "reap"} =>
                \A q \in Procs \ {p} : k[q].op \notin {"wait", "reap"}
<1>1. k[p] \in Path /\ k \in [Procs -> Path] /\ k[p].tgt \in Procs
  BY DEF TableInv, CowTypeOK, Path
<1>2. ASSUME NEW q \in Procs \ {p}, k[p].op \in {"wait", "reap"}
      PROVE  k[q].op \notin {"wait", "reap"}
  <2>1. CASE Busy(q)
    BY <1>2, <2>1 DEF TableInv, Alone
  <2>2. CASE ~Busy(q)
    <3>1. PathShape(q) /\ k[q].pc = "user"
      BY <2>2 DEF TableInv, Busy
    <3> QED  BY <3>1 DEF PathShape, User
  <2> QED  BY <2>1, <2>2
<1> QED  BY <1>1, <1>2 DEF TableInv, PathOwns

LEMMA InUserMode ==
    ASSUME TableInv, NEW p \in Procs, InUser(p)
    PROVE  state[p] = "run" /\ k[p] = User(p) /\ k[p].tgt = p /\ Extent(p) /\ k \in [Procs -> Path]
  BY DEF TableInv, InUser, Running, PathShape, User, CowTypeOK

LEMMA UserShape ==
    ASSUME NEW p \in Procs, k'[p] = User(p)
    PROVE  PathShape(p)' /\ PathOwns(p)' /\ PathTable(p)' /\ ~Busy(p)'
  BY DEF PathShape, PathOwns, PathTable, Busy, User, Unmapping, Faulting

LEMMA UserIsPath == ASSUME CowAssumption, NEW p \in Procs PROVE User(p) \in Path
  BY DEF User, Path, Pcs, Ops, CowAssumption

LEMMA TableShare ==
    ASSUME CowAssumption, TableInv, NEW p \in Procs, Share(p)
    PROVE  TableInv'
<1>1. k[p].pc = "share" /\ Busy(p)
  BY DEF Share, Busy
<1>q. PICK q \in Procs : q = k[p].tgt
  BY <1>1, Inside DEF Path
<1>2. /\ state[p] = "run" /\ k[p] \in Path /\ k \in [Procs -> Path] /\ q \in Procs
      /\ k[p].op = "fork" /\ state[q] = "used" /\ q # p
      /\ k[p].va <= sz[p] + 1 /\ MappedIn(q, 1..(k[p].va - 1)) /\ Extent(p) /\ Extent(q)
  BY <1>1, <1>q, Inside DEF PathShape, PathOwns, PathTable, Path
<1>3. PICK i \in FirstMapped(p, k[p].va, sz[p]) :
        \/ /\ pt' = [pt EXCEPT ![p][i] = Protected(pt[p][i]), ![q][i] = Protected(pt[p][i])]
           /\ k' = [k EXCEPT ![p].pc = "inc", ![p].va = i]
        \/ /\ pt' = [pt EXCEPT ![p][i] = Protected(pt[p][i])]
           /\ k' = [k EXCEPT ![p].pc = "unmap", ![p].op = "undo", ![p].va = 1, ![p].end = i - 1]
  BY <1>q DEF Share
<1>4. UNCHANGED <<freelist, count, sz, state>>
  BY DEF Share
<1>5. /\ sz[p] \in 0..MaxSz /\ MaxSz \in Nat /\ k[p].va \in 1..(MaxSz + 1)
      /\ i \in k[p].va..sz[p] /\ Mapped(pt[p][i]) /\ i \in Va
  <2>1. sz[p] \in 0..MaxSz /\ MaxSz \in Nat /\ k[p].va \in 1..(MaxSz + 1)
    BY <1>2 DEF TableInv, CowTypeOK, Path, CowAssumption
  <2>2. i \in k[p].va..sz[p] /\ Mapped(pt[p][i])
    BY <1>3 DEF FirstMapped
  <2> QED  BY <2>1, <2>2 DEF Va
<1>r. k[p] \in Path /\ i \in 1..(MaxSz + 1) /\ i - 1 \in 0..MaxSz /\ 1 \in 1..(MaxSz + 1)
  BY <1>2, <1>5 DEF Va
<1>6. /\ Protected(pt[p][i]) \in Pte /\ Mapped(Protected(pt[p][i]))
      /\ pt \in [Procs -> [Va -> Pte]]
  <2>1. pt[p][i] \in Pte /\ pt \in [Procs -> [Va -> Pte]]
    BY <1>5 DEF TableInv, CowTypeOK
  <2> QED  BY <1>5, <2>1 DEF Protected, Pte, Mapped
<1>7. pt' \in [Procs -> [Va -> Pte]] /\ \A s \in Procs \ {p, q} : pt'[s] = pt[s]
  <2>1. CASE pt' = [pt EXCEPT ![p][i] = Protected(pt[p][i]), ![q][i] = Protected(pt[p][i])]
    BY <1>2, <1>5, <1>6, <2>1
  <2>2. CASE pt' = [pt EXCEPT ![p][i] = Protected(pt[p][i])]
    BY <1>2, <1>5, <1>6, <2>2
  <2> QED  BY <1>3, <2>1, <2>2
<1>8. \A va \in Va : Mapped(pt'[p][va]) => Mapped(pt[p][va])
  <2>1. CASE pt' = [pt EXCEPT ![p][i] = Protected(pt[p][i]), ![q][i] = Protected(pt[p][i])]
    BY <1>2, <1>5, <1>6, <2>1
  <2>2. CASE pt' = [pt EXCEPT ![p][i] = Protected(pt[p][i])]
    BY <1>2, <1>5, <1>6, <2>2
  <2> QED  BY <1>3, <2>1, <2>2
<1>9. k' \in [Procs -> Path]
  <2>1. CASE k' = [k EXCEPT ![p].pc = "inc", ![p].va = i]
    <3>1. [k[p] EXCEPT !.pc = "inc", !.va = i] \in Path
      BY <1>r DEF Path, Pcs
    <3>2. k' = [k EXCEPT ![p] = [k[p] EXCEPT !.pc = "inc", !.va = i]]
      BY <1>2, <2>1
    <3> QED  BY <1>2, <3>1, <3>2
  <2>2. CASE k' = [k EXCEPT ![p].pc = "unmap", ![p].op = "undo", ![p].va = 1, ![p].end = i - 1]
    <3> DEFINE x == [k[p] EXCEPT !.pc = "unmap", !.op = "undo", !.va = 1, !.end = i - 1]
    <3>1. x \in Path
      BY <1>r DEF Path, Pcs, Ops
    <3>2. k' = [k EXCEPT ![p] = x]
      BY <1>2, <2>2
    <3> QED  BY <1>2, <3>1, <3>2
  <2> QED  BY <1>3, <2>1, <2>2
<1>10. CowTypeOK'
  BY <1>4, <1>7, <1>9 DEF CowTypeOK, TableInv
<1>11. k'[p].tgt = q /\ \A s \in Procs \ {p} : k'[s] = k[s]
  BY <1>q, <1>2, <1>3 DEF Path
<1>12. Extent(p)' /\ Extent(q)'
  <2>1. Extent(p)'
    BY <1>2, <1>4, <1>8 DEF Extent, MappedIn
  <2>2. Extent(q)'
    BY <1>2, <1>4 DEF Extent
  <2> QED  BY <2>1, <2>2
<1>13. PathShape(p)' /\ PathOwns(p)' /\ PathTable(p)' /\ k'[p].op \in {"fork", "undo"}
  <2>1. CASE /\ pt' = [pt EXCEPT ![p][i] = Protected(pt[p][i]), ![q][i] = Protected(pt[p][i])]
             /\ k' = [k EXCEPT ![p].pc = "inc", ![p].va = i]
    <3>1. k'[p].pc = "inc" /\ k'[p].op = "fork" /\ k'[p].va = i /\ k'[p].tgt = q
      BY <1>q, <1>2, <2>1 DEF Path
    <3>2. pt'[p][i] = Protected(pt[p][i]) /\ pt'[q][i] = Protected(pt[p][i])
      BY <1>2, <1>5, <1>6, <2>1
    <3>3. \A va \in Va : va # i => pt'[q][va] = pt[q][va]
      BY <1>2, <1>5, <1>6, <2>1
    <3>4. MappedIn(q, 1..i)'
      BY <1>2, <1>5, <3>3 DEF MappedIn, Va
    <3> QED  BY <1>2, <1>4, <1>5, <1>6, <3>1, <3>2, <3>4 DEF PathShape, PathOwns, PathTable, Unmapping, Busy, Faulting
  <2>2. CASE /\ pt' = [pt EXCEPT ![p][i] = Protected(pt[p][i])]
             /\ k' = [k EXCEPT ![p].pc = "unmap", ![p].op = "undo", ![p].va = 1, ![p].end = i - 1]
    <3>1. k'[p].pc = "unmap" /\ k'[p].op = "undo" /\ k'[p].va = 1 /\ k'[p].end = i - 1 /\ k'[p].tgt = q
      BY <1>q, <1>2, <2>2 DEF Path
    <3>2. pt'[q] = pt[q]
      BY <1>2, <2>2
    <3>3. MappedIn(q, 1..(i - 1))'
      BY <1>2, <1>5, <3>2 DEF MappedIn, Va
    <3> QED  BY <1>2, <1>4, <3>1, <3>3 DEF PathShape, PathOwns, PathTable, Unmapping, Busy, Faulting
  <2> QED  BY <1>3, <2>1, <2>2
<1>14. Elsewhere(p, {p, q}) /\ {p, q} \in SUBSET Procs
  BY <1>q, <1>2, MineAlone
<1>15. \A s \in {p, q} : Extent(s)'
  BY <1>12
<1>16. \A s \in Procs \ {p, q} : state'[s] = state[s] /\ pt'[s] = pt[s] /\ sz'[s] = sz[s]
  BY <1>4, <1>7
<1> QED  BY <1>10, <1>11, <1>13, <1>14, <1>15, <1>16, TableKept

LEMMA PathSet ==
    ASSUME k \in [Procs -> Path], NEW p \in Procs, NEW x \in Path, k' = [k EXCEPT ![p] = x]
    PROVE  k' \in [Procs -> Path] /\ k'[p] = x /\ \A q \in Procs \ {p} : k'[q] = k[q]
  OBVIOUS

(* The ways a step ends: the path is left, *)
LEMMA TableReturn ==
    ASSUME CowAssumption, TableInv, NEW p \in Procs, state[p] = "run", Return(p),
           UNCHANGED <<pt, sz, state>>, freelist' \subseteq Pages, count' \in [Pages -> Int]
    PROVE  TableInv'
<1>1. k \in [Procs -> Path] /\ User(p) \in Path
  BY UserIsPath DEF TableInv, CowTypeOK
<1>2. k' \in [Procs -> Path] /\ k'[p] = User(p) /\ \A q \in Procs \ {p} : k'[q] = k[q]
  BY <1>1, PathSet DEF Return
<1>3. CowTypeOK'
  BY <1>2 DEF TableInv, CowTypeOK
<1>4. k'[p].pc = "user" /\ k'[p].op = "none"
  BY <1>2 DEF User
<1> QED  BY <1>2, <1>3, <1>4, UserShape, PathMoves

(* or the process with it, *)
LEMMA TableDie ==
    ASSUME CowAssumption, TableInv, NEW p \in Procs, state[p] = "run", Die(p),
           UNCHANGED <<pt, sz>>, freelist' \subseteq Pages, count' \in [Pages -> Int]
    PROVE  TableInv'
<1>q. PICK q \in Procs : q = k[p].tgt
  BY DEF TableInv, CowTypeOK, Path
<1>1. k \in [Procs -> Path] /\ User(p) \in Path
  BY UserIsPath DEF TableInv, CowTypeOK
<1>2. k' \in [Procs -> Path] /\ k'[p] = User(p) /\ \A r \in Procs \ {p} : k'[r] = k[r]
  BY <1>1, PathSet DEF Return, Die
<1>3. /\ state' \in [Procs -> {"unused", "used", "run", "zombie"}] /\ state'[p] = "zombie"
      /\ \A r \in Procs \ {p} : state'[r] = state[r]
  BY DEF Die, TableInv, CowTypeOK
<1>4. CowTypeOK'
  BY <1>2, <1>3 DEF TableInv, CowTypeOK
<1>5. k'[p].pc = "user" /\ k'[p].op = "none"
  BY <1>2 DEF User
<1>6. Extent(p)'
  BY <1>3 DEF TableInv, Extent, MappedIn
<1>7. Extent(q)'
  <2>1. CASE q = p  BY <1>6, <2>1
  <2>2. CASE q # p
    <3>1. Extent(q)  BY DEF TableInv
    <3> QED  BY <1>3, <2>2, <3>1 DEF Extent, MappedIn
  <2> QED  BY <2>1, <2>2
<1>8. Elsewhere(p, {p, q}) /\ {p, q} \in SUBSET Procs
  BY <1>q, MineAlone
<1>9. \A s \in {p, q} : Extent(s)'
  BY <1>6, <1>7
<1>10. \A s \in Procs \ {p, q} : state'[s] = state[s] /\ pt'[s] = pt[s] /\ sz'[s] = sz[s]
  BY <1>3
<1> QED  BY <1>2, <1>4, <1>5, <1>8, <1>9, <1>10, UserShape, TableKept

LEMMA TableFailed ==
    ASSUME CowAssumption, TableInv, NEW p \in Procs, state[p] = "run", Failed(p),
           UNCHANGED <<pt, sz>>, freelist' \subseteq Pages, count' \in [Pages -> Int]
    PROVE  TableInv'
<1>1. CASE k[p].op \in {"store", "load"}
  BY <1>1, TableDie DEF Failed
<1>2. CASE k[p].op \notin {"store", "load"}
  BY <1>2, TableReturn DEF Failed
<1> QED  BY <1>1, <1>2

(* or a fault is served: its page is mapped, *)
LEMMA TableResolved ==
    ASSUME CowAssumption, TableInv, NEW p \in Procs, Busy(p), k[p].op \in Faulting,
           k[p].va \in Va, Resolved(p), UNCHANGED state,
           freelist' \subseteq Pages, count' \in [Pages -> Int],
           pt' \in [Procs -> [Va -> Pte]], Mapped(pt'[p][k[p].va]),
           \A s \in Procs \ {p} : pt'[s] = pt[s],
           \A va \in Va : va # k[p].va => pt'[p][va] = pt[p][va]
    PROVE  TableInv'
<1>1. /\ state[p] = "run" /\ k[p] \in Path /\ k \in [Procs -> Path] /\ k[p].tgt = p
      /\ PathOwns(p) /\ PathTable(p) /\ Extent(p)
      /\ k[p].op \in {"wait", "reap"} =>
           \A q \in Procs \ {p} : k[q].op \notin {"wait", "reap"}
  BY Inside DEF PathOwns, Faulting
<1>2. /\ sz \in [Procs -> 0..MaxSz] /\ MaxSz \in Nat
      /\ k[p].va \in 1..MaxSz
  BY DEF TableInv, CowTypeOK, CowAssumption, Va
<1>3. /\ k[p].op = "grow" => k[p].va = sz[p] + 1
      /\ k[p].op # "grow" => k[p].va <= sz[p]
  BY <1>1 DEF PathTable
<1>4. /\ sz' \in [Procs -> 0..MaxSz] /\ sz[p] <= sz'[p] /\ k[p].va <= sz'[p]
      /\ \A s \in Procs \ {p} : sz'[s] = sz[s]
      /\ k[p].op # "grow" => sz' = sz
  <2>1. CASE k[p].op = "grow"
    BY <1>2, <1>3, <2>1 DEF Resolved
  <2>2. CASE k[p].op # "grow"
    BY <1>2, <1>3, <2>2 DEF Resolved
  <2> QED  BY <2>1, <2>2
<1>5. Extent(p)'
  <2>1. MappedIn(p, 1..sz[p])
    BY <1>1 DEF Extent
  <2>2. ASSUME NEW va \in Va, Mapped(pt'[p][va]) PROVE va \in 1..sz'[p]
    <3>1. CASE va = k[p].va
      BY <1>2, <1>4, <3>1
    <3>2. CASE va # k[p].va
      BY <1>2, <1>4, <2>1, <2>2, <3>2 DEF MappedIn
    <3> QED  BY <3>1, <3>2
  <2> QED  BY <1>1, <2>2 DEF Extent, MappedIn
<1>6. /\ k' \in [Procs -> Path] /\ \A q \in Procs \ {p} : k'[q] = k[q]
      /\ PathShape(p)' /\ PathOwns(p)' /\ PathTable(p)'
      /\ k'[p].tgt = p /\ k'[p].op \in {"none", k[p].op} /\ k'[p].op # "reap"
  <2>1. CASE k[p].op \in {"copyout", "wait"}
    <3> DEFINE x == [k[p] EXCEPT !.pc = "write"]
    <3>1. x \in Path /\ x.pc = "write" /\ x.va = k[p].va /\ x.op = k[p].op /\ x.tgt = p /\ x.child = k[p].child
      BY <1>1 DEF Path, Pcs
    <3>2. k' = [k EXCEPT ![p] = x]
      BY <1>1, <2>1 DEF Resolved
    <3>3. k' \in [Procs -> Path] /\ k'[p] = x /\ \A q \in Procs \ {p} : k'[q] = k[q]
      BY <1>1, <3>1, <3>2, PathSet
    <3> HIDE DEF x
    <3>4. PathShape(p)'
      BY <2>1, <3>1, <3>3 DEF PathShape
    <3>5. PathOwns(p)'
      BY <1>1, <2>1, <3>1, <3>3 DEF PathOwns, Busy
    <3>6. PathTable(p)'
      BY <1>3, <1>4, <2>1, <3>1, <3>3 DEF PathTable, Unmapping, Faulting
    <3> QED  BY <2>1, <3>1, <3>3, <3>4, <3>5, <3>6
  <2>2. CASE k[p].op \notin {"copyout", "wait"}
    <3>1. k' \in [Procs -> Path] /\ k'[p] = User(p) /\ \A q \in Procs \ {p} : k'[q] = k[q]
      BY <1>1, <2>2, UserIsPath, PathSet DEF Resolved, Return
    <3>2. k'[p].tgt = p /\ k'[p].op = "none"
      BY <3>1 DEF User
    <3> QED  BY <3>1, <3>2, UserShape
  <2> QED  BY <2>1, <2>2
<1>7. CowTypeOK'
  BY <1>4, <1>6 DEF TableInv, CowTypeOK
<1>8. Elsewhere(p, {p}) /\ {p} \in SUBSET Procs
  <2>1. Elsewhere(p, {p, k[p].tgt})
    BY <1>1, MineAlone
  <2> QED  BY <1>1, <2>1
<1>9. \A s \in {p} : Extent(s)'
  BY <1>5
<1>10. \A s \in Procs \ {p} : state'[s] = state[s] /\ pt'[s] = pt[s] /\ sz'[s] = sz[s]
  BY <1>4
<1>11. k'[p].op \in {"wait", "reap"} => \A q \in Procs \ {p} : k[q].op \notin {"wait", "reap"}
  BY <1>1, <1>6
<1>12. k'[p].tgt \in {p}
  BY <1>6
<1> QED  BY <1>6, <1>7, <1>8, <1>9, <1>10, <1>11, <1>12, TableKept

(* or the zombie that a wait has found is reaped. *)
LEMMA TableStartReap ==
    ASSUME CowAssumption, TableInv, NEW p \in Procs, state[p] = "run", NEW q \in Procs,
           state[q] = "zombie", \A r \in Procs \ {p} : k[r].op \notin {"wait", "reap"},
           StartUnmap(p, "reap", q, 1, sz[q]), UNCHANGED <<freelist, count, pt, sz, state>>
    PROVE  TableInv'
<1> DEFINE x == [User(p) EXCEPT !.pc = "unmap", !.op = "reap", !.tgt = q, !.va = 1, !.end = sz[q]]
<1>1. k \in [Procs -> Path] /\ sz[q] \in 0..MaxSz /\ User(p) \in Path
  BY UserIsPath DEF TableInv, CowTypeOK
<1>2. /\ x \in Path /\ x.pc = "unmap" /\ x.op = "reap" /\ x.tgt = q /\ x.va = 1 /\ x.end = sz[q]
  BY <1>1 DEF Path, User, Pcs, Ops
<1>3. k' \in [Procs -> Path] /\ k'[p] = x /\ \A r \in Procs \ {p} : k'[r] = k[r]
  BY <1>1, <1>2, PathSet DEF StartUnmap
<1> HIDE DEF x
<1>4. CowTypeOK'
  BY <1>3 DEF TableInv, CowTypeOK
<1>5. MappedIn(q, 1..sz[q])
  BY DEF TableInv, Extent
<1>6. PathShape(p)'
  BY <1>2, <1>3 DEF PathShape, Unmapping
<1>7. PathOwns(p)'
  BY <1>2, <1>3 DEF PathOwns
<1>8. PathTable(p)'
  BY <1>2, <1>3, <1>5 DEF PathTable, MappedIn, Faulting
<1>9. ASSUME NEW r \in Procs \ {p}, Busy(r) PROVE k[r].tgt # q
  <2>1. PathOwns(r)
    BY DEF TableInv
  <2> QED  BY <1>9, <2>1 DEF PathOwns
<1> QED  BY <1>2, <1>3, <1>4, <1>6, <1>7, <1>8, <1>9, PathMoves

(* kfree has returned. *)
LEMMA TableFreed ==
    ASSUME CowAssumption, TableInv, NEW p \in Procs, k[p].pc \in {"drop", "push"}, Freed(p),
           freelist' \subseteq Pages, count' \in [Pages -> Int]
    PROVE  TableInv'
<1>1. /\ Busy(p) /\ state[p] = "run" /\ k[p] \in Path /\ k \in [Procs -> Path]
      /\ PathShape(p) /\ PathOwns(p) /\ PathTable(p)
      /\ k[p].op \in Faulting \cup Unmapping /\ k[p].va \in Va
      /\ pt \in [Procs -> [Va -> Pte]]
  <2>1. Busy(p)
    BY DEF Busy
  <2> QED  BY <2>1, Inside DEF PathShape, TableInv, CowTypeOK
<1>2. CASE k[p].op \notin Unmapping
  <2>1. CASE Mapped(pt[p][k[p].va])
    <3>1. Resolved(p) /\ UNCHANGED <<state, pt>>
      BY <1>2, <2>1 DEF Freed
    <3> QED  BY <1>1, <1>2, <2>1, <3>1, TableResolved
  <2>2. CASE ~Mapped(pt[p][k[p].va])
    <3>1. Failed(p) /\ UNCHANGED <<pt, sz>>
      BY <1>2, <2>2 DEF Freed
    <3> QED  BY <1>1, <3>1, TableFailed
  <2> QED  BY <2>1, <2>2
<1>3. CASE k[p].op \in Unmapping
  <2>q. PICK q \in Procs : q = k[p].tgt
    BY <1>1 DEF Path
  <2>1. /\ pt' = [pt EXCEPT ![q][k[p].va] = None]
        /\ k' = [k EXCEPT ![p].pc = "unmap", ![p].old = NoPage]
        /\ UNCHANGED <<sz, state>>
    BY <1>3, <2>q DEF Freed
  <2> DEFINE x == [k[p] EXCEPT !.pc = "unmap", !.old = NoPage]
  <2>2. /\ x \in Path /\ x.pc = "unmap" /\ x.op = k[p].op /\ x.tgt = q
        /\ x.va = k[p].va /\ x.end = k[p].end
    BY <1>1, <2>q DEF Path, Pcs
  <2>3. k' = [k EXCEPT ![p] = x]
    BY <1>1, <2>1
  <2>4. k' \in [Procs -> Path] /\ k'[p] = x /\ \A r \in Procs \ {p} : k'[r] = k[r]
    BY <1>1, <2>2, <2>3, PathSet
  <2> HIDE DEF x
  <2>5. None \in Pte /\ ~Mapped(None)
    BY DEF None, Pte, Mapped
  <2>6. /\ pt' \in [Procs -> [Va -> Pte]]
        /\ \A r \in Procs, va \in Va : Mapped(pt'[r][va]) => Mapped(pt[r][va])
        /\ \A r \in Procs \ {q} : pt'[r] = pt[r]
    BY <1>1, <2>1, <2>5
  <2>7. CowTypeOK'
    BY <2>1, <2>4, <2>6 DEF TableInv, CowTypeOK
  <2>8. ASSUME NEW r \in Procs PROVE Extent(r)'
    <3>1. Extent(r)
      BY DEF TableInv
    <3> QED  BY <2>1, <2>6, <3>1 DEF Extent, MappedIn
  <2>9. PathShape(p)'
    BY <1>3, <2>2, <2>4 DEF PathShape
  <2>10. PathOwns(p)'
    BY <1>1, <2>q, <2>1, <2>2, <2>4 DEF PathOwns
  <2>11. PathTable(p)'
    BY <1>1, <1>3, <2>q, <2>1, <2>2, <2>4, <2>6 DEF PathTable, MappedIn, Unmapping, Faulting
  <2>12. Elsewhere(p, {p, q}) /\ {p, q} \in SUBSET Procs
    BY <1>1, <2>q, MineAlone
  <2>13. k'[p].op \in {"wait", "reap"} => \A r \in Procs \ {p} : k[r].op \notin {"wait", "reap"}
    BY <1>1, <2>2, <2>4, Inside
  <2>14. \A s \in Procs \ {p, q} : state'[s] = state[s] /\ pt'[s] = pt[s] /\ sz'[s] = sz[s]
    BY <2>1, <2>6
  <2>15. \A s \in {p, q} : Extent(s)'
    BY <2>8
  <2>16. k'[p].tgt \in {p, q}
    BY <2>2, <2>4
  <2> QED  BY <2>4, <2>7, <2>9, <2>10, <2>11, <2>12, <2>13, <2>14, <2>15, <2>16, TableKept
<1> QED  BY <1>2, <1>3

LEMMA TableInc ==
    ASSUME CowAssumption, TableInv, NEW p \in Procs, Inc(p)
    PROVE  TableInv'
<1>1. k[p].pc = "inc" /\ Busy(p)
  BY DEF Inc, Busy
<1>2. /\ state[p] = "run" /\ k[p] \in Path /\ k \in [Procs -> Path]
      /\ PathOwns(p) /\ PathTable(p) /\ PathShape(p)
  BY <1>1, Inside
<1>3. k[p].va \in 1..sz[p] /\ sz[p] \in 0..MaxSz /\ MaxSz \in Nat /\ k[p].va + 1 \in 1..(MaxSz + 1)
  <2>1. k[p].va <= sz[p] /\ k[p].va \in 1..(MaxSz + 1)
    BY <1>1, <1>2 DEF PathTable, Path
  <2>2. sz[p] \in 0..MaxSz /\ MaxSz \in Nat
    BY DEF TableInv, CowTypeOK, CowAssumption
  <2> QED  BY <2>1, <2>2
<1> DEFINE x == [k[p] EXCEPT !.pc = "share", !.va = k[p].va + 1]
<1>4. x \in Path /\ x.pc = "share" /\ x.va = k[p].va + 1 /\ x.op = k[p].op /\ x.tgt = k[p].tgt
  BY <1>2, <1>3 DEF Path, Pcs
<1>5. k' = [k EXCEPT ![p] = x]
  BY <1>2 DEF Inc
<1>6. k' \in [Procs -> Path] /\ k'[p] = x /\ \A r \in Procs \ {p} : k'[r] = k[r]
  BY <1>2, <1>4, <1>5, PathSet
<1> HIDE DEF x
<1>7. count' \in [Pages -> Int] /\ UNCHANGED <<freelist, pt, sz, state>>
  <2>1. k[p].va \in Va
    BY <1>3 DEF Va
  <2>2. pt[p][k[p].va] \in Pte
    BY <2>1 DEF TableInv, CowTypeOK
  <2>3. Mapped(pt[p][k[p].va])
    BY <1>1, <1>2 DEF PathTable
  <2>4. pt[p][k[p].va].pa \in Pages
    BY <2>2, <2>3 DEF Mapped, Pte
  <2> QED  BY <2>4 DEF Inc, TableInv, CowTypeOK
<1>8. CowTypeOK'
  BY <1>6, <1>7 DEF TableInv, CowTypeOK
<1>9. k[p].op = "fork" /\ PathShape(p)'
  BY <1>1, <1>2, <1>4, <1>6 DEF PathShape
<1>10. PathOwns(p)'
  BY <1>1, <1>2, <1>4, <1>6, <1>7, <1>9 DEF PathOwns, Busy
<1>11. PathTable(p)'
  <2>1. MappedIn(k[p].tgt, 1..k[p].va) /\ k[p].va <= sz[p]
    BY <1>1, <1>2 DEF PathTable
  <2>2. /\ k'[p].pc = "share" /\ k'[p].op = "fork" /\ k'[p].tgt = k[p].tgt
        /\ k'[p].va = k[p].va + 1 /\ pt' = pt /\ sz' = sz
    BY <1>4, <1>6, <1>7, <1>9
  <2>3. k'[p].va - 1 = k[p].va /\ k'[p].va <= sz'[p] + 1
    BY <1>3, <2>1, <2>2
  <2>4. ASSUME NEW va \in Va, Mapped(pt'[k'[p].tgt][va]) PROVE va \in 1..(k'[p].va - 1)
    <3>1. Mapped(pt[k[p].tgt][va])
      BY <2>2, <2>4
    <3>. QED  BY <2>1, <2>3, <3>1 DEF MappedIn
  <2>5. k'[p].op \notin Unmapping \cup Faulting /\ k'[p].op \notin {"grow", "shrink", "undo", "reap"}
        /\ k'[p].pc \notin {"inc", "write", "drop", "push"}
    BY <2>2 DEF Unmapping, Faulting
  <2> QED  BY <2>2, <2>3, <2>4, <2>5 DEF PathTable, MappedIn
<1> QED  BY <1>2, <1>4, <1>6, <1>7, <1>8, <1>9, <1>10, <1>11, PathMoves

LEMMA TableForked ==
    ASSUME CowAssumption, TableInv, NEW p \in Procs, Forked(p)
    PROVE  TableInv'
<1>1. k[p].pc = "share" /\ Busy(p)
  BY DEF Forked, Busy
<1>q. PICK q \in Procs : q = k[p].tgt
  BY <1>1, Inside DEF Path
<1>2. /\ state[p] = "run" /\ k[p] \in Path /\ k \in [Procs -> Path]
      /\ PathOwns(p) /\ PathTable(p) /\ PathShape(p) /\ Extent(p)
      /\ state[q] = "used" /\ p # q
  BY <1>1, <1>q, Inside DEF PathOwns, PathShape
<1>3. /\ sz' = [sz EXCEPT ![q] = sz[p]] /\ state' = [state EXCEPT ![q] = "run"]
      /\ Return(p) /\ UNCHANGED <<freelist, count, pt>>
  BY <1>q DEF Forked
<1>4. k' \in [Procs -> Path] /\ k'[p] = User(p) /\ \A r \in Procs \ {p} : k'[r] = k[r]
  BY <1>2, <1>3, UserIsPath, PathSet DEF Return
<1>5. CowTypeOK'
  BY <1>3, <1>4 DEF TableInv, CowTypeOK
<1>6. /\ k[p].va <= sz[p] + 1 /\ MappedIn(q, 1..(k[p].va - 1))
      /\ k[p].va \in 1..(MaxSz + 1) /\ sz[p] \in 0..MaxSz /\ MaxSz \in Nat
      /\ sz'[q] = sz[p] /\ sz'[p] = sz[p] /\ state'[p] = state[p]
  BY <1>1, <1>q, <1>2, <1>3 DEF PathTable, Path, TableInv, CowTypeOK, CowAssumption
<1>7. Extent(q)'
  <2>1. \A va \in Va : va \in 1..(k[p].va - 1) => va \in 1..sz'[q]
    BY <1>6 DEF Va
  <2>2. state'[q] = "run"
    BY <1>3 DEF TableInv, CowTypeOK
  <2> QED  BY <1>3, <1>6, <2>1, <2>2 DEF Extent, MappedIn
<1>8. Extent(p)'
  BY <1>2, <1>3, <1>6 DEF Extent, MappedIn
<1>9. Elsewhere(p, {p, q}) /\ {p, q} \in SUBSET Procs /\ \A s \in {p, q} : Extent(s)'
  BY <1>q, <1>2, <1>7, <1>8, MineAlone
<1>10. \A s \in Procs \ {p, q} : state'[s] = state[s] /\ pt'[s] = pt[s] /\ sz'[s] = sz[s]
  BY <1>3 DEF TableInv, CowTypeOK
<1>11. k'[p].pc = "user" /\ k'[p].op = "none"
  BY <1>4 DEF User
<1> QED  BY <1>4, <1>5, <1>9, <1>10, <1>11, UserShape, TableKept

LEMMA TableAlloc ==
    ASSUME CowAssumption, TableInv, NEW p \in Procs, Alloc(p)
    PROVE  TableInv'
<1>1. k[p].pc = "alloc" /\ Busy(p) /\ UNCHANGED <<count, pt, sz>>
  BY DEF Alloc, Busy
<1>2. /\ state[p] = "run" /\ k[p] \in Path /\ k \in [Procs -> Path]
      /\ PathOwns(p) /\ PathTable(p) /\ PathShape(p)
      /\ k[p].op \in Faulting /\ k[p].va \in Va
  BY <1>1, Inside DEF PathShape
<1>3. CASE freelist = {} /\ Failed(p) /\ UNCHANGED freelist
  BY <1>1, <1>2, <1>3, TableFailed DEF TableInv, CowTypeOK
<1>4. ASSUME NEW a \in freelist, freelist' = freelist \ {a},
             k' = [k EXCEPT ![p].pc = "count", ![p].mem = a], UNCHANGED state
      PROVE  TableInv'
  <2> DEFINE x == [k[p] EXCEPT !.pc = "count", !.mem = a]
  <2>1. a \in Pages
    BY DEF TableInv, CowTypeOK
  <2>2. /\ x \in Path /\ x.pc = "count" /\ x.mem = a /\ x.op = k[p].op /\ x.tgt = k[p].tgt
        /\ x.va = k[p].va /\ x.child = k[p].child
    BY <1>2, <2>1 DEF Path, Pcs
  <2>3. k' = [k EXCEPT ![p] = x]
    BY <1>2, <1>4
  <2>4. k' \in [Procs -> Path] /\ k'[p] = x /\ \A r \in Procs \ {p} : k'[r] = k[r]
    BY <1>2, <2>2, <2>3, PathSet
  <2> HIDE DEF x
  <2>5. CowTypeOK'
    BY <1>1, <1>4, <2>4 DEF TableInv, CowTypeOK
  <2>6. PathShape(p)'
    BY <1>2, <2>1, <2>2, <2>4 DEF PathShape
  <2>7. PathOwns(p)'
    BY <1>1, <1>2, <1>4, <2>2, <2>4 DEF PathOwns
  <2>8. PathTable(p)'
    BY <1>1, <1>2, <2>2, <2>4 DEF PathTable, Faulting
  <2>9. k'[p].op \in {"wait", "reap"} => \A r \in Procs \ {p} : k[r].op \notin {"wait", "reap"}
    BY <1>1, <2>2, <2>4, Inside
  <2> QED  BY <1>1, <1>2, <1>4, <2>2, <2>4, <2>5, <2>6, <2>7, <2>8, <2>9, PathMoves
<1> QED  BY <1>3, <1>4 DEF Alloc

LEMMA TableCount ==
    ASSUME CowAssumption, TableInv, NEW p \in Procs, Count(p)
    PROVE  TableInv'
<1>1. k[p].pc = "count" /\ Busy(p) /\ UNCHANGED <<freelist, pt, sz, state>>
  BY DEF Count, Busy
<1>2. /\ state[p] = "run" /\ k[p] \in Path /\ k \in [Procs -> Path]
      /\ PathOwns(p) /\ PathTable(p) /\ PathShape(p)
      /\ k[p].op \in Faulting /\ k[p].va \in Va /\ k[p].mem \in Pages
  BY <1>1, Inside DEF PathShape
<1> DEFINE x == [k[p] EXCEPT !.pc = "fill"]
<1>3. /\ x \in Path /\ x.pc = "fill" /\ x.mem = k[p].mem /\ x.op = k[p].op /\ x.tgt = k[p].tgt
      /\ x.va = k[p].va /\ x.child = k[p].child
  BY <1>2 DEF Path, Pcs
<1>4. k' \in [Procs -> Path] /\ k'[p] = x /\ \A r \in Procs \ {p} : k'[r] = k[r]
  <2>1. k' = [k EXCEPT ![p] = x]
    BY <1>2 DEF Count
  <2> QED  BY <1>2, <1>3, <2>1, PathSet
<1> HIDE DEF x
<1>5. CowTypeOK'
  <2>1. count' \in [Pages -> Int]
    <3>0. PICK m \in Pages : m = k[p].mem
      BY <1>2
    <3>1. count' = [count EXCEPT ![m] = 1]
      BY <3>0 DEF Count
    <3>2. count \in [Pages -> Int]
      BY DEF TableInv, CowTypeOK
    <3> QED  BY <3>1, <3>2
  <2> QED  BY <1>1, <1>4, <2>1 DEF TableInv, CowTypeOK
<1>6. PathShape(p)'
  BY <1>2, <1>3, <1>4 DEF PathShape
<1>7. PathOwns(p)'
  BY <1>1, <1>2, <1>3, <1>4 DEF PathOwns
<1>8. PathTable(p)'
  BY <1>1, <1>2, <1>3, <1>4 DEF PathTable, Faulting
<1>9. k'[p].op \in {"wait", "reap"} => \A r \in Procs \ {p} : k[r].op \notin {"wait", "reap"}
  BY <1>1, <1>3, <1>4, Inside
<1> QED  BY <1>1, <1>2, <1>3, <1>4, <1>5, <1>6, <1>7, <1>8, <1>9, PathMoves

LEMMA TableCopyPage ==
    ASSUME CowAssumption, TableInv, NEW p \in Procs, CopyPage(p)
    PROVE  TableInv'
<1>1. k[p].pc = "fill" /\ Busy(p) /\ UNCHANGED <<freelist, count, sz, state>>
  BY DEF CopyPage, Busy
<1>2. /\ state[p] = "run" /\ k[p] \in Path /\ k \in [Procs -> Path]
      /\ PathOwns(p) /\ PathTable(p) /\ PathShape(p) /\ Extent(p)
      /\ k[p].op \in Faulting /\ k[p].va \in Va /\ k[p].mem \in Pages /\ k[p].tgt = p
  BY <1>1, Inside DEF PathShape, PathOwns, Faulting
<1>e. PICK e \in Pte : e = pt[p][k[p].va]
  BY <1>2 DEF TableInv, CowTypeOK
<1>3. /\ Mapped(e)
      /\ pt' = [pt EXCEPT ![p][k[p].va] = [e EXCEPT !.pa = k[p].mem, !.w = TRUE, !.cow = FALSE]]
      /\ k' = [k EXCEPT ![p].pc = "drop", ![p].old = e.pa, ![p].mem = NoPage]
  BY <1>e DEF CopyPage
<1> DEFINE x == [k[p] EXCEPT !.pc = "drop", !.old = e.pa, !.mem = NoPage]
<1>4. e.pa \in Pages
  BY <1>3 DEF Pte, Mapped
<1>5. /\ x \in Path /\ x.pc = "drop" /\ x.old = e.pa /\ x.op = k[p].op /\ x.tgt = k[p].tgt
      /\ x.va = k[p].va /\ x.child = k[p].child
  BY <1>2, <1>4 DEF Path, Pcs
<1>6. k' \in [Procs -> Path] /\ k'[p] = x /\ \A r \in Procs \ {p} : k'[r] = k[r]
  <2>1. k' = [k EXCEPT ![p] = x]
    BY <1>2, <1>3
  <2> QED  BY <1>2, <1>5, <2>1, PathSet
<1> HIDE DEF x
<1>7. [e EXCEPT !.pa = k[p].mem, !.w = TRUE, !.cow = FALSE] \in Pte
  BY <1>2 DEF Pte
<1>8. /\ pt' \in [Procs -> [Va -> Pte]] /\ \A r \in Procs \ {p} : pt'[r] = pt[r]
      /\ \A va \in Va : va # k[p].va => pt'[p][va] = pt[p][va]
  BY <1>2, <1>3, <1>7 DEF TableInv, CowTypeOK
<1>9. CowTypeOK'
  BY <1>1, <1>6, <1>8 DEF TableInv, CowTypeOK
<1>10. Extent(p)'
  <2>1. \A va \in Va : Mapped(pt'[p][va]) => Mapped(pt[p][va])
    BY <1>e, <1>3, <1>8
  <2> QED  BY <1>1, <1>2, <2>1 DEF Extent, MappedIn
<1>11. PathShape(p)'
  BY <1>2, <1>4, <1>5, <1>6 DEF PathShape
<1>12. PathOwns(p)'
  BY <1>1, <1>2, <1>5, <1>6 DEF PathOwns
<1>13. PathTable(p)'
  BY <1>1, <1>2, <1>5, <1>6 DEF PathTable, Faulting, Unmapping
<1>14. k'[p].op \in {"wait", "reap"} => \A r \in Procs \ {p} : k[r].op \notin {"wait", "reap"}
  BY <1>1, <1>5, <1>6, Inside
<1>15. Elsewhere(p, {p}) /\ {p} \in SUBSET Procs /\ \A s \in {p} : Extent(s)'
  <2>1. Elsewhere(p, {p, k[p].tgt})
    BY <1>2, MineAlone
  <2> QED  BY <1>2, <1>10, <2>1
<1>16. \A s \in Procs \ {p} : state'[s] = state[s] /\ pt'[s] = pt[s] /\ sz'[s] = sz[s]
  BY <1>1, <1>8
<1>17. k'[p].tgt \in {p}
  BY <1>2, <1>5, <1>6
<1> QED  BY <1>6, <1>9, <1>11, <1>12, <1>13, <1>14, <1>15, <1>16, <1>17, TableKept

LEMMA TableZeroPage ==
    ASSUME CowAssumption, TableInv, NEW p \in Procs, ZeroPage(p)
    PROVE  TableInv'
<1>1. k[p].pc = "fill" /\ Busy(p) /\ UNCHANGED <<freelist, count, state>>
  BY DEF ZeroPage, Busy
<1>2. /\ state[p] = "run" /\ k[p] \in Path /\ k \in [Procs -> Path]
      /\ PathOwns(p) /\ PathTable(p) /\ PathShape(p) /\ Extent(p)
      /\ k[p].op \in Faulting /\ k[p].va \in Va /\ k[p].mem \in Pages /\ k[p].tgt = p
  BY <1>1, Inside DEF PathShape, PathOwns, Faulting
<1>3. CASE /\ pt' = [pt EXCEPT ![p][k[p].va] = [pa |-> k[p].mem, w |-> TRUE, cow |-> FALSE, u |-> TRUE]]
           /\ Resolved(p)
  <2> DEFINE e == [pa |-> k[p].mem, w |-> TRUE, cow |-> FALSE, u |-> TRUE]
  <2>1. e \in Pte /\ Mapped(e)
    BY <1>2 DEF Pte, Mapped, CowAssumption
  <2>2. pt' = [pt EXCEPT ![p][k[p].va] = e]
    BY <1>3
  <2> HIDE DEF e
  <2>3. /\ pt' \in [Procs -> [Va -> Pte]] /\ \A r \in Procs \ {p} : pt'[r] = pt[r]
        /\ \A va \in Va : va # k[p].va => pt'[p][va] = pt[p][va]
        /\ Mapped(pt'[p][k[p].va])
    BY <1>2, <2>1, <2>2 DEF TableInv, CowTypeOK
  <2>4. freelist' \subseteq Pages /\ count' \in [Pages -> Int]
    BY <1>1 DEF TableInv, CowTypeOK
  <2> QED  BY <1>1, <1>2, <1>3, <2>3, <2>4, TableResolved
<1>4. CASE /\ k' = [k EXCEPT ![p].pc = "drop", ![p].old = k[p].mem, ![p].mem = NoPage]
           /\ UNCHANGED <<pt, sz>>
  <2> DEFINE x == [k[p] EXCEPT !.pc = "drop", !.old = k[p].mem, !.mem = NoPage]
  <2>1. /\ x \in Path /\ x.pc = "drop" /\ x.old = k[p].mem /\ x.op = k[p].op /\ x.tgt = k[p].tgt
        /\ x.va = k[p].va /\ x.child = k[p].child
    BY <1>2 DEF Path, Pcs
  <2>2. k' \in [Procs -> Path] /\ k'[p] = x /\ \A r \in Procs \ {p} : k'[r] = k[r]
    <3>1. k' = [k EXCEPT ![p] = x]
      BY <1>2, <1>4
    <3> QED  BY <1>2, <2>1, <3>1, PathSet
  <2> HIDE DEF x
  <2>3. CowTypeOK'
    BY <1>1, <1>4, <2>2 DEF TableInv, CowTypeOK
  <2>4. PathShape(p)'
    BY <1>2, <2>1, <2>2 DEF PathShape
  <2>5. PathOwns(p)'
    BY <1>1, <1>2, <2>1, <2>2 DEF PathOwns
  <2>6. PathTable(p)'
    BY <1>1, <1>2, <1>4, <2>1, <2>2 DEF PathTable, Faulting, Unmapping
  <2>7. k'[p].op \in {"wait", "reap"} => \A r \in Procs \ {p} : k[r].op \notin {"wait", "reap"}
    BY <1>1, <2>1, <2>2, Inside
  <2> QED  BY <1>1, <1>2, <1>4, <2>1, <2>2, <2>3, <2>4, <2>5, <2>6, <2>7, PathMoves
<1> QED  BY <1>3, <1>4 DEF ZeroPage

LEMMA TableWrite ==
    ASSUME CowAssumption, TableInv, NEW p \in Procs, Write(p)
    PROVE  TableInv'
<1>1. k[p].pc = "write" /\ Busy(p) /\ UNCHANGED <<freelist, count, pt, sz, state>>
  BY DEF Write, Busy
<1>2. state[p] = "run" /\ PathOwns(p) /\ k[p].child \in Procs
  BY <1>1, Inside DEF Path
<1>3. CASE k[p].op = "wait"
  <2>1. \A r \in Procs \ {p} : k[r].op \notin {"wait", "reap"}
    BY <1>1, <1>3, Inside
  <2>2. state[k[p].child] = "zombie"
    BY <1>1, <1>2, <1>3 DEF PathOwns
  <2>3. StartUnmap(p, "reap", k[p].child, 1, sz[k[p].child])
    BY <1>3 DEF Write
  <2> QED  BY <1>1, <1>2, <2>1, <2>2, <2>3, TableStartReap
<1>4. CASE k[p].op # "wait"
  <2>1. Return(p) /\ freelist' \subseteq Pages /\ count' \in [Pages -> Int]
    BY <1>1, <1>4 DEF Write, TableInv, CowTypeOK
  <2> QED  BY <1>1, <1>2, <2>1, TableReturn
<1> QED  BY <1>3, <1>4

LEMMA TableDrop ==
    ASSUME CowAssumption, TableInv, NEW p \in Procs, Drop(p)
    PROVE  TableInv'
<1>1. k[p].pc = "drop" /\ Busy(p) /\ UNCHANGED freelist
  BY DEF Drop, Busy
<1>2. /\ state[p] = "run" /\ k[p] \in Path /\ k \in [Procs -> Path]
      /\ PathOwns(p) /\ PathTable(p) /\ PathShape(p) /\ k[p].old \in Pages
  BY <1>1, Inside DEF PathShape
<1>3. count' \in [Pages -> Int] /\ freelist' \subseteq Pages
  BY <1>1, <1>2 DEF Drop, TableInv, CowTypeOK
<1>4. CASE Freed(p)
  BY <1>1, <1>3, <1>4, TableFreed
<1>5. CASE k' = [k EXCEPT ![p].pc = "push"] /\ UNCHANGED <<pt, sz, state>>
  <2> DEFINE x == [k[p] EXCEPT !.pc = "push"]
  <2>1. /\ x \in Path /\ x.pc = "push" /\ x.old = k[p].old /\ x.op = k[p].op /\ x.tgt = k[p].tgt
        /\ x.va = k[p].va /\ x.child = k[p].child /\ x.end = k[p].end
    BY <1>2 DEF Path, Pcs
  <2>2. k' \in [Procs -> Path] /\ k'[p] = x /\ \A r \in Procs \ {p} : k'[r] = k[r]
    <3>1. k' = [k EXCEPT ![p] = x]
      BY <1>2, <1>5
    <3> QED  BY <1>2, <2>1, <3>1, PathSet
  <2> HIDE DEF x
  <2>3. CowTypeOK'
    BY <1>3, <1>5, <2>2 DEF TableInv, CowTypeOK
  <2>4. PathShape(p)'
    BY <1>1, <1>2, <2>1, <2>2 DEF PathShape
  <2>5. PathOwns(p)'
    BY <1>1, <1>2, <1>5, <2>1, <2>2 DEF PathOwns
  <2>6. PathTable(p)'
    BY <1>1, <1>2, <1>5, <2>1, <2>2 DEF PathTable, MappedIn
  <2>7. k'[p].op \in {"wait", "reap"} => \A r \in Procs \ {p} : k[r].op \notin {"wait", "reap"}
    BY <1>1, <2>1, <2>2, Inside
  <2> QED  BY <1>1, <1>2, <1>5, <2>1, <2>2, <2>3, <2>4, <2>5, <2>6, <2>7, PathMoves
<1> QED  BY <1>4, <1>5 DEF Drop

LEMMA TablePush ==
    ASSUME CowAssumption, TableInv, NEW p \in Procs, Push(p)
    PROVE  TableInv'
<1>1. k[p].pc = "push" /\ Busy(p) /\ UNCHANGED count /\ Freed(p)
  BY DEF Push, Busy
<1>2. k[p].old \in Pages
  BY <1>1, Inside DEF PathShape
<1>3. count' \in [Pages -> Int] /\ freelist' \subseteq Pages
  BY <1>1, <1>2 DEF Push, TableInv, CowTypeOK
<1> QED  BY <1>1, <1>3, TableFreed

LEMMA TableUnmap ==
    ASSUME CowAssumption, TableInv, NEW p \in Procs, Unmap(p)
    PROVE  TableInv'
<1>1. k[p].pc = "unmap" /\ Busy(p) /\ UNCHANGED <<freelist, count, pt, sz, state>>
  BY DEF Unmap, Busy
<1>q. PICK q \in Procs : q = k[p].tgt
  BY <1>1, Inside DEF Path
<1>2. /\ state[p] = "run" /\ k[p] \in Path /\ k \in [Procs -> Path]
      /\ PathOwns(p) /\ PathTable(p) /\ PathShape(p) /\ k[p].op \in Unmapping
  BY <1>1, Inside DEF PathShape
<1>3. PICK i \in FirstMapped(q, k[p].va, k[p].end) :
        k' = [k EXCEPT ![p].pc = "drop", ![p].va = i, ![p].old = pt[q][i].pa]
  BY <1>q DEF Unmap
<1>4. /\ i \in Va /\ i >= k[p].va /\ i <= k[p].end /\ Mapped(pt[q][i])
      /\ \A j \in k[p].va..(i - 1) : ~Mapped(pt[q][j])
      /\ k[p].va \in 1..(MaxSz + 1) /\ k[p].end \in 0..MaxSz /\ MaxSz \in Nat
  <2>1. k[p].va \in 1..(MaxSz + 1) /\ k[p].end \in 0..MaxSz /\ MaxSz \in Nat
    BY <1>2 DEF Path, CowAssumption
  <2>2. i \in k[p].va..k[p].end /\ Mapped(pt[q][i]) /\ \A j \in k[p].va..(i - 1) : ~Mapped(pt[q][j])
    BY <1>3 DEF FirstMapped
  <2> QED  BY <2>1, <2>2 DEF Va
<1>5. pt[q][i].pa \in Pages /\ i \in 1..(MaxSz + 1)
  <2>1. pt[q][i] \in Pte
    BY <1>4 DEF TableInv, CowTypeOK
  <2> QED  BY <1>4, <2>1 DEF Pte, Mapped, Va
<1> DEFINE x == [k[p] EXCEPT !.pc = "drop", !.va = i, !.old = pt[q][i].pa]
<1>6. /\ x \in Path /\ x.pc = "drop" /\ x.old = pt[q][i].pa /\ x.op = k[p].op /\ x.tgt = q
      /\ x.va = i /\ x.child = k[p].child /\ x.end = k[p].end
  BY <1>q, <1>2, <1>5 DEF Path, Pcs
<1>7. k' \in [Procs -> Path] /\ k'[p] = x /\ \A r \in Procs \ {p} : k'[r] = k[r]
  <2>1. k' = [k EXCEPT ![p] = x]
    BY <1>2, <1>3
  <2> QED  BY <1>2, <1>6, <2>1, PathSet
<1> HIDE DEF x
<1>8. CowTypeOK'
  BY <1>1, <1>7 DEF TableInv, CowTypeOK
<1>9. PathShape(p)'
  BY <1>2, <1>4, <1>5, <1>6, <1>7 DEF PathShape
<1>10. PathOwns(p)'
  BY <1>q, <1>1, <1>2, <1>6, <1>7 DEF PathOwns
<1>11. PathTable(p)'
  <2>1. k[p].op = "shrink" => i = sz[p] /\ k[p].end = sz[p]
    <3>1. k[p].op = "shrink" => k[p].va = sz[p] /\ k[p].end = sz[p]
      BY <1>2 DEF PathTable
    <3>2. sz[p] \in 0..MaxSz
      BY DEF TableInv, CowTypeOK
    <3> QED  BY <1>4, <3>1, <3>2 DEF Va
  <2>2. k[p].op \in {"undo", "reap"} => MappedIn(q, i..k[p].end)
    <3> SUFFICES ASSUME k[p].op \in {"undo", "reap"}, NEW va \in Va, Mapped(pt[q][va])
                 PROVE  va \in i..k[p].end
      BY DEF MappedIn
    <3>1. va \in k[p].va..k[p].end
      BY <1>q, <1>2 DEF PathTable, MappedIn
    <3>2. ~(va \in k[p].va..(i - 1))
      BY <1>4
    <3> QED  BY <1>4, <3>1, <3>2 DEF Va
  <2>3. k[p].op \notin Faulting \cup {"grow", "fork"}
    BY <1>2 DEF Unmapping, Faulting
  <2> QED  BY <1>1, <1>4, <1>6, <1>7, <2>1, <2>2, <2>3 DEF PathTable, MappedIn, Faulting
<1>12. k'[p].op \in {"wait", "reap"} => \A r \in Procs \ {p} : k[r].op \notin {"wait", "reap"}
  BY <1>1, <1>6, <1>7, Inside
<1> QED  BY <1>q, <1>1, <1>2, <1>6, <1>7, <1>8, <1>9, <1>10, <1>11, <1>12, PathMoves

LEMMA TableUnmapped ==
    ASSUME CowAssumption, TableInv, NEW p \in Procs, Unmapped(p)
    PROVE  TableInv'
<1>1. k[p].pc = "unmap" /\ Busy(p) /\ UNCHANGED <<freelist, count, pt>> /\ Return(p)
  BY DEF Unmapped, Busy
<1>q. PICK q \in Procs : q = k[p].tgt
  BY <1>1, Inside DEF Path
<1>2. /\ state[p] = "run" /\ k[p] \in Path /\ k \in [Procs -> Path]
      /\ PathOwns(p) /\ PathTable(p) /\ PathShape(p) /\ k[p].op \in Unmapping /\ Extent(p)
  BY <1>1, Inside DEF PathShape
<1>3. k' \in [Procs -> Path] /\ k'[p] = User(p) /\ \A r \in Procs \ {p} : k'[r] = k[r]
  BY <1>1, <1>2, UserIsPath, PathSet DEF Return
<1>4. k'[p].pc = "user" /\ k'[p].op = "none"
  BY <1>3 DEF User
<1>5. \A va \in k[p].va..k[p].end : ~Mapped(pt[q][va])
  <2>1. k[p].va \in 1..(MaxSz + 1) /\ k[p].end \in 0..MaxSz /\ MaxSz \in Nat
    BY <1>2 DEF Path, CowAssumption
  <2> QED  BY <1>q, <2>1, NoneMapped DEF Unmapped
<1>6. Elsewhere(p, {p, q}) /\ {p, q} \in SUBSET Procs
  BY <1>q, <1>2, MineAlone
<1>7. CASE k[p].op = "shrink"
  <2>1. q = p /\ k[p].va = sz[p] /\ k[p].end = sz[p]
    BY <1>q, <1>1, <1>2, <1>7 DEF PathOwns, PathTable
  <2>2. sz' = [sz EXCEPT ![p] = @ - 1] /\ state' = state
    BY <1>7 DEF Unmapped
  <2>3. sz \in [Procs -> 0..MaxSz] /\ MaxSz \in Nat /\ sz[p] \in 1..(MaxSz + 1)
    BY <1>2, <2>1 DEF TableInv, CowTypeOK, CowAssumption, Path
  <2>4. sz' \in [Procs -> 0..MaxSz] /\ sz'[p] = sz[p] - 1 /\ \A s \in Procs \ {p} : sz'[s] = sz[s]
    BY <2>2, <2>3
  <2>5. CowTypeOK'
    BY <1>1, <1>3, <2>2, <2>4 DEF TableInv, CowTypeOK
  <2>6. Extent(p)'
    <3> SUFFICES ASSUME NEW va \in Va, Mapped(pt[p][va]) PROVE va \in 1..sz'[p]
      BY <1>1, <1>2, <2>2 DEF Extent, MappedIn
    <3>1. va \in 1..sz[p]
      BY <1>2 DEF Extent, MappedIn
    <3>2. va # sz[p]
      BY <1>5, <2>1, <2>3
    <3> QED  BY <2>3, <2>4, <3>1, <3>2
  <2>7. \A s \in {p, q} : Extent(s)'
    BY <2>1, <2>6
  <2>8. \A s \in Procs \ {p, q} : state'[s] = state[s] /\ pt'[s] = pt[s] /\ sz'[s] = sz[s]
    BY <1>1, <2>2, <2>4
  <2> QED  BY <1>3, <1>4, <1>6, <2>5, <2>7, <2>8, UserShape, TableKept
<1>8. CASE k[p].op # "shrink"
  <2>1. k[p].op \in {"undo", "reap"} /\ state[q] \in {"used", "zombie"} /\ q # p
    BY <1>q, <1>1, <1>2, <1>8 DEF PathOwns, Unmapping
  <2>2. /\ state' = [state EXCEPT ![q] = "unused"]
        /\ sz' = [sz EXCEPT ![q] = 0] \/ sz' = sz
    BY <1>q, <2>1 DEF Unmapped
  <2>3. /\ sz' \in [Procs -> 0..MaxSz] /\ \A s \in Procs \ {q} : sz'[s] = sz[s]
        /\ state' \in [Procs -> {"unused", "used", "run", "zombie"}]
        /\ \A s \in Procs \ {q} : state'[s] = state[s]
        /\ state'[q] = "unused"
    <3>1. sz \in [Procs -> 0..MaxSz] /\ MaxSz \in Nat
      BY DEF TableInv, CowTypeOK, CowAssumption
    <3> QED  BY <2>2, <3>1 DEF TableInv, CowTypeOK
  <2>4. CowTypeOK'
    BY <1>1, <1>3, <2>3 DEF TableInv, CowTypeOK
  <2>5. Extent(q)'
    <3> SUFFICES ASSUME NEW va \in Va, Mapped(pt[q][va]) PROVE FALSE
      BY <1>1, <2>3 DEF Extent, MappedIn
    <3>1. va \in k[p].va..k[p].end
      BY <1>q, <1>2, <2>1 DEF PathTable, MappedIn
    <3> QED  BY <1>5, <3>1
  <2>6. Extent(p)'
    BY <1>1, <1>2, <2>1, <2>3 DEF Extent, MappedIn
  <2>7. \A s \in {p, q} : Extent(s)'
    BY <2>5, <2>6
  <2>8. \A s \in Procs \ {p, q} : state'[s] = state[s] /\ pt'[s] = pt[s] /\ sz'[s] = sz[s]
    BY <1>1, <2>3
  <2> QED  BY <1>3, <1>4, <1>6, <2>4, <2>7, <2>8, UserShape, TableKept
<1> QED  BY <1>7, <1>8

-----------------------------------------------------------------------------
(* The system calls and the faults.                                        *)

LEMMA TableExit ==
    ASSUME CowAssumption, TableInv, NEW p \in Procs, Exit(p)
    PROVE  TableInv'
<1>1. freelist' \subseteq Pages /\ count' \in [Pages -> Int]
  BY DEF Exit, TableInv, CowTypeOK
<1> QED  BY <1>1, InUserMode, TableDie DEF Exit

LEMMA TableGrowLazy ==
    ASSUME CowAssumption, TableInv, NEW p \in Procs, GrowLazy(p)
    PROVE  TableInv'
<1>1. /\ InUser(p) /\ sz[p] < MaxSz /\ sz' = [sz EXCEPT ![p] = @ + 1]
      /\ UNCHANGED <<freelist, count, pt, state, k>>
  BY DEF GrowLazy
<1>2. /\ sz \in [Procs -> 0..MaxSz] /\ MaxSz \in Nat
  BY DEF TableInv, CowTypeOK, CowAssumption
<1>3. sz' \in [Procs -> 0..MaxSz] /\ sz'[p] = sz[p] + 1 /\ \A s \in Procs \ {p} : sz'[s] = sz[s]
  BY <1>1, <1>2
<1>4. CowTypeOK'
  BY <1>1, <1>3 DEF TableInv, CowTypeOK
<1>5. state[p] = "run" /\ k[p] = User(p) /\ k[p].tgt = p /\ Extent(p)
  BY <1>1, InUserMode
<1>6. Extent(p)'
  <2> SUFFICES ASSUME NEW va \in Va, Mapped(pt[p][va]) PROVE va \in 1..sz'[p]
    BY <1>1, <1>5 DEF Extent, MappedIn
  <2>1. va \in 1..sz[p]
    BY <1>5 DEF Extent, MappedIn
  <2> QED  BY <1>2, <1>3, <2>1
<1>7. Elsewhere(p, {p}) /\ {p} \in SUBSET Procs /\ \A s \in {p} : Extent(s)'
  <2>1. Elsewhere(p, {p, k[p].tgt})
    BY <1>5, MineAlone
  <2> QED  BY <1>5, <1>6, <2>1
<1>8. k'[p] = User(p) /\ \A s \in Procs \ {p} : k'[s] = k[s]
  BY <1>1, <1>5
<1>9. k'[p].pc = "user" /\ k'[p].op = "none"
  BY <1>8 DEF User
<1>10. \A s \in Procs \ {p} : state'[s] = state[s] /\ pt'[s] = pt[s] /\ sz'[s] = sz[s]
  BY <1>1, <1>3
<1> QED  BY <1>4, <1>7, <1>8, <1>9, <1>10, UserShape, TableKept

(* A path that starts with an allocation. *)
LEMMA TableEnter ==
    ASSUME CowAssumption, TableInv, NEW p \in Procs, InUser(p),
           NEW op \in Faulting, NEW va \in Va, NEW v \in Vals \cup {0}, NEW q \in Procs,
           Enter(p, op, va, v, q), UNCHANGED <<freelist, count, pt, sz, state>>,
           op = "grow" => va = sz[p] + 1, op # "grow" => va <= sz[p],
           op = "wait" => Waitable(p, q)
    PROVE  TableInv'
<1> DEFINE x == [User(p) EXCEPT !.pc = "alloc", !.op = op, !.va = va, !.val = v, !.child = q]
<1>1. state[p] = "run" /\ k[p] = User(p) /\ k[p].tgt = p /\ Extent(p) /\ k \in [Procs -> Path]
  BY InUserMode
<1>2. /\ x \in Path /\ x.pc = "alloc" /\ x.op = op /\ x.tgt = p /\ x.va = va /\ x.child = q
  <2>1. User(p) \in Path /\ va \in 1..(MaxSz + 1) /\ User(p).tgt = p
    BY UserIsPath DEF User, Va, CowAssumption
  <2>2. op \in Ops /\ "alloc" \in Pcs
    BY DEF Faulting, Ops, Pcs
  <2> QED  BY <2>1, <2>2 DEF Path
<1>3. k' \in [Procs -> Path] /\ k'[p] = x /\ \A r \in Procs \ {p} : k'[r] = k[r]
  BY <1>1, <1>2, PathSet DEF Enter
<1> HIDE DEF x
<1>4. CowTypeOK'
  BY <1>3 DEF TableInv, CowTypeOK
<1>5. PathShape(p)'
  BY <1>2, <1>3 DEF PathShape
<1>6. PathOwns(p)'
  BY <1>1, <1>2, <1>3 DEF PathOwns, Faulting, Waitable
<1>7. PathTable(p)'
  BY <1>2, <1>3 DEF PathTable, Faulting
<1>8. op \in {"wait", "reap"} => \A r \in Procs \ {p} : k[r].op \notin {"wait", "reap"}
  BY DEF Waitable, WaitLockFree, Faulting
<1> QED  BY <1>1, <1>2, <1>3, <1>4, <1>5, <1>6, <1>7, <1>8, PathMoves

LEMMA TableGrowEager ==
    ASSUME CowAssumption, TableInv, NEW p \in Procs, GrowEager(p)
    PROVE  TableInv'
<1>1. /\ InUser(p) /\ sz[p] < MaxSz /\ Enter(p, "grow", sz[p] + 1, 0, p)
      /\ UNCHANGED <<freelist, count, pt, sz, state>>
  BY DEF GrowEager
<1>2. sz[p] + 1 \in Va
  <2>1. sz[p] \in 0..MaxSz /\ MaxSz \in Nat
    BY DEF TableInv, CowTypeOK, CowAssumption
  <2> QED  BY <1>1, <2>1 DEF Va
<1>3. "grow" \in Faulting /\ 0 \in Vals \cup {0}
  BY DEF Faulting
<1> QED  BY <1>1, <1>2, <1>3, TableEnter

LEMMA TableShrink ==
    ASSUME CowAssumption, TableInv, NEW p \in Procs, Shrink(p)
    PROVE  TableInv'
<1>1. /\ InUser(p) /\ sz[p] > 1 /\ StartUnmap(p, "shrink", p, sz[p], sz[p])
      /\ UNCHANGED <<freelist, count, pt, sz, state>>
  BY DEF Shrink
<1>2. sz[p] \in 0..MaxSz /\ MaxSz \in Nat /\ sz[p] \in 1..(MaxSz + 1)
  <2>1. sz[p] \in 0..MaxSz /\ MaxSz \in Nat
    BY DEF TableInv, CowTypeOK, CowAssumption
  <2> QED  BY <1>1, <2>1
<1>3. state[p] = "run" /\ k[p] = User(p) /\ k[p].tgt = p /\ k \in [Procs -> Path] /\ User(p) \in Path
  BY <1>1, InUserMode, UserIsPath
<1> DEFINE x == [User(p) EXCEPT !.pc = "unmap", !.op = "shrink", !.tgt = p, !.va = sz[p], !.end = sz[p]]
<1>4. /\ x \in Path /\ x.pc = "unmap" /\ x.op = "shrink" /\ x.tgt = p /\ x.va = sz[p] /\ x.end = sz[p]
  BY <1>2, <1>3 DEF Path, Pcs, Ops
<1>5. k' \in [Procs -> Path] /\ k'[p] = x /\ \A r \in Procs \ {p} : k'[r] = k[r]
  BY <1>1, <1>3, <1>4, PathSet DEF StartUnmap
<1> HIDE DEF x
<1>6. CowTypeOK'
  BY <1>1, <1>5 DEF TableInv, CowTypeOK
<1>7. PathShape(p)'
  BY <1>4, <1>5 DEF PathShape, Unmapping
<1>8. PathOwns(p)'
  BY <1>1, <1>3, <1>4, <1>5 DEF PathOwns
<1>9. PathTable(p)'
  BY <1>1, <1>4, <1>5 DEF PathTable, Faulting
<1> QED  BY <1>1, <1>3, <1>4, <1>5, <1>6, <1>7, <1>8, <1>9, PathMoves

(* Die changes the state of p, Enter does not. *)
LEMMA TableStoreFault ==
    ASSUME CowAssumption, TableInv, NEW p \in Procs, NEW va \in Va, StoreFault(p, va)
    PROVE  TableInv'
<1>1. InUser(p) /\ state[p] = "run" /\ UNCHANGED <<freelist, count, pt, sz>>
  BY InUserMode DEF StoreFault
<1>2. CASE Die(p)
  BY <1>1, <1>2, TableDie DEF TableInv, CowTypeOK
<1>3. CASE Resolvable(p, va, FALSE) /\ Enter(p, "store", va, 0, p) /\ UNCHANGED state
  <2>1. "store" \in Faulting /\ 0 \in Vals \cup {0} /\ va <= sz[p]
    BY <1>3 DEF Faulting, Resolvable
  <2> QED  BY <1>1, <1>3, <2>1, TableEnter
<1> QED  BY <1>2, <1>3 DEF StoreFault

LEMMA TableLoadFault ==
    ASSUME CowAssumption, TableInv, NEW p \in Procs, NEW va \in Va, LoadFault(p, va)
    PROVE  TableInv'
<1>1. InUser(p) /\ state[p] = "run" /\ UNCHANGED <<freelist, count, pt, sz>>
  BY InUserMode DEF LoadFault
<1>2. CASE Die(p)
  BY <1>1, <1>2, TableDie DEF TableInv, CowTypeOK
<1>3. CASE Resolvable(p, va, TRUE) /\ Enter(p, "load", va, 0, p) /\ UNCHANGED state
  <2>1. "load" \in Faulting /\ 0 \in Vals \cup {0} /\ va <= sz[p]
    BY <1>3 DEF Faulting, Resolvable
  <2> QED  BY <1>1, <1>3, <2>1, TableEnter
<1> QED  BY <1>2, <1>3 DEF LoadFault

(* A step that leaves all that TableInv speaks of. *)
LEMMA TableUnchanged ==
    ASSUME TableInv, UNCHANGED <<freelist, count, pt, sz, state, k>>
    PROVE  TableInv'
<1>1. CowTypeOK'
  BY DEF TableInv, CowTypeOK
<1>2. ASSUME NEW p \in Procs PROVE PathShape(p)' /\ PathOwns(p)' /\ Extent(p)' /\ PathTable(p)'
  <2>1. PathShape(p) /\ PathOwns(p) /\ Extent(p) /\ PathTable(p)
    BY DEF TableInv
  <2> QED  BY <2>1 DEF PathShape, User, PathOwns, Busy, Extent, PathTable, MappedIn
<1>3. Alone'
  BY DEF TableInv, Alone, Busy
<1> QED  BY <1>1, <1>2, <1>3 DEF TableInv

LEMMA TableCopyout ==
    ASSUME CowAssumption, TableInv, NEW p \in Procs, NEW op \in {"copyout", "wait"},
           NEW va \in Va, NEW v \in Vals, NEW q \in Procs, Copyout(p, op, va, v, q)
    PROVE  TableInv'
<1>1. /\ InUser(p) /\ state[p] = "run" /\ va <= sz[p]
      /\ UNCHANGED <<freelist, count, pt, sz, state>> /\ (op = "wait" => Waitable(p, q))
  BY InUserMode DEF Copyout
<1>2. CASE Resolvable(p, va, FALSE) /\ Enter(p, op, va, v, q)
  <2>1. op \in Faulting /\ v \in Vals \cup {0} /\ op # "grow"
    BY DEF Faulting
  <2> QED  BY <1>1, <1>2, <2>1, TableEnter
<1>3. CASE IF op = "wait" THEN StartUnmap(p, "reap", q, 1, sz[q]) ELSE UNCHANGED k
  <2>1. CASE op = "wait"
    BY <1>1, <1>3, <2>1, TableStartReap DEF Waitable, WaitLockFree
  <2>2. CASE op # "wait"
    BY <1>1, <1>3, <2>2, TableUnchanged
  <2> QED  BY <2>1, <2>2
<1> QED  BY <1>2, <1>3 DEF Copyout

LEMMA TableFork ==
    ASSUME CowAssumption, TableInv, NEW p \in Procs, NEW q \in Procs, Fork(p, q)
    PROVE  TableInv'
<1>1. /\ InUser(p) /\ state[q] = "unused" /\ state' = [state EXCEPT ![q] = "used"]
      /\ UNCHANGED <<freelist, count, pt, sz>>
  BY DEF Fork
<1>2. /\ state[p] = "run" /\ k[p] = User(p) /\ k[p].tgt = p /\ Extent(p) /\ Extent(q)
      /\ k \in [Procs -> Path] /\ User(p) \in Path /\ p # q
  BY <1>1, InUserMode, UserIsPath DEF TableInv
<1> DEFINE x == [User(p) EXCEPT !.pc = "share", !.op = "fork", !.tgt = q]
<1>3. x \in Path /\ x.pc = "share" /\ x.op = "fork" /\ x.tgt = q /\ x.va = 1
  BY <1>2 DEF Path, Pcs, Ops, User
<1>4. k' \in [Procs -> Path] /\ k'[p] = x /\ \A r \in Procs \ {p} : k'[r] = k[r]
  BY <1>2, <1>3, PathSet DEF Fork
<1> HIDE DEF x
<1>5. /\ state' \in [Procs -> {"unused", "used", "run", "zombie"}] /\ state'[q] = "used"
      /\ \A s \in Procs \ {q} : state'[s] = state[s]
  BY <1>1 DEF TableInv, CowTypeOK
<1>6. CowTypeOK'
  BY <1>1, <1>4, <1>5 DEF TableInv, CowTypeOK
<1>7. PathShape(p)'
  BY <1>3, <1>4 DEF PathShape
<1>8. PathOwns(p)'
  BY <1>2, <1>3, <1>4, <1>5 DEF PathOwns
<1>9. PathTable(p)'
  <2>1. MappedIn(q, {}) /\ sz[p] \in 0..MaxSz
    BY <1>1, <1>2 DEF Extent, TableInv, CowTypeOK
  <2> QED  BY <1>1, <1>3, <1>4, <2>1 DEF PathTable, MappedIn, Faulting, Unmapping, CowAssumption
<1>10. Elsewhere(p, {q})
  <2> SUFFICES ASSUME NEW r \in Procs \ {p}, Busy(r)
               PROVE  r # q /\ k[r].tgt # q /\ (k[r].op = "wait" => k[r].child # q)
    BY DEF Elsewhere
  <2>1. PathOwns(r)
    BY DEF TableInv
  <2> QED  BY <1>1, <2>1 DEF PathOwns
<1>11. {q} \in SUBSET Procs /\ \A s \in {q} : Extent(s)'
  BY <1>5 DEF Extent
<1>12. \A s \in Procs \ {q} : state'[s] = state[s] /\ pt'[s] = pt[s] /\ sz'[s] = sz[s]
  BY <1>1, <1>5
<1>13. k'[p].tgt \in {q} /\ k'[p].op \notin {"wait", "reap"}
  BY <1>3, <1>4
<1> QED  BY <1>4, <1>6, <1>7, <1>8, <1>9, <1>10, <1>11, <1>12, <1>13, TableKept

(* TableInv is inductive. *)
LEMMA TableStep ==
    ASSUME CowAssumption, TableInv, [Next]_vars
    PROVE  TableInv'
<1>1. CASE UNCHANGED vars
  BY <1>1, TableUnchanged DEF vars
<1>2. ASSUME NEW p \in Procs, Kernel(p)
      PROVE  TableInv'
  BY <1>2, TableShare, TableInc, TableForked, TableAlloc, TableCount, TableCopyPage,
     TableZeroPage, TableWrite, TableDrop, TablePush, TableUnmap, TableUnmapped DEF Kernel
<1>3. ASSUME NEW p \in Procs, NEW va \in Va, NEW v \in Vals, Store(p, va, v)
      PROVE  TableInv'
  BY <1>3, TableUnchanged DEF Store
<1>4. ASSUME NEW p \in Procs, NEW q \in Procs, Wait(p, q)
      PROVE  TableInv'
  <2>1. /\ state[p] = "run" /\ state[q] = "zombie"
        /\ \A r \in Procs \ {p} : k[r].op \notin {"wait", "reap"}
        /\ StartUnmap(p, "reap", q, 1, sz[q]) /\ UNCHANGED <<freelist, count, pt, sz, state>>
    BY <1>4 DEF Wait, Waitable, WaitLockFree, InUser, Running
  <2> QED  BY <2>1, TableStartReap
<1>5. ASSUME NEW p \in Procs, Syscall(p)
      PROVE  TableInv'
  BY <1>3, <1>4, <1>5, TableExit, TableGrowLazy, TableGrowEager, TableShrink, TableStoreFault,
     TableLoadFault, TableFork, TableCopyout DEF Syscall
<1> QED  BY <1>1, <1>2, <1>5 DEF Next

-----------------------------------------------------------------------------
(* The accounts.  A step of p changes at most one entry, <<q, i>>, and the *)
(* part of p's path in them.                                               *)

Excludes(p) == k[p].pc = "inc" \/ (k[p].pc = "push" /\ k[p].op \in Unmapping)
HoldsRef(p, a) ==
    \/ k[p].pc = "fill" /\ k[p].mem = a
    \/ k[p].pc = "drop" /\ k[p].old = a /\ k[p].op \notin Unmapping
Moves(p, a) ==
    \/ k[p].pc = "count" /\ k[p].mem = a
    \/ k[p].pc = "push" /\ k[p].old = a
Moving(a) == {p \in Procs : Moves(p, a)}

Sees(p, q, i, a) == pt[q][i].pa = a /\ ~Excludes(p)

(* What <<q, i>> and p add to the references of a, *)
Contrib(p, q, i, a) ==
    (IF Sees(p, q, i, a) THEN 1 ELSE 0) + (IF HoldsRef(p, a) THEN 1 ELSE 0)

(* and p to its places, less the place a must have.  *)
Place(p, a) ==
    (IF Moves(p, a) THEN 1 ELSE 0) + (IF a \in freelist THEN 1 ELSE 0)
      - (IF count[a] > 0 THEN 0 ELSE 1)

LEMMA OneDiffers ==
    ASSUME NEW S, NEW T, IsFiniteSet(S), IsFiniteSet(T), NEW x,
           \A y : y # x => (y \in S <=> y \in T)
    PROVE  Cardinality(T) = Cardinality(S) + (IF x \in T THEN 1 ELSE 0) - (IF x \in S THEN 1 ELSE 0)
<1>1. Cardinality(S) \in Nat /\ Cardinality(T) \in Nat
  BY FS_CardinalityType
<1>2. CASE x \in S /\ x \notin T
  <2>1. T = S \ {x}
    BY <1>2
  <2> QED  BY <1>1, <1>2, <2>1, FS_RemoveElement
<1>3. CASE x \notin S /\ x \in T
  <2>1. T = S \cup {x}
    BY <1>3
  <2> QED  BY <1>1, <1>3, <2>1, FS_AddElement
<1>4. CASE (x \in S <=> x \in T)
  <2>1. T = S
    BY <1>4
  <2> QED  BY <1>1, <1>4, <2>1
<1> QED  BY <1>2, <1>3, <1>4

LEMMA SlotsFinite ==
    ASSUME CowAssumption
    PROVE  IsFiniteSet(Procs) /\ IsFiniteSet(Procs \X Va)
<1>1. IsFiniteSet(Procs) /\ IsFiniteSet(Va)
  BY FS_Interval DEF CowAssumption, Va
<1> QED  BY <1>1, FS_Product

LEMMA SetsFinite ==
    ASSUME CowAssumption, NEW a
    PROVE  IsFiniteSet(Counted(a)) /\ IsFiniteSet(Holding(a)) /\ IsFiniteSet(Moving(a))
<1>1. IsFiniteSet(Procs) /\ IsFiniteSet(Procs \X Va)
  BY SlotsFinite
<1>3. Counted(a) \subseteq Procs \X Va /\ Holding(a) \subseteq Procs /\ Moving(a) \subseteq Procs
  BY DEF Counted, Holding, Moving
<1> QED  BY <1>1, <1>3, FS_Subset

(* PagesConserved, as a sum. *)
LEMMA ConservedSum ==
    ASSUME CowAssumption, count \in [Pages -> Int]
    PROVE  PagesConserved <=>
             \A a \in Pages : Cardinality(Moving(a)) + (IF a \in freelist THEN 1 ELSE 0)
                                = IF count[a] > 0 THEN 0 ELSE 1
<1>1. ASSUME NEW a \in Pages
      PROVE  /\ Cardinality(Moving(a)) \in Nat
             /\ Cardinality(Moving(a)) = 0 <=> Moving(a) = {}
  BY SetsFinite, FS_CardinalityType, FS_EmptySet
<1>2. PagesConserved <=>
        \A a \in Pages :
          IF count[a] > 0
          THEN a \notin freelist /\ Moving(a) = {}
          ELSE Cardinality(Moving(a)) = IF a \in freelist THEN 0 ELSE 1
  BY DEF PagesConserved, Moving, Moves
<1>3. ASSUME NEW a \in Pages
      PROVE  (IF count[a] > 0
              THEN a \notin freelist /\ Moving(a) = {}
              ELSE Cardinality(Moving(a)) = IF a \in freelist THEN 0 ELSE 1)
             <=> Cardinality(Moving(a)) + (IF a \in freelist THEN 1 ELSE 0)
                   = IF count[a] > 0 THEN 0 ELSE 1
  BY <1>1
<1> QED  BY <1>2, <1>3

LEMMA AccountsStep ==
    ASSUME CowAssumption, TableInv, TableInv', PagesExact,
           NEW p \in Procs, state[p] = "run",
           NEW q \in {p, k[p].tgt}, NEW i \in Va,
           \A r \in Procs \ {p} : k'[r] = k[r],
           \A r \in Procs, va \in Va : <<r, va>> # <<q, i>> => pt'[r][va].pa = pt[r][va].pa,
           Excludes(p) => k[p].tgt = q /\ k[p].va = i,
           Excludes(p)' => k'[p].tgt = q /\ k'[p].va = i,
           \A a \in Pages : count'[a] - Contrib(p, q, i, a)' = count[a] - Contrib(p, q, i, a),
           \A a \in Pages : Place(p, a)' = Place(p, a)
    PROVE  PagesExact'
<1>1. ASSUME NEW r \in Procs \ {p}, Excludes(r)
      PROVE  k[r].tgt # q
  <2>1. Busy(r)
    BY <1>1 DEF Excludes, Busy
  <2> QED  BY <1>1, <2>1, MineAlone DEF Elsewhere
<1>2. \A r \in Procs \ {p} : Excludes(r)' <=> Excludes(r)
  BY DEF Excludes
<1>3. q \in Procs /\ count \in [Pages -> Int] /\ count' \in [Pages -> Int]
  BY DEF TableInv, CowTypeOK, Path
<1>4. ASSUME NEW a \in Pages
      PROVE  /\ \A x : x # <<q, i>> => (x \in Counted(a) <=> x \in Counted(a)')
             /\ <<q, i>> \in Counted(a) <=> Sees(p, q, i, a)
             /\ <<q, i>> \in Counted(a)' <=> Sees(p, q, i, a)'
  <2>1. Counted(a) = {r \in Procs \X Va : pt[r[1]][r[2]].pa = a
                        /\ \A s \in Procs : <<k[s].tgt, k[s].va>> = r => ~Excludes(s)}
    BY DEF Counted, Excludes
  <2>2. Counted(a)' = {r \in Procs \X Va : pt'[r[1]][r[2]].pa = a
                        /\ \A s \in Procs : <<k'[s].tgt, k'[s].va>> = r => ~Excludes(s)'}
    BY DEF Counted, Excludes
  <2>3. ASSUME NEW r \in Procs, NEW va \in Va, <<r, va>> # <<q, i>>
        PROVE  <<r, va>> \in Counted(a) <=> <<r, va>> \in Counted(a)'
    <3>1. pt'[r][va].pa = pt[r][va].pa
      BY <2>3
    <3>2. ASSUME NEW s \in Procs
          PROVE  (<<k[s].tgt, k[s].va>> = <<r, va>> => ~Excludes(s))
                   <=> (<<k'[s].tgt, k'[s].va>> = <<r, va>> => ~Excludes(s)')
      <4>1. CASE s = p
        BY <2>3, <4>1
      <4>2. CASE s # p
        BY <1>2, <4>2
      <4> QED  BY <4>1, <4>2
    <3>3. <<r, va>> \in Counted(a) <=> pt[r][va].pa = a
             /\ \A s \in Procs : <<k[s].tgt, k[s].va>> = <<r, va>> => ~Excludes(s)
      BY <2>1
    <3>4. <<r, va>> \in Counted(a)' <=> pt'[r][va].pa = a
             /\ \A s \in Procs : <<k'[s].tgt, k'[s].va>> = <<r, va>> => ~Excludes(s)'
      BY <2>2
    <3> QED  BY <3>1, <3>2, <3>3, <3>4
  <2>4. \A x : x \in Counted(a) \/ x \in Counted(a)' => \E r \in Procs, va \in Va : x = <<r, va>>
    BY <2>1, <2>2
  <2>5. \A x : x # <<q, i>> => (x \in Counted(a) <=> x \in Counted(a)')
    BY <2>3, <2>4
  <2>6. <<q, i>> \in Counted(a) <=> Sees(p, q, i, a)
    <3>1. <<q, i>> \in Counted(a) <=> pt[q][i].pa = a
             /\ \A s \in Procs : <<k[s].tgt, k[s].va>> = <<q, i>> => ~Excludes(s)
      BY <1>3, <2>1
    <3>2. \A s \in Procs \ {p} : <<k[s].tgt, k[s].va>> = <<q, i>> => ~Excludes(s)
      BY <1>1
    <3> QED  BY <3>1, <3>2 DEF Sees
  <2>7. <<q, i>> \in Counted(a)' <=> Sees(p, q, i, a)'
    <3>1. <<q, i>> \in Counted(a)' <=> pt'[q][i].pa = a
             /\ \A s \in Procs : <<k'[s].tgt, k'[s].va>> = <<q, i>> => ~Excludes(s)'
      BY <1>3, <2>2
    <3>2. \A s \in Procs \ {p} : <<k'[s].tgt, k'[s].va>> = <<q, i>> => ~Excludes(s)'
      BY <1>1, <1>2
    <3> QED  BY <3>1, <3>2 DEF Sees
  <2> QED  BY <2>5, <2>6, <2>7
<1>5. ASSUME NEW a \in Pages
      PROVE  /\ \A x : x # p => (x \in Holding(a) <=> x \in Holding(a)')
             /\ p \in Holding(a) <=> HoldsRef(p, a)
             /\ p \in Holding(a)' <=> HoldsRef(p, a)'
             /\ \A x : x # p => (x \in Moving(a) <=> x \in Moving(a)')
             /\ p \in Moving(a) <=> Moves(p, a)
             /\ p \in Moving(a)' <=> Moves(p, a)'
  BY DEF Holding, HoldsRef, Moving, Moves
<1>6. \A a \in Pages :
        /\ IsFiniteSet(Counted(a)) /\ IsFiniteSet(Holding(a)) /\ IsFiniteSet(Moving(a))
        /\ IsFiniteSet(Counted(a)') /\ IsFiniteSet(Holding(a)') /\ IsFiniteSet(Moving(a)')
  <2>1. \A a \in Pages : IsFiniteSet(Counted(a)) /\ IsFiniteSet(Holding(a)) /\ IsFiniteSet(Moving(a))
    BY SetsFinite
  <2>2. ASSUME NEW a \in Pages
        PROVE  IsFiniteSet(Counted(a)') /\ IsFiniteSet(Holding(a)') /\ IsFiniteSet(Moving(a)')
    <3>1. IsFiniteSet(Procs) /\ IsFiniteSet(Procs \X Va)
      BY SlotsFinite
    <3>3. Counted(a)' \subseteq Procs \X Va /\ Holding(a)' \subseteq Procs /\ Moving(a)' \subseteq Procs
      BY DEF Counted, Holding, Moving
    <3> QED  BY <3>1, <3>3, FS_Subset
  <2> QED  BY <2>1, <2>2
<1>7. ASSUME NEW a \in Pages
      PROVE  /\ Cardinality(Counted(a)) \in Nat /\ Cardinality(Holding(a)) \in Nat
             /\ Cardinality(Moving(a)) \in Nat
             /\ Cardinality(Counted(a)') = Cardinality(Counted(a))
                  + (IF Sees(p, q, i, a)' THEN 1 ELSE 0) - (IF Sees(p, q, i, a) THEN 1 ELSE 0)
             /\ Cardinality(Holding(a)') = Cardinality(Holding(a))
                  + (IF HoldsRef(p, a)' THEN 1 ELSE 0) - (IF HoldsRef(p, a) THEN 1 ELSE 0)
             /\ Cardinality(Moving(a)') = Cardinality(Moving(a))
                  + (IF Moves(p, a)' THEN 1 ELSE 0) - (IF Moves(p, a) THEN 1 ELSE 0)
  <2>1. Cardinality(Counted(a)') = Cardinality(Counted(a))
          + (IF <<q, i>> \in Counted(a)' THEN 1 ELSE 0) - (IF <<q, i>> \in Counted(a) THEN 1 ELSE 0)
    BY <1>4, <1>6, OneDiffers
  <2>2. Cardinality(Holding(a)') = Cardinality(Holding(a))
          + (IF p \in Holding(a)' THEN 1 ELSE 0) - (IF p \in Holding(a) THEN 1 ELSE 0)
    BY <1>5, <1>6, OneDiffers
  <2>3. Cardinality(Moving(a)') = Cardinality(Moving(a))
          + (IF p \in Moving(a)' THEN 1 ELSE 0) - (IF p \in Moving(a) THEN 1 ELSE 0)
    BY <1>5, <1>6, OneDiffers
  <2>4. /\ Cardinality(Counted(a)) \in Nat /\ Cardinality(Holding(a)) \in Nat
        /\ Cardinality(Moving(a)) \in Nat
    BY <1>6, FS_CardinalityType
  <2> QED  BY <1>4, <1>5, <2>1, <2>2, <2>3, <2>4
<1>8. CountExact'
  <2> SUFFICES ASSUME NEW a \in Pages
               PROVE  count'[a] = Cardinality(Counted(a)') + Cardinality(Holding(a)')
    BY DEF CountExact
  <2>1. count[a] = Cardinality(Counted(a)) + Cardinality(Holding(a))
    BY DEF PagesExact, CountExact
  <2>2. count'[a] - Contrib(p, q, i, a)' = count[a] - Contrib(p, q, i, a)
    OBVIOUS
  <2>3. count'[a] \in Int /\ count[a] \in Int
    BY <1>3
  <2>4. PICK s0 \in 0..1 : s0 = IF Sees(p, q, i, a) THEN 1 ELSE 0
    OBVIOUS
  <2>5. PICK s1 \in 0..1 : s1 = IF Sees(p, q, i, a)' THEN 1 ELSE 0
    OBVIOUS
  <2>6. PICK h0 \in 0..1 : h0 = IF HoldsRef(p, a) THEN 1 ELSE 0
    OBVIOUS
  <2>7. PICK h1 \in 0..1 : h1 = IF HoldsRef(p, a)' THEN 1 ELSE 0
    OBVIOUS
  <2>8. Contrib(p, q, i, a) = s0 + h0 /\ Contrib(p, q, i, a)' = s1 + h1
    BY <2>4, <2>5, <2>6, <2>7 DEF Contrib
  <2>9. /\ Cardinality(Counted(a)) \in Nat /\ Cardinality(Holding(a)) \in Nat
        /\ Cardinality(Counted(a)') = Cardinality(Counted(a)) + s1 - s0
        /\ Cardinality(Holding(a)') = Cardinality(Holding(a)) + h1 - h0
    BY <1>7, <2>4, <2>5, <2>6, <2>7
  <2>10. count'[a] = count[a] + (s1 + h1) - (s0 + h0)
    BY <2>2, <2>3, <2>8
  <2> QED  BY <2>1, <2>9, <2>10
<1>9. PagesConserved'
  <2>1. \A a \in Pages : Cardinality(Moving(a)) + (IF a \in freelist THEN 1 ELSE 0)
                           = IF count[a] > 0 THEN 0 ELSE 1
    BY <1>3, ConservedSum DEF PagesExact
  <2>2. \A a \in Pages : Cardinality(Moving(a)') + (IF a \in freelist' THEN 1 ELSE 0)
                           = IF count'[a] > 0 THEN 0 ELSE 1
    <3> SUFFICES ASSUME NEW a \in Pages
                 PROVE  Cardinality(Moving(a)') + (IF a \in freelist' THEN 1 ELSE 0)
                           = IF count'[a] > 0 THEN 0 ELSE 1
      OBVIOUS
    <3>1. Place(p, a)' = Place(p, a)
      OBVIOUS
    <3>2. PICK m0 \in 0..1 : m0 = IF Moves(p, a) THEN 1 ELSE 0
      OBVIOUS
    <3>3. PICK m1 \in 0..1 : m1 = IF Moves(p, a)' THEN 1 ELSE 0
      OBVIOUS
    <3>4. PICK f0 \in 0..1 : f0 = IF a \in freelist THEN 1 ELSE 0
      OBVIOUS
    <3>5. PICK f1 \in 0..1 : f1 = IF a \in freelist' THEN 1 ELSE 0
      OBVIOUS
    <3>6. PICK c0 \in 0..1 : c0 = IF count[a] > 0 THEN 0 ELSE 1
      OBVIOUS
    <3>7. PICK c1 \in 0..1 : c1 = IF count'[a] > 0 THEN 0 ELSE 1
      OBVIOUS
    <3>8. Place(p, a) = m0 + f0 - c0 /\ Place(p, a)' = m1 + f1 - c1
      BY <3>2, <3>3, <3>4, <3>5, <3>6, <3>7 DEF Place
    <3>9. /\ Cardinality(Moving(a)) \in Nat /\ Cardinality(Moving(a)) + f0 = c0
          /\ Cardinality(Moving(a)') = Cardinality(Moving(a)) + m1 - m0
      BY <1>7, <2>1, <3>2, <3>3, <3>4, <3>6
    <3>10. m1 + f1 - c1 = m0 + f0 - c0
      BY <3>1, <3>8
    <3>11. Cardinality(Moving(a)') + f1 = c1
      BY <3>9, <3>10
    <3> QED  BY <3>5, <3>7, <3>11
  <2>3. (count \in [Pages -> Int])'
    BY <1>3
  <2>4. PagesConserved' <=>
             (\A a \in Pages : Cardinality(Moving(a)) + (IF a \in freelist THEN 1 ELSE 0)
                                = IF count[a] > 0 THEN 0 ELSE 1)'
    BY <2>3, ConservedSum, PTL
  <2> QED  BY <2>2, <2>4
<1> QED  BY <1>8, <1>9 DEF PagesExact

(* What the accounts say of a page. *)
LEMMA AccountsSay ==
    ASSUME CowAssumption, TableInv, PagesExact, NEW p \in Procs, state[p] = "run", NEW a \in Pages
    PROVE  /\ count[a] \in Nat
           /\ HoldsRef(p, a) => count[a] >= 1
           /\ a \in freelist => count[a] = 0
           /\ Moves(p, a) => count[a] = 0 /\ a \notin freelist
           /\ \A q \in {p, k[p].tgt}, i \in Va :
                pt[q][i].pa = a /\ ~(Excludes(p) /\ k[p].tgt = q /\ k[p].va = i) => count[a] >= 1
<1>1. count[a] = Cardinality(Counted(a)) + Cardinality(Holding(a))
  BY DEF PagesExact, CountExact
<1>2. /\ IsFiniteSet(Counted(a)) /\ IsFiniteSet(Holding(a)) /\ IsFiniteSet(Moving(a))
      /\ Cardinality(Counted(a)) \in Nat /\ Cardinality(Holding(a)) \in Nat /\ Cardinality(Moving(a)) \in Nat
  BY SetsFinite, FS_CardinalityType
<1>3. count[a] \in Nat
  BY <1>1, <1>2
<1>4. HoldsRef(p, a) => count[a] >= 1
  <2>1. HoldsRef(p, a) => p \in Holding(a)
    BY DEF HoldsRef, Holding
  <2>2. Holding(a) # {} => Cardinality(Holding(a)) >= 1
    BY <1>2, FS_EmptySet
  <2> QED  BY <1>1, <1>2, <2>1, <2>2
<1>5. Cardinality(Moving(a)) + (IF a \in freelist THEN 1 ELSE 0) = IF count[a] > 0 THEN 0 ELSE 1
  BY ConservedSum DEF PagesExact, TableInv, CowTypeOK
<1>6. a \in freelist => count[a] = 0
  BY <1>2, <1>3, <1>5
<1>7. Moves(p, a) => count[a] = 0 /\ a \notin freelist
  <2>1. Moves(p, a) => p \in Moving(a)
    BY DEF Moving
  <2>2. Moving(a) # {} => Cardinality(Moving(a)) >= 1
    BY <1>2, FS_EmptySet
  <2> QED  BY <1>2, <1>3, <1>5, <2>1, <2>2
<1>8. ASSUME NEW q \in {p, k[p].tgt}, NEW i \in Va, pt[q][i].pa = a,
             ~(Excludes(p) /\ k[p].tgt = q /\ k[p].va = i)
      PROVE  count[a] >= 1
  <2>1. q \in Procs
    BY DEF TableInv, CowTypeOK, Path
  <2>2. \A r \in Procs : <<k[r].tgt, k[r].va>> = <<q, i>> => ~Excludes(r)
    <3> SUFFICES ASSUME NEW r \in Procs, k[r].tgt = q, k[r].va = i, Excludes(r)
                 PROVE  FALSE
      OBVIOUS
    <3>1. r # p /\ Busy(r)
      BY <1>8 DEF Excludes, Busy
    <3> QED  BY <3>1, MineAlone DEF Elsewhere
  <2>3. <<q, i>> \in Counted(a)
    BY <1>8, <2>1, <2>2 DEF Counted, Excludes
  <2>4. Cardinality(Counted(a)) >= 1
    BY <1>2, <2>3, FS_EmptySet
  <2> QED  BY <1>1, <1>2, <2>4
<1> QED  BY <1>3, <1>4, <1>6, <1>7, <1>8

(* A step between parts of a path that neither hold nor move a page. *)
Plain(p) ==
    \/ k[p].pc \in {"user", "alloc", "share", "unmap", "write"}
    \/ k[p].pc = "drop" /\ k[p].op \in Unmapping

LEMMA AccountsQuiet ==
    ASSUME CowAssumption, TableInv, TableInv', PagesExact,
           NEW p \in Procs, state[p] = "run", Plain(p), Plain(p)',
           \A r \in Procs \ {p} : k'[r] = k[r],
           \A r \in Procs, va \in Va : pt'[r][va].pa = pt[r][va].pa,
           UNCHANGED <<freelist, count>>
    PROVE  PagesExact'
<1>1. 1 \in Va
  BY DEF Va, CowAssumption
<1>2. /\ ~Excludes(p) /\ ~Excludes(p)'
      /\ \A a \in Pages : ~HoldsRef(p, a) /\ ~HoldsRef(p, a)' /\ ~Moves(p, a) /\ ~Moves(p, a)'
  BY DEF Plain, Excludes, HoldsRef, Moves
<1>3. ASSUME NEW a \in Pages
      PROVE  /\ count'[a] - Contrib(p, p, 1, a)' = count[a] - Contrib(p, p, 1, a)
             /\ Place(p, a)' = Place(p, a)
  <2>1. Sees(p, p, 1, a)' <=> Sees(p, p, 1, a)
    BY <1>1, <1>2 DEF Sees
  <2>2. Contrib(p, p, 1, a)' = Contrib(p, p, 1, a)
    BY <1>2, <2>1 DEF Contrib
  <2>3. Place(p, a)' = Place(p, a)
    BY <1>2 DEF Place
  <2> QED  BY <2>2, <2>3
<1> QED  BY <1>1, <1>2, <1>3, AccountsStep

LEMMA AccountsUnchanged ==
    ASSUME PagesExact, UNCHANGED <<freelist, count, pt, k>>
    PROVE  PagesExact'
<1>1. \A a \in Pages : Counted(a)' = Counted(a) /\ Holding(a)' = Holding(a)
  BY DEF Counted, Holding
<1>2. CountExact'
  BY <1>1 DEF PagesExact, CountExact
<1>3. PagesConserved'
  BY DEF PagesExact, PagesConserved
<1> QED  BY <1>2, <1>3 DEF PagesExact

LEMMA AccountsShare ==
    ASSUME CowAssumption, TableInv, TableInv', PagesExact, NEW p \in Procs, Share(p)
    PROVE  PagesExact'
<1>1. k[p].pc = "share" /\ Busy(p) /\ UNCHANGED <<freelist, count>>
  BY DEF Share, Busy
<1>q. PICK q \in Procs : q = k[p].tgt
  BY <1>1, Inside DEF Path
<1>2. /\ state[p] = "run" /\ k[p] \in Path /\ k \in [Procs -> Path] /\ q # p
      /\ MappedIn(q, 1..(k[p].va - 1)) /\ pt \in [Procs -> [Va -> Pte]]
      /\ k[p].va \in 1..(MaxSz + 1) /\ sz[p] \in 0..MaxSz /\ MaxSz \in Nat
  <2>1. pt \in [Procs -> [Va -> Pte]] /\ sz[p] \in 0..MaxSz /\ MaxSz \in Nat
    BY DEF TableInv, CowTypeOK, CowAssumption
  <2>2. /\ state[p] = "run" /\ k[p] \in Path /\ k \in [Procs -> Path]
        /\ PathShape(p) /\ PathOwns(p) /\ PathTable(p)
    BY <1>1, Inside
  <2>3. q # p /\ MappedIn(q, 1..(k[p].va - 1))
    BY <1>1, <1>q, <2>2 DEF PathShape, PathOwns, PathTable
  <2>4. k[p].va \in 1..(MaxSz + 1)
    BY <2>2 DEF Path
  <2> QED  BY <2>1, <2>2, <2>3, <2>4
<1>3. PICK i \in FirstMapped(p, k[p].va, sz[p]) :
        \/ /\ pt' = [pt EXCEPT ![p][i] = Protected(pt[p][i]), ![q][i] = Protected(pt[p][i])]
           /\ k' = [k EXCEPT ![p].pc = "inc", ![p].va = i]
        \/ /\ pt' = [pt EXCEPT ![p][i] = Protected(pt[p][i])]
           /\ k' = [k EXCEPT ![p].pc = "unmap", ![p].op = "undo", ![p].va = 1, ![p].end = i - 1]
  BY <1>q DEF Share
<1>4. i \in k[p].va..sz[p] /\ i \in Va
  BY <1>2, <1>3 DEF FirstMapped, Va
<1>5. Protected(pt[p][i]).pa = pt[p][i].pa
  <2>1. pt[p][i] \in Pte
    BY <1>2, <1>4
  <2> QED  BY <2>1 DEF Protected, Pte
<1>6. CASE /\ pt' = [pt EXCEPT ![p][i] = Protected(pt[p][i]), ![q][i] = Protected(pt[p][i])]
           /\ k' = [k EXCEPT ![p].pc = "inc", ![p].va = i]
  <2>1. k'[p].pc = "inc" /\ k'[p].tgt = q /\ k'[p].va = i /\ \A r \in Procs \ {p} : k'[r] = k[r]
    BY <1>q, <1>2, <1>6 DEF Path
  <2>2. \A r \in Procs, va \in Va : <<r, va>> # <<q, i>> => pt'[r][va].pa = pt[r][va].pa
    BY <1>2, <1>4, <1>5, <1>6
  <2>3. /\ ~Excludes(p) /\ Excludes(p)'
        /\ \A a \in Pages : ~HoldsRef(p, a) /\ ~HoldsRef(p, a)' /\ ~Moves(p, a) /\ ~Moves(p, a)'
    BY <1>1, <2>1 DEF Excludes, HoldsRef, Moves
  <2>4. pt[q][i].pa = NoPage
    BY <1>2, <1>4 DEF MappedIn, Mapped
  <2>5. ASSUME NEW a \in Pages
        PROVE  /\ count'[a] - Contrib(p, q, i, a)' = count[a] - Contrib(p, q, i, a)
               /\ Place(p, a)' = Place(p, a)
    <3>1. ~Sees(p, q, i, a) /\ ~Sees(p, q, i, a)'
      BY <2>3, <2>4 DEF Sees, CowAssumption
    <3>2. Contrib(p, q, i, a)' = Contrib(p, q, i, a)
      BY <2>3, <3>1 DEF Contrib
    <3>3. Place(p, a)' = Place(p, a)
      BY <1>1, <2>3 DEF Place
    <3> QED  BY <1>1, <3>2, <3>3
  <2>6. q \in {p, k[p].tgt}
    BY <1>q
  <2>7. Excludes(p) => k[p].tgt = q /\ k[p].va = i
    BY <2>3
  <2>8. Excludes(p)' => k'[p].tgt = q /\ k'[p].va = i
    BY <2>1
  <2>9. \A r \in Procs \ {p} : k'[r] = k[r]
    BY <2>1
  <2> QED  BY <1>2, <1>4, <2>2, <2>5, <2>6, <2>7, <2>8, <2>9, AccountsStep
<1>7. CASE /\ pt' = [pt EXCEPT ![p][i] = Protected(pt[p][i])]
           /\ k' = [k EXCEPT ![p].pc = "unmap", ![p].op = "undo", ![p].va = 1, ![p].end = i - 1]
  <2>1. k'[p].pc = "unmap" /\ \A r \in Procs \ {p} : k'[r] = k[r]
    BY <1>2, <1>7 DEF Path
  <2>2. \A r \in Procs, va \in Va : pt'[r][va].pa = pt[r][va].pa
    BY <1>2, <1>4, <1>5, <1>7
  <2> QED  BY <1>1, <1>2, <2>1, <2>2, AccountsQuiet DEF Plain
<1> QED  BY <1>3, <1>6, <1>7

LEMMA AccountsInc ==
    ASSUME CowAssumption, TableInv, TableInv', PagesExact, NEW p \in Procs, Inc(p)
    PROVE  PagesExact'
<1>1. k[p].pc = "inc" /\ Busy(p) /\ UNCHANGED <<freelist, pt>>
  BY DEF Inc, Busy
<1>q. PICK q \in Procs : q = k[p].tgt
  BY <1>1, Inside DEF Path
<1>i. PICK i \in Va : i = k[p].va
  <2>1. k[p].va <= sz[p] /\ k[p].va \in 1..(MaxSz + 1)
    BY <1>1, Inside DEF PathTable, Path
  <2>2. sz[p] \in 0..MaxSz /\ MaxSz \in Nat
    BY DEF TableInv, CowTypeOK, CowAssumption
  <2> QED  BY <2>1, <2>2 DEF Va
<1>2. /\ state[p] = "run" /\ k[p] \in Path /\ k \in [Procs -> Path] /\ q # p
      /\ Mapped(pt[p][i]) /\ pt[q][i] = pt[p][i]
      /\ pt \in [Procs -> [Va -> Pte]] /\ count \in [Pages -> Int]
  <2>1. pt \in [Procs -> [Va -> Pte]] /\ count \in [Pages -> Int]
    BY DEF TableInv, CowTypeOK
  <2>2. /\ state[p] = "run" /\ k[p] \in Path /\ k \in [Procs -> Path]
        /\ PathShape(p) /\ PathOwns(p) /\ PathTable(p)
    BY <1>1, Inside
  <2>3. q # p /\ Mapped(pt[p][i]) /\ pt[q][i] = pt[p][i]
    BY <1>1, <1>q, <1>i, <2>2 DEF PathShape, PathOwns, PathTable
  <2> QED  BY <2>1, <2>2, <2>3
<1>b. PICK b \in Pages : b = pt[p][i].pa /\ b = pt[q][i].pa
  <2>1. pt[p][i] \in Pte
    BY <1>2
  <2> QED  BY <1>2, <2>1 DEF Pte, Mapped
<1>3. /\ count' = [count EXCEPT ![b] = @ + 1]
      /\ k' = [k EXCEPT ![p].pc = "share", ![p].va = @ + 1]
  BY <1>i, <1>b DEF Inc
<1>4. k'[p].pc = "share" /\ \A r \in Procs \ {p} : k'[r] = k[r]
  BY <1>2, <1>3 DEF Path
<1>5. count[b] >= 1
  BY <1>q, <1>i, <1>2, <1>b, AccountsSay
<1>6. /\ Excludes(p) /\ ~Excludes(p)'
      /\ \A a \in Pages : ~HoldsRef(p, a) /\ ~HoldsRef(p, a)' /\ ~Moves(p, a) /\ ~Moves(p, a)'
  BY <1>1, <1>4 DEF Excludes, HoldsRef, Moves
<1>7. ASSUME NEW a \in Pages
      PROVE  /\ count'[a] - Contrib(p, q, i, a)' = count[a] - Contrib(p, q, i, a)
             /\ Place(p, a)' = Place(p, a)
  <2>1. ~Sees(p, q, i, a) /\ (Sees(p, q, i, a)' <=> a = b)
    BY <1>1, <1>6, <1>b DEF Sees
  <2>2. count'[a] = (IF a = b THEN count[a] + 1 ELSE count[a]) /\ count[a] \in Int
    BY <1>2, <1>3
  <2>3. Contrib(p, q, i, a)' = (IF a = b THEN 1 ELSE 0) /\ Contrib(p, q, i, a) = 0
    BY <1>6, <2>1 DEF Contrib
  <2>4. Place(p, a)' = Place(p, a)
    BY <1>1, <1>5, <1>6, <2>2 DEF Place
  <2> QED  BY <2>2, <2>3, <2>4
<1>8. q \in {p, k[p].tgt} /\ k[p].tgt = q /\ k[p].va = i
  BY <1>q, <1>i
<1>9. /\ state[p] = "run" /\ i \in Va /\ \A r \in Procs \ {p} : k'[r] = k[r]
      /\ \A r \in Procs, va \in Va : <<r, va>> # <<q, i>> => pt'[r][va].pa = pt[r][va].pa
  BY <1>1, <1>2, <1>4
<1>10. ~Excludes(p)' /\ (Excludes(p) => k[p].tgt = q /\ k[p].va = i)
  BY <1>6, <1>8
<1> QED  BY <1>7, <1>8, <1>9, <1>10, AccountsStep

LEMMA AccountsAlloc ==
    ASSUME CowAssumption, TableInv, TableInv', PagesExact, NEW p \in Procs, Alloc(p)
    PROVE  PagesExact'
<1>1. k[p].pc = "alloc" /\ Busy(p) /\ UNCHANGED <<count, pt>>
  BY DEF Alloc, Busy
<1>2. state[p] = "run" /\ k[p] \in Path /\ k \in [Procs -> Path] /\ 1 \in Va
  BY <1>1, Inside DEF Va, CowAssumption
<1>3. CASE Failed(p) /\ UNCHANGED freelist
  <2>1. k'[p].pc = "user" /\ \A r \in Procs \ {p} : k'[r] = k[r]
    BY <1>2, <1>3 DEF Failed, Die, Return, User
  <2> QED  BY <1>1, <1>2, <1>3, <2>1, AccountsQuiet DEF Plain
<1>4. ASSUME NEW b \in freelist, freelist' = freelist \ {b},
             k' = [k EXCEPT ![p].pc = "count", ![p].mem = b]
      PROVE  PagesExact'
  <2>1. k'[p].pc = "count" /\ k'[p].mem = b /\ \A r \in Procs \ {p} : k'[r] = k[r]
    BY <1>2, <1>4 DEF Path
  <2>2. b \in Pages /\ count[b] = 0
    <3>1. b \in Pages
      BY DEF TableInv, CowTypeOK
    <3> QED  BY <1>2, <3>1, AccountsSay
  <2>3. /\ ~Excludes(p) /\ ~Excludes(p)'
        /\ \A a \in Pages : ~HoldsRef(p, a) /\ ~HoldsRef(p, a)' /\ ~Moves(p, a) /\ (Moves(p, a)' <=> a = b)
    BY <1>1, <2>1 DEF Excludes, HoldsRef, Moves
  <2>4. ASSUME NEW a \in Pages
        PROVE  /\ count'[a] - Contrib(p, p, 1, a)' = count[a] - Contrib(p, p, 1, a)
               /\ Place(p, a)' = Place(p, a)
    <3>1. Sees(p, p, 1, a)' <=> Sees(p, p, 1, a)
      BY <1>1, <2>3 DEF Sees
    <3>2. Contrib(p, p, 1, a)' = Contrib(p, p, 1, a)
      BY <2>3, <3>1 DEF Contrib
    <3>3. Place(p, a)' = Place(p, a)
      BY <1>1, <1>4, <2>2, <2>3 DEF Place
    <3> QED  BY <1>1, <3>2, <3>3
  <2> QED  BY <1>1, <1>2, <2>1, <2>3, <2>4, AccountsStep
<1> QED  BY <1>3, <1>4 DEF Alloc

LEMMA AccountsCount ==
    ASSUME CowAssumption, TableInv, TableInv', PagesExact, NEW p \in Procs, Count(p)
    PROVE  PagesExact'
<1>1. k[p].pc = "count" /\ Busy(p) /\ UNCHANGED <<freelist, pt>>
  BY DEF Count, Busy
<1>2. /\ state[p] = "run" /\ k[p] \in Path /\ k \in [Procs -> Path] /\ 1 \in Va
      /\ count \in [Pages -> Int]
  BY <1>1, Inside DEF Va, CowAssumption, TableInv, CowTypeOK
<1>b. PICK b \in Pages : b = k[p].mem
  BY <1>1, Inside DEF PathShape
<1>3. count' = [count EXCEPT ![b] = 1] /\ k' = [k EXCEPT ![p].pc = "fill"]
  BY <1>b DEF Count
<1>4. k'[p].pc = "fill" /\ k'[p].mem = b /\ \A r \in Procs \ {p} : k'[r] = k[r]
  BY <1>b, <1>2, <1>3 DEF Path
<1>5. Moves(p, b)
  BY <1>1, <1>b DEF Moves
<1>6. count[b] = 0 /\ b \notin freelist
  BY <1>2, <1>5, AccountsSay
<1>7. /\ ~Excludes(p) /\ ~Excludes(p)'
      /\ \A a \in Pages : /\ ~HoldsRef(p, a) /\ (HoldsRef(p, a)' <=> a = b)
                          /\ (Moves(p, a) <=> a = b) /\ ~Moves(p, a)'
  BY <1>1, <1>b, <1>4 DEF Excludes, HoldsRef, Moves
<1>8. ASSUME NEW a \in Pages
      PROVE  /\ count'[a] - Contrib(p, p, 1, a)' = count[a] - Contrib(p, p, 1, a)
             /\ Place(p, a)' = Place(p, a)
  <2>1. Sees(p, p, 1, a)' <=> Sees(p, p, 1, a)
    BY <1>1, <1>7 DEF Sees
  <2>2. count'[a] = (IF a = b THEN 1 ELSE count[a]) /\ count[a] \in Int
    BY <1>2, <1>3
  <2>3. Contrib(p, p, 1, a)' = Contrib(p, p, 1, a) + (IF a = b THEN 1 ELSE 0) /\ Contrib(p, p, 1, a) \in Int
    BY <1>7, <2>1 DEF Contrib
  <2>4. Place(p, a)' = Place(p, a)
    BY <1>1, <1>6, <1>7, <2>2 DEF Place
  <2> QED  BY <1>6, <2>2, <2>3, <2>4
<1> QED  BY <1>1, <1>2, <1>4, <1>7, <1>8, AccountsStep

LEMMA ResolvedPath ==
    ASSUME TableInv, NEW p \in Procs, Resolved(p)
    PROVE  k'[p].pc \in {"user", "write"} /\ \A r \in Procs \ {p} : k'[r] = k[r]
<1>1. k \in [Procs -> Path] /\ k[p] \in Path
  BY DEF TableInv, CowTypeOK
<1> QED  BY <1>1 DEF Resolved, Return, User, Path

LEMMA FailedPath ==
    ASSUME TableInv, NEW p \in Procs, Failed(p)
    PROVE  k'[p].pc = "user" /\ \A r \in Procs \ {p} : k'[r] = k[r]
<1>1. k \in [Procs -> Path]
  BY DEF TableInv, CowTypeOK
<1> QED  BY <1>1 DEF Failed, Die, Return, User

LEMMA FreedPath ==
    ASSUME TableInv, NEW p \in Procs, Freed(p)
    PROVE  /\ k'[p].pc \in {"user", "write", "unmap"} /\ \A r \in Procs \ {p} : k'[r] = k[r]
           /\ k[p].op \in Unmapping => pt' = [pt EXCEPT ![k[p].tgt][k[p].va] = None]
           /\ k[p].op \notin Unmapping => pt' = pt
<1>1. CASE k[p].op \in Unmapping
  <2>1. k \in [Procs -> Path] /\ k[p] \in Path
    BY DEF TableInv, CowTypeOK
  <2> QED  BY <1>1, <2>1 DEF Freed, Path
<1>2. CASE k[p].op \notin Unmapping
  BY <1>2, ResolvedPath, FailedPath DEF Freed
<1> QED  BY <1>1, <1>2

LEMMA AccountsCopyPage ==
    ASSUME CowAssumption, TableInv, TableInv', PagesExact, NEW p \in Procs, CopyPage(p)
    PROVE  PagesExact'
<1>1. k[p].pc = "fill" /\ Busy(p) /\ UNCHANGED <<freelist, count>>
  BY DEF CopyPage, Busy
<1>2. /\ state[p] = "run" /\ k[p] \in Path /\ k \in [Procs -> Path]
      /\ k[p].op \in Faulting /\ k[p].tgt = p
  BY <1>1, Inside DEF PathShape, PathOwns, Faulting
<1>t. pt \in [Procs -> [Va -> Pte]] /\ count \in [Pages -> Int]
  BY DEF TableInv, CowTypeOK
<1>i. PICK i \in Va : i = k[p].va
  BY <1>1, Inside DEF PathShape
<1>m. PICK m \in Pages : m = k[p].mem
  BY <1>1, Inside DEF PathShape
<1>e. PICK e \in Pte : e = pt[p][i]
  BY <1>t
<1>3. /\ pt' = [pt EXCEPT ![p][i] = [e EXCEPT !.pa = m, !.w = TRUE, !.cow = FALSE]]
      /\ k' = [k EXCEPT ![p].pc = "drop", ![p].old = e.pa, ![p].mem = NoPage]
  BY <1>i, <1>m, <1>e DEF CopyPage
<1>4. [e EXCEPT !.pa = m, !.w = TRUE, !.cow = FALSE].pa = m
  BY DEF Pte
<1>5. k'[p].pc = "drop" /\ k'[p].old = e.pa /\ k'[p].op = k[p].op /\ \A r \in Procs \ {p} : k'[r] = k[r]
  BY <1>2, <1>3 DEF Path
<1>6. /\ pt'[p][i].pa = m
      /\ \A r \in Procs, va \in Va : <<r, va>> # <<p, i>> => pt'[r][va].pa = pt[r][va].pa
  BY <1>3, <1>4, <1>t
<1>7. k[p].op \notin Unmapping
  BY <1>2 DEF Faulting, Unmapping
<1>8. /\ ~Excludes(p) /\ ~Excludes(p)'
      /\ \A a \in Pages : /\ (HoldsRef(p, a) <=> a = m) /\ (HoldsRef(p, a)' <=> a = e.pa)
                          /\ ~Moves(p, a) /\ ~Moves(p, a)'
  BY <1>1, <1>m, <1>5, <1>7 DEF Excludes, HoldsRef, Moves
<1>9. ASSUME NEW a \in Pages
      PROVE  /\ count'[a] - Contrib(p, p, i, a)' = count[a] - Contrib(p, p, i, a)
             /\ Place(p, a)' = Place(p, a)
  <2>1. (Sees(p, p, i, a) <=> a = e.pa) /\ (Sees(p, p, i, a)' <=> a = m)
    BY <1>e, <1>6, <1>8 DEF Sees
  <2>2. Contrib(p, p, i, a)' = Contrib(p, p, i, a)
    BY <1>8, <2>1 DEF Contrib
  <2>3. Place(p, a)' = Place(p, a)
    BY <1>1, <1>8 DEF Place
  <2> QED  BY <1>1, <2>2, <2>3
<1> QED  BY <1>1, <1>2, <1>5, <1>6, <1>8, <1>9, AccountsStep

LEMMA AccountsZeroPage ==
    ASSUME CowAssumption, TableInv, TableInv', PagesExact, NEW p \in Procs, ZeroPage(p)
    PROVE  PagesExact'
<1>1. k[p].pc = "fill" /\ Busy(p) /\ UNCHANGED <<freelist, count>>
  BY DEF ZeroPage, Busy
<1>2. /\ state[p] = "run" /\ k[p] \in Path /\ k \in [Procs -> Path]
      /\ k[p].op \in Faulting /\ k[p].tgt = p
  BY <1>1, Inside DEF PathShape, PathOwns, Faulting
<1>t. pt \in [Procs -> [Va -> Pte]] /\ count \in [Pages -> Int]
  BY DEF TableInv, CowTypeOK
<1>i. PICK i \in Va : i = k[p].va
  BY <1>1, Inside DEF PathShape
<1>m. PICK m \in Pages : m = k[p].mem
  BY <1>1, Inside DEF PathShape
<1>u. pt[p][i].pa = NoPage
  BY <1>i DEF ZeroPage, Mapped
<1>o. k[p].op \notin Unmapping
  BY <1>2 DEF Faulting, Unmapping
<1>3. CASE /\ pt' = [pt EXCEPT ![p][k[p].va] = [pa |-> k[p].mem, w |-> TRUE, cow |-> FALSE, u |-> TRUE]]
           /\ Resolved(p)
  <2>1. k'[p].pc \in {"user", "write"} /\ \A r \in Procs \ {p} : k'[r] = k[r]
    BY <1>3, ResolvedPath
  <2>2. pt' = [pt EXCEPT ![p][i] = [pa |-> m, w |-> TRUE, cow |-> FALSE, u |-> TRUE]]
    BY <1>3, <1>i, <1>m
  <2>3. /\ pt'[p][i].pa = m
        /\ \A r \in Procs, va \in Va : <<r, va>> # <<p, i>> => pt'[r][va].pa = pt[r][va].pa
    BY <1>t, <2>2
  <2>4. /\ ~Excludes(p) /\ ~Excludes(p)'
        /\ \A a \in Pages : /\ (HoldsRef(p, a) <=> a = m) /\ ~HoldsRef(p, a)'
                            /\ ~Moves(p, a) /\ ~Moves(p, a)'
    BY <1>1, <1>m, <2>1 DEF Excludes, HoldsRef, Moves
  <2>5. ASSUME NEW a \in Pages
        PROVE  /\ count'[a] - Contrib(p, p, i, a)' = count[a] - Contrib(p, p, i, a)
               /\ Place(p, a)' = Place(p, a)
    <3>1. ~Sees(p, p, i, a) /\ (Sees(p, p, i, a)' <=> a = m)
      BY <1>u, <2>3, <2>4 DEF Sees, CowAssumption
    <3>2. Contrib(p, p, i, a)' = Contrib(p, p, i, a)
      BY <2>4, <3>1 DEF Contrib
    <3>3. Place(p, a)' = Place(p, a)
      BY <1>1, <2>4 DEF Place
    <3> QED  BY <1>1, <3>2, <3>3
  <2> QED  BY <1>1, <1>2, <2>1, <2>3, <2>4, <2>5, AccountsStep
<1>4. CASE /\ k' = [k EXCEPT ![p].pc = "drop", ![p].old = k[p].mem, ![p].mem = NoPage]
           /\ UNCHANGED pt
  <2>1. k'[p].pc = "drop" /\ k'[p].old = m /\ k'[p].op = k[p].op /\ \A r \in Procs \ {p} : k'[r] = k[r]
    BY <1>2, <1>4, <1>m DEF Path
  <2>2. /\ ~Excludes(p) /\ ~Excludes(p)'
        /\ \A a \in Pages : /\ (HoldsRef(p, a) <=> a = m) /\ (HoldsRef(p, a)' <=> a = m)
                            /\ ~Moves(p, a) /\ ~Moves(p, a)'
    BY <1>1, <1>m, <1>o, <2>1 DEF Excludes, HoldsRef, Moves
  <2>3. ASSUME NEW a \in Pages
        PROVE  /\ count'[a] - Contrib(p, p, i, a)' = count[a] - Contrib(p, p, i, a)
               /\ Place(p, a)' = Place(p, a)
    <3>1. Sees(p, p, i, a) <=> Sees(p, p, i, a)'
      BY <1>4, <2>2 DEF Sees
    <3>2. Contrib(p, p, i, a)' = Contrib(p, p, i, a)
      BY <2>2, <3>1 DEF Contrib
    <3>3. Place(p, a)' = Place(p, a)
      BY <1>1, <2>2 DEF Place
    <3> QED  BY <1>1, <3>2, <3>3
  <2> QED  BY <1>1, <1>2, <1>4, <2>1, <2>2, <2>3, AccountsStep
<1> QED  BY <1>3, <1>4 DEF ZeroPage

(* The entry that a path of kfree is about, and what becomes of it. *)
LEMMA DropEntry ==
    ASSUME CowAssumption, TableInv, NEW p \in Procs, k[p].pc \in {"drop", "push"}
    PROVE  /\ Busy(p) /\ state[p] = "run" /\ k[p] \in Path /\ k \in [Procs -> Path]
           /\ k[p].old \in Pages /\ k[p].va \in Va /\ k[p].tgt \in Procs
           /\ pt \in [Procs -> [Va -> Pte]] /\ count \in [Pages -> Int]
           /\ k[p].op \in Unmapping => pt[k[p].tgt][k[p].va].pa = k[p].old
<1>1. Busy(p)
  BY DEF Busy
<1>2. /\ state[p] = "run" /\ k[p] \in Path /\ k \in [Procs -> Path] /\ PathShape(p) /\ PathTable(p)
  BY <1>1, Inside
<1>3. pt \in [Procs -> [Va -> Pte]] /\ count \in [Pages -> Int]
  BY DEF TableInv, CowTypeOK
<1>4. k[p].old \in Pages /\ k[p].va \in Va
  BY <1>2 DEF PathShape
<1>5. k[p].op \in Unmapping => pt[k[p].tgt][k[p].va].pa = k[p].old
  BY <1>2 DEF PathTable
<1>6. k[p].tgt \in Procs
  BY <1>2 DEF Path
<1> QED  BY <1>1, <1>2, <1>3, <1>4, <1>5, <1>6

LEMMA AccountsDrop ==
    ASSUME CowAssumption, TableInv, TableInv', PagesExact, NEW p \in Procs, Drop(p)
    PROVE  PagesExact'
<1>1. k[p].pc = "drop" /\ UNCHANGED freelist
  BY DEF Drop
<1>2. /\ Busy(p) /\ state[p] = "run" /\ k[p] \in Path /\ k \in [Procs -> Path]
      /\ pt \in [Procs -> [Va -> Pte]] /\ count \in [Pages -> Int]
  BY <1>1, DropEntry
<1>q. PICK q \in Procs : q = k[p].tgt
  BY <1>1, DropEntry
<1>i. PICK i \in Va : i = k[p].va
  BY <1>1, DropEntry
<1>b. PICK b \in Pages : b = k[p].old /\ (k[p].op \in Unmapping => pt[q][i].pa = b)
  BY <1>1, <1>q, <1>i, DropEntry
<1>3. /\ count' = [count EXCEPT ![b] = @ - 1]
      /\ count[b] > 1 => Freed(p)
      /\ ~(count[b] > 1) => k' = [k EXCEPT ![p].pc = "push"] /\ UNCHANGED pt
  BY <1>b DEF Drop
<1>4. ~Excludes(p) /\ \A a \in Pages : ~Moves(p, a) /\ (HoldsRef(p, a) <=> a = b /\ k[p].op \notin Unmapping)
  BY <1>1, <1>b DEF Excludes, Moves, HoldsRef
<1>5. count[b] >= 1 /\ b \notin freelist
  <2>1. count[b] >= 1
    <3>1. CASE k[p].op \in Unmapping
      BY <1>2, <1>q, <1>b, <1>4, <3>1, AccountsSay
    <3>2. CASE k[p].op \notin Unmapping
      BY <1>2, <1>4, <3>2, AccountsSay
    <3> QED  BY <3>1, <3>2
  <2>2. b \in freelist => count[b] = 0
    BY <1>2, AccountsSay
  <2> QED  BY <2>1, <2>2
<1>6. \A a \in Pages : count'[a] = (IF a = b THEN count[b] - 1 ELSE count[a]) /\ count[a] \in Int
  BY <1>2, <1>3
<1>7. /\ \A r \in Procs \ {p} : k'[r] = k[r]
      /\ \A r \in Procs, va \in Va : <<r, va>> # <<q, i>> => pt'[r][va].pa = pt[r][va].pa
      /\ Excludes(p)' => k'[p].tgt = q /\ k'[p].va = i
      /\ \A a \in Pages : Sees(p, q, i, a)' <=> pt[q][i].pa = a /\ k[p].op \notin Unmapping
      /\ \A a \in Pages : ~HoldsRef(p, a)' /\ (Moves(p, a)' <=> a = b /\ ~(count[b] > 1))
  <2>1. CASE count[b] > 1
    <3>1. /\ k'[p].pc \in {"user", "write", "unmap"} /\ \A r \in Procs \ {p} : k'[r] = k[r]
          /\ k[p].op \in Unmapping => pt' = [pt EXCEPT ![q][i] = None]
          /\ k[p].op \notin Unmapping => pt' = pt
      BY <1>3, <1>q, <1>i, <2>1, FreedPath
    <3>2. ~Excludes(p)' /\ \A a \in Pages : ~HoldsRef(p, a)' /\ ~Moves(p, a)'
      BY <3>1 DEF Excludes, HoldsRef, Moves
    <3>3. \A r \in Procs, va \in Va : <<r, va>> # <<q, i>> => pt'[r][va].pa = pt[r][va].pa
      BY <1>2, <3>1
    <3>4. ASSUME NEW a \in Pages
          PROVE  Sees(p, q, i, a)' <=> pt[q][i].pa = a /\ k[p].op \notin Unmapping
      <4>1. CASE k[p].op \in Unmapping
        <5>1. pt'[q][i].pa = NoPage
          BY <1>2, <3>1, <4>1 DEF None
        <5> QED  BY <4>1, <5>1 DEF Sees, CowAssumption
      <4>2. CASE k[p].op \notin Unmapping
        BY <3>1, <3>2, <4>2 DEF Sees
      <4> QED  BY <4>1, <4>2
    <3> QED  BY <2>1, <3>1, <3>2, <3>3, <3>4
  <2>2. CASE ~(count[b] > 1)
    <3>1. /\ k'[p].pc = "push" /\ k'[p].op = k[p].op /\ k'[p].old = b /\ k'[p].tgt = q /\ k'[p].va = i
          /\ \A r \in Procs \ {p} : k'[r] = k[r]
          /\ pt' = pt
      BY <1>2, <1>3, <1>q, <1>i, <1>b, <2>2 DEF Path
    <3>2. /\ Excludes(p)' <=> k[p].op \in Unmapping
          /\ \A a \in Pages : ~HoldsRef(p, a)' /\ (Moves(p, a)' <=> a = b)
      BY <3>1 DEF Excludes, HoldsRef, Moves
    <3>3. \A a \in Pages : Sees(p, q, i, a)' <=> pt[q][i].pa = a /\ k[p].op \notin Unmapping
      BY <3>1, <3>2 DEF Sees
    <3> QED  BY <2>2, <3>1, <3>2, <3>3
  <2> QED  BY <2>1, <2>2
<1>8. ASSUME NEW a \in Pages
      PROVE  /\ count'[a] - Contrib(p, q, i, a)' = count[a] - Contrib(p, q, i, a)
             /\ Place(p, a)' = Place(p, a)
  <2>1. Sees(p, q, i, a) <=> pt[q][i].pa = a
    BY <1>4 DEF Sees
  <2>2. Contrib(p, q, i, a) = Contrib(p, q, i, a)' + (IF a = b THEN 1 ELSE 0) /\ Contrib(p, q, i, a)' \in Int
    <3>1. CASE k[p].op \in Unmapping
      BY <1>b, <1>4, <1>7, <2>1, <3>1 DEF Contrib
    <3>2. CASE k[p].op \notin Unmapping
      BY <1>4, <1>7, <2>1, <3>2 DEF Contrib
    <3> QED  BY <3>1, <3>2
  <2>3. Place(p, a)' = Place(p, a)
    <3>1. CASE a = b
      BY <1>1, <1>4, <1>5, <1>6, <1>7, <3>1 DEF Place
    <3>2. CASE a # b
      BY <1>1, <1>4, <1>6, <1>7, <3>2 DEF Place
    <3> QED  BY <3>1, <3>2
  <2>4. count[a] \in Int /\ count'[a] = IF a = b THEN count[a] - 1 ELSE count[a]
    BY <1>6
  <2> QED  BY <2>2, <2>3, <2>4
<1>9. q \in {p, k[p].tgt} /\ (Excludes(p) => k[p].tgt = q /\ k[p].va = i)
  BY <1>q, <1>i
<1>10. \A r \in Procs \ {p} : k'[r] = k[r]
  BY <1>7
<1>11. \A r \in Procs, va \in Va : <<r, va>> # <<q, i>> => pt'[r][va].pa = pt[r][va].pa
  BY <1>7
<1>12. state[p] = "run" /\ q \in {p, k[p].tgt} /\ (Excludes(p) => k[p].tgt = q /\ k[p].va = i)
  BY <1>2, <1>9
<1>13. Excludes(p)' => k'[p].tgt = q /\ k'[p].va = i
  BY <1>7
<1> QED  BY <1>8, <1>10, <1>11, <1>12, <1>13, AccountsStep

LEMMA AccountsPush ==
    ASSUME CowAssumption, TableInv, TableInv', PagesExact, NEW p \in Procs, Push(p)
    PROVE  PagesExact'
<1>1. k[p].pc = "push" /\ UNCHANGED count /\ Freed(p)
  BY DEF Push
<1>2. /\ Busy(p) /\ state[p] = "run" /\ k[p] \in Path /\ k \in [Procs -> Path]
      /\ pt \in [Procs -> [Va -> Pte]]
  BY <1>1, DropEntry
<1>q. PICK q \in Procs : q = k[p].tgt
  BY <1>1, DropEntry
<1>i. PICK i \in Va : i = k[p].va
  BY <1>1, DropEntry
<1>b. PICK b \in Pages : b = k[p].old
  BY <1>1, DropEntry
<1>3. freelist' = freelist \cup {b}
  BY <1>b DEF Push
<1>4. /\ Excludes(p) <=> k[p].op \in Unmapping
      /\ \A a \in Pages : ~HoldsRef(p, a) /\ (Moves(p, a) <=> a = b)
  BY <1>1, <1>b DEF Excludes, Moves, HoldsRef
<1>5. count[b] = 0 /\ b \notin freelist
  BY <1>2, <1>4, AccountsSay
<1>6. /\ k'[p].pc \in {"user", "write", "unmap"} /\ \A r \in Procs \ {p} : k'[r] = k[r]
      /\ k[p].op \in Unmapping => pt' = [pt EXCEPT ![q][i] = None]
      /\ k[p].op \notin Unmapping => pt' = pt
  BY <1>1, <1>q, <1>i, FreedPath
<1>7. ~Excludes(p)' /\ \A a \in Pages : ~HoldsRef(p, a)' /\ ~Moves(p, a)'
  BY <1>6 DEF Excludes, HoldsRef, Moves
<1>8. \A r \in Procs, va \in Va : <<r, va>> # <<q, i>> => pt'[r][va].pa = pt[r][va].pa
  BY <1>2, <1>6
<1>9. ASSUME NEW a \in Pages
      PROVE  /\ count'[a] - Contrib(p, q, i, a)' = count[a] - Contrib(p, q, i, a)
             /\ Place(p, a)' = Place(p, a)
  <2>1. Sees(p, q, i, a)' <=> Sees(p, q, i, a)
    <3>1. CASE k[p].op \in Unmapping
      <4>1. pt'[q][i].pa = NoPage
        BY <1>2, <1>6, <3>1 DEF None
      <4> QED  BY <1>4, <3>1, <4>1 DEF Sees, CowAssumption
    <3>2. CASE k[p].op \notin Unmapping
      BY <1>4, <1>6, <1>7, <3>2 DEF Sees
    <3> QED  BY <3>1, <3>2
  <2>2. Contrib(p, q, i, a)' = Contrib(p, q, i, a)
    BY <1>4, <1>7, <2>1 DEF Contrib
  <2>3. Place(p, a)' = Place(p, a)
    BY <1>1, <1>3, <1>4, <1>5, <1>7 DEF Place
  <2> QED  BY <1>1, <2>2, <2>3
<1>10. q \in {p, k[p].tgt} /\ (Excludes(p) => k[p].tgt = q /\ k[p].va = i)
  BY <1>q, <1>i
<1>11. \A r \in Procs \ {p} : k'[r] = k[r]
  BY <1>6
<1>12. state[p] = "run" /\ (Excludes(p)' => k'[p].tgt = q /\ k'[p].va = i)
  BY <1>2, <1>7
<1> QED  BY <1>8, <1>9, <1>10, <1>11, <1>12, AccountsStep

(* The steps that hold and move nothing. *)
LEMMA AccountsKernelQuiet ==
    ASSUME CowAssumption, TableInv, TableInv', PagesExact, NEW p \in Procs,
           Forked(p) \/ Write(p) \/ Unmap(p) \/ Unmapped(p)
    PROVE  PagesExact'
<1>1. k[p].pc \in {"share", "write", "unmap"} /\ Busy(p) /\ UNCHANGED <<freelist, count, pt>>
  BY DEF Forked, Write, Unmap, Unmapped, Busy
<1>2. /\ state[p] = "run" /\ k \in [Procs -> Path] /\ k[p] \in Path
      /\ k[p].pc = "unmap" => k[p].op \in Unmapping
  BY <1>1, Inside DEF PathShape
<1>3. \A r \in Procs \ {p} : k'[r] = k[r]
  BY <1>2 DEF Forked, Write, Unmap, Unmapped, Return, StartUnmap
<1>4. Plain(p)'
  <2>1. CASE Forked(p) \/ Unmapped(p)
    BY <1>2, <2>1 DEF Forked, Unmapped, Return, User, Plain
  <2>2. CASE Write(p)
    <3>1. CASE k[p].op = "wait"
      <4>1. k'[p] = [User(p) EXCEPT !.pc = "unmap", !.op = "reap", !.tgt = k[p].child, !.va = 1,
                                    !.end = sz[k[p].child]]
        BY <1>2, <2>2, <3>1 DEF Write, StartUnmap
      <4>2. k'[p].pc = "unmap"
        BY <4>1 DEF User
      <4> QED  BY <4>2 DEF Plain
    <3>2. CASE k[p].op # "wait"
      BY <1>2, <2>2, <3>2 DEF Write, Return, User, Plain
    <3> QED  BY <3>1, <3>2
  <2>3. CASE Unmap(p)
    <3>1. PICK i, b : k' = [k EXCEPT ![p].pc = "drop", ![p].va = i, ![p].old = b]
      BY <2>3 DEF Unmap
    <3>2. k'[p].pc = "drop" /\ k'[p].op = k[p].op
      BY <1>2, <3>1 DEF Path
    <3>3. k[p].op \in Unmapping
      BY <1>2, <2>3 DEF Unmap
    <3> QED  BY <3>2, <3>3 DEF Plain
  <2> QED  BY <2>1, <2>2, <2>3
<1> QED  BY <1>1, <1>2, <1>3, <1>4, AccountsQuiet DEF Plain

LEMMA AccountsSyscall ==
    ASSUME CowAssumption, TableInv, TableInv', PagesExact, NEW p \in Procs, Syscall(p)
    PROVE  PagesExact'
<1>1. InUser(p) /\ UNCHANGED <<freelist, count, pt>>
  BY DEF Syscall, Exit, GrowLazy, GrowEager, Shrink, StoreFault, LoadFault, Store, Fork, Wait, Copyout
<1>2. state[p] = "run" /\ k[p] = User(p) /\ k \in [Procs -> Path]
  BY <1>1, InUserMode
<1>3. (\A r \in Procs \ {p} : k'[r] = k[r]) /\ k'[p].pc \in {"user", "alloc", "share", "unmap"}
  <2>1. CASE UNCHANGED k
    BY <1>2, <2>1 DEF User
  <2>2. CASE Die(p)
    BY <1>2, <2>2 DEF Die, Return, User
  <2>3. ASSUME NEW op, NEW va, NEW v, NEW q, Enter(p, op, va, v, q)
        PROVE  (\A r \in Procs \ {p} : k'[r] = k[r]) /\ k'[p].pc = "alloc"
    BY <1>2, <2>3 DEF Enter, User
  <2>4. ASSUME NEW op, NEW q, NEW from, NEW to, StartUnmap(p, op, q, from, to)
        PROVE  (\A r \in Procs \ {p} : k'[r] = k[r]) /\ k'[p].pc = "unmap"
    BY <1>2, <2>4 DEF StartUnmap, User
  <2>5. ASSUME NEW q \in Procs, Fork(p, q)
        PROVE  (\A r \in Procs \ {p} : k'[r] = k[r]) /\ k'[p].pc = "share"
    BY <1>2, <2>5 DEF Fork, User
  <2>6. ASSUME NEW va \in Va, NEW v \in Vals, NEW op \in {"copyout", "wait"}, NEW q \in Procs,
               Copyout(p, op, va, v, q)
        PROVE  (\A r \in Procs \ {p} : k'[r] = k[r]) /\ k'[p].pc \in {"user", "alloc", "unmap"}
    <3>1. UNCHANGED k \/ StartUnmap(p, "reap", q, 1, sz[q]) \/ Enter(p, op, va, v, q)
      BY <2>6 DEF Copyout
    <3>2. UNCHANGED k => (\A r \in Procs \ {p} : k'[r] = k[r]) /\ k'[p].pc = "user"
      BY <1>2 DEF User
    <3> QED  BY <2>3, <2>4, <3>1, <3>2
  <2>7. ASSUME NEW va \in Va, StoreFault(p, va) \/ LoadFault(p, va)
        PROVE  Die(p) \/ Enter(p, "store", va, 0, p) \/ Enter(p, "load", va, 0, p)
    BY <2>7 DEF StoreFault, LoadFault
  <2> QED  BY <2>1, <2>2, <2>3, <2>4, <2>5, <2>6, <2>7
           DEF Syscall, Exit, GrowLazy, GrowEager, Shrink, Store, Wait
<1>4. Plain(p) /\ Plain(p)'
  BY <1>2, <1>3 DEF Plain, User
<1> QED  BY <1>1, <1>2, <1>3, <1>4, AccountsQuiet

(* The accounts balance at first, *)
LEMMA AccountsInit == ASSUME CowAssumption, Init PROVE PagesExact
<1>1. PICK image \in [1..Len(Layout) -> Pages] :
        /\ \A i, j \in DOMAIN image : image[i] = image[j] => i = j
        /\ freelist = Pages \ {image[va] : va \in DOMAIN image}
        /\ count = [a \in Pages |-> IF a \in {image[va] : va \in DOMAIN image} THEN 1 ELSE 0]
        /\ pt = [p \in Procs |-> [va \in Va |->
                   IF p = InitProc /\ va \in DOMAIN image THEN ProgramPte(va, image[va]) ELSE None]]
        /\ k = [p \in Procs |-> User(p)]
  BY DEF Init
<1>2. /\ Len(Layout) \in Nat /\ MaxSz \in Nat /\ Len(Layout) <= MaxSz
      /\ NoPage \notin Pages /\ InitProc \in Procs
  BY DEF CowAssumption
<1>3. \A p \in Procs : k[p].pc = "user"
  BY <1>1 DEF User
<1>4. ASSUME NEW a \in Pages
      PROVE  count[a] = Cardinality(Counted(a)) + Cardinality(Holding(a))
  <2>1. Holding(a) = {}
    BY <1>3 DEF Holding
  <2>2. Counted(a) = {r \in Procs \X Va : pt[r[1]][r[2]].pa = a}
    BY <1>3 DEF Counted
  <2>3. \A p \in Procs, va \in Va :
          pt[p][va].pa = a <=> p = InitProc /\ va \in DOMAIN image /\ image[va] = a
    BY <1>1, <1>2 DEF ProgramPte, None
  <2>4. CASE a \in {image[va] : va \in DOMAIN image}
    <3>1. PICK i \in DOMAIN image : image[i] = a
      BY <2>4
    <3>2. i \in Va
      BY <1>1, <1>2, <3>1 DEF Va
    <3>3. Counted(a) = {<<InitProc, i>>}
      BY <1>1, <1>2, <2>2, <2>3, <3>1, <3>2
    <3>4. Cardinality(Counted(a)) = 1
      BY <3>3, FS_Singleton
    <3> QED  BY <1>1, <2>1, <2>4, <3>4, FS_EmptySet
  <2>5. CASE a \notin {image[va] : va \in DOMAIN image}
    <3>1. Counted(a) = {}
      BY <2>2, <2>3, <2>5
    <3> QED  BY <1>1, <2>1, <2>5, <3>1, FS_EmptySet
  <2> QED  BY <2>4, <2>5
<1>5. PagesConserved
  <2>1. count \in [Pages -> Int]
    BY <1>1
  <2>2. \A a \in Pages : Moving(a) = {}
    BY <1>3 DEF Moving, Moves
  <2>3. \A a \in Pages : Cardinality(Moving(a)) + (IF a \in freelist THEN 1 ELSE 0)
                           = IF count[a] > 0 THEN 0 ELSE 1
    <3> SUFFICES ASSUME NEW a \in Pages
                 PROVE  Cardinality(Moving(a)) + (IF a \in freelist THEN 1 ELSE 0)
                           = IF count[a] > 0 THEN 0 ELSE 1
      OBVIOUS
    <3>1. Cardinality(Moving(a)) = 0
      BY <2>2, FS_EmptySet
    <3>2. CASE a \in {image[va] : va \in DOMAIN image}
      <4>1. a \notin freelist /\ count[a] = 1
        BY <1>1, <3>2
      <4> QED  BY <3>1, <4>1
    <3>3. CASE a \notin {image[va] : va \in DOMAIN image}
      <4>1. a \in freelist /\ count[a] = 0
        BY <1>1, <3>3
      <4> QED  BY <3>1, <4>1
    <3> QED  BY <3>2, <3>3
  <2> QED  BY <2>1, <2>3, ConservedSum
<1> QED  BY <1>4, <1>5 DEF PagesExact, CountExact

(* and after every step. *)
LEMMA CowStep ==
    ASSUME CowAssumption, CowInv, [Next]_vars
    PROVE  CowInv'
<1>1. TableInv /\ PagesExact /\ TableInv'
  BY TableStep DEF CowInv
<1>2. CASE UNCHANGED vars
  BY <1>1, <1>2, AccountsUnchanged DEF vars, CowInv
<1>3. ASSUME NEW p \in Procs, Kernel(p)
      PROVE  PagesExact'
  BY <1>1, <1>3, AccountsShare, AccountsInc, AccountsAlloc, AccountsCount, AccountsCopyPage,
     AccountsZeroPage, AccountsDrop, AccountsPush, AccountsKernelQuiet DEF Kernel
<1>4. ASSUME NEW p \in Procs, Syscall(p)
      PROVE  PagesExact'
  BY <1>1, <1>4, AccountsSyscall
<1> QED  BY <1>1, <1>2, <1>3, <1>4 DEF Next, CowInv

(* CowInv is an invariant. *)
LEMMA CowAlways == Spec => []CowInv
<1>1. Init => CowInv
  BY CowAssumption, TableInit, AccountsInit DEF CowInv
<1>2. CowInv /\ [Next]_vars => CowInv'
  BY CowAssumption, CowStep
<1> QED  BY <1>1, <1>2, PTL DEF Spec

(* Every page is accounted for: whatever the processors are in the middle  *)
(* of, its count is the number of references to it, and without any it is  *)
(* on the free list or on its way to or from it.  So kfree (kalloc.c)      *)
(* neither frees a page that is still mapped nor panics, and none is lost. *)
THEOREM PagesAccounted == Spec => []PagesExact
<1>1. CowInv => PagesExact
  BY DEF CowInv
<1> QED  BY <1>1, CowAlways, PTL

-----------------------------------------------------------------------------
(* Sharing is invisible.  A page that can be written to has one entry, a   *)
(* page that is being prepared none, and what a fork has copied so far is  *)
(* what the parent has.                                                    *)

WithoutGuard == \A va \in 1..Len(Layout) : Layout[va] # "guard"

Sole ==
    \A p, q \in Procs, va, vb \in Va :
        Mapped(pt[p][va]) /\ pt[p][va].w /\ pt[q][vb].pa = pt[p][va].pa => p = q /\ va = vb

Preparing(p) == k[p].pc \in {"count", "fill"}

Fresh ==
    \A p \in Procs : Preparing(p) =>
        /\ \A q \in Procs, va \in Va : pt[q][va].pa # k[p].mem
        /\ \A q \in Procs \ {p} : Preparing(q) => k[q].mem # k[p].mem

UserPages ==
    \A p \in Procs, va \in Va :
        /\ Mapped(pt[p][va]) => pt[p][va].u
        /\ pt[p][va].w => Mapped(pt[p][va])

Target(p) ==
    /\ k[p].pc \in {"alloc", "count", "fill"} /\ Mapped(pt[p][k[p].va]) => pt[p][k[p].va].cow
    /\ k[p].pc = "write" => pt[p][k[p].va].w
    /\ k[p].op \in {"copyout", "wait"} => k[p].val \in Vals
    /\ k[p].pc \in {"drop", "push"} /\ k[p].op \in Faulting /\ Mapped(pt[p][k[p].va]) =>
         pt[p][k[p].va].w

Same(p, j) ==
    IF Mapped(pt[p][j]) THEN pt[k[p].tgt][j] = pt[p][j] ELSE ~Mapped(pt[k[p].tgt][j])

Copies(p) ==
    /\ k[p].pc = "share" => \A j \in Va : j < k[p].va => Same(p, j)
    /\ k[p].pc = "inc" => \A j \in Va : j <= k[p].va => Same(p, j)

Sizes(p) ==
    /\ state[p] = "run" => sz[p] >= 1
    /\ k[p].op = "shrink" => sz[p] >= 2

MemInv ==
    /\ content \in [Pages -> Vals \cup {0, Junk}]
    /\ Sole /\ Fresh /\ UserPages
    /\ \A p \in Procs : Target(p) /\ Copies(p) /\ Sizes(p)

(* An entry counts, or its page is on its way to the free list. *)
LEMMA EntryCounts ==
    ASSUME CowAssumption, CowInv, NEW q \in Procs, NEW va \in Va, NEW a \in Pages,
           pt[q][va].pa = a
    PROVE  \/ count[a] >= 1
           \/ \E r \in Procs : /\ k[r].pc = "push" /\ k[r].op \in Unmapping
                               /\ k[r].tgt = q /\ k[r].va = va /\ k[r].old = a
<1>1. TableInv /\ PagesExact
  BY DEF CowInv
<1>2. CASE \E r \in Procs : k[r].pc = "inc" /\ k[r].tgt = q /\ k[r].va = va
  <2>1. PICK r \in Procs : k[r].pc = "inc" /\ k[r].tgt = q /\ k[r].va = va
    BY <1>2
  <2>2. Busy(r)
    BY <2>1 DEF Busy
  <2>3. state[r] = "run" /\ PathShape(r) /\ PathOwns(r) /\ PathTable(r)
    BY <1>1, <2>2, Inside
  <2>4. k[r].tgt # r /\ pt[r][va] = pt[q][va]
    BY <2>1, <2>2, <2>3 DEF PathShape, PathOwns, PathTable
  <2> QED  BY <1>1, <2>3, <2>4, AccountsSay
<1>3. CASE \E r \in Procs : k[r].pc = "push" /\ k[r].op \in Unmapping /\ k[r].tgt = q /\ k[r].va = va
  <2>1. PICK r \in Procs : k[r].pc = "push" /\ k[r].op \in Unmapping /\ k[r].tgt = q /\ k[r].va = va
    BY <1>3
  <2>2. k[r].old = a
    BY <1>1, <2>1, DropEntry
  <2> QED  BY <2>1, <2>2
<1>4. CASE \A r \in Procs : <<k[r].tgt, k[r].va>> = <<q, va>> => ~Excludes(r)
  <2>1. <<q, va>> \in Counted(a)
    BY <1>4 DEF Counted, Excludes
  <2>2. Cardinality(Counted(a)) >= 1 /\ Cardinality(Counted(a)) \in Nat /\ Cardinality(Holding(a)) \in Nat
    BY <2>1, SetsFinite, FS_CardinalityType, FS_EmptySet
  <2>3. count[a] = Cardinality(Counted(a)) + Cardinality(Holding(a))
    BY <1>1 DEF PagesExact, CountExact
  <2> QED  BY <2>2, <2>3
<1> QED  BY <1>2, <1>3, <1>4 DEF Excludes

LEMMA MovingOne ==
    ASSUME CowAssumption, CowInv, NEW p \in Procs, NEW r \in Procs, NEW a \in Pages,
           Moves(p, a), Moves(r, a)
    PROVE  p = r
<1>1. /\ IsFiniteSet(Moving(a)) /\ Cardinality(Moving(a)) \in Nat
  BY SetsFinite, FS_CardinalityType
<1>2. Cardinality(Moving(a)) + (IF a \in freelist THEN 1 ELSE 0) = IF count[a] > 0 THEN 0 ELSE 1
  BY ConservedSum DEF CowInv, PagesExact, TableInv, CowTypeOK
<1>3. p \in Moving(a) /\ r \in Moving(a)
  BY DEF Moving
<1>4. Cardinality(Moving(a)) # 0
  BY <1>1, <1>3, FS_EmptySet
<1>5. Cardinality(Moving(a)) = 1
  BY <1>1, <1>2, <1>4
<1>6. PICK x : Moving(a) = {x}
  BY <1>1, <1>5, FS_Singleton
<1> QED  BY <1>3, <1>6

(* A page on the free list, or one that p is about to put there, has no    *)
(* entry but the one p is about to clear, and nobody is preparing it.      *)
LEMMA FreeUnmapped ==
    ASSUME CowAssumption, CowInv, NEW a \in freelist
    PROVE  /\ a \in Pages /\ \A q \in Procs, va \in Va : pt[q][va].pa # a
           /\ \A q \in Procs : Preparing(q) => k[q].mem # a
<1>1. TableInv /\ PagesExact /\ a \in Pages
  BY DEF CowInv, TableInv, CowTypeOK
<1>2. ASSUME NEW q \in Procs, Busy(q)
      PROVE  count[a] = 0 /\ ~Moves(q, a) /\ ~HoldsRef(q, a)
  <2>1. state[q] = "run"
    BY <1>1, <1>2, Inside
  <2> QED  BY <1>1, <2>1, AccountsSay
<1>3. ASSUME NEW q \in Procs, NEW va \in Va, pt[q][va].pa = a
      PROVE  FALSE
  <2>1. CASE count[a] >= 1
    <3>1. Cardinality(Moving(a)) + (IF a \in freelist THEN 1 ELSE 0) = IF count[a] > 0 THEN 0 ELSE 1
      BY <1>1, ConservedSum DEF PagesExact, TableInv, CowTypeOK
    <3>2. Cardinality(Moving(a)) \in Nat /\ count[a] \in Int
      BY <1>1, SetsFinite, FS_CardinalityType DEF TableInv, CowTypeOK
    <3> QED  BY <2>1, <3>1, <3>2
  <2>2. ASSUME NEW r \in Procs, k[r].pc = "push", k[r].old = a
        PROVE  FALSE
    BY <1>2, <2>2 DEF Moves, Busy
  <2> QED  BY <1>1, <1>3, <2>1, <2>2, EntryCounts
<1>4. ASSUME NEW q \in Procs, Preparing(q)
      PROVE  k[q].mem # a
  BY <1>2, <1>4 DEF Preparing, Moves, HoldsRef, Busy
<1> QED  BY <1>1, <1>3, <1>4

LEMMA PushUnmapped ==
    ASSUME CowAssumption, CowInv, NEW p \in Procs, k[p].pc = "push"
    PROVE  \A q \in Procs, va \in Va :
             pt[q][va].pa = k[p].old => k[p].op \in Unmapping /\ q = k[p].tgt /\ va = k[p].va
<1> SUFFICES ASSUME NEW q \in Procs, NEW va \in Va, pt[q][va].pa = k[p].old
             PROVE  k[p].op \in Unmapping /\ q = k[p].tgt /\ va = k[p].va
  OBVIOUS
<1>1. TableInv /\ PagesExact
  BY DEF CowInv
<1>a. PICK a \in Pages : a = k[p].old
  BY <1>1, DropEntry
<1>2. state[p] = "run" /\ Moves(p, a)
  BY <1>1, <1>a, DropEntry DEF Moves
<1>3. count[a] = 0
  BY <1>1, <1>2, AccountsSay
<1>4. PICK r \in Procs : /\ k[r].pc = "push" /\ k[r].op \in Unmapping
                         /\ k[r].tgt = q /\ k[r].va = va /\ k[r].old = a
  BY <1>3, <1>a, EntryCounts
<1>5. r = p
  BY <1>2, <1>4, MovingOne DEF Moves
<1> QED  BY <1>4, <1>5

(* What is left to show of a step of p. *)
LEMMA MemKept ==
    ASSUME TableInv, MemInv, NEW p \in Procs, state[p] = "run",
           \A q \in Procs \ {p} : k'[q] = k[q],
           \A s \in Procs : s # p /\ s # k[p].tgt => pt'[s] = pt[s] /\ sz'[s] = sz[s],
           content' \in [Pages -> Vals \cup {0, Junk}],
           Sole', Fresh', UserPages', Target(p)', Copies(p)',
           \A s \in Procs : state'[s] = "run" => sz'[s] >= 1,
           k'[p].op = "shrink" => sz'[p] >= 2
    PROVE  MemInv'
<1>1. ASSUME NEW q \in Procs \ {p} PROVE Target(q)' /\ Copies(q)' /\ Sizes(q)'
  <2>1. Target(q) /\ Copies(q) /\ Sizes(q) /\ k'[q] = k[q] /\ k[q].tgt \in Procs
    BY DEF MemInv, TableInv, CowTypeOK, Path
  <2>2. CASE ~Busy(q)
    <3>0. PathShape(q)
      BY DEF TableInv
    <3>1. k[q].pc = "user" /\ k[q].op = "none"
      BY <2>2, <3>0 DEF PathShape, User, Busy
    <3> QED  BY <2>1, <3>1 DEF Target, Copies, Sizes
  <2>3. CASE Busy(q)
    <3>1. Elsewhere(p, {p, k[p].tgt})
      BY MineAlone
    <3>2. pt'[q] = pt[q] /\ sz'[q] = sz[q] /\ pt'[k[q].tgt] = pt[k[q].tgt]
      BY <2>1, <2>3, <3>1 DEF Elsewhere
    <3>3. Target(q)'
      BY <2>1, <3>2 DEF Target
    <3>4. Copies(q)'
      BY <2>1, <3>2 DEF Copies, Same
    <3>5. Sizes(q)'
      BY <2>1, <3>2 DEF Sizes
    <3> QED  BY <3>3, <3>4, <3>5
  <2> QED  BY <2>2, <2>3
<1>2. Sizes(p)'
  BY DEF Sizes
<1> QED  BY <1>1, <1>2 DEF MemInv

(* Steps that change no page table: p prepares no page that it did not. *)
LEMMA TablesKept ==
    ASSUME TableInv, MemInv, NEW p \in Procs, UNCHANGED pt,
           \A q \in Procs \ {p} : k'[q] = k[q],
           Preparing(p)' => Preparing(p) /\ k'[p].mem = k[p].mem
    PROVE  Sole' /\ Fresh' /\ UserPages'
<1>1. Sole' /\ UserPages'
  BY DEF MemInv, Sole, UserPages
<1>2. Fresh'
  <2> SUFFICES ASSUME NEW r \in Procs, Preparing(r)'
               PROVE  /\ \A q \in Procs, va \in Va : pt'[q][va].pa # k'[r].mem
                      /\ \A q \in Procs \ {r} : Preparing(q)' => k'[q].mem # k'[r].mem
    BY DEF Fresh
  <2>1. \A q \in Procs : Preparing(q)' => Preparing(q) /\ k'[q].mem = k[q].mem
    BY DEF Preparing
  <2> QED  BY <2>1 DEF MemInv, Fresh
<1> QED  BY <1>1, <1>2

LEMMA ContentKept ==
    ASSUME MemInv, NEW a \in Pages, NEW v \in Vals \cup {0, Junk},
           content' = [content EXCEPT ![a] = v] \/ content' = content
    PROVE  content' \in [Pages -> Vals \cup {0, Junk}]
  BY DEF MemInv

(* A path that is left asks for nothing. *)
LEMMA UserMem ==
    ASSUME NEW p \in Procs, k'[p].pc = "user", k'[p].op = "none"
    PROVE  Target(p)' /\ Copies(p)' /\ ~Preparing(p)' /\ k'[p].op # "shrink"
  BY DEF Target, Copies, Preparing, Faulting

LEMMA RunSizes ==
    ASSUME MemInv, \A s \in Procs : state'[s] = "run" => state[s] = "run" /\ sz'[s] >= sz[s],
           TableInv, TableInv'
    PROVE  \A s \in Procs : state'[s] = "run" => sz'[s] >= 1
<1> SUFFICES ASSUME NEW s \in Procs, state'[s] = "run" PROVE sz'[s] >= 1
  OBVIOUS
<1>1. sz[s] >= 1 /\ sz'[s] >= sz[s] /\ sz[s] \in 0..MaxSz /\ sz'[s] \in 0..MaxSz /\ MaxSz \in Nat
  BY CowAssumption DEF MemInv, Sizes, TableInv, CowTypeOK, CowAssumption
<1> QED  BY <1>1

-----------------------------------------------------------------------------
(* What a step does to the images.                                         *)

Eff(p) == sz[p] - (IF k[p].op = "shrink" THEN 1 ELSE 0)

View(p, va) ==
    [kind |-> Kind(pt[p][va]), val |-> IF Mapped(pt[p][va]) THEN content[pt[p][va].pa] ELSE 0]

Images == [p \in Procs |-> Image(p)]

LEMMA ImageViews ==
    ASSUME NEW p \in Procs
    PROVE  Image(p) = IF Running(p) THEN [va \in 1..Eff(p) |-> View(p, va)] ELSE <<>>
  BY DEF Image, Eff, View

(* One that keeps what the user of q sees, keeps its image. *)
LEMMA ImageSame ==
    ASSUME NEW q \in Procs, Running(q)' <=> Running(q),
           Running(q) => Eff(q)' = Eff(q) /\ \A va \in 1..Eff(q) : View(q, va)' = View(q, va)
    PROVE  Image(q)' = Image(q)
<1>1. CASE ~Running(q)
  BY <1>1 DEF Image
<1>2. CASE Running(q)
  <2>1. Image(q)' = [va \in 1..Eff(q)' |-> View(q, va)']
    BY <1>2 DEF Image, Eff, View
  <2>2. Image(q) = [va \in 1..Eff(q) |-> View(q, va)]
    BY <1>2, ImageViews
  <2>3. [va \in 1..Eff(q)' |-> View(q, va)'] = [va \in 1..Eff(q) |-> View(q, va)]
    BY <1>2
  <2> QED  BY <2>1, <2>2, <2>3
<1> QED  BY <1>1, <1>2

LEMMA EffIn ==
    ASSUME CowAssumption, TableInv, MemInv, NEW q \in Procs
    PROVE  Running(q) => /\ Eff(q) \in 1..MaxSz /\ Eff(q) <= sz[q] /\ sz[q] \in 1..MaxSz
                         /\ 1..Eff(q) \subseteq Va
<1>1. sz[q] \in 0..MaxSz /\ MaxSz \in Nat /\ Sizes(q)
  BY DEF TableInv, CowTypeOK, MemInv, CowAssumption
<1> QED  BY <1>1 DEF Sizes, Running, Eff, Va

(* A step that touches only the content of page a, which q does not see,   *)
(* and page tables that q does not see.                                    *)
LEMMA ImageKept ==
    ASSUME CowAssumption, TableInv, MemInv, NEW q \in Procs, Running(q)' <=> Running(q),
           NEW a \in Pages, NEW v, content' = content \/ content' = [content EXCEPT ![a] = v],
           Running(q) =>
             /\ Eff(q)' = Eff(q)
             /\ \A va \in Va : va <= Eff(q) =>
                  /\ pt'[q][va] = pt[q][va]
                  /\ content' = content \/ pt[q][va].pa # a
    PROVE  Image(q)' = Image(q)
<1>1. ASSUME Running(q), NEW va \in 1..Eff(q) PROVE View(q, va)' = View(q, va)
  <2>0. Eff(q) \in 1..MaxSz /\ MaxSz \in Nat /\ 1..Eff(q) \subseteq Va
    BY <1>1, EffIn DEF CowAssumption
  <2>a. va \in Va /\ va <= Eff(q)
    BY <1>1, <2>0
  <2>1. va \in Va /\ va <= Eff(q) /\ pt[q][va] \in Pte
    BY <2>a DEF TableInv, CowTypeOK
  <2>2. Mapped(pt[q][va]) => content'[pt[q][va].pa] = content[pt[q][va].pa]
    BY <1>1, <2>1 DEF Mapped, Pte, MemInv
  <2> QED  BY <1>1, <2>1, <2>2 DEF View
<1> QED  BY <1>1, ImageSame

(* The steps of ForkMemory. *)

MemoryStep == [Memory!Next]_Images

LEMMA Stutters ==
    ASSUME \A q \in Procs : Image(q)' = Image(q)
    PROVE  MemoryStep
  BY DEF MemoryStep, Images

LEMMA Exits ==
    ASSUME NEW p \in Procs, ~Running(p)', \A q \in Procs \ {p} : Image(q)' = Image(q)
    PROVE  MemoryStep
<1>1. Images' = [Images EXCEPT ![p] = <<>>]
  BY DEF Images, Image
<1>2. Memory!Exit(p)
  BY <1>1 DEF Memory!Exit, Images
<1> QED  BY <1>2 DEF MemoryStep, Memory!Next

LEMMA Forks ==
    ASSUME NEW p \in Procs, NEW q \in Procs, ~Running(q), Image(q)' = Image(p),
           \A r \in Procs \ {q} : Image(r)' = Image(r)
    PROVE  MemoryStep
<1>1. Images' = [Images EXCEPT ![q] = Images[p]]
  BY DEF Images
<1>3. Image(q) = <<>>
  BY DEF Image
<1>2. Memory!Fork(p, q)
  BY <1>1, <1>3 DEF Memory!Fork, Images
<1> QED  BY <1>2 DEF MemoryStep, Memory!Next

LEMMA Stores ==
    ASSUME CowAssumption, TableInv, MemInv, NEW p \in Procs, Running(p), Running(p)',
           NEW i \in Va, i <= Eff(p), Kind(pt[p][i]) = "data", NEW v \in Vals,
           Eff(p)' = Eff(p), View(p, i)' = [View(p, i) EXCEPT !.val = v],
           \A va \in Va : va # i /\ va <= Eff(p) => View(p, va)' = View(p, va),
           \A q \in Procs \ {p} : Image(q)' = Image(q)
    PROVE  MemoryStep
<1>1. Eff(p) \in 1..MaxSz /\ MaxSz \in Nat /\ i \in 1..Eff(p) /\ i \in 1..MaxSz /\ 1..Eff(p) \subseteq Va
  BY EffIn DEF Va, CowAssumption
<1>2. Image(p) = [va \in 1..Eff(p) |-> View(p, va)]
  BY ImageViews
<1>3. Image(p)' = [va \in 1..Eff(p) |-> View(p, va)']
  <2>1. Image(p)' = [va \in 1..Eff(p)' |-> View(p, va)']
    BY DEF Image, Eff, View
  <2> QED  BY <2>1
<1>4. Image(p)' = [Image(p) EXCEPT ![i].val = v]
  <2>1. \A va \in 1..Eff(p) : va # i => View(p, va)' = View(p, va)
    BY <1>1
  <2> QED  BY <1>1, <1>2, <1>3, <2>1
<1>5. Len(Image(p)) = Eff(p) /\ Image(p)[i].kind = "data"
  BY <1>1, <1>2 DEF View
<1>6. Images' = [Images EXCEPT ![p][i].val = v]
  BY <1>4 DEF Images
<1>7. Memory!Store(p, i, v)
  BY <1>1, <1>5, <1>6 DEF Memory!Store, Images
<1> QED  BY <1>1, <1>7 DEF MemoryStep, Memory!Next

LEMMA Grows ==
    ASSUME CowAssumption, TableInv, MemInv, NEW p \in Procs, Running(p), Running(p)',
           NEW n \in Va, Eff(p)' = n, Eff(p) = n - 1,
           View(p, n)' = Memory!Zero("data"),
           \A va \in Va : va <= Eff(p) => View(p, va)' = View(p, va),
           \A q \in Procs \ {p} : Image(q)' = Image(q)
    PROVE  MemoryStep
<1>1. Eff(p) \in 1..MaxSz /\ MaxSz \in Nat /\ n \in 2..MaxSz
  BY EffIn DEF Va, CowAssumption
<1>2. Image(p) = [va \in 1..(n - 1) |-> View(p, va)]
  BY ImageViews
<1>3. Image(p)' = [va \in 1..n |-> View(p, va)']
  <2>1. Image(p)' = [va \in 1..Eff(p)' |-> View(p, va)']
    BY DEF Image, Eff, View
  <2> QED  BY <2>1
<1>4. Len(Image(p)) = n - 1 /\ Image(p) \in Seq({View(p, va) : va \in 1..(n - 1)})
  BY <1>1, <1>2
<1>5. Append(Image(p), Memory!Zero("data")) =
        [va \in 1..n |-> IF va = n THEN Memory!Zero("data") ELSE View(p, va)]
  BY <1>1, <1>2, <1>4
<1>6. Image(p)' = Append(Image(p), Memory!Zero("data"))
  <2>1. ASSUME NEW va \in 1..n
        PROVE  View(p, va)' = IF va = n THEN Memory!Zero("data") ELSE View(p, va)
    <3>1. CASE va = n
      BY <3>1
    <3>2. CASE va # n
      <4>1. va \in Va /\ va <= Eff(p)
        BY <1>1, <3>2 DEF Va
      <4> QED  BY <3>2, <4>1
    <3> QED  BY <3>1, <3>2
  <2> QED  BY <1>3, <1>5, <2>1
<1>7. Images' = [Images EXCEPT ![p] = Append(@, Memory!Zero("data"))]
  BY <1>6 DEF Images
<1>8. Memory!Grow(p)
  BY <1>1, <1>4, <1>7 DEF Memory!Grow, Images
<1> QED  BY <1>8 DEF MemoryStep, Memory!Next

LEMMA Shrinks ==
    ASSUME CowAssumption, TableInv, MemInv, NEW p \in Procs, Running(p), Running(p)',
           Eff(p) > 1, Eff(p)' = Eff(p) - 1,
           \A va \in Va : va < Eff(p) => View(p, va)' = View(p, va),
           \A q \in Procs \ {p} : Image(q)' = Image(q)
    PROVE  MemoryStep
<1>1. Eff(p) \in 1..MaxSz /\ MaxSz \in Nat /\ 1..Eff(p) \subseteq Va
  BY EffIn DEF Va, CowAssumption
<1>n. PICK n \in 1..MaxSz : n = Eff(p)
  BY <1>1
<1>2. Image(p) = [va \in 1..n |-> View(p, va)]
  BY <1>n, ImageViews
<1>3. Image(p)' = [va \in 1..(n - 1) |-> View(p, va)]
  <2>1. Image(p)' = [va \in 1..Eff(p)' |-> View(p, va)']
    BY DEF Image, Eff, View
  <2>2. \A va \in 1..(n - 1) : View(p, va)' = View(p, va)
    BY <1>1, <1>n DEF Va
  <2> QED  BY <1>n, <2>1, <2>2
<1>4. Len(Image(p)) = n /\ SubSeq(Image(p), 1, n - 1) = [va \in 1..(n - 1) |-> View(p, va)]
  BY <1>1, <1>2, <1>n
<1>5. Images' = [Images EXCEPT ![p] = SubSeq(@, 1, Len(@) - 1)]
  BY <1>3, <1>4 DEF Images
<1>6. Memory!Shrink(p)
  BY <1>n, <1>4, <1>5 DEF Memory!Shrink, Images
<1> QED  BY <1>6 DEF MemoryStep, Memory!Next

-----------------------------------------------------------------------------
(* The steps.  One that changes no page table and writes at most to a page *)
(* that nobody has mapped is not seen by anybody.                          *)

LEMMA MemQuiet ==
    ASSUME CowAssumption, TableInv, TableInv', MemInv, NEW p \in Procs, state[p] = "run",
           \A q \in Procs \ {p} : k'[q] = k[q],
           UNCHANGED pt,
           NEW a \in Pages, NEW v \in Vals \cup {0, Junk},
           content' = content \/ content' = [content EXCEPT ![a] = v],
           content' = content \/ \A q \in Procs, va \in Va : pt[q][va].pa # a,
           \A s \in Procs : s # p /\ s # k[p].tgt => sz'[s] = sz[s],
           \A s \in Procs : state'[s] = "run" <=> state[s] = "run",
           \A s \in Procs : state[s] = "run" => Eff(s)' = Eff(s) /\ sz'[s] >= 1,
           Fresh', Target(p)', Copies(p)',
           k'[p].op = "shrink" => k[p].op = "shrink" /\ sz' = sz
    PROVE  MemInv' /\ MemoryStep
<1>1. MemInv'
  <2>1. Sole' /\ UserPages'
    BY DEF MemInv, Sole, UserPages
  <2>2. content' \in [Pages -> Vals \cup {0, Junk}]
    BY DEF MemInv
  <2>3. k'[p].op = "shrink" => sz'[p] >= 2
    BY DEF MemInv, Sizes
  <2>4. \A s \in Procs : state'[s] = "run" => sz'[s] >= 1
    OBVIOUS
  <2> QED  BY <2>1, <2>2, <2>3, <2>4, MemKept
<1>2. ASSUME NEW q \in Procs PROVE Image(q)' = Image(q)
  <2>1. Running(q)' <=> Running(q)
    BY DEF Running
  <2>2. Running(q) => Eff(q)' = Eff(q)
    BY DEF Running
  <2> QED  BY <2>1, <2>2, ImageKept
<1> QED  BY <1>1, <1>2, Stutters

(* The same of one that changes only the path, *)
LEMMA MemPath ==
    ASSUME CowAssumption, TableInv, TableInv', MemInv, NEW p \in Procs, state[p] = "run",
           \A q \in Procs \ {p} : k'[q] = k[q],
           UNCHANGED <<pt, content, sz>>,
           \A s \in Procs : state'[s] = "run" <=> state[s] = "run",
           Fresh', Target(p)', Copies(p)',
           k'[p].op = "shrink" <=> k[p].op = "shrink"
    PROVE  MemInv' /\ MemoryStep
<1>1. \A s \in Procs : state[s] = "run" => Eff(s)' = Eff(s) /\ sz'[s] >= 1
  <2> SUFFICES ASSUME NEW s \in Procs, state[s] = "run" PROVE Eff(s)' = Eff(s) /\ sz'[s] >= 1
    OBVIOUS
  <2>1. sz[s] >= 1
    BY DEF MemInv, Sizes
  <2>2. Eff(s)' = Eff(s)
    BY DEF Eff
  <2> QED  BY <2>1, <2>2
<1>2. PICK a : a \in Pages
  BY FS_EmptySet DEF CowAssumption
<1>3. PICK v \in Vals \cup {0, Junk} : v = 0
  OBVIOUS
<1> QED  BY <1>1, <1>2, <1>3, MemQuiet

(* of one that leaves the kernel, *)
LEMMA MemReturn ==
    ASSUME CowAssumption, TableInv, TableInv', MemInv, NEW p \in Procs, state[p] = "run", Return(p),
           UNCHANGED <<pt, sz, state>>, k[p].op # "shrink",
           NEW a \in Pages, NEW v \in Vals \cup {0, Junk},
           content' = content \/ content' = [content EXCEPT ![a] = v],
           content' = content \/ \A q \in Procs, va \in Va : pt[q][va].pa # a
    PROVE  MemInv' /\ MemoryStep
<1>1. (\A q \in Procs \ {p} : k'[q] = k[q]) /\ k'[p].pc = "user" /\ k'[p].op = "none"
  BY DEF Return, TableInv, CowTypeOK, User
<1>2. Target(p)' /\ Copies(p)' /\ ~Preparing(p)' /\ k'[p].op # "shrink"
  BY <1>1, UserMem
<1>3. Fresh'
  BY <1>1, <1>2, TablesKept
<1>4. \A s \in Procs : state[s] = "run" => Eff(s)' = Eff(s) /\ sz'[s] >= 1
  <2> SUFFICES ASSUME NEW s \in Procs, state[s] = "run" PROVE Eff(s)' = Eff(s) /\ sz'[s] >= 1
    OBVIOUS
  <2>1. sz[s] >= 1
    BY DEF MemInv, Sizes
  <2>2. Eff(s)' = Eff(s)
    BY <1>1 DEF Eff
  <2> QED  BY <2>1, <2>2
<1> QED  BY <1>1, <1>2, <1>3, <1>4, MemQuiet

(* or of the end of a process, which is all there is to see. *)
LEMMA MemDie ==
    ASSUME CowAssumption, TableInv, TableInv', MemInv, NEW p \in Procs, state[p] = "run", Die(p),
           UNCHANGED <<pt, sz>>,
           NEW a \in Pages, NEW v \in Vals \cup {0, Junk},
           content' = content \/ content' = [content EXCEPT ![a] = v],
           content' = content \/ \A q \in Procs, va \in Va : pt[q][va].pa # a
    PROVE  MemInv' /\ MemoryStep
<1>1. (\A q \in Procs \ {p} : k'[q] = k[q]) /\ k'[p].pc = "user" /\ k'[p].op = "none"
  BY DEF Die, Return, TableInv, CowTypeOK, User
<1>2. Target(p)' /\ Copies(p)' /\ ~Preparing(p)' /\ k'[p].op # "shrink"
  BY <1>1, UserMem
<1>3. Sole' /\ Fresh' /\ UserPages'
  BY <1>1, <1>2, TablesKept
<1>4. state'[p] = "zombie" /\ \A s \in Procs \ {p} : state'[s] = state[s]
  BY DEF Die, TableInv, CowTypeOK
<1>5. content' \in [Pages -> Vals \cup {0, Junk}]
  BY DEF MemInv
<1>6. \A s \in Procs : state'[s] = "run" => sz'[s] >= 1
  BY <1>4 DEF MemInv, Sizes
<1>7. MemInv'
  BY <1>1, <1>2, <1>3, <1>5, <1>6, MemKept
<1>8. ASSUME NEW q \in Procs \ {p} PROVE Image(q)' = Image(q)
  <2>1. Running(q)' <=> Running(q)
    BY <1>4 DEF Running
  <2>2. Eff(q)' = Eff(q)
    BY <1>1 DEF Eff
  <2> QED  BY <2>1, <2>2, ImageKept
<1>9. ~Running(p)'
  BY <1>4 DEF Running
<1> QED  BY <1>7, <1>8, <1>9, Exits

LEMMA MemFailed ==
    ASSUME CowAssumption, TableInv, TableInv', MemInv, NEW p \in Procs, state[p] = "run", Failed(p),
           UNCHANGED <<pt, sz>>, k[p].op # "shrink",
           NEW a \in Pages, NEW v \in Vals \cup {0, Junk},
           content' = content \/ content' = [content EXCEPT ![a] = v],
           content' = content \/ \A q \in Procs, va \in Va : pt[q][va].pa # a
    PROVE  MemInv' /\ MemoryStep
<1>1. CASE k[p].op \in {"store", "load"}
  <2>1. Die(p)
    BY <1>1 DEF Failed
  <2> QED  BY <2>1, MemDie
<1>2. CASE k[p].op \notin {"store", "load"}
  <2>1. Return(p) /\ UNCHANGED state
    BY <1>2 DEF Failed
  <2> QED  BY <2>1, MemReturn
<1> QED  BY <1>1, <1>2

(* A store to a page that p may write to, which nobody else has. *)
LEMMA MemStore ==
    ASSUME CowAssumption, TableInv, TableInv', MemInv, NEW p \in Procs, state[p] = "run",
           \A q \in Procs \ {p} : k'[q] = k[q],
           UNCHANGED <<pt, sz, state>>,
           NEW i \in Va, i <= sz[p], Mapped(pt[p][i]), pt[p][i].w, NEW v \in Vals,
           content' = [content EXCEPT ![pt[p][i].pa] = v],
           k[p].op # "shrink", k'[p].op # "shrink", k'[p].pc \in {"user", "unmap"},
           k'[p].op \in {"none", "reap"}
    PROVE  MemInv' /\ MemoryStep
<1>1. pt[p][i] \in Pte /\ pt[p][i].pa \in Pages
  BY DEF TableInv, CowTypeOK, Pte, Mapped
<1>2. ~Preparing(p)' /\ Target(p)' /\ Copies(p)'
  BY DEF Preparing, Target, Copies, Faulting
<1>3. Sole' /\ Fresh' /\ UserPages'
  BY <1>2, TablesKept
<1>4. content' \in [Pages -> Vals \cup {0, Junk}]
  BY <1>1, ContentKept
<1>5. \A s \in Procs : state'[s] = "run" => sz'[s] >= 1
  BY DEF MemInv, Sizes
<1>6. MemInv'
  BY <1>2, <1>3, <1>4, <1>5, MemKept
<1>7. \A q \in Procs, va \in Va : pt[q][va].pa = pt[p][i].pa => q = p /\ va = i
  BY DEF MemInv, Sole
<1>8. Running(p) /\ Running(p)' /\ Eff(p)' = Eff(p) /\ Eff(p) = sz[p]
  BY DEF Running, Eff, TableInv, CowTypeOK
<1>9. ASSUME NEW q \in Procs \ {p} PROVE Image(q)' = Image(q)
  <2>1. Running(q)' <=> Running(q)
    BY DEF Running
  <2>2. Eff(q)' = Eff(q)
    BY DEF Eff
  <2>3. \A va \in Va : pt'[q][va] = pt[q][va] /\ pt[q][va].pa # pt[p][i].pa
    BY <1>7
  <2> QED  BY <1>1, <2>1, <2>2, <2>3, ImageKept
<1>10. Kind(pt[p][i]) = "data"
  <2>1. pt[p][i].u
    BY DEF MemInv, UserPages
  <2> QED  BY <1>1, <2>1 DEF Kind
<1>11. View(p, i)' = [View(p, i) EXCEPT !.val = v]
  BY <1>1 DEF View, MemInv
<1>12. ASSUME NEW va \in Va, va # i PROVE View(p, va)' = View(p, va)
  <2>1. pt[p][va] \in Pte
    BY DEF TableInv, CowTypeOK
  <2>2. Mapped(pt[p][va]) => pt[p][va].pa \in Pages /\ pt[p][va].pa # pt[p][i].pa
    BY <1>7, <1>12, <2>1 DEF Pte, Mapped
  <2>3. Mapped(pt[p][va]) => content'[pt[p][va].pa] = content[pt[p][va].pa]
    BY <2>2 DEF MemInv
  <2> QED  BY <2>3 DEF View
<1> QED  BY <1>6, <1>8, <1>9, <1>10, <1>11, <1>12, Stores

(* A fault is served on a page that is mapped already, or was past the end. *)
LEMMA ResolvedMem ==
    ASSUME TableInv, NEW p \in Procs, k[p].op \in Faulting, Resolved(p),
           k[p].op \in {"copyout", "wait"} => k[p].val \in Vals /\ pt'[p][k[p].va].w
    PROVE  /\ k'[p].op # "shrink" /\ ~Preparing(p)' /\ Target(p)' /\ Copies(p)'
           /\ \A q \in Procs \ {p} : k'[q] = k[q]
<1>1. k \in [Procs -> Path] /\ k[p] \in Path
  BY DEF TableInv, CowTypeOK
<1>2. CASE k[p].op \in {"copyout", "wait"}
  <2>1. k' = [k EXCEPT ![p].pc = "write"]
    BY <1>2 DEF Resolved
  <2>2. k'[p].pc = "write" /\ k'[p].op = k[p].op /\ k'[p].va = k[p].va /\ k'[p].val = k[p].val
    BY <1>1, <2>1 DEF Path
  <2>3. \A q \in Procs \ {p} : k'[q] = k[q]
    BY <1>1, <2>1
  <2> QED  BY <1>2, <2>2, <2>3 DEF Preparing, Target, Copies
<1>3. CASE k[p].op \notin {"copyout", "wait"}
  <2>1. Return(p)
    BY <1>3 DEF Resolved
  <2>2. k'[p].pc = "user" /\ k'[p].op = "none" /\ \A q \in Procs \ {p} : k'[q] = k[q]
    BY <1>1, <2>1 DEF Return, User
  <2> QED  BY <2>2, UserMem
<1> QED  BY <1>2, <1>3

(* uvmunmap clears an entry that the user does not see: of a page table    *)
(* that is not running, or of the page that sbrk gives up.                 *)
LEMMA MemClear ==
    ASSUME CowAssumption, TableInv, TableInv', MemInv, NEW p \in Procs,
           k[p].pc \in {"drop", "push"}, k[p].op \in Unmapping, Freed(p),
           NEW a \in Pages, NEW v \in Vals \cup {0, Junk},
           content' = content \/ content' = [content EXCEPT ![a] = v],
           content' = content \/ \A q \in Procs, va \in Va :
                                   pt[q][va].pa = a => q = k[p].tgt /\ va = k[p].va
    PROVE  MemInv' /\ MemoryStep
<1>i. PICK i \in Va : i = k[p].va
  BY DropEntry
<1>q. PICK q \in Procs : q = k[p].tgt
  BY DropEntry
<1>1. /\ Busy(p) /\ state[p] = "run" /\ k[p] \in Path /\ k \in [Procs -> Path]
      /\ pt \in [Procs -> [Va -> Pte]] /\ PathOwns(p) /\ PathTable(p)
  BY DropEntry, Inside
<1>2. /\ pt' = [pt EXCEPT ![q][i] = None]
      /\ k' = [k EXCEPT ![p].pc = "unmap", ![p].old = NoPage]
      /\ UNCHANGED <<sz, state>>
  BY <1>i, <1>q DEF Freed
<1>3. /\ k'[p].pc = "unmap" /\ k'[p].op = k[p].op
      /\ \A r \in Procs \ {p} : k'[r] = k[r]
  BY <1>1, <1>2 DEF Path
<1>4. /\ pt'[q][i] = None /\ ~Mapped(None)
      /\ \A r \in Procs, va \in Va : <<r, va>> # <<q, i>> => pt'[r][va] = pt[r][va]
      /\ \A r \in Procs \ {q} : pt'[r] = pt[r]
  BY <1>1, <1>2 DEF None, Mapped
<1>5. Sole'
  <2> SUFFICES ASSUME NEW r \in Procs, NEW s \in Procs, NEW va \in Va, NEW vb \in Va,
                      Mapped(pt'[r][va]), pt'[r][va].w, pt'[s][vb].pa = pt'[r][va].pa
               PROVE  r = s /\ va = vb
    BY DEF Sole
  <2>1. pt'[r][va] = pt[r][va] /\ pt'[s][vb] = pt[s][vb]
    BY <1>4 DEF Mapped
  <2> QED  BY <2>1 DEF MemInv, Sole
<1>6. ~Preparing(p)' /\ Target(p)' /\ Copies(p)'
  <2>1. k'[p].op \notin {"copyout", "wait"}
    BY <1>3 DEF Unmapping
  <2> QED  BY <1>3, <2>1 DEF Preparing, Target, Copies
<1>7. Fresh'
  <2> SUFFICES ASSUME NEW r \in Procs, Preparing(r)'
               PROVE  /\ \A s \in Procs, va \in Va : pt'[s][va].pa # k'[r].mem
                      /\ \A s \in Procs \ {r} : Preparing(s)' => k'[s].mem # k'[r].mem
    BY DEF Fresh
  <2>1. \A s \in Procs : Preparing(s)' => Preparing(s) /\ k'[s] = k[s]
    BY <1>3, <1>6 DEF Preparing
  <2>2. k[r].mem \in Pages
    BY <2>1 DEF TableInv, PathShape, Preparing
  <2>3. k[r].mem # NoPage
    BY <2>2 DEF CowAssumption
  <2>4. ASSUME NEW s \in Procs, NEW va \in Va PROVE pt'[s][va].pa # k[r].mem
    <3>1. CASE <<s, va>> = <<q, i>>
      BY <1>4, <2>3, <3>1 DEF None
    <3>2. CASE <<s, va>> # <<q, i>>
      BY <1>4, <2>1, <3>2 DEF MemInv, Fresh
    <3> QED  BY <3>1, <3>2
  <2> QED  BY <2>1, <2>4 DEF MemInv, Fresh
<1>8. UserPages'
  <2> SUFFICES ASSUME NEW r \in Procs, NEW va \in Va
               PROVE  /\ Mapped(pt'[r][va]) => pt'[r][va].u
                      /\ pt'[r][va].w => Mapped(pt'[r][va])
    BY DEF UserPages
  <2>1. CASE pt'[r][va] = pt[r][va]
    BY <2>1 DEF MemInv, UserPages
  <2>2. CASE pt'[r][va] = None
    BY <1>4, <2>2 DEF None
  <2> QED  BY <1>4, <2>1, <2>2
<1>9. content' \in [Pages -> Vals \cup {0, Junk}]
  BY DEF MemInv
<1>10. \A s \in Procs : state'[s] = "run" => sz'[s] >= 1
  BY <1>2 DEF MemInv, Sizes
<1>11. k'[p].op = "shrink" => sz'[p] >= 2
  BY <1>2, <1>3 DEF MemInv, Sizes
<1>12. MemInv'
  <2>1. \A s \in Procs : s # p /\ s # k[p].tgt => pt'[s] = pt[s] /\ sz'[s] = sz[s]
    BY <1>q, <1>2, <1>4
  <2> QED  BY <1>1, <1>3, <1>5, <1>6, <1>7, <1>8, <1>9, <1>10, <1>11, <2>1, MemKept
<1>13. ~Running(q) \/ (q = p /\ k[p].op = "shrink" /\ i = sz[p])
  BY <1>i, <1>q, <1>1 DEF PathOwns, PathTable, Running, Unmapping
<1>14. ASSUME NEW r \in Procs PROVE Image(r)' = Image(r)
  <2>1. Running(r)' <=> Running(r)
    BY <1>2 DEF Running
  <2>2. Eff(r)' = Eff(r)
    <3>1. k'[r].op = k[r].op
      BY <1>3
    <3> QED  BY <1>2, <3>1 DEF Eff
  <2>3. ASSUME Running(r), NEW va \in Va, va <= Eff(r) PROVE <<r, va>> # <<q, i>>
    <3>1. CASE r # q
      BY <3>1
    <3>2. CASE r = q
      <4>1. r = p /\ k[p].op = "shrink" /\ i = sz[p]
        BY <1>13, <2>3, <3>2
      <4>2. sz[p] \in Nat /\ Eff(r) = sz[p] - 1
        BY <4>1 DEF Eff, TableInv, CowTypeOK, CowAssumption
      <4> QED  BY <2>3, <4>1, <4>2 DEF Va
    <3> QED  BY <3>1, <3>2
  <2>4. Running(r) =>
          /\ Eff(r)' = Eff(r)
          /\ \A va \in Va : va <= Eff(r) =>
               /\ pt'[r][va] = pt[r][va]
               /\ content' = content \/ pt[r][va].pa # a
    BY <1>i, <1>q, <1>4, <2>2, <2>3
  <2> QED  BY <2>1, <2>4, ImageKept
<1> QED  BY <1>12, <1>14, Stutters

(* kfree has returned to vmfault. *)
LEMMA MemFreedFault ==
    ASSUME CowAssumption, TableInv, TableInv', MemInv, NEW p \in Procs,
           k[p].pc \in {"drop", "push"}, k[p].op \notin Unmapping, Freed(p),
           NEW a \in Pages, NEW v \in Vals \cup {0, Junk},
           content' = content \/ content' = [content EXCEPT ![a] = v],
           content' = content \/ \A q \in Procs, va \in Va : pt[q][va].pa # a
    PROVE  MemInv' /\ MemoryStep
<1>1. /\ Busy(p) /\ state[p] = "run" /\ k[p] \in Path /\ k \in [Procs -> Path]
      /\ pt \in [Procs -> [Va -> Pte]] /\ PathShape(p) /\ PathTable(p) /\ Extent(p) /\ k[p].va \in Va
  BY DropEntry, Inside
<1>2. k[p].op \in Faulting /\ UNCHANGED pt /\ k[p].op # "shrink"
  BY <1>1 DEF PathShape, Freed, Faulting, Unmapping
<1>3. CASE ~Mapped(pt[p][k[p].va])
  <2>1. Failed(p) /\ UNCHANGED sz
    BY <1>3 DEF Freed
  <2> QED  BY <1>1, <1>2, <2>1, MemFailed
<1>4. CASE Mapped(pt[p][k[p].va])
  <2>1. Resolved(p) /\ UNCHANGED state
    BY <1>4 DEF Freed
  <2>2. k[p].op # "grow"
    <3> SUFFICES ASSUME k[p].op = "grow" PROVE FALSE
      OBVIOUS
    <3>1. k[p].va = sz[p] + 1
      BY <1>1 DEF PathTable
    <3>2. sz[p] \in Nat
      BY DEF TableInv, CowTypeOK, CowAssumption
    <3>3. k[p].va \in 1..sz[p]
      BY <1>1, <1>4 DEF Extent, MappedIn
    <3> QED  BY <3>1, <3>2, <3>3
  <2>3. UNCHANGED sz
    BY <2>1, <2>2 DEF Resolved
  <2>4. Target(p)
    BY DEF MemInv
  <2>5. k[p].op \in {"copyout", "wait"} => k[p].val \in Vals /\ pt'[p][k[p].va].w
    BY <1>2, <1>4, <2>4 DEF Target
  <2>6. /\ k'[p].op # "shrink" /\ ~Preparing(p)' /\ Target(p)' /\ Copies(p)'
        /\ \A q \in Procs \ {p} : k'[q] = k[q]
    BY <1>2, <2>1, <2>5, ResolvedMem
  <2>7. Fresh'
    BY <1>2, <2>6, TablesKept
  <2>8. \A s \in Procs : state[s] = "run" => Eff(s)' = Eff(s) /\ sz'[s] >= 1
    <3> SUFFICES ASSUME NEW s \in Procs, state[s] = "run" PROVE Eff(s)' = Eff(s) /\ sz'[s] >= 1
      OBVIOUS
    <3>1. sz[s] >= 1
      BY DEF MemInv, Sizes
    <3>2. Eff(s)' = Eff(s)
      <4>1. CASE s = p  BY <1>2, <2>3, <2>6, <4>1 DEF Eff
      <4>2. CASE s # p  BY <2>3, <2>6, <4>2 DEF Eff
      <4> QED  BY <4>1, <4>2
    <3> QED  BY <2>3, <3>1, <3>2
  <2> QED  BY <1>1, <1>2, <2>1, <2>3, <2>6, <2>7, <2>8, MemQuiet
<1> QED  BY <1>3, <1>4

LEMMA MemDrop ==
    ASSUME CowAssumption, CowInv, CowInv', MemInv, NEW p \in Procs, Drop(p)
    PROVE  MemInv' /\ MemoryStep
<1>1. k[p].pc = "drop" /\ UNCHANGED content /\ TableInv /\ TableInv'
  BY DEF Drop, CowInv
<1>2. /\ state[p] = "run" /\ k[p] \in Path /\ k \in [Procs -> Path] /\ k[p].old \in Pages
  BY <1>1, DropEntry
<1>3. CASE Freed(p)
  <2>1. PICK a \in Pages, v \in Vals \cup {0, Junk} : a = k[p].old /\ v = 0
    BY <1>2
  <2> QED  BY <1>1, <1>3, <2>1, MemClear, MemFreedFault
<1>4. CASE k' = [k EXCEPT ![p].pc = "push"] /\ UNCHANGED <<pt, sz, state>>
  <2>1. /\ k'[p].pc = "push" /\ k'[p].op = k[p].op /\ k'[p].va = k[p].va /\ k'[p].val = k[p].val
        /\ \A q \in Procs \ {p} : k'[q] = k[q]
    BY <1>2, <1>4 DEF Path
  <2>2. Target(p)
    BY DEF MemInv
  <2>3. Target(p)' /\ Copies(p)' /\ ~Preparing(p)'
    BY <1>1, <1>4, <2>1, <2>2 DEF Target, Copies, Preparing
  <2>4. Fresh'
    BY <1>1, <1>4, <2>1, <2>3, TablesKept
  <2> QED  BY <1>1, <1>2, <1>4, <2>1, <2>3, <2>4, MemPath
<1> QED  BY <1>3, <1>4 DEF Drop

LEMMA MemPush ==
    ASSUME CowAssumption, CowInv, CowInv', MemInv, NEW p \in Procs, Push(p)
    PROVE  MemInv' /\ MemoryStep
<1>1. k[p].pc = "push" /\ Freed(p) /\ TableInv /\ TableInv'
  BY DEF Push, CowInv
<1>2. PICK a \in Pages : a = k[p].old
  BY <1>1, DropEntry
<1>3. PICK v \in Vals \cup {0, Junk} : v = Junk
  OBVIOUS
<1>4. content' = [content EXCEPT ![a] = v]
  BY <1>2, <1>3 DEF Push
<1>5. \A q \in Procs, va \in Va :
        pt[q][va].pa = a => k[p].op \in Unmapping /\ q = k[p].tgt /\ va = k[p].va
  BY <1>1, <1>2, PushUnmapped
<1>6. CASE k[p].op \in Unmapping
  <2>1. \A q \in Procs, va \in Va : pt[q][va].pa = a => q = k[p].tgt /\ va = k[p].va
    BY <1>5
  <2> QED  BY <1>1, <1>4, <1>6, <2>1, MemClear
<1>7. CASE k[p].op \notin Unmapping
  BY <1>1, <1>4, <1>5, <1>7, MemFreedFault
<1> QED  BY <1>6, <1>7

(* A page shared with the child is the same page, and what is seen of it   *)
(* is the same.                                                            *)
LEMMA MemShare ==
    ASSUME CowAssumption, TableInv, TableInv', MemInv, NEW p \in Procs, Share(p)
    PROVE  MemInv' /\ MemoryStep
<1>1. k[p].pc = "share" /\ Busy(p) /\ UNCHANGED <<freelist, count, content, sz, state>>
  BY DEF Share, Busy
<1>q. PICK q \in Procs : q = k[p].tgt
  BY <1>1, Inside DEF Path
<1>2. /\ state[p] = "run" /\ k[p] \in Path /\ k \in [Procs -> Path] /\ k[p].op = "fork"
      /\ state[q] = "used" /\ q # p /\ Copies(p)
      /\ sz[p] \in 0..MaxSz /\ MaxSz \in Nat /\ k[p].va \in 1..(MaxSz + 1)
      /\ MappedIn(q, 1..(k[p].va - 1))
  <2>1. sz[p] \in 0..MaxSz /\ MaxSz \in Nat
    BY DEF TableInv, CowTypeOK, CowAssumption
  <2>2. Copies(p)
    BY DEF MemInv
  <2> QED  BY <1>1, <1>q, <2>1, <2>2, Inside DEF PathShape, PathOwns, PathTable, Path
<1>3. PICK i \in FirstMapped(p, k[p].va, sz[p]) :
        \/ /\ pt' = [pt EXCEPT ![p][i] = Protected(pt[p][i]), ![q][i] = Protected(pt[p][i])]
           /\ k' = [k EXCEPT ![p].pc = "inc", ![p].va = i]
        \/ /\ pt' = [pt EXCEPT ![p][i] = Protected(pt[p][i])]
           /\ k' = [k EXCEPT ![p].pc = "unmap", ![p].op = "undo", ![p].va = 1, ![p].end = i - 1]
  BY <1>q DEF Share
<1>4. /\ i \in Va /\ Mapped(pt[p][i]) /\ i >= k[p].va
      /\ \A j \in Va : j >= k[p].va /\ j < i => ~Mapped(pt[p][j])
  <2>1. i \in k[p].va..sz[p] /\ Mapped(pt[p][i]) /\ \A j \in k[p].va..(i - 1) : ~Mapped(pt[p][j])
    BY <1>3 DEF FirstMapped
  <2> QED  BY <1>2, <2>1 DEF Va
<1>e. PICK e : e = Protected(pt[p][i])
  OBVIOUS
<1>5. /\ e.pa = pt[p][i].pa /\ Mapped(e) /\ ~e.w /\ e.u = pt[p][i].u /\ Kind(e) = Kind(pt[p][i])
      /\ pt \in [Procs -> [Va -> Pte]]
  <2>1. pt[p][i] \in Pte /\ pt \in [Procs -> [Va -> Pte]]
    BY <1>4 DEF TableInv, CowTypeOK
  <2>2. e.pa = pt[p][i].pa /\ ~e.w /\ e.u = pt[p][i].u /\ (e.w \/ e.cow <=> pt[p][i].w \/ pt[p][i].cow)
    BY <1>e, <2>1 DEF Protected, Pte
  <2> QED  BY <1>4, <2>1, <2>2 DEF Kind, Mapped
<1>6. /\ pt'[p][i] = e
      /\ pt'[q][i] = e \/ pt'[q][i] = pt[q][i]
      /\ \A r \in Procs, va \in Va : <<r, va>> \notin {<<p, i>>, <<q, i>>} => pt'[r][va] = pt[r][va]
      /\ \A r \in Procs \ {p, q} : pt'[r] = pt[r]
  <2>1. CASE pt' = [pt EXCEPT ![p][i] = Protected(pt[p][i]), ![q][i] = Protected(pt[p][i])]
    <3>1. pt' = [pt EXCEPT ![p] = [pt[p] EXCEPT ![i] = e], ![q] = [pt[q] EXCEPT ![i] = e]]
      BY <1>2, <1>e, <2>1
    <3> QED  BY <1>2, <1>4, <1>5, <3>1
  <2>2. CASE pt' = [pt EXCEPT ![p][i] = Protected(pt[p][i])]
    BY <1>2, <1>4, <1>5, <1>e, <2>2
  <2> QED  BY <1>3, <2>1, <2>2
<1>7. \A r \in Procs \ {p} : k'[r] = k[r]
  BY <1>2, <1>3
<1>8. ASSUME NEW r \in Procs, NEW va \in Va
      PROVE  \/ pt'[r][va] = pt[r][va]
             \/ pt'[r][va] = e /\ va = i /\ r \in {p, q}
  BY <1>6
<1>9. Sole'
  <2> SUFFICES ASSUME NEW r \in Procs, NEW s \in Procs, NEW va \in Va, NEW vb \in Va,
                      Mapped(pt'[r][va]), pt'[r][va].w, pt'[s][vb].pa = pt'[r][va].pa
               PROVE  r = s /\ va = vb
    BY DEF Sole
  <2>1. pt'[r][va] = pt[r][va]
    BY <1>5, <1>8
  <2>2. CASE pt'[s][vb] = pt[s][vb]
    BY <2>1, <2>2 DEF MemInv, Sole
  <2>3. CASE pt'[s][vb] = e
    <3>1. pt[p][i].pa = pt[r][va].pa
      BY <1>5, <2>1, <2>3
    <3>2. r = p /\ va = i
      BY <1>4, <2>1, <3>1 DEF MemInv, Sole
    <3> QED  BY <1>5, <1>6, <3>2
  <2> QED  BY <1>8, <2>2, <2>3
<1>10. k'[p].pc \in {"inc", "unmap"}
  BY <1>2, <1>3 DEF Path
<1>11. Fresh'
  <2> SUFFICES ASSUME NEW r \in Procs, Preparing(r)'
               PROVE  /\ \A s \in Procs, va \in Va : pt'[s][va].pa # k'[r].mem
                      /\ \A s \in Procs \ {r} : Preparing(s)' => k'[s].mem # k'[r].mem
    BY DEF Fresh
  <2>1. \A s \in Procs : Preparing(s)' => Preparing(s) /\ k'[s] = k[s]
    BY <1>7, <1>10 DEF Preparing
  <2>2. ASSUME NEW s \in Procs, NEW va \in Va PROVE pt'[s][va].pa # k[r].mem
    <3>1. pt[s][va].pa # k[r].mem /\ pt[p][i].pa # k[r].mem
      BY <1>4, <2>1 DEF MemInv, Fresh
    <3> QED  BY <1>5, <1>8, <3>1
  <2> QED  BY <2>1, <2>2 DEF MemInv, Fresh
<1>12. UserPages'
  <2> SUFFICES ASSUME NEW r \in Procs, NEW va \in Va
               PROVE  /\ Mapped(pt'[r][va]) => pt'[r][va].u
                      /\ pt'[r][va].w => Mapped(pt'[r][va])
    BY DEF UserPages
  <2>1. pt[p][i].u
    BY <1>4 DEF MemInv, UserPages
  <2>2. CASE pt'[r][va] = pt[r][va]
    BY <2>2 DEF MemInv, UserPages
  <2>3. CASE pt'[r][va] = e
    BY <1>5, <2>1, <2>3
  <2> QED  BY <1>8, <2>2, <2>3
<1>13. Target(p)' /\ Copies(p)' /\ k'[p].op \in {"fork", "undo"}
  <2>1. CASE /\ pt' = [pt EXCEPT ![p][i] = Protected(pt[p][i]), ![q][i] = Protected(pt[p][i])]
             /\ k' = [k EXCEPT ![p].pc = "inc", ![p].va = i]
    <3>1. k'[p].pc = "inc" /\ k'[p].op = "fork" /\ k'[p].va = i /\ k'[p].tgt = q
      BY <1>q, <1>2, <2>1 DEF Path
    <3>2. pt'[q][i] = e
      <4>1. pt' = [pt EXCEPT ![p] = [pt[p] EXCEPT ![i] = e], ![q] = [pt[q] EXCEPT ![i] = e]]
        BY <1>2, <1>e, <2>1
      <4> QED  BY <1>2, <1>4, <1>5, <4>1
    <3>3. ASSUME NEW j \in Va, j <= i
          PROVE  IF Mapped(pt'[p][j]) THEN pt'[q][j] = pt'[p][j] ELSE ~Mapped(pt'[q][j])
      <4>1. CASE j = i
        BY <1>5, <1>6, <3>2, <4>1
      <4>2. CASE j < k[p].va
        <5>1. j # i /\ Same(p, j)
          BY <1>1, <1>2, <1>4, <4>2 DEF Copies, Va
        <5>2. pt'[p][j] = pt[p][j] /\ pt'[q][j] = pt[q][j]
          BY <1>6, <5>1
        <5> QED  BY <1>q, <5>1, <5>2 DEF Same
      <4>3. CASE j >= k[p].va /\ j # i
        <5>1. j < i
          BY <3>3, <1>4, <4>3 DEF Va
        <5>2. ~Mapped(pt[p][j]) /\ ~Mapped(pt[q][j])
          BY <1>2, <1>4, <4>3, <5>1 DEF MappedIn, Va
        <5>3. pt'[p][j] = pt[p][j] /\ pt'[q][j] = pt[q][j]
          BY <1>6, <4>3
        <5> QED  BY <5>2, <5>3
      <4> QED  BY <1>2, <4>1, <4>2, <4>3 DEF Va
    <3>4. Copies(p)'
      BY <3>1, <3>3 DEF Copies, Same
    <3>5. Target(p)'
      BY <3>1 DEF Target
    <3> QED  BY <3>1, <3>4, <3>5
  <2>2. CASE /\ pt' = [pt EXCEPT ![p][i] = Protected(pt[p][i])]
             /\ k' = [k EXCEPT ![p].pc = "unmap", ![p].op = "undo", ![p].va = 1, ![p].end = i - 1]
    <3>1. k'[p].pc = "unmap" /\ k'[p].op = "undo"
      BY <1>2, <2>2 DEF Path
    <3> QED  BY <3>1 DEF Target, Copies
  <2> QED  BY <1>3, <2>1, <2>2
<1>14. MemInv'
  <2>1. \A s \in Procs : s # p /\ s # k[p].tgt => pt'[s] = pt[s] /\ sz'[s] = sz[s]
    BY <1>q, <1>1, <1>6
  <2>2. content' \in [Pages -> Vals \cup {0, Junk}] /\ \A s \in Procs : state'[s] = "run" => sz'[s] >= 1
    BY <1>1 DEF MemInv, Sizes
  <2> QED  BY <1>2, <1>7, <1>9, <1>11, <1>12, <1>13, <2>1, <2>2, MemKept
<1>15. ASSUME NEW r \in Procs PROVE Image(r)' = Image(r)
  <2>1. Running(r)' <=> Running(r)
    BY <1>1 DEF Running
  <2>2. Eff(r)' = Eff(r)
    <3>1. k'[r].op = "shrink" <=> k[r].op = "shrink"
      BY <1>2, <1>7, <1>13
    <3> QED  BY <1>1, <3>1 DEF Eff
  <2>3. ASSUME Running(r), NEW va \in 1..Eff(r) PROVE View(r, va)' = View(r, va)
    <3>1. va \in Va /\ r # q
      BY <1>2, <2>3, EffIn DEF Running
    <3>2. CASE pt'[r][va] = pt[r][va]
      BY <1>1, <3>2 DEF View
    <3>3. CASE pt'[r][va] = e /\ va = i /\ r = p
      BY <1>1, <1>4, <1>5, <3>3 DEF View
    <3> QED  BY <1>8, <3>1, <3>2, <3>3
  <2> QED  BY <2>1, <2>2, <2>3, ImageSame
<1> QED  BY <1>14, <1>15, Stutters

LEMMA MemInc ==
    ASSUME CowAssumption, TableInv, TableInv', MemInv, NEW p \in Procs, Inc(p)
    PROVE  MemInv' /\ MemoryStep
<1>1. k[p].pc = "inc" /\ Busy(p) /\ UNCHANGED <<pt, content, sz, state>>
  BY DEF Inc, Busy
<1>2. /\ state[p] = "run" /\ k[p] \in Path /\ k \in [Procs -> Path] /\ k[p].op = "fork"
      /\ k[p].va \in Nat /\ Copies(p)
  <2>1. Copies(p)
    BY DEF MemInv
  <2> QED  BY <1>1, <2>1, Inside DEF PathShape, Path, CowAssumption
<1>3. /\ k'[p].pc = "share" /\ k'[p].op = k[p].op /\ k'[p].va = k[p].va + 1 /\ k'[p].tgt = k[p].tgt
      /\ \A q \in Procs \ {p} : k'[q] = k[q]
  BY <1>2 DEF Inc, Path
<1>4. Target(p)' /\ Copies(p)' /\ ~Preparing(p)'
  <2>1. Target(p)' /\ ~Preparing(p)'
    BY <1>2, <1>3 DEF Target, Preparing
  <2>2. \A j \in Va : j < k[p].va + 1 => j <= k[p].va
    BY <1>2 DEF Va
  <2>3. Copies(p)'
    BY <1>1, <1>2, <1>3, <2>2 DEF Copies, Same
  <2> QED  BY <2>1, <2>3
<1>5. Fresh'
  BY <1>1, <1>3, <1>4, TablesKept
<1> QED  BY <1>1, <1>2, <1>3, <1>4, <1>5, MemPath

(* The child starts with the image of its parent. *)
LEMMA MemForked ==
    ASSUME CowAssumption, TableInv, TableInv', MemInv, NEW p \in Procs, Forked(p)
    PROVE  MemInv' /\ MemoryStep
<1>1. /\ k[p].pc = "share" /\ Busy(p) /\ UNCHANGED <<pt, content>> /\ Return(p)
      /\ FirstMapped(p, k[p].va, sz[p]) = {}
  BY DEF Forked, Busy
<1>q. PICK q \in Procs : q = k[p].tgt
  BY <1>1, Inside DEF Path
<1>2. /\ state[p] = "run" /\ k[p] \in Path /\ k \in [Procs -> Path] /\ k[p].op = "fork"
      /\ state[q] = "used" /\ q # p
      /\ sz \in [Procs -> 0..MaxSz] /\ MaxSz \in Nat /\ k[p].va \in 1..(MaxSz + 1)
      /\ MappedIn(q, 1..(k[p].va - 1)) /\ state \in [Procs -> {"unused", "used", "run", "zombie"}]
  <2>1. sz \in [Procs -> 0..MaxSz] /\ MaxSz \in Nat /\ state \in [Procs -> {"unused", "used", "run", "zombie"}]
    BY DEF TableInv, CowTypeOK, CowAssumption
  <2> QED  BY <1>1, <1>q, <2>1, Inside DEF PathShape, PathOwns, PathTable, Path
<1>3. /\ sz' = [sz EXCEPT ![q] = sz[p]] /\ state' = [state EXCEPT ![q] = "run"]
  BY <1>q DEF Forked
<1>4. (\A r \in Procs \ {p} : k'[r] = k[r]) /\ k'[p].pc = "user" /\ k'[p].op = "none"
  BY <1>1, <1>2 DEF Return, User
<1>5. Target(p)' /\ Copies(p)' /\ ~Preparing(p)' /\ k'[p].op # "shrink"
  BY <1>4, UserMem
<1>6. Sole' /\ Fresh' /\ UserPages'
  BY <1>1, <1>4, <1>5, TablesKept
<1>7. /\ sz'[q] = sz[p] /\ state'[q] = "run"
      /\ \A s \in Procs \ {q} : sz'[s] = sz[s] /\ state'[s] = state[s]
  BY <1>2, <1>3
<1>8. MemInv'
  <2>1. \A s \in Procs : s # p /\ s # k[p].tgt => pt'[s] = pt[s] /\ sz'[s] = sz[s]
    BY <1>q, <1>1, <1>7
  <2>2. content' \in [Pages -> Vals \cup {0, Junk}]
    BY <1>1 DEF MemInv
  <2>3. \A s \in Procs : state'[s] = "run" => sz'[s] >= 1
    BY <1>2, <1>7 DEF MemInv, Sizes
  <2> QED  BY <1>2, <1>4, <1>5, <1>6, <2>1, <2>2, <2>3, MemKept
<1>9. ASSUME NEW j \in Va, j <= sz[p] PROVE View(q, j)' = View(p, j)
  <2>1. CASE j < k[p].va
    <3>1. Same(p, j)
      BY <1>1, <2>1 DEF MemInv, Copies
    <3>2. Mapped(pt[p][j]) => pt[q][j] = pt[p][j]
      BY <1>q, <3>1 DEF Same
    <3>3. ~Mapped(pt[p][j]) => ~Mapped(pt[q][j])
      BY <1>q, <3>1 DEF Same
    <3> QED  BY <1>1, <3>2, <3>3 DEF View, Kind
  <2>2. CASE j >= k[p].va
    <3>1. sz[p] \in 0..MaxSz
      BY <1>2
    <3>2. j \in k[p].va..sz[p]
      BY <1>2, <1>9, <2>2, <3>1 DEF Va
    <3>3. ~Mapped(pt[p][j])
      BY <1>1, <1>2, <3>1, <3>2, NoneMapped
    <3>4. ~Mapped(pt[q][j])
      BY <1>2, <2>2 DEF MappedIn, Va
    <3> QED  BY <1>1, <3>3, <3>4 DEF View, Kind
  <2> QED  BY <1>2, <2>1, <2>2 DEF Va
<1>10. Image(q)' = Image(p)
  <2>1. k'[q].op # "shrink"
    <3>1. ~Busy(q) /\ PathShape(q)
      BY <1>2 DEF TableInv, PathOwns
    <3> QED  BY <1>2, <1>4, <3>1 DEF PathShape, Busy, User
  <2>2. Eff(q)' = sz[p] /\ Eff(p) = sz[p]
    <3>1. sz[p] \in Nat
      BY <1>2
    <3> QED  BY <1>2, <1>7, <2>1, <3>1 DEF Eff
  <2>3. Image(q)' = [va \in 1..Eff(q)' |-> View(q, va)']
    BY <1>7 DEF Image, Eff, View, Running
  <2>4. Image(p) = [va \in 1..Eff(p) |-> View(p, va)]
    BY <1>2, ImageViews DEF Running
  <2>5. \A va \in 1..sz[p] : View(q, va)' = View(p, va)
    BY <1>2, <1>9 DEF Va
  <2> QED  BY <2>2, <2>3, <2>4, <2>5
<1>11. ASSUME NEW r \in Procs \ {q} PROVE Image(r)' = Image(r)
  <2>1. Running(r)' <=> Running(r)
    BY <1>7 DEF Running
  <2>2. Eff(r)' = Eff(r)
    <3>1. k'[r].op = "shrink" <=> k[r].op = "shrink"
      BY <1>2, <1>4
    <3> QED  BY <1>7, <3>1 DEF Eff
  <2>3. \A va \in 1..Eff(r) : View(r, va)' = View(r, va)
    BY <1>1 DEF View
  <2> QED  BY <2>1, <2>2, <2>3, ImageSame
<1>12. ~Running(q)
  BY <1>2 DEF Running
<1> QED  BY <1>8, <1>10, <1>11, <1>12, Forks

LEMMA MemAlloc ==
    ASSUME CowAssumption, CowInv, CowInv', MemInv, NEW p \in Procs, Alloc(p)
    PROVE  MemInv' /\ MemoryStep
<1>1. k[p].pc = "alloc" /\ Busy(p) /\ UNCHANGED <<content, pt, sz>> /\ TableInv /\ TableInv'
  BY DEF Alloc, Busy, CowInv
<1>2. /\ state[p] = "run" /\ k[p] \in Path /\ k \in [Procs -> Path]
      /\ k[p].op \in Faulting /\ k[p].op # "shrink" /\ Target(p)
  <2>1. state[p] = "run" /\ k[p] \in Path /\ k \in [Procs -> Path] /\ k[p].op \in Faulting
    BY <1>1, Inside DEF PathShape
  <2> QED  BY <2>1 DEF MemInv, Faulting
<1>3. ASSUME NEW a \in freelist,
             k' = [k EXCEPT ![p].pc = "count", ![p].mem = a], UNCHANGED <<state, parent>>
      PROVE  MemInv' /\ MemoryStep
  <2>1. /\ k'[p].pc = "count" /\ k'[p].op = k[p].op /\ k'[p].va = k[p].va /\ k'[p].val = k[p].val
        /\ k'[p].mem = a /\ \A q \in Procs \ {p} : k'[q] = k[q]
    BY <1>2, <1>3 DEF Path
  <2>2. Target(p)' /\ Copies(p)'
    BY <1>1, <1>2, <2>1 DEF Target, Copies
  <2>3. Fresh'
    <3> SUFFICES ASSUME NEW r \in Procs, Preparing(r)'
                 PROVE  /\ \A q \in Procs, va \in Va : pt'[q][va].pa # k'[r].mem
                        /\ \A q \in Procs \ {r} : Preparing(q)' => k'[q].mem # k'[r].mem
      BY DEF Fresh
    <3>1. /\ \A q \in Procs, va \in Va : pt[q][va].pa # a
          /\ \A q \in Procs : Preparing(q) => k[q].mem # a
      BY FreeUnmapped
    <3>2. \A q \in Procs \ {p} : Preparing(q)' => Preparing(q) /\ k'[q].mem = k[q].mem
      BY <2>1 DEF Preparing
    <3>3. CASE r = p
      BY <1>1, <2>1, <3>1, <3>2, <3>3
    <3>4. CASE r # p
      <4>1. Preparing(r) /\ k'[r].mem = k[r].mem
        BY <3>2, <3>4
      <4>2. \A q \in Procs, va \in Va : pt[q][va].pa # k[r].mem
        BY <4>1 DEF MemInv, Fresh
      <4>3. \A q \in Procs \ {r} : Preparing(q)' => k'[q].mem # k'[r].mem
        BY <2>1, <3>1, <3>2, <4>1 DEF MemInv, Fresh
      <4> QED  BY <1>1, <4>1, <4>2, <4>3
    <3> QED  BY <3>3, <3>4
  <2> QED  BY <1>1, <1>2, <1>3, <2>1, <2>2, <2>3, MemPath
<1>4. CASE Failed(p)
  <2>1. PICK a : a \in Pages
    BY FS_EmptySet DEF CowAssumption
  <2>2. PICK v \in Vals \cup {0, Junk} : v = 0
    OBVIOUS
  <2> QED  BY <1>1, <1>2, <1>4, <2>1, <2>2, MemFailed
<1> QED  BY <1>3, <1>4 DEF Alloc

(* A page that p prepares is nobody's. *)
LEMMA PreparedFree ==
    ASSUME TableInv, MemInv, NEW p \in Procs, Preparing(p)
    PROVE  /\ state[p] = "run" /\ k[p] \in Path /\ k \in [Procs -> Path] /\ Busy(p)
           /\ k[p].op \in Faulting /\ k[p].va \in Va /\ k[p].tgt = p
           /\ k[p].mem \in Pages /\ PathTable(p) /\ Extent(p) /\ Target(p)
           /\ \A q \in Procs, va \in Va : pt[q][va].pa # k[p].mem
<1>1. Busy(p) /\ k[p].pc \in {"count", "fill"}
  BY DEF Preparing, Busy
<1>2. /\ state[p] = "run" /\ k[p] \in Path /\ k \in [Procs -> Path] /\ PathShape(p)
      /\ PathTable(p) /\ PathOwns(p) /\ Extent(p)
  BY <1>1, Inside
<1>3. k[p].op \in Faulting /\ k[p].va \in Va /\ k[p].mem \in Pages
  BY <1>1, <1>2 DEF PathShape
<1>4. k[p].tgt = p
  BY <1>1, <1>2, <1>3 DEF PathOwns, Faulting
<1> QED  BY <1>1, <1>2, <1>3, <1>4 DEF MemInv, Fresh

LEMMA MemCount ==
    ASSUME CowAssumption, TableInv, TableInv', MemInv, NEW p \in Procs, Count(p)
    PROVE  MemInv' /\ MemoryStep
<1>1. k[p].pc = "count" /\ Preparing(p) /\ UNCHANGED <<freelist, pt, sz, state>>
  BY DEF Count, Preparing
<1>a. PICK a \in Pages : a = k[p].mem
  BY <1>1, PreparedFree
<1>v. PICK v \in Vals \cup {0, Junk} : v = Junk
  OBVIOUS
<1>2. content' = [content EXCEPT ![a] = v]
  BY <1>a, <1>v DEF Count
<1>3. /\ k'[p].pc = "fill" /\ k'[p].op = k[p].op /\ k'[p].va = k[p].va /\ k'[p].val = k[p].val
      /\ k'[p].mem = k[p].mem /\ \A q \in Procs \ {p} : k'[q] = k[q]
  BY <1>1, PreparedFree DEF Count, Path
<1>4. k[p].op # "shrink" /\ Target(p)
  BY <1>1, PreparedFree DEF Faulting
<1>5. Target(p)' /\ Copies(p)'
  BY <1>1, <1>3, <1>4 DEF Target, Copies
<1>6. Fresh'
  BY <1>1, <1>3, TablesKept
<1>7. \A s \in Procs : state[s] = "run" => Eff(s)' = Eff(s) /\ sz'[s] >= 1
  <2> SUFFICES ASSUME NEW s \in Procs, state[s] = "run" PROVE Eff(s)' = Eff(s) /\ sz'[s] >= 1
    OBVIOUS
  <2>1. sz[s] >= 1
    BY DEF MemInv, Sizes
  <2>2. Eff(s)' = Eff(s)
    <3>1. k'[s].op = k[s].op
      BY <1>3
    <3> QED  BY <1>1, <3>1 DEF Eff
  <2> QED  BY <1>1, <2>1, <2>2
<1>8. /\ state[p] = "run" /\ \A q \in Procs, va \in Va : pt[q][va].pa # a
  BY <1>1, <1>a, PreparedFree
<1> QED  BY <1>1, <1>2, <1>3, <1>4, <1>5, <1>6, <1>7, <1>8, MemQuiet

(* A prepared page is mapped at i: p sees there what it saw. *)
LEMMA MapPrepared ==
    ASSUME CowAssumption, TableInv, TableInv', MemInv, NEW p \in Procs, k[p].pc = "fill",
           NEW i \in Va, i = k[p].va, NEW e, e.pa = k[p].mem, e.u,
           pt'[p][i] = e, \A r \in Procs \ {p} : pt'[r] = pt[r],
           \A va \in Va : va # i => pt'[p][va] = pt[p][va],
           ~Preparing(p)', \A q \in Procs \ {p} : k'[q] = k[q]
    PROVE  Sole' /\ Fresh' /\ UserPages' /\ Mapped(e)
<1>1. Preparing(p)
  BY DEF Preparing
<1>2. /\ k[p].mem \in Pages /\ \A q \in Procs, va \in Va : pt[q][va].pa # k[p].mem
  BY <1>1, PreparedFree
<1>3. Mapped(e)
  BY <1>2 DEF Mapped, CowAssumption
<1>4. \A r \in Procs, va \in Va : pt'[r][va] = pt[r][va] \/ (r = p /\ va = i)
  OBVIOUS
<1>5. Sole'
  <2> SUFFICES ASSUME NEW r \in Procs, NEW s \in Procs, NEW va \in Va, NEW vb \in Va,
                      Mapped(pt'[r][va]), pt'[r][va].w, pt'[s][vb].pa = pt'[r][va].pa
               PROVE  r = s /\ va = vb
    BY DEF Sole
  <2>1. CASE pt'[r][va] = pt[r][va] /\ pt'[s][vb] = pt[s][vb]
    BY <2>1 DEF MemInv, Sole
  <2>2. CASE r = p /\ va = i
    BY <1>2, <1>4, <2>2
  <2>3. CASE s = p /\ vb = i
    BY <1>2, <1>4, <2>3
  <2> QED  BY <1>4, <2>1, <2>2, <2>3
<1>6. Fresh'
  <2> SUFFICES ASSUME NEW r \in Procs, Preparing(r)'
               PROVE  /\ \A s \in Procs, va \in Va : pt'[s][va].pa # k'[r].mem
                      /\ \A s \in Procs \ {r} : Preparing(s)' => k'[s].mem # k'[r].mem
    BY DEF Fresh
  <2>1. \A s \in Procs : Preparing(s)' => s # p /\ Preparing(s) /\ k'[s] = k[s]
    BY DEF Preparing
  <2>2. k[p].mem # k[r].mem
    BY <1>1, <2>1 DEF MemInv, Fresh
  <2>3. ASSUME NEW s \in Procs, NEW va \in Va PROVE pt'[s][va].pa # k[r].mem
    <3>1. pt[s][va].pa # k[r].mem
      BY <2>1 DEF MemInv, Fresh
    <3> QED  BY <1>4, <2>2, <3>1
  <2> QED  BY <2>1, <2>3 DEF MemInv, Fresh
<1>7. UserPages'
  <2> SUFFICES ASSUME NEW r \in Procs, NEW va \in Va
               PROVE  /\ Mapped(pt'[r][va]) => pt'[r][va].u
                      /\ pt'[r][va].w => Mapped(pt'[r][va])
    BY DEF UserPages
  <2>1. CASE pt'[r][va] = pt[r][va]
    BY <2>1 DEF MemInv, UserPages
  <2>2. CASE r = p /\ va = i
    BY <1>3, <2>2
  <2> QED  BY <1>4, <2>1, <2>2
<1> QED  BY <1>3, <1>4, <1>5, <1>6, <1>7

LEMMA MemCopyPage ==
    ASSUME CowAssumption, TableInv, TableInv', MemInv, NEW p \in Procs, CopyPage(p)
    PROVE  MemInv' /\ MemoryStep
<1>1. k[p].pc = "fill" /\ Preparing(p) /\ Mapped(pt[p][k[p].va]) /\ UNCHANGED <<sz, state>>
  BY DEF CopyPage, Preparing
<1>i. PICK i \in Va : i = k[p].va
  BY <1>1, PreparedFree
<1>a. PICK a \in Pages : a = k[p].mem
  BY <1>1, PreparedFree
<1>2. /\ state[p] = "run" /\ k[p] \in Path /\ k \in [Procs -> Path] /\ Busy(p)
      /\ k[p].op \in Faulting /\ k[p].op # "shrink" /\ Target(p)
      /\ \A q \in Procs, va \in Va : pt[q][va].pa # a
  BY <1>1, <1>a, PreparedFree DEF Faulting
<1>o. PICK o \in Pte : o = pt[p][i]
  BY DEF TableInv, CowTypeOK
<1>e. PICK e : e = [o EXCEPT !.pa = a, !.w = TRUE, !.cow = FALSE]
  OBVIOUS
<1>3. /\ content' = [content EXCEPT ![a] = content[o.pa]] /\ pt' = [pt EXCEPT ![p][i] = e]
      /\ k' = [k EXCEPT ![p].pc = "drop", ![p].old = o.pa, ![p].mem = NoPage]
  BY <1>i, <1>a, <1>o, <1>e DEF CopyPage
<1>4. Mapped(o) /\ o.cow /\ o.u /\ o.pa \in Pages
  BY <1>1, <1>2, <1>i, <1>o DEF Target, MemInv, UserPages, Pte, Mapped
<1>5. e.pa = a /\ e.w /\ e.u /\ ~e.cow
  BY <1>e, <1>4 DEF Pte
<1>6. /\ k'[p].pc = "drop" /\ k'[p].op = k[p].op /\ k'[p].va = i /\ k'[p].val = k[p].val
      /\ \A q \in Procs \ {p} : k'[q] = k[q]
  BY <1>i, <1>2, <1>3 DEF Path
<1>7. ~Preparing(p)'
  BY <1>6 DEF Preparing
<1>8. /\ Sole' /\ Fresh' /\ UserPages'
      /\ pt'[p][i] = e /\ Mapped(e) /\ \A r \in Procs \ {p} : pt'[r] = pt[r]
      /\ \A va \in Va : va # i => pt'[p][va] = pt[p][va]
  <2>1. k[p].pc = "fill" /\ i = k[p].va /\ e.pa = k[p].mem /\ e.u
    BY <1>1, <1>i, <1>a, <1>5
  <2>2. /\ pt'[p][i] = e /\ \A r \in Procs \ {p} : pt'[r] = pt[r]
        /\ \A va \in Va : va # i => pt'[p][va] = pt[p][va]
    BY <1>3 DEF TableInv, CowTypeOK
  <2> QED  BY <1>6, <1>7, <2>1, <2>2, MapPrepared
<1>9. Target(p)' /\ Copies(p)'
  BY <1>2, <1>5, <1>6, <1>8 DEF Target, Copies
<1>10. content[o.pa] \in Vals \cup {0, Junk} /\ content \in [Pages -> Vals \cup {0, Junk}]
  BY <1>4 DEF MemInv
<1>11. content' \in [Pages -> Vals \cup {0, Junk}]
  BY <1>3, <1>10
<1>12. MemInv'
  <2>1. \A s \in Procs : s # p /\ s # k[p].tgt => pt'[s] = pt[s] /\ sz'[s] = sz[s]
    BY <1>1, <1>8
  <2>2. \A s \in Procs : state'[s] = "run" => sz'[s] >= 1
    BY <1>1 DEF MemInv, Sizes
  <2>3. k'[p].op # "shrink"
    BY <1>2, <1>6
  <2> QED  BY <1>2, <1>6, <1>8, <1>9, <1>11, <2>1, <2>2, <2>3, MemKept
<1>13. ASSUME NEW r \in Procs PROVE Image(r)' = Image(r)
  <2>1. Running(r)' <=> Running(r)
    BY <1>1 DEF Running
  <2>2. Eff(r)' = Eff(r)
    <3>1. k'[r].op = k[r].op
      BY <1>6
    <3> QED  BY <1>1, <3>1 DEF Eff
  <2>3. ASSUME Running(r), NEW va \in 1..Eff(r) PROVE View(r, va)' = View(r, va)
    <3>1. va \in Va
      BY <2>3, EffIn
    <3>2. CASE r = p /\ va = i
      <4>1. View(p, i)' = [kind |-> "data", val |-> content[o.pa]]
        BY <1>3, <1>5, <1>8, <1>10 DEF View, Kind
      <4>2. View(p, i) = [kind |-> "data", val |-> content[o.pa]]
        BY <1>o, <1>4 DEF View, Kind
      <4> QED  BY <3>2, <4>1, <4>2
    <3>3. CASE ~(r = p /\ va = i)
      <4>1. pt'[r][va] = pt[r][va] /\ pt[r][va].pa # a /\ pt[r][va] \in Pte
        BY <1>2, <1>8, <3>1, <3>3 DEF TableInv, CowTypeOK
      <4>2. Mapped(pt[r][va]) => content'[pt[r][va].pa] = content[pt[r][va].pa]
        BY <1>3, <1>10, <4>1 DEF Mapped, Pte
      <4> QED  BY <4>1, <4>2 DEF View
    <3> QED  BY <3>2, <3>3
  <2> QED  BY <2>1, <2>2, <2>3, ImageSame
<1> QED  BY <1>12, <1>13, Stutters

(* A new page shows the zeros that a lazy one reads as, or is the one that *)
(* sbrk has asked for.                                                     *)
LEMMA MemZeroPage ==
    ASSUME CowAssumption, TableInv, TableInv', MemInv, NEW p \in Procs, ZeroPage(p)
    PROVE  MemInv' /\ MemoryStep
<1>1. k[p].pc = "fill" /\ Preparing(p) /\ ~Mapped(pt[p][k[p].va]) /\ UNCHANGED state
  BY DEF ZeroPage, Preparing
<1>i. PICK i \in Va : i = k[p].va
  BY <1>1, PreparedFree
<1>a. PICK a \in Pages : a = k[p].mem
  BY <1>1, PreparedFree
<1>2. /\ state[p] = "run" /\ k[p] \in Path /\ k \in [Procs -> Path] /\ Busy(p)
      /\ k[p].op \in Faulting /\ k[p].op # "shrink" /\ Target(p) /\ PathTable(p) /\ k[p].tgt = p
      /\ \A q \in Procs, va \in Va : pt[q][va].pa # a
  BY <1>1, <1>a, PreparedFree DEF Faulting
<1>3. content' = [content EXCEPT ![a] = 0] /\ content \in [Pages -> Vals \cup {0, Junk}]
  BY <1>a DEF ZeroPage, MemInv
<1>4. CASE /\ k' = [k EXCEPT ![p].pc = "drop", ![p].old = k[p].mem, ![p].mem = NoPage]
           /\ UNCHANGED <<pt, sz>>
  <2>1. /\ k'[p].pc = "drop" /\ k'[p].op = k[p].op /\ k'[p].va = k[p].va /\ k'[p].val = k[p].val
        /\ \A q \in Procs \ {p} : k'[q] = k[q]
    BY <1>2, <1>4 DEF Path
  <2>2. Target(p)' /\ Copies(p)' /\ ~Preparing(p)'
    BY <1>1, <1>2, <1>4, <2>1 DEF Target, Copies, Preparing
  <2>3. Fresh'
    BY <1>4, <2>1, <2>2, TablesKept
  <2>4. \A s \in Procs : state[s] = "run" => Eff(s)' = Eff(s) /\ sz'[s] >= 1
    <3> SUFFICES ASSUME NEW s \in Procs, state[s] = "run" PROVE Eff(s)' = Eff(s) /\ sz'[s] >= 1
      OBVIOUS
    <3>1. sz[s] >= 1
      BY DEF MemInv, Sizes
    <3>2. k'[s].op = k[s].op
      BY <2>1
    <3>3. Eff(s)' = Eff(s)
      BY <1>4, <3>2 DEF Eff
    <3> QED  BY <1>4, <3>1, <3>3
  <2>5. k'[p].op # "shrink"
    BY <1>2, <2>1
  <2>v. PICK v \in Vals \cup {0, Junk} : v = 0
    OBVIOUS
  <2>6. content' = [content EXCEPT ![a] = v]
    BY <1>3, <2>v
  <2> QED  BY <1>1, <1>2, <1>4, <2>1, <2>2, <2>3, <2>4, <2>5, <2>6, MemQuiet
<1>5. CASE /\ pt' = [pt EXCEPT ![p][k[p].va] = [pa |-> k[p].mem, w |-> TRUE, cow |-> FALSE, u |-> TRUE]]
           /\ Resolved(p)
  <2>e. PICK e : e = [pa |-> a, w |-> TRUE, cow |-> FALSE, u |-> TRUE]
    OBVIOUS
  <2>1. pt' = [pt EXCEPT ![p][i] = e] /\ e.pa = a /\ e.w /\ e.u
    BY <1>i, <1>a, <1>5, <2>e
  <2>2. /\ pt'[p][i] = e /\ \A r \in Procs \ {p} : pt'[r] = pt[r]
        /\ \A va \in Va : va # i => pt'[p][va] = pt[p][va]
    BY <2>1 DEF TableInv, CowTypeOK
  <2>3. k[p].op \in {"copyout", "wait"} => k[p].val \in Vals /\ pt'[p][k[p].va].w
    BY <1>i, <1>2, <2>1, <2>2 DEF Target
  <2>4. /\ k'[p].op # "shrink" /\ ~Preparing(p)' /\ Target(p)' /\ Copies(p)'
        /\ \A q \in Procs \ {p} : k'[q] = k[q]
    BY <1>2, <1>5, <2>3, ResolvedMem
  <2>5. /\ Sole' /\ Fresh' /\ UserPages' /\ Mapped(e)
        /\ \A r \in Procs \ {p} : pt'[r] = pt[r]
        /\ \A va \in Va : va # i => pt'[p][va] = pt[p][va]
    <3>1. k[p].pc = "fill" /\ i = k[p].va /\ e.pa = k[p].mem
      BY <1>1, <1>i, <1>a, <2>1
    <3> QED  BY <2>1, <2>2, <2>4, <3>1, MapPrepared
  <2>6. content' \in [Pages -> Vals \cup {0, Junk}]
    BY <1>3
  <2>7. sz \in [Procs -> 0..MaxSz] /\ sz' \in [Procs -> 0..MaxSz] /\ MaxSz \in Nat
    BY DEF TableInv, CowTypeOK, CowAssumption
  <2>8. /\ sz'[p] = IF k[p].op = "grow" THEN sz[p] + 1 ELSE sz[p]
        /\ \A s \in Procs \ {p} : sz'[s] = sz[s]
    BY <1>5, <2>7 DEF Resolved
  <2>9. /\ k[p].op = "grow" => i = sz[p] + 1
        /\ k[p].op # "grow" => i <= sz[p]
    BY <1>i, <1>2 DEF PathTable
  <2>10. MemInv'
    <3>1. \A s \in Procs : s # p /\ s # k[p].tgt => pt'[s] = pt[s] /\ sz'[s] = sz[s]
      BY <2>5, <2>8
    <3>2. \A s \in Procs : state'[s] = "run" => sz'[s] >= 1
      BY <1>1, <2>7, <2>8 DEF MemInv, Sizes
    <3> QED  BY <1>2, <2>4, <2>5, <2>6, <3>1, <3>2, MemKept
  <2>11. View(p, i)' = [kind |-> "data", val |-> 0]
    <3>1. content'[a] = 0
      BY <1>3
    <3> QED  BY <2>e, <2>2, <2>5, <3>1 DEF View, Kind
  <2>12. ASSUME NEW r \in Procs, NEW va \in Va, ~(r = p /\ va = i)
         PROVE  View(r, va)' = View(r, va)
    <3>1. pt'[r][va] = pt[r][va] /\ pt[r][va].pa # a /\ pt[r][va] \in Pte
      BY <1>2, <2>5, <2>12 DEF TableInv, CowTypeOK
    <3>2. Mapped(pt[r][va]) => content'[pt[r][va].pa] = content[pt[r][va].pa]
      BY <1>3, <3>1 DEF Mapped, Pte
    <3> QED  BY <3>1, <3>2 DEF View
  <2>13. \A r \in Procs : Running(r)' <=> Running(r)
    BY <1>1 DEF Running
  <2>14. ASSUME NEW r \in Procs, r # p \/ k[p].op # "grow" PROVE Eff(r)' = Eff(r)
    <3>1. k'[r].op = "shrink" <=> k[r].op = "shrink"
      BY <1>2, <2>4
    <3>2. sz'[r] = sz[r]
      BY <2>8, <2>14
    <3> QED  BY <3>1, <3>2 DEF Eff
  <2>15. ASSUME NEW r \in Procs \ {p} PROVE Image(r)' = Image(r)
    <3>1. \A va \in 1..Eff(r) : Running(r) => View(r, va)' = View(r, va)
      BY <2>12, EffIn
    <3> QED  BY <2>13, <2>14, <3>1, ImageSame
  <2>16. CASE k[p].op # "grow"
    <3>1. View(p, i) = [kind |-> "data", val |-> 0]
      BY <1>1, <1>i DEF View, Kind
    <3>2. ASSUME Running(p), NEW va \in 1..Eff(p) PROVE View(p, va)' = View(p, va)
      <4>1. va \in Va
        BY <3>2, EffIn
      <4>2. CASE va = i  BY <2>11, <3>1, <4>2
      <4>3. CASE va # i  BY <2>12, <4>1, <4>3
      <4> QED  BY <4>2, <4>3
    <3>3. Image(p)' = Image(p)
      BY <2>13, <2>14, <2>16, <3>2, ImageSame
    <3>4. \A q \in Procs : Image(q)' = Image(q)
      BY <2>15, <3>3
    <3> QED  BY <2>10, <3>4, Stutters
  <2>17. CASE k[p].op = "grow"
    <3>1. sz[p] \in Nat /\ sz'[p] = i /\ sz[p] = i - 1
      BY <2>7, <2>8, <2>9, <2>17
    <3>2. Running(p) /\ Running(p)' /\ Eff(p)' = i /\ Eff(p) = i - 1
      BY <1>1, <1>2, <2>4, <2>17, <3>1 DEF Running, Eff, Va
    <3>3. View(p, i)' = Memory!Zero("data")
      BY <2>11 DEF Memory!Zero
    <3>4. \A va \in Va : va <= Eff(p) => View(p, va)' = View(p, va)
      BY <2>12, <3>2 DEF Va
    <3> QED  BY <2>10, <2>15, <3>2, <3>3, <3>4, Grows
  <2> QED  BY <2>16, <2>17
<1> QED  BY <1>4, <1>5 DEF ZeroPage

LEMMA MemWrite ==
    ASSUME CowAssumption, TableInv, TableInv', MemInv, NEW p \in Procs, Write(p)
    PROVE  MemInv' /\ MemoryStep
<1>1. k[p].pc = "write" /\ Busy(p) /\ UNCHANGED <<pt, sz, state>>
  BY DEF Write, Busy
<1>2. /\ state[p] = "run" /\ k[p] \in Path /\ k \in [Procs -> Path] /\ PathShape(p) /\ PathTable(p)
      /\ Target(p)
  BY <1>1, Inside DEF MemInv
<1>i. PICK i \in Va : i = k[p].va
  BY <1>1, <1>2 DEF PathShape
<1>3. /\ k[p].op \in {"copyout", "wait"} /\ i <= sz[p] /\ Mapped(pt[p][i]) /\ pt[p][i].w
      /\ k[p].val \in Vals
  BY <1>1, <1>i, <1>2 DEF PathShape, PathTable, Target, Faulting
<1>v. PICK v \in Vals : v = k[p].val
  BY <1>3
<1>4. content' = [content EXCEPT ![pt[p][i].pa] = v]
  BY <1>i, <1>v DEF Write
<1>5. /\ \A q \in Procs \ {p} : k'[q] = k[q]
      /\ k'[p].pc \in {"user", "unmap"} /\ k'[p].op \in {"none", "reap"}
  <2>1. CASE k[p].op = "wait"
    <3>1. StartUnmap(p, "reap", k[p].child, 1, sz[k[p].child])
      BY <2>1 DEF Write
    <3> QED  BY <1>2, <3>1 DEF StartUnmap, User
  <2>2. CASE k[p].op # "wait"
    <3>1. Return(p)
      BY <2>2 DEF Write
    <3> QED  BY <1>2, <3>1 DEF Return, User
  <2> QED  BY <2>1, <2>2
<1>6. k[p].op # "shrink" /\ k'[p].op # "shrink"
  BY <1>3, <1>5
<1> QED  BY <1>1, <1>2, <1>3, <1>4, <1>5, <1>6, MemStore

LEMMA MemUnmap ==
    ASSUME CowAssumption, TableInv, TableInv', MemInv, NEW p \in Procs, Unmap(p)
    PROVE  MemInv' /\ MemoryStep
<1>1. k[p].pc = "unmap" /\ Busy(p) /\ UNCHANGED <<pt, content, sz, state>>
  BY DEF Unmap, Busy
<1>2. state[p] = "run" /\ k[p] \in Path /\ k \in [Procs -> Path] /\ k[p].op \in Unmapping
  BY <1>1, Inside DEF PathShape
<1>3. PICK i, b : k' = [k EXCEPT ![p].pc = "drop", ![p].va = i, ![p].old = b]
  BY DEF Unmap
<1>4. k'[p].pc = "drop" /\ k'[p].op = k[p].op /\ \A q \in Procs \ {p} : k'[q] = k[q]
  BY <1>2, <1>3 DEF Path
<1>5. Target(p)' /\ Copies(p)' /\ ~Preparing(p)'
  BY <1>2, <1>4 DEF Target, Copies, Preparing, Unmapping, Faulting
<1>6. Fresh'
  BY <1>1, <1>4, <1>5, TablesKept
<1> QED  BY <1>1, <1>2, <1>4, <1>5, <1>6, MemPath

LEMMA MemUnmapped ==
    ASSUME CowAssumption, TableInv, TableInv', MemInv, NEW p \in Procs, Unmapped(p)
    PROVE  MemInv' /\ MemoryStep
<1>1. k[p].pc = "unmap" /\ Busy(p) /\ UNCHANGED <<pt, content>> /\ Return(p)
  BY DEF Unmapped, Busy
<1>q. PICK q \in Procs : q = k[p].tgt
  BY <1>1, Inside DEF Path
<1>2. /\ state[p] = "run" /\ k[p] \in Path /\ k \in [Procs -> Path] /\ k[p].op \in Unmapping
      /\ PathOwns(p)
  BY <1>1, Inside DEF PathShape
<1>3. (\A r \in Procs \ {p} : k'[r] = k[r]) /\ k'[p].pc = "user" /\ k'[p].op = "none"
  BY <1>1, <1>2 DEF Return, User
<1>4. Target(p)' /\ Copies(p)' /\ ~Preparing(p)' /\ k'[p].op # "shrink"
  BY <1>3, UserMem
<1>5. Fresh'
  BY <1>1, <1>3, <1>4, TablesKept
<1>6. sz \in [Procs -> 0..MaxSz] /\ MaxSz \in Nat /\ state \in [Procs -> {"unused", "used", "run", "zombie"}]
  BY DEF TableInv, CowTypeOK, CowAssumption
<1>7. /\ \A s \in Procs : s # p /\ s # k[p].tgt => sz'[s] = sz[s]
      /\ \A s \in Procs : state'[s] = "run" <=> state[s] = "run"
      /\ \A s \in Procs : state[s] = "run" => Eff(s)' = Eff(s) /\ sz'[s] >= 1
  <2>1. CASE k[p].op = "shrink"
    <3>1. sz' = [sz EXCEPT ![p] = @ - 1] /\ UNCHANGED state
      BY <2>1 DEF Unmapped
    <3>2. sz[p] >= 2
      BY <2>1 DEF MemInv, Sizes
    <3>3. ASSUME NEW s \in Procs, state[s] = "run" PROVE Eff(s)' = Eff(s) /\ sz'[s] >= 1
      <4>1. CASE s = p
        <5>1. sz'[p] = sz[p] - 1 /\ sz[p] \in Nat
          BY <1>6, <3>1
        <5> QED  BY <1>3, <2>1, <3>2, <4>1, <5>1 DEF Eff
      <4>2. CASE s # p
        <5>1. sz'[s] = sz[s] /\ k'[s] = k[s] /\ sz[s] >= 1
          BY <1>3, <1>6, <3>1, <3>3, <4>2 DEF MemInv, Sizes
        <5> QED  BY <5>1 DEF Eff
      <4> QED  BY <4>1, <4>2
    <3> QED  BY <1>6, <3>1, <3>3
  <2>2. CASE k[p].op # "shrink"
    <3>1. state[q] # "run" /\ q # p
      BY <1>q, <1>1, <1>2, <2>2 DEF PathOwns, Unmapping
    <3>2. /\ state' = [state EXCEPT ![q] = "unused"]
          /\ sz' = [sz EXCEPT ![q] = 0] \/ sz' = sz
      BY <1>q, <1>2, <2>2 DEF Unmapped, Unmapping
    <3>3. ASSUME NEW s \in Procs, state[s] = "run" PROVE Eff(s)' = Eff(s) /\ sz'[s] >= 1
      <4>1. sz'[s] = sz[s] /\ sz[s] >= 1
        BY <1>6, <3>1, <3>2, <3>3 DEF MemInv, Sizes
      <4>2. k'[s].op = "shrink" <=> k[s].op = "shrink"
        BY <1>3, <2>2
      <4> QED  BY <4>1, <4>2 DEF Eff
    <3>4. \A s \in Procs : s # q => sz'[s] = sz[s] /\ state'[s] = state[s]
      BY <1>6, <3>2
    <3>5. state'[q] # "run"
      BY <1>6, <3>2
    <3> QED  BY <1>q, <3>1, <3>3, <3>4, <3>5
  <2> QED  BY <2>1, <2>2
<1>8. PICK a : a \in Pages
  BY FS_EmptySet DEF CowAssumption
<1>9. PICK v \in Vals \cup {0, Junk} : v = 0
  OBVIOUS
<1> QED  BY <1>1, <1>2, <1>3, <1>4, <1>5, <1>7, <1>8, <1>9, MemQuiet

-----------------------------------------------------------------------------
(* The system calls and the faults.                                        *)

LEMMA MemExit ==
    ASSUME CowAssumption, TableInv, TableInv', MemInv, NEW p \in Procs, InUser(p), Die(p),
           UNCHANGED <<pt, sz, content>>
    PROVE  MemInv' /\ MemoryStep
<1>1. state[p] = "run"
  BY InUserMode
<1>2. PICK a : a \in Pages
  BY FS_EmptySet DEF CowAssumption
<1>3. PICK v \in Vals \cup {0, Junk} : v = 0
  OBVIOUS
<1> QED  BY <1>1, <1>2, <1>3, MemDie

LEMMA MemEnter ==
    ASSUME CowAssumption, TableInv, TableInv', MemInv, NEW p \in Procs, InUser(p),
           NEW op \in Faulting, NEW va \in Va, NEW v \in Vals \cup {0}, NEW q \in Procs,
           Enter(p, op, va, v, q), UNCHANGED <<pt, content, sz, state>>,
           Mapped(pt[p][va]) => pt[p][va].cow,
           op \in {"copyout", "wait"} => v \in Vals
    PROVE  MemInv' /\ MemoryStep
<1>1. state[p] = "run" /\ k[p] = User(p) /\ k \in [Procs -> Path]
  BY InUserMode
<1>2. /\ k'[p].pc = "alloc" /\ k'[p].op = op /\ k'[p].va = va /\ k'[p].val = v
      /\ \A r \in Procs \ {p} : k'[r] = k[r]
  BY <1>1 DEF Enter, User
<1>3. Target(p)' /\ Copies(p)' /\ ~Preparing(p)'
  BY <1>2 DEF Target, Copies, Preparing
<1>4. Fresh'
  BY <1>2, <1>3, TablesKept
<1>5. k'[p].op # "shrink" /\ k[p].op # "shrink"
  BY <1>1, <1>2 DEF User, Faulting
<1> QED  BY <1>1, <1>2, <1>3, <1>4, <1>5, MemPath

LEMMA MemStartReap ==
    ASSUME CowAssumption, TableInv, TableInv', MemInv, NEW p \in Procs, InUser(p),
           NEW q \in Procs, StartUnmap(p, "reap", q, 1, sz[q]), UNCHANGED <<pt, content, sz, state>>
    PROVE  MemInv' /\ MemoryStep
<1>1. state[p] = "run" /\ k[p] = User(p) /\ k \in [Procs -> Path]
  BY InUserMode
<1>2. /\ k'[p].pc = "unmap" /\ k'[p].op = "reap"
      /\ \A r \in Procs \ {p} : k'[r] = k[r]
  BY <1>1 DEF StartUnmap, User
<1>3. Target(p)' /\ Copies(p)' /\ ~Preparing(p)'
  BY <1>2 DEF Target, Copies, Preparing
<1>4. Fresh'
  BY <1>2, <1>3, TablesKept
<1>5. k'[p].op # "shrink" /\ k[p].op # "shrink"
  BY <1>1, <1>2 DEF User
<1> QED  BY <1>1, <1>2, <1>3, <1>4, <1>5, MemPath

LEMMA MemFork ==
    ASSUME CowAssumption, TableInv, TableInv', MemInv, NEW p \in Procs, NEW q \in Procs, Fork(p, q)
    PROVE  MemInv' /\ MemoryStep
<1>1. InUser(p) /\ state[q] = "unused" /\ UNCHANGED <<pt, content, sz>>
  BY DEF Fork
<1>2. state[p] = "run" /\ k[p] = User(p) /\ k \in [Procs -> Path]
  BY <1>1, InUserMode
<1>3. /\ k'[p].pc = "share" /\ k'[p].op = "fork" /\ k'[p].va = 1
      /\ \A r \in Procs \ {p} : k'[r] = k[r]
  BY <1>2 DEF Fork, User
<1>4. Target(p)' /\ Copies(p)' /\ ~Preparing(p)'
  BY <1>3 DEF Target, Copies, Preparing, Va
<1>5. Fresh'
  BY <1>1, <1>3, <1>4, TablesKept
<1>6. k'[p].op # "shrink" /\ k[p].op # "shrink"
  BY <1>2, <1>3 DEF User
<1>7. \A s \in Procs : state'[s] = "run" <=> state[s] = "run"
  BY <1>1 DEF Fork, TableInv, CowTypeOK
<1> QED  BY <1>1, <1>2, <1>3, <1>4, <1>5, <1>6, <1>7, MemPath

LEMMA MemStoreUser ==
    ASSUME CowAssumption, TableInv, TableInv', MemInv, NEW p \in Procs, InUser(p),
           NEW va \in Va, NEW v \in Vals, va <= sz[p], pt[p][va].w, pt[p][va].u,
           content' = [content EXCEPT ![pt[p][va].pa] = v], UNCHANGED <<pt, sz, state>>,
           UNCHANGED k \/ \E q \in Procs : StartUnmap(p, "reap", q, 1, sz[q])
    PROVE  MemInv' /\ MemoryStep
<1>1. state[p] = "run" /\ k[p] = User(p) /\ k \in [Procs -> Path]
  BY InUserMode
<1>2. /\ k'[p].pc \in {"user", "unmap"} /\ k'[p].op \in {"none", "reap"}
      /\ \A r \in Procs \ {p} : k'[r] = k[r]
  <2>1. CASE UNCHANGED k
    BY <1>1, <2>1 DEF User
  <2>2. ASSUME NEW q \in Procs, StartUnmap(p, "reap", q, 1, sz[q])
        PROVE  k'[p].pc = "unmap" /\ k'[p].op = "reap" /\ \A r \in Procs \ {p} : k'[r] = k[r]
    BY <1>1, <2>2 DEF StartUnmap, User
  <2> QED  BY <2>1, <2>2
<1>3. k[p].op # "shrink" /\ k'[p].op # "shrink" /\ Mapped(pt[p][va])
  BY <1>1, <1>2 DEF User, MemInv, UserPages
<1> QED  BY <1>1, <1>2, <1>3, MemStore

LEMMA MemGrowLazy ==
    ASSUME CowAssumption, TableInv, TableInv', MemInv, NEW p \in Procs, GrowLazy(p)
    PROVE  MemInv' /\ MemoryStep
<1>1. /\ InUser(p) /\ sz[p] < MaxSz /\ sz' = [sz EXCEPT ![p] = @ + 1]
      /\ UNCHANGED <<content, pt, state, k>>
  BY DEF GrowLazy
<1>2. state[p] = "run" /\ k[p] = User(p) /\ k[p].op # "shrink" /\ k[p].pc = "user" /\ Extent(p)
  BY <1>1, InUserMode DEF User
<1>3. sz \in [Procs -> 0..MaxSz] /\ MaxSz \in Nat
  BY DEF TableInv, CowTypeOK, CowAssumption
<1>4. sz'[p] = sz[p] + 1 /\ \A s \in Procs \ {p} : sz'[s] = sz[s]
  BY <1>1, <1>3
<1>5. Target(p)' /\ Copies(p)' /\ ~Preparing(p)'
  <2>1. k'[p].pc = "user" /\ k'[p].op = "none"
    BY <1>1, <1>2 DEF User
  <2> QED  BY <2>1, UserMem
<1>6. Sole' /\ Fresh' /\ UserPages'
  BY <1>1, <1>5, TablesKept
<1>7. MemInv'
  <2>1. \A s \in Procs : s # p /\ s # k[p].tgt => pt'[s] = pt[s] /\ sz'[s] = sz[s]
    BY <1>1, <1>4
  <2>2. \A s \in Procs : state'[s] = "run" => sz'[s] >= 1
    BY <1>1, <1>3, <1>4 DEF MemInv, Sizes
  <2>3. content' \in [Pages -> Vals \cup {0, Junk}] /\ k'[p].op # "shrink" /\ \A q \in Procs \ {p} : k'[q] = k[q]
    BY <1>1, <1>2 DEF MemInv
  <2> QED  BY <1>2, <1>5, <1>6, <2>1, <2>2, <2>3, MemKept
<1>8. \A r \in Procs, va \in Va : View(r, va)' = View(r, va)
  BY <1>1 DEF View
<1>9. ASSUME NEW r \in Procs \ {p} PROVE Image(r)' = Image(r)
  <2>1. Running(r)' <=> Running(r)
    BY <1>1 DEF Running
  <2>2. Eff(r)' = Eff(r)
    BY <1>1, <1>4 DEF Eff
  <2>3. Running(r) => \A va \in 1..Eff(r) : View(r, va)' = View(r, va)
    BY <1>8, EffIn
  <2> QED  BY <2>1, <2>2, <2>3, ImageSame
<1>n. PICK n \in Va : n = sz[p] + 1
  BY <1>1, <1>3 DEF Va
<1>10. Running(p) /\ Running(p)' /\ Eff(p)' = n /\ Eff(p) = n - 1
  BY <1>1, <1>2, <1>3, <1>4, <1>n DEF Running, Eff
<1>11. View(p, n)' = Memory!Zero("data")
  <2>1. ~Mapped(pt[p][n])
    BY <1>2, <1>3, <1>n DEF Extent, MappedIn
  <2> QED  BY <1>1, <2>1 DEF View, Kind, Memory!Zero
<1> QED  BY <1>7, <1>8, <1>9, <1>10, <1>11, Grows

LEMMA MemShrink ==
    ASSUME CowAssumption, TableInv, TableInv', MemInv, NEW p \in Procs, Shrink(p)
    PROVE  MemInv' /\ MemoryStep
<1>1. /\ InUser(p) /\ sz[p] > 1 /\ StartUnmap(p, "shrink", p, sz[p], sz[p])
      /\ UNCHANGED <<content, pt, sz, state>>
  BY DEF Shrink
<1>2. state[p] = "run" /\ k[p] = User(p) /\ k \in [Procs -> Path]
  BY <1>1, InUserMode
<1>3. /\ k'[p].pc = "unmap" /\ k'[p].op = "shrink"
      /\ \A r \in Procs \ {p} : k'[r] = k[r]
  BY <1>1, <1>2 DEF StartUnmap, User
<1>4. Target(p)' /\ Copies(p)' /\ ~Preparing(p)'
  BY <1>3 DEF Target, Copies, Preparing
<1>5. Sole' /\ Fresh' /\ UserPages'
  BY <1>1, <1>3, <1>4, TablesKept
<1>6. sz \in [Procs -> 0..MaxSz] /\ MaxSz \in Nat
  BY DEF TableInv, CowTypeOK, CowAssumption
<1>7. MemInv'
  <2>1. \A s \in Procs : state'[s] = "run" => sz'[s] >= 1
    BY <1>1 DEF MemInv, Sizes
  <2>2. content' \in [Pages -> Vals \cup {0, Junk}] /\ sz'[p] >= 2
    BY <1>1, <1>6 DEF MemInv
  <2> QED  BY <1>1, <1>2, <1>3, <1>4, <1>5, <2>1, <2>2, MemKept
<1>8. \A r \in Procs, va \in Va : View(r, va)' = View(r, va)
  BY <1>1 DEF View
<1>9. ASSUME NEW r \in Procs \ {p} PROVE Image(r)' = Image(r)
  <2>1. Running(r)' <=> Running(r)
    BY <1>1 DEF Running
  <2>2. Eff(r)' = Eff(r)
    BY <1>1, <1>3 DEF Eff
  <2>3. Running(r) => \A va \in 1..Eff(r) : View(r, va)' = View(r, va)
    BY <1>8, EffIn
  <2> QED  BY <2>1, <2>2, <2>3, ImageSame
<1>10. Running(p) /\ Running(p)' /\ Eff(p) = sz[p] /\ Eff(p)' = Eff(p) - 1 /\ Eff(p) > 1
  <2>1. k[p].op # "shrink" /\ sz[p] \in Nat
    BY <1>2, <1>6 DEF User
  <2> QED  BY <1>1, <1>2, <1>3, <2>1 DEF Running, Eff
<1>11. \A va \in Va : va < Eff(p) => View(p, va)' = View(p, va)
  BY <1>8
<1> QED  BY <1>7, <1>9, <1>10, <1>11, Shrinks

LEMMA MemGrowEager ==
    ASSUME CowAssumption, TableInv, TableInv', MemInv, NEW p \in Procs, GrowEager(p)
    PROVE  MemInv' /\ MemoryStep
<1>1. InUser(p) /\ sz[p] < MaxSz /\ Enter(p, "grow", sz[p] + 1, 0, p) /\ UNCHANGED <<pt, content, sz, state>>
  BY DEF GrowEager
<1>2. sz[p] \in 0..MaxSz /\ MaxSz \in Nat /\ Extent(p) /\ state[p] = "run"
  BY <1>1, InUserMode DEF TableInv, CowTypeOK, CowAssumption
<1>n. PICK n \in Va : n = sz[p] + 1
  BY <1>1, <1>2 DEF Va
<1>3. ~Mapped(pt[p][n])
  BY <1>2, <1>n DEF Extent, MappedIn
<1>4. Enter(p, "grow", n, 0, p) /\ "grow" \in Faulting /\ 0 \in Vals \cup {0}
      /\ "grow" \notin {"copyout", "wait"}
  BY <1>1, <1>n DEF Faulting
<1> QED  BY <1>1, <1>3, <1>4, MemEnter

LEMMA MemFaults ==
    ASSUME CowAssumption, TableInv, TableInv', MemInv, NEW p \in Procs, NEW va \in Va,
           StoreFault(p, va) \/ LoadFault(p, va)
    PROVE  MemInv' /\ MemoryStep
<1>1. InUser(p) /\ UNCHANGED <<pt, content, sz>>
  BY DEF StoreFault, LoadFault
<1>2. CASE Die(p)
  BY <1>1, <1>2, MemExit
<1>3. ASSUME NEW op \in {"store", "load"}, Enter(p, op, va, 0, p), UNCHANGED state,
             Resolvable(p, va, FALSE) \/ Resolvable(p, va, TRUE)
      PROVE  MemInv' /\ MemoryStep
  <2>1. Mapped(pt[p][va]) => pt[p][va].cow
    BY <1>3 DEF Resolvable
  <2>2. op \in Faulting /\ op \notin {"copyout", "wait"} /\ 0 \in Vals \cup {0}
    BY DEF Faulting
  <2> QED  BY <1>1, <1>3, <2>1, <2>2, MemEnter
<1> QED  BY <1>2, <1>3 DEF StoreFault, LoadFault

LEMMA MemCopyout ==
    ASSUME CowAssumption, TableInv, TableInv', MemInv, NEW p \in Procs, NEW va \in Va,
           NEW v \in Vals, NEW op \in {"copyout", "wait"}, NEW q \in Procs, Copyout(p, op, va, v, q)
    PROVE  MemInv' /\ MemoryStep
<1>1. InUser(p) /\ va <= sz[p] /\ UNCHANGED <<pt, sz, state>>
  BY DEF Copyout
<1>2. CASE /\ pt[p][va].u /\ pt[p][va].w
           /\ content' = [content EXCEPT ![pt[p][va].pa] = v]
           /\ IF op = "wait" THEN StartUnmap(p, "reap", q, 1, sz[q]) ELSE UNCHANGED k
  <2>1. UNCHANGED k \/ \E r \in Procs : StartUnmap(p, "reap", r, 1, sz[r])
    BY <1>2
  <2> QED  BY <1>1, <1>2, <2>1, MemStoreUser
<1>3. CASE Resolvable(p, va, FALSE) /\ Enter(p, op, va, v, q) /\ UNCHANGED content
  <2>1. Mapped(pt[p][va]) => pt[p][va].cow
    BY <1>3 DEF Resolvable
  <2>2. op \in Faulting /\ v \in Vals \cup {0}
    BY DEF Faulting
  <2> QED  BY <1>1, <1>3, <2>1, <2>2, MemEnter
<1> QED  BY <1>2, <1>3 DEF Copyout

LEMMA MemSyscall ==
    ASSUME CowAssumption, TableInv, TableInv', MemInv, NEW p \in Procs, Syscall(p)
    PROVE  MemInv' /\ MemoryStep
<1>1. CASE Exit(p)
  BY <1>1, MemExit DEF Exit
<1>2. ASSUME NEW va \in Va, NEW v \in Vals, Store(p, va, v) PROVE MemInv' /\ MemoryStep
  BY <1>2, MemStoreUser DEF Store
<1>3. ASSUME NEW q \in Procs, Wait(p, q) PROVE MemInv' /\ MemoryStep
  BY <1>3, MemStartReap DEF Wait
<1> QED  BY <1>1, <1>2, <1>3, MemGrowLazy, MemGrowEager, MemShrink, MemFaults, MemFork, MemCopyout
         DEF Syscall

(* What holds at first, with every page of init its own, *)
LEMMA MemInit == ASSUME CowAssumption, WithoutGuard, Init PROVE MemInv
<1>1. PICK image \in [1..Len(Layout) -> Pages] :
        /\ \A i, j \in DOMAIN image : image[i] = image[j] => i = j
        /\ content = [a \in Pages |-> IF a \in {image[va] : va \in DOMAIN image} THEN 0 ELSE Junk]
        /\ pt = [p \in Procs |-> [va \in Va |->
                   IF p = InitProc /\ va \in DOMAIN image THEN ProgramPte(va, image[va]) ELSE None]]
        /\ sz = [p \in Procs |-> IF p = InitProc THEN Len(Layout) ELSE 0]
        /\ state = [p \in Procs |-> IF p = InitProc THEN "run" ELSE "unused"]
        /\ k = [p \in Procs |-> User(p)]
  BY DEF Init
<1>2. /\ Len(Layout) \in Nat /\ Len(Layout) >= 1 /\ MaxSz \in Nat /\ NoPage \notin Pages
      /\ DOMAIN image = 1..Len(Layout)
  BY <1>1 DEF CowAssumption
<1>3. \A p \in Procs : k[p].pc = "user" /\ k[p].op = "none"
  BY <1>1 DEF User
<1>4. ASSUME NEW p \in Procs, NEW va \in Va
      PROVE  \/ p = InitProc /\ va \in DOMAIN image /\ pt[p][va] = ProgramPte(va, image[va])
             \/ pt[p][va] = None
  BY <1>1
<1>5. \A va \in DOMAIN image : ProgramPte(va, image[va]).pa = image[va] /\ ProgramPte(va, image[va]).u
                                 /\ Mapped(ProgramPte(va, image[va]))
  BY <1>1, <1>2 DEF ProgramPte, WithoutGuard, Mapped
<1>6. ~Mapped(None) /\ ~None.w
  BY DEF None, Mapped
<1>7. Sole
  <2> SUFFICES ASSUME NEW p \in Procs, NEW q \in Procs, NEW va \in Va, NEW vb \in Va,
                      Mapped(pt[p][va]), pt[q][vb].pa = pt[p][va].pa
               PROVE  p = q /\ va = vb
    BY DEF Sole
  <2>1. p = InitProc /\ va \in DOMAIN image /\ pt[p][va].pa = image[va] /\ pt[p][va].pa # NoPage
    BY <1>4, <1>5, <1>6 DEF Mapped
  <2>2. q = InitProc /\ vb \in DOMAIN image /\ pt[q][vb].pa = image[vb]
    BY <1>4, <1>5, <2>1 DEF None
  <2> QED  BY <1>1, <2>1, <2>2
<1>8. UserPages
  BY <1>4, <1>5, <1>6 DEF UserPages
<1>9. Fresh
  BY <1>3 DEF Fresh, Preparing
<1>10. ASSUME NEW p \in Procs PROVE Target(p) /\ Copies(p) /\ Sizes(p)
  BY <1>1, <1>2, <1>3 DEF Target, Copies, Sizes, Faulting
<1>11. content \in [Pages -> Vals \cup {0, Junk}]
  BY <1>1
<1> QED  BY <1>7, <1>8, <1>9, <1>10, <1>11 DEF MemInv

LEMMA MemoryInit == ASSUME CowAssumption, WithoutGuard, Init PROVE Memory!Init
<1>1. PICK image \in [1..Len(Layout) -> Pages] :
        /\ content = [a \in Pages |-> IF a \in {image[va] : va \in DOMAIN image} THEN 0 ELSE Junk]
        /\ pt = [p \in Procs |-> [va \in Va |->
                   IF p = InitProc /\ va \in DOMAIN image THEN ProgramPte(va, image[va]) ELSE None]]
        /\ sz = [p \in Procs |-> IF p = InitProc THEN Len(Layout) ELSE 0]
        /\ state = [p \in Procs |-> IF p = InitProc THEN "run" ELSE "unused"]
        /\ k = [p \in Procs |-> User(p)]
  BY DEF Init
<1>2. /\ Len(Layout) \in Nat /\ MaxSz \in Nat /\ Len(Layout) <= MaxSz /\ NoPage \notin Pages
      /\ DOMAIN image = 1..Len(Layout) /\ InitProc \in Procs
      /\ \A va \in 1..Len(Layout) : Layout[va] \in {"text", "data"}
  BY <1>1 DEF CowAssumption, WithoutGuard
<1>3. Running(InitProc) /\ Eff(InitProc) = Len(Layout)
  BY <1>1, <1>2 DEF Running, Eff, User
<1>4. ASSUME NEW va \in 1..Len(Layout) PROVE View(InitProc, va) = Memory!Zero(Layout[va])
  <2>1. va \in Va /\ pt[InitProc][va] = ProgramPte(va, image[va]) /\ image[va] \in Pages
    BY <1>1, <1>2 DEF Va
  <2>2. content[image[va]] = 0
    BY <1>1, <1>2, <2>1
  <2>e. PICK e : e = ProgramPte(va, image[va])
    OBVIOUS
  <2>3. e.pa = image[va] /\ (e.w <=> Layout[va] # "text") /\ ~e.cow /\ e.u
    BY <1>2, <2>e DEF ProgramPte
  <2>4. Kind(e) = Layout[va] /\ Mapped(e)
    BY <1>2, <2>1, <2>3 DEF Kind, Mapped
  <2> QED  BY <2>1, <2>2, <2>e, <2>3, <2>4 DEF View, Memory!Zero
<1>5. Image(InitProc) = [va \in 1..Len(Layout) |-> Memory!Zero(Layout[va])]
  BY <1>2, <1>3, <1>4, ImageViews
<1>6. \A p \in Procs : p # InitProc => Image(p) = <<>>
  BY <1>1 DEF Image, Running
<1> QED  BY <1>5, <1>6 DEF Memory!Init

(* and after every step. *)
LEMMA MemStep ==
    ASSUME CowAssumption, CowInv, CowInv', MemInv, [Next]_vars
    PROVE  MemInv' /\ MemoryStep
<1>1. TableInv /\ TableInv'
  BY DEF CowInv
<1>2. CASE UNCHANGED vars
  <2>1. UNCHANGED <<content, pt, sz, state, k>>
    BY <1>2 DEF vars
  <2>2. MemInv'
    <3>1. Sole' /\ Fresh' /\ UserPages'
      BY <2>1 DEF MemInv, Sole, Fresh, UserPages, Preparing
    <3>2. \A p \in Procs : Target(p)' /\ Copies(p)' /\ Sizes(p)'
      BY <2>1 DEF MemInv, Target, Copies, Same, Sizes
    <3>3. content' \in [Pages -> Vals \cup {0, Junk}]
      BY <2>1 DEF MemInv
    <3> QED  BY <3>1, <3>2, <3>3 DEF MemInv
  <2>3. \A q \in Procs : Image(q)' = Image(q)
    BY <2>1 DEF Image, Running, Kind
  <2> QED  BY <2>2, <2>3, Stutters
<1>3. ASSUME NEW p \in Procs, Kernel(p) PROVE MemInv' /\ MemoryStep
  BY <1>1, <1>3, MemShare, MemInc, MemForked, MemAlloc, MemCount, MemCopyPage, MemZeroPage,
     MemWrite, MemDrop, MemPush, MemUnmap, MemUnmapped DEF Kernel
<1>4. ASSUME NEW p \in Procs, Syscall(p) PROVE MemInv' /\ MemoryStep
  BY <1>1, <1>4, MemSyscall
<1> QED  BY <1>2, <1>3, <1>4 DEF Next

(* Sharing pages copy-on-write is invisible (vm.c and kalloc.c of lab04):  *)
(* every process has memory of its own, and a child starts with a copy of  *)
(* its parent's.  This needs programs without a guard page: with one, the  *)
(* run cow_guard shows a copyout that writes to it.                        *)
THEOREM SharingInvisible == ASSUME WithoutGuard PROVE Spec => ImplementsForkMemory
<1>1. Init => MemInv /\ Memory!Init
  BY CowAssumption, MemInit, MemoryInit
<1>2. CowInv /\ CowInv' /\ MemInv /\ [Next]_vars => MemInv' /\ MemoryStep
  BY CowAssumption, MemStep
<1>3. MemoryStep => [Memory!Next]_[p \in Procs |-> Image(p)]
  BY DEF MemoryStep, Images
<1> QED  BY <1>1, <1>2, <1>3, CowAlways, PTL DEF Spec, ImplementsForkMemory, Memory!Spec
=============================================================================

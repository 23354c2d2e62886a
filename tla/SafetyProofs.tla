----------------------------- MODULE SafetyProofs -----------------------------
(***************************************************************************)
(* Proofs about the components whose promises are safety properties, for   *)
(* any sizes: each first for the component by itself, then for MCSafety's  *)
(* specification of them all.  Those about the xv6 kernel are in           *)
(* KernelProofs.                                                           *)
(***************************************************************************)
EXTENDS MCSafety, FiniteSetTheorems, WellFoundedInduction, TLAPS

-----------------------------------------------------------------------------
(* Every set of natural numbers that is not empty has a least element.     *)
LEMMA Least ==
    ASSUME NEW S \in SUBSET Nat, S # {}
    PROVE  \E n \in S : \A m \in S : n <= m
<1> DEFINE R == {ss \in Nat \X Nat : ss[1] < ss[2]}
<1>1. IsWellFoundedOn(R, Nat)
  BY NatLessThanWellFounded DEF OpToRel
<1>2. PICK n \in S : \A m \in S : ~(<<m, n>> \in R)
  <2> HIDE DEF R
  <2> QED  BY <1>1, WFMin
<1>3. ASSUME NEW m \in S PROVE n <= m
  <2>1. ~(m < n)  BY <1>2
  <2> QED  BY <2>1
<1> QED  BY <1>3

-----------------------------------------------------------------------------
(* PcBuffer, for any finite sets of producers and consumers and any        *)
(* capacity.                                                               *)

PbIdx(a) == a % Capacity

(* Indices of the ring wrap once at most. *)
LEMMA PbWrap ==
    ASSUME NEW a \in 0..(Capacity - 1), NEW b \in 0..Capacity
    PROVE  /\ PbIdx(a + b) = IF a + b < Capacity THEN a + b ELSE a + b - Capacity
           /\ PbIdx(a + b) \in 0..(Capacity - 1)
  BY CapacityAssumption DEF PbIdx

(* The index after a. *)
LEMMA PbWrapOne ==
    ASSUME NEW a \in 0..(Capacity - 1)
    PROVE  /\ PbIdx(a + 1) = IF a + 1 < Capacity THEN a + 1 ELSE a + 1 - Capacity
           /\ PbIdx(a + 1) \in 0..(Capacity - 1)
  <1>1. 1 \in 0..Capacity
    BY CapacityAssumption
  <1>. QED  BY <1>1, PbWrap

-----------------------------------------------------------------------------
(* Type correctness.                                                       *)

(* Signalling wakes at most one sleeper of the group and frees the mutex. *)
LEMMA PbSignalType ==
    ASSUME Pb!TypeOK, NEW th \in Pb!Threads, pcbPc[th] = "test", NEW G, Pb!SignalAndLeave(th, G)
    PROVE  /\ lock' = NoThread
           /\ pcbPc' \in [Pb!Threads -> Pb!Places]
           /\ \A u \in Pb!Threads : pcbPc'[u] # "test"
  BY ThreadsAssumption DEF Pb!TypeOK, Pb!SignalAndLeave, Pb!At, Pb!Places, Pb!Threads

(* Every step of a producer or a consumer keeps the state well typed. *)
LEMMA PbTypeStep ==
    ASSUME Pb!TypeOK, [Pb!Next]_Pb!vars
    PROVE  Pb!TypeOK'
  <1>. USE ThreadsAssumption, CapacityAssumption
  <1>1. CASE UNCHANGED Pb!vars
    BY <1>1 DEF Pb!TypeOK, Pb!vars, Pb!ring
  <1>2. ASSUME NEW p \in Producers, NEW x \in Items, Pb!EnterPut(p, x)
        PROVE  Pb!TypeOK'
    BY <1>2 DEF Pb!TypeOK, Pb!EnterPut, Pb!ring, Pb!Threads, Pb!Places
  <1>3. ASSUME NEW c \in Consumers, Pb!EnterGet(c)
        PROVE  Pb!TypeOK'
    BY <1>3 DEF Pb!TypeOK, Pb!EnterGet, Pb!ring, Pb!Threads, Pb!Places
  <1>4. ASSUME NEW p \in Producers, Pb!Put(p)
        PROVE  Pb!TypeOK'
    <2>1. p \in Pb!Threads /\ Pb!SignalAndLeave(p, Consumers)
      BY <1>4 DEF Pb!Put, Pb!Threads
    <2>2. /\ lock' = NoThread
          /\ pcbPc' \in [Pb!Threads -> Pb!Places]
          /\ \A u \in Pb!Threads : pcbPc'[u] # "test"
      BY <1>4, <2>1, PbSignalType DEF Pb!Put
    <2>3. tail' \in 0..(Capacity - 1) /\ count' \in 0..Capacity
      BY <1>4, PbWrapOne DEF Pb!Put, Pb!TypeOK, PbIdx
    <2>. QED
      BY <1>4, <2>2, <2>3 DEF Pb!TypeOK, Pb!Put, Pb!Threads
  <1>5. ASSUME NEW c \in Consumers, Pb!Get(c)
        PROVE  Pb!TypeOK'
    <2>1. c \in Pb!Threads /\ Pb!SignalAndLeave(c, Producers)
      BY <1>5 DEF Pb!Get, Pb!Threads
    <2>2. /\ lock' = NoThread
          /\ pcbPc' \in [Pb!Threads -> Pb!Places]
          /\ \A u \in Pb!Threads : pcbPc'[u] # "test"
      BY <1>5, <2>1, PbSignalType DEF Pb!Get
    <2>3. head' \in 0..(Capacity - 1) /\ count' \in 0..Capacity
      BY <1>5, PbWrapOne DEF Pb!Get, Pb!TypeOK, PbIdx
    <2>. QED
      BY <1>5, <2>2, <2>3 DEF Pb!TypeOK, Pb!Get, Pb!Threads
  <1>6. ASSUME NEW th \in Pb!Threads, Pb!Sleep(th)
        PROVE  Pb!TypeOK'
    BY <1>6 DEF Pb!TypeOK, Pb!Sleep, Pb!ring, Pb!Threads, Pb!Places
  <1>7. ASSUME NEW th \in Pb!Threads, Pb!Spurious(th)
        PROVE  Pb!TypeOK'
    BY <1>7 DEF Pb!TypeOK, Pb!Spurious, Pb!ring, Pb!Threads, Pb!Places
  <1>8. ASSUME NEW th \in Pb!Threads, Pb!Relock(th)
        PROVE  Pb!TypeOK'
    BY <1>8 DEF Pb!TypeOK, Pb!Relock, Pb!ring, Pb!Threads, Pb!Places
  <1>. QED
    BY <1>1, <1>2, <1>3, <1>4, <1>5, <1>6, <1>7, <1>8 DEF Pb!Next

(* The initial state is well typed. *)
LEMMA PbTypeInit == Pb!Init => Pb!TypeOK
  BY ThreadsAssumption, CapacityAssumption DEF Pb!Init, Pb!TypeOK, Pb!Places, Pb!Threads

(* TypeOK is an invariant: in particular the count stays within the        *)
(* capacity and the thread at the test is the holder of the mutex.         *)
LEMMA PbTypeCorrect == Pb!Spec => []Pb!TypeOK
  BY PbTypeInit, PbTypeStep, PTL DEF Pb!Spec

-----------------------------------------------------------------------------
(* No lost wake-up.  NoLostWakeup alone is not inductive: one item may be  *)
(* taken by a newcomer, so the woken threads have to be counted against    *)
(* the items (and the free slots) that are left.                           *)

PbSleeping(G) == Pb!At("asleep") \cap G
PbComing(G) == (Pb!At("awake") \cup Pb!At("test")) \cap G

(* As long as some of G sleep, at least n others of G are coming. *)
PbEnough(G, n) == PbSleeping(G) # {} => n <= Cardinality(PbComing(G))

PbWakeInv == Pb!TypeOK /\ PbEnough(Consumers, count) /\ PbEnough(Producers, Capacity - count)

(* The threads of a group that are coming are finitely many. *)
LEMMA PbComingFinite ==
    ASSUME NEW G \in {Producers, Consumers}
    PROVE  IsFiniteSet(PbComing(G)) /\ Cardinality(PbComing(G)) \in Nat
  BY ThreadsAssumption, FS_Subset, FS_CardinalityType DEF PbComing

LEMMA PbComingFinitePrime ==
    ASSUME NEW G \in {Producers, Consumers}
    PROVE  IsFiniteSet(PbComing(G)') /\ Cardinality(PbComing(G)') \in Nat
  BY ThreadsAssumption, FS_Subset, FS_CardinalityType DEF PbComing

(* More coming and no more sleeping keeps a group's promise. *)
LEMMA PbEnoughGrows ==
    ASSUME NEW G \in {Producers, Consumers}, NEW n \in Int, PbEnough(G, n),
           PbSleeping(G)' \subseteq PbSleeping(G), PbComing(G) \subseteq PbComing(G)'
    PROVE  PbEnough(G, n)'
  <1>1. Cardinality(PbComing(G)) <= Cardinality(PbComing(G)')
    BY PbComingFinitePrime, FS_Subset
  <1>. QED
    BY <1>1, PbComingFinite, PbComingFinitePrime DEF PbEnough

(* One thread t of the group leaves with one item (slot). *)
LEMMA PbEnoughLeaves ==
    ASSUME NEW G \in {Producers, Consumers}, NEW n \in Int, PbEnough(G, n), NEW th,
           PbSleeping(G)' \subseteq PbSleeping(G), PbComing(G)' = PbComing(G) \ {th}
    PROVE  PbSleeping(G)' # {} => n - 1 <= Cardinality(PbComing(G)')
  <1>1. Cardinality(PbComing(G)') >= Cardinality(PbComing(G)) - 1
    BY PbComingFinite, FS_RemoveElement
  <1>. QED
    BY <1>1, PbComingFinite, PbComingFinitePrime DEF PbEnough

(* One sleeper s of the group is woken for one more item (slot). *)
LEMMA PbEnoughWoken ==
    ASSUME NEW G \in {Producers, Consumers}, NEW n \in Int, PbEnough(G, n),
           NEW s \in PbSleeping(G), PbComing(G)' = PbComing(G) \cup {s}, s \notin PbComing(G)
    PROVE  PbSleeping(G)' # {} => n + 1 <= Cardinality(PbComing(G)')
  <1>1. Cardinality(PbComing(G)') = Cardinality(PbComing(G)) + 1
    BY PbComingFinite, FS_AddElement
  <1>. QED
    BY <1>1, PbComingFinite, PbComingFinitePrime DEF PbEnough

(* What SignalAndLeave does to the caller's group H and the other group G. *)
LEMMA PbSignalEffect ==
    ASSUME Pb!TypeOK, Pb!TypeOK', NEW H \in {Producers, Consumers},
           NEW G \in {Producers, Consumers}, G # H, G \cap H = {}, NEW th \in H,
           pcbPc[th] = "test", Pb!SignalAndLeave(th, G)
    PROVE  /\ PbSleeping(H)' = PbSleeping(H)
           /\ PbComing(H)' = PbComing(H) \ {th}
           /\ PbSleeping(G) = {} => PbSleeping(G)' = {}
           /\ PbSleeping(G) # {} => \E s \in PbSleeping(G) :
                PbComing(G)' = PbComing(G) \cup {s} /\ s \notin PbComing(G)
  <1>. USE DEF PbSleeping, PbComing, Pb!At, Pb!Threads
  <1>1. CASE PbSleeping(G) = {}
    <2>1. pcbPc' = [pcbPc EXCEPT ![th] = "out"]
      BY <1>1 DEF Pb!SignalAndLeave
    <2>2. \A u \in Pb!Threads : pcbPc'[u] = IF u = th THEN "out" ELSE pcbPc[u]
      BY <2>1 DEF Pb!TypeOK
    <2>. QED  BY <1>1, <2>2
  <1>2. CASE PbSleeping(G) # {}
    <2>1. PICK s \in PbSleeping(G) : pcbPc' = [pcbPc EXCEPT ![th] = "out", ![s] = "awake"]
      BY <1>2 DEF Pb!SignalAndLeave
    <2>2. s \in Pb!Threads /\ s # th /\ pcbPc[s] = "asleep" /\ s \in G
      OBVIOUS
    <2>3. \A u \in Pb!Threads :
            pcbPc'[u] = IF u = th THEN "out" ELSE IF u = s THEN "awake" ELSE pcbPc[u]
      BY <2>1, <2>2 DEF Pb!TypeOK
    <2>4. PbSleeping(H)' = PbSleeping(H) /\ PbComing(H)' = PbComing(H) \ {th}
      BY <2>2, <2>3
    <2>5. PbComing(G)' = PbComing(G) \cup {s} /\ s \notin PbComing(G)
      BY <2>2, <2>3
    <2>. QED  BY <1>2, <2>4, <2>5
  <1>. QED  BY <1>1, <1>2

(* WakeInv is inductive. *)
LEMMA PbWakeStep ==
    ASSUME PbWakeInv, [Pb!Next]_Pb!vars
    PROVE  PbWakeInv'
  <1>. USE DEF PbWakeInv
  <1>1. Pb!TypeOK'
    BY PbTypeStep
  <1>2. count \in Int /\ count' \in Int /\ Capacity \in Int /\ Capacity - count \in Int
    BY <1>1, CapacityAssumption DEF Pb!TypeOK
  <1>3. Producers \cap Consumers = {} /\ (Producers # {} => Producers # Consumers)
    BY ThreadsAssumption
  <1>4. ASSUME count' = count,
               \A G \in {Producers, Consumers} :
                 PbSleeping(G)' \subseteq PbSleeping(G) /\ PbComing(G) \subseteq PbComing(G)'
        PROVE  PbWakeInv'
    BY <1>1, <1>2, <1>4, PbEnoughGrows
  <1>5. CASE UNCHANGED Pb!vars
    BY <1>4, <1>5 DEF Pb!vars, Pb!ring, PbSleeping, PbComing, Pb!At
  <1>6. ASSUME NEW th \in Pb!Threads, pcbPc[th] \in {"out", "asleep", "awake"}, count' = count,
               \/ pcbPc' = [pcbPc EXCEPT ![th] = "test"]
               \/ pcbPc' = [pcbPc EXCEPT ![th] = "awake"]
        PROVE  PbWakeInv'
    <2>1. \A u \in Pb!Threads : u # th => pcbPc'[u] = pcbPc[u]
      BY <1>6 DEF Pb!TypeOK
    <2>2. pcbPc'[th] \in {"test", "awake"}
      BY <1>6 DEF Pb!TypeOK
    <2>3. \A G \in {Producers, Consumers} :
            PbSleeping(G)' \subseteq PbSleeping(G) /\ PbComing(G) \subseteq PbComing(G)'
      BY <1>6, <2>1, <2>2 DEF PbSleeping, PbComing, Pb!At
    <2>. QED  BY <1>4, <1>6, <2>3
  <1>7. ASSUME NEW p \in Producers, NEW x \in Items, Pb!EnterPut(p, x)
        PROVE  PbWakeInv'
    BY <1>6, <1>7 DEF Pb!EnterPut, Pb!ring, Pb!Threads
  <1>8. ASSUME NEW c \in Consumers, Pb!EnterGet(c)
        PROVE  PbWakeInv'
    BY <1>6, <1>8 DEF Pb!EnterGet, Pb!ring, Pb!Threads
  <1>9. ASSUME NEW th \in Pb!Threads, Pb!Spurious(th)
        PROVE  PbWakeInv'
    BY <1>6, <1>9 DEF Pb!Spurious, Pb!ring
  <1>10. ASSUME NEW th \in Pb!Threads, Pb!Relock(th)
         PROVE  PbWakeInv'
    BY <1>6, <1>10 DEF Pb!Relock, Pb!ring
  <1>11. ASSUME NEW th \in Pb!Threads, Pb!Sleep(th)
         PROVE  PbWakeInv'
    <2>1. count' = count /\ \A u \in Pb!Threads : u # th => pcbPc'[u] = pcbPc[u]
      BY <1>11 DEF Pb!Sleep, Pb!ring, Pb!TypeOK
    <2>2. ASSUME NEW G \in {Producers, Consumers}, th \notin G
          PROVE  PbSleeping(G)' = PbSleeping(G) /\ PbComing(G)' = PbComing(G)
      BY <2>1, <2>2 DEF PbSleeping, PbComing, Pb!At
    <2>3. CASE th \in Consumers
      <3>1. PbEnough(Consumers, count)'
        BY <1>11, <2>1, <2>3, PbComingFinitePrime DEF Pb!Sleep, PbEnough
      <3>2. PbEnough(Producers, Capacity - count)'
        BY <1>3, <2>1, <2>2, <2>3 DEF PbEnough
      <3>. QED  BY <1>1, <3>1, <3>2
    <2>4. CASE th \in Producers
      <3>1. Capacity - count' = 0
        BY <1>2, <1>11, <2>1, <2>4 DEF Pb!Sleep
      <3>2. PbEnough(Producers, Capacity - count)'
        BY <3>1, PbComingFinitePrime DEF PbEnough
      <3>3. PbEnough(Consumers, count)'
        BY <1>3, <2>1, <2>2, <2>4 DEF PbEnough
      <3>. QED  BY <1>1, <3>2, <3>3
    <2>. QED  BY <2>3, <2>4 DEF Pb!Threads
  <1>12. ASSUME NEW p \in Producers, Pb!Put(p)
         PROVE  PbWakeInv'
    <2>1. count' = count + 1 /\ pcbPc[p] = "test" /\ Pb!SignalAndLeave(p, Consumers)
      BY <1>12 DEF Pb!Put
    <2>2. /\ PbSleeping(Producers)' = PbSleeping(Producers)
          /\ PbComing(Producers)' = PbComing(Producers) \ {p}
          /\ PbSleeping(Consumers) = {} => PbSleeping(Consumers)' = {}
          /\ PbSleeping(Consumers) # {} => \E s \in PbSleeping(Consumers) :
               PbComing(Consumers)' = PbComing(Consumers) \cup {s} /\ s \notin PbComing(Consumers)
      BY <1>1, <1>3, <2>1, PbSignalEffect
    <2>3. PbSleeping(Consumers)' # {} => count + 1 <= Cardinality(PbComing(Consumers)')
      BY <1>2, <2>2, PbEnoughWoken
    <2>4. PbSleeping(Producers)' # {} => Capacity - count - 1 <= Cardinality(PbComing(Producers)')
      BY <1>2, <2>2, PbEnoughLeaves
    <2>5. Capacity - count' = Capacity - count - 1
      BY <1>2, <2>1
    <2>. QED
      BY <1>1, <2>1, <2>3, <2>4, <2>5 DEF PbEnough
  <1>13. ASSUME NEW c \in Consumers, Pb!Get(c)
         PROVE  PbWakeInv'
    <2>1. count' = count - 1 /\ pcbPc[c] = "test" /\ Pb!SignalAndLeave(c, Producers)
      BY <1>13 DEF Pb!Get
    <2>2. /\ PbSleeping(Consumers)' = PbSleeping(Consumers)
          /\ PbComing(Consumers)' = PbComing(Consumers) \ {c}
          /\ PbSleeping(Producers) = {} => PbSleeping(Producers)' = {}
          /\ PbSleeping(Producers) # {} => \E s \in PbSleeping(Producers) :
               PbComing(Producers)' = PbComing(Producers) \cup {s} /\ s \notin PbComing(Producers)
      <3>1. Producers # Consumers /\ Producers \cap Consumers = {}
        BY <1>3
      <3>. QED  BY <1>1, <2>1, <3>1, PbSignalEffect
    <2>3. PbSleeping(Producers)' # {} => Capacity - count + 1 <= Cardinality(PbComing(Producers)')
      BY <1>2, <2>2, PbEnoughWoken
    <2>4. PbSleeping(Consumers)' # {} => count - 1 <= Cardinality(PbComing(Consumers)')
      BY <1>2, <2>2, PbEnoughLeaves
    <2>5. Capacity - count' = Capacity - count + 1
      BY <1>2, <2>1
    <2>. QED
      BY <1>1, <2>1, <2>3, <2>4, <2>5 DEF PbEnough
  <1>. QED
    BY <1>5, <1>7, <1>8, <1>9, <1>10, <1>11, <1>12, <1>13 DEF Pb!Next

(* WakeInv holds initially: nobody sleeps. *)
LEMMA PbWakeInit == Pb!Init => PbWakeInv
  BY PbTypeInit DEF Pb!Init, PbWakeInv, PbEnough, PbSleeping, Pb!At

(* No wake-up of pcb_put or pcb_get is ever lost, with any number of       *)
(* threads, with spurious wake-ups and with newcomers taking the mutex     *)
(* before the woken thread does.                                           *)
LEMMA PbWakeupsKept == Pb!Spec => []Pb!NoLostWakeup
  <1>1. PbWakeInv => Pb!NoLostWakeup
    <2>. SUFFICES ASSUME PbWakeInv PROVE Pb!NoLostWakeup
      OBVIOUS
    <2>1. \A G \in {Producers, Consumers} : PbComing(G) = {} => Cardinality(PbComing(G)) = 0
      BY FS_EmptySet
    <2>2. count \in Int /\ Capacity \in Int
      BY CapacityAssumption DEF PbWakeInv, Pb!TypeOK
    <2>. QED
      BY <2>1, <2>2 DEF PbWakeInv, PbEnough, Pb!NoLostWakeup, PbSleeping, PbComing
  <1>. QED
    BY <1>1, PbWakeInit, PbWakeStep, PTL DEF Pb!Spec

-----------------------------------------------------------------------------
(* The ring is a FIFO queue.                                               *)

PbRingInv == Pb!TypeOK /\ tail = PbIdx(head + count)

(* tail stays count slots ahead of head. *)
LEMMA PbRingStep ==
    ASSUME PbRingInv, [Pb!Next]_Pb!vars
    PROVE  PbRingInv'
  <1>. USE CapacityAssumption DEF PbRingInv
  <1>1. Pb!TypeOK'
    BY PbTypeStep
  <1>2. CASE UNCHANGED Pb!ring
    BY <1>1, <1>2 DEF Pb!ring
  <1>3. ASSUME NEW p \in Producers, Pb!Put(p)
        PROVE  PbRingInv'
    <2>1. tail' = PbIdx(tail + 1) /\ count' = count + 1 /\ head' = head
      BY <1>3 DEF Pb!Put, PbIdx
    <2>2. count < Capacity
      BY <1>3 DEF Pb!Put, Pb!TypeOK
    <2>3. tail = IF head + count < Capacity THEN head + count ELSE head + count - Capacity
      BY PbWrap DEF Pb!TypeOK
    <2>4. PbIdx(tail + 1) = IF tail + 1 < Capacity THEN tail + 1 ELSE tail + 1 - Capacity
      BY PbWrapOne DEF Pb!TypeOK
    <2>5. count + 1 \in 0..Capacity
      BY <2>2 DEF Pb!TypeOK
    <2>6. PbIdx(head + (count + 1)) =
            IF head + (count + 1) < Capacity THEN head + (count + 1)
                                             ELSE head + (count + 1) - Capacity
      BY <2>5, PbWrap DEF Pb!TypeOK
    <2>7. PbIdx(tail + 1) = PbIdx(head + (count + 1))
      BY <2>2, <2>3, <2>4, <2>6 DEF Pb!TypeOK
    <2>. QED  BY <1>1, <2>1, <2>7
  <1>4. ASSUME NEW c \in Consumers, Pb!Get(c)
        PROVE  PbRingInv'
    <2>1. tail' = tail /\ count' = count - 1 /\ head' = PbIdx(head + 1)
      BY <1>4 DEF Pb!Get, PbIdx
    <2>2. count > 0 /\ count - 1 \in 0..Capacity
      BY <1>4 DEF Pb!Get, Pb!TypeOK
    <2>3. tail = IF head + count < Capacity THEN head + count ELSE head + count - Capacity
      BY PbWrap DEF Pb!TypeOK
    <2>4. PbIdx(head + 1) = IF head + 1 < Capacity THEN head + 1 ELSE head + 1 - Capacity
      BY PbWrapOne DEF Pb!TypeOK
    <2>5. PbIdx(head' + (count - 1)) =
            IF head' + (count - 1) < Capacity THEN head' + (count - 1)
                                              ELSE head' + (count - 1) - Capacity
      BY <1>1, <2>2, PbWrap DEF Pb!TypeOK
    <2>6. tail = PbIdx(head' + (count - 1))
      <3>1. CASE head + 1 < Capacity
        <4>1. head' + (count - 1) = head + count
          BY <2>1, <2>4, <3>1 DEF Pb!TypeOK
        <4>. QED  BY <4>1
      <3>2. CASE ~(head + 1 < Capacity)
        <4>1. head = Capacity - 1 /\ head' = 0
          BY <2>1, <2>4, <3>2 DEF Pb!TypeOK
        <4>2. tail = count - 1
          BY <2>2, <2>3, <4>1 DEF Pb!TypeOK
        <4>. QED  BY <2>2, <2>5, <4>1, <4>2 DEF Pb!TypeOK
      <3>. QED  BY <3>1, <3>2
    <2>. QED  BY <1>1, <2>1, <2>6
  <1>. QED
    BY <1>2, <1>3, <1>4 DEF Pb!Next, Pb!vars, Pb!ring, Pb!EnterPut, Pb!EnterGet, Pb!Sleep,
        Pb!Spurious, Pb!Relock

(* An empty ring has tail at head. *)
LEMMA PbRingInit == Pb!Init => PbRingInv
  BY PbTypeInit, CapacityAssumption, PbWrap DEF Pb!Init, PbRingInv, Pb!TypeOK

PbContentsOK ==
    /\ Pb!Contents \in Seq(Items)
    /\ Len(Pb!Contents) = count
    /\ DOMAIN Pb!Contents = 1..count
    /\ \A i \in 1..count : Pb!Contents[i] = slots[PbIdx(head + i - 1)]

(* The contents are a sequence of items. *)
LEMMA PbContentsType == Pb!TypeOK => PbContentsOK
  <1>. SUFFICES ASSUME Pb!TypeOK PROVE PbContentsOK
    OBVIOUS
  <1>1. count \in Nat
    BY DEF Pb!TypeOK
  <1>2. Pb!Contents = [i \in 1..count |-> slots[PbIdx(head + i - 1)]]
    BY DEF Pb!Contents, PbIdx
  <1>3. ASSUME NEW i \in 1..count
        PROVE  slots[PbIdx(head + i - 1)] \in Items
    <2>1. head + i - 1 = head + (i - 1) /\ i - 1 \in 0..Capacity
      BY CapacityAssumption DEF Pb!TypeOK
    <2>2. PbIdx(head + i - 1) \in 0..(Capacity - 1)
      BY <2>1, PbWrap DEF Pb!TypeOK
    <2>. QED  BY <2>2 DEF Pb!TypeOK
  <1>. QED  BY <1>1, <1>2, <1>3 DEF PbContentsOK

(* So they are after a step. *)
LEMMA PbContentsNext == Pb!TypeOK' => PbContentsOK'
  BY PbContentsType, PTL

(* Putting an item appends it: no live slot is overwritten. *)
LEMMA PbPutAppends ==
    ASSUME PbRingInv, Pb!TypeOK', NEW p \in Producers, Pb!Put(p)
    PROVE  Pb!Contents' = Append(Pb!Contents, item[p])
  <1>. USE CapacityAssumption DEF PbRingInv
  <1>1. /\ tail' = PbIdx(tail + 1) /\ count' = count + 1 /\ head' = head
        /\ slots' = [slots EXCEPT ![tail] = item[p]]
    BY DEF Pb!Put, PbIdx
  <1>2. count < Capacity /\ count \in Nat
    BY DEF Pb!Put, Pb!TypeOK
  <1>3. tail = IF head + count < Capacity THEN head + count ELSE head + count - Capacity
    BY PbWrap DEF Pb!TypeOK
  <1>4. ASSUME NEW i \in 1..count
        PROVE  Pb!Contents'[i] = Pb!Contents[i]
    <2>1. i - 1 \in 0..Capacity /\ head + i - 1 = head + (i - 1)
      BY <1>2 DEF Pb!TypeOK
    <2>2. PbIdx(head + i - 1) =
            IF head + i - 1 < Capacity THEN head + i - 1 ELSE head + i - 1 - Capacity
      BY <2>1, PbWrap DEF Pb!TypeOK
    <2>3. PbIdx(head + i - 1) # tail
      BY <1>2, <1>3, <2>2 DEF Pb!TypeOK
    <2>4. i \in 1..count'
      BY <1>1, <1>2
    <2>5. PbIdx(head + i - 1) \in 0..(Capacity - 1)
      BY <2>1, PbWrap DEF Pb!TypeOK
    <2>. QED  BY <1>1, <2>3, <2>4, <2>5, PbContentsType, PbContentsNext DEF PbContentsOK,
        Pb!TypeOK
  <1>5. Pb!Contents'[count + 1] = item[p]
    <2>1. PbIdx(head + (count + 1) - 1) = tail
      <3>1. head + (count + 1) - 1 = head + count
        BY DEF Pb!TypeOK
      <3>. QED  BY <3>1
    <2>2. count + 1 \in 1..count'
      BY <1>1, <1>2
    <2>. QED  BY <1>1, <2>1, <2>2, PbContentsNext DEF PbContentsOK, Pb!TypeOK
  <1>6. Pb!Contents' \in Seq(Items) /\ Len(Pb!Contents') = count + 1
    BY <1>1, PbContentsNext DEF PbContentsOK
  <1>. QED
    BY <1>2, <1>4, <1>5, <1>6, PbContentsType DEF PbContentsOK

(* Getting an item takes the oldest and leaves the rest in order. *)
LEMMA PbGetTakesHead ==
    ASSUME PbRingInv, Pb!TypeOK', NEW c \in Consumers, Pb!Get(c)
    PROVE  /\ Pb!Contents # <<>>
           /\ Head(Pb!Contents) = slots[head]
           /\ Pb!Contents' = Tail(Pb!Contents)
  <1>. USE CapacityAssumption DEF PbRingInv
  <1>1. count' = count - 1 /\ head' = PbIdx(head + 1) /\ slots' = slots
    BY DEF Pb!Get, PbIdx
  <1>2. count > 0 /\ count \in Nat
    BY DEF Pb!Get, Pb!TypeOK
  <1>3. Pb!Contents \in Seq(Items) /\ Len(Pb!Contents) = count
    BY PbContentsType DEF PbContentsOK
  <1>4. Pb!Contents # <<>> /\ Head(Pb!Contents) = slots[head]
    <2>1. PbIdx(head + 1 - 1) = head
      <3>1. head + 1 - 1 = head + 0
        BY DEF Pb!TypeOK
      <3>2. PbIdx(head + 0) = head
        BY PbWrap DEF Pb!TypeOK
      <3>. QED  BY <3>1, <3>2
    <2>2. Pb!Contents[1] = slots[head]
      BY <1>2, <2>1, PbContentsType DEF PbContentsOK
    <2>. QED  BY <1>2, <1>3, <2>2
  <1>5. ASSUME NEW i \in 1..(count - 1)
        PROVE  Pb!Contents'[i] = Pb!Contents[i + 1]
    <2>1. /\ i - 1 \in 0..Capacity /\ i \in 0..Capacity /\ i \in 1..count'
          /\ i + 1 \in 1..count /\ head + (i + 1) - 1 = head + i
      BY <1>1, <1>2 DEF Pb!TypeOK
    <2>2. PbIdx(head + i) = IF head + i < Capacity THEN head + i ELSE head + i - Capacity
      BY <2>1, PbWrap DEF Pb!TypeOK
    <2>3. head' = IF head + 1 < Capacity THEN head + 1 ELSE head + 1 - Capacity
      BY <1>1, PbWrapOne DEF Pb!TypeOK
    <2>4. PbIdx(head' + (i - 1)) =
            IF head' + (i - 1) < Capacity THEN head' + (i - 1) ELSE head' + (i - 1) - Capacity
      BY <2>1, PbWrap DEF Pb!TypeOK
    <2>5. PbIdx(head' + i - 1) = PbIdx(head + (i + 1) - 1)
      <3>1. head' + i - 1 = head' + (i - 1)
        BY DEF Pb!TypeOK
      <3>. QED  BY <2>1, <2>2, <2>3, <2>4, <3>1 DEF Pb!TypeOK
    <2>. QED  BY <1>1, <2>1, <2>5, PbContentsType, PbContentsNext DEF PbContentsOK
  <1>6. Pb!Contents' \in Seq(Items) /\ Len(Pb!Contents') = count'
    BY PbContentsNext DEF PbContentsOK
  <1>. QED
    BY <1>1, <1>2, <1>3, <1>4, <1>5, <1>6

(* The initial ring is the empty queue. *)
LEMMA PbFifoInit == Pb!Init => Pb!Queue!Init
  BY DEF Pb!Init, Pb!Queue!Init, Pb!Contents

(* Every step of the buffer is a Put, a Get or a stutter of the queue. *)
LEMMA PbFifoStep ==
    ASSUME PbRingInv, Pb!TypeOK', [Pb!Next]_Pb!vars
    PROVE  [Pb!Queue!Next]_(Pb!Queue!fifoVars)
  <1>. USE DEF PbRingInv
  <1>1. ASSUME NEW p \in Producers, Pb!Put(p)
        PROVE  Pb!Queue!Next
    <2>1. Pb!Contents' = Append(Pb!Contents, item[p]) /\ item[p] \in Items
      BY <1>1, PbPutAppends DEF Pb!TypeOK
    <2>2. Len(Pb!Contents) < Capacity
      BY <1>1, PbContentsType, CapacityAssumption DEF Pb!Put, Pb!TypeOK, PbContentsOK
    <2>3. Pb!Queue!Put(item[p])
      BY <1>1, <2>1, <2>2 DEF Pb!Put, Pb!Queue!Put
    <2>. QED  BY <2>1, <2>3 DEF Pb!Queue!Next
  <1>2. ASSUME NEW c \in Consumers, Pb!Get(c)
        PROVE  Pb!Queue!Next
    <2>1. Pb!Queue!Get(c)
      BY <1>2, PbGetTakesHead DEF Pb!Get, Pb!Queue!Get
    <2>. QED  BY <2>1 DEF Pb!Queue!Next
  <1>3. CASE UNCHANGED <<Pb!ring, pcbGot>>
    BY <1>3 DEF Pb!ring, Pb!Contents, Pb!Queue!fifoVars
  <1>. QED
    BY <1>1, <1>2, <1>3 DEF Pb!Next, Pb!vars, Pb!ring, Pb!EnterPut, Pb!EnterGet, Pb!Sleep,
        Pb!Spurious, Pb!Relock

(* The ring of pcbuffer.c implements the bounded FIFO queue. *)
LEMMA PbRefinement == Pb!Spec => Pb!ImplementsFifo
  BY PbFifoInit, PbFifoStep, PbRingInit, PbRingStep, PbTypeStep, PTL
     DEF Pb!Spec, Pb!ImplementsFifo, Pb!Queue!Spec, PbRingInv

-----------------------------------------------------------------------------
(* Launcher.                                                               *)

LaPlaces == {"clone", "signal", "maps", "cgroup", "admit", "release", "wait", "gone"}
LaChildPlaces == {"none", "read", "prctl", "setup", "run", "gone"}

LaTypeInv ==
    /\ launchPc \in LaPlaces /\ cpc \in LaChildPlaces
    /\ userns \in BOOLEAN /\ limits \in BOOLEAN /\ maps \in BOOLEAN
    /\ byte \in BOOLEAN /\ armed \in BOOLEAN

LaMapped == userns => maps
LaLimited == limits => cgroup = "joined"

(* The launcher does one thing after the other; until it releases the      *)
(* child, the child is at the pipe.                                        *)
LaOrderInv ==
    /\ launchPc = "clone" => cpc = "none"
    /\ launchPc \notin {"wait", "gone"} => ~byte /\ cpc \in {"none", "read", "gone"}
    /\ launchPc \in {"cgroup", "admit", "release"} => LaMapped
    /\ launchPc = "release" => LaLimited

(* A child that is past the pipe, or will be, has its maps and limits; one *)
(* past prctl dies with the launcher.                                      *)
LaChildInv ==
    /\ (byte /\ cpc = "read") \/ cpc \in {"prctl", "setup", "run"} => LaMapped /\ LaLimited
    /\ cpc \in {"setup", "run"} => armed \/ launchPc = "gone"

LaIInv == LaTypeInv /\ LaOrderInv /\ LaChildInv

(* The last part of the promise, as an action. *)
LaDiesToo == ~La!Left /\ La!Left' /\ cpc \in {"setup", "run"} => ~La!Alive'

LEMMA LaInit == La!Init => LaIInv
BY DEF La!Init, LaIInv, LaTypeInv, LaOrderInv, LaChildInv, LaPlaces, LaChildPlaces

(* Every step of launcher and child, and every death, keeps it. *)
LEMMA LaStep == LaIInv /\ [La!Next]_La!vars => LaIInv' /\ LaDiesToo
<1> SUFFICES ASSUME LaIInv, [La!Next]_La!vars PROVE LaIInv' /\ LaDiesToo
  OBVIOUS
<1> USE DEF LaIInv, LaTypeInv, LaOrderInv, LaChildInv, LaPlaces, LaChildPlaces, LaMapped,
            LaLimited, LaDiesToo, La!Left, La!Alive
<1>1. CASE La!Clone  BY <1>1 DEF La!Clone
<1>2. CASE La!Handlers \/ La!WriteMaps  BY <1>2 DEF La!Handlers, La!WriteMaps
<1>3. CASE La!MakeCgroup  BY <1>3 DEF La!MakeCgroup
<1>4. CASE La!Admit  BY <1>4 DEF La!Admit
<1>5. CASE La!Release  BY <1>5 DEF La!Release
<1>6. CASE La!Reap  BY <1>6 DEF La!Reap, La!Ends
<1>7. CASE La!SetupFails  BY <1>7 DEF La!SetupFails, La!Ends
<1>8. CASE La!OnSignal  BY <1>8 DEF La!OnSignal
<1>9. CASE La!Killed  BY <1>9 DEF La!Killed, La!Ends
<1>10. CASE La!ChildStep
  <2>1. CASE La!Read  BY <2>1 DEF La!Read
  <2>2. CASE La!Arm
    <3>1. /\ armed' = (launchPc # "gone") /\ cpc = "prctl" /\ cpc' = "setup"
          /\ UNCHANGED <<userns, limits, launchPc, byte, maps, cgroup>>
      BY <2>2 DEF La!Arm
    <3>2. armed' \in BOOLEAN  BY <3>1
    <3>3. LaTypeInv' /\ LaOrderInv'  BY <3>1, <3>2
    <3>4. LaChildInv' /\ LaDiesToo  BY <3>1
    <3> QED  BY <3>3, <3>4
  <2>3. CASE La!Setup  BY <2>3 DEF La!Setup
  <2> QED  BY <1>10, <2>1, <2>2, <2>3 DEF La!ChildStep
<1>11. CASE La!ChildEnds  BY <1>11 DEF La!ChildEnds
<1>12. CASE UNCHANGED La!vars  BY <1>12 DEF La!vars
<1> QED
  BY <1>1, <1>2, <1>3, <1>4, <1>5, <1>6, <1>7, <1>8, <1>9, <1>10, <1>11, <1>12
  DEF La!Next, La!LauncherStep, La!Done

LEMMA LaContained == La!Spec => La!Contained
<1>1. La!Init => LaIInv  BY LaInit
<1>2. LaIInv /\ [La!Next]_La!vars => LaIInv'  BY LaStep
<1>3. LaIInv => (cpc \in {"prctl", "setup", "run"} =>
                    (userns => maps) /\ (limits => cgroup = "joined"))
  BY DEF LaIInv, LaChildInv, LaMapped, LaLimited
<1>4. LaIInv /\ [La!Next]_La!vars =>
          [~La!Left /\ La!Left' /\ cpc \in {"setup", "run"} => ~La!Alive']_La!vars
  BY LaStep DEF LaDiesToo
<1> QED  BY <1>1, <1>2, <1>3, <1>4, PTL DEF La!Spec, La!Contained

-----------------------------------------------------------------------------
(* Uthread, for a table of any size.                                       *)

UtTypeInv ==
    /\ state \in [Ut!Slots -> {"FREE", "RUNNABLE", "RUNNING", "ZOMBIE"}]
    /\ tid \in [Ut!Slots -> Nat] /\ next_tid \in Nat
    /\ utQueue \in Seq(Ut!Slots) /\ passed \in [Ut!Slots -> SUBSET Nat]
    /\ on \in {"main", "sched", "thread"} /\ t \in Ut!Slots \cup {0}

(* The entry t is the scheduler's business; the others are free or ready.  *)
UtTurnInv ==
    /\ on = "main" => t = 0
    /\ on = "thread" => t # 0 /\ state[t] = "RUNNING"
    /\ on = "sched" /\ t # 0 => state[t] \in {"RUNNABLE", "ZOMBIE"}
    /\ \A i \in Ut!Slots : i # t => state[i] \in {"FREE", "RUNNABLE"}
    /\ stack = {i \in Ut!Slots : state[i] # "FREE"}

(* No two threads of the table have the same number. *)
UtTidInv ==
    \A i \in Ut!Slots : state[i] # "FREE" =>
        /\ tid[i] < next_tid
        /\ \A j \in Ut!Slots : state[j] # "FREE" /\ tid[j] = tid[i] => j = i

(* Who is ahead in the queue has not run since the others were queued. *)
UtOrderInv ==
    \A j, h \in DOMAIN utQueue : j < h => tid[utQueue[j]] \notin passed[utQueue[h]]

UtOnce == \A j, h \in DOMAIN utQueue : j # h => utQueue[j] # utQueue[h]

UtIInv == UtTypeInv /\ UtTurnInv /\ Ut!QueueExact /\ UtTidInv /\ UtOrderInv

(* The last part of the promise, as an action. *)
UtTurns ==
    on' = "thread" /\ on = "sched"
        => \A i \in Ut!Slots \ {t'} : Ut!Queued(i) => tid[t'] \notin passed[i]

(* At the end of the queue. *)
LEMMA UtEnqueue ==
    ASSUME UtTypeInv, UtOnce, UtOrderInv, NEW i \in Ut!Slots, ~Ut!Queued(i), Ut!enqueue(i),
           \A j \in Ut!Slots : j # i => tid'[j] = tid[j]
    PROVE  /\ utQueue' \in Seq(Ut!Slots) /\ passed' \in [Ut!Slots -> SUBSET Nat]
           /\ \A j \in Ut!Slots : Ut!Queued(j)' <=> Ut!Queued(j) \/ j = i
           /\ UtOnce' /\ UtOrderInv'
<1> DEFINE n == Len(utQueue)
<1>1. /\ utQueue \in Seq(Ut!Slots) /\ n \in Nat /\ DOMAIN utQueue = 1..n
      /\ passed \in [Ut!Slots -> SUBSET Nat]
      /\ utQueue' = Append(utQueue, i) /\ passed' = [passed EXCEPT ![i] = {}]
  BY DEF UtTypeInv, Ut!enqueue
<1>2. /\ utQueue' \in Seq(Ut!Slots) /\ DOMAIN utQueue' = 1..(n + 1)
      /\ utQueue'[n + 1] = i
      /\ \A h \in 1..n : utQueue'[h] = utQueue[h] /\ utQueue[h] \in Ut!Slots /\ utQueue[h] # i
  BY <1>1 DEF Ut!Queued
<1> HIDE DEF n
<1>3. passed' \in [Ut!Slots -> SUBSET Nat] /\ passed'[i] = {}
      /\ \A j \in Ut!Slots : j # i => passed'[j] = passed[j]
  BY <1>1
<1>4. ASSUME NEW j \in Ut!Slots PROVE Ut!Queued(j)' <=> Ut!Queued(j) \/ j = i
  <2>1. Ut!Queued(j) => \E h \in 1..(n + 1) : utQueue'[h] = j
    BY <1>1, <1>2 DEF Ut!Queued
  <2>2. n + 1 \in 1..(n + 1)  BY <1>1
  <2>3. \A h \in 1..(n + 1) : h \in 1..n \/ h = n + 1  BY <1>1
  <2> QED  BY <1>1, <1>2, <2>1, <2>2, <2>3 DEF Ut!Queued
<1>5. UtOnce'
  BY <1>1, <1>2 DEF UtOnce
<1>6. ASSUME NEW j \in DOMAIN utQueue', NEW h \in DOMAIN utQueue', j < h
      PROVE  tid'[utQueue'[j]] \notin passed'[utQueue'[h]]
  <2>1. j \in 1..n /\ utQueue'[j] = utQueue[j] /\ tid'[utQueue[j]] = tid[utQueue[j]]
    BY <1>1, <1>2, <1>6
  <2>2. CASE h = n + 1  BY <1>2, <1>3, <2>2
  <2>3. CASE h \in 1..n
    BY <1>1, <1>2, <1>3, <1>6, <2>1, <2>3 DEF UtOrderInv
  <2> QED  BY <1>1, <1>2, <2>2, <2>3
<1> QED  BY <1>2, <1>3, <1>4, <1>5, <1>6 DEF UtOrderInv

(* At its head. *)
LEMMA UtDequeue ==
    ASSUME UtTypeInv, UtOnce, UtOrderInv, utQueue # <<>>, t' = Head(utQueue),
           utQueue' = Tail(utQueue)
    PROVE  /\ t' \in Ut!Slots /\ Ut!Queued(t') /\ utQueue' \in Seq(Ut!Slots)
           /\ \A j \in Ut!Slots : Ut!Queued(j)' <=> Ut!Queued(j) /\ j # t'
           /\ UtOnce'
           /\ \A j \in Ut!Slots : Ut!Queued(j) /\ j # t' => tid[t'] \notin passed[j]
           /\ \A j, h \in DOMAIN utQueue' : j < h =>
                  tid[utQueue'[j]] \notin passed[utQueue'[h]] /\ utQueue'[h] # t'
<1> DEFINE n == Len(utQueue)
<1>1. /\ utQueue \in Seq(Ut!Slots) /\ n \in Nat /\ n >= 1 /\ DOMAIN utQueue = 1..n
      /\ t' = utQueue[1] /\ \A h \in 1..n : utQueue[h] \in Ut!Slots
  BY DEF UtTypeInv
<1>2. /\ utQueue' \in Seq(Ut!Slots) /\ DOMAIN utQueue' = 1..(n - 1)
      /\ \A h \in 1..(n - 1) : utQueue'[h] = utQueue[h + 1]
  BY <1>1
<1> HIDE DEF n
<1>3. \A h \in 1..n : h = 1 \/ (h - 1 \in 1..(n - 1) /\ utQueue'[h - 1] = utQueue[h])
  <2> SUFFICES ASSUME NEW h \in 1..n, h # 1
               PROVE  h - 1 \in 1..(n - 1) /\ utQueue'[h - 1] = utQueue[h]
    OBVIOUS
  <2>1. h - 1 \in 1..(n - 1) /\ (h - 1) + 1 = h  BY <1>1
  <2> QED  BY <1>2, <2>1
<1>4. \A h \in 1..(n - 1) : h + 1 \in 1..n /\ h + 1 # 1  BY <1>1
<1>5. ASSUME NEW j \in Ut!Slots PROVE Ut!Queued(j)' <=> Ut!Queued(j) /\ j # t'
  <2>1. ASSUME NEW h \in 1..(n - 1), utQueue'[h] = j PROVE Ut!Queued(j) /\ j # t'
    <3>1. h + 1 \in 1..n /\ h + 1 # 1 /\ 1 \in 1..n /\ utQueue[h + 1] = j
      BY <1>1, <1>2, <1>4, <2>1
    <3> QED  BY <1>1, <3>1 DEF Ut!Queued, UtOnce
  <2>2. ASSUME NEW h \in 1..n, utQueue[h] = j, j # t' PROVE Ut!Queued(j)'
    <3>1. h - 1 \in 1..(n - 1) /\ utQueue'[h - 1] = j  BY <1>1, <1>3, <2>2
    <3> QED  BY <1>2, <3>1 DEF Ut!Queued
  <2> QED  BY <1>1, <1>2, <2>1, <2>2 DEF Ut!Queued
<1>6. UtOnce'
  <2>1. \A j, h \in 1..(n - 1) : j # h => j + 1 # h + 1  BY <1>1
  <2> QED  BY <1>1, <1>2, <1>4, <2>1 DEF UtOnce
<1>7. ASSUME NEW j \in Ut!Slots, Ut!Queued(j), j # t' PROVE tid[t'] \notin passed[j]
  <2>1. PICK h \in 1..n : utQueue[h] = j  BY <1>1, <1>7 DEF Ut!Queued
  <2>2. 1 \in 1..n /\ 1 < h  BY <1>1, <1>7, <2>1
  <2> QED  BY <1>1, <2>1, <2>2 DEF UtOrderInv
<1>8. ASSUME NEW j \in DOMAIN utQueue', NEW h \in DOMAIN utQueue', j < h
      PROVE  tid[utQueue'[j]] \notin passed[utQueue'[h]] /\ utQueue'[h] # t'
  <2>1. j + 1 \in 1..n /\ h + 1 \in 1..n /\ 1 \in 1..n /\ j + 1 < h + 1 /\ h + 1 # 1
    BY <1>1, <1>2, <1>8
  <2> QED  BY <1>1, <1>2, <1>8, <2>1 DEF UtOrderInv, UtOnce
<1>9. t' \in Ut!Slots /\ Ut!Queued(t')
  <2>1. 1 \in 1..n  BY <1>1
  <2> QED  BY <1>1, <2>1 DEF Ut!Queued
<1> QED  BY <1>2, <1>5, <1>6, <1>7, <1>8, <1>9

LEMMA UtInit == Ut!Init => UtIInv
<1> SUFFICES ASSUME Ut!Init PROVE UtIInv
  OBVIOUS
<1>1. utQueue = <<>> /\ utQueue \in Seq(Ut!Slots) /\ DOMAIN utQueue = {}
  BY DEF Ut!Init
<1> QED
  BY <1>1 DEF Ut!Init, UtIInv, UtTypeInv, UtTurnInv, Ut!QueueExact, Ut!Queued, UtTidInv,
      UtOrderInv

LEMMA UtCreateKeeps ==
    ASSUME UtIInv, NEW i \in Ut!Slots, Ut!uthread_create(i)
    PROVE  UtIInv'
<1>0. UtTypeInv /\ UtTurnInv /\ UtTidInv /\ UtOrderInv /\ UtOnce /\ Ut!QueueExact
  BY DEF UtIInv, Ut!QueueExact, UtOnce
<1>1. /\ on # "sched" /\ state[i] = "FREE" /\ stack' = stack \cup {i}
      /\ tid' = [tid EXCEPT ![i] = next_tid] /\ next_tid' = next_tid + 1
      /\ state' = [state EXCEPT ![i] = "RUNNABLE"]
      /\ Ut!enqueue(i) /\ UNCHANGED <<on, t>>
  BY DEF Ut!uthread_create
<1>2. i # t /\ ~Ut!Queued(i)
  BY <1>0, <1>1 DEF UtTypeInv, UtTurnInv, Ut!QueueExact, Ut!Slots
<1>3. \A j \in Ut!Slots : j # i => tid'[j] = tid[j]
  BY <1>0, <1>1 DEF UtTypeInv
<1>4. /\ utQueue' \in Seq(Ut!Slots) /\ passed' \in [Ut!Slots -> SUBSET Nat]
      /\ \A j \in Ut!Slots : Ut!Queued(j)' <=> Ut!Queued(j) \/ j = i
      /\ UtOnce' /\ UtOrderInv'
  BY <1>0, <1>1, <1>2, <1>3, UtEnqueue
<1>5. UtTypeInv'
  <2>1. next_tid' \in Nat /\ tid' \in [Ut!Slots -> Nat]  BY <1>0, <1>1 DEF UtTypeInv
  <2>2. state' \in [Ut!Slots -> {"FREE", "RUNNABLE", "RUNNING", "ZOMBIE"}]
    BY <1>0, <1>1 DEF UtTypeInv
  <2> QED  BY <1>0, <1>1, <1>4, <2>1, <2>2 DEF UtTypeInv
<1>6. UtTurnInv'  BY <1>0, <1>1, <1>2 DEF UtTypeInv, UtTurnInv
<1>7. UtTidInv'  BY <1>0, <1>1 DEF UtTypeInv, UtTidInv
<1>8. Ut!QueueExact'
  <2>1. \A j \in Ut!Slots : Ut!Queued(j)' <=> (state'[j] = "RUNNABLE" /\ j # t')
    BY <1>0, <1>1, <1>2, <1>4 DEF UtTypeInv, Ut!QueueExact
  <2> QED  BY <1>4, <2>1 DEF Ut!QueueExact, UtOnce
<1> QED  BY <1>4, <1>5, <1>6, <1>7, <1>8 DEF UtIInv

LEMMA UtDispatchKeeps == ASSUME UtIInv, Ut!Dispatch PROVE UtIInv' /\ UtTurns
<1>0. UtTypeInv /\ UtTurnInv /\ UtTidInv /\ UtOrderInv /\ UtOnce /\ Ut!QueueExact
  BY DEF UtIInv, Ut!QueueExact, UtOnce
<1>1. /\ on = "sched" /\ t = 0 /\ utQueue # <<>>
      /\ t' = Head(utQueue) /\ utQueue' = Tail(utQueue)
      /\ state' = [state EXCEPT ![t'] = "RUNNING"]
      /\ passed' = [i \in Ut!Slots |-> passed[i] \cup {tid[t']}]
      /\ on' = "thread" /\ UNCHANGED <<tid, next_tid, stack>>
  BY DEF Ut!Dispatch
<1>2. /\ t' \in Ut!Slots /\ Ut!Queued(t') /\ utQueue' \in Seq(Ut!Slots)
      /\ \A j \in Ut!Slots : Ut!Queued(j)' <=> Ut!Queued(j) /\ j # t'
      /\ UtOnce'
      /\ \A j \in Ut!Slots : Ut!Queued(j) /\ j # t' => tid[t'] \notin passed[j]
      /\ \A j, h \in DOMAIN utQueue' : j < h =>
             tid[utQueue'[j]] \notin passed[utQueue'[h]] /\ utQueue'[h] # t'
  BY <1>0, <1>1, UtDequeue
<1>3. state[t'] = "RUNNABLE" /\ t' # 0
  BY <1>0, <1>2 DEF Ut!QueueExact, Ut!Slots
<1>4. UtTypeInv'  BY <1>0, <1>1, <1>2 DEF UtTypeInv
<1>5. UtTurnInv'  BY <1>0, <1>1, <1>2, <1>3 DEF UtTypeInv, UtTurnInv, Ut!Slots
<1>6. UtTidInv'  BY <1>0, <1>1, <1>2, <1>3 DEF UtTypeInv, UtTidInv
<1>7. Ut!QueueExact'
  <2>1. \A j \in Ut!Slots : Ut!Queued(j)' <=> (state'[j] = "RUNNABLE" /\ j # t')
    BY <1>0, <1>1, <1>2, <1>3 DEF UtTypeInv, Ut!QueueExact, Ut!Slots
  <2> QED  BY <1>2, <2>1 DEF Ut!QueueExact, UtOnce
<1>8. ASSUME NEW j \in DOMAIN utQueue', NEW h \in DOMAIN utQueue', j < h
      PROVE  tid'[utQueue'[j]] \notin passed'[utQueue'[h]]
  <2>1. utQueue'[j] \in Ut!Slots /\ utQueue'[h] \in Ut!Slots
    BY <1>2
  <2>2. PICK i \in Ut!Slots : i = utQueue'[j]  BY <2>1
  <2>3. utQueue'[j] # t' /\ state[utQueue'[j]] = "RUNNABLE"
    <3>1. Ut!Queued(i)'  BY <2>2 DEF Ut!Queued
    <3>2. Ut!Queued(i) /\ i # t'  BY <1>2, <3>1
    <3> QED  BY <1>0, <2>2, <3>2 DEF Ut!QueueExact
  <2>4. tid[utQueue'[j]] # tid[t']
    BY <1>0, <1>2, <1>3, <2>1, <2>3 DEF UtTidInv
  <2> QED  BY <1>1, <1>2, <1>8, <2>1, <2>4
<1>9. UtOrderInv'  BY <1>8 DEF UtOrderInv
<1>10. UtTurns  BY <1>2 DEF UtTurns
<1> QED  BY <1>4, <1>5, <1>6, <1>7, <1>9, <1>10 DEF UtIInv

LEMMA UtBackKeeps == ASSUME UtIInv, Ut!Back PROVE UtIInv'
<1>0. UtTypeInv /\ UtTurnInv /\ UtTidInv /\ UtOrderInv /\ UtOnce /\ Ut!QueueExact
  BY DEF UtIInv, Ut!QueueExact, UtOnce
<1>1. /\ on = "sched" /\ t # 0 /\ t' = 0 /\ UNCHANGED <<tid, next_tid, on>>
      /\ t \in Ut!Slots /\ state[t] \in {"RUNNABLE", "ZOMBIE"} /\ ~Ut!Queued(t)
  BY <1>0 DEF Ut!Back, UtTypeInv, UtTurnInv, Ut!QueueExact
<1>2. CASE state[t] = "RUNNABLE"
  <2>1. Ut!enqueue(t) /\ UNCHANGED <<state, stack>>
    BY <1>2 DEF Ut!Back
  <2>2. /\ utQueue' \in Seq(Ut!Slots) /\ passed' \in [Ut!Slots -> SUBSET Nat]
        /\ \A j \in Ut!Slots : Ut!Queued(j)' <=> Ut!Queued(j) \/ j = t
        /\ UtOnce' /\ UtOrderInv'
    BY <1>0, <1>1, <2>1, UtEnqueue
  <2>3. UtTypeInv' /\ UtTurnInv' /\ UtTidInv'
    BY <1>0, <1>1, <1>2, <2>1, <2>2 DEF UtTypeInv, UtTurnInv, UtTidInv
  <2>4. Ut!QueueExact'
    <3>1. \A j \in Ut!Slots : Ut!Queued(j)' <=> (state'[j] = "RUNNABLE" /\ j # t')
      BY <1>0, <1>1, <1>2, <2>1, <2>2 DEF Ut!QueueExact, Ut!Slots
    <3> QED  BY <2>2, <3>1 DEF Ut!QueueExact, UtOnce
  <2> QED  BY <2>2, <2>3, <2>4 DEF UtIInv
<1>3. CASE state[t] # "RUNNABLE"
  <2>1. /\ state' = [state EXCEPT ![t] = "FREE"] /\ stack' = stack \ {t}
        /\ UNCHANGED <<utQueue, passed>>
    BY <1>3 DEF Ut!Back
  <2>2. UtTypeInv'  BY <1>0, <1>1, <2>1 DEF UtTypeInv
  <2>3. UtTurnInv'  BY <1>0, <1>1, <2>1 DEF UtTypeInv, UtTurnInv
  <2>4. UtTidInv'  BY <1>0, <1>1, <2>1 DEF UtTypeInv, UtTidInv
  <2>5. UtOrderInv'  BY <1>0, <1>1, <2>1 DEF UtOrderInv
  <2>6. Ut!QueueExact'
    BY <1>0, <1>1, <1>3, <2>1 DEF UtTypeInv, Ut!QueueExact, Ut!Queued, Ut!Slots
  <2> QED  BY <2>2, <2>3, <2>4, <2>5, <2>6 DEF UtIInv
<1> QED  BY <1>2, <1>3

LEMMA UtSwitchKeeps ==
    ASSUME UtIInv, Ut!uthread_yield \/ Ut!uthread_exit
    PROVE  UtIInv'
<1>0. UtTypeInv /\ UtTurnInv /\ UtTidInv /\ UtOrderInv /\ Ut!QueueExact
  BY DEF UtIInv
<1>1. PICK s \in {"RUNNABLE", "ZOMBIE"} : Ut!Switch(s)
  BY DEF Ut!uthread_yield, Ut!uthread_exit
<1>2. /\ on = "thread" /\ state' = [state EXCEPT ![t] = s] /\ on' = "sched"
      /\ UNCHANGED <<tid, next_tid, stack, utQueue, t, passed>>
      /\ t # 0 /\ t \in Ut!Slots /\ state[t] = "RUNNING"
  BY <1>0, <1>1 DEF Ut!Switch, UtTypeInv, UtTurnInv
<1>3. UtTypeInv' /\ UtTurnInv'  BY <1>0, <1>2 DEF UtTypeInv, UtTurnInv
<1>4. UtTidInv'  BY <1>0, <1>2 DEF UtTypeInv, UtTidInv
<1>5. UtOrderInv'  BY <1>0, <1>2 DEF UtOrderInv
<1>6. Ut!QueueExact'
  BY <1>0, <1>2 DEF UtTypeInv, Ut!QueueExact, Ut!Queued
<1> QED  BY <1>3, <1>4, <1>5, <1>6 DEF UtIInv

LEMMA UtStep == ASSUME UtIInv, [Ut!Next]_Ut!vars PROVE UtIInv' /\ UtTurns
<1>1. CASE UNCHANGED Ut!vars \/ Ut!uthread_run \/ Ut!Return
  <2>1. /\ UNCHANGED <<state, tid, next_tid, stack, utQueue, passed>>
        /\ (UNCHANGED <<on, t>>) \/ (on = "main" /\ on' = "sched" /\ t' = 0)
           \/ (on = "sched" /\ t = 0 /\ on' = "main" /\ t' = t)
    BY <1>1 DEF Ut!vars, Ut!uthread_run, Ut!Return
  <2>2. UtTypeInv' /\ UtTurnInv' /\ t' = t  BY <2>1 DEF UtIInv, UtTypeInv, UtTurnInv
  <2>3. UtTidInv' /\ UtOrderInv' /\ Ut!QueueExact'
    BY <2>1, <2>2 DEF UtIInv, UtTidInv, UtOrderInv, Ut!QueueExact, Ut!Queued
  <2> QED  BY <2>1, <2>2, <2>3 DEF UtIInv, UtTurns
<1>2. ASSUME NEW i \in Ut!Slots, Ut!uthread_create(i) PROVE UtIInv' /\ UtTurns
  BY <1>2, UtCreateKeeps DEF Ut!uthread_create, UtTurns
<1>3. CASE Ut!Dispatch  BY <1>3, UtDispatchKeeps
<1>4. CASE Ut!uthread_yield \/ Ut!uthread_exit
  BY <1>4, UtSwitchKeeps DEF Ut!uthread_yield, Ut!uthread_exit, Ut!Switch, UtTurns
<1>5. CASE Ut!Back
  BY <1>5, UtBackKeeps DEF Ut!Back, UtTurns
<1> QED  BY <1>1, <1>2, <1>3, <1>4, <1>5 DEF Ut!Next

LEMMA UtRoundRobin == Ut!Spec => Ut!RoundRobin
<1>1. Ut!Init => UtIInv  BY UtInit
<1>2. UtIInv /\ [Ut!Next]_Ut!vars => UtIInv'  BY UtStep
<1>3. UtIInv => Ut!StacksKept /\ Ut!QueueExact
  BY DEF UtIInv, UtTypeInv, UtTurnInv, Ut!StacksKept
<1>4. UtIInv /\ [Ut!Next]_Ut!vars =>
          [on' = "thread" /\ on = "sched"
             => \A i \in Ut!Slots \ {t'} : Ut!Queued(i) => tid[t'] \notin passed[i]]_Ut!vars
  BY UtStep DEF UtTurns
<1> QED  BY <1>1, <1>2, <1>3, <1>4, PTL DEF Ut!Spec, Ut!RoundRobin

-----------------------------------------------------------------------------
(* Heap, for an arena of any length.                                       *)

HpTypeInv ==
    /\ size \in [Hp!Addr -> Nat]
    /\ flags \in [Hp!Addr -> {"free", "used", "none"}]
    /\ free \subseteq Hp!Addr /\ live \subseteq Hp!Addr

HpIInv == HpTypeInv /\ Hp!HeapTiled

(* What the parts of the property say of the blocks. *)
LEMMA HpFacts ==
    ASSUME Hp!ArenaAssumption, HpIInv
    PROVE  /\ Arena \in Nat /\ Arena >= 2
           /\ \A a \in Hp!Blocks : /\ a \in Nat /\ a < Arena /\ a \in Hp!Addr /\ size[a] \in Nat
                                   /\ size[a] >= 1
                                   /\ Hp!EndOf(a) \in Nat /\ Hp!EndOf(a) > a + 1
                                   /\ Hp!EndOf(a) <= Arena
                                   /\ \A b \in Hp!Blocks : a < b => Hp!EndOf(a) <= b
           /\ \A u \in Hp!Addr : \E a \in Hp!Blocks : a <= u /\ u < Hp!EndOf(a)
           /\ \A a \in Hp!Addr : flags[a] = "used" <=> a \in live
           /\ \A a \in free : flags[a] = "free" /\ a \notin live
<1> USE DEF HpIInv, HpTypeInv, Hp!HeapTiled, Hp!ArenaAssumption
<1>1. \A a \in Hp!Addr : flags[a] = "used" <=> a \in live
  BY DEF Hp!UsedMeansOwned
<1>2. \A a \in free : flags[a] = "free" /\ a \notin live
  BY <1>1
<1>3. ASSUME NEW a \in Hp!Blocks
      PROVE  /\ a \in Nat /\ a < Arena /\ a \in Hp!Addr /\ size[a] \in Nat /\ size[a] >= 1
             /\ Hp!EndOf(a) \in Nat /\ Hp!EndOf(a) > a + 1 /\ Hp!EndOf(a) <= Arena
             /\ \A b \in Hp!Blocks : a < b => Hp!EndOf(a) <= b
  <2>1. a \in Hp!Addr /\ size[a] \in Nat  BY DEF Hp!Blocks
  <2>2. size[a] >= 1 /\ Hp!EndOf(a) <= Arena  BY DEF Hp!InArena
  <2>3. a \in Nat /\ a < Arena  BY <2>1 DEF Hp!Addr
  <2> QED  BY <2>1, <2>2, <2>3 DEF Hp!EndOf, Hp!Disjoint
<1> QED  BY <1>1, <1>2, <1>3 DEF Hp!Covered

(* The invariant again, from the same facts of the next state. *)
LEMMA HpAgain ==
    ASSUME HpTypeInv',
           \A a \in Hp!Blocks' : (size[a] >= 1 /\ Hp!EndOf(a) <= Arena)',
           \A a, b \in Hp!Blocks' : a < b => Hp!EndOf(a)' <= b,
           \A u \in Hp!Addr : \E a \in Hp!Blocks' : a <= u /\ u < Hp!EndOf(a)',
           \A a \in Hp!Addr : flags'[a] = "used" <=> a \in live',
           \A a \in free' : flags'[a] = "free",
           coalesce_on' => \A a \in free' : Hp!EndOf(a)' \notin free'
    PROVE  HpIInv'
<1>1. Hp!UsedMeansOwned'
  BY DEF Hp!UsedMeansOwned, HpTypeInv
<1> QED
  BY <1>1 DEF HpIInv, Hp!HeapTiled, Hp!InArena, Hp!Disjoint, Hp!Covered, Hp!Coalesced

(* One free block, of all the arena. *)
LEMMA HpInit == ASSUME Hp!ArenaAssumption, Hp!Init PROVE HpIInv
<1> USE DEF Hp!ArenaAssumption
<1>1. /\ size = [a \in Hp!Addr |-> IF a = 0 THEN Arena - 1 ELSE 0]
      /\ flags = [a \in Hp!Addr |-> IF a = 0 THEN "free" ELSE "none"]
      /\ free = {0} /\ live = {}
  BY DEF Hp!Init
<1>2. 0 \in Hp!Addr /\ Hp!Blocks = {0} /\ Arena - 1 \in Nat  BY <1>1 DEF Hp!Addr, Hp!Blocks
<1>3. size[0] = Arena - 1 /\ Hp!EndOf(0) = Arena  BY <1>1, <1>2 DEF Hp!EndOf
<1>4. HpTypeInv  BY <1>1, <1>2 DEF HpTypeInv
<1>5. Hp!InArena /\ Hp!Disjoint  BY <1>2, <1>3 DEF Hp!InArena, Hp!Disjoint
<1>6. Hp!Covered  BY <1>2, <1>3 DEF Hp!Covered, Hp!Addr
<1>7. Hp!UsedMeansOwned  BY <1>1 DEF Hp!UsedMeansOwned
<1>8. Hp!Coalesced
  <2>1. Arena # 0  OBVIOUS
  <2> QED  BY <1>1, <1>3, <2>1 DEF Hp!Coalesced
<1> QED  BY <1>1, <1>2, <1>4, <1>5, <1>6, <1>7, <1>8 DEF HpIInv, Hp!HeapTiled

LEMMA HpResetKeeps == ASSUME Hp!ArenaAssumption, Hp!Reset PROVE HpIInv'
<1> USE DEF Hp!ArenaAssumption
<1>1. /\ size' = [a \in Hp!Addr |-> IF a = 0 THEN Arena - 1 ELSE 0]
      /\ flags' = [a \in Hp!Addr |-> IF a = 0 THEN "free" ELSE "none"]
      /\ free' = {0} /\ live' = {}
  BY DEF Hp!Reset
<1>2. 0 \in Hp!Addr /\ Hp!Blocks' = {0} /\ Arena - 1 \in Nat  BY <1>1 DEF Hp!Addr, Hp!Blocks
<1>3. size'[0] = Arena - 1 /\ Hp!EndOf(0)' = Arena  BY <1>1, <1>2 DEF Hp!EndOf
<1>4. HpTypeInv'  BY <1>1, <1>2 DEF HpTypeInv
<1>5. \A u \in Hp!Addr : 0 <= u /\ u < Arena  BY DEF Hp!Addr
<1>6. flags'[0] = "free" /\ \A a \in Hp!Addr : flags'[a] # "used"  BY <1>1, <1>2
<1> QED
  BY <1>1, <1>2, <1>3, <1>4, <1>5, <1>6, HpAgain

(* mymalloc splits a free block, or takes it whole. *)
LEMMA HpTakeKeeps ==
    ASSUME Hp!ArenaAssumption, HpIInv, NEW b \in free, NEW need \in Nat \ {0}, Hp!Take(b, need)
    PROVE  HpIInv'
<1> USE HpFacts
<1>1. /\ b \in Hp!Blocks /\ b \in Hp!Addr /\ b \in Nat /\ b \notin live /\ size[b] >= need
      /\ size[b] \in Nat /\ HpTypeInv
      /\ live' = live \cup {b} /\ UNCHANGED coalesce_on
  BY DEF Hp!Take, Hp!find_block, Hp!Fits, Hp!Blocks, HpIInv, HpTypeInv
<1>2. CASE Hp!Splits(b, need)
  <2> DEFINE rem == b + 1 + need
  <2>1. /\ size' = [size EXCEPT ![b] = need, ![rem] = size[b] - need - 1]
        /\ flags' = [flags EXCEPT ![b] = "used", ![rem] = "free"]
        /\ free' = (free \ {b}) \cup {rem}
        /\ size[b] >= need + 2
    BY <1>1, <1>2 DEF Hp!Take, Hp!Splits
  <2>2. Hp!EndOf(b) = b + 1 + size[b]  BY DEF Hp!EndOf
  <2>3. rem \in Nat /\ rem > b /\ rem < Hp!EndOf(b) /\ rem \in Hp!Addr /\ rem \notin Hp!Blocks
    <3>1. rem \in Nat /\ rem > b /\ rem < Hp!EndOf(b)  BY <1>1, <2>1, <2>2
    <3>2. rem \in Hp!Addr  BY <1>1, <3>1 DEF Hp!Addr
    <3> QED  BY <1>1, <3>1, <3>2
  <2> HIDE DEF rem
  <2>4. /\ size'[b] = need /\ size'[rem] = size[b] - need - 1
        /\ \A a \in Hp!Addr \ {b, rem} : size'[a] = size[a] /\ flags'[a] = flags[a]
        /\ flags'[b] = "used" /\ flags'[rem] = "free" /\ size[b] - need - 1 \in Nat
    BY <1>1, <2>1, <2>3 DEF HpTypeInv
  <2>5. Hp!Blocks' = Hp!Blocks \cup {rem}
    BY <1>1, <2>1 DEF Hp!Blocks
  <2>6. /\ Hp!EndOf(b)' = rem /\ Hp!EndOf(rem)' = Hp!EndOf(b)
        /\ \A a \in Hp!Blocks \ {b} : Hp!EndOf(a)' = Hp!EndOf(a)
    <3>1. Hp!EndOf(b)' = b + 1 + need
      BY <2>4 DEF Hp!EndOf
    <3>2. Hp!EndOf(rem)' = rem + 1 + (size[b] - need - 1)
      BY <2>4 DEF Hp!EndOf
    <3>3. b + 1 + need = rem /\ rem + 1 + (size[b] - need - 1) = b + 1 + size[b]
      BY <1>1 DEF rem
    <3>4. ASSUME NEW a \in Hp!Blocks \ {b} PROVE Hp!EndOf(a)' = Hp!EndOf(a)
      <4>1. a \in Hp!Addr \ {b, rem}
        BY <2>3 DEF Hp!Blocks
      <4> QED  BY <2>4, <4>1 DEF Hp!EndOf
    <3> QED  BY <2>2, <3>1, <3>2, <3>3, <3>4
  <2>7. HpTypeInv'
    BY <1>1, <2>1, <2>3, <2>4 DEF HpTypeInv
  <2>8. \A a \in Hp!Blocks' : (size[a] >= 1 /\ Hp!EndOf(a) <= Arena)'
    <3> SUFFICES ASSUME NEW a \in Hp!Blocks'
                 PROVE  size'[a] >= 1 /\ Hp!EndOf(a)' <= Arena
      OBVIOUS
    <3>1. CASE a = rem  BY <1>1, <2>1, <2>3, <2>4, <2>6, <3>1
    <3>2. CASE a = b
      <4>1. Hp!EndOf(b) <= Arena /\ Arena \in Nat  BY <1>1
      <4> QED  BY <1>1, <2>2, <2>3, <2>4, <2>6, <3>2, <4>1
    <3>3. CASE a \notin {b, rem}
      <4>1. a \in Hp!Blocks /\ a \in Hp!Addr  BY <2>5, <3>3
      <4> QED  BY <2>4, <2>6, <3>3, <4>1
    <3> QED  BY <3>1, <3>2, <3>3
  <2>9. \A a, c \in Hp!Blocks' : a < c => Hp!EndOf(a)' <= c
    <3> SUFFICES ASSUME NEW a \in Hp!Blocks', NEW c \in Hp!Blocks', a < c
                 PROVE  Hp!EndOf(a)' <= c
      OBVIOUS
    <3>1. CASE a = rem  BY <1>1, <2>3, <2>5, <2>6, <3>1
    <3>2. CASE a = b  BY <1>1, <2>3, <2>5, <2>6, <3>2
    <3>3. CASE a \notin {b, rem}  BY <1>1, <2>3, <2>5, <2>6, <3>3
    <3> QED  BY <3>1, <3>2, <3>3
  <2>10. \A u \in Hp!Addr : \E a \in Hp!Blocks' : a <= u /\ u < Hp!EndOf(a)'
    <3> SUFFICES ASSUME NEW u \in Hp!Addr
                 PROVE  \E a \in Hp!Blocks' : a <= u /\ u < Hp!EndOf(a)'
      OBVIOUS
    <3>1. PICK a \in Hp!Blocks : a <= u /\ u < Hp!EndOf(a)  OBVIOUS
    <3>2. u \in Int  BY DEF Hp!Addr
    <3>3. CASE a # b  BY <2>5, <2>6, <3>1, <3>3
    <3>4. CASE a = b  BY <1>1, <2>3, <2>5, <2>6, <3>1, <3>2, <3>4
    <3> QED  BY <3>3, <3>4
  <2>11. \A a \in Hp!Addr : flags'[a] = "used" <=> a \in live'
    BY <1>1, <2>3, <2>4 DEF Hp!Blocks
  <2>12. \A a \in free' : flags'[a] = "free"
    BY <1>1, <2>1, <2>4 DEF HpTypeInv, Hp!Blocks
  <2>13. coalesce_on' => \A a \in free' : Hp!EndOf(a)' \notin free'
    <3> SUFFICES ASSUME coalesce_on, NEW a \in free' PROVE Hp!EndOf(a)' \notin free'
      BY <1>1
    <3>1. \A c \in free : Hp!EndOf(c) \notin free  BY DEF HpIInv, Hp!HeapTiled, Hp!Coalesced
    <3>2. CASE a = rem
      BY <1>1, <2>1, <2>3, <2>6, <3>1, <3>2
    <3>3. CASE a # rem
      <4>1. a \in free /\ a # b /\ a \in Hp!Blocks  BY <2>1, <3>3 DEF Hp!Blocks
      <4>2. Hp!EndOf(a)' = Hp!EndOf(a) /\ Hp!EndOf(a) \notin free  BY <2>6, <3>1, <4>1
      <4>3. Hp!EndOf(a) # rem
        BY <1>1, <2>3, <4>1
      <4> QED  BY <2>1, <4>2, <4>3
    <3> QED  BY <3>2, <3>3
  <2> QED  BY <2>7, <2>8, <2>9, <2>10, <2>11, <2>12, <2>13, HpAgain
<1>3. CASE ~Hp!Splits(b, need)
  <2>1. /\ flags' = [flags EXCEPT ![b] = "used"] /\ free' = free \ {b} /\ size' = size
    BY <1>3 DEF Hp!Take
  <2>2. Hp!Blocks' = Hp!Blocks  BY <1>1, <2>1 DEF Hp!Blocks
  <2>3. \A a : Hp!EndOf(a)' = Hp!EndOf(a)  BY <2>1 DEF Hp!EndOf
  <2>4. HpTypeInv'  BY <1>1, <2>1 DEF HpTypeInv
  <2>5. \A a \in Hp!Addr : flags'[a] = IF a = b THEN "used" ELSE flags[a]
    BY <1>1, <2>1 DEF HpTypeInv
  <2>6. free \subseteq Hp!Addr  BY <1>1 DEF HpTypeInv
  <2>7. coalesce_on' => \A a \in free' : Hp!EndOf(a)' \notin free'
    BY <1>1, <2>1, <2>3 DEF HpIInv, Hp!HeapTiled, Hp!Coalesced
  <2> QED  BY <1>1, <2>1, <2>2, <2>3, <2>4, <2>5, <2>6, <2>7, HpAgain
<1> QED  BY <1>2, <1>3

(* An owner writes over a header that lies in its payload: no block's. *)
LEMMA HpOverwriteKeeps ==
    ASSUME Hp!ArenaAssumption, HpIInv, NEW b \in live, NEW a \in Hp!Addr, Hp!Overwrite(b, a)
    PROVE  HpIInv'
<1> USE HpFacts
<1>1. /\ a \in Nat /\ b < a /\ a < Hp!EndOf(b) /\ b \in Hp!Blocks /\ HpTypeInv
      /\ flags' = [flags EXCEPT ![a] = "none"] /\ UNCHANGED <<size, free, coalesce_on, live>>
  BY DEF Hp!Overwrite, Hp!Blocks, HpIInv, Hp!Addr
<1>2. a \notin Hp!Blocks  BY <1>1
<1>3. Hp!Blocks' = Hp!Blocks /\ \A c : Hp!EndOf(c)' = Hp!EndOf(c)
  BY <1>1 DEF Hp!Blocks, Hp!EndOf
<1>4. HpTypeInv'  BY <1>1 DEF HpTypeInv
<1>5. \A c \in Hp!Addr : flags'[c] = IF c = a THEN "none" ELSE flags[c]
  BY <1>1 DEF HpTypeInv
<1>6. a \notin live /\ a \notin free /\ free \subseteq Hp!Addr
  BY <1>1, <1>2 DEF Hp!Blocks, HpTypeInv
<1>7. coalesce_on' => \A c \in free' : Hp!EndOf(c)' \notin free'
  BY <1>1, <1>3 DEF HpIInv, Hp!HeapTiled, Hp!Coalesced
<1> QED  BY <1>1, <1>3, <1>4, <1>5, <1>6, <1>7, HpAgain

(* The neighbours of the list that touch h are the blocks that touch it.   *)
LEMMA HpNeighbours ==
    ASSUME Hp!ArenaAssumption, HpIInv, NEW h \in live
    PROVE  /\ \A n \in free : Hp!JoinsNext(h, n) <=> Hp!EndOf(h) = n
           /\ \A p \in free : Hp!JoinsPrev(h, p) <=> Hp!EndOf(p) = h
<1> USE HpFacts
<1>1. h \in Hp!Blocks /\ free \subseteq Hp!Blocks /\ h \notin free  BY DEF Hp!Blocks
<1>2. ASSUME NEW n \in free, Hp!EndOf(h) = n PROVE Hp!Succ(h, n)
  <2>1. n > h  BY <1>1, <1>2
  <2>2. \A a \in free : a <= h \/ a >= n  BY <1>1, <1>2
  <2> QED  BY <2>1, <2>2 DEF Hp!Succ
<1>3. ASSUME NEW p \in free, Hp!EndOf(p) = h PROVE Hp!Pred(h, p)
  <2>1. p < h  BY <1>1, <1>3
  <2>2. \A a \in free : a <= p \/ a >= h  BY <1>1, <1>3
  <2> QED  BY <2>1, <2>2 DEF Hp!Pred
<1> QED  BY <1>2, <1>3 DEF Hp!JoinsNext, Hp!JoinsPrev

(* myfree without merges. *)
LEMMA HpFreeKeeps ==
    ASSUME Hp!ArenaAssumption, HpIInv, NEW h \in live, ~coalesce_on,
           flags' = [flags EXCEPT ![h] = "free"], free' = free \cup {h},
           live' = live \ {h}, UNCHANGED <<size, coalesce_on>>
    PROVE  HpIInv'
<1> USE HpFacts
<1>1. HpTypeInv /\ h \in Hp!Addr  BY DEF HpIInv, HpTypeInv
<1>2. Hp!Blocks' = Hp!Blocks  BY DEF Hp!Blocks
<1>3. \A c : Hp!EndOf(c)' = Hp!EndOf(c)  BY DEF Hp!EndOf
<1>4. HpTypeInv'  BY <1>1 DEF HpTypeInv
<1>5. \A c \in Hp!Addr : flags'[c] = IF c = h THEN "free" ELSE flags[c]
  BY <1>1 DEF HpTypeInv
<1>6. free \subseteq Hp!Addr  BY <1>1 DEF HpTypeInv
<1> QED  BY <1>1, <1>2, <1>3, <1>4, <1>5, <1>6, HpAgain

(* The merges of myfree: the block at m, which begins at h or before it,   *)
(* ends at end after what has been absorbed is gone.                       *)
LEMMA HpMergeKeeps ==
    ASSUME Hp!ArenaAssumption, HpIInv, coalesce_on, NEW h \in live, Hp!Merge(h),
           flags' = [flags EXCEPT ![h] = "free"], live' = live \ {h}, UNCHANGED coalesce_on
    PROVE  HpIInv'
<1> USE HpFacts
<1> DEFINE fwd == {n \in free : Hp!EndOf(h) = n}
           bwd == {p \in free : Hp!EndOf(p) = h}
           end == IF fwd = {} THEN Hp!EndOf(h) ELSE Hp!EndOf(Hp!EndOf(h))
<1>1. HpTypeInv /\ h \in Hp!Addr /\ h \in Hp!Blocks /\ free \subseteq Hp!Blocks /\ h \notin free
  BY DEF HpIInv, HpTypeInv, Hp!Blocks
<1>2. /\ fwd = {n \in free : Hp!JoinsNext(h, n)} /\ bwd = {p \in free : Hp!JoinsPrev(h, p)}
      /\ fwd # {} => fwd = {Hp!EndOf(h)}
  BY HpNeighbours
<1>3. /\ free' = IF bwd = {} THEN (free \ fwd) \cup {h} ELSE free \ fwd
      /\ size' = [a \in Hp!Addr |->
                    IF a \in bwd \/ a = h THEN (IF a = h THEN end - h - 1 ELSE end - a - 1)
                    ELSE size[a]]
  <2>1. fwd # {} => Hp!EndOf(CHOOSE n \in fwd : TRUE) = Hp!EndOf(Hp!EndOf(h))
    BY <1>2
  <2>2. end = IF fwd = {} THEN Hp!EndOf(h) ELSE Hp!EndOf(CHOOSE n \in fwd : TRUE)
    BY <2>1
  <2> QED  BY <1>2, <2>2 DEF Hp!Merge
<1>4. /\ end \in Nat /\ end >= Hp!EndOf(h) /\ end <= Arena /\ h \in Nat /\ end > h + 1
      /\ \A c \in Hp!Blocks \ fwd : c > h => c >= end
      /\ \A c \in fwd : c >= Hp!EndOf(h) /\ Hp!EndOf(c) = end /\ c \in Hp!Blocks /\ c > h
  <2>1. CASE fwd = {}  BY <1>1, <2>1
  <2>2. CASE fwd # {}
    <3>1. Hp!EndOf(h) \in Hp!Blocks /\ fwd = {Hp!EndOf(h)} /\ end = Hp!EndOf(Hp!EndOf(h))
      BY <1>1, <1>2, <2>2
    <3>2. \A c \in Hp!Blocks \ fwd : c > h => c >= end
      BY <1>1, <3>1
    <3> QED  BY <1>1, <3>1, <3>2
  <2> QED  BY <2>1, <2>2
<1>5. /\ \A p \in bwd : p \in Hp!Blocks /\ Hp!EndOf(p) = h /\ p < h /\ p \in free
      /\ \A p, q \in bwd : p = q
      /\ bwd \cap fwd = {}
  BY <1>1, <1>4
<1>6. end \notin free
  <2>1. \A c \in free : Hp!EndOf(c) \notin free  BY DEF HpIInv, Hp!HeapTiled, Hp!Coalesced
  <2>2. CASE fwd = {}  BY <2>2
  <2>3. CASE fwd # {}  BY <1>2, <2>1, <2>3
  <2> QED  BY <2>2, <2>3
<1> HIDE DEF fwd, bwd, end
<1>7. \A a \in Hp!Addr : /\ a \in bwd \/ a = h => Hp!EndOf(a)' = end /\ size'[a] = end - a - 1
                         /\ a \notin bwd /\ a # h => Hp!EndOf(a)' = Hp!EndOf(a) /\ size'[a] = size[a]
  <2> SUFFICES ASSUME NEW a \in Hp!Addr
               PROVE  /\ a \in bwd \/ a = h => Hp!EndOf(a)' = end /\ size'[a] = end - a - 1
                      /\ a \notin bwd /\ a # h => Hp!EndOf(a)' = Hp!EndOf(a) /\ size'[a] = size[a]
    OBVIOUS
  <2>1. a \in Int  BY DEF Hp!Addr
  <2>2. size'[a] = IF a \in bwd \/ a = h THEN end - a - 1 ELSE size[a]  BY <1>3
  <2> QED  BY <1>4, <2>1, <2>2 DEF Hp!EndOf
<1>8. Hp!Blocks' = (Hp!Blocks \ fwd) \ (IF bwd = {} THEN {} ELSE {h})
  <2>1. \A c \in fwd : c \in free /\ c \notin live /\ c # h
    BY <1>1, <1>4 DEF fwd
  <2> QED  BY <1>1, <1>3, <2>1 DEF Hp!Blocks
<1>9. HpTypeInv'
  <2>1. \A a \in Hp!Addr : size'[a] \in Nat
    <3> SUFFICES ASSUME NEW a \in Hp!Addr PROVE size'[a] \in Nat
      OBVIOUS
    <3>1. CASE a = h
      <4>1. size'[a] = end - h - 1  BY <1>7, <3>1
      <4> QED  BY <1>4, <4>1
    <3>2. CASE a \in bwd
      <4>1. size'[a] = end - a - 1 /\ a < h /\ a \in Nat  BY <1>5, <1>7, <3>2
      <4> QED  BY <1>4, <4>1
    <3>3. CASE a \notin bwd /\ a # h  BY <1>1, <1>7, <3>3 DEF HpTypeInv
    <3> QED  BY <3>1, <3>2, <3>3
  <2>2. size' \in [Hp!Addr -> Nat]  BY <1>3, <2>1
  <2> QED  BY <1>1, <1>3, <2>2 DEF HpTypeInv
<1>10. \A a \in Hp!Blocks' : (size[a] >= 1 /\ Hp!EndOf(a) <= Arena)'
  <2> SUFFICES ASSUME NEW a \in Hp!Blocks, a \in Hp!Blocks'
               PROVE  size'[a] >= 1 /\ Hp!EndOf(a)' <= Arena
    BY <1>8
  <2>1. CASE a \in bwd \/ a = h  BY <1>1, <1>4, <1>5, <1>7, <2>1
  <2>2. CASE a \notin bwd /\ a # h  BY <1>7, <2>2
  <2> QED  BY <2>1, <2>2
<1>11. \A a, b \in Hp!Blocks' : a < b => Hp!EndOf(a)' <= b
  <2> SUFFICES ASSUME NEW a \in Hp!Blocks, a \in Hp!Blocks', NEW b \in Hp!Blocks,
                      b \in Hp!Blocks',
                      a < b
               PROVE  Hp!EndOf(a)' <= b
    BY <1>8
  <2>1. CASE a = h  BY <1>1, <1>4, <1>7, <1>8, <2>1
  <2>2. CASE a \in bwd
    <3>1. b >= h /\ b # h  BY <1>1, <1>5, <1>8, <2>2
    <3> QED  BY <1>1, <1>4, <1>7, <1>8, <2>2, <3>1
  <2>3. CASE a \notin bwd /\ a # h  BY <1>7, <2>3
  <2> QED  BY <2>1, <2>2, <2>3
<1>12. \A u \in Hp!Addr : \E a \in Hp!Blocks' : a <= u /\ u < Hp!EndOf(a)'
  <2> SUFFICES ASSUME NEW u \in Hp!Addr
               PROVE  \E a \in Hp!Blocks' : a <= u /\ u < Hp!EndOf(a)'
    OBVIOUS
  <2>1. PICK a \in Hp!Blocks : a <= u /\ u < Hp!EndOf(a)  OBVIOUS
  <2>2. u \in Int /\ a \in Int  BY DEF Hp!Addr
  <2>3. CASE a \in fwd \/ a = h \/ a \in bwd
    <3>1. u < end  BY <1>1, <1>4, <1>5, <2>1, <2>2, <2>3
    <3>2. CASE bwd = {}
      <4>1. h \in Hp!Blocks' /\ Hp!EndOf(h)' = end  BY <1>1, <1>4, <1>7, <1>8, <3>2
      <4>2. h <= u  BY <1>1, <1>4, <2>1, <2>2, <2>3, <3>2
      <4> QED  BY <3>1, <4>1, <4>2
    <3>3. CASE bwd # {}
      <4>1. PICK p : p \in bwd  BY <3>3
      <4>2. p \in Hp!Blocks' /\ Hp!EndOf(p)' = end  BY <1>1, <1>5, <1>7, <1>8, <4>1
      <4>3. (p < h /\ p \in Nat /\ h <= a) \/ a = p
        <5>1. p < h /\ p \in Nat  BY <1>5, <4>1
        <5>2. CASE a \in fwd  BY <1>4, <2>2, <5>1, <5>2
        <5>3. CASE a = h  BY <2>2, <5>1, <5>3
        <5>4. CASE a \in bwd  BY <1>5, <4>1, <5>4
        <5> QED  BY <2>3, <5>2, <5>3, <5>4
      <4>4. p <= u  BY <1>4, <2>1, <2>2, <4>3
      <4> QED  BY <3>1, <4>2, <4>4
    <3> QED  BY <3>2, <3>3
  <2>4. CASE ~(a \in fwd \/ a = h \/ a \in bwd)
    BY <1>7, <1>8, <2>1, <2>4
  <2> QED  BY <2>3, <2>4
<1>13. \A a \in Hp!Addr : flags'[a] = "used" <=> a \in live'
  BY <1>1 DEF HpTypeInv
<1>14. \A a \in free' : flags'[a] = "free"
  BY <1>1, <1>3 DEF HpTypeInv
<1>15. coalesce_on' => \A a \in free' : Hp!EndOf(a)' \notin free'
  <2> SUFFICES ASSUME NEW a \in free' PROVE Hp!EndOf(a)' \notin free'
    OBVIOUS
  <2>1. \A c \in free : Hp!EndOf(c) \notin free  BY DEF HpIInv, Hp!HeapTiled, Hp!Coalesced
  <2>2. a \in Hp!Addr /\ (a = h \/ a \in free)  BY <1>1, <1>3, <1>9 DEF HpTypeInv
  <2>3. CASE a = h \/ a \in bwd
    BY <1>3, <1>4, <1>6, <1>7, <2>2, <2>3
  <2>4. CASE a # h /\ a \notin bwd
    <3>1. a \in free /\ Hp!EndOf(a)' = Hp!EndOf(a) /\ Hp!EndOf(a) \notin free
      BY <1>7, <2>1, <2>2, <2>4
    <3>2. Hp!EndOf(a) # h  BY <2>4, <3>1 DEF bwd
    <3> QED  BY <1>3, <3>1, <3>2
  <2> QED  BY <2>3, <2>4
<1> QED  BY <1>9, <1>10, <1>11, <1>12, <1>13, <1>14, <1>15, HpAgain

LEMMA HpStep == ASSUME Hp!ArenaAssumption, HpIInv, [Hp!Next]_Hp!vars PROVE HpIInv'
<1>1. CASE UNCHANGED Hp!vars \/ \E p \in Hp!Policies : Hp!SetFit(p)
  <2>1. UNCHANGED <<size, flags, free, coalesce_on, live>>
    BY <1>1 DEF Hp!vars, Hp!SetFit
  <2> QED
    BY <2>1 DEF HpIInv, HpTypeInv, Hp!HeapTiled, Hp!InArena, Hp!Disjoint, Hp!Covered,
                Hp!UsedMeansOwned, Hp!Coalesced, Hp!Blocks, Hp!EndOf
<1>2. ASSUME NEW n \in 0..MaxSize, Hp!Malloc(n) PROVE HpIInv'
  <2>1. PICK b \in free : Hp!Take(b, IF n = 0 THEN 1 ELSE n)  BY <1>2 DEF Hp!Malloc
  <2>2. (IF n = 0 THEN 1 ELSE n) \in Nat \ {0}  BY DEF Hp!ArenaAssumption
  <2> QED  BY <2>1, <2>2, HpTakeKeeps
<1>3. ASSUME NEW b \in live, NEW a \in Hp!Addr, Hp!Overwrite(b, a) PROVE HpIInv'
  BY <1>3, HpOverwriteKeeps
<1>4. ASSUME NEW h \in Hp!Addr, Hp!Free(h) PROVE HpIInv'
  <2>1. h \in live  BY <1>4, HpFacts DEF Hp!Free
  <2>2. CASE coalesce_on  BY <1>4, <2>1, <2>2, HpMergeKeeps DEF Hp!Free
  <2>3. CASE ~coalesce_on  BY <1>4, <2>1, <2>3, HpFreeKeeps DEF Hp!Free
  <2> QED  BY <2>2, <2>3
<1>5. CASE Hp!Reset  BY <1>5, HpResetKeeps
<1> QED  BY <1>1, <1>2, <1>3, <1>4, <1>5 DEF Hp!Next

(* The physical walk.  What one call of the walk does, from the function's *)
(* definition: that there is such a function is shown for the last n       *)
(* addresses of the arena, for the least n that would have none.           *)
HpWalkRow(f, p) ==
    IF p = Arena THEN {} ELSE IF Hp!Valid(p) THEN {p} \cup f[Hp!EndOf(p)] ELSE {-1}

HpWalkOf(f, n) == f = [p \in (Arena - n)..Arena |-> HpWalkRow(f, p)]

LEMMA HpWalkExists ==
    ASSUME Hp!ArenaAssumption, HpTypeInv, NEW n \in 0..Arena
    PROVE  \E f : HpWalkOf(f, n)
<1> USE DEF Hp!ArenaAssumption
<1> DEFINE None == {m \in 0..Arena : ~\E f : HpWalkOf(f, m)}
<1> SUFFICES ASSUME None # {} PROVE FALSE
  OBVIOUS
<1>1. PICK m \in None : \A l \in None : m <= l
  <2>1. None \subseteq Nat  OBVIOUS
  <2> HIDE DEF None
  <2> QED  BY <2>1, Least
<1>2. CASE m = 0
  <2> DEFINE f == [p \in (Arena - 0)..Arena |-> {}]
  <2>1. f = [p \in (Arena - 0)..Arena |-> HpWalkRow(f, p)]
    <3>1. \A p \in (Arena - 0)..Arena : HpWalkRow(f, p) = {}  BY DEF HpWalkRow
    <3> QED  BY <3>1
  <2> QED  BY <1>2, <2>1 DEF HpWalkOf
<1>3. CASE m # 0
  <2>1. m - 1 \in 0..Arena /\ m - 1 \notin None  BY <1>1, <1>3
  <2>2. PICK f : HpWalkOf(f, m - 1)  BY <2>1
  <2>3. f = [p \in (Arena - (m - 1))..Arena |-> HpWalkRow(f, p)]  BY <2>2 DEF HpWalkOf
  <2> DEFINE g == [p \in (Arena - m)..Arena |-> IF p = Arena - m THEN HpWalkRow(f, p) ELSE f[p]]
  <2>4. ASSUME NEW p \in (Arena - m)..Arena PROVE HpWalkRow(g, p) = HpWalkRow(f, p)
    <3> SUFFICES ASSUME p # Arena, Hp!Valid(p) PROVE g[Hp!EndOf(p)] = f[Hp!EndOf(p)]
      BY DEF HpWalkRow
    <3>1. p \in Hp!Addr /\ size[p] \in Nat /\ Hp!EndOf(p) = p + 1 + size[p] /\ Hp!EndOf(p) <= Arena
      BY <1>1 DEF Hp!Addr, HpTypeInv, Hp!EndOf, Hp!Valid
    <3>2. Hp!EndOf(p) \in (Arena - m)..Arena /\ Hp!EndOf(p) # Arena - m
      BY <1>1, <3>1 DEF Hp!Addr
    <3> QED  BY <3>2
  <2>5. ASSUME NEW p \in (Arena - m)..Arena PROVE g[p] = HpWalkRow(f, p)
    <3>1. CASE p = Arena - m  BY <3>1
    <3>2. CASE p # Arena - m
      <4>1. p \in (Arena - (m - 1))..Arena  BY <1>1, <3>2
      <4>2. f[p] = HpWalkRow(f, p)  BY <2>3, <4>1
      <4> QED  BY <3>2, <4>2
    <3> QED  BY <3>1, <3>2
  <2>6. \A p \in (Arena - m)..Arena : g[p] = HpWalkRow(g, p)  BY <2>4, <2>5
  <2>7. g = [p \in (Arena - m)..Arena |-> g[p]]  OBVIOUS
  <2> HIDE DEF g
  <2>8. HpWalkOf(g, m)  BY <2>6, <2>7 DEF HpWalkOf
  <2> QED  BY <1>1, <2>8
<1> QED  BY <1>2, <1>3

LEMMA HpWalkStep ==
    ASSUME Hp!ArenaAssumption, HpTypeInv, NEW p \in 0..Arena
    PROVE  Hp!Walk[p] = HpWalkRow(Hp!Walk, p)
<1>1. \E f : f = [q \in 0..Arena |-> HpWalkRow(f, q)]
  <2>1. Arena \in 0..Arena /\ Arena - Arena = 0  BY DEF Hp!ArenaAssumption
  <2> QED  BY <2>1, HpWalkExists DEF HpWalkOf
<1>2. Hp!Walk = [q \in 0..Arena |-> HpWalkRow(Hp!Walk, q)]
  BY <1>1 DEF Hp!Walk, HpWalkRow
<1> QED  BY <1>2

(* From a block on, the walk meets that block and those behind it. *)
LEMMA HpWalkMeets ==
    ASSUME Hp!ArenaAssumption, HpIInv, NEW p \in Hp!Blocks \cup {Arena}
    PROVE  Hp!Walk[p] = {a \in Hp!Blocks : a >= p}
<1> USE HpFacts DEF Hp!ArenaAssumption
<1> DEFINE Wrong == {n \in 0..Arena : /\ Arena - n \in Hp!Blocks \cup {Arena}
                                      /\ Hp!Walk[Arena - n] # {a \in Hp!Blocks : a >= Arena - n}}
<1>1. ASSUME Wrong # {} PROVE FALSE
  <2>1. PICK n \in Wrong : \A l \in Wrong : n <= l
    <3>1. Wrong \subseteq Nat  OBVIOUS
    <3> HIDE DEF Wrong
    <3> QED  BY <1>1, <3>1, Least
  <2> DEFINE q == Arena - n
  <2>2. /\ q \in 0..Arena /\ q \in Hp!Blocks \cup {Arena} /\ n \in 0..Arena
        /\ Hp!Walk[q] # {a \in Hp!Blocks : a >= q}
    BY <2>1
  <2>3. Hp!Walk[q] = HpWalkRow(Hp!Walk, q)  BY <2>2, HpWalkStep DEF HpIInv
  <2>4. CASE q = Arena
    <3>1. {a \in Hp!Blocks : a >= q} = {}  BY <2>4
    <3> QED  BY <2>2, <2>3, <2>4, <3>1 DEF HpWalkRow
  <2>5. CASE q # Arena
    <3> DEFINE e == Hp!EndOf(q)
    <3>1. /\ q \in Hp!Blocks /\ e \in Nat /\ e > q + 1 /\ e <= Arena
          /\ \A b \in Hp!Blocks : q < b => e <= b
      BY <2>2, <2>5
    <3>2. Hp!Valid(q)
      <4>1. flags[q] # "none"  BY <3>1 DEF Hp!Blocks
      <4> QED  BY <3>1, <4>1 DEF Hp!Valid
    <3>3. e \in Hp!Blocks \cup {Arena}
      <4> SUFFICES ASSUME e # Arena PROVE e \in Hp!Blocks
        OBVIOUS
      <4>1. e \in Hp!Addr  BY <3>1 DEF Hp!Addr
      <4>2. PICK a \in Hp!Blocks : a <= e /\ e < Hp!EndOf(a)  BY <4>1
      <4>3. ~(a < q)  BY <3>1, <4>2
      <4>4. a # q  BY <3>1, <4>2
      <4>5. a >= e  BY <3>1, <4>2, <4>3, <4>4
      <4> QED  BY <3>1, <4>2, <4>5
    <3>4. Hp!Walk[e] = {a \in Hp!Blocks : a >= e}
      <4>1. Arena - e \in 0..Arena /\ Arena - e < n /\ Arena - (Arena - e) = e
        BY <2>2, <3>1
      <4>2. Arena - e \notin Wrong  BY <2>1, <2>2, <4>1
      <4> QED  BY <3>3, <4>1, <4>2
    <3> HIDE DEF e, Wrong
    <3>5. Hp!Walk[q] = {q} \cup Hp!Walk[e]  BY <2>3, <2>5, <3>2 DEF HpWalkRow, e
    <3>6. {a \in Hp!Blocks : a >= q} = {q} \cup {a \in Hp!Blocks : a >= e}
      BY <2>2, <3>1
    <3> QED  BY <2>2, <3>4, <3>5, <3>6
  <2> QED  BY <2>4, <2>5
<1>2. Arena - p \in 0..Arena /\ Arena - (Arena - p) = p
  OBVIOUS
<1> QED  BY <1>1, <1>2

(* So the walker of mym_check_heap finds the blocks, and nothing wrong. *)
LEMMA HpWalkerAgrees == ASSUME Hp!ArenaAssumption, HpIInv PROVE Hp!WalkerAgrees
<1> USE HpFacts
<1>1. 0 \in Hp!Blocks
  <2>1. 0 \in Hp!Addr  BY DEF Hp!Addr
  <2>2. PICK a \in Hp!Blocks : a <= 0  BY <2>1
  <2>3. a = 0  BY <2>2
  <2> QED  BY <2>3
<1>2. Hp!Walk[0] = Hp!Blocks
  <2>1. Hp!Blocks = {a \in Hp!Blocks : a >= 0}  OBVIOUS
  <2> QED  BY <1>1, <2>1, HpWalkMeets
<1>3. -1 \notin Hp!Blocks  OBVIOUS
<1>4. free = {a \in Hp!Blocks : flags[a] = "free"}
  <2>1. \A a \in live : flags[a] = "used"  BY DEF Hp!Blocks
  <2> QED  BY <2>1 DEF Hp!Blocks
<1>5. live = {a \in Hp!Blocks : flags[a] = "used"}
  BY DEF Hp!Blocks
<1>6. coalesce_on => \A a \in free : Hp!EndOf(a) \notin free
  BY DEF HpIInv, Hp!HeapTiled, Hp!Coalesced
<1> QED  BY <1>2, <1>3, <1>4, <1>5, <1>6 DEF Hp!WalkerAgrees, Hp!mym_check_heap_ok

LEMMA HpTiled ==
    ASSUME Hp!ArenaAssumption
    PROVE  Hp!Spec => [](Hp!HeapTiled /\ Hp!WalkerAgrees)
<1>1. Hp!Init => HpIInv  BY HpInit
<1>2. HpIInv /\ [Hp!Next]_Hp!vars => HpIInv'  BY HpStep
<1>3. HpIInv => Hp!HeapTiled /\ Hp!WalkerAgrees  BY HpWalkerAgrees DEF HpIInv
<1> QED  BY <1>1, <1>2, <1>3, PTL DEF Hp!Spec

-----------------------------------------------------------------------------
(* Raid, for any shapes that init accepts.                                 *)

LEMMA RdCardinality == \A S : Rd!Cardinality(S) = Cardinality(S)
  BY DEF Rd!Cardinality, Cardinality, Rd!IsFiniteSet, IsFiniteSet

RdTypeInv ==
    /\ shape \in Shapes
    /\ disk \in [Rd!Disks -> [Rd!Rows -> Rd!Bit]]
    /\ failed \subseteq Rd!Disks
    /\ last \in [Rd!Lbas -> Rd!Bit]

(* The parity disk of a row. *)
RdParity(row) == Rd!parity_disk_of(row \div shape.chunk)

(* A block that is not stale is where it should be, on every live mirror   *)
(* or on its disk, failed or not.                                          *)
RdKept(lba) ==
    IF shape.level = 1 THEN \A d \in Rd!Disks \ failed : disk[d][Rd!RowOf(lba)] = last[lba]
    ELSE disk[Rd!DiskOf(lba)][Rd!RowOf(lba)] = last[lba]

RdKeptInv == ~beyond => \A lba \in Rd!Lbas \ stale : RdKept(lba)

(* The disks of a row add up to 0 unless its parity disk has failed. *)
RdParityInv ==
    ~beyond /\ Rd!Striped => \A row \in Rd!Rows : RdParity(row) \notin failed => Rd!Xor(disk, Rd!Disks, row) = 0

RdIInv == RdTypeInv /\ RdKeptInv /\ RdParityInv

-----------------------------------------------------------------------------
(* Where blocks are.                                                       *)

LEMMA RdDivMod ==
    ASSUME NEW a \in Nat, NEW b \in Nat \ {0}
    PROVE  a \div b \in Nat /\ a % b \in 0..(b - 1) /\ a = b * (a \div b) + (a % b)
  <1>1. a \div b \in Nat
    OBVIOUS
  <1>2. a % b \in 0..(b - 1)
    OBVIOUS
  <1>3. a = b * (a \div b) + (a % b)
    OBVIOUS
  <1>. QED  BY <1>1, <1>2, <1>3

LEMMA RdLess ==
    ASSUME NEW b \in Nat \ {0}, NEW m \in Nat, NEW n \in Nat, m < n
    PROVE  b * m + b <= b * n
  <1>1. PICK e \in Nat : n = m + 1 + e
    <2>1. n - m - 1 \in Nat /\ n = m + 1 + (n - m - 1)
      OBVIOUS
    <2>. QED  BY <2>1
  <1>2. b * n = b * m + b + b * e /\ b * e \in Nat
    BY <1>1
  <1>. QED  BY <1>2

(* A quotient and a remainder are determined by what they make. *)
LEMMA RdSplit ==
    ASSUME NEW b \in Nat \ {0}, NEW s \in Nat, NEW u \in Nat,
           NEW x \in 0..(b - 1), NEW y \in 0..(b - 1), b * s + x = b * u + y
    PROVE  s = u /\ x = y
  <1>1. s < u => b * s + b <= b * u
    BY RdLess
  <1>2. u < s => b * u + b <= b * s
    BY RdLess
  <1>3. b * s \in Int /\ b * u \in Int
    OBVIOUS
  <1>4. s = u
    BY <1>1, <1>2, <1>3
  <1>. QED  BY <1>3, <1>4

(* The geometry of the disks in use. *)
LEMMA RdShape ==
    ASSUME Rd!ShapesAssumption, shape \in Shapes
    PROVE  /\ shape.level \in {0, 1, 4, 5} /\ shape.ndisks \in Nat \ {0}
           /\ shape.level # 0 => shape.ndisks >= 2
           /\ shape.chunk \in Nat \ {0} /\ shape.rows \in Nat \ {0}
           /\ \E m \in Nat : shape.rows = shape.chunk * m
           /\ Rd!data_disks \in Nat \ {0} /\ Rd!data_disks <= shape.ndisks
           /\ Rd!Striped => Rd!data_disks = shape.ndisks - 1
  <1>1. /\ shape.level \in {0, 1, 4, 5} /\ shape.ndisks \in Nat \ {0}
        /\ shape.level # 0 => shape.ndisks >= 2
        /\ shape.chunk \in Nat \ {0} /\ shape.rows \in Nat \ {0} /\ shape.rows % shape.chunk = 0
    BY DEF Rd!ShapesAssumption
  <1>2. PICK m \in Nat : shape.rows = shape.chunk * m
    <2>1. PICK r \in Nat : r = shape.rows
      BY <1>1
    <2>2. PICK c \in Nat \ {0} : c = shape.chunk
      BY <1>1
    <2>3. r % c = 0
      BY <1>1, <2>1, <2>2
    <2>4. r \div c \in Nat /\ r = c * (r \div c) + (r % c)
      BY RdDivMod
    <2>5. r = c * (r \div c)
      BY <2>3, <2>4
    <2>. QED  BY <2>1, <2>2, <2>4, <2>5
  <1>. QED  BY <1>1, <1>2 DEF Rd!data_disks, Rd!Striped

(* A block by its chunk of a stripe, and its place in the chunk. *)
LEMMA RdSlot ==
    ASSUME Rd!ShapesAssumption, shape \in Shapes, NEW lba \in Rd!Lbas
    PROVE  \E s \in Nat, col \in 0..(Rd!data_disks - 1), o \in 0..(shape.chunk - 1) :
               /\ Rd!Stripe(lba) = s /\ Rd!RowOf(lba) = s * shape.chunk + o
               /\ (lba \div shape.chunk) % Rd!data_disks = col
               /\ lba = shape.chunk * (Rd!data_disks * s + col) + o
               /\ Rd!RowOf(lba) \in Rd!Rows
  <1>1. PICK c \in Nat \ {0}, m \in Nat : c = shape.chunk /\ shape.rows = c * m
    BY RdShape
  <1>2. PICK dd \in Nat \ {0} : dd = Rd!data_disks
    BY RdShape
  <1>3. lba \in 0..(dd * (c * m) - 1)
    BY <1>1, <1>2 DEF Rd!Lbas
  <1>4. lba \in Nat /\ lba < dd * (c * m) /\ dd * (c * m) \in Nat
    BY <1>3
  <1>. DEFINE q == lba \div c
  <1>5. q \in Nat /\ lba % c \in 0..(c - 1) /\ lba = c * q + (lba % c)
    BY <1>4, RdDivMod
  <1>6. PICK o \in 0..(c - 1) : o = lba % c
    BY <1>5
  <1>7. q \div dd \in Nat /\ q % dd \in 0..(dd - 1) /\ q = dd * (q \div dd) + (q % dd)
    BY <1>5, RdDivMod
  <1>8. PICK s \in Nat, col \in 0..(dd - 1) : s = q \div dd /\ col = q % dd
    BY <1>7
  <1>9. lba = c * (dd * s + col) + o
    BY <1>5, <1>6, <1>7, <1>8
  <1>10. Rd!Stripe(lba) = s /\ Rd!RowOf(lba) = s * c + o
    BY <1>1, <1>2, <1>6, <1>8 DEF Rd!Stripe, Rd!RowOf
  <1>11. s < m
    <2>1. SUFFICES ASSUME m <= s PROVE FALSE
      OBVIOUS
    <2>2. PICK e \in Nat : s = m + e
      <3>1. s - m \in Nat /\ s = m + (s - m)
        BY <2>1
      <3>. QED  BY <3>1
    <2>3. lba = dd * (c * m) + c * (dd * e) + c * col + o
      BY <1>9, <2>2
    <2>4. c * (dd * e) \in Nat /\ c * col \in Nat
      OBVIOUS
    <2>. QED  BY <1>4, <2>3, <2>4
  <1>12. s * c + o < c * m /\ s * c + o \in Nat
    <2>1. c * s + c <= c * m
      BY <1>11, RdLess
    <2>2. c * s = s * c /\ c * s \in Nat /\ c * m \in Nat
      OBVIOUS
    <2>. QED  BY <2>1, <2>2
  <1>13. Rd!RowOf(lba) \in Rd!Rows
    BY <1>1, <1>10, <1>12 DEF Rd!Rows
  <1>. QED  BY <1>1, <1>2, <1>8, <1>9, <1>10, <1>13

(* The parity disk of a stripe is one of the disks, *)
LEMMA RdParityDisk ==
    ASSUME Rd!ShapesAssumption, shape \in Shapes, NEW s \in Nat
    PROVE  Rd!parity_disk_of(s) \in Rd!Disks
  <1>1. PICK n \in Nat \ {0} : n = shape.ndisks
    BY RdShape
  <1>2. s % n \in 0..(n - 1)
    BY RdDivMod
  <1>3. n - 1 \in 0..(n - 1) /\ n - 1 - (s % n) \in 0..(n - 1)
    BY <1>2
  <1>. QED  BY <1>1, <1>3 DEF Rd!parity_disk_of, Rd!Disks

(* and not the disk of any of its blocks. *)
LEMMA RdPlace ==
    ASSUME Rd!ShapesAssumption, shape \in Shapes, NEW lba \in Rd!Lbas
    PROVE  /\ Rd!RowOf(lba) \in Rd!Rows /\ Rd!DiskOf(lba) \in Rd!Disks
           /\ RdParity(Rd!RowOf(lba)) = Rd!parity_disk_of(Rd!Stripe(lba))
           /\ Rd!parity_disk_of(Rd!Stripe(lba)) \in Rd!Disks
           /\ Rd!Striped => Rd!DiskOf(lba) # Rd!parity_disk_of(Rd!Stripe(lba))
  <1>1. PICK s \in Nat, col \in 0..(Rd!data_disks - 1), o \in 0..(shape.chunk - 1) :
               /\ Rd!Stripe(lba) = s /\ Rd!RowOf(lba) = s * shape.chunk + o
               /\ (lba \div shape.chunk) % Rd!data_disks = col
               /\ Rd!RowOf(lba) \in Rd!Rows
    BY RdSlot
  <1>2. PICK c \in Nat \ {0} : c = shape.chunk
    BY RdShape
  <1>3. (s * c + o) \div c = s
    <2>1. s * c + o \in Nat
      BY <1>2
    <2>2. PICK u \in Nat, y \in 0..(c - 1) : u = (s * c + o) \div c /\ s * c + o = c * u + y
      BY <2>1, RdDivMod
    <2>3. c * s + o = c * u + y
      BY <1>2, <2>2
    <2>4. o \in 0..(c - 1)
      BY <1>2
    <2>5. s = u
      BY <2>3, <2>4, RdSplit
    <2>. QED  BY <2>2, <2>5
  <1>4. RdParity(Rd!RowOf(lba)) = Rd!parity_disk_of(Rd!Stripe(lba))
    BY <1>1, <1>2, <1>3 DEF RdParity
  <1>5. Rd!parity_disk_of(s) \in Rd!Disks
    BY RdParityDisk
  <1>6. PICK p \in Rd!Disks : p = Rd!parity_disk_of(s)
    BY <1>5
  <1>7. Rd!DiskOf(lba) = IF shape.level = 5 /\ col >= p THEN col + 1 ELSE col
    BY <1>1, <1>6 DEF Rd!DiskOf
  <1>8. Rd!DiskOf(lba) \in Rd!Disks /\ (Rd!Striped => Rd!DiskOf(lba) # p)
    <2>1. PICK n \in Nat \ {0}, dd \in Nat \ {0} : n = shape.ndisks /\ dd = Rd!data_disks
      BY RdShape
    <2>2. dd <= n /\ (Rd!Striped => dd = n - 1)
      BY <2>1, RdShape
    <2>3. shape.level = 4 => p = n - 1
      BY <1>6, <2>1 DEF Rd!parity_disk_of
    <2>4. p \in 0..(n - 1) /\ col \in 0..(dd - 1)
      BY <2>1 DEF Rd!Disks
    <2>. QED  BY <1>7, <2>1, <2>2, <2>3, <2>4 DEF Rd!Striped, Rd!Disks
  <1>. QED  BY <1>1, <1>4, <1>5, <1>6, <1>8

(* Two blocks are in two places; on level 1, in two rows.                  *)
LEMMA RdApart ==
    ASSUME Rd!ShapesAssumption, shape \in Shapes, NEW a \in Rd!Lbas, NEW b \in Rd!Lbas,
           Rd!RowOf(a) = Rd!RowOf(b), shape.level = 1 \/ Rd!DiskOf(a) = Rd!DiskOf(b)
    PROVE  a = b
  <1>1. PICK s \in Nat, x \in 0..(Rd!data_disks - 1), o \in 0..(shape.chunk - 1) :
               /\ Rd!Stripe(a) = s /\ Rd!RowOf(a) = s * shape.chunk + o
               /\ (a \div shape.chunk) % Rd!data_disks = x
               /\ a = shape.chunk * (Rd!data_disks * s + x) + o
    BY RdSlot
  <1>2. PICK u \in Nat, y \in 0..(Rd!data_disks - 1), r \in 0..(shape.chunk - 1) :
               /\ Rd!Stripe(b) = u /\ Rd!RowOf(b) = u * shape.chunk + r
               /\ (b \div shape.chunk) % Rd!data_disks = y
               /\ b = shape.chunk * (Rd!data_disks * u + y) + r
    BY RdSlot
  <1>3. PICK c \in Nat \ {0} : c = shape.chunk
    BY RdShape
  <1>4. s = u /\ o = r
    <2>1. s * c + o = u * c + r
      BY <1>1, <1>2, <1>3
    <2>2. s * c = c * s /\ u * c = c * u
      OBVIOUS
    <2>3. c * s + o = c * u + r /\ o \in 0..(c - 1) /\ r \in 0..(c - 1)
      BY <1>3, <2>1, <2>2
    <2>. QED  BY <2>3, RdSplit
  <1>5. x = y
    <2>1. CASE shape.level = 1
      BY <2>1 DEF Rd!data_disks
    <2>2. CASE shape.level # 1
      <3>1. PICK p \in Int : p = Rd!parity_disk_of(s)
        BY RdParityDisk DEF Rd!Disks
      <3>2. x \in Int /\ y \in Int
        BY RdShape
      <3>3. /\ Rd!DiskOf(a) = IF shape.level = 5 /\ x >= p THEN x + 1 ELSE x
            /\ Rd!DiskOf(b) = IF shape.level = 5 /\ y >= p THEN y + 1 ELSE y
        BY <1>1, <1>2, <1>4, <3>1 DEF Rd!DiskOf
      <3>. QED  BY <2>2, <3>2, <3>3
    <2>. QED  BY <2>1, <2>2
  <1>. QED  BY <1>1, <1>2, <1>4, <1>5

-----------------------------------------------------------------------------
(* Parity.                                                                 *)

LEMMA RdDisksFinite ==
    ASSUME Rd!ShapesAssumption, shape \in Shapes
    PROVE  IsFiniteSet(Rd!Disks) /\ Rd!Disks \subseteq Nat /\ Cardinality(Rd!Disks) = shape.ndisks
  <1>1. PICK n \in Nat \ {0} : n = shape.ndisks
    BY RdShape
  <1>2. Rd!Disks = 0..(n - 1)
    BY <1>1 DEF Rd!Disks
  <1>3. IsFiniteSet(0..(n - 1)) /\ Cardinality(0..(n - 1)) = n
    BY FS_Interval
  <1>. QED  BY <1>1, <1>2, <1>3

(* The parity of a set of disks is that of the others and the disk's bit. *)
LEMMA RdXorSplit ==
    ASSUME NEW b, NEW S, NEW d \in S, NEW row, IsFiniteSet(S), b[d][row] \in Rd!Bit
    PROVE  /\ Rd!Xor(b, S \ {d}, row) \in Rd!Bit /\ Rd!Xor(b, S, row) \in Rd!Bit
           /\ Rd!Xor(b, S, row) = (Rd!Xor(b, S \ {d}, row) + b[d][row]) % 2
  <1>. DEFINE T == {e \in S \ {d} : b[e][row] = 1}
              U == {e \in S : b[e][row] = 1}
  <1>1. IsFiniteSet(T) /\ Cardinality(T) \in Nat
    BY FS_Subset, FS_CardinalityType
  <1>2. Cardinality(U) = Cardinality(T) + b[d][row]
    <2>1. CASE b[d][row] = 1
      <3>1. U = T \cup {d} /\ d \notin T
        BY <2>1
      <3>. HIDE DEF T, U
      <3>. QED  BY <1>1, <2>1, <3>1, FS_AddElement
    <2>2. CASE b[d][row] = 0
      <3>1. U = T
        BY <2>2
      <3>. HIDE DEF T, U
      <3>. QED  BY <1>1, <2>2, <3>1
    <2>. QED  BY <2>1, <2>2 DEF Rd!Bit
  <1>3. Rd!Xor(b, S \ {d}, row) = Cardinality(T) % 2 /\ Rd!Xor(b, S, row) = Cardinality(U) % 2
    BY RdCardinality DEF Rd!Xor
  <1>. HIDE DEF T, U
  <1>. QED  BY <1>1, <1>2, <1>3 DEF Rd!Bit

LEMMA RdXorValue ==
    ASSUME NEW b, NEW S, NEW d \in S, NEW row, IsFiniteSet(S), NEW x \in Rd!Bit, b[d][row] = x
    PROVE  Rd!Xor(b, S, row) = (Rd!Xor(b, S \ {d}, row) + x) % 2
  <1>1. b[d][row] \in Rd!Bit
    OBVIOUS
  <1>2. Rd!Xor(b, S, row) = (Rd!Xor(b, S \ {d}, row) + b[d][row]) % 2
    BY <1>1, RdXorSplit
  <1>. QED  BY <1>2

(* It depends on that row of those disks only. *)
LEMMA RdXorSame ==
    ASSUME NEW b, NEW c, NEW S, NEW row, \A e \in S : b[e][row] = c[e][row]
    PROVE  Rd!Xor(b, S, row) = Rd!Xor(c, S, row)
  <1>1. {e \in S : b[e][row] = 1} = {e \in S : c[e][row] = 1}
    OBVIOUS
  <1>. QED  BY <1>1 DEF Rd!Xor

LEMMA RdXorBit ==
    ASSUME NEW b, NEW S, NEW row, IsFiniteSet(S)
    PROVE  Rd!Xor(b, S, row) \in Rd!Bit
  <1>1. IsFiniteSet({e \in S : b[e][row] = 1}) 
    BY FS_Subset
  <1>2. Cardinality({e \in S : b[e][row] = 1}) \in Nat
    BY <1>1, FS_CardinalityType
  <1>. QED  BY <1>2, RdCardinality DEF Rd!Xor, Rd!Bit

(* A disk that is given what the others add up to makes the sum 0; *)
LEMMA RdXorFill ==
    ASSUME NEW b, NEW c, NEW S, NEW d \in S, NEW row, IsFiniteSet(S),
           \A e \in S \ {d} : b[e][row] = c[e][row],
           c[d][row] = Rd!Xor(b, S \ {d}, row)
    PROVE  Rd!Xor(c, S, row) = 0
  <1>1. Rd!Xor(c, S \ {d}, row) = Rd!Xor(b, S \ {d}, row)
    BY RdXorSame
  <1>2. Rd!Xor(b, S \ {d}, row) \in Rd!Bit
    BY RdXorBit, FS_Subset
  <1>3. Rd!Xor(c, S, row) = (Rd!Xor(c, S \ {d}, row) + c[d][row]) % 2
    <2>1. c[d][row] \in Rd!Bit
      BY <1>2
    <2>. QED  BY <2>1, RdXorSplit DEF Rd!Bit
  <1>. QED  BY <1>1, <1>2, <1>3 DEF Rd!Bit

(* and it has that if the sum is 0. *)
LEMMA RdXorFilled ==
    ASSUME NEW b, NEW S, NEW d \in S, NEW row, IsFiniteSet(S), b[d][row] \in Rd!Bit,
           Rd!Xor(b, S, row) = 0
    PROVE  Rd!Xor(b, S \ {d}, row) = b[d][row]
  <1>1. /\ Rd!Xor(b, S \ {d}, row) \in Rd!Bit
        /\ (Rd!Xor(b, S \ {d}, row) + b[d][row]) % 2 = 0
    BY RdXorSplit
  <1>. QED  BY <1>1 DEF Rd!Bit

LEMMA RdLeast ==
    ASSUME NEW S \in SUBSET Nat, S # {}
    PROVE  Rd!First(S) \in S
  BY Least DEF Rd!First

(* Two disks apart from the others. *)
LEMMA RdXorTwo ==
    ASSUME NEW b, NEW S, IsFiniteSet(S), NEW d \in S, NEW p \in S, d # p, NEW row,
           b[d][row] \in Rd!Bit, b[p][row] \in Rd!Bit
    PROVE  /\ Rd!Xor(b, S \ {d, p}, row) \in Rd!Bit
           /\ Rd!Xor(b, S, row) = (((Rd!Xor(b, S \ {d, p}, row) + b[d][row]) % 2) + b[p][row]) % 2
  <1>1. PICK T : T = S \ {p}
    OBVIOUS
  <1>2. /\ Rd!Xor(b, S \ {d, p}, row) \in Rd!Bit
        /\ Rd!Xor(b, S \ {p}, row) = (Rd!Xor(b, S \ {d, p}, row) + b[d][row]) % 2
    <2>1. IsFiniteSet(T)
      BY <1>1, FS_Subset
    <2>2. d \in T
      BY <1>1
    <2>3. T \ {d} = S \ {d, p}
      BY <1>1
    <2>4. Rd!Xor(b, T \ {d}, row) \in Rd!Bit
      BY <2>1, <2>2, RdXorSplit, Zenon
    <2>5. Rd!Xor(b, T, row) = (Rd!Xor(b, T \ {d}, row) + b[d][row]) % 2
      BY <2>1, <2>2, RdXorSplit, Zenon
    <2>. QED  BY <1>1, <2>3, <2>4, <2>5
  <1>3. Rd!Xor(b, S, row) = (Rd!Xor(b, S \ {p}, row) + b[p][row]) % 2
    BY RdXorSplit
  <1>. QED  BY <1>2, <1>3

(* Changing one disk and correcting another keeps the sum 0. *)
LEMMA RdXorCorrect ==
    ASSUME NEW b, NEW c, NEW S, IsFiniteSet(S), NEW d \in S, NEW p \in S, d # p, NEW row,
           b[d][row] \in Rd!Bit, b[p][row] \in Rd!Bit, c[d][row] \in Rd!Bit,
           \A e \in S \ {d, p} : b[e][row] = c[e][row],
           c[p][row] \in {(b[p][row] + b[d][row] + c[d][row]) % 2,
                          (Rd!Xor(b, S \ {d, p}, row) + c[d][row]) % 2}
    PROVE  Rd!Xor(b, S, row) = 0 => c[p][row] \in Rd!Bit /\ Rd!Xor(c, S, row) = 0
  <1>1. PICK x \in {0, 1} : x = Rd!Xor(b, S \ {d, p}, row)
    BY RdXorTwo DEF Rd!Bit
  <1>2. Rd!Xor(c, S \ {d, p}, row) = x
    BY <1>1, RdXorSame
  <1>3. Rd!Xor(b, S, row) = (((x + b[d][row]) % 2) + b[p][row]) % 2
    <2>1. Rd!Xor(b, S, row) = (((Rd!Xor(b, S \ {d, p}, row) + b[d][row]) % 2) + b[p][row]) % 2
      BY RdXorTwo
    <2>. QED  BY <1>1, <2>1
  <1>. HAVE Rd!Xor(b, S, row) = 0
  <1>4. PICK y \in {0, 1}, z \in {0, 1}, v \in {0, 1} :
            y = b[d][row] /\ z = b[p][row] /\ v = c[d][row]
    BY DEF Rd!Bit
  <1>5. c[p][row] = (z + y + v) % 2 \/ c[p][row] = (x + v) % 2
    BY <1>1, <1>4
  <1>6. PICK w \in {0, 1} : w = c[p][row]
    BY <1>5
  <1>7. Rd!Xor(c, S, row) = (((Rd!Xor(c, S \ {d, p}, row) + c[d][row]) % 2) + c[p][row]) % 2
    BY <1>6, RdXorTwo DEF Rd!Bit
  <1>8. Rd!Xor(c, S, row) = (((x + v) % 2) + w) % 2
    BY <1>2, <1>4, <1>6, <1>7
  <1>9. (((x + y) % 2) + z) % 2 = 0
    BY <1>3, <1>4
  <1>10. (((x + v) % 2) + w) % 2 = 0
    BY <1>5, <1>6, <1>9
  <1>. QED  BY <1>6, <1>8, <1>10 DEF Rd!Bit

(* The new parity of a row keeps the sum 0. *)
LEMMA RdNewParity ==
    ASSUME Rd!ShapesAssumption, RdTypeInv, NEW d \in Rd!Disks, NEW p \in Rd!Disks, d # p,
           NEW row \in Rd!Rows, Rd!Xor(disk, Rd!Disks, row) = 0, NEW c, c[d][row] \in Rd!Bit,
           \A e \in Rd!Disks \ {d, p} : disk[e][row] = c[e][row],
           c[p][row] \in {Rd!NewParity(d, p, row, c[d][row])}
    PROVE  c[p][row] \in Rd!Bit /\ Rd!Xor(c, Rd!Disks, row) = 0
  <1>1. IsFiniteSet(Rd!Disks) /\ disk[d][row] \in Rd!Bit /\ disk[p][row] \in Rd!Bit
    BY RdDisksFinite DEF RdTypeInv
  <1>2. c[p][row] \in {(disk[p][row] + disk[d][row] + c[d][row]) % 2,
                       (Rd!Xor(disk, Rd!Disks \ {d, p}, row) + c[d][row]) % 2}
    BY DEF Rd!NewParity
  <1>. QED  BY <1>1, <1>2, RdXorCorrect

(* The geometry stays. *)
LEMMA RdSame ==
    ASSUME shape' = shape
    PROVE  /\ Rd!Disks' = Rd!Disks /\ Rd!Rows' = Rd!Rows /\ Rd!Lbas' = Rd!Lbas /\ (Rd!Striped' <=> Rd!Striped)
           /\ \A a \in Rd!Lbas : Rd!RowOf(a)' = Rd!RowOf(a) /\ Rd!DiskOf(a)' = Rd!DiskOf(a)
           /\ \A row \in Rd!Rows : RdParity(row)' = RdParity(row)
  BY DEF Rd!Disks, Rd!Rows, Rd!Lbas, Rd!Striped, Rd!data_disks, Rd!RowOf, Rd!DiskOf,
      Rd!Stripe, RdParity, Rd!parity_disk_of

-----------------------------------------------------------------------------
(* A write.                                                                *)

(* Levels 4 and 5: one row changes, at the disk of the block if it is live *)
(* and at the parity disk if that is.                                      *)
LEMMA RdStripeWrite ==
    ASSUME Rd!ShapesAssumption, RdTypeInv, RdParityInv, ~beyond, Rd!Striped,
           NEW lba \in Rd!Lbas, NEW v \in Rd!Bit,
           NEW d \in Rd!Disks, NEW p \in Rd!Disks, NEW row \in Rd!Rows,
           d = Rd!DiskOf(lba), row = Rd!RowOf(lba), p = Rd!parity_disk_of(Rd!Stripe(lba)),
           NEW c, c = Rd!StripeWrite(d, p, row, v)
    PROVE  /\ c \in [Rd!Disks -> [Rd!Rows -> Rd!Bit]]
           /\ d \notin failed => c[d][row] = v
           /\ \A e \in Rd!Disks, r \in Rd!Rows : e \notin {d, p} \/ r # row => c[e][r] = disk[e][r]
           /\ \A r \in Rd!Rows : RdParity(r) \notin failed => Rd!Xor(c, Rd!Disks, r) = 0
  <1>1. d # p /\ RdParity(row) = p
    BY RdPlace DEF RdTypeInv
  <1>2. IsFiniteSet(Rd!Disks) /\ IsFiniteSet(Rd!Disks \ {p})
    BY RdDisksFinite, FS_Subset DEF RdTypeInv
  <1>3. ASSUME \A e \in Rd!Disks, r \in Rd!Rows : r # row => c[e][r] = disk[e][r],
               p \notin failed => Rd!Xor(c, Rd!Disks, row) = 0
        PROVE  \A r \in Rd!Rows : RdParity(r) \notin failed => Rd!Xor(c, Rd!Disks, r) = 0
    <2>. SUFFICES ASSUME NEW r \in Rd!Rows, RdParity(r) \notin failed
                  PROVE  Rd!Xor(c, Rd!Disks, r) = 0
      OBVIOUS
    <2>1. CASE r = row
      BY <1>1, <1>3, <2>1
    <2>2. CASE r # row
      <3>1. Rd!Xor(c, Rd!Disks, r) = Rd!Xor(disk, Rd!Disks, r)
        BY <1>3, <2>2, RdXorSame
      <3>. QED  BY <3>1 DEF RdParityInv
    <2>. QED  BY <2>1, <2>2
  <1>4. CASE p \in failed
    <2>1. c = IF d \in failed THEN disk ELSE [disk EXCEPT ![d][row] = v]
      BY <1>4 DEF Rd!StripeWrite
    <2>2. /\ c \in [Rd!Disks -> [Rd!Rows -> Rd!Bit]]
          /\ d \notin failed => c[d][row] = v
          /\ \A e \in Rd!Disks, r \in Rd!Rows : e \notin {d, p} \/ r # row => c[e][r] = disk[e][r]
          /\ \A e \in Rd!Disks, r \in Rd!Rows : r # row => c[e][r] = disk[e][r]
      BY <2>1 DEF RdTypeInv
    <2>. QED  BY <1>3, <1>4, <2>2
  <1>5. CASE p \notin failed /\ d \in failed
    <2>1. c = [disk EXCEPT ![p][row] = Rd!Xor(disk, Rd!Disks \ {p}, row)]
      BY <1>5 DEF Rd!StripeWrite
    <2>2. Rd!Xor(disk, Rd!Disks \ {p}, row) \in Rd!Bit
      BY <1>2, RdXorBit
    <2>3. /\ c \in [Rd!Disks -> [Rd!Rows -> Rd!Bit]]
          /\ c[p][row] = Rd!Xor(disk, Rd!Disks \ {p}, row)
          /\ \A e \in Rd!Disks, r \in Rd!Rows : e \notin {d, p} \/ r # row => c[e][r] = disk[e][r]
          /\ \A e \in Rd!Disks, r \in Rd!Rows : r # row => c[e][r] = disk[e][r]
          /\ \A e \in Rd!Disks \ {p} : disk[e][row] = c[e][row]
      BY <2>1, <2>2 DEF RdTypeInv
    <2>4. Rd!Xor(c, Rd!Disks, row) = 0
      BY <1>2, <2>3, RdXorFill
    <2>. QED  BY <1>3, <1>5, <2>3, <2>4
  <1>6. CASE p \notin failed /\ d \notin failed
    <2>1. c = [[disk EXCEPT ![d][row] = v] EXCEPT ![p][row] = Rd!NewParity(d, p, row, v)]
      BY <1>6 DEF Rd!StripeWrite
    <2>2. c[d][row] = v /\ c[p][row] = Rd!NewParity(d, p, row, v)
      BY <1>1, <2>1 DEF RdTypeInv
    <2>3. \A e \in Rd!Disks, r \in Rd!Rows : e \notin {d, p} \/ r # row => c[e][r] = disk[e][r]
      BY <2>1 DEF RdTypeInv
    <2>4. Rd!Xor(disk, Rd!Disks, row) = 0
      BY <1>1, <1>6 DEF RdParityInv
    <2>5. Rd!NewParity(d, p, row, v) \in Rd!Bit /\ Rd!Xor(c, Rd!Disks, row) = 0
      <3>1. c[d][row] \in Rd!Bit /\ c[p][row] \in {Rd!NewParity(d, p, row, c[d][row])}
        BY <2>2
      <3>2. \A e \in Rd!Disks \ {d, p} : disk[e][row] = c[e][row]
        BY <2>3
      <3>3. c[p][row] \in Rd!Bit /\ Rd!Xor(c, Rd!Disks, row) = 0
        BY <1>1, <2>4, <3>1, <3>2, RdNewParity
      <3>. QED  BY <2>2, <3>3
    <2>6. c \in [Rd!Disks -> [Rd!Rows -> Rd!Bit]]
      <3>1. [disk EXCEPT ![d][row] = v] \in [Rd!Disks -> [Rd!Rows -> Rd!Bit]]
        BY DEF RdTypeInv
      <3>2. PICK x \in Rd!Bit : x = Rd!NewParity(d, p, row, v)
        BY <2>5
      <3>3. PICK a \in [Rd!Disks -> [Rd!Rows -> Rd!Bit]] : a = [disk EXCEPT ![d][row] = v]
        BY <3>1
      <3>4. [a EXCEPT ![p][row] = x] \in [Rd!Disks -> [Rd!Rows -> Rd!Bit]]
        OBVIOUS
      <3>. QED  BY <2>1, <3>2, <3>3, <3>4
    <2>. QED  BY <1>3, <1>6, <2>2, <2>3, <2>5, <2>6
  <1>. QED  BY <1>4, <1>5, <1>6

LEMMA RdWriteKeeps ==
    ASSUME Rd!ShapesAssumption, RdIInv, ~beyond, NEW lba \in Rd!Lbas, NEW v \in Rd!Bit,
           Rd!Write(lba, v)
    PROVE  RdIInv'
  <1>. USE DEF RdIInv, Rd!Write
  <1>. DEFINE d == Rd!DiskOf(lba)
              row == Rd!RowOf(lba)
              p == Rd!parity_disk_of(Rd!Stripe(lba))
  <1>1. shape' = shape /\ failed' = failed /\ beyond' = beyond
    OBVIOUS
  <1>2. /\ d \in Rd!Disks /\ row \in Rd!Rows /\ (Rd!Striped => d # p /\ p \in Rd!Disks)
    BY RdPlace DEF RdTypeInv
  <1>3. last' \in [Rd!Lbas -> Rd!Bit] /\ last'[lba] = v /\ \A a \in Rd!Lbas \ {lba} : last'[a] = last[a]
    BY DEF RdTypeInv
  <1>4. \A a \in Rd!Lbas : a \notin stale' => a = lba \/ a \notin stale
    OBVIOUS
  <1>5. CASE Rd!Striped
    <2>1. disk' = Rd!StripeWrite(d, p, row, v)
      BY <1>5
    <2>2. /\ disk' \in [Rd!Disks -> [Rd!Rows -> Rd!Bit]]
          /\ d \notin failed => disk'[d][row] = v
          /\ \A e \in Rd!Disks, r \in Rd!Rows : e \notin {d, p} \/ r # row => disk'[e][r] = disk[e][r]
          /\ \A r \in Rd!Rows : RdParity(r) \notin failed => Rd!Xor(disk', Rd!Disks, r) = 0
      BY <1>2, <1>5, <2>1, RdStripeWrite
    <2>3. lba \notin stale' => d \notin failed
      BY <1>5
    <2>4. ASSUME NEW a \in Rd!Lbas, a \notin stale'
          PROVE  disk'[Rd!DiskOf(a)][Rd!RowOf(a)] = last'[a]
      <3>1. CASE a = lba
        BY <1>3, <2>2, <2>3, <2>4, <3>1
      <3>2. CASE a # lba
        <4>1. /\ Rd!DiskOf(a) \in Rd!Disks /\ Rd!RowOf(a) \in Rd!Rows
              /\ Rd!DiskOf(a) # RdParity(Rd!RowOf(a)) /\ RdParity(row) = p
          BY <1>5, RdPlace DEF RdTypeInv
        <4>2. Rd!RowOf(a) # row \/ Rd!DiskOf(a) # d
          BY <3>2, RdApart DEF RdTypeInv
        <4>3. disk'[Rd!DiskOf(a)][Rd!RowOf(a)] = disk[Rd!DiskOf(a)][Rd!RowOf(a)]
          BY <2>2, <4>1, <4>2
        <4>4. disk[Rd!DiskOf(a)][Rd!RowOf(a)] = last[a]
          BY <1>4, <1>5, <2>4, <3>2 DEF RdKeptInv, RdKept, Rd!Striped
        <4>. QED  BY <1>3, <3>2, <4>3, <4>4
      <3>. QED  BY <3>1, <3>2
    <2>5. shape.level # 1
      BY <1>5 DEF Rd!Striped
    <2>6. RdKeptInv'
      BY <1>1, <2>4, <2>5, RdSame DEF RdKeptInv, RdKept
    <2>7. RdTypeInv' /\ RdParityInv'
      BY <1>1, <1>3, <2>2, RdSame DEF RdTypeInv, RdParityInv
    <2>. QED  BY <2>6, <2>7
  <1>6. CASE shape.level = 1
    <2>1. disk' = [i \in Rd!Disks |-> IF i \in failed THEN disk[i] ELSE [disk[i] EXCEPT ![row] = v]]
      BY <1>6 DEF Rd!Striped
    <2>2. disk' \in [Rd!Disks -> [Rd!Rows -> Rd!Bit]]
      BY <1>2, <2>1 DEF RdTypeInv
    <2>3. ASSUME NEW a \in Rd!Lbas, a \notin stale', NEW e \in Rd!Disks, e \notin failed
          PROVE  disk'[e][Rd!RowOf(a)] = last'[a]
      <3>1. CASE a = lba
        BY <1>2, <1>3, <2>1, <2>3, <3>1 DEF RdTypeInv
      <3>2. CASE a # lba
        <4>1. Rd!RowOf(a) # row /\ Rd!RowOf(a) \in Rd!Rows
          BY <1>6, <3>2, RdApart, RdPlace DEF RdTypeInv
        <4>2. disk[e][Rd!RowOf(a)] = last[a]
          BY <1>4, <1>6, <2>3, <3>2 DEF RdKeptInv, RdKept
        <4>. QED  BY <1>3, <2>1, <2>3, <3>2, <4>1, <4>2 DEF RdTypeInv
      <3>. QED  BY <3>1, <3>2
    <2>4. RdKeptInv'
      BY <1>1, <1>6, <2>3, RdSame DEF RdKeptInv, RdKept
    <2>5. RdTypeInv' /\ RdParityInv'
      BY <1>1, <1>3, <1>6, <2>2, RdSame DEF RdTypeInv, RdParityInv, Rd!Striped
    <2>. QED  BY <2>4, <2>5
  <1>7. CASE ~Rd!Striped /\ shape.level # 1
    <2>1. disk' = [disk EXCEPT ![d][row] = v]
      BY <1>7
    <2>2. disk' \in [Rd!Disks -> [Rd!Rows -> Rd!Bit]]
      BY <1>2, <2>1 DEF RdTypeInv
    <2>3. ASSUME NEW a \in Rd!Lbas, a \notin stale'
          PROVE  disk'[Rd!DiskOf(a)][Rd!RowOf(a)] = last'[a]
      <3>1. CASE a = lba
        BY <1>2, <1>3, <2>1, <3>1 DEF RdTypeInv
      <3>2. CASE a # lba
        <4>1. (Rd!RowOf(a) # row \/ Rd!DiskOf(a) # d) /\ Rd!DiskOf(a) \in Rd!Disks /\ Rd!RowOf(a) \in Rd!Rows
          BY <3>2, RdApart, RdPlace DEF RdTypeInv
        <4>2. disk[Rd!DiskOf(a)][Rd!RowOf(a)] = last[a]
          BY <1>4, <1>7, <2>3, <3>2 DEF RdKeptInv, RdKept
        <4>. QED  BY <1>2, <1>3, <2>1, <3>2, <4>1, <4>2 DEF RdTypeInv
      <3>. QED  BY <3>1, <3>2
    <2>4. RdKeptInv'
      BY <1>1, <1>7, <2>3, RdSame DEF RdKeptInv, RdKept
    <2>5. RdTypeInv' /\ RdParityInv'
      BY <1>1, <1>3, <1>7, <2>2, RdSame DEF RdTypeInv, RdParityInv, Rd!Striped
    <2>. QED  BY <2>4, <2>5
  <1>. QED  BY <1>5, <1>6, <1>7


-----------------------------------------------------------------------------
(* Failure and rebuild.                                                    *)

LEMMA RdFailKeeps ==
    ASSUME RdIInv, NEW d \in Rd!Disks, Rd!Fail(d)
    PROVE  RdIInv'
  <1>1. /\ shape' = shape /\ disk' = disk /\ last' = last /\ stale' = stale
        /\ beyond' = beyond /\ failed' = failed \cup {d}
    BY DEF Rd!Fail
  <1>2. RdTypeInv'
    BY <1>1, RdSame DEF RdIInv, RdTypeInv
  <1>3. RdKeptInv'
    BY <1>1, RdSame DEF RdIInv, RdKeptInv, RdKept
  <1>4. RdParityInv'
    BY <1>1, RdSame DEF RdIInv, RdParityInv
  <1>. QED  BY <1>2, <1>3, <1>4 DEF RdIInv

LEMMA RdSameKeeps ==
    ASSUME RdIInv, UNCHANGED <<shape, disk, failed, last, stale, beyond>>
    PROVE  RdIInv'
  <1>1. RdTypeInv'
    BY RdSame DEF RdIInv, RdTypeInv
  <1>2. RdKeptInv'
    BY RdSame DEF RdIInv, RdKeptInv, RdKept
  <1>3. RdParityInv'
    BY RdSame DEF RdIInv, RdParityInv
  <1>. QED  BY <1>1, <1>2, <1>3 DEF RdIInv

(* With one disk failed, the others make up what it holds in every row     *)
(* whose parity is on another disk.                                        *)
LEMMA RdRecovers ==
    ASSUME Rd!ShapesAssumption, RdTypeInv, RdParityInv, ~beyond, Rd!Striped,
           NEW d \in Rd!Disks, failed = {d}, NEW row \in Rd!Rows, RdParity(row) # d
    PROVE  Rd!Xor(disk, Rd!Disks \ {d}, row) = disk[d][row]
  <1>1. Rd!Xor(disk, Rd!Disks, row) = 0
    BY DEF RdParityInv
  <1>2. IsFiniteSet(Rd!Disks) /\ disk[d][row] \in Rd!Bit
    BY RdDisksFinite DEF RdTypeInv
  <1>. QED  BY <1>1, <1>2, RdXorFilled

LEMMA RdRebuiltBit ==
    ASSUME Rd!ShapesAssumption, RdTypeInv, NEW d \in Rd!Disks, NEW row \in Rd!Rows
    PROVE  Rd!Rebuilt(d, row) \in Rd!Bit
  <1>1. ASSUME Rd!Disks \ (failed \cup {d}) # {}
        PROVE  disk[Rd!First(Rd!Disks \ (failed \cup {d}))][row] \in Rd!Bit
    <2>1. Rd!First(Rd!Disks \ (failed \cup {d})) \in Rd!Disks
      BY <1>1, RdDisksFinite, RdLeast DEF RdTypeInv
    <2>. QED  BY <2>1 DEF RdTypeInv
  <1>2. Rd!Xor(disk, Rd!Disks \ {d}, row) \in Rd!Bit
    BY RdDisksFinite, RdXorBit, FS_Subset DEF RdTypeInv
  <1>. QED  BY <1>1, <1>2 DEF Rd!Rebuilt, Rd!Reconstruct, Rd!Bit

LEMMA RdRebuildKeeps ==
    ASSUME Rd!ShapesAssumption, RdIInv, NEW d \in Rd!Disks, Rd!Rebuild(d)
    PROVE  RdIInv'
  <1>. USE DEF RdIInv
  <1>1. /\ shape' = shape /\ last' = last /\ stale' = stale /\ d \in failed
        /\ disk' = [disk EXCEPT ![d] = [row \in Rd!Rows |-> Rd!Rebuilt(d, row)]]
        /\ failed' = failed \ {d}
    BY DEF Rd!Rebuild
  <1>2. disk' \in [Rd!Disks -> [Rd!Rows -> Rd!Bit]]
    BY <1>1, RdRebuiltBit DEF RdTypeInv
  <1>3. \A row \in Rd!Rows : /\ disk'[d][row] = Rd!Rebuilt(d, row)
                             /\ \A e \in Rd!Disks \ {d} : disk'[e][row] = disk[e][row]
    BY <1>1 DEF RdTypeInv
  <1>4. RdTypeInv'
    BY <1>1, <1>2, RdSame DEF RdTypeInv
  <1>5. CASE beyond'
    BY <1>4, <1>5 DEF RdKeptInv, RdParityInv
  <1>6. CASE ~beyond' /\ shape.level = 1
    <2>1. ~beyond /\ Rd!Disks \ failed # {}
      BY <1>6 DEF Rd!Rebuild
    <2>2. PICK e \in Rd!Disks \ failed : e = Rd!First(Rd!Disks \ (failed \cup {d}))
      <3>1. Rd!Disks \ (failed \cup {d}) = Rd!Disks \ failed
        BY <1>1
      <3>2. Rd!First(Rd!Disks \ failed) \in Rd!Disks \ failed
        BY <2>1, RdDisksFinite, RdLeast DEF RdTypeInv
      <3>. QED  BY <3>1, <3>2
    <2>3. \A row \in Rd!Rows : Rd!Rebuilt(d, row) = disk[e][row]
      BY <1>1, <1>6, <2>1, <2>2 DEF Rd!Rebuilt
    <2>4. ASSUME NEW a \in Rd!Lbas, a \notin stale, NEW i \in Rd!Disks, i \notin failed \ {d}
          PROVE  disk'[i][Rd!RowOf(a)] = last[a]
      <3>1. Rd!RowOf(a) \in Rd!Rows
        BY RdPlace DEF RdTypeInv
      <3>2. \A j \in Rd!Disks \ failed : disk[j][Rd!RowOf(a)] = last[a]
        BY <1>6, <2>1, <2>4 DEF RdKeptInv, RdKept
      <3>3. CASE i = d
        BY <1>3, <2>2, <2>3, <3>1, <3>2, <3>3
      <3>4. CASE i # d
        BY <1>3, <2>4, <3>1, <3>2, <3>4
      <3>. QED  BY <3>3, <3>4
    <2>5. RdKeptInv'
      BY <1>1, <1>6, <2>4, RdSame DEF RdKeptInv, RdKept
    <2>6. RdParityInv'
      BY <1>1, <1>6, RdSame DEF RdParityInv, Rd!Striped
    <2>. QED  BY <1>4, <2>5, <2>6
  <1>7. CASE ~beyond' /\ Rd!Striped
    <2>1. ~beyond /\ failed = {d}
      BY <1>7 DEF Rd!Rebuild
    <2>2. \A row \in Rd!Rows : Rd!Xor(disk, Rd!Disks \ {d}, row) \in Rd!Bit
      BY RdDisksFinite, RdXorBit, FS_Subset DEF RdTypeInv
    <2>3. \A row \in Rd!Rows : Rd!Rebuilt(d, row) = Rd!Xor(disk, Rd!Disks \ {d}, row)
      BY <1>7, <2>1, <2>2 DEF Rd!Rebuilt, Rd!Reconstruct, Rd!Striped, Rd!Lost, Rd!Bit
    <2>4. ASSUME NEW row \in Rd!Rows PROVE Rd!Xor(disk', Rd!Disks, row) = 0
      <3>1. PICK c : c = disk'
        OBVIOUS
      <3>2. c[d][row] = Rd!Xor(disk, Rd!Disks \ {d}, row)
        BY <1>3, <2>3, <3>1
      <3>3. \A e \in Rd!Disks \ {d} : disk[e][row] = c[e][row]
        BY <1>3, <3>1
      <3>4. IsFiniteSet(Rd!Disks)
        BY RdDisksFinite DEF RdTypeInv
      <3>5. Rd!Xor(c, Rd!Disks, row) = 0
        BY <3>2, <3>3, <3>4, RdXorFill
      <3>. QED  BY <3>1, <3>5
    <2>5. ASSUME NEW a \in Rd!Lbas, a \notin stale
          PROVE  disk'[Rd!DiskOf(a)][Rd!RowOf(a)] = last[a]
      <3>1. /\ Rd!RowOf(a) \in Rd!Rows /\ Rd!DiskOf(a) \in Rd!Disks
            /\ Rd!DiskOf(a) # RdParity(Rd!RowOf(a))
        BY <1>7, RdPlace DEF RdTypeInv
      <3>2. disk[Rd!DiskOf(a)][Rd!RowOf(a)] = last[a]
        BY <1>7, <2>1, <2>5 DEF RdKeptInv, RdKept, Rd!Striped
      <3>3. CASE Rd!DiskOf(a) = d
        BY <1>3, <1>7, <2>1, <2>3, <3>1, <3>2, <3>3, RdRecovers
      <3>4. CASE Rd!DiskOf(a) # d
        BY <1>3, <3>1, <3>2, <3>4
      <3>. QED  BY <3>3, <3>4
    <2>6. RdKeptInv'
      BY <1>1, <1>7, <2>5, RdSame DEF RdKeptInv, RdKept, Rd!Striped
    <2>7. RdParityInv'
      BY <2>4, RdSame, <1>1 DEF RdParityInv
    <2>. QED  BY <1>4, <2>6, <2>7
  <1>8. ~beyond' => shape.level = 1 \/ Rd!Striped
    BY RdShape DEF Rd!Rebuild, Rd!Striped, RdTypeInv
  <1>. QED  BY <1>5, <1>6, <1>7, <1>8

-----------------------------------------------------------------------------
LEMMA RdInitKeeps ==
    ASSUME Rd!ShapesAssumption, Rd!Init
    PROVE  RdIInv
  <1>. USE DEF Rd!Init
  <1>1. disk = [d \in Rd!Disks |-> [r \in Rd!Rows |-> 0]]
    BY DEF Rd!Blank, Rd!Disks, Rd!Rows
  <1>2. RdTypeInv
    BY <1>1 DEF RdTypeInv, Rd!Bit
  <1>3. RdKeptInv
    <2>1. \A a \in Rd!Lbas : Rd!RowOf(a) \in Rd!Rows /\ Rd!DiskOf(a) \in Rd!Disks
      BY RdPlace
    <2>. QED  BY <1>1, <2>1 DEF RdKeptInv, RdKept
  <1>4. RdParityInv
    <2>1. ASSUME NEW row \in Rd!Rows PROVE Rd!Xor(disk, Rd!Disks, row) = 0
      <3>1. {e \in Rd!Disks : disk[e][row] = 1} = {}
        BY <1>1
      <3>2. Rd!Cardinality({}) = 0
        BY FS_EmptySet, RdCardinality
      <3>3. Rd!Xor(disk, Rd!Disks, row) = Rd!Cardinality({e \in Rd!Disks : disk[e][row] = 1}) % 2
        BY DEF Rd!Xor
      <3>. QED  BY <3>1, <3>2, <3>3
    <2>. QED  BY <2>1 DEF RdParityInv
  <1>. QED  BY <1>2, <1>3, <1>4 DEF RdIInv

LEMMA RdNextKeeps ==
    ASSUME Rd!ShapesAssumption, RdIInv, [Rd!Next]_Rd!vars
    PROVE  RdIInv'
  <1>1. ASSUME NEW m \in Rd!Modes, Rd!SetParity(m) PROVE RdIInv'
    BY <1>1, RdSameKeeps DEF Rd!SetParity
  <1>2. ASSUME ~beyond, NEW lba \in Rd!Lbas, NEW v \in Rd!Bit, Rd!Write(lba, v) PROVE RdIInv'
    BY <1>2, RdWriteKeeps
  <1>3. ASSUME NEW d \in Rd!Disks, Rd!Fail(d) PROVE RdIInv'
    BY <1>3, RdFailKeeps
  <1>4. ASSUME NEW d \in Rd!Disks, Rd!Rebuild(d) PROVE RdIInv'
    BY <1>4, RdRebuildKeeps
  <1>5. CASE UNCHANGED Rd!vars
    BY <1>5, RdSameKeeps DEF Rd!vars
  <1>. QED  BY <1>1, <1>2, <1>3, <1>4, <1>5 DEF Rd!Next

(* More disks have failed than the level survives if a read finds nothing. *)
LEMMA RdLostLate ==
    ASSUME Rd!ShapesAssumption, RdTypeInv, NEW lba \in Rd!Lbas, Rd!Read(lba) = Rd!Lost
    PROVE  Cardinality(failed) > Rd!Survives
  <1>. DEFINE d == Rd!DiskOf(lba)
              row == Rd!RowOf(lba)
  <1>1. d \in Rd!Disks /\ row \in Rd!Rows
    BY RdPlace DEF RdTypeInv
  <1>2. IsFiniteSet(failed) /\ Cardinality(failed) \in Nat
    BY RdDisksFinite, FS_Subset, FS_CardinalityType DEF RdTypeInv
  <1>3. d \in failed
    <2>1. d \notin failed => disk[d][row] \in Rd!Bit
      BY <1>1 DEF RdTypeInv
    <2>2. shape.level = 1 /\ Rd!Disks \ failed # {} => disk[Rd!First(Rd!Disks \ failed)][row] \in Rd!Bit
      <3>1. Rd!Disks \ failed # {} => Rd!First(Rd!Disks \ failed) \in Rd!Disks
        BY RdDisksFinite, RdLeast DEF RdTypeInv
      <3>. QED  BY <1>1, <3>1 DEF RdTypeInv
    <2>. QED  BY <1>1, <2>1, <2>2 DEF Rd!Read, Rd!Lost, Rd!Bit
  <1>4. Cardinality(failed) > 0
    BY <1>2, <1>3, FS_EmptySet
  <1>5. CASE shape.level = 1
    <2>1. Rd!Disks \ failed = {}
      <3>1. SUFFICES ASSUME Rd!Disks \ failed # {} PROVE FALSE
        OBVIOUS
      <3>2. Rd!First(Rd!Disks \ failed) \in Rd!Disks
        BY <3>1, RdDisksFinite, RdLeast DEF RdTypeInv
      <3>3. disk[Rd!First(Rd!Disks \ failed)][row] \in Rd!Bit
        BY <1>1, <3>2 DEF RdTypeInv
      <3>. QED  BY <1>5, <3>1, <3>3 DEF Rd!Read, Rd!Lost, Rd!Bit
    <2>2. failed = Rd!Disks
      BY <2>1 DEF RdTypeInv
    <2>3. PICK n \in Nat : n = shape.ndisks /\ Cardinality(Rd!Disks) = n
      BY RdDisksFinite, RdShape DEF RdTypeInv
    <2>. QED  BY <1>5, <2>2, <2>3 DEF Rd!Survives
  <1>6. CASE shape.level = 0
    BY <1>4, <1>6 DEF Rd!Survives
  <1>7. CASE Rd!Striped
    <2>1. failed \ {d} # {}
      <3>1. Rd!Xor(disk, Rd!Disks \ {d}, row) \in Rd!Bit
        BY RdDisksFinite, RdXorBit, FS_Subset DEF RdTypeInv
      <3>. QED  BY <1>3, <1>7, <3>1 DEF Rd!Read, Rd!Reconstruct, Rd!Lost, Rd!Bit, Rd!Striped
    <2>2. IsFiniteSet(failed \ {d}) /\ Cardinality(failed \ {d}) = Cardinality(failed) - 1
      BY <1>2, <1>3, FS_RemoveElement
    <2>3. Cardinality(failed \ {d}) \in Nat /\ Cardinality(failed \ {d}) # 0
      BY <2>1, <2>2, FS_EmptySet, FS_CardinalityType
    <2>. QED  BY <1>2, <1>7, <2>2, <2>3 DEF Rd!Survives, Rd!Striped
  <1>. QED  BY <1>5, <1>6, <1>7, RdShape DEF Rd!Striped, RdTypeInv

LEMMA RdEnough ==
    ASSUME Rd!ShapesAssumption, RdIInv
    PROVE  Rd!ReadsBack
  <1>. USE DEF RdIInv
  <1>1. SUFFICES ASSUME ~beyond, NEW lba \in Rd!Lbas, Rd!Read(lba) # Rd!Lost, lba \notin stale
                 PROVE  Rd!Read(lba) = last[lba]
    BY RdLostLate, RdCardinality DEF Rd!ReadsBack
  <1>. DEFINE d == Rd!DiskOf(lba)
              row == Rd!RowOf(lba)
  <1>2. d \in Rd!Disks /\ row \in Rd!Rows /\ (Rd!Striped => d # RdParity(row))
    BY RdPlace DEF RdTypeInv
  <1>3. RdKept(lba)
    BY <1>1 DEF RdKeptInv
  <1>4. CASE shape.level = 1
    <2>1. CASE Rd!Disks \ failed # {}
      <3>1. Rd!First(Rd!Disks \ failed) \in Rd!Disks \ failed
        BY <2>1, RdDisksFinite, RdLeast DEF RdTypeInv
      <3>. QED  BY <1>3, <1>4, <2>1, <3>1 DEF Rd!Read, RdKept
    <2>2. CASE Rd!Disks \ failed = {}
      BY <1>1, <1>2, <1>4, <2>2 DEF Rd!Read, Rd!Striped
    <2>. QED  BY <2>1, <2>2
  <1>5. CASE shape.level # 1
    <2>1. disk[d][row] = last[lba]
      BY <1>3, <1>5 DEF RdKept
    <2>2. CASE d \notin failed
      BY <1>5, <2>1, <2>2 DEF Rd!Read
    <2>3. CASE d \in failed
      <3>1. Rd!Striped /\ failed = {d} /\ Rd!Read(lba) = Rd!Xor(disk, Rd!Disks \ {d}, row)
        BY <1>1, <1>5, <2>3 DEF Rd!Read, Rd!Reconstruct
      <3>2. Rd!Xor(disk, Rd!Disks \ {d}, row) = disk[d][row]
        BY <1>1, <1>2, <3>1, RdRecovers
      <3>. QED  BY <2>1, <3>1, <3>2
    <2>. QED  BY <2>2, <2>3
  <1>. QED  BY <1>4, <1>5

LEMMA RdReadsBack ==
    ASSUME Rd!ShapesAssumption
    PROVE  Rd!Spec => []Rd!ReadsBack
  <1>1. Rd!Init => RdIInv
    BY RdInitKeeps
  <1>2. RdIInv /\ [Rd!Next]_Rd!vars => RdIInv'
    BY RdNextKeeps
  <1>3. RdIInv => Rd!ReadsBack
    BY RdEnough
  <1>. QED  BY <1>1, <1>2, <1>3, PTL DEF Rd!Spec

-----------------------------------------------------------------------------
(* The components together.                                                *)

(* A behaviour of MCSafety is one of each component. *)
LEMMA SafetyImplements ==
    SafetySpec => /\ Pb!Spec /\ La!Spec /\ Ut!Spec /\ Hp!Spec /\ Rd!Spec
                  /\ Pr!Spec /\ In!Spec /\ Sm!Spec /\ Pp!Spec /\ Lg!Spec
                  /\ Co!Spec /\ Bf!Spec
<1>1. Initially => /\ Pb!Init /\ La!Init /\ Ut!Init /\ Hp!Init /\ Rd!Init
                   /\ Pr!Init /\ In!Init /\ Sm!Init /\ Pp!Init /\ Lg!Init
                   /\ Co!Init /\ Bf!Init
  BY DEF Initially
<1>2. [Step]_allVars => [Pb!Next]_Pb!vars
  BY DEF Step, Only, allVars, bufferVars, Pb!vars, Pb!ring
<1>3. [Step]_allVars => [La!Next]_La!vars
  BY DEF Step, Only, allVars, launcherVars, La!vars
<1>4. [Step]_allVars => [Ut!Next]_Ut!vars
  BY DEF Step, Only, allVars, uthreadVars, Ut!vars
<1>5. [Step]_allVars => [Hp!Next]_Hp!vars
  BY DEF Step, Only, allVars, heapVars, Hp!vars
<1>6. [Step]_allVars => [Rd!Next]_Rd!vars
  BY DEF Step, Only, allVars, raidVars, Rd!vars
<1>7. [Step]_allVars => [Pr!Next]_Pr!vars
  BY DEF Step, Only, allVars, procVars, Pr!vars
<1>8. [Step]_allVars => [In!Next]_In!vars
  BY DEF Step, Only, allVars, inodeVars, In!vars
<1>9. [Step]_allVars => [Sm!Next]_Sm!vars
  BY DEF Step, Only, allVars, smpVars, Sm!vars, Sm!cpuVars, Sm!schedVars, Sm!irqVars,
         Sm!procVars, Sm!threadVars, Sm!uartVars
<1>10. [Step]_allVars => [Pp!Next]_Pp!vars
  BY DEF Step, Only, allVars, pipeVars, Pp!vars
<1>11. [Step]_allVars => [Lg!Next]_Lg!vars
  BY DEF Step, Only, allVars, logVars, Lg!vars
<1>12. [Step]_allVars => [Co!Next]_Co!vars
  BY DEF Step, Only, allVars, consoleVars, Co!vars
<1>13. [Step]_allVars => [Bf!Next]_Bf!vars
  BY DEF Step, Only, allVars, bigfileVars, Bf!vars
<1> QED
  BY <1>1, <1>2, <1>3, <1>4, <1>5, <1>6, <1>7, <1>8, <1>9, <1>10, <1>11, <1>12, <1>13, PTL
  DEF SafetySpec, Pb!Spec, La!Spec, Ut!Spec, Hp!Spec, Rd!Spec, Pr!Spec, In!Spec, Sm!Spec,
      Pp!Spec, Lg!Spec, Co!Spec, Bf!Spec

(* pcbuffer.c: no wake-up is lost, for any threads and any capacity,       *)
(* spurious wake-ups included.                                             *)
THEOREM WakeupsKept == SafetySpec => []NoLostWakeup
BY SafetyImplements, PbWakeupsKept, PTL DEF NoLostWakeup

(* pcbuffer.h: the ring is a bounded queue, whatever it holds and however  *)
(* long it is: nothing is lost, duplicated or taken out of order.          *)
THEOREM RingIsQueue == SafetySpec => ImplementsFifo
BY SafetyImplements, PbRefinement DEF ImplementsFifo

(* mycontainer.c: the child passes the pipe only with its maps written and *)
(* its limits in place, and does not outlive a launcher that ends once it  *)
(* has started to set up, however that ends.                               *)
THEOREM ChildContained == SafetySpec => Contained
BY SafetyImplements, LaContained DEF Contained

(* uthread.c: queue, table and stacks agree, and no thread runs twice      *)
(* while another waits, for a table of any size.                           *)
THEOREM TurnsInOrder == SafetySpec => RoundRobin
BY SafetyImplements, UtRoundRobin DEF RoundRobin

(* mymalloc.c: the blocks tile the arena after any sequence of calls, and  *)
(* the walk of mym_check_heap, a recursion of the length of the arena,     *)
(* finds nothing wrong, for an arena of any length.                        *)
THEOREM BlocksTileArena == SafetySpec => []HeapTiled
BY SafetyImplements, HpTiled, SizesAssumption, PTL DEF HeapTiled

(* raidsim.c: whatever is written, failed and rebuilt in whatever order,   *)
(* every block reads back what was last written to it or is reported lost, *)
(* and only after more failures than the level survives, for any number of *)
(* disks, rows and blocks to a chunk.                                      *)
THEOREM BlocksReadBack == SafetySpec => []ReadsBack
BY SafetyImplements, RdReadsBack, SizesAssumption, PTL DEF ReadsBack
=============================================================================
